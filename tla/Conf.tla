-------------------------------- MODULE Conf --------------------------------
(***************************************************************************)
(* The configuration: what a file may set (conf.c), which combinations of  *)
(* fields are accepted (conf_check, queue_new), and what the program makes *)
(* of an accepted one: its mode, the socket it opens and the room it finds *)
(* for a KCP segment in a datagram.                                        *)
(*                                                                         *)
(* A file is a function from the keys it sets to values [type, v].  Of the *)
(* fields there are those that decide the mode, the socket and the size of *)
(* a segment.  The text of an address does not matter here, only whether   *)
(* it is given: an absent one is NULL.                                     *)
(***************************************************************************)
EXTENDS Integers, TLC, Null

Addresses == {"listen", "connect", "kcp_bind", "kcp_connect", "rendezvous_server", "http_listen"}
Strings == Addresses \cup {"method", "password", "psk", "obfs"}

\* RANGE_CHECK: the least and the greatest value of a number.
Bounds == [k \in {"kcp.mtu"} |-> <<300, 1500>>] @@ [k \in {"keepalive"} |-> <<0, 600>>]

conf_default ==
  [k \in Strings |-> NULL] @@ [k \in {"kcp.mtu"} |-> 1400] @@ [k \in {"keepalive"} |-> 25]

\* The type that the callbacks of a scope ask jutil for.  Other keys are ignored.
kcp_scope_cb == [k \in {"kcp.mtu"} |-> "number"]
main_scope_cb ==
  kcp_scope_cb @@ [k \in Strings |-> "string"] @@ [k \in {"keepalive"} |-> "number"]

Known(file) == DOMAIN file \cap DOMAIN main_scope_cb
WellTyped(file) == \A k \in Known(file) : file[k].type = main_scope_cb[k]
Read(file) == [k \in Known(file) |-> file[k].v] @@ conf_default

Given(c, k) == c[k] # NULL
Mode(c) ==
  {m \in {"SERVER", "CLIENT", "RENDEZVOUS"} :
     Given(c, CASE m = "SERVER" -> "connect" [] m = "CLIENT" -> "listen"
                [] m = "RENDEZVOUS" -> "rendezvous_server")}

\* Bug: a rendezvous server without kcp_bind is accepted.
conf_check_NoBroker(c) ==
  /\ ~({"SERVER", "CLIENT"} \subseteq Mode(c))
  /\ "RENDEZVOUS" \in Mode(c) => c["keepalive"] > 0
  /\ Mode(c) = {"SERVER"} => Given(c, "kcp_bind")
  /\ Mode(c) = {"CLIENT"} => Given(c, "kcp_connect")
  /\ ~(Given(c, "psk") /\ Given(c, "password"))
  /\ \A k \in DOMAIN Bounds : c[k] >= Bounds[k][1] /\ c[k] <= Bounds[k][2]

conf_check(c) ==
  /\ ~({"SERVER", "CLIENT"} \subseteq Mode(c))
  /\ "RENDEZVOUS" \in Mode(c) => c["keepalive"] > 0
  /\ Mode(c) = {"SERVER"} => Given(c, "kcp_bind")
  /\ Mode(c) = {"CLIENT"} => Given(c, "kcp_connect")
  /\ Mode(c) \cap {"SERVER", "CLIENT"} = {} => Given(c, "kcp_bind")
  /\ ~(Given(c, "psk") /\ Given(c, "password"))
  /\ \A k \in DOMAIN Bounds : c[k] >= Bounds[k][1] /\ c[k] <= Bounds[k][2]

\* The configuration of a file, NULL when it is refused.
conf_read(file) ==
  IF WellTyped(file) /\ conf_check(Read(file)) THEN Read(file) ELSE NULL

\* queue_new: obfuscation needs encryption and one of the two plain modes.  Method
\* and key are such that crypto_new and crypto_b64psk take them.
queue_new_ok(c) ==
  Given(c, "obfs") => Mode(c) \in {{"SERVER"}, {"CLIENT"}} /\ Given(c, "method")

\* obfs_new knows one name; with any other the packets go through UDP.
obfs_new(c) == c["obfs"] = "dpi/tcp-wnd"

-----------------------------------------------------------------------------
(* The packet connection *)

\* The addresses that udp_bind, or obfs_start in its place, looks up.
Needs(c) ==
  IF obfs_new(c) THEN IF "SERVER" \in Mode(c) THEN {"kcp_bind"} ELSE {"kcp_connect"}
  ELSE {k \in {"kcp_bind", "kcp_connect", "rendezvous_server"} : Given(c, k)}

\* Bytes of headers, by family of address.
udp_overhead(family) == IF family = "AF_INET" THEN 28 ELSE 48
obfs_overhead(family) == IF family = "AF_INET" THEN 40 ELSE 60

\* Tag and nonce of the methods of crypto_new.
Overheads == {16 + 12, 16 + 24}

server_mss(c, family, overhead) ==
  c["kcp.mtu"] - (IF obfs_new(c) THEN obfs_overhead(family) ELSE udp_overhead(family))
               - (IF Given(c, "method") THEN overhead ELSE 0)

\* What ikcp_setmtu takes; kcp_new does not look at its result.
ikcp_setmtu_ok(mtu) == mtu >= 50

\* Every file that is accepted gives a program that can work: all the addresses
\* that it looks up are there, at least one of them opens the socket, and a KCP
\* segment fits into a datagram whatever the family and the encryption.
Startable(file) ==
  LET c == conf_read(file)
  IN  c # NULL /\ queue_new_ok(c) =>
        /\ Needs(c) # {} /\ \A k \in Needs(c) : Given(c, k)
        /\ Mode(c) \cap {"CLIENT", "RENDEZVOUS"} = {"CLIENT"} => "kcp_connect" \in Needs(c)
        /\ \A family \in {"AF_INET", "AF_INET6"}, overhead \in Overheads :
             ikcp_setmtu_ok(server_mss(c, family, overhead))

=============================================================================
