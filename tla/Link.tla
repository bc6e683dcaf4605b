-------------------------------- MODULE Link --------------------------------
(***************************************************************************)
(* How a client finds its server and keeps it: by name, resolved again     *)
(* when nothing is heard, or with the help of a rendezvous server that     *)
(* makes both ends punch holes into their NATs (session 0 of session.c,    *)
(* keepalive_cb and resolve_cb of event_timer.c, udp_bind and              *)
(* server_resolve of server.c).                                            *)
(*                                                                         *)
(* An operator of a callback takes and returns the record link: what the   *)
(* three processes keep, what their NATs let in, and the datagrams that    *)
(* were just sent.  Time goes in periods of s->keepalive seconds.          *)
(***************************************************************************)
EXTENDS Integers, Sequences, FiniteSets

CONSTANTS
  Modes,             \* the modes to start in: subset of {"direct", "rendezvous"}
  Timeout,           \* s->timeout in periods
  MaxMove,           \* how often each end gets a new public address: a function
  MaxRestart,        \* bound on the restarts of the rendezvous server
  MaxNet             \* bound on the datagrams under way

Client == "client"
Server == "server"
Broker == "rendezvous_server"
End == {Client, Server}

ASSUME LinkAssumption ==
  /\ Modes \subseteq {"direct", "rendezvous"}
  /\ Timeout \in Nat \ {0} /\ MaxRestart \in Nat /\ MaxNet \in Nat
  /\ MaxMove \in [End -> Nat]

VARIABLES
  mode,              \* conf->mode of the client and of the server
  link,
  net,               \* the datagrams under way
  restarts,
  last               \* history: what the last step was, for the fairness

vars == <<mode, link, net, restarts, last>>

-----------------------------------------------------------------------------
(* Addresses.  A host is one cell of a message for AF_INET, two for AF_INET6. *)

AF_INET == 4
AF_INET6 == 6
ATYP_INET == 0
ATYP_INET6 == 1
INETADDR_LENGTH == 3
INET6ADDR_LENGTH == 4

NoAddr == [family |-> 0]
inet(host, port) == [family |-> AF_INET, host |-> host, port |-> port]
inet6(host, port) == [family |-> AF_INET6, host |-> host, port |-> port]

INADDR_ANY == <<"any", 0>>
LOOPBACK == <<"loopback", 0>>
BROADCAST == <<"broadcast", 0>>
LINKLOCAL == <<"linklocal", 0>>
MULTICAST == <<"multicast", 0>>

addr_set_any(family) == [family |-> family, host |-> INADDR_ANY, port |-> 0]

\* The public address of end n after its k-th move.
Public(n, k) == inet(<<n, k>>, 1)
\* The address addr_set_local finds: that of the host, with the port of another
\* socket, which is closed again.
addr_set_local(n) == inet(<<n, -1>>, 2)

\* How many cells of b are an address, and that address.
inetaddr_read(b) ==
  IF Len(b) < 1 THEN [n |-> 0, addr |-> NoAddr]
  ELSE IF b[1] = ATYP_INET /\ Len(b) >= INETADDR_LENGTH
  THEN [n |-> INETADDR_LENGTH, addr |-> inet(b[2], b[3])]
  ELSE IF b[1] = ATYP_INET6 /\ Len(b) >= INET6ADDR_LENGTH
  THEN [n |-> INET6ADDR_LENGTH, addr |-> inet6(<<b[2], b[3]>>, b[4])]
  ELSE [n |-> 0, addr |-> NoAddr]

inetaddr_write(a) ==
  CASE a.family = AF_INET -> <<ATYP_INET, a.host, a.port>>
    [] a.family = AF_INET6 -> <<ATYP_INET6, a.host[1], a.host[2], a.port>>
    [] OTHER -> <<>>

\* An address that is worth a ping.
is_punch_addr(a) ==
  CASE a.family = AF_INET ->
         a.host \notin {INADDR_ANY, BROADCAST, MULTICAST} /\ a.port # 0
    [] a.family = AF_INET6 ->
         a.host \notin {INADDR_ANY, LOOPBACK, LINKLOCAL, MULTICAST} /\ a.port # 0
    [] OTHER -> FALSE

-----------------------------------------------------------------------------
(* Session 0 *)

\* The public address of a process; an end does not know its own.
Address(w, n) == IF n = Broker THEN inet(<<Broker, 0>>, 1) ELSE Public(n, w.moves[n])

\* A datagram of n to an address.  It also makes n's NAT let in the answers.
ss0_send(w, n, to, what, body) ==
  [w EXCEPT !.out = Append(@, [from |-> Address(w, n), to |-> to, what |-> what, body |-> body]),
            !.holes = IF n = Broker \/ to.port # 1 THEN @ ELSE [@ EXCEPT ![n] = @ \cup {to}],
            !.client.spoke = @ \/ n = Client]

ss0_on_ping(w, n, m) == ss0_send(w, n, m.from, "PONG", <<>>)

\* Mutant: any answer is taken for that of the server.
ss0_on_pong_Always(w, n, m) ==
  IF n # Client THEN w
  ELSE [w EXCEPT !.client.inflight_ping = FALSE, !.client.connected = TRUE,
                 !.client.kcp_connect = m.from]

\* The first answer to a punch is the server's address.
ss0_on_pong(w, n, m) ==
  IF n # Client THEN w
  ELSE LET found == mode = "rendezvous" /\ ~w.client.connected
       IN  [w EXCEPT !.client.inflight_ping = FALSE,
                     !.client.connected = @ \/ found,
                     !.client.kcp_connect = IF found THEN m.from ELSE @]

\* A server registers: the address it knows, and the one it is seen at.
ss0_on_listen(w, n, m) ==
  LET r == inetaddr_read(m.body)
  IN  IF r.n = 0 THEN w
      ELSE [w EXCEPT !.broker = [listened |-> TRUE, server_addr |-> <<r.addr, m.from>>]]

\* Mutant: the client is told its own addresses.
ss0_on_connect_Swapped(w, n, m) ==
  LET r == inetaddr_read(m.body)
      toServer == inetaddr_write(r.addr) \o inetaddr_write(m.from)
  IN  IF r.n = 0 \/ ~w.broker.listened THEN w
      ELSE ss0_send(ss0_send(w, n, w.broker.server_addr[2], "PUNCH", toServer),
                    n, m.from, "PUNCH", toServer)

\* Both ends are told the two addresses of the other one.
ss0_on_connect(w, n, m) ==
  LET r == inetaddr_read(m.body)
      toServer == inetaddr_write(r.addr) \o inetaddr_write(m.from)
      toClient == inetaddr_write(w.broker.server_addr[1]) \o inetaddr_write(w.broker.server_addr[2])
  IN  IF r.n = 0 \/ ~w.broker.listened THEN w
      ELSE ss0_send(ss0_send(w, n, w.broker.server_addr[2], "PUNCH", toServer),
                    n, m.from, "PUNCH", toClient)

ss0_on_punch(w, n, m) ==
  LET r1 == inetaddr_read(m.body)
      r2 == inetaddr_read(SubSeq(m.body, r1.n + 1, Len(m.body)))
      Ping(v, a) == IF is_punch_addr(a) THEN ss0_send(v, n, a, "PING", <<>>) ELSE v
  IN  IF r1.n = 0 \/ r2.n = 0 THEN w ELSE Ping(Ping(w, r1.addr), r2.addr)

\* queue_dispatch and session0: last_recv_time is set for any packet.
session0(v, n, m) ==
  LET w == IF n = Client THEN [v EXCEPT !.client.age = 0] ELSE v
  IN  CASE m.what = "PING" -> ss0_on_ping(w, n, m)
        [] m.what = "PONG" -> ss0_on_pong(w, n, m)
        [] m.what = "LISTEN" -> ss0_on_listen(w, n, m)
        [] m.what = "CONNECT" -> ss0_on_connect(w, n, m)
        [] m.what = "PUNCH" -> ss0_on_punch(w, n, m)

-----------------------------------------------------------------------------
(* The timers *)

udp_rendezvous(w, n, what) ==
  ss0_send(w, n, Address(w, Broker), what, inetaddr_write(w.rendezvous_local[n]))

server_ping(w) ==
  [ss0_send(w, Client, w.client.kcp_connect, "PING", <<>>) EXCEPT !.client.inflight_ping = TRUE]

\* late: the ping in flight has timed out; idle: nothing was sent for a period.
\* A server in rendezvous mode registers, a client is looking for the server or
\* pings it.
keepalive_cb(w, n, late, idle) ==
  CASE n = Server -> udp_rendezvous(w, n, "LISTEN")
    [] n = Client ->
         IF mode = "rendezvous" /\ ~w.client.connected THEN udp_rendezvous(w, n, "CONNECT")
         ELSE IF w.client.inflight_ping /\ ~late THEN w
         ELSE LET v == [w EXCEPT !.client.inflight_ping = FALSE]
              IN  IF idle THEN server_ping(v) ELSE v

\* Mutant: the address is only looked up by name.
server_resolve_KeepsConnected(w, name) ==
  IF mode = "direct" /\ name # NoAddr
  THEN [w EXCEPT !.client.connected = TRUE, !.client.kcp_connect = name] ELSE w

\* server_resolve and udp_bind of the client; name is what its lookup gives.
server_resolve(w, name) ==
  LET v == [w EXCEPT !.client.connected = FALSE]
  IN  IF mode = "direct" /\ name # NoAddr
      THEN [v EXCEPT !.client.connected = TRUE, !.client.kcp_connect = name] ELSE v

resolve_cb(w, name) == [server_resolve(w, name) EXCEPT !.client.age = 0]

-----------------------------------------------------------------------------
(* The network *)

\* The process that a datagram gets to.  The NAT of an end lets in what answers;
\* a server that is not in rendezvous mode is open, and the socket of its client
\* is connected to it.
Gets(w, n, m) ==
  /\ m.to = Address(w, n)
  /\ \/ n = Broker
     \/ n = Server /\ mode = "direct"
     \/ n = Client /\ mode = "direct" /\ m.from = w.client.kcp_connect
     \/ n \in End /\ mode = "rendezvous" /\ m.from \in w.holes[n]

\* Everything that was sent arrives, in order, and so do the answers to it.
RECURSIVE AllArrive(_)
AllArrive(w) ==
  IF w.out = <<>> THEN w
  ELSE LET m == Head(w.out)
           v == [w EXCEPT !.out = Tail(@)]
           to == {n \in End \cup {Broker} : Gets(v, n, m)}
       IN  AllArrive(IF to = {} THEN v ELSE session0(v, CHOOSE n \in to : TRUE, m))

\* What was sent gets into the network or is lost, like what is under way.
Put(w, left) ==
  /\ link' = [w EXCEPT !.out = <<>>]
  /\ \E S \in SUBSET (left \cup {m \in {w.out[i] : i \in 1..Len(w.out)} : m.to.port = 1}) :
       Cardinality(S) <= MaxNet /\ net' = S

-----------------------------------------------------------------------------
(* The steps *)

Init ==
  /\ mode \in Modes
  /\ \E local \in {TRUE} \cup {mode = "direct"} :
       link = [client |-> [connected |-> mode = "direct",
                           kcp_connect |-> IF mode = "direct" THEN Public(Server, 0) ELSE NoAddr,
                           inflight_ping |-> FALSE, spoke |-> FALSE, age |-> 0],
               broker |-> [listened |-> FALSE, server_addr |-> <<NoAddr, NoAddr>>],
               rendezvous_local |-> [n \in End |-> IF local THEN addr_set_local(n)
                                                   ELSE addr_set_any(AF_INET)],
               moves |-> [n \in End |-> 0],
               holes |-> [n \in End |-> {}],
               out |-> <<>>]
  /\ net = {}
  /\ restarts = 0
  /\ last = "none"

\* server_new: only a client, or a server in rendezvous mode, has the timer.
HasTimer(n) == n = Client \/ mode = "rendezvous"

KeepaliveCb(n) ==
  /\ HasTimer(n)
  /\ \E w \in {keepalive_cb(link, n, late, idle) :
                 late \in BOOLEAN, idle \in {TRUE} \cup {~link.client.spoke}} : Put(w, net)
  /\ last' = "none"
  /\ UNCHANGED <<mode, restarts>>

\* The timer runs after everything has timed out, and nothing is lost.
Kept(n) == keepalive_cb(link, n, TRUE, TRUE)
CanTrip(n) == HasTimer(n) /\ Kept(n).out # <<>>
Trip(n) ==
  /\ CanTrip(n)
  /\ link' = AllArrive(Kept(n))
  /\ last' = n
  /\ UNCHANGED <<mode, net, restarts>>

Receive(n) ==
  /\ \E m \in net : Gets(link, n, m) /\ Put(session0(link, n, m), net \ {m})
  /\ last' = "none"
  /\ UNCHANGED <<mode, restarts>>

\* The timeout of resolve_cb is over.  The lookup fails, or gives an address that
\* the server has now or had before.
ResolveCb ==
  /\ link.client.age = Timeout
  /\ \E name \in {NoAddr} \cup {Public(Server, k) : k \in 0..link.moves[Server]} :
       /\ link' = resolve_cb(link, name)
       /\ last' = IF name = Address(link, Server) THEN "found" ELSE "failed"
  /\ UNCHANGED <<mode, net, restarts>>

\* A period ends.  The client has sent something in it, as keepalive_cb is not
\* late by a whole period, nor is resolve_cb.
CanElapse == link.client.spoke /\ link.client.age < Timeout
Elapse ==
  /\ CanElapse
  /\ link' = [link EXCEPT !.client.spoke = FALSE, !.client.age = @ + 1]
  /\ last' = "time"
  /\ UNCHANGED <<mode, net, restarts>>

\* An end gets a new public address, and a NAT that knows nobody.
Move(n) ==
  /\ link.moves[n] < MaxMove[n]
  /\ link' = [link EXCEPT !.moves[n] = @ + 1, !.holes[n] = {}]
  /\ last' = "none"
  /\ UNCHANGED <<mode, net, restarts>>

Restart ==
  /\ restarts < MaxRestart /\ mode = "rendezvous"
  /\ restarts' = restarts + 1
  /\ link' = [link EXCEPT !.broker = [listened |-> FALSE, server_addr |-> <<NoAddr, NoAddr>>]]
  /\ last' = "none"
  /\ UNCHANGED <<mode, net>>

Next ==
  \/ ResolveCb \/ Elapse \/ Restart
  \/ \E n \in End : KeepaliveCb(n) \/ Trip(n) \/ Move(n)
  \/ \E n \in End \cup {Broker} : Receive(n)

Spec == Init /\ [][Next]_vars

\* Time goes on and the timers run; now and then nothing is lost of what a timer
\* sends and of the answers to it; not every lookup fails.
Fairness ==
  /\ []<>~CanElapse \/ []<><<last' = "time">>_vars
  /\ []<>(link.client.age < Timeout)
  /\ []<><<last' = "failed">>_vars => []<><<last' = "found">>_vars
  /\ \A n \in End : []<>~CanTrip(n) \/ []<><<last' = n>>_vars

FairSpec == Spec /\ Fairness

-----------------------------------------------------------------------------
(* What is to be shown *)

\* A client that is connected is connected to an address of the server, never to
\* its own, nor to the rendezvous server, whatever answers arrive late.
MeetsServer == link.client.connected => link.client.kcp_connect.host[1] = Server

\* In rendezvous mode a client that is connected keeps its peer until it has
\* given it up: a late answer does not divert it (ss0_on_pong).
KeepsPeer ==
  [][mode = "rendezvous" /\ link.client.connected /\ link'.client.connected =>
       link'.client.kcp_connect = link.client.kcp_connect]_vars

\* Wherever the ends move to, the client comes to know the address the server has
\* now; in rendezvous mode it is connected to it, as often as that takes.  It never
\* stops to send: no loss makes it wait for ever (keepalive_cb, resolve_cb).
Current == link.client.kcp_connect = Address(link, Server)
Follows ==
  /\ []<>(Current /\ (mode = "rendezvous" => link.client.connected))
  /\ []<>(link.client.spoke)

=============================================================================
