-------------------------------- MODULE Obfs --------------------------------
(***************************************************************************)
(* The obfuscator (obfs.c): the fake TCP connections that make datagrams   *)
(* look like a download, one context (struct obfs_ctx) for each of them,   *)
(* found by the address of the peer in a table (see Table).  The variable  *)
(* obfs is struct obfs with the parts of struct server that obfs.c and its *)
(* callers change; a function of the code is an operator on it, a callback *)
(* of the event loop an action.                                            *)
(*                                                                         *)
(* Time is left out: a timer that runs may fire at any moment, and what is *)
(* compared with a timeout may be older or younger.  HTTP messages and the *)
(* headers of packets are reduced to what obfs.c distinguishes in them.    *)
(***************************************************************************)
EXTENDS Integers, FiniteSets

CONSTANTS
  Addrs,                 \* the addresses of peers
  Ports,                 \* the local addresses of a client's connections
  Modes,                 \* a subset of {"client", "server"}
  OBFS_MAX_CONTEXTS,
  STARTUP_LIMIT_START,
  STARTUP_LIMIT_FULL,
  MaxRedial,             \* where the count of redials stops: the last waiting time
  Garbage,               \* what a bit of memory that was not initialized may be
  NULL

ASSUME ObfsAssumption ==
  /\ Modes \subseteq {"client", "server"}
  /\ STARTUP_LIMIT_START <= STARTUP_LIMIT_FULL
  /\ Garbage \subseteq BOOLEAN

VARIABLE obfs

\* Contexts are named after the address of their peer.
Ids == Addrs \X {0, 1}
Live(o) == DOMAIN o.ctx

Init ==
  \E mode \in Modes :
    obfs = [mode |-> mode, contexts |-> [a \in Addrs |-> NULL],
            ctx |-> [c \in {} |-> 0], client |-> NULL, num_authenticated |-> 0,
            w_redial |-> "stopped", redial_count |-> 0, bind_addr |-> NULL,
            w_accept |-> mode = "server", w_listener |-> FALSE,
            connected |-> FALSE, kcp_connect |-> NULL, sessions |-> {}, started |-> FALSE]

obfs_find_ctx(o, a) == o.contexts[a]
table_size(o) == Cardinality({a \in Addrs : o.contexts[a] # NULL})

-----------------------------------------------------------------------------
(* Contexts *)

\* A new context with address a; in_table is not initialized.
obfs_ctx_new(o, id, a, laddr, garbage) ==
  LET new == [raddr |-> a, laddr |-> laddr, in_table |-> garbage, w_read |-> "stopped",
              w_write |-> FALSE, captured |-> FALSE, authenticated |-> FALSE,
              http_keepalive |-> FALSE]
  IN  [o EXCEPT !.ctx = [c \in Live(o) \cup {id} |-> IF c = id THEN new ELSE @[c]]]

obfs_ctx_free(o, id) == [o EXCEPT !.ctx = [c \in Live(o) \ {id} |-> @[c]]]

\* Bug: nothing is scheduled after the first attempt.
obfs_sched_redial_Once(o) ==
  IF o.mode # "client" \/ o.w_redial # "stopped" THEN o
  ELSE [o EXCEPT !.client = NULL,
                 !.w_redial = IF o.redial_count < 1 THEN "pending" ELSE "stopped"]

\* The first attempt is made at once, the others wait.
obfs_sched_redial(o) ==
  IF o.mode # "client" \/ o.w_redial # "stopped" THEN o
  ELSE [o EXCEPT !.client = NULL,
                 !.w_redial = IF o.redial_count < 1 THEN "pending" ELSE "active"]

\* Bug: the count of authenticated contexts is left as it is.
obfs_ctx_del_Uncounted(o, id) ==
  LET c == o.ctx[id]
      redial == IF o.client = id THEN obfs_sched_redial(o) ELSE o
  IN  [redial EXCEPT !.sessions = @ \ {c.raddr},
                     !.contexts[c.raddr] = IF c.in_table THEN NULL ELSE @,
                     !.ctx[id].in_table = FALSE]

\* Bug: the sessions of the peer stay.
obfs_ctx_del_KeepSessions(o, id) ==
  LET c == o.ctx[id]
      counted == IF c.authenticated THEN [o EXCEPT !.num_authenticated = @ - 1] ELSE o
      redial == IF o.client = id THEN obfs_sched_redial(counted) ELSE counted
  IN  [redial EXCEPT !.contexts[c.raddr] = IF c.in_table THEN NULL ELSE @,
                     !.ctx[id].in_table = FALSE]

\* Bug: the reference to the client's context stays.
obfs_ctx_del_KeepClient(o, id) ==
  LET c == o.ctx[id]
      counted == IF c.authenticated THEN [o EXCEPT !.num_authenticated = @ - 1] ELSE o
  IN  [counted EXCEPT !.sessions = @ \ {c.raddr},
                      !.contexts[c.raddr] = IF c.in_table THEN NULL ELSE @,
                      !.ctx[id].in_table = FALSE]

\* A context is forgotten with all sessions of its peer.
obfs_ctx_del(o, id) ==
  LET c == o.ctx[id]
      counted == IF c.authenticated THEN [o EXCEPT !.num_authenticated = @ - 1] ELSE o
      redial == IF o.client = id THEN obfs_sched_redial(counted) ELSE counted
  IN  [redial EXCEPT !.sessions = @ \ {c.raddr},
                     !.contexts[c.raddr] = IF c.in_table THEN NULL ELSE @,
                     !.ctx[id].in_table = FALSE]

DelFree(o, id) == obfs_ctx_free(obfs_ctx_del(o, id), id)

obfs_ctx_stop(o, id) == [o EXCEPT !.ctx[id].w_read = "stopped", !.ctx[id].w_write = FALSE]

\* What can come of sending wbuf: all of it is sent, a part, or the connection
\* has failed.  A part leaves wbuf as long as it was (wbuf.len += nbsend).
Sends == {"all", "part", "error"}
obfs_ctx_write(o, id, sent) ==
  CASE sent = "error" -> DelFree(o, id)
    [] sent = "part" -> [o EXCEPT !.ctx[id].w_write = TRUE]
    [] sent = "all" -> IF o.ctx[id].http_keepalive
                       THEN [o EXCEPT !.ctx[id].w_write = FALSE]
                       ELSE DelFree(o, id)

\* A server refuses a second context with the same address.
Refused(o, id) == o.mode = "server" /\ obfs_find_ctx(o, o.ctx[id].raddr) # NULL

\* The context enters the table, where a client's old one is replaced.
obfs_ctx_start(o, id) ==
  LET old == obfs_find_ctx(o, o.ctx[id].raddr)
      set == [o EXCEPT !.contexts[o.ctx[id].raddr] = id]
      replaced == IF old = NULL THEN set
                  ELSE DelFree(obfs_ctx_stop([set EXCEPT !.ctx[old].in_table = FALSE], old), old)
  IN  [replaced EXCEPT !.ctx[id].in_table = TRUE, !.ctx[id].w_read = o.mode]

-----------------------------------------------------------------------------
(* The client's connection *)

\* Bug: the filter is bound once.
obfs_bind_Once(o, laddr) == [o EXCEPT !.bind_addr = IF @ = NULL THEN laddr ELSE @]

\* The filter of the packet socket is replaced by one for laddr (see Packet).
obfs_bind(o, laddr) == [o EXCEPT !.bind_addr = laddr]

\* A client dials address a from laddr and sends its request.
obfs_ctx_dial(o, id, a, laddr, garbage, sent) ==
  LET new == obfs_ctx_new(o, id, a, laddr, garbage)
      start == obfs_ctx_start(obfs_bind(new, laddr), id)
      ready == [start EXCEPT !.client = id, !.ctx[id].http_keepalive = TRUE]
  IN  [obfs_ctx_write(ready, id, sent) EXCEPT !.kcp_connect = a]

FreshId(o, a) == IF <<a, 0>> \in Live(o) THEN <<a, 1>> ELSE <<a, 0>>

\* Resolving the address, or connecting, may fail; then nothing is scheduled.
Dialled(o) ==
  {o} \cup {obfs_ctx_dial(o, FreshId(o, a), a, laddr, garbage, sent) :
              a \in Addrs, laddr \in Ports, garbage \in Garbage, sent \in Sends}

\* The program does not start when the first attempt fails.
obfs_start ==
  /\ ~obfs.started
  /\ IF obfs.mode = "client"
     THEN obfs' \in {[o EXCEPT !.started = TRUE] : o \in Dialled(obfs) \ {obfs}}
     ELSE obfs' = [obfs EXCEPT !.started = TRUE]

obfs_redial_cb ==
  /\ obfs.started /\ obfs.w_redial # "stopped"
  /\ LET fired == [obfs EXCEPT !.w_redial = "stopped"]
         counted == [fired EXCEPT !.redial_count = IF @ < MaxRedial THEN @ + 1 ELSE @]
     IN  IF fired.client # NULL THEN obfs' = fired ELSE obfs' \in Dialled(counted)

\* server_resolve, called by resolve_cb or for SIGHUP.
obfs_resolve ==
  /\ obfs.started
  /\ obfs' = obfs_sched_redial(obfs)

-----------------------------------------------------------------------------
(* Accepting *)

HalfOpen(o) == table_size(o) - o.num_authenticated

is_startup_limited(o, unlucky) ==
  \/ table_size(o) >= OBFS_MAX_CONTEXTS
  \/ HalfOpen(o) >= STARTUP_LIMIT_FULL
  \/ HalfOpen(o) >= STARTUP_LIMIT_START /\ unlucky

\* A refused context is deleted as any other, with the sessions of its peer.
obfs_accept_one(o, id, a, garbage) ==
  LET new == obfs_ctx_new(o, id, a, NULL, garbage)
  IN  IF Refused(new, id) THEN DelFree(new, id) ELSE obfs_ctx_start(new, id)

\* One connection that is accepted, or an error that makes the listener sleep.
obfs_accept_cb ==
  /\ obfs.started /\ obfs.w_accept
  /\ \/ obfs' = [obfs EXCEPT !.w_accept = FALSE, !.w_listener = TRUE]
     \/ \E a \in Addrs, garbage \in Garbage, unlucky \in BOOLEAN :
          /\ ~is_startup_limited(obfs, unlucky)
          /\ obfs' = obfs_accept_one(obfs, FreshId(obfs, a), a, garbage)

obfs_listener_cb ==
  /\ obfs.w_listener
  /\ obfs' = [obfs EXCEPT !.w_listener = FALSE, !.w_accept = TRUE]

-----------------------------------------------------------------------------
(* Reading and writing *)

\* From now on, whatever happens on the connection is its end.
obfs_on_ready(o, id) ==
  LET r == [o EXCEPT !.ctx[id].w_read = "fail"]
  IN  IF o.mode = "client" THEN [r EXCEPT !.connected = TRUE, !.redial_count = 0] ELSE r

\* The request may be wrong, refused with an answer, or accepted.
obfs_server_read_cb(id) ==
  /\ obfs.ctx[id].w_read = "server"
  /\ \/ obfs' = DelFree(obfs, id)
     \/ \E sent \in Sends : obfs' = obfs_ctx_write(obfs, id, sent)
     \/ \E sent \in Sends :
          obfs' = obfs_ctx_write(
                    obfs_on_ready([obfs EXCEPT !.ctx[id].http_keepalive = TRUE], id), id, sent)

\* A connection that ends is stopped, a wrong answer deletes the context.
Answered(id) ==
  /\ obfs.ctx[id].w_read = "client"
  /\ obfs' = obfs_on_ready(obfs, id)
obfs_client_read_cb(id) ==
  \/ Answered(id)
  \/ /\ obfs.ctx[id].w_read = "client"
     /\ \/ obfs' = obfs_sched_redial(obfs_ctx_stop(obfs, id))
        \/ obfs' = DelFree(obfs, id)

obfs_fail_cb(id) ==
  /\ obfs.ctx[id].w_read = "fail"
  /\ obfs' = obfs_sched_redial(obfs_ctx_stop(obfs, id))

obfs_write_cb(id) ==
  /\ obfs.ctx[id].w_write
  /\ \E sent \in Sends : obfs' = obfs_ctx_write(obfs, id, sent)

\* The contexts in Old, which the filter takes out of the table, are deleted one
\* after the other; the order makes no difference.
TimedOut(o, Old) ==
  LET redial == IF o.client \in Old THEN obfs_sched_redial(o) ELSE o
      peers == {o.ctx[id].raddr : id \in Old}
  IN  [redial EXCEPT
         !.num_authenticated = @ - Cardinality({id \in Old : o.ctx[id].authenticated}),
         !.sessions = @ \ peers,
         !.contexts = [a \in Addrs |-> IF a \in peers THEN NULL ELSE @[a]],
         !.ctx = [c \in Live(o) \ Old |-> @[c]]]

obfs_timeout_cb ==
  /\ obfs.started
  /\ \E Old \in SUBSET {id \in Live(obfs) : obfs_find_ctx(obfs, obfs.ctx[id].raddr) = id} :
       obfs' = TimedOut(obfs, Old)

-----------------------------------------------------------------------------
(* Packets and sessions *)

\* The packet is for another port, for no context, or for the one of its sender.
obfs_open_inplace(o, a, dest) ==
  IF o.bind_addr # dest THEN NULL ELSE obfs_find_ctx(o, a)

\* The first packet of a connection shows its sequence numbers.
obfs_capture(o, id) == [o EXCEPT !.ctx[id].captured = TRUE]

obfs_ctx_auth(o, id) ==
  IF o.ctx[id].authenticated THEN o
  ELSE [o EXCEPT !.ctx[id].authenticated = TRUE, !.num_authenticated = @ + 1]

\* The packet may have data (psh) that decrypts (good); then queue_recv may accept
\* a session.
queue_dispatch ==
  /\ obfs.started
  /\ \E a \in Addrs, dest \in Ports \cup {NULL}, good \in BOOLEAN :
       LET id == obfs_open_inplace(obfs, a, dest)
           seen == obfs_capture(obfs, id)
           auth == obfs_ctx_auth(seen, id)
       IN  /\ id # NULL
           /\ obfs' = IF ~good THEN seen
                      ELSE IF obfs.mode = "client" THEN auth
                      ELSE [auth EXCEPT !.sessions = @ \cup {a}]

\* accept_one: a client's session, for the address that was dialled last.
accept_one ==
  /\ obfs.mode = "client" /\ obfs.connected
  /\ obfs' = [obfs EXCEPT !.sessions = @ \cup {obfs.kcp_connect}]

\* timeout_filt: the sessions of an address are over.
SessionTimeout == \E a \in obfs.sessions : obfs' = [obfs EXCEPT !.sessions = @ \ {a}]

\* A packet can be sent to address a.
obfs_seal_inplace(o, a) ==
  LET id == obfs_find_ctx(o, a) IN id # NULL /\ o.ctx[id].captured

Next ==
  \/ obfs_start \/ obfs_redial_cb \/ obfs_resolve
  \/ obfs_accept_cb \/ obfs_listener_cb
  \/ \E id \in Live(obfs) :
       \/ obfs_server_read_cb(id) \/ obfs_client_read_cb(id)
       \/ obfs_fail_cb(id) \/ obfs_write_cb(id)
  \/ obfs_timeout_cb
  \/ queue_dispatch \/ accept_one \/ SessionTimeout

Spec == Init /\ [][Next]_obfs

\* When nothing is received for long, resolve_cb comes, so that a client is not
\* without a connection and without a redial for ever; and if it redials, or waits
\* for an answer, again and again, a dial succeeds and an answer comes.  (Weak
\* fairness of obfs_resolve, strong fairness of a dial that succeeds and of
\* Answered, each with its enabling condition spelled out.)
Idle ==
  /\ obfs.started /\ obfs.client = NULL /\ obfs.w_redial = "stopped"
  /\ obfs_sched_redial(obfs) # obfs
Redialling == obfs.client = NULL /\ obfs.w_redial # "stopped"
Waiting == obfs.client # NULL /\ obfs.ctx[obfs.client].w_read = "client"
Ready == obfs.client # NULL /\ obfs.ctx[obfs.client].w_read = "fail"
Fairness ==
  obfs.mode = "client" =>
    /\ []<>obfs.started /\ []<>~Idle
    /\ []<>Redialling => []<><<Redialling /\ Waiting'>>_obfs
    /\ []<>Waiting => []<><<Waiting /\ Ready'>>_obfs
FairSpec == Spec /\ Fairness

-----------------------------------------------------------------------------
(* What is to be shown *)

Context ==
  [raddr : Addrs, laddr : Ports \cup {NULL}, in_table : BOOLEAN,
   w_read : {"stopped", "server", "client", "fail"}, w_write : BOOLEAN,
   captured : BOOLEAN, authenticated : BOOLEAN, http_keepalive : BOOLEAN]

TypeOK ==
  /\ Live(obfs) \subseteq Ids
  /\ \A id \in Live(obfs) : obfs.ctx[id] \in Context
  /\ obfs.client \in Ids \cup {NULL} /\ obfs.num_authenticated \in Nat
  /\ obfs.w_redial \in {"stopped", "pending", "active"} /\ obfs.redial_count \in 0..MaxRedial
  /\ obfs.bind_addr \in Ports \cup {NULL} /\ obfs.kcp_connect \in Addrs \cup {NULL}
  /\ {obfs.w_accept, obfs.w_listener, obfs.connected, obfs.started} \subseteq BOOLEAN
  /\ obfs.sessions \subseteq Addrs

\* Every context that is not freed is in the table, under its address, and knows
\* that it is (in_table): none is lost when another one is refused or replaced,
\* or deleted while the table is filtered, and no reference is left to a freed
\* one.
Owned ==
  /\ \A id \in Live(obfs) :
       obfs.ctx[id].in_table /\ obfs_find_ctx(obfs, obfs.ctx[id].raddr) = id
  /\ \A a \in Addrs : obfs.contexts[a] # NULL => obfs.contexts[a] \in Live(obfs)
  /\ obfs.client # NULL => obfs.client \in Live(obfs)

\* The count of authenticated contexts is exact, so that the number of half open
\* ones in is_startup_limited is not negative and obfs_stats' assertion holds; and
\* a server never holds more contexts, or half open ones, than its limits.
Counted ==
  /\ obfs.num_authenticated = Cardinality({id \in Live(obfs) : obfs.ctx[id].authenticated})
  /\ obfs.mode = "server" =>
       table_size(obfs) <= OBFS_MAX_CONTEXTS /\ HalfOpen(obfs) <= STARTUP_LIMIT_FULL

\* A server has no session of a peer without a connection: what it sends can
\* always be sealed.
Reachable ==
  obfs.mode = "server" => \A a \in obfs.sessions : obfs_seal_inplace(obfs, a)

\* The client waits for a redial only while it has no connection, and the filter
\* is bound to the connection it has.
Dialling ==
  obfs.mode = "client" =>
    /\ obfs.w_redial # "stopped" => obfs.client = NULL
    /\ obfs.client # NULL => obfs.ctx[obfs.client].laddr = obfs.bind_addr

\* What obfs_stats asserts before it prints the contexts.
StatsAssertion == obfs.num_authenticated <= table_size(obfs)

\* Whatever happens to its connections, a client has an answered one again.
Reconnects == obfs.mode = "client" => []<>Ready

=============================================================================
