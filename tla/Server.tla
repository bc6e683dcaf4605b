------------------------------- MODULE Server -------------------------------
(***************************************************************************)
(* The life of one process, between main and its return (main.c, server.c, *)
(* event_tcp.c, event_timer.c, event_http.c): start with an accepted       *)
(* configuration, the watchers of the two listening sockets and the timer  *)
(* that restarts them, sessions entering and leaving the hash table, new   *)
(* conversation numbers, a connection to the HTTP service, SIGHUP and      *)
(* SIGTERM.                                                                *)
(*                                                                         *)
(* A session is an object of memory with its key and whether it is still   *)
(* open; what else happens to it is the subject of module Session.         *)
(***************************************************************************)
EXTENDS Integers, Sequences, FiniteSets, FiniteSetsExt, Functions, Conf, Table, Http

CONSTANTS
  Files,            \* the configurations that are run
  AllFiles,         \* every file for which start-up is examined
  Peers,            \* addresses of packet peers
  CONV_MAX,         \* the greatest conversation number, 2^32 - 1 in the code
  MAX_SESSIONS,
  Callers,          \* bound: the keys from which datagrams arrive
  Requests,         \* bound: the requests of HTTP clients, by whether there is no table
  MaxBacklog,       \* bound: connections accepted in one callback
  MaxReload         \* bound: times that the configuration is read again

VARIABLES
  proc,             \* "boot", "run", "exit", or the assertion that failed
  conf,             \* the configuration in use
  objects,          \* struct config: the live ones, that of the server, that of main
  listener,         \* struct listener
  pkt,              \* struct pktconn
  w_resolve,        \* the timer of resolve_cb is active
  fds,              \* the open descriptors
  m_conv,
  sessions,         \* the hash table, NULL in a process that was started as broker
  live,             \* the sessions in memory: id -> [key, open, is_accepted]
  http,             \* struct http_ctx of the connection to the HTTP service, or NULL
  refused,          \* history: the request that was refused last, or NULL
  starved, torn     \* history: realloc failed; items were moved by table_reseed

vars == <<proc, conf, objects, listener, pkt, w_resolve, fds, m_conv, sessions, live, http,
          refused, starved, torn>>

Convs == 0..CONV_MAX
SessionKeys == Peers \X (Convs \ {0})
Ids == 1..(Cardinality(SessionKeys) + 1)
STDIN == 0
LISTEN == 3
HTTP == 4
UDP == 5
CONN == 6             \* of the connection to the HTTP service

ASSUME ServerAssumption ==
  /\ \A file \in Files : conf_read(file) # NULL /\ queue_new_ok(conf_read(file))
  /\ Callers \subseteq SessionKeys /\ Keys = SessionKeys
  /\ MAX_SESSIONS \in Nat \ {0} /\ CONV_MAX > MAX_SESSIONS
  /\ MaxBacklog \in Nat /\ MaxReload \in Nat

Is(mode) == mode \in Mode(conf)
Running == proc = "run"

-----------------------------------------------------------------------------
(* Start *)

\* The listener before listener_start: fd_http is 0, the number of stdin.
NoListener == [fd |-> -1, fd_http |-> STDIN, w_accept |-> FALSE, w_accept_http |-> FALSE,
               w_timer |-> FALSE]

listener_start(c) ==
  [NoListener EXCEPT !.fd = IF Given(c, "listen") THEN LISTEN ELSE @,
                     !.w_accept = Given(c, "listen"),
                     !.fd_http = IF Given(c, "http_listen") THEN HTTP ELSE @,
                     !.w_accept_http = Given(c, "http_listen")]

\* udp_bind: the lookups of the addresses in Lost fail, kcp_connect is found at
\* peer.  A socket that is in use has an address and cannot be bound again.
udp_bind(p, c, Lost, peer) ==
  LET bind == Given(c, "kcp_bind")
      bound == ~bind \/ ("kcp_bind" \notin Lost /\ p.fd = -1)
      dial == bound /\ Given(c, "kcp_connect")
      dialled == dial /\ "kcp_connect" \notin Lost
      opened == (bind /\ "kcp_bind" \notin Lost) \/ dialled
                \/ (bound /\ (dial => dialled) /\ Given(c, "rendezvous_server")
                          /\ "rendezvous_server" \notin Lost)
  IN  [p EXCEPT !.fd = IF opened THEN UDP ELSE @,
                !.connected = @ \/ dialled,
                !.kcp_connect = IF dialled THEN peer ELSE @]

udp_bind_ok(p, c, Lost) ==
  /\ Given(c, "kcp_bind") => "kcp_bind" \notin Lost /\ p.fd = -1
  /\ \A k \in {"kcp_connect", "rendezvous_server"} : Given(c, k) => k \notin Lost

\* server_resolve with configuration c.  A lookup of the target of a server that
\* fails comes before anything is changed.
server_resolve(c, Lost, peer) ==
  IF "connect" \in Lost THEN pkt
  ELSE udp_bind([pkt EXCEPT !.connected = FALSE], c, Lost, peer)

\* The lookups that may fail.
Lookups(c) ==
  SUBSET {k \in {"connect", "kcp_bind", "kcp_connect", "rendezvous_server"} : Given(c, k)}

\* main up to server_start.  m_conv starts at random; only a client uses it.  A
\* broker, neither client nor server, has no table.
Init ==
  /\ proc = "boot" /\ conf \in {conf_read(file) : file \in Files}
  /\ objects = [live |-> {0}, server |-> 0, main |-> 0]
  /\ listener = NoListener
  /\ pkt = [fd |-> -1, connected |-> FALSE, kcp_connect |-> NULL] /\ w_resolve = FALSE
  /\ fds = {STDIN} /\ m_conv \in IF Is("CLIENT") THEN Convs ELSE {0}
  /\ sessions \in IF Is("SERVER") \/ Is("CLIENT")
                  THEN {table_new(Is("SERVER"), seed) : seed \in Seeds} ELSE {NULL}
  /\ live = <<>> /\ http = NULL /\ refused = NULL
  /\ starved = FALSE /\ torn = FALSE

\* main: server_start, which may fail in the middle (a socket cannot be made, a
\* name is not found); then the process ends without server_stop.  The timer of
\* resolve_cb runs in clients and in rendezvous mode, with keepalives, and stays as
\* it is whatever is configured later.
Start ==
  /\ proc = "boot"
  /\ \E Lost \in Lookups(conf), peer \in Peers, ok \in BOOLEAN :
       /\ pkt' = IF "connect" \in Lost THEN pkt ELSE udp_bind(pkt, conf, Lost, peer)
       /\ proc' = IF ok /\ "connect" \notin Lost /\ udp_bind_ok(pkt, conf, Lost)
                  THEN "run" ELSE "failed"
       /\ listener' = listener_start(conf)
       /\ w_resolve' = (Mode(conf) \cap {"CLIENT", "RENDEZVOUS"} # {} /\ conf["keepalive"] > 0)
       /\ fds' = fds \cup ({listener'.fd, listener'.fd_http, pkt'.fd} \ {-1})
  /\ UNCHANGED <<conf, objects, m_conv, sessions, live, http, refused, starved, torn>>

-----------------------------------------------------------------------------
(* Sessions.  What accepting one changes is a record [sessions, live, m_conv,
   proc, starved, torn, done]; done ends the loop of tcp_accept_cb. *)

Now == [sessions |-> sessions, live |-> live, m_conv |-> m_conv, proc |-> proc,
        starved |-> starved, torn |-> torn, done |-> FALSE]

Becomes(st) ==
  /\ sessions' = st.sessions /\ live' = st.live /\ m_conv' = st.m_conv
  /\ proc' = st.proc /\ starved' = st.starved /\ torn' = st.torn

\* The address of a new session; bound: a torn table is not used for more.
NewIds(st) == IF st.torn THEN {} ELSE {Min(Ids \ DOMAIN st.live)}

\* table_set returned r for session id, in st; assert(elem == NULL) follows.
Inserted(st, r, id, key, accepted, ok) ==
  [st EXCEPT !.sessions = r.table,
             !.live = @ @@ (id :> [key |-> key, open |-> TRUE, is_accepted |-> accepted]),
             !.proc = IF r.element = NULL THEN @ ELSE "assert_elem",
             !.starved = @ \/ ~ok,
             !.torn = @ \/ (Reseeds(st.sessions, key)
                              /\ Stored(st.sessions, key, id, ok).table.freelist # HASHITEM_NIL)]

\* The outcomes of table_set for a new session: realloc may fail, a seed is random.
Insertions(st, key, accepted) ==
  {Inserted(st, table_set(st.sessions, key, id, ok, seed), id, key, accepted, ok) :
     id \in NewIds(st),
     ok \in IF Grows(st.sessions) THEN BOOLEAN ELSE {TRUE},
     seed \in IF Reseeds(st.sessions, key) THEN Seeds ELSE {st.sessions.seed}}

conv_next(conv) == LET n == (conv + 1) % (CONV_MAX + 1) IN IF n = 0 THEN 1 ELSE n

\* Bug: the next number is taken whether it is in use or not.
conv_new_Unchecked(st, peer) == {conv_next(st.m_conv)}

\* The numbers that conv_new may return: the next one, or when it is in use any
\* other that is not, reached from random numbers.
conv_new(st, peer) ==
  LET Unused(conv) == table_find(st.sessions, <<peer, conv>>) = NULL
      next == conv_next(st.m_conv)
  IN  IF Unused(next) THEN {next} ELSE {conv \in {conv_next(r) : r \in Convs} : Unused(conv)}

\* A connection was accepted.  Memory may run out before the session is in the
\* table; the number is used up all the same.
accept_one(st) ==
  UNION {LET named == [st EXCEPT !.m_conv = conv]
         IN  {named} \cup Insertions(named, <<pkt.kcp_connect, conv>>, FALSE) :
         conv \in conv_new(st, pkt.kcp_connect)}

\* One pass of the loop, for a connection that accept returned: refused at the
\* limit, when fcntl fails, and while there is no peer.
AcceptPass(st) ==
  IF st.done \/ st.proc # "run" THEN {st}
  ELSE IF st.sessions.size >= MAX_SESSIONS THEN {[st EXCEPT !.done = TRUE]}
  ELSE {[st EXCEPT !.done = TRUE]} \cup IF pkt.connected THEN accept_one(st) ELSE {}

Passes(n) ==
  LET after[i \in 0..n] ==
        IF i = 0 THEN {Now} ELSE UNION {AcceptPass(st) : st \in after[i - 1]}
  IN  after[n]

\* Bug: the timer is started only if it is running already.
Sleeping_NoTimer(l, w) == [l EXCEPT ![w] = FALSE]

\* accept failed for good: the watcher sleeps until listener_cb.
Sleeping(l, w) == [l EXCEPT ![w] = FALSE, !.w_timer = TRUE]

tcp_accept_cb ==
  /\ Running /\ listener.w_accept
  /\ \E n \in 0..MaxBacklog, error \in BOOLEAN : \E st \in Passes(n) :
       /\ Becomes(st)
       /\ listener' = IF error /\ ~st.done /\ st.proc = "run"
                      THEN Sleeping(listener, "w_accept") ELSE listener
  /\ UNCHANGED <<conf, objects, pkt, w_resolve, fds, http, refused>>

\* A datagram of an unknown conversation makes a session in a server; no limit
\* is applied.  table_set asserts that there is a table.
queue_recv ==
  /\ Running /\ Is("SERVER")
  /\ \/ /\ sessions = NULL
        /\ Becomes([Now EXCEPT !.proc = "assert_table"])
     \/ /\ sessions # NULL
        /\ \E key \in Callers :
             /\ table_find(sessions, key) = NULL
             /\ \E st \in Insertions(Now, key, TRUE) : Becomes(st)
  /\ UNCHANGED <<conf, objects, listener, pkt, w_resolve, fds, http, refused>>

\* A session ends, for one of the reasons in module Session.
session_kcp_stop ==
  /\ Running
  /\ \E id \in DOMAIN live : live[id].open /\ live' = [live EXCEPT ![id].open = FALSE]
  /\ UNCHANGED <<proc, conf, objects, listener, pkt, w_resolve, fds, m_conv, sessions, http, refused,
                 starved, torn>>

\* The sessions in Gone, which have waited long enough, are freed and deleted.
timeout_cb ==
  /\ Running
  /\ \E Gone \in SUBSET {id \in DOMAIN live : ~live[id].open} :
       /\ Gone # {}
       /\ sessions' = table_filter(sessions, Gone)
       /\ live' = Restrict(live, DOMAIN live \ Gone)
  /\ UNCHANGED <<proc, conf, objects, listener, pkt, w_resolve, fds, m_conv, http, refused, starved, torn>>

-----------------------------------------------------------------------------
(* The HTTP service, one connection at a time *)

\* The context becomes ctx.  http_ctx_free closes the descriptor.
HttpCtx(ctx) ==
  /\ http' = ctx
  /\ fds' = IF ctx = NULL THEN fds \ {CONN} ELSE fds \cup {CONN}

\* A connection that cannot be given a context is closed at once, without a trace.
http_accept_cb ==
  /\ Running /\ listener.w_accept_http /\ listener.fd_http = HTTP
  /\ \/ \E request \in Requests[sessions = NULL] :
          http = NULL /\ HttpCtx(http_accept(request)) /\ UNCHANGED listener
     \/ listener' = Sleeping(listener, "w_accept_http") /\ UNCHANGED <<http, fds>>
  /\ refused' = NULL
  /\ UNCHANGED <<proc, conf, objects, pkt, w_resolve, m_conv, sessions, live, starved, torn>>

\* n of the bytes of the answer in ctx are sent.
HttpWrites(ctx, n) ==
  /\ HttpCtx(IF WriteAsserts(ctx, n) THEN http_ctx_write(ctx, n) ELSE ctx)
  /\ proc' = IF WriteAsserts(ctx, n) THEN proc ELSE "assert_consume"

\* A piece of the request, the end of the stream or an error (no tokens), and the
\* answer as soon as the request is whole.
http_read_cb ==
  /\ Running /\ http # NULL /\ http.w_read
  /\ \E n \in 0..Min({ReadCap(http), Len(http.rest)}), len \in 0..MaxResponse :
       LET r == http_read(http, n)
           ctx == http_serve(r.ctx, len)
       IN  /\ refused' = IF r.verdict = "refused" THEN http.request ELSE NULL
           /\ IF r.verdict # "done" THEN len = 0 /\ HttpCtx(r.ctx) /\ UNCHANGED proc
              ELSE IF len = 0 THEN HttpCtx(NULL) /\ UNCHANGED proc
              ELSE \E sent \in 0..len : HttpWrites(ctx, sent)
  /\ UNCHANGED <<conf, objects, listener, pkt, w_resolve, m_conv, sessions, live, starved, torn>>

\* The socket takes some of the answer, or fails.
http_write_cb ==
  /\ Running /\ http # NULL /\ http.w_write
  /\ \/ \E n \in 0..http.wbuf : HttpWrites(http, n)
     \/ HttpCtx(NULL) /\ UNCHANGED proc
  /\ UNCHANGED <<conf, objects, listener, pkt, w_resolve, m_conv, sessions, live, refused, starved, torn>>

http_timeout_cb ==
  /\ Running /\ http # NULL /\ http.w_timeout
  /\ HttpCtx(NULL)
  /\ UNCHANGED <<proc, conf, objects, listener, pkt, w_resolve, m_conv, sessions, live, refused,
                 starved, torn>>

-----------------------------------------------------------------------------
(* Timers, signals and the end *)

\* Both watchers are started again; the one of fd_http also where there is no
\* HTTP service, because its descriptor is 0 and not -1; that one has no callback.
listener_cb ==
  /\ Running /\ listener.w_timer
  /\ listener' = [listener EXCEPT !.w_timer = FALSE,
                                  !.w_accept = @ \/ listener.fd # -1,
                                  !.w_accept_http = @ \/ listener.fd_http # -1]
  /\ UNCHANGED <<proc, conf, objects, pkt, w_resolve, fds, m_conv, sessions, live, http, refused,
                 starved, torn>>

resolve_cb ==
  /\ Running /\ w_resolve
  /\ \E Lost \in Lookups(conf), peer \in Peers : pkt' = server_resolve(conf, Lost, peer)
  /\ UNCHANGED <<proc, conf, objects, listener, w_resolve, fds, m_conv, sessions, live, http, refused,
                 starved, torn>>

\* In rendezvous mode the address of the server comes with its PONG.
ss0_on_pong ==
  /\ Running /\ {"CLIENT", "RENDEZVOUS"} \subseteq Mode(conf) /\ ~pkt.connected
  /\ \E peer \in Peers : pkt' = [pkt EXCEPT !.connected = TRUE, !.kcp_connect = peer]
  /\ UNCHANGED <<proc, conf, objects, listener, w_resolve, fds, m_conv, sessions, live, http, refused,
                 starved, torn>>

\* The objects after SIGHUP; the pointer of main is not changed.
Reloaded(ok) ==
  LET new == objects.server + 1
  IN  IF ok THEN [objects EXCEPT !.live = (@ \ {objects.server}) \cup {new}, !.server = new]
      ELSE objects

\* SIGHUP: the file is read again.  It is unreadable, refused, or may by now hold any
\* configuration that conf_read accepts: the addresses are looked up again, but the
\* listeners, the timers and the table stay those of the mode the process began with.
SigHup ==
  /\ Running
  /\ \/ objects' = Reloaded(FALSE) /\ UNCHANGED <<conf, pkt>>
     \/ /\ objects.server < MaxReload
        /\ objects' = Reloaded(TRUE)
        /\ conf' \in {conf_read(file) : file \in Files}
        /\ \E Lost \in Lookups(conf'), peer \in Peers : pkt' = server_resolve(conf', Lost, peer)
  /\ UNCHANGED <<proc, listener, w_resolve, fds, m_conv, sessions, live, http, refused, starved, torn>>

\* Bug: the descriptor of the HTTP listener is left open.
listener_stop_OneSocket == {listener.fd}

\* The descriptors that listener_stop closes: fd_http is closed whatever it is.
listener_stop == {listener.fd, listener.fd_http}

\* SIGINT, SIGTERM: ev_run returns, server_stop and server_free.  Nothing is done to
\* a connection to the HTTP service, and where the watcher of its listener should be
\* stopped, w_accept is stopped once more.
Stop ==
  LET met == IF sessions = NULL THEN <<>> ELSE FilterOrder(sessions) IN
  /\ Running
  /\ proc' = "exit"
  /\ fds' = fds \ (listener_stop \cup {pkt.fd})
  /\ listener' = [listener EXCEPT !.fd = -1, !.fd_http = -1, !.w_accept = FALSE, !.w_timer = FALSE]
  /\ pkt' = [pkt EXCEPT !.fd = -1]
  /\ w_resolve' = FALSE
  /\ sessions' = IF sessions = NULL THEN NULL ELSE table_filter(sessions, DOMAIN live)
  /\ live' = Restrict(live, DOMAIN live \ Range([i \in 1..Len(met) |-> sessions.p[met[i]].element]))
  /\ UNCHANGED <<conf, objects, m_conv, http, refused, starved, torn>>

\* main: conf_modestr(conf) and conf_free(conf), with the pointer from the start.
Exit ==
  /\ proc = "exit"
  /\ proc' = IF objects.main \in objects.live THEN "done" ELSE "freed_twice"
  /\ objects' = [objects EXCEPT !.live = @ \ {objects.main}]
  /\ UNCHANGED <<conf, listener, pkt, w_resolve, fds, m_conv, sessions, live, http, refused, starved, torn>>

Next ==
  \/ Start \/ tcp_accept_cb \/ queue_recv \/ session_kcp_stop \/ timeout_cb
  \/ http_accept_cb \/ http_read_cb \/ http_write_cb \/ http_timeout_cb
  \/ listener_cb \/ resolve_cb \/ ss0_on_pong \/ SigHup \/ Stop \/ Exit

\* A timer that was started fires.
Fairness == WF_vars(listener_cb)

Spec == Init /\ [][Next]_vars /\ Fairness

-----------------------------------------------------------------------------
(* Properties *)

\* The table is a map from keys to the sessions in memory: each is found under
\* its key, met by the iterations, counted once, and nothing else is, through any
\* sequence of insertions, deletions, growth that succeeds or fails and new
\* seeds (hashtable.c).  Excluded is what follows after table_reseed moved an
\* item of a table with holes ("torn"), which it leaves marked as invalid: the
\* next compaction loses it.
TableIsMap ==
  sessions # NULL /\ ~torn /\ proc # "assert_elem" =>
    Represents(sessions, [key \in {live[id].key : id \in DOMAIN live} |->
                            CHOOSE id \in DOMAIN live : live[id].key = key])

\* No two sessions of one peer have the same conversation number, and none has
\* the reserved number 0: conv_new never returns one that is in use, so that
\* assert(elem == NULL) in accept_one and queue_recv can only fail when there was
\* no memory for the table.  Never are there more than MAX_SESSIONS for
\* connections of clients, however many are accepted in one callback
\* (event_tcp.c:117) and whatever is configured meanwhile.  A session that a torn
\* table has lost can have a second one beside it.
NumbersAreFresh ==
  /\ proc = "assert_elem" => starved
  /\ \A i \in DOMAIN live : live[i].key[2] # 0
  /\ ~torn =>
       /\ Cardinality({i \in DOMAIN live : ~live[i].is_accepted}) <= MAX_SESSIONS
       /\ \A i, j \in DOMAIN live : live[i].key = live[j].key => i = j

\* The descriptor of a connection to the HTTP service is open exactly as long as its
\* context exists.  After server_stop, whenever the signal came, that connection with
\* its context and the watcher of the HTTP listener, on a descriptor that is closed,
\* are all that is left: no other descriptor but stdin, no other watcher of a
\* listener, no timer, and, unless a torn table lost one, no session in memory or in
\* the table.  main frees the configuration, once and with nothing left behind by
\* reloads that failed, unless a reload replaced it.
ShutDown ==
  /\ CONN \in fds <=> http # NULL
  /\ proc = "exit" =>
       /\ fds \subseteq {STDIN, CONN}
       /\ ~listener.w_accept /\ ~listener.w_timer /\ ~w_resolve
       /\ ~torn => live = <<>> /\ (sessions # NULL => sessions.size = 0)
  /\ proc = "done" => objects.live = {}
  /\ proc = "freed_twice" => objects.server # objects.main

\* A request is answered or refused for what it is, however it was cut into
\* pieces: one that is served would be served in one piece, one that is refused
\* would be refused, and one that is whole is not waited for.  There is always room
\* for the terminator behind what was received (http_read_cb).
CutsDontMatter ==
  /\ refused # NULL => Verdict(refused) = "refused"
  /\ http # NULL =>
       /\ Len(http.rbuf) < HTTP_MAX_REQUEST
       /\ http.wbuf # NULL => Verdict(http.request) = "done"
       /\ http.w_read => Verdict(http.rbuf) = "more"

\* Every file that conf_check and queue_new accept gives a program that can be
\* started: its addresses are there and a segment of KCP fits into a packet.
FilesStart == proc # "boot" \/ \A file \in AllFiles : Startable(file)

\* An accept that fails for good does not silence a listener: both watchers are
\* active again and again while the server runs (listener_cb).
AcceptsAgain ==
  /\ []<>(Running /\ listener.fd # -1 => listener.w_accept)
  /\ []<>(Running /\ listener.fd_http = HTTP => listener.w_accept_http)

\* BUF_CONSUME never takes more from a buffer than it holds (buffer.h:187).
ConsumeAssertion == proc # "assert_consume"

=============================================================================
