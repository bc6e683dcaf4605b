--------------------------- MODULE SessionProofs ---------------------------
(***************************************************************************)
(* What the functions of Session preserve, for every value of the          *)
(* constants.  Base holds of a session at every call inside a callback,    *)
(* Core at all but the handling of a message; SInv holds again when the    *)
(* callback, or a pass of the loop of session_read_cb, is over.            *)
(***************************************************************************)
EXTENDS Session, TLAPS

Base(s) ==
  /\ s \in SessionRec
  /\ s.kcp <=> s.kcp_state # STATE_TIME_WAIT
  /\ s.kcp_state # STATE_INIT
  /\ s.tcp_state \in {STATE_CONNECT, STATE_CONNECTED} => s.fd
  /\ s.fd => s.tcp_state \in {STATE_CONNECT, STATE_CONNECTED, STATE_LINGER}
  /\ s.tcp_state = STATE_TIME_WAIT
       => s.kcp_state \in {STATE_LINGER, STATE_TIME_WAIT}
  /\ s.kcp_state \in {STATE_LINGER, STATE_TIME_WAIT}
       => s.tcp_state \in {STATE_LINGER, STATE_TIME_WAIT}
  /\ s.tcp_state = STATE_LINGER
       => s.kcp_state = STATE_LINGER /\ s.wbuf_flush = s.wbuf_next
  /\ s.events # {} => s.fd
  /\ s.tcp_state = STATE_CONNECT => s.events = {READ, WRITE}

Core(s) == Base(s) /\ FlushInMessage(s)

SInv(s) ==
  /\ s \in SessionRec
  /\ HalvesAgree(s)
  /\ FlushInMessage(s)
  /\ ~s.reading => Awake(s)

\* The five states of a half are different from each other.
LEMMA StatesDiffer ==
  /\ STATE_INIT \in State /\ STATE_CONNECT \in State /\ STATE_CONNECTED \in State
  /\ STATE_LINGER \in State /\ STATE_TIME_WAIT \in State
  /\ STATE_INIT # STATE_CONNECT /\ STATE_INIT # STATE_CONNECTED
  /\ STATE_INIT # STATE_LINGER /\ STATE_INIT # STATE_TIME_WAIT
  /\ STATE_CONNECT # STATE_CONNECTED /\ STATE_CONNECT # STATE_LINGER
  /\ STATE_CONNECT # STATE_TIME_WAIT /\ STATE_CONNECTED # STATE_LINGER
  /\ STATE_CONNECTED # STATE_TIME_WAIT /\ STATE_LINGER # STATE_TIME_WAIT
BY DEF State, STATE_INIT, STATE_CONNECT, STATE_CONNECTED, STATE_LINGER,
       STATE_TIME_WAIT

\* What holds between callbacks also holds inside them.
LEMMA SInvIsCore ==
  ASSUME NEW s, SInv(s)
  PROVE  Core(s)
BY StatesDiffer DEF SInv, Core, Base, HalvesAgree

\* A callback that leaves no LINGER of the TCP half behind and whose session
\* is awake restores SInv.
LEMMA CoreIsSInv ==
  ASSUME NEW s, Core(s), s.tcp_state # STATE_LINGER,
         s.reading => s.kcp_state = STATE_CONNECTED, ~s.reading => Awake(s)
  PROVE  SInv(s)
BY StatesDiffer DEF SInv, Core, Base, HalvesAgree

\* A time stamp that is set to now, or unset, is an age.
LEMMA Zero == 0 \in Age /\ TSTAMP_NIL \in Age
BY SessionAssumption DEF Age, TSTAMP_NIL

\* The messages the code sends are messages.
LEMMA Messages ==
  /\ SMSG_DIAL \in Message /\ SMSG_KEEPALIVE \in Message
  /\ \A b \in Nat : SMSG_PUSH(b) \in Message /\ SMSG_EOF(b) \in Message
BY DEF Message, SMSG_DIAL, SMSG_KEEPALIVE, SMSG_PUSH, SMSG_EOF

\* session_tcp_stop changes the TCP half only.
LEMMA TcpStopFields ==
  ASSUME NEW s \in SessionRec
  PROVE  LET t == session_tcp_stop(s)
         IN  /\ t \in SessionRec
             /\ t.tcp_state = STATE_TIME_WAIT /\ t.fd = FALSE /\ t.events = {}
             /\ t.kcp_state = s.kcp_state /\ t.kcp = s.kcp
             /\ t.wbuf = s.wbuf /\ t.wbuf_flush = s.wbuf_flush
             /\ t.wbuf_next = s.wbuf_next /\ t.reading = s.reading
             /\ t.tcp_rx = s.tcp_rx
BY StatesDiffer DEF session_tcp_stop, SessionRec

\* session_kcp_stop changes the KCP half only.
LEMMA KcpStopFields ==
  ASSUME NEW s \in SessionRec
  PROVE  LET t == session_kcp_stop(s)
         IN  /\ t \in SessionRec
             /\ t.kcp_state = STATE_TIME_WAIT /\ t.kcp = FALSE
             /\ t.tcp_state = s.tcp_state /\ t.fd = s.fd /\ t.events = s.events
             /\ t.wbuf_flush = s.wbuf_flush /\ t.wbuf_next = s.wbuf_next
             /\ t.reading = s.reading
<1>1. <<>> \in Seq(Message)
  OBVIOUS
<1> QED
  BY <1>1, StatesDiffer DEF session_kcp_stop, SessionRec

\* Two sessions that differ only in what ikcp_send and the watcher w_flush
\* touch, and in the time stamps.
SameHalves(s, t) ==
  /\ t \in SessionRec
  /\ t.tcp_state = s.tcp_state /\ t.kcp_state = s.kcp_state
  /\ t.fd = s.fd /\ t.kcp = s.kcp /\ t.events = s.events
  /\ t.wbuf = s.wbuf /\ t.wbuf_flush = s.wbuf_flush
  /\ t.wbuf_next = s.wbuf_next /\ t.reading = s.reading
  /\ t.rcv_queue = s.rcv_queue

\* kcp_send appends to the stream and leaves both halves alone.
LEMMA SentFields ==
  ASSUME NEW s \in SessionRec, NEW m \in Message
  PROVE  /\ SameHalves(s, Sent(s, m))
         /\ Sent(s, m).is_accepted = s.is_accepted
         /\ Sent(s, m).tx = Append(s.tx, m) /\ Sent(s, m).snd_una = s.snd_una
<1>1. Append(s.tx, m) \in Seq(Message)
  <2>1. s.tx \in Seq(Message)
    BY DEF SessionRec
  <2> QED
    BY <2>1
<1> QED
  BY <1>1, Zero DEF Sent, SessionRec, SameHalves

\* session_kcp_flush only starts the idle watcher.
LEMMA KcpFlushFields ==
  ASSUME NEW s \in SessionRec
  PROVE  SameHalves(s, session_kcp_flush(s))
BY DEF session_kcp_flush, SessionRec, SameHalves

\* session_tcp_stop with session_kcp_close stops the TCP half and leaves the
\* KCP half lingering or released.
LEMMA ShutdownCore ==
  ASSUME NEW s, Base(s), s.wbuf_flush <= s.wbuf_next, NEW t \in Shutdown(s)
  PROVE  /\ Core(t) /\ t.tcp_state = STATE_TIME_WAIT
         /\ t.reading = s.reading
<1> DEFINE u == session_tcp_stop(s)
           Eof == SMSG_EOF(u.tcp_rx)
<1>0. s \in SessionRec
  BY DEF Core, Base
<1>1. u \in SessionRec /\ u.tcp_rx \in Nat
  BY <1>0, TcpStopFields DEF SessionRec
<1>2. Eof \in Message
  BY <1>1, Messages
<1>3. CASE s.kcp_state \notin {STATE_CONNECT, STATE_CONNECTED}
  <2>1. t = u
    BY <1>0, <1>3, TcpStopFields DEF Shutdown, session_kcp_close
  <2> QED
    BY <1>0, <1>3, <2>1, TcpStopFields, StatesDiffer
       DEF Core, Base, FlushInMessage, SessionRec, State
<1>4. CASE s.kcp_state \in {STATE_CONNECT, STATE_CONNECTED}
  <2>1. PICK r \in kcp_sendmsg(u, Eof) :
          t = IF ~r.ok THEN session_kcp_stop(r.ss)
              ELSE LET l == [r.ss EXCEPT !.kcp_state = STATE_LINGER]
                   IN  IF KcpFlush >= 1 THEN session_kcp_flush(l) ELSE l
    BY <1>0, <1>4, TcpStopFields DEF Shutdown, session_kcp_close
  <2>2. SameHalves(u, r.ss)
    BY <1>1, <1>2, SentFields DEF kcp_sendmsg, SameHalves
  <2>3. CASE ~r.ok
    <3>1. t = session_kcp_stop(r.ss)
      BY <2>1, <2>3
    <3>2. /\ t \in SessionRec /\ t.kcp_state = STATE_TIME_WAIT /\ t.kcp = FALSE
          /\ t.tcp_state = STATE_TIME_WAIT /\ t.fd = FALSE /\ t.events = {}
          /\ t.wbuf_flush = s.wbuf_flush /\ t.wbuf_next = s.wbuf_next
          /\ t.reading = s.reading
      BY <1>0, <2>2, <3>1, TcpStopFields, KcpStopFields DEF SameHalves
    <3> QED
      BY <1>0, <1>4, <3>2, StatesDiffer DEF Core, Base, FlushInMessage
  <2>4. CASE r.ok
    <3> DEFINE l == [r.ss EXCEPT !.kcp_state = STATE_LINGER]
    <3>1. t = IF KcpFlush >= 1 THEN session_kcp_flush(l) ELSE l
      BY <2>1, <2>4
    <3>2. /\ l \in SessionRec /\ l.kcp_state = STATE_LINGER
          /\ l.tcp_state = r.ss.tcp_state /\ l.fd = r.ss.fd
          /\ l.kcp = r.ss.kcp /\ l.events = r.ss.events
          /\ l.wbuf_flush = r.ss.wbuf_flush /\ l.wbuf_next = r.ss.wbuf_next
          /\ l.reading = r.ss.reading
      BY <2>2, StatesDiffer DEF SameHalves, SessionRec
    <3>3. SameHalves(l, t)
      BY <3>1, <3>2, KcpFlushFields DEF SameHalves
    <3>4. /\ t \in SessionRec /\ t.kcp_state = STATE_LINGER /\ t.kcp = s.kcp
          /\ t.tcp_state = STATE_TIME_WAIT /\ t.fd = FALSE /\ t.events = {}
          /\ t.wbuf_flush = s.wbuf_flush /\ t.wbuf_next = s.wbuf_next
          /\ t.reading = s.reading
      BY <1>0, <2>2, <3>2, <3>3, TcpStopFields DEF SameHalves
    <3>5. s.kcp = TRUE
      BY <1>0, <1>4, StatesDiffer DEF Core, Base, SessionRec
    <3> QED
      BY <1>0, <3>4, <3>5, StatesDiffer DEF Core, Base, FlushInMessage
  <2> QED
    BY <2>3, <2>4
<1> QED
  BY <1>3, <1>4

\* The same from any session inside a callback.
LEMMA CoreShutdown ==
  ASSUME NEW s, Core(s), NEW t \in Shutdown(s)
  PROVE  /\ Core(t) /\ t.tcp_state = STATE_TIME_WAIT
         /\ t.reading = s.reading
BY ShutdownCore DEF Core, FlushInMessage

\* A session whose TCP half is stopped has nothing to be woken for.
LEMMA StoppedSInv ==
  ASSUME NEW t, Core(t), t.tcp_state = STATE_TIME_WAIT, ~t.reading
  PROVE  SInv(t)
<1>1. t.kcp_state # STATE_CONNECTED
  BY StatesDiffer DEF Core, Base
<1>2. Awake(t)
  BY <1>1, StatesDiffer DEF Awake, Drained
<1> QED
  BY <1>2, CoreIsSInv, StatesDiffer

\* session_tcp_stop of a session that took an EOF.
LEMMA TcpStopCore ==
  ASSUME NEW s, Core(s), s.kcp_state \in {STATE_LINGER, STATE_TIME_WAIT}
  PROVE  Core(session_tcp_stop(s))
BY TcpStopFields, StatesDiffer DEF Core, Base, FlushInMessage

\* tcp_notify restores SInv if nothing that arrived is left unprocessed.
LEMMA NotifySInv ==
  ASSUME NEW s, Core(s), ~s.reading, Drained(s)
  PROVE  SInv(tcp_notify(s))
<1>0. s \in SessionRec
  BY DEF Core, Base
<1>1. CASE s.tcp_state \notin {STATE_CONNECTED, STATE_LINGER}
  <2>1. tcp_notify(s) = s
    BY <1>1 DEF tcp_notify
  <2>2. Awake(s)
    BY <1>1 DEF Awake
  <2> QED
    BY <1>1, <2>1, <2>2, CoreIsSInv
<1>2. CASE s.tcp_state = STATE_LINGER
  <2>1. ~HasData(s)
    BY <1>0, <1>2 DEF Core, Base, HasData, SessionRec
  <2>2. tcp_notify(s) = session_tcp_stop(s)
    BY <1>2, <2>1 DEF tcp_notify
  <2>3. Core(session_tcp_stop(s))
    BY <1>2, TcpStopCore DEF Core, Base
  <2>4. session_tcp_stop(s).tcp_state = STATE_TIME_WAIT
    BY <1>0, TcpStopFields
  <2>5. ~session_tcp_stop(s).reading
    BY <1>0, TcpStopFields
  <2> QED
    BY <2>2, <2>3, <2>4, <2>5, StoppedSInv
<1>3. CASE s.tcp_state = STATE_CONNECTED
  <2> DEFINE ev == (IF kcp_cansend(s) THEN {READ} ELSE {})
                     \cup (IF s.tcp_state = STATE_LINGER \/ HasData(s)
                           THEN {WRITE} ELSE {})
             t == [s EXCEPT !.events = ev]
  <2>1. tcp_notify(s) = t
    BY <1>3, StatesDiffer DEF tcp_notify
  <2>2. /\ t \in SessionRec /\ t.events = ev
        /\ t.tcp_state = s.tcp_state /\ t.kcp_state = s.kcp_state
        /\ t.fd = s.fd /\ t.kcp = s.kcp /\ t.tx = s.tx
        /\ t.snd_una = s.snd_una /\ t.wbuf = s.wbuf
        /\ t.wbuf_flush = s.wbuf_flush /\ t.wbuf_next = s.wbuf_next
        /\ t.rcv_queue = s.rcv_queue /\ t.reading = s.reading
    BY <1>0 DEF SessionRec
  <2> HIDE DEF t
  <2>3. Core(t)
    BY <1>3, <2>2, StatesDiffer DEF Core, Base, FlushInMessage
  <2>4. kcp_cansend(t) = kcp_cansend(s) /\ HasData(t) = HasData(s)
    BY <2>2 DEF kcp_cansend, ikcp_waitsnd, HasData
  <2>5. Drained(t)
    BY <2>2, <2>4 DEF Drained
  <2>6. Awake(t)
    BY <2>2, <2>4, <2>5 DEF Awake
  <2> QED
    BY <1>3, <2>1, <2>2, <2>3, <2>6, CoreIsSInv, StatesDiffer
<1> QED
  BY <1>1, <1>2, <1>3

\* The head of wbuf is a message.
LEMMA HeadIsMessage ==
  ASSUME NEW q \in Seq(Message), q # <<>>
  PROVE  Head(q) \in Message /\ Tail(q) \in Seq(Message)
OBVIOUS

\* A message has room for its header.
LEMMA TlvLenType ==
  ASSUME NEW m \in Message
  PROVE  /\ TlvLen(m) \in Nat /\ TlvLen(m) >= TLV_HEADER_SIZE
         /\ TLV_HEADER_SIZE \in Nat /\ TLV_HEADER_SIZE > 0
BY SessionAssumption DEF TlvLen, TLV_HEADER_SIZE

\* A product of naturals is a natural: Byte stays in range.
LEMMA Product ==
  ASSUME NEW a \in Int, NEW b \in Int
  PROVE  a * b \in Int
OBVIOUS

\* tcp_send moves the flush position and nothing else of a half.
LEMMA FlushedFields ==
  ASSUME NEW s \in SessionRec, NEW k \in Nat, s.wbuf # <<>>
  PROVE  LET t == Flushed(s, k)
         IN  /\ t \in SessionRec
             /\ t.wbuf_flush = s.wbuf_flush + k
             /\ t.tcp_state = s.tcp_state /\ t.kcp_state = s.kcp_state
             /\ t.fd = s.fd /\ t.kcp = s.kcp /\ t.events = s.events
             /\ t.wbuf = s.wbuf /\ t.wbuf_next = s.wbuf_next
             /\ t.reading = s.reading /\ t.rcv_queue = s.rcv_queue
<1>1. s.wbuf \in Seq(Message) /\ s.wbuf_flush \in Nat /\ s.tcp_tx \in Seq(Int)
  BY DEF SessionRec
<1> DEFINE m == Head(s.wbuf)
           f == [i \in 1..k |-> Byte(m, s.wbuf_flush - TLV_HEADER_SIZE + i)]
<1>2. m.blk \in Nat
  BY <1>1, HeadIsMessage DEF Message
<1>3. (m.blk - 1) * PushLen \in Int
  <2>1. m.blk - 1 \in Int /\ PushLen \in Int
    BY <1>2, SessionAssumption
  <2> QED
    BY <2>1, Product
<1> HIDE DEF m
<1>4. \A i \in 1..k : Byte(m, s.wbuf_flush - TLV_HEADER_SIZE + i) \in Int
  BY <1>1, <1>3 DEF Byte, TLV_HEADER_SIZE
<1>5. f \in Seq(Int)
  BY <1>4
<1>6. s.tcp_tx \o f \in Seq(Int)
  BY <1>1, <1>5
<1>7. s.wbuf_flush + k \in Nat
  BY <1>1
<1> QED
  BY <1>6, <1>7 DEF Flushed, SessionRec, m

\* What tcp_flush keeps of a session that it does not shut down.
LEMMA FlushCore ==
  ASSUME NEW s, Core(s), NEW t \in tcp_flush(s)
  PROVE  /\ Core(t) /\ t.reading = s.reading
         /\ \/ t.tcp_state = STATE_TIME_WAIT
            \/ /\ t.tcp_state = s.tcp_state /\ t.kcp_state = s.kcp_state
               /\ t.wbuf = s.wbuf /\ t.wbuf_next = s.wbuf_next
               /\ t.rcv_queue = s.rcv_queue
               /\ t.wbuf_flush >= s.wbuf_flush
<1> DEFINE len == s.wbuf_next - s.wbuf_flush
<1>0. s \in SessionRec /\ len \in Nat
  BY DEF Core, Base, FlushInMessage, SessionRec
<1>1. CASE s.tcp_state \notin {STATE_CONNECTED, STATE_LINGER} \/ len = 0
  <2>1. t = s
    BY <1>1 DEF tcp_flush
  <2> QED
    BY <1>0, <2>1 DEF SessionRec
<1>2. CASE s.tcp_state \in {STATE_CONNECTED, STATE_LINGER} /\ len # 0
  <2>1. s.tcp_state = STATE_CONNECTED
    BY <1>0, <1>2 DEF Core, Base, SessionRec
  <2>2. s.kcp_state \in {STATE_CONNECT, STATE_CONNECTED}
    BY <1>0, <2>1, StatesDiffer DEF Core, Base, SessionRec, State
  <2>3. s.wbuf # <<>>
    BY <1>0, <1>2, <2>2 DEF Core, Base, FlushInMessage, SessionRec
  <2>4. ASSUME NEW k \in 0..len
        PROVE  LET f == Flushed(s, k)
               IN  /\ Core(f) /\ f.reading = s.reading
                   /\ f.tcp_state = s.tcp_state /\ f.kcp_state = s.kcp_state
                   /\ f.wbuf = s.wbuf /\ f.wbuf_next = s.wbuf_next
                   /\ f.rcv_queue = s.rcv_queue
                   /\ f.wbuf_flush >= s.wbuf_flush
    <3> DEFINE f == Flushed(s, k)
    <3>1. k \in Nat
      BY <1>0
    <3>2. /\ f \in SessionRec
          /\ f.wbuf_flush = s.wbuf_flush + k
          /\ f.tcp_state = s.tcp_state /\ f.kcp_state = s.kcp_state
          /\ f.fd = s.fd /\ f.kcp = s.kcp /\ f.events = s.events
          /\ f.wbuf = s.wbuf /\ f.wbuf_next = s.wbuf_next
          /\ f.reading = s.reading /\ f.rcv_queue = s.rcv_queue
      BY <1>0, <2>3, <3>1, FlushedFields
    <3> HIDE DEF f
    <3>3. FlushInMessage(f) /\ f.wbuf_flush >= s.wbuf_flush
      <4>1. s.wbuf_flush \in Nat /\ s.wbuf_next \in Nat
        BY <1>0 DEF SessionRec
      <4>2. f.wbuf_flush >= s.wbuf_flush /\ f.wbuf_flush <= f.wbuf_next
        BY <3>1, <3>2, <4>1
      <4>3. FlushInMessage(s)
        BY DEF Core, Base
      <4> QED
        BY <3>1, <3>2, <4>1, <4>2, <4>3 DEF FlushInMessage, TLV_HEADER_SIZE
    <3>4. Core(f)
      BY <2>1, <3>2, <3>3, StatesDiffer DEF Core, Base
    <3> QED
      BY <3>2, <3>3, <3>4 DEF f
  <2>5. CASE t \in {Flushed(s, k) : k \in 0..len}
    BY <2>4, <2>5
  <2>6. CASE \E k \in 0..(len - 1) : t \in Shutdown(Flushed(s, k))
    <3>1. PICK k \in 0..(len - 1) : t \in Shutdown(Flushed(s, k))
      BY <2>6
    <3>2. k \in 0..len
      BY <1>0
    <3>3. Core(Flushed(s, k)) /\ Flushed(s, k).reading = s.reading
      BY <2>4, <3>2
    <3> QED
      BY <3>1, <3>3, CoreShutdown
  <2> QED
    BY <1>2, <2>5, <2>6 DEF tcp_flush
<1> QED
  BY <1>1, <1>2

\* Core only looks at the fields that SameHalves compares.
LEMMA SameHalvesCore ==
  ASSUME NEW s, NEW t, Core(s), SameHalves(s, t)
  PROVE  Core(t) /\ t.reading = s.reading
BY DEF Core, Base, SameHalves, FlushInMessage

\* Reading from the socket and pushing leaves both halves alone.
LEMMA PushedFields ==
  ASSUME NEW s \in SessionRec, NEW k \in Nat
  PROVE  SameHalves(s, Pushed(s, k))
<1> DEFINE f == [i \in 1..k |-> SMSG_PUSH(s.tcp_rx + i)]
           p == [s EXCEPT !.tx = @ \o f, !.tcp_rx = @ + k,
                          !.last_send = IF k > 0 THEN 0 ELSE @]
<1>1. s.tx \in Seq(Message) /\ s.tcp_rx \in Nat /\ s.last_send \in Age
  BY DEF SessionRec
<1>2. \A i \in 1..k : SMSG_PUSH(s.tcp_rx + i) \in Message
  BY <1>1, Messages
<1>3. f \in Seq(Message)
  BY <1>2
<1>4. s.tx \o f \in Seq(Message) /\ s.tcp_rx + k \in Nat
  BY <1>1, <1>3
<1>5. (IF k > 0 THEN 0 ELSE s.last_send) \in Age
  BY <1>1, Zero
<1>6. SameHalves(s, p)
  BY <1>4, <1>5 DEF SameHalves, SessionRec
<1>7. Pushed(s, k) = IF k > 0 /\ KcpFlush >= 1 THEN session_kcp_flush(p) ELSE p
  BY DEF Pushed
<1>8. p \in SessionRec
  BY <1>6 DEF SameHalves
<1> HIDE DEF p
<1>9. SameHalves(p, session_kcp_flush(p))
  BY <1>8, KcpFlushFields
<1> QED
  BY <1>6, <1>7, <1>9 DEF SameHalves

\* What tcp_recv_all keeps of a session that it does not shut down.
LEMMA RecvAllCore ==
  ASSUME NEW s, Core(s), NEW avail, NEW t \in tcp_recv_all(s, avail)
  PROVE  /\ Core(t) /\ t.reading = s.reading
         /\ t.tcp_state = STATE_TIME_WAIT \/ SameHalves(s, t)
<1>0. s \in SessionRec
  BY DEF Core, Base
<1> DEFINE room == SndWnd - ikcp_waitsnd(s)
           Closed(k) == TcpFaults /\ k < room
           Lost(k) == Oom /\ k < room /\ k < avail
           K == {j \in 0..avail : j <= room \/ j = 0}
           Out(k) == {Pushed(s, k)}
                     \cup (IF Closed(k) THEN Shutdown(Pushed(s, k)) ELSE {})
                     \cup (IF Lost(k)
                           THEN Shutdown([Pushed(s, k) EXCEPT !.tcp_rx = @ + 1])
                           ELSE {})
<1>1. CASE s.tcp_state # STATE_CONNECTED
  <2>1. t = s
    BY <1>1 DEF tcp_recv_all
  <2> QED
    BY <1>0, <2>1 DEF SameHalves
<1>2. CASE /\ s.tcp_state = STATE_CONNECTED
           /\ s.kcp_state \notin {STATE_CONNECT, STATE_CONNECTED}
  <2>1. t \in Shutdown(s)
    BY <1>2 DEF tcp_recv_all
  <2> QED
    BY <2>1, CoreShutdown
<1>3. CASE /\ s.tcp_state = STATE_CONNECTED
           /\ s.kcp_state \in {STATE_CONNECT, STATE_CONNECTED}
  <2>1. t \in UNION {Out(k) : k \in K}
    BY <1>3 DEF tcp_recv_all
  <2>2. PICK k \in K : t \in Out(k)
    BY <2>1
  <2>3. k \in Nat
    BY <2>2
  <2> DEFINE p == Pushed(s, k)
             q == [p EXCEPT !.tcp_rx = @ + 1]
  <2>4. SameHalves(s, p)
    BY <1>0, <2>3, PushedFields
  <2>5. Core(p) /\ p.reading = s.reading
    BY <2>4, SameHalvesCore
  <2>6. SameHalves(s, q)
    <3>1. p \in SessionRec
      BY <2>4 DEF SameHalves
    <3> HIDE DEF p
    <3>2. p.tcp_rx + 1 \in Nat
      BY <3>1 DEF SessionRec
    <3>3. SameHalves(p, q)
      BY <3>1, <3>2 DEF SameHalves, SessionRec
    <3> QED
      BY <2>4, <3>3 DEF SameHalves
  <2>7. Core(q) /\ q.reading = s.reading
    BY <2>6, SameHalvesCore
  <2>8. t = p \/ t \in Shutdown(p) \/ t \in Shutdown(q)
    BY <2>2
  <2> HIDE DEF p, q
  <2> QED
    BY <2>4, <2>5, <2>7, <2>8, CoreShutdown
<1> QED
  BY <1>1, <1>2, <1>3

\* connected_cb connects the TCP half or shuts the session down.
LEMMA ConnectedCore ==
  ASSUME NEW s, Core(s), s.tcp_state = STATE_CONNECT, NEW t \in connected_cb(s)
  PROVE  /\ Core(t) /\ t.reading = s.reading
         /\ \/ t.tcp_state = STATE_TIME_WAIT
            \/ /\ t.tcp_state = STATE_CONNECTED /\ t.kcp_state = s.kcp_state
               /\ t.wbuf = s.wbuf /\ t.wbuf_next = s.wbuf_next
               /\ t.rcv_queue = s.rcv_queue /\ t.wbuf_flush = s.wbuf_flush
<1>0. s \in SessionRec
  BY DEF Core, Base
<1>1. CASE t \in Shutdown(s)
  BY <1>1, CoreShutdown
<1>2. CASE t = [s EXCEPT !.tcp_state = STATE_CONNECTED]
  <2>1. /\ t \in SessionRec /\ t.tcp_state = STATE_CONNECTED
        /\ t.kcp_state = s.kcp_state /\ t.fd = s.fd /\ t.kcp = s.kcp
        /\ t.events = s.events /\ t.wbuf = s.wbuf
        /\ t.wbuf_flush = s.wbuf_flush /\ t.wbuf_next = s.wbuf_next
        /\ t.reading = s.reading /\ t.rcv_queue = s.rcv_queue
    BY <1>0, <1>2, StatesDiffer DEF SessionRec
  <2>2. Core(t)
    BY <2>1, StatesDiffer DEF Core, Base, FlushInMessage
  <2> QED
    BY <2>1, <2>2
<1> QED
  BY <1>1, <1>2 DEF connected_cb

-----------------------------------------------------------------------------
(* Taking messages from the stream *)

\* consume_wbuf drops the message at the head and resets both positions.
LEMMA ConsumeFields ==
  ASSUME NEW s \in SessionRec, s.wbuf # <<>>
  PROVE  LET t == consume_wbuf(s)
         IN  /\ t \in SessionRec /\ t.wbuf = Tail(s.wbuf)
             /\ t.wbuf_flush = 0 /\ t.wbuf_next = 0
             /\ t.tcp_state = s.tcp_state /\ t.kcp_state = s.kcp_state
             /\ t.fd = s.fd /\ t.kcp = s.kcp /\ t.events = s.events
             /\ t.reading = s.reading /\ t.rcv_queue = s.rcv_queue
<1>1. Tail(s.wbuf) \in Seq(Message)
  <2>1. s.wbuf \in Seq(Message)
    BY DEF SessionRec
  <2> QED
    BY <2>1, HeadIsMessage
<1> QED
  BY <1>1 DEF consume_wbuf, SessionRec

\* kcp_recv moves what arrived to wbuf.
LEMMA KcpRecvFields ==
  ASSUME NEW s \in SessionRec
  PROVE  LET t == kcp_recv(s)
         IN  /\ t \in SessionRec /\ t.rcv_queue = <<>>
             /\ t.wbuf_flush = s.wbuf_flush /\ t.wbuf_next = s.wbuf_next
             /\ t.tcp_state = s.tcp_state /\ t.kcp_state = s.kcp_state
             /\ t.fd = s.fd /\ t.kcp = s.kcp /\ t.events = s.events
             /\ t.reading = s.reading
<1>1. s.wbuf \o s.rcv_queue \in Seq(Message)
  <2>1. s.wbuf \in Seq(Message) /\ s.rcv_queue \in Seq(Message)
    BY DEF SessionRec
  <2> QED
    BY <2>1
<1>2. <<>> \in Seq(Message)
  OBVIOUS
<1>3. CASE s.rcv_queue = <<>>
  BY <1>3 DEF kcp_recv, SessionRec
<1>4. CASE s.rcv_queue # <<>>
  BY <1>1, <1>2, <1>4, Zero DEF kcp_recv, SessionRec
<1> QED
  BY <1>3, <1>4

\* session_on_msg for the message m at the head of wbuf: either nothing is to
\* be flushed and the stream stays open, or the flush position was set.
LEMMA OnMsgBase ==
  ASSUME NEW x, Base(x), NEW m \in Message, x.wbuf # <<>>,
         x.kcp_state = STATE_CONNECTED, x.wbuf_flush = 0,
         x.wbuf_next = TlvLen(m), NEW o \in session_on_msg(x, m)
  PROVE  /\ Base(o.ss) /\ o.ss.reading = x.reading
         /\ o.ss.wbuf = x.wbuf /\ o.ss.wbuf_next = x.wbuf_next
         /\ \/ o.ss.wbuf_flush = 0
            \/ /\ o.ok /\ o.ss.wbuf_flush >= TLV_HEADER_SIZE
               /\ o.ss.wbuf_flush <= o.ss.wbuf_next
<1>0. x \in SessionRec
  BY DEF Base
<1>1. TlvLen(m) \in Nat /\ TlvLen(m) >= TLV_HEADER_SIZE /\ TLV_HEADER_SIZE \in Nat
  BY TlvLenType
<1>2. CASE m.msg = "DIAL" /\ x.tcp_state = STATE_INIT
  <2>1. o \in forward_dial(x)
    BY <1>2 DEF session_on_msg
  <2>2. CASE o.ss = x
    BY <1>0, <2>2 DEF SessionRec
  <2>3. CASE \E c \in {STATE_CONNECT, STATE_CONNECTED} :
               o.ss = session_tcp_start([x EXCEPT !.tcp_state = c])
    <3>1. PICK c \in {STATE_CONNECT, STATE_CONNECTED} :
                 o.ss = session_tcp_start([x EXCEPT !.tcp_state = c])
      BY <2>3
    <3> DEFINE t == o.ss
    <3>2. /\ t \in SessionRec /\ t.tcp_state = c /\ t.fd = TRUE
          /\ t.events = {READ, WRITE} /\ t.kcp_state = x.kcp_state
          /\ t.kcp = x.kcp /\ t.wbuf = x.wbuf /\ t.reading = x.reading
          /\ t.wbuf_flush = x.wbuf_flush /\ t.wbuf_next = x.wbuf_next
      <4> DEFINE y == [x EXCEPT !.tcp_state = c]
      <4>1. /\ y \in SessionRec /\ y.tcp_state = c /\ y.kcp_state = x.kcp_state
            /\ y.kcp = x.kcp /\ y.wbuf = x.wbuf /\ y.reading = x.reading
            /\ y.wbuf_flush = x.wbuf_flush /\ y.wbuf_next = x.wbuf_next
        BY <1>0, StatesDiffer DEF SessionRec
      <4>2. o.ss = session_tcp_start(y)
        BY <3>1
      <4> HIDE DEF y
      <4> QED
        BY <4>1, <4>2 DEF session_tcp_start, SessionRec
    <3>3. Base(t)
      BY <1>0, <3>2, StatesDiffer DEF Base
    <3> QED
      BY <3>2, <3>3
  <2> QED
    BY <2>1, <2>2, <2>3 DEF forward_dial
<1>3. CASE m.msg = "DIAL" /\ x.tcp_state # STATE_INIT
  <2>1. o.ss = x
    BY <1>3 DEF session_on_msg
  <2> QED
    BY <1>0, <2>1 DEF SessionRec
<1>4. CASE m.msg = "PUSH"
  <2>1. o = [ok |-> TRUE, ss |-> [x EXCEPT !.wbuf_flush = TLV_HEADER_SIZE]]
    BY <1>4 DEF session_on_msg
  <2>2. LET t == o.ss
        IN  /\ t \in SessionRec /\ t.tcp_state = x.tcp_state /\ t.fd = x.fd
            /\ t.events = x.events /\ t.kcp_state = x.kcp_state
            /\ t.kcp = x.kcp /\ t.wbuf = x.wbuf /\ t.reading = x.reading
            /\ t.wbuf_flush = TLV_HEADER_SIZE /\ t.wbuf_next = x.wbuf_next
    BY <1>0, <1>1, <2>1 DEF SessionRec
  <2>3. Base(o.ss)
    BY <2>2, StatesDiffer DEF Base
  <2> QED
    BY <1>1, <2>1, <2>2, <2>3
<1>5. CASE m.msg = "EOF"
  <2>1. o = [ok |-> TRUE,
             ss |-> [x EXCEPT !.kcp_state = STATE_LINGER,
                              !.tcp_state = STATE_LINGER,
                              !.wbuf_flush = x.wbuf_next, !.eof = m.blk]]
    BY <1>5 DEF session_on_msg
  <2>2. LET t == o.ss
        IN  /\ t \in SessionRec /\ t.tcp_state = STATE_LINGER /\ t.fd = x.fd
            /\ t.events = x.events /\ t.kcp_state = STATE_LINGER
            /\ t.kcp = x.kcp /\ t.wbuf = x.wbuf /\ t.reading = x.reading
            /\ t.wbuf_flush = x.wbuf_next /\ t.wbuf_next = x.wbuf_next
    <3>1. m.blk \in Int /\ x.wbuf_next \in Nat
      BY <1>1 DEF Message
    <3> QED
      BY <1>0, <2>1, <3>1, StatesDiffer DEF SessionRec
  <2>3. Base(o.ss)
    BY <2>2, StatesDiffer DEF Base
  <2> QED
    BY <1>1, <2>1, <2>2, <2>3
<1>6. CASE m.msg = "KEEPALIVE"
  <2>1. o.ss = x \/ o.ss = Sent(x, SMSG_KEEPALIVE)
    BY <1>6 DEF session_on_msg, kcp_sendmsg
  <2>2. SameHalves(x, o.ss)
    <3>1. SameHalves(x, x)
      BY <1>0 DEF SameHalves
    <3>2. SameHalves(x, Sent(x, SMSG_KEEPALIVE))
      BY <1>0, SentFields, Messages
    <3> QED
      BY <2>1, <3>1, <3>2
  <2> QED
    BY <2>2 DEF SameHalves, Base
<1> QED
  BY <1>2, <1>3, <1>4, <1>5, <1>6 DEF Message

\* ss_process keeps the session consistent, and returns 1 only if a flush is
\* in progress or everything that arrived was taken.
LEMMA ProcessCore ==
  ASSUME NEW s, Core(s), s.kcp_state = STATE_CONNECTED, NEW r \in ss_process(s)
  PROVE  /\ r.ret \in {-1, 0, 1}
         /\ Base(r.ss) /\ r.ss.wbuf_flush <= r.ss.wbuf_next
         /\ r.ss.reading = s.reading
         /\ r.ret # -1 => Core(r.ss)
         /\ r.ret = 1 => Drained(r.ss)
<1>0. s \in SessionRec /\ s.wbuf_flush \in Nat /\ s.wbuf_next \in Nat
  BY DEF Core, Base, SessionRec
<1>1. CASE HasData(s)
  <2>1. r = [ret |-> 1, ss |-> s]
    BY <1>1 DEF ss_process
  <2> QED
    BY <1>1, <2>1 DEF Drained, Core, FlushInMessage
<1>2. CASE ~HasData(s)
  <2> DEFINE c == IF s.wbuf_flush > 0 THEN consume_wbuf(s) ELSE s
             v == kcp_recv(c)
  <2>1. /\ c \in SessionRec /\ c.wbuf_flush = 0 /\ c.wbuf_next = 0
        /\ c.tcp_state = s.tcp_state /\ c.kcp_state = s.kcp_state
        /\ c.fd = s.fd /\ c.kcp = s.kcp /\ c.events = s.events
        /\ c.reading = s.reading
    <3>1. CASE s.wbuf_flush > 0
      <4>1. s.wbuf # <<>>
        BY <1>0, <3>1 DEF Core, FlushInMessage
      <4> QED
        BY <1>0, <3>1, <4>1, ConsumeFields
    <3>2. CASE s.wbuf_flush = 0
      BY <1>0, <1>2, <3>2 DEF HasData
    <3> QED
      BY <1>0, <3>1, <3>2
  <2> HIDE DEF c
  <2>2. /\ v \in SessionRec /\ v.wbuf_flush = 0 /\ v.wbuf_next = 0
        /\ v.tcp_state = s.tcp_state /\ v.kcp_state = s.kcp_state
        /\ v.fd = s.fd /\ v.kcp = s.kcp /\ v.events = s.events
        /\ v.reading = s.reading /\ v.rcv_queue = <<>>
    BY <2>1, KcpRecvFields
  <2> HIDE DEF v
  <2>3. s.tcp_state # STATE_LINGER
    BY StatesDiffer DEF Core, Base
  <2>4. Core(v)
    BY <2>2, <2>3 DEF Core, Base, FlushInMessage
  <2>5. CASE v.wbuf = <<>>
    <3>1. r = [ret |-> 1, ss |-> v]
      BY <1>2, <2>5 DEF ss_process, v, c
    <3>2. Drained(v)
      BY <2>2, <2>5 DEF Drained
    <3> QED
      BY <2>2, <2>4, <3>1, <3>2 DEF Core
  <2>6. CASE v.wbuf # <<>>
    <3> DEFINE m == Head(v.wbuf)
               x == [v EXCEPT !.wbuf_next = TlvLen(m)]
               Done(o) == IF ~o.ok THEN {[ret |-> -1, ss |-> o.ss]}
                          ELSE IF o.ss.wbuf_flush > 0
                          THEN {[ret |-> 0, ss |-> f] : f \in tcp_flush(o.ss)}
                          ELSE {[ret |-> 0, ss |-> consume_wbuf(o.ss)]}
    <3>1. m \in Message
      <4>1. v.wbuf \in Seq(Message)
        BY <2>2 DEF SessionRec
      <4> QED
        BY <2>6, <4>1, HeadIsMessage
    <3>2. PICK o \in session_on_msg(x, m) : r \in Done(o)
      BY <1>2, <2>6 DEF ss_process, v, c
    <3> HIDE DEF m
    <3>3. /\ x \in SessionRec /\ x.wbuf_next = TlvLen(m) /\ x.wbuf_flush = 0
          /\ x.tcp_state = v.tcp_state /\ x.kcp_state = v.kcp_state
          /\ x.fd = v.fd /\ x.kcp = v.kcp /\ x.events = v.events
          /\ x.reading = v.reading /\ x.wbuf = v.wbuf
      BY <2>2, <3>1, TlvLenType DEF SessionRec
    <3> HIDE DEF x
    <3>4. Base(x)
      BY <2>2, <2>3, <2>4, <3>3 DEF Core, Base
    <3>5. /\ Base(o.ss) /\ o.ss.reading = x.reading
          /\ o.ss.wbuf = x.wbuf /\ o.ss.wbuf_next = x.wbuf_next
          /\ \/ o.ss.wbuf_flush = 0
             \/ /\ o.ok /\ o.ss.wbuf_flush >= TLV_HEADER_SIZE
                /\ o.ss.wbuf_flush <= o.ss.wbuf_next
      BY <2>2, <2>6, <3>1, <3>2, <3>3, <3>4, OnMsgBase
    <3>6. o.ss \in SessionRec /\ o.ss.wbuf_next \in Nat /\ o.ss.wbuf_flush \in Nat
      BY <3>5 DEF Base, SessionRec
    <3>7. TLV_HEADER_SIZE \in Nat /\ TLV_HEADER_SIZE > 0
      BY <3>1, TlvLenType
    <3>8. CASE ~o.ok
      <4>1. r = [ret |-> -1, ss |-> o.ss]
        BY <3>2, <3>8
      <4>2. o.ss.wbuf_flush <= o.ss.wbuf_next
        BY <3>5, <3>6, <3>8
      <4>3. o.ss.reading = s.reading
        BY <2>2, <3>3, <3>5
      <4>4. r.ret = -1 /\ r.ss = o.ss
        BY <4>1
      <4>5. r.ret # 1
        BY <4>4
      <4> QED
        BY <3>5, <4>2, <4>3, <4>4, <4>5
    <3>9. CASE o.ok /\ o.ss.wbuf_flush > 0
      <4>1. Core(o.ss)
        BY <2>6, <3>3, <3>5, <3>6, <3>9 DEF Core, FlushInMessage, m
      <4>2. PICK f \in tcp_flush(o.ss) : r = [ret |-> 0, ss |-> f]
        BY <3>2, <3>9
      <4>3. Core(f) /\ f.reading = o.ss.reading
        BY <4>1, FlushCore
      <4> QED
        BY <2>2, <3>3, <3>5, <4>2, <4>3 DEF Core, FlushInMessage
    <3>10. CASE o.ok /\ ~(o.ss.wbuf_flush > 0)
      <4> DEFINE w == consume_wbuf(o.ss)
      <4>1. r = [ret |-> 0, ss |-> w]
        BY <3>2, <3>10
      <4>2. /\ w \in SessionRec /\ w.wbuf_flush = 0 /\ w.wbuf_next = 0
            /\ w.tcp_state = o.ss.tcp_state /\ w.kcp_state = o.ss.kcp_state
            /\ w.fd = o.ss.fd /\ w.kcp = o.ss.kcp /\ w.events = o.ss.events
            /\ w.reading = o.ss.reading
        BY <2>6, <3>3, <3>5, <3>6, ConsumeFields
      <4> HIDE DEF w
      <4>3. Core(w)
        BY <3>5, <4>2 DEF Core, Base, FlushInMessage
      <4>4. w.reading = s.reading
        BY <2>2, <3>3, <3>5, <4>2
      <4> QED
        BY <4>1, <4>2, <4>3, <4>4 DEF Core
    <3> QED
      BY <3>8, <3>9, <3>10
  <2> QED
    BY <2>5, <2>6
<1> QED
  BY <1>1, <1>2

-----------------------------------------------------------------------------
(* The callbacks *)

\* Entering or leaving the loop of session_read_cb changes nothing else.
LEMMA ReadingFields ==
  ASSUME NEW s, Base(s), NEW b \in BOOLEAN
  PROVE  LET t == [s EXCEPT !.reading = b]
         IN  /\ Base(t) /\ t.reading = b
             /\ t.tcp_state = s.tcp_state /\ t.kcp_state = s.kcp_state
             /\ t.wbuf_flush = s.wbuf_flush /\ t.wbuf_next = s.wbuf_next
             /\ FlushInMessage(s) => FlushInMessage(t)
             /\ Drained(s) => Drained(t)
<1> DEFINE t == [s EXCEPT !.reading = b]
<1>1. /\ t \in SessionRec /\ t.reading = b
      /\ t.tcp_state = s.tcp_state /\ t.kcp_state = s.kcp_state
      /\ t.fd = s.fd /\ t.kcp = s.kcp /\ t.events = s.events
      /\ t.wbuf = s.wbuf /\ t.wbuf_flush = s.wbuf_flush
      /\ t.wbuf_next = s.wbuf_next /\ t.rcv_queue = s.rcv_queue
  BY DEF Base, SessionRec
<1> HIDE DEF t
<1>2. Base(t)
  BY <1>1 DEF Base
<1>3. FlushInMessage(s) => FlushInMessage(t)
  BY <1>1 DEF FlushInMessage
<1>4. Drained(s) => Drained(t)
  BY <1>1 DEF Drained, HasData
<1> QED
  BY <1>1, <1>2, <1>3, <1>4 DEF t

\* session_read_cb up to its first test restores SInv.
LEMMA ReadCbSInv ==
  ASSUME NEW s, Core(s), ~s.reading
  PROVE  SInv(session_read_cb(s))
<1>1. CASE s.kcp_state = STATE_CONNECTED
  <2> DEFINE t == [s EXCEPT !.reading = TRUE]
  <2>1. session_read_cb(s) = t
    BY <1>1 DEF session_read_cb
  <2>2. /\ Core(t) /\ t.reading = TRUE /\ t.kcp_state = STATE_CONNECTED
        /\ t.tcp_state = s.tcp_state
    BY <1>1, ReadingFields DEF Core
  <2> HIDE DEF t
  <2>3. t.tcp_state # STATE_LINGER
    BY <2>2, StatesDiffer DEF Core, Base
  <2> QED
    BY <2>1, <2>2, <2>3, CoreIsSInv
<1>2. CASE s.kcp_state # STATE_CONNECTED
  <2>1. Drained(s)
    BY <1>2 DEF Drained
  <2> QED
    BY <1>2, <2>1, NotifySInv DEF session_read_cb
<1> QED
  BY <1>1, <1>2

\* A pass of the loop of session_read_cb preserves SInv.
LEMMA PassSInv ==
  ASSUME NEW s, SInv(s), s.reading, NEW t \in ReadLoopPass(s)
  PROVE  SInv(t)
<1>1. Core(s) /\ s.kcp_state = STATE_CONNECTED
  BY SInvIsCore DEF SInv, HalvesAgree
<1>2. PICK r \in ss_process(s) :
        t \in IF r.ret < 0 THEN Shutdown([r.ss EXCEPT !.reading = FALSE])
              ELSE IF r.ret = 0 /\ r.ss.kcp_state = STATE_CONNECTED THEN {r.ss}
              ELSE {tcp_notify([r.ss EXCEPT !.reading = FALSE])}
  BY DEF ReadLoopPass
<1>3. /\ r.ret \in {-1, 0, 1}
      /\ Base(r.ss) /\ r.ss.wbuf_flush <= r.ss.wbuf_next
      /\ r.ss.reading = s.reading
      /\ r.ret # -1 => Core(r.ss)
      /\ r.ret = 1 => Drained(r.ss)
  BY <1>1, ProcessCore
<1> DEFINE u == [r.ss EXCEPT !.reading = FALSE]
<1>4. /\ Base(u) /\ u.reading = FALSE /\ u.wbuf_flush <= u.wbuf_next
      /\ u.kcp_state = r.ss.kcp_state
      /\ FlushInMessage(r.ss) => FlushInMessage(u)
      /\ Drained(r.ss) => Drained(u)
  BY <1>3, ReadingFields
<1>5. CASE r.ret = -1
  <2>1. t \in Shutdown(u)
    BY <1>2, <1>5
  <2> HIDE DEF u
  <2> QED
    BY <1>4, <2>1, ShutdownCore, StoppedSInv
<1>6. CASE r.ret = 0 /\ r.ss.kcp_state = STATE_CONNECTED
  <2>1. t = r.ss
    BY <1>2, <1>6
  <2>2. Core(t)
    BY <1>3, <1>6, <2>1
  <2>3. t.tcp_state # STATE_LINGER
    BY <1>6, <2>1, <2>2, StatesDiffer DEF Core, Base
  <2> QED
    BY <1>3, <1>6, <2>1, <2>2, <2>3, CoreIsSInv
<1>7. CASE r.ret # -1 /\ ~(r.ret = 0 /\ r.ss.kcp_state = STATE_CONNECTED)
  <2>1. t = tcp_notify(u)
    BY <1>2, <1>3, <1>7
  <2>2. Drained(r.ss)
    BY <1>3, <1>7 DEF Drained
  <2>3. Core(u)
    BY <1>3, <1>4, <1>7 DEF Core
  <2> HIDE DEF u
  <2> QED
    BY <1>4, <2>1, <2>2, <2>3, NotifySInv
<1> QED
  BY <1>3, <1>5, <1>6, <1>7

\* A stopped session has nothing left to process.
LEMMA StoppedDrained ==
  ASSUME NEW t, Core(t), t.tcp_state = STATE_TIME_WAIT
  PROVE  Drained(t)
BY StatesDiffer DEF Core, Base, Drained

\* The WRITE half of tcp_socket_cb restores SInv.
LEMMA WritableSInv ==
  ASSUME NEW s, Core(s), ~s.reading, Drained(s), NEW t \in SocketWritable(s)
  PROVE  SInv(t)
<1>1. PICK f \in tcp_flush(s) :
        t = IF f.tcp_state = STATE_CONNECTED /\ f.wbuf_flush = f.wbuf_next
            THEN session_read_cb(f) ELSE tcp_notify(f)
  BY DEF SocketWritable
<1>2. /\ Core(f) /\ ~f.reading
      /\ \/ f.tcp_state = STATE_TIME_WAIT
         \/ f.tcp_state = s.tcp_state
  BY FlushCore
<1>3. CASE f.tcp_state = STATE_CONNECTED /\ f.wbuf_flush = f.wbuf_next
  BY <1>1, <1>2, <1>3, ReadCbSInv
<1>4. CASE ~(f.tcp_state = STATE_CONNECTED /\ f.wbuf_flush = f.wbuf_next)
  <2>1. Drained(f)
    <3>1. CASE f.tcp_state = STATE_TIME_WAIT
      BY <1>2, <3>1, StoppedDrained
    <3>2. CASE f.tcp_state = STATE_CONNECTED
      <4>1. f.wbuf_flush \in Nat /\ f.wbuf_next \in Nat
            /\ f.wbuf_flush <= f.wbuf_next
        BY <1>2 DEF Core, Base, SessionRec, FlushInMessage
      <4>2. HasData(f)
        BY <1>4, <3>2, <4>1 DEF HasData
      <4> QED
        BY <4>2 DEF Drained
    <3>3. CASE f.tcp_state = STATE_LINGER
      BY <1>2, <3>3, StatesDiffer DEF Core, Base, Drained
    <3>4. CASE f.tcp_state \in {STATE_INIT, STATE_CONNECT}
      <4>1. s.tcp_state \notin {STATE_CONNECTED, STATE_LINGER}
        BY <1>2, <3>4, StatesDiffer
      <4>2. f = s
        BY <1>1, <4>1 DEF tcp_flush
      <4> QED
        BY <4>2
    <3> QED
      BY <1>2, <3>1, <3>2, <3>3, <3>4 DEF Core, Base, SessionRec, State
  <2> QED
    BY <1>1, <1>2, <1>4, <2>1, NotifySInv
<1> QED
  BY <1>3, <1>4

\* tcp_socket_cb preserves SInv, whatever recv, send and connect do.
LEMMA SocketSInv ==
  ASSUME NEW s, SInv(s), ~s.reading, NEW revents, NEW avail,
         NEW t \in tcp_socket_cb(s, revents, avail)
  PROVE  SInv(t)
<1> DEFINE c == IF s.tcp_state = STATE_CONNECT THEN connected_cb(s) ELSE {s}
           r == IF READ \in revents THEN UNION {tcp_recv_all(x, avail) : x \in c}
                ELSE c
<1>1. Core(s) /\ Drained(s)
  BY SInvIsCore DEF SInv, Awake
<1>2. ASSUME NEW x \in c
      PROVE  Core(x) /\ ~x.reading /\ Drained(x)
  <2>1. CASE s.tcp_state # STATE_CONNECT
    BY <1>1, <2>1
  <2>2. CASE s.tcp_state = STATE_CONNECT
    <3>1. x \in connected_cb(s)
      BY <2>2
    <3> HIDE DEF c
    <3>2. /\ Core(x) /\ ~x.reading
          /\ \/ x.tcp_state = STATE_TIME_WAIT
             \/ /\ x.kcp_state = s.kcp_state /\ x.wbuf = s.wbuf
                /\ x.wbuf_next = s.wbuf_next /\ x.rcv_queue = s.rcv_queue
                /\ x.wbuf_flush = s.wbuf_flush
      BY <1>1, <2>2, <3>1, ConnectedCore
    <3> QED
      BY <1>1, <3>2, StoppedDrained DEF Drained, HasData
  <2> QED
    BY <2>1, <2>2
<1>3. ASSUME NEW y \in r
      PROVE  Core(y) /\ ~y.reading /\ Drained(y)
  <2>1. CASE READ \notin revents
    BY <1>2, <2>1
  <2>2. CASE READ \in revents
    <3>1. PICK x \in c : y \in tcp_recv_all(x, avail)
      BY <2>2
    <3>2. Core(x) /\ ~x.reading /\ Drained(x)
      BY <1>2, <3>1
    <3> HIDE DEF c
    <3>3. /\ Core(y) /\ ~y.reading
          /\ y.tcp_state = STATE_TIME_WAIT \/ SameHalves(x, y)
      BY <3>1, <3>2, RecvAllCore
    <3> QED
      BY <3>2, <3>3, StoppedDrained DEF SameHalves, Drained, HasData
  <2> QED
    BY <2>1, <2>2
<1>4. t \in IF WRITE \in revents THEN UNION {SocketWritable(x) : x \in r}
            ELSE {tcp_notify(x) : x \in r}
  BY DEF tcp_socket_cb
<1> HIDE DEF r, c
<1>5. CASE WRITE \in revents
  <2>1. PICK y \in r : t \in SocketWritable(y)
    BY <1>4, <1>5
  <2> QED
    BY <1>3, <2>1, WritableSInv
<1>6. CASE WRITE \notin revents
  <2>1. PICK y \in r : t = tcp_notify(y)
    BY <1>4, <1>6
  <2> QED
    BY <1>3, <2>1, NotifySInv
<1> QED
  BY <1>5, <1>6

\* A session that differs from s only in fields that SInv does not mention, or
\* whose send window has less room.
LEMMA SameHalvesSInv ==
  ASSUME NEW s, NEW t, SInv(s), SameHalves(s, t),
         kcp_cansend(t) => kcp_cansend(s)
  PROVE  SInv(t)
<1>1. HalvesAgree(t) /\ FlushInMessage(t)
  BY DEF SInv, SameHalves, HalvesAgree, FlushInMessage
<1>2. ~t.reading => Awake(t)
  BY DEF SInv, SameHalves, Awake, Drained, HasData
<1> QED
  BY <1>1, <1>2 DEF SInv, SameHalves

\* ss_flush_cb preserves SInv.
LEMMA FlushCbSInv ==
  ASSUME NEW s, SInv(s), ~s.reading
  PROVE  SInv(ss_flush_cb(s))
<1> DEFINE f == [s EXCEPT !.w_flush = FALSE]
<1>1. SameHalves(s, f) /\ kcp_cansend(f) = kcp_cansend(s)
  BY DEF SInv, SessionRec, SameHalves, kcp_cansend, ikcp_waitsnd
<1>2. SInv(f) /\ ~f.reading
  BY <1>1, SameHalvesSInv DEF SameHalves
<1>3. ss_flush_cb(s) = f \/ ss_flush_cb(s) = tcp_notify(f)
  BY DEF ss_flush_cb
<1> HIDE DEF f
<1>4. Core(f) /\ Drained(f)
  BY <1>2, SInvIsCore DEF SInv, Awake
<1> QED
  BY <1>2, <1>3, <1>4, NotifySInv

\* kcp_update preserves SInv.
LEMMA KcpUpdateSInv ==
  ASSUME NEW s, SInv(s), ~s.reading
  PROVE  SInv(kcp_update(s))
<1>1. Core(s) /\ Drained(s)
  BY SInvIsCore DEF SInv, Awake
<1> QED
  BY <1>1, NotifySInv DEF kcp_update

\* session_tcp_stop and session_kcp_stop together.
LEMMA StopSInv ==
  ASSUME NEW s, SInv(s), ~s.reading
  PROVE  SInv(session_kcp_stop(session_tcp_stop(s)))
<1> DEFINE u == session_tcp_stop(s)
           t == session_kcp_stop(u)
<1>1. /\ u \in SessionRec /\ u.tcp_state = STATE_TIME_WAIT
      /\ u.fd = FALSE /\ u.events = {} /\ u.reading = s.reading
      /\ u.wbuf_flush = s.wbuf_flush /\ u.wbuf_next = s.wbuf_next
  BY TcpStopFields DEF SInv
<1> HIDE DEF u
<1>2. /\ t \in SessionRec /\ t.tcp_state = STATE_TIME_WAIT
      /\ t.fd = FALSE /\ t.events = {} /\ t.reading = s.reading
      /\ t.wbuf_flush = s.wbuf_flush /\ t.wbuf_next = s.wbuf_next
      /\ t.kcp_state = STATE_TIME_WAIT /\ t.kcp = FALSE
  BY <1>1, KcpStopFields
<1> HIDE DEF t
<1>3. Core(t)
  BY <1>2, StatesDiffer DEF SInv, Core, Base, FlushInMessage
<1> QED
  BY <1>2, <1>3, StoppedSInv DEF t, u

\* The linger timeout preserves SInv: the TCP half is already stopped.
LEMMA LingerStopSInv ==
  ASSUME NEW s, SInv(s), ~s.reading, s.kcp_state = STATE_LINGER
  PROVE  SInv(session_kcp_stop(s))
<1> DEFINE t == session_kcp_stop(s)
<1>1. /\ s.tcp_state = STATE_TIME_WAIT /\ s.fd = FALSE /\ s.events = {}
      /\ s \in SessionRec
  BY StatesDiffer DEF SInv, HalvesAgree, SessionRec
<1>2. /\ t \in SessionRec /\ t.tcp_state = STATE_TIME_WAIT
      /\ t.fd = FALSE /\ t.events = {} /\ t.reading = s.reading
      /\ t.wbuf_flush = s.wbuf_flush /\ t.wbuf_next = s.wbuf_next
      /\ t.kcp_state = STATE_TIME_WAIT /\ t.kcp = FALSE
  BY <1>1, KcpStopFields
<1> HIDE DEF t
<1>3. Core(t)
  BY <1>2, StatesDiffer DEF SInv, Core, Base, FlushInMessage
<1> QED
  BY <1>2, <1>3, StoppedSInv DEF t

\* A keepalive preserves SInv: it can only make the window smaller.
LEMMA SentSInv ==
  ASSUME NEW s, SInv(s), NEW m \in Message
  PROVE  SInv(Sent(s, m))
<1>1. s \in SessionRec
  BY DEF SInv
<1>2. /\ SameHalves(s, Sent(s, m)) /\ Sent(s, m).snd_una = s.snd_una
      /\ Sent(s, m).tx = Append(s.tx, m)
  BY <1>1, SentFields
<1>3. Len(Append(s.tx, m)) = Len(s.tx) + 1 /\ Len(s.tx) \in Nat /\ s.snd_una \in Nat
  <2>1. s.tx \in Seq(Message) /\ s.snd_una \in Nat
    BY <1>1 DEF SessionRec
  <2> QED
    BY <2>1
<1>4. kcp_cansend(Sent(s, m)) => kcp_cansend(s)
  <2>1. SndWnd \in Nat
    BY SessionAssumption
  <2> QED
    BY <1>2, <1>3, <2>1 DEF kcp_cansend, ikcp_waitsnd, SameHalves
<1> QED
  BY <1>2, <1>4, SameHalvesSInv

\* timeout_filt preserves SInv.
LEMMA TimeoutSInv ==
  ASSUME NEW s, SInv(s), ~s.reading, NEW t \in timeout_filt(s)
  PROVE  SInv(t)
<1>0. s \in SessionRec /\ Core(s)
  BY SInvIsCore DEF SInv
<1>1. \/ t = s
      \/ t \in Shutdown(s)
      \/ t = session_kcp_stop(session_tcp_stop(s))
      \/ t = Sent(s, SMSG_KEEPALIVE)
      \/ t = session_kcp_stop(s) /\ s.kcp_state = STATE_LINGER
  <2>1. CASE s.kcp_state \in {STATE_INIT, STATE_CONNECT}
    <3>1. timeout_filt(s) = IF s.created > DialTimeout THEN Shutdown(s) ELSE {s}
      BY <2>1, StatesDiffer DEF timeout_filt
    <3> QED
      BY <3>1
  <2>2. CASE s.kcp_state = STATE_CONNECTED
    <3>1. timeout_filt(s) \in
            {{session_kcp_stop(session_tcp_stop(s))},
             {r.ss : r \in kcp_sendmsg(s, SMSG_KEEPALIVE)}, {s}}
      BY <2>2, StatesDiffer DEF timeout_filt
    <3> QED
      BY <3>1 DEF kcp_sendmsg
  <2>3. CASE s.kcp_state = STATE_LINGER
    <3>1. timeout_filt(s) \in {{session_kcp_stop(s)}, {s}}
      BY <2>3, StatesDiffer DEF timeout_filt
    <3> QED
      BY <2>3, <3>1
  <2>4. CASE s.kcp_state = STATE_TIME_WAIT
    <3>1. timeout_filt(s) = {s}
      BY <2>4, StatesDiffer DEF timeout_filt
    <3> QED
      BY <3>1
  <2> QED
    BY <1>0, <2>1, <2>2, <2>3, <2>4 DEF SessionRec, State
<1>2. CASE t \in Shutdown(s)
  BY <1>0, <1>2, CoreShutdown, StoppedSInv
<1> QED
  BY <1>1, <1>2, StopSInv, SentSInv, LingerStopSInv, Messages

=============================================================================
