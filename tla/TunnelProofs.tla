---------------------------- MODULE TunnelProofs ----------------------------
(***************************************************************************)
(* The invariants of Tunnel, for every value of the constants: any window, *)
(* any timeouts, any amount of data, any number of restarts and of late    *)
(* duplicates.                                                             *)
(***************************************************************************)
EXTENDS Tunnel, SessionProofs, SequenceTheorems

\* The inductive invariant: the types, and SInv for each session there is.
IInv ==
  /\ TypeOK
  /\ \A n \in Node : Present(n) => SInv(ss[n])

\* The two processes are each other's peer.
LEMMA NodeFacts ==
  /\ Client \in Node /\ Server \in Node
  /\ \A n \in Node : Peer(n) \in Node /\ Peer(n) # n
BY DEF Node, Client, Server, Peer

\* What is left to show of a step that changes the session of n only.
LEMMA OneSession ==
  ASSUME IInv, NEW n \in Node, NEW x, x = NULL \/ SInv(x),
         ss' = [ss EXCEPT ![n] = x], resets' \subseteq Node,
         accepted' \in BOOLEAN, strays' \in 0..MaxStray,
         restarts' \in 0..MaxRestart, dials' \in 0..2
  PROVE  IInv'
<1>1. ss \in [Node -> SessionRec \cup {NULL}]
  BY DEF IInv, TypeOK
<1>2. x \in SessionRec \cup {NULL}
  BY DEF SInv
<1>3. ss' \in [Node -> SessionRec \cup {NULL}]
  BY <1>1, <1>2
<1>4. ASSUME NEW i \in Node, ss'[i] # NULL
      PROVE  SInv(ss'[i])
  BY <1>1, <1>4 DEF IInv, Present
<1> QED
  BY <1>3, <1>4 DEF IInv, TypeOK, Present

\* A callback whose outcomes all satisfy SInv preserves IInv.
LEMMA BecomesIInv ==
  ASSUME IInv, NEW n \in Node, NEW S, \A x \in S : x = NULL \/ SInv(x),
         Becomes(n, S), dials' \in 0..2
  PROVE  IInv'
<1>1. PICK x \in S : ss' = [ss EXCEPT ![n] = x]
  BY DEF Becomes
<1>2. /\ resets' \subseteq Node /\ accepted' \in BOOLEAN
      /\ strays' \in 0..MaxStray /\ restarts' \in 0..MaxRestart
  BY DEF Becomes, IInv, TypeOK
<1> QED
  BY <1>1, <1>2, OneSession

\* What session_new returns.
LEMMA NewFields ==
  ASSUME NEW b \in BOOLEAN
  PROVE  LET s == session_new(b)
         IN  /\ s \in SessionRec
             /\ s.tcp_state = STATE_INIT /\ s.kcp = TRUE /\ s.fd = FALSE
             /\ s.events = {} /\ s.wbuf_flush = 0 /\ s.wbuf_next = 0
             /\ s.reading = FALSE
<1>1. <<>> \in Seq(Message) /\ <<>> \in Seq(Int)
  OBVIOUS
<1> QED
  BY <1>1, Zero, StatesDiffer DEF session_new, SessionRec

\* accept_one preserves IInv.
LEMMA AcceptIInv ==
  ASSUME IInv, accept_one
  PROVE  IInv'
<1> DEFINE s0 == session_new(FALSE)
           s1 == [s0 EXCEPT !.kcp_state = STATE_CONNECT,
                            !.tcp_state = STATE_CONNECTED]
           s2 == Sent(s1, SMSG_DIAL)
           s3 == session_tcp_start(s2)
<1>1. /\ s0 \in SessionRec /\ s0.kcp = TRUE
      /\ s0.wbuf_flush = 0 /\ s0.wbuf_next = 0 /\ s0.reading = FALSE
  BY NewFields
<1>2. ss' = [ss EXCEPT ![Client] = s3] \/ UNCHANGED ss
  BY DEF accept_one
<1> HIDE DEF s0
<1>3. /\ s1 \in SessionRec /\ s1.kcp = TRUE
      /\ s1.wbuf_flush = 0 /\ s1.wbuf_next = 0 /\ s1.reading = FALSE
      /\ s1.kcp_state = STATE_CONNECT /\ s1.tcp_state = STATE_CONNECTED
  BY <1>1, StatesDiffer DEF SessionRec
<1> HIDE DEF s1
<1>4. /\ s2 \in SessionRec /\ s2.kcp = TRUE
      /\ s2.wbuf_flush = 0 /\ s2.wbuf_next = 0 /\ s2.reading = FALSE
      /\ s2.kcp_state = STATE_CONNECT /\ s2.tcp_state = STATE_CONNECTED
  BY <1>3, SentFields, Messages DEF SameHalves
<1> HIDE DEF s2
<1>5. /\ s3 \in SessionRec /\ s3.kcp = TRUE /\ s3.fd = TRUE
      /\ s3.events = {READ, WRITE}
      /\ s3.wbuf_flush = 0 /\ s3.wbuf_next = 0 /\ s3.reading = FALSE
      /\ s3.kcp_state = STATE_CONNECT /\ s3.tcp_state = STATE_CONNECTED
  BY <1>4 DEF session_tcp_start, SessionRec
<1> HIDE DEF s3
<1>6. Core(s3) /\ Awake(s3)
  BY <1>5, StatesDiffer DEF Core, Base, FlushInMessage, Awake, Drained
<1>7. SInv(s3)
  BY <1>5, <1>6, CoreIsSInv, StatesDiffer
<1>8. /\ resets' \subseteq Node /\ accepted' \in BOOLEAN
      /\ strays' \in 0..MaxStray /\ restarts' \in 0..MaxRestart
      /\ dials' \in 0..2
  BY DEF accept_one, IInv, TypeOK
<1>9. CASE ss' = [ss EXCEPT ![Client] = s3]
  BY <1>7, <1>8, <1>9, OneSession, NodeFacts
<1>10. CASE UNCHANGED ss
  BY <1>8, <1>10 DEF IInv, TypeOK, Present
<1> QED
  BY <1>2, <1>9, <1>10

\* A datagram given to ikcp_input, and the read callback it starts, restore
\* SInv.
LEMMA InputSInv ==
  ASSUME NEW s, Core(s), ~s.reading, NEW una \in Nat,
         NEW ms \in Seq(Message), NEW h \in BOOLEAN
  PROVE  SInv(Input(s, una, ms, h))
<1> DEFINE c == IF s.kcp_state = STATE_CONNECT
                THEN [s EXCEPT !.kcp_state = STATE_CONNECTED] ELSE s
           i == ikcp_input(c, una, ms, h)
           f == IF KcpFlush >= 2 THEN session_kcp_flush(i) ELSE i
<1>1. Core(c) /\ c.reading = s.reading
  <2>1. CASE s.kcp_state = STATE_CONNECT
    <3>1. /\ c \in SessionRec /\ c.kcp_state = STATE_CONNECTED
          /\ c.tcp_state = s.tcp_state /\ c.fd = s.fd /\ c.kcp = s.kcp
          /\ c.events = s.events /\ c.wbuf = s.wbuf
          /\ c.wbuf_flush = s.wbuf_flush /\ c.wbuf_next = s.wbuf_next
          /\ c.reading = s.reading
      BY <2>1, StatesDiffer DEF Core, Base, SessionRec
    <3> HIDE DEF c
    <3> QED
      BY <2>1, <3>1, StatesDiffer DEF Core, Base, FlushInMessage
  <2>2. CASE s.kcp_state # STATE_CONNECT
    BY <2>2
  <2> QED
    BY <2>1, <2>2
<1>2. Input(s, una, ms, h) = session_read_cb(f)
  BY DEF Input
<1> HIDE DEF c
<1>3. Core(i) /\ i.reading = c.reading
  <2>1. c \in SessionRec
    BY <1>1 DEF Core, Base
  <2>2. c.rcv_queue \o ms \in Seq(Message) /\ c.rcv_nxt + Len(ms) \in Nat
    <3>1. c.rcv_queue \in Seq(Message) /\ c.rcv_nxt \in Nat
      BY <2>1 DEF SessionRec
    <3> QED
      BY <3>1
  <2>3. (c.ack_due \/ h) \in BOOLEAN
    OBVIOUS
  <2>4. /\ i \in SessionRec
        /\ i.tcp_state = c.tcp_state /\ i.kcp_state = c.kcp_state
        /\ i.fd = c.fd /\ i.kcp = c.kcp
        /\ i.events = c.events /\ i.wbuf = c.wbuf
        /\ i.wbuf_flush = c.wbuf_flush /\ i.wbuf_next = c.wbuf_next
        /\ i.reading = c.reading
    BY <2>1, <2>2, <2>3 DEF ikcp_input, SessionRec
  <2> HIDE DEF i
  <2> QED
    BY <1>1, <2>4 DEF Core, Base, FlushInMessage
<1> HIDE DEF i
<1>4. Core(f) /\ f.reading = i.reading
  <2>1. i \in SessionRec
    BY <1>3 DEF Core, Base
  <2>2. SameHalves(i, session_kcp_flush(i))
    BY <2>1, KcpFlushFields
  <2> QED
    BY <1>3, <2>2, SameHalvesCore
<1> HIDE DEF f
<1> QED
  BY <1>1, <1>2, <1>3, <1>4, ReadCbSInv

\* The session that queue_recv works on.
LEMMA FoundCore ==
  ASSUME IInv, NEW n \in Node, Present(n) => Idle(n)
  PROVE  Core(FoundOrNew(n)) /\ ~FoundOrNew(n).reading
<1>1. CASE Present(n)
  BY <1>1, SInvIsCore DEF FoundOrNew, IInv, Idle
<1>2. CASE ~Present(n)
  <2> DEFINE s0 == session_new(TRUE)
             s1 == [s0 EXCEPT !.kcp_state = STATE_CONNECT]
  <2>1. /\ s0 \in SessionRec /\ s0.kcp = TRUE /\ s0.fd = FALSE
        /\ s0.tcp_state = STATE_INIT /\ s0.events = {}
        /\ s0.wbuf_flush = 0 /\ s0.wbuf_next = 0 /\ s0.reading = FALSE
    BY NewFields
  <2>2. FoundOrNew(n) = s1
    BY <1>2 DEF FoundOrNew
  <2> HIDE DEF s0
  <2>3. /\ s1 \in SessionRec /\ s1.kcp = TRUE /\ s1.fd = FALSE
        /\ s1.tcp_state = STATE_INIT /\ s1.events = {}
        /\ s1.wbuf_flush = 0 /\ s1.wbuf_next = 0 /\ s1.reading = FALSE
        /\ s1.kcp_state = STATE_CONNECT
    BY <2>1, StatesDiffer DEF SessionRec
  <2> HIDE DEF s1
  <2>4. Core(s1)
    BY <2>3, StatesDiffer DEF Core, Base, FlushInMessage
  <2> QED
    BY <2>2, <2>3, <2>4
<1> QED
  BY <1>1, <1>2

\* A number of acknowledged messages is a natural.
LEMMA AckedType ==
  ASSUME NEW s \in SessionRec, NEW p \in SessionRec
  PROVE  Acked(s, p) \subseteq Nat
<1>1. s.tx \in Seq(Message) /\ s.snd_una \in Nat /\ p.rcv_nxt \in Nat
  BY DEF SessionRec
<1>2. Len(s.tx) \in Nat
  BY <1>1
<1> QED
  BY <1>1, <1>2 DEF Acked

\* The messages that follow in a sequence of messages are one.
LEMMA FollowingType ==
  ASSUME NEW s \in SessionRec, NEW tx \in Seq(Message), NEW k \in Nat
  PROVE  Following(s, tx, k) \in Seq(Message)
<1>1. s.rcv_nxt \in Nat
  BY DEF SessionRec
<1> DEFINE hi == IF s.rcv_nxt + k < Len(tx) THEN s.rcv_nxt + k ELSE Len(tx)
<1>2. hi \in Nat /\ hi <= Len(tx)
  BY <1>1
<1>3. Following(s, tx, k) = SubSeq(tx, s.rcv_nxt + 1, hi)
  BY DEF Following
<1> HIDE DEF hi
<1>4. CASE s.rcv_nxt + 1 > hi
  BY <1>1, <1>2, <1>3, <1>4, SubSeqEmpty
<1>5. CASE s.rcv_nxt + 1 <= hi
  <2>1. s.rcv_nxt + 1 \in 1..(Len(tx) + 1) /\ hi \in (s.rcv_nxt + 1)-1..Len(tx)
    BY <1>1, <1>2, <1>5
  <2> QED
    BY <1>3, <2>1, SubSeqProperties
<1> QED
  BY <1>1, <1>2, <1>4, <1>5

\* What a datagram adds in order is a sequence of messages.
LEMMA InOrderType ==
  ASSUME NEW s \in SessionRec, NEW p \in SessionRec, NEW k \in Nat
  PROVE  InOrder(s, p, k) \in Seq(Message)
<1>1. Following(s, p.tx, k) \in Seq(Message)
  <2>1. p.tx \in Seq(Message)
    BY DEF SessionRec
  <2> QED
    BY <2>1, FollowingType
<1> QED
  BY <1>1 DEF InOrder

\* A field that SInv does not mention.
LEMMA AckDueSInv ==
  ASSUME NEW s, SInv(s)
  PROVE  SInv([s EXCEPT !.ack_due = FALSE])
<1> DEFINE t == [s EXCEPT !.ack_due = FALSE]
<1>1. SameHalves(s, t) /\ t.tx = s.tx /\ t.snd_una = s.snd_una
  BY DEF SInv, SessionRec, SameHalves
<1> HIDE DEF t
<1>2. kcp_cansend(t) = kcp_cansend(s)
  BY <1>1 DEF kcp_cansend, ikcp_waitsnd, SameHalves
<1> QED
  BY <1>1, <1>2, SameHalvesSInv DEF t

\* Noting the time of a RESET preserves SInv.
LEMMA LastResetSInv ==
  ASSUME NEW s, SInv(s)
  PROVE  SInv([s EXCEPT !.last_reset = 0])
<1> DEFINE t == [s EXCEPT !.last_reset = 0]
<1>1. SameHalves(s, t) /\ t.tx = s.tx /\ t.snd_una = s.snd_una
  BY Zero DEF SInv, SessionRec, SameHalves
<1> HIDE DEF t
<1>2. kcp_cansend(t) = kcp_cansend(s)
  BY <1>1 DEF kcp_cansend, ikcp_waitsnd, SameHalves
<1> QED
  BY <1>1, <1>2, SameHalvesSInv DEF t

\* Answering with a RESET preserves IInv.
LEMMA ResetIInv ==
  ASSUME IInv, NEW n \in Node, Reset(n), accepted' = accepted,
         strays' \in 0..MaxStray, restarts' = restarts, dials' = dials
  PROVE  IInv'
<1>1. /\ resets' \subseteq Node /\ accepted' \in BOOLEAN
      /\ restarts' \in 0..MaxRestart /\ dials' \in 0..2
  BY NodeFacts DEF Reset, IInv, TypeOK
<1>2. CASE UNCHANGED ss
  BY <1>1, <1>2 DEF IInv, TypeOK, Present
<1>3. CASE Present(n) /\ ss' = [ss EXCEPT ![n].last_reset = 0]
  <2>1. SInv([ss[n] EXCEPT !.last_reset = 0])
    BY <1>3, LastResetSInv DEF IInv
  <2>2. ss' = [ss EXCEPT ![n] = [ss[n] EXCEPT !.last_reset = 0]]
    BY <1>3
  <2> QED
    BY <1>1, <2>1, <2>2, OneSession
<1> QED
  BY <1>2, <1>3 DEF Reset

\* A datagram of the peer preserves IInv.
LEMMA QueueRecvIInv ==
  ASSUME IInv, NEW n \in Node, queue_recv(n)
  PROVE  IInv'
<1> DEFINE p == Peer(n)
<1>1. p \in Node /\ p # n
  BY NodeFacts
<1>2. /\ Present(n) => Idle(n) /\ HasOutput(p)
      /\ UNCHANGED <<accepted, strays, restarts, dials>>
  BY DEF queue_recv
<1>3. CASE MustReset(n) /\ Reset(n)
  BY <1>2, <1>3, ResetIInv DEF IInv, TypeOK, queue_recv
<1>4. CASE ~MustReset(n)
  <2> DEFINE s == FoundOrNew(n)
  <2>1. PICK k \in 0..(RcvWnd - Len(s.rcv_queue)), una \in Acked(s, ss[p]) :
          ss' = [ss EXCEPT ![n] = Input(s, una, InOrder(s, ss[p], k),
                                        ikcp_waitsnd(ss[p]) > 0),
                           ![p].ack_due = FALSE]
    BY <1>4 DEF queue_recv
  <2>2. Present(n) => Idle(n)
    BY DEF queue_recv
  <2>3. Core(s) /\ ~s.reading
    BY <2>2, FoundCore
  <2> HIDE DEF s
  <2>4. s \in SessionRec
    BY <2>3 DEF Core, Base
  <2>5. Present(p) /\ SInv(ss[p])
    BY <1>1 DEF queue_recv, HasOutput, IInv
  <2>6. ss[p] \in SessionRec
    BY <2>5 DEF SInv
  <2> DEFINE x == Input(s, una, InOrder(s, ss[p], k),
                        ikcp_waitsnd(ss[p]) > 0)
             y == [ss[p] EXCEPT !.ack_due = FALSE]
  <2>7. SInv(x)
    <3>1. una \in Nat
      BY <2>4, <2>6, AckedType
    <3>2. InOrder(s, ss[p], k) \in Seq(Message)
      BY <2>4, <2>6, InOrderType
    <3>3. (ikcp_waitsnd(ss[p]) > 0) \in BOOLEAN
      OBVIOUS
    <3> QED
      BY <2>3, <3>1, <3>2, <3>3, InputSInv
  <2>8. SInv(y)
    BY <2>5, AckDueSInv
  <2>9. ss \in [Node -> SessionRec \cup {NULL}]
    BY DEF IInv, TypeOK
  <2>10. ss' = [[ss EXCEPT ![n] = x] EXCEPT ![p] = y]
    BY <1>1, <2>1, <2>9
  <2> HIDE DEF x, y
  <2>11. ss' \in [Node -> SessionRec \cup {NULL}] /\ ss'[n] = x /\ ss'[p] = y
    <3>1. x \in SessionRec /\ y \in SessionRec
      BY <2>7, <2>8 DEF SInv
    <3> QED
      BY <1>1, <2>9, <2>10, <3>1
  <2>12. \A i \in Node : i = n \/ i = p
    BY DEF Node, Peer
  <2>13. /\ resets' \subseteq Node /\ accepted' \in BOOLEAN
         /\ strays' \in 0..MaxStray /\ restarts' \in 0..MaxRestart
         /\ dials' \in 0..2
    BY <1>4 DEF queue_recv, IInv, TypeOK
  <2> QED
    BY <2>7, <2>8, <2>11, <2>12, <2>13 DEF IInv, TypeOK, Present
<1> QED
  BY <1>3, <1>4 DEF queue_recv

\* What late datagrams bring is a sequence of messages.
LEMMA LateType ==
  ASSUME IInv, NEW n \in Node
  PROVE  Late(n) \in Seq(Message)
<1>1. CASE Present(Peer(n))
  <2>1. ss[Peer(n)] \in SessionRec
    BY <1>1, NodeFacts DEF IInv, SInv
  <2>2. ss[Peer(n)].tx \in Seq(Message)
    BY <2>1 DEF SessionRec
  <2> QED
    BY <1>1, <2>2 DEF Late
<1>2. CASE ~Present(Peer(n))
  <2>1. <<SMSG_DIAL>> \in Seq(Message) /\ <<>> \in Seq(Message)
    BY Messages
  <2> QED
    BY <1>2, <2>1 DEF Late
<1> QED
  BY <1>1, <1>2

\* A late duplicate preserves IInv.
LEMMA StrayIInv ==
  ASSUME IInv, NEW n \in Node, queue_recv_stray(n)
  PROVE  IInv'
<1>1. strays' \in 0..MaxStray
  BY TunnelAssumption DEF queue_recv_stray, IInv, TypeOK
<1>2. CASE MustReset(n) /\ Reset(n)
  BY <1>1, <1>2, ResetIInv DEF queue_recv_stray
<1>3. CASE ~MustReset(n)
  <2> DEFINE s == FoundOrNew(n)
  <2>1. PICK k \in 0..(RcvWnd - Len(s.rcv_queue)) :
          ss' = [ss EXCEPT ![n] = Input(s, s.snd_una, Following(s, Late(n), k), TRUE)]
    BY <1>3 DEF queue_recv_stray
  <2>2. Core(s) /\ ~s.reading
    BY FoundCore DEF queue_recv_stray
  <2> HIDE DEF s
  <2> DEFINE x == Input(s, s.snd_una, Following(s, Late(n), k), TRUE)
  <2>3. s.snd_una \in Nat /\ Following(s, Late(n), k) \in Seq(Message)
    <3>1. s \in SessionRec /\ s.snd_una \in Nat
      BY <2>2 DEF Core, Base, SessionRec
    <3>2. Late(n) \in Seq(Message)
      BY LateType
    <3> QED
      BY <3>1, <3>2, FollowingType
  <2>4. SInv(x)
    BY <2>2, <2>3, InputSInv
  <2>5. /\ resets' \subseteq Node /\ accepted' \in BOOLEAN
        /\ restarts' \in 0..MaxRestart /\ dials' \in 0..2
    BY <1>3 DEF queue_recv_stray, IInv, TypeOK
  <2>6. ss' = [ss EXCEPT ![n] = x]
    BY <2>1
  <2> HIDE DEF x
  <2> QED
    BY <1>1, <2>4, <2>5, <2>6, OneSession
<1> QED
  BY <1>2, <1>3 DEF queue_recv_stray

\* A RESET preserves IInv.
LEMMA OnResetIInv ==
  ASSUME IInv, NEW n \in Node, ss0_on_reset(n)
  PROVE  IInv'
<1>1. /\ resets' \subseteq Node /\ accepted' \in BOOLEAN
      /\ strays' \in 0..MaxStray /\ restarts' \in 0..MaxRestart
      /\ dials' \in 0..2
  BY DEF ss0_on_reset, IInv, TypeOK
<1>2. CASE Present(n) /\ ss[n].kcp_state # STATE_TIME_WAIT
  <2> DEFINE x == session_kcp_stop(session_tcp_stop(ss[n]))
  <2>1. SInv(ss[n]) /\ ~ss[n].reading
    BY <1>2 DEF ss0_on_reset, Idle, IInv
  <2>2. SInv(x)
    BY <2>1, StopSInv
  <2>3. ss' = [ss EXCEPT ![n] = x]
    BY <1>2 DEF ss0_on_reset
  <2> QED
    BY <1>1, <2>2, <2>3, OneSession
<1>3. CASE ~(Present(n) /\ ss[n].kcp_state # STATE_TIME_WAIT)
  <2>1. ss' = ss
    BY <1>3 DEF ss0_on_reset
  <2> QED
    BY <1>1, <2>1 DEF IInv, TypeOK, Present
<1> QED
  BY <1>2, <1>3

\* The steps that run a callback of one session.
LEMMA CallbackIInv ==
  ASSUME IInv, NEW n \in Node,
         \/ ReadLoop(n) \/ TcpSocketCb(n) \/ FlushCb(n)
         \/ KcpUpdateCb(n) \/ TimeoutCb(n)
  PROVE  IInv'
<1>1. dials \in 0..2
  BY DEF IInv, TypeOK
<1>2. Present(n) /\ SInv(ss[n])
  BY DEF ReadLoop, TcpSocketCb, FlushCb, KcpUpdateCb, TimeoutCb, Idle, IInv
<1>3. CASE ReadLoop(n)
  <2>1. ss[n].reading /\ Becomes(n, ReadLoopPass(ss[n]))
    BY <1>3 DEF ReadLoop
  <2>2. dials' \in 0..2
    BY <1>1, <1>3 DEF ReadLoop
  <2>3. \A x \in ReadLoopPass(ss[n]) : SInv(x)
    BY <1>2, <2>1, PassSInv
  <2> QED
    BY <2>1, <2>2, <2>3, BecomesIInv
<1>4. CASE TcpSocketCb(n)
  <2>1. ~ss[n].reading /\ dials' \in 0..2
    BY <1>1, <1>4 DEF TcpSocketCb, Idle
  <2>2. PICK revents :
          Becomes(n, tcp_socket_cb(ss[n], revents, MaxBlk[n] - ss[n].tcp_rx))
    BY <1>4 DEF TcpSocketCb
  <2>3. \A x \in tcp_socket_cb(ss[n], revents, MaxBlk[n] - ss[n].tcp_rx) :
          SInv(x)
    BY <1>2, <2>1, SocketSInv
  <2> QED
    BY <2>1, <2>2, <2>3, BecomesIInv
<1>5. CASE FlushCb(n)
  <2>1. ~ss[n].reading /\ dials' \in 0..2 /\ Becomes(n, {ss_flush_cb(ss[n])})
    BY <1>1, <1>5 DEF FlushCb, Idle
  <2>2. \A x \in {ss_flush_cb(ss[n])} : SInv(x)
    BY <1>2, <2>1, FlushCbSInv
  <2> QED
    BY <2>1, <2>2, BecomesIInv
<1>6. CASE KcpUpdateCb(n)
  <2>1. ~ss[n].reading /\ dials' \in 0..2 /\ Becomes(n, {kcp_update(ss[n])})
    BY <1>1, <1>6 DEF KcpUpdateCb, Idle
  <2>2. \A x \in {kcp_update(ss[n])} : SInv(x)
    BY <1>2, <2>1, KcpUpdateSInv
  <2> QED
    BY <2>1, <2>2, BecomesIInv
<1>7. CASE TimeoutCb(n)
  <2> DEFINE S == IF TimeWaitOver(ss[n]) THEN {NULL} ELSE timeout_filt(ss[n])
  <2>1. ~ss[n].reading /\ dials' \in 0..2 /\ Becomes(n, S)
    BY <1>1, <1>7 DEF TimeoutCb, Idle
  <2>2. \A x \in timeout_filt(ss[n]) : SInv(x)
    BY <1>2, <2>1, TimeoutSInv
  <2>3. \A x \in S : x = NULL \/ SInv(x)
    BY <2>2
  <2> HIDE DEF S
  <2> QED
    BY <2>1, <2>3, BecomesIInv
<1> QED
  BY <1>3, <1>4, <1>5, <1>6, <1>7

\* A session with other ages.
LEMMA AgesSInv ==
  ASSUME NEW s, SInv(s), NEW a \in Age, NEW b \in Age, NEW c \in Age,
         NEW d \in Age
  PROVE  SInv([s EXCEPT !.created = a, !.last_reset = b, !.last_send = c,
                        !.last_recv = d])
<1> DEFINE t == [s EXCEPT !.created = a, !.last_reset = b, !.last_send = c,
                          !.last_recv = d]
<1>1. SameHalves(s, t) /\ t.tx = s.tx /\ t.snd_una = s.snd_una
  BY DEF SInv, SessionRec, SameHalves
<1> HIDE DEF t
<1>2. kcp_cansend(t) = kcp_cansend(s)
  BY <1>1 DEF kcp_cansend, ikcp_waitsnd, SameHalves
<1> QED
  BY <1>1, <1>2, SameHalvesSInv DEF t

\* Growing older changes the four ages only, and keeps them in range.
LEMMA OlderSInv ==
  ASSUME NEW s, SInv(s)
  PROVE  SInv(Older(s))
<1> DEFINE Next1(a) == IF a = TSTAMP_NIL \/ a = AgeCap THEN a ELSE a + 1
           t == Older(s)
<1>1. s \in SessionRec
  BY DEF SInv
<1>2. \A a \in Age : Next1(a) \in Age
  BY SessionAssumption DEF Age, TSTAMP_NIL
<1>3. t = [s EXCEPT !.created = Next1(s.created),
                    !.last_reset = Next1(s.last_reset),
                    !.last_send = Next1(s.last_send),
                    !.last_recv = Next1(s.last_recv)]
  BY <1>1 DEF Older, SessionRec
<1>4. /\ Next1(s.created) \in Age /\ Next1(s.last_reset) \in Age
      /\ Next1(s.last_send) \in Age /\ Next1(s.last_recv) \in Age
  <2>1. /\ s.created \in Age /\ s.last_reset \in Age
        /\ s.last_send \in Age /\ s.last_recv \in Age
    BY <1>1 DEF SessionRec
  <2> QED
    BY <1>2, <2>1
<1> HIDE DEF Next1
<1>5. \A a, b, c, d \in Age :
        SInv([s EXCEPT !.created = a, !.last_reset = b, !.last_send = c,
                       !.last_recv = d])
  BY AgesSInv
<1>6. SInv([s EXCEPT !.created = Next1(s.created),
                     !.last_reset = Next1(s.last_reset),
                     !.last_send = Next1(s.last_send),
                     !.last_recv = Next1(s.last_recv)])
  BY <1>4, <1>5
<1> QED
  BY <1>3, <1>6

\* The passing of time preserves IInv.
LEMMA TickIInv ==
  ASSUME IInv, Tick
  PROVE  IInv'
<1>1. \A n \in Node : Present(n) => SInv(Older(ss[n]))
  BY OlderSInv DEF IInv
<1>2. ss' = [n \in Node |-> IF Present(n) THEN Older(ss[n]) ELSE ss[n]]
  BY DEF Tick
<1>3. \A n \in Node : ss'[n] = NULL \/ SInv(ss'[n])
  BY <1>1, <1>2 DEF Present
<1>4. ss' \in [Node -> SessionRec \cup {NULL}]
  BY <1>2, <1>3 DEF SInv
<1>5. /\ resets' \subseteq Node /\ accepted' \in BOOLEAN
      /\ strays' \in 0..MaxStray /\ restarts' \in 0..MaxRestart
      /\ dials' \in 0..2
  BY DEF Tick, IInv, TypeOK
<1> QED
  BY <1>3, <1>4, <1>5 DEF IInv, TypeOK, Present

\* A restart of the server preserves IInv.
LEMMA RestartIInv ==
  ASSUME IInv, Restart
  PROVE  IInv'
<1>1. restarts' \in 0..MaxRestart
  BY TunnelAssumption DEF Restart, IInv, TypeOK
<1>2. /\ resets' \subseteq Node /\ accepted' \in BOOLEAN
      /\ strays' \in 0..MaxStray /\ dials' \in 0..2
      /\ ss' = [ss EXCEPT ![Server] = NULL]
  BY DEF Restart, IInv, TypeOK
<1> QED
  BY <1>1, <1>2, OneSession, NodeFacts

\* IInv holds initially.
LEMMA InitIInv == Init => IInv
<1> SUFFICES ASSUME Init
             PROVE  IInv
  OBVIOUS
<1>1. ss \in [Node -> SessionRec \cup {NULL}] /\ \A n \in Node : ss[n] = NULL
  BY DEF Init
<1>2. accepted \in BOOLEAN /\ resets \subseteq Node
  BY DEF Init
<1>3. strays \in 0..MaxStray /\ restarts \in 0..MaxRestart /\ dials \in 0..2
  BY TunnelAssumption DEF Init
<1> QED
  BY <1>1, <1>2, <1>3 DEF IInv, TypeOK, Present

\* Every step preserves IInv.
LEMMA NextIInv ==
  ASSUME IInv, [Next]_vars
  PROVE  IInv'
<1>1. CASE UNCHANGED vars
  BY <1>1 DEF vars, IInv, TypeOK, Present
<1>2. CASE Next
  <2>1. CASE accept_one
    BY <2>1, AcceptIInv
  <2>2. CASE Restart
    BY <2>2, RestartIInv
  <2>3. CASE Tick
    BY <2>3, TickIInv
  <2>4. ASSUME NEW n \in Node, queue_recv(n)
        PROVE  IInv'
    BY <2>4, QueueRecvIInv
  <2>5. ASSUME NEW n \in Node, queue_recv_stray(n)
        PROVE  IInv'
    BY <2>5, StrayIInv
  <2>6. ASSUME NEW n \in Node, ss0_on_reset(n)
        PROVE  IInv'
    BY <2>6, OnResetIInv
  <2>7. ASSUME NEW n \in Node,
               \/ ReadLoop(n) \/ TcpSocketCb(n) \/ FlushCb(n)
               \/ KcpUpdateCb(n) \/ TimeoutCb(n)
        PROVE  IInv'
    BY <2>7, CallbackIInv
  <2> QED
    BY <1>2, <2>1, <2>2, <2>3, <2>4, <2>5, <2>6, <2>7 DEF Next
<1> QED
  BY <1>1, <1>2

\* IInv is an invariant of the tunnel.
THEOREM Invariance == Spec => []IInv
<1>1. IInv /\ [Next]_vars => IInv'
  BY NextIInv
<1> QED
  BY <1>1, InitIInv, PTL DEF Spec

\* Every variable keeps its type.
THEOREM TypeCorrect == Spec => []TypeOK
<1>1. IInv => TypeOK
  BY DEF IInv
<1> QED
  BY <1>1, Invariance, PTL

\* The two halves of a session stop together, whatever happens to the other
\* process, to the datagrams, to the sockets and to the allocator.
THEOREM LifecycleHolds == Spec => []Lifecycle
<1>1. IInv => Lifecycle
  BY DEF IInv, SInv, Lifecycle
<1> QED
  BY <1>1, Invariance, PTL

\* tcp_send never leaves the message at the head of wbuf.
THEOREM BufferSafe == Spec => []BufferSafety
<1>1. IInv => BufferSafety
  BY DEF IInv, SInv, BufferSafety
<1> QED
  BY <1>1, Invariance, PTL

\* Whenever the event loop waits, a watcher announces what is still to do.
THEOREM NoWakeupLost == Spec => []NoLostWakeup
<1>1. IInv => NoLostWakeup
  BY DEF IInv, SInv, NoLostWakeup, Idle
<1> QED
  BY <1>1, Invariance, PTL

=============================================================================
