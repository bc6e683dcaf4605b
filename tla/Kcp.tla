-------------------------------- MODULE Kcp --------------------------------
(***************************************************************************)
(* KCP (contrib/kcp/ikcp.c): two control blocks and the datagrams between  *)
(* them.  A control block is a record with the fields of struct IKCPCB, a  *)
(* function of ikcp.c is an operator on it.  Sequence numbers are kept     *)
(* modulo Wrap (2^32 in the code) and compared by their signed difference. *)
(*                                                                         *)
(* Left out: time and the estimate of the round trip, so that the timer of *)
(* a segment, or of a window probe, may have run out at any flush; and how *)
(* bytes are packed into segments (see Framing): a segment carries its     *)
(* absolute number.                                                        *)
(***************************************************************************)
EXTENDS Integers, Sequences, FiniteSets

CONSTANTS
  Wrap,              \* sequence numbers are 0..Wrap-1
  snd_wnd,
  rcv_wnd,
  IKCP_WND_RCV,      \* the window a new block supposes at the other end
  IKCP_THRESH_MIN,   \* and IKCP_THRESH_INIT, the same number
  mss,
  nocwnd,            \* no congestion window
  fastresend,
  fastlimit,
  MtuSegs,           \* the segments that fit into a datagram
  Starts,            \* how many segments the connection may have carried before
  MaxSend,           \* bound on the segments each node sends
  MaxNet,            \* bound on the datagrams on the way to a node
  MaxAck,            \* bound: with so many acknowledgements waiting, nothing arrives
  Lifetime           \* a datagram is gone when so many segments have passed

Node == {"client", "server"}
Peer(n) == IF n = "client" THEN "server" ELSE "client"
Half == Wrap \div 2
Least(a, b) == IF a < b THEN a ELSE b

ASSUME KcpAssumption ==
  /\ {Wrap, snd_wnd, rcv_wnd, IKCP_WND_RCV, IKCP_THRESH_MIN, mss, MtuSegs} \subseteq Nat \ {0}
  /\ {fastresend, fastlimit, MaxAck, Lifetime} \subseteq Nat
  /\ Wrap = 2 * Half
  /\ rcv_wnd >= IKCP_WND_RCV
  /\ nocwnd \in BOOLEAN
  /\ Starts \subseteq Nat
  /\ {MaxSend, MaxNet} \subseteq [Node -> Nat]
  \* What makes numbers modulo Wrap unambiguous.
  /\ Lifetime + snd_wnd + rcv_wnd < Half

VARIABLES
  kcp,               \* the control block of each node
  net,               \* the datagrams on their way to each node
  start,             \* history: the segments each node had sent before
  sent,              \* history: how many segments each node has sent
  taken,             \* history: the segments that were taken at each node
  trip               \* history: who made a whole round trip in the last step

vars == <<kcp, net, start, sent, taken, trip>>

CMD_PUSH == "push"
CMD_ACK == "ack"
CMD_WASK == "wask"
CMD_WINS == "wins"
ASK_SEND == "ask_send"
ASK_TELL == "ask_tell"

\* _itimediff: the difference of two numbers as a signed one.
itimediff(later, earlier) == ((later - earlier + Half) % Wrap) - Half

ikcp_create ==
  [snd_una |-> 0, snd_nxt |-> 0, rcv_nxt |-> 0, rmt_wnd |-> IKCP_WND_RCV,
   cwnd |-> 0, incr |-> 0, ssthresh |-> IKCP_THRESH_MIN,
   snd_queue |-> <<>>, snd_buf |-> <<>>, rcv_buf |-> <<>>, rcv_queue |-> <<>>,
   acklist |-> <<>>, probe |-> {}, probe_wait |-> FALSE]

\* A new connection, or one that is idle after both ends have sent n segments,
\* the last of them twice.
Idle(n) ==
  IF n = 0 THEN ikcp_create
  ELSE [ikcp_create EXCEPT !.snd_una = n % Wrap, !.snd_nxt = n % Wrap, !.rcv_nxt = n % Wrap,
                           !.rmt_wnd = rcv_wnd, !.cwnd = 1, !.incr = mss]

Init ==
  /\ start \in Starts
  /\ kcp = [n \in Node |-> Idle(start)]
  /\ net = [n \in Node |-> {}]
  /\ sent = [n \in Node |-> start]
  /\ taken = [n \in Node |-> [i \in 1..start |-> i]]
  /\ trip = {}

ikcp_waitsnd(k) == Len(k.snd_buf) + Len(k.snd_queue)

-----------------------------------------------------------------------------
(* Receiving *)

\* The part of q from the first element on for which Keep holds.
From(q, Keep(_)) ==
  LET I == {i \in 1..Len(q) : Keep(q[i])}
  IN  IF I = {} THEN <<>> ELSE SubSeq(q, CHOOSE i \in I : \A j \in I : i <= j, Len(q))

\* Bug: the first segment that has not arrived is freed too.
ikcp_parse_una_Inclusive(k, una) ==
  [k EXCEPT !.snd_buf = From(@, LAMBDA seg : itimediff(una, seg.sn) < 0)]

\* Everything below una has arrived.
ikcp_parse_una(k, una) ==
  [k EXCEPT !.snd_buf = From(@, LAMBDA seg : itimediff(una, seg.sn) <= 0)]

\* Bug: everything that was sent counts as acknowledged.
ikcp_shrink_buf_All(k) == [k EXCEPT !.snd_una = k.snd_nxt]

ikcp_shrink_buf(k) ==
  [k EXCEPT !.snd_una = IF k.snd_buf # <<>> THEN k.snd_buf[1].sn ELSE k.snd_nxt]

\* sn is the number of a segment that was sent and is not acknowledged.
InFlight(k, sn) ==
  itimediff(sn, k.snd_una) >= 0 /\ itimediff(sn, k.snd_nxt) < 0

ikcp_parse_ack(k, sn) ==
  IF InFlight(k, sn)
  THEN [k EXCEPT !.snd_buf = SelectSeq(@, LAMBDA seg : seg.sn # sn)]
  ELSE k

\* Segments before sn were overtaken by it once more.
ikcp_parse_fastack(k, sn) ==
  IF InFlight(k, sn)
  THEN [k EXCEPT !.snd_buf =
          [i \in 1..Len(@) |->
             IF itimediff(sn, @[i].sn) > 0
             THEN [@[i] EXCEPT !.fastack = Least(@ + 1, fastresend)] ELSE @[i]]]
  ELSE k

\* Bug: rcv_queue has no limit.
MoveAvailable_NoRoom(k) ==
  LET ready == {m \in 0..Len(k.rcv_buf) :
                  \A i \in 1..m : k.rcv_buf[i].sn = (k.rcv_nxt + i - 1) % Wrap}
      n == CHOOSE m \in ready : \A i \in ready : i <= m
  IN  [k EXCEPT !.rcv_buf = SubSeq(@, n + 1, Len(@)),
                !.rcv_queue = @ \o [i \in 1..n |-> k.rcv_buf[i].data],
                !.rcv_nxt = (@ + n) % Wrap]

\* The first segments of rcv_buf go to rcv_queue, as far as they follow on what
\* has arrived and there is room.
MoveAvailable(k) ==
  LET ready == {m \in 0..Len(k.rcv_buf) :
                  /\ Len(k.rcv_queue) + m <= rcv_wnd
                  /\ \A i \in 1..m : k.rcv_buf[i].sn = (k.rcv_nxt + i - 1) % Wrap}
      n == CHOOSE m \in ready : \A i \in ready : i <= m
  IN  [k EXCEPT !.rcv_buf = SubSeq(@, n + 1, Len(@)),
                !.rcv_queue = @ \o [i \in 1..n |-> k.rcv_buf[i].data],
                !.rcv_nxt = (@ + n) % Wrap]

\* rcv_buf is kept in order of the numbers, each of them once.
ikcp_parse_data(k, seg) ==
  LET after == {i \in 1..Len(k.rcv_buf) : itimediff(seg.sn, k.rcv_buf[i].sn) > 0}
      new == [sn |-> seg.sn, data |-> seg.data]
      i == Cardinality(after)
  IN  IF \/ itimediff(seg.sn, k.rcv_nxt + rcv_wnd) >= 0
         \/ itimediff(seg.sn, k.rcv_nxt) < 0
      THEN k
      ELSE MoveAvailable(
             IF \E j \in 1..Len(k.rcv_buf) : k.rcv_buf[j].sn = seg.sn THEN k
             ELSE [k EXCEPT !.rcv_buf = SubSeq(@, 1, i) \o <<new>> \o SubSeq(@, i + 1, Len(@))])

ikcp_ack_push(k, sn) == [k EXCEPT !.acklist = Append(@, sn)]

\* A segment of datagram d: its header first, then what its command says.
InputSegment(k, d, seg) ==
  LET h == ikcp_shrink_buf(ikcp_parse_una([k EXCEPT !.rmt_wnd = d.wnd], d.una))
  IN  CASE seg.cmd = CMD_ACK -> ikcp_shrink_buf(ikcp_parse_ack(h, seg.sn))
        [] seg.cmd = CMD_PUSH ->
             IF itimediff(seg.sn, h.rcv_nxt + rcv_wnd) >= 0 THEN h
             ELSE LET a == ikcp_ack_push(h, seg.sn)
                  IN  IF itimediff(seg.sn, h.rcv_nxt) >= 0
                      THEN ikcp_parse_data(a, seg) ELSE a
        [] seg.cmd = CMD_WASK -> [h EXCEPT !.probe = @ \cup {ASK_TELL}]
        [] seg.cmd = CMD_WINS -> h

\* Something was acknowledged: slow start, or congestion avoidance.
GrowWindow(k) ==
  LET i == IF k.incr < mss THEN mss ELSE k.incr
      incr == i + (mss * mss) \div i + mss \div 16
      grown == IF k.cwnd < k.ssthresh
               THEN [k EXCEPT !.cwnd = @ + 1, !.incr = @ + mss]
               ELSE [k EXCEPT !.incr = incr,
                              !.cwnd = IF (@ + 1) * mss <= incr
                                       THEN (incr + mss - 1) \div mss ELSE @]
  IN  IF k.cwnd >= k.rmt_wnd THEN k
      ELSE IF grown.cwnd > k.rmt_wnd
      THEN [grown EXCEPT !.cwnd = k.rmt_wnd, !.incr = k.rmt_wnd * mss]
      ELSE grown

ikcp_input(k, d) ==
  LET read[i \in 0..Len(d.segs)] ==
        IF i = 0 THEN k ELSE InputSegment(read[i - 1], d, d.segs[i])
      r == read[Len(d.segs)]
      acks == {d.segs[i].sn : i \in {i \in 1..Len(d.segs) : d.segs[i].cmd = CMD_ACK}}
      f == IF acks = {} THEN r
           ELSE ikcp_parse_fastack(r, CHOOSE a \in acks : \A b \in acks : itimediff(a, b) >= 0)
  IN  IF itimediff(f.snd_una, k.snd_una) > 0 THEN GrowWindow(f) ELSE f

\* The user takes a segment; room in a full window is told to the other end.
ikcp_recv(k) ==
  LET m == MoveAvailable([k EXCEPT !.rcv_queue = Tail(@)])
  IN  IF Len(k.rcv_queue) >= rcv_wnd /\ Len(m.rcv_queue) < rcv_wnd
      THEN [m EXCEPT !.probe = @ \cup {ASK_TELL}] ELSE m

-----------------------------------------------------------------------------
(* Sending *)

ikcp_send(k, data) == [k EXCEPT !.snd_queue = Append(@, data)]

ikcp_wnd_unused(k) == rcv_wnd - Len(k.rcv_queue)

\* Bug: a closed window is not probed.
ProbeWindow_Silent(k, due) == [k EXCEPT !.probe_wait = FALSE]

\* A closed window at the other end is probed when the timer has run out.
ProbeWindow(k, due) ==
  IF k.rmt_wnd # 0 THEN [k EXCEPT !.probe_wait = FALSE]
  ELSE [k EXCEPT !.probe_wait = TRUE,
                 !.probe = IF k.probe_wait /\ due THEN @ \cup {ASK_SEND} ELSE @]

\* The window that the segments in flight must fit in.
SendWindow(k) ==
  LET w == Least(snd_wnd, k.rmt_wnd) IN IF nocwnd THEN w ELSE Least(k.cwnd, w)

\* Bug: the number is not advanced from one segment to the next.
NumberSegments_Same(k) ==
  LET room == itimediff(k.snd_una + SendWindow(k), k.snd_nxt)
      n == IF room > 0 THEN Least(room, Len(k.snd_queue)) ELSE 0
  IN  [k EXCEPT !.snd_queue = SubSeq(@, n + 1, Len(@)),
                !.snd_nxt = (@ + n) % Wrap,
                !.snd_buf = @ \o [i \in 1..n |-> [sn |-> k.snd_nxt, data |-> k.snd_queue[i],
                                                  xmit |-> 0, fastack |-> 0]]]

\* As many segments of snd_queue get a number and go to snd_buf as fit.
NumberSegments(k) ==
  LET room == itimediff(k.snd_una + SendWindow(k), k.snd_nxt)
      n == IF room > 0 THEN Least(room, Len(k.snd_queue)) ELSE 0
  IN  [k EXCEPT !.snd_queue = SubSeq(@, n + 1, Len(@)),
                !.snd_nxt = (@ + n) % Wrap,
                !.snd_buf = @ \o [i \in 1..n |-> [sn |-> (k.snd_nxt + i - 1) % Wrap,
                                                  data |-> k.snd_queue[i],
                                                  xmit |-> 0, fastack |-> 0]]]

\* Why segment i of snd_buf is sent now, if it is.
Expired(k, i, late) == k.snd_buf[i].xmit > 0 /\ i \in late
Overtaken(k, i, late) ==
  /\ k.snd_buf[i].xmit > 0 /\ i \notin late
  /\ fastresend > 0 /\ k.snd_buf[i].fastack >= fastresend
  /\ k.snd_buf[i].xmit <= fastlimit \/ fastlimit = 0
NeedSend(k, i, late) ==
  k.snd_buf[i].xmit = 0 \/ Expired(k, i, late) \/ Overtaken(k, i, late)

\* Congestion control after a flush in which segments were sent again.
ShrinkWindow(k, change, lost, cwnd) ==
  LET inflight == (k.snd_nxt - k.snd_una) % Wrap
      AtLeast(w) == IF w < IKCP_THRESH_MIN THEN IKCP_THRESH_MIN ELSE w
      fast == IF ~change THEN k
              ELSE [k EXCEPT !.ssthresh = AtLeast(inflight \div 2),
                             !.cwnd = AtLeast(inflight \div 2) + fastresend,
                             !.incr = (AtLeast(inflight \div 2) + fastresend) * mss]
      slow == IF lost THEN [fast EXCEPT !.ssthresh = AtLeast(cwnd \div 2)] ELSE fast
  IN  IF lost \/ slow.cwnd < 1 THEN [slow EXCEPT !.cwnd = 1, !.incr = mss] ELSE slow

\* The block and the segments that a flush makes; late are the segments of
\* snd_buf whose timer has run out, due says so of the window probe.
ikcp_flush(k, late, due) ==
  LET p == ProbeWindow(k, due)
      b == NumberSegments(p)
      I == 1..Len(b.snd_buf)
      again == SelectSeq([i \in I |-> i], LAMBDA i : NeedSend(b, i, late))
      Segment(cmd, sn, data) == [cmd |-> cmd, sn |-> sn, data |-> data]
      acks == [i \in 1..Len(k.acklist) |-> Segment(CMD_ACK, k.acklist[i], 0)]
      ask == IF ASK_SEND \in p.probe THEN <<Segment(CMD_WASK, 0, 0)>> ELSE <<>>
      tell == IF ASK_TELL \in p.probe THEN <<Segment(CMD_WINS, 0, 0)>> ELSE <<>>
      push == [j \in 1..Len(again) |->
                 Segment(CMD_PUSH, b.snd_buf[again[j]].sn, b.snd_buf[again[j]].data)]
      marked == [b EXCEPT
        !.acklist = <<>>, !.probe = {},
        !.snd_buf = [i \in I |->
           IF ~NeedSend(b, i, late) THEN @[i]
           ELSE [@[i] EXCEPT !.xmit = Least(@ + 1, fastlimit + 1),
                             !.fastack = IF Overtaken(b, i, late) THEN 0 ELSE @]]]
  IN  [kcp |-> ShrinkWindow(marked, \E i \in I : Overtaken(b, i, late),
                            \E i \in I : Expired(b, i, late), SendWindow(p)),
       wnd |-> ikcp_wnd_unused(k), una |-> k.rcv_nxt,
       segs |-> acks \o ask \o tell \o push]

\* The segments go out in datagrams that fit the MTU.
Datagrams(f, born) ==
  {[wnd |-> f.wnd, una |-> f.una, born |-> born,
    segs |-> SubSeq(f.segs, i, Least(i + MtuSegs - 1, Len(f.segs)))] :
      i \in {i \in 1..Len(f.segs) : (i - 1) % MtuSegs = 0}}

-----------------------------------------------------------------------------
(* The steps *)

\* How many segments node n had numbered and received; it ages a datagram.
Position(n) ==
  sent[n] - Len(kcp[n].snd_queue) + Len(taken[n]) + Len(kcp[n].rcv_queue)
Alive(n, d) == Position(Peer(n)) - d.born <= Lifetime

\* kcp_cansend and kcp_send of session.c.
Send(n) ==
  /\ ikcp_waitsnd(kcp[n]) < snd_wnd
  /\ sent[n] < start + MaxSend[n]
  /\ kcp' = [kcp EXCEPT ![n] = ikcp_send(@, sent[n] + 1)]
  /\ sent' = [sent EXCEPT ![n] = @ + 1]
  /\ UNCHANGED <<net, start, taken>>

Take(n) ==
  /\ kcp[n].rcv_queue # <<>>
  /\ kcp' = [kcp EXCEPT ![n] = ikcp_recv(@)]
  /\ taken' = [taken EXCEPT ![n] = Append(@, Head(kcp[n].rcv_queue))]
  /\ UNCHANGED <<net, start, sent>>

\* ikcp_flush of a session, or ikcp_update by its timer; before the first update
\* a flush does nothing.  The datagrams get into the network or are lost, like
\* any that are on the way.
Flush(n) ==
  /\ \E late \in SUBSET {i \in 1..Len(kcp[n].snd_buf) : kcp[n].snd_buf[i].xmit > 0},
        due \in IF kcp[n].probe_wait THEN BOOLEAN ELSE {FALSE} :
       LET f == ikcp_flush(kcp[n], late, due)
           out == Datagrams(f, Position(n) + Len(kcp[n].snd_queue) - Len(f.kcp.snd_queue))
       IN  /\ kcp' = [kcp EXCEPT ![n] = f.kcp]
           /\ \E S \in SUBSET ({d \in net[Peer(n)] : Alive(Peer(n), d)} \cup out) :
                /\ Cardinality(S) <= MaxNet[Peer(n)]
                /\ net' = [net EXCEPT ![Peer(n)] = S]
  /\ UNCHANGED <<start, sent, taken>>

\* A datagram arrives, in any order.  The duplicates are the segments that were
\* sent again too early.
Arrives(n, d) == Alive(n, d) /\ Len(kcp[n].acklist) < MaxAck
Input(n) ==
  \E d \in net[n] :
    /\ Arrives(n, d)
    /\ kcp' = [kcp EXCEPT ![n] = ikcp_input(@, d)]
    /\ net' = [net EXCEPT ![n] = @ \ {d}]
    /\ UNCHANGED <<start, sent, taken>>


\* What the network and the timers owe to the protocol: now and then every timer
\* of n has run out at a flush, its datagram arrives at once, and so does the
\* answer.  Both have flushed before, in vain: the probe is armed, and no
\* acknowledgements wait.
Flushed(n) == ikcp_flush(kcp[n], {}, FALSE).kcp
Asked(n) == LET k == Flushed(n) IN ikcp_flush(k, 1..Len(k.snd_buf), TRUE)
Answered(n, f) == ikcp_flush(ikcp_input(Flushed(Peer(n)), f), {}, FALSE)

CanTrip(n) == Len(Asked(n).segs) \in 1..MtuSegs

RoundTrip(n) ==
  /\ \E f \in {Asked(n)} :
       /\ Len(f.segs) \in 1..MtuSegs
       /\ \E g \in {Answered(n, f)} :
            kcp' = [kcp EXCEPT ![n] = IF g.segs = <<>> THEN f.kcp ELSE ikcp_input(f.kcp, g),
                               ![Peer(n)] = g.kcp]
  /\ UNCHANGED <<net, start, sent, taken>>

\* An end that has nothing to say is owed nothing.
Speaks == {n \in Node : MaxSend[n] > 0}

Next ==
  \E n \in Node :
    \/ (Send(n) \/ Take(n) \/ Flush(n) \/ Input(n)) /\ trip' = {}
    \/ n \in Speaks /\ RoundTrip(n) /\ trip' = {n}

Fairness ==
  \A n \in Speaks :
    /\ []<>(kcp[Peer(n)].rcv_queue = <<>>) \/ []<><<taken'[Peer(n)] # taken[Peer(n)]>>_taken
    /\ []<>~CanTrip(n) \/ []<><<trip' = {n}>>_vars

Spec == Init /\ [][Next]_vars
FairSpec == Spec /\ Fairness

-----------------------------------------------------------------------------
(* What is to be shown *)

\* The segments of rcv_buf that only wait for room.
Ready(k) ==
  Cardinality({i \in 1..Len(k.rcv_buf) : k.rcv_buf[i].sn = (k.rcv_nxt + i - 1) % Wrap})

Arrived(n) == Len(taken[n]) + Len(kcp[n].rcv_queue) + Ready(kcp[n])
Acked(n) ==
  sent[n] - Len(kcp[n].snd_queue) - ((kcp[n].snd_nxt - kcp[n].snd_una) % Wrap)

\* What the client sends to the server is a channel: in order, each segment once, none invented, a
\* segment acknowledged only after it arrived (ikcp_input, ikcp_recv).
ToServer == INSTANCE Channel
  WITH Window <- 2 * rcv_wnd, sent <- sent["client"], acked <- Acked("client"),
       arrived <- Arrived("server"), taken <- taken["server"]
ServerChannel == ToServer!Spec

Segment == [sn : 0..(Wrap - 1), data : Nat]
IsBlock(k) ==
  /\ {k.snd_una, k.snd_nxt, k.rcv_nxt} \subseteq 0..(Wrap - 1)
  /\ {k.rmt_wnd, k.cwnd, k.incr, k.ssthresh} \subseteq Nat
  /\ {k.snd_queue, k.rcv_queue} \subseteq Seq(Nat)
  /\ k.snd_buf \in Seq([sn : 0..(Wrap - 1), data : Nat, xmit : Nat, fastack : Nat])
  /\ k.rcv_buf \in Seq(Segment)
  /\ k.acklist \in Seq(0..(Wrap - 1))
  /\ k.probe \subseteq {ASK_SEND, ASK_TELL}
  /\ k.probe_wait \in BOOLEAN

TypeOK ==
  /\ \A n \in Node :
       /\ IsBlock(kcp[n])
       /\ \A d \in net[n] : d.wnd \in 0..rcv_wnd /\ d.una \in 0..(Wrap - 1) /\ d.segs # <<>>
  /\ start \in Nat
  /\ sent \in [Node -> Nat] /\ taken \in [Node -> Seq(Nat)]

\* A segment that was handed to ikcp_send and has not been taken is held by one
\* end or the other: no acknowledgement frees it too early (ikcp_parse_una,
\* ikcp_parse_ack), whatever was lost, repeated or overtaken.
Kept ==
  \A n \in Node :
    LET k == kcp[n]
        p == kcp[Peer(n)]
    IN  \A i \in (Len(taken[Peer(n)]) + 1)..sent[n] :
          \/ \E j \in 1..Len(k.snd_queue) : k.snd_queue[j] = i
          \/ \E j \in 1..Len(k.snd_buf) : k.snd_buf[j].data = i
          \/ \E j \in 1..Len(p.rcv_buf) : p.rcv_buf[j].data = i
          \/ \E j \in 1..Len(p.rcv_queue) : p.rcv_queue[j] = i

\* The numbers modulo Wrap never confuse two segments: what either end holds
\* under a number is the segment that the number was given to.
Unambiguous ==
  \A n \in Node :
    LET held == kcp[n].snd_buf \o kcp[Peer(n)].rcv_buf
        pushes == UNION {{d.segs[i] : i \in 1..Len(d.segs)} :
                           d \in {d \in net[Peer(n)] : Alive(Peer(n), d)}}
    IN  /\ \A i \in 1..Len(held) : held[i].sn = (held[i].data - 1) % Wrap
        /\ \A i, j \in 1..Len(held) : held[i].sn = held[j].sn => held[i].data = held[j].data
        /\ \A g \in pushes : g.cmd = CMD_PUSH =>
             \A i \in 1..Len(held) : held[i].sn = g.sn => held[i].data = g.data

\* No window is overrun, though each end knows the other's only from datagrams
\* that may be old: what is in flight fits the sender's window, rcv_queue fits
\* rcv_wnd, and rcv_buf holds at most another window, in order.
Windows ==
  \A n \in Node :
    LET k == kcp[n]
    IN  /\ (k.snd_nxt - k.snd_una) % Wrap <= snd_wnd
        /\ Len(k.rcv_queue) <= rcv_wnd
        /\ \A i \in 1..Len(k.rcv_buf) :
             /\ itimediff(k.rcv_buf[i].sn, k.rcv_nxt) \in 0..(rcv_wnd - 1)
             /\ i > 1 => itimediff(k.rcv_buf[i].sn, k.rcv_buf[i - 1].sn) > 0

\* Whatever is sent is taken at the other end, and the sender learns it, so that
\* kcp_cansend holds again: also after the window was closed and the datagram
\* that says it is open again was lost.
Settles ==
  <>[](\A n \in Node : Len(taken[Peer(n)]) = sent[n] /\ ikcp_waitsnd(kcp[n]) = 0)

=============================================================================
