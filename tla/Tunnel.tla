------------------------------- MODULE Tunnel -------------------------------
(***************************************************************************)
(* The life of one tunnelled TCP connection: a client process that accepts *)
(* the connection, a server process that dials the target on its behalf,   *)
(* the session each of them keeps for the conversation, and the datagrams  *)
(* between them.  Each process is a single-threaded event loop, so one     *)
(* callback is one atomic step; the while loop of session_read_cb is one   *)
(* step per pass, and no other callback of that process runs in between.   *)
(*                                                                         *)
(* The network loses, duplicates and reorders datagrams.  KCP retransmits  *)
(* what is not acknowledged, so a datagram is sent and received in one     *)
(* step, a lost one is a step not taken, and its content is computed from  *)
(* the sender's unacknowledged messages and from the receiver's position.  *)
(***************************************************************************)
EXTENDS Session

CONSTANTS
  RcvWnd,            \* kcp.rcvwnd, in messages
  MaxBlk,            \* blocks the TCP peer of each process writes: a function
  MaxStray,          \* bound on late duplicates that arrive out of the blue
  MaxRestart,        \* bound on the restarts of the server process
  Punctual           \* TRUE: timeouts are handled within one tick

Client == "client"
Server == "server"
Node == {Client, Server}
Peer(n) == IF n = Client THEN Server ELSE Client

NULL == [null |-> TRUE]

ASSUME TunnelAssumption ==
  /\ RcvWnd \in Nat \ {0}
  /\ MaxBlk \in [Node -> Nat]
  /\ MaxStray \in Nat
  /\ MaxRestart \in Nat
  /\ Punctual \in BOOLEAN

VARIABLES
  ss,                \* the session of each process, NULL if not in its table
  resets,            \* the processes to which a RESET is on its way
  accepted,          \* the client accepted the TCP connection
  strays,            \* late duplicates that arrived so far
  restarts,          \* restarts of the server process so far
  dials              \* TCP connections the server opened so far, 2 for more

vars == <<ss, resets, accepted, strays, restarts, dials>>

Present(n) == ss[n] # NULL
\* The event loop of n can run a callback for the session.
Idle(n) == Present(n) /\ ~ss[n].reading

Init ==
  /\ ss = [n \in Node |-> NULL]
  /\ resets = {}
  /\ accepted = FALSE
  /\ strays = 0
  /\ restarts = 0
  /\ dials = 0

-----------------------------------------------------------------------------

\* accept_one: the client accepts a TCP connection and sends DIAL; when there is no
\* memory for that, connection and session are closed again at once.
accept_one ==
  /\ ~accepted
  /\ accepted' = TRUE
  /\ \/ ss' = [ss EXCEPT ![Client] =
                 session_tcp_start(
                   Sent([session_new(FALSE) EXCEPT !.kcp_state = STATE_CONNECT,
                                                   !.tcp_state = STATE_CONNECTED],
                        SMSG_DIAL))]
     \/ Oom /\ UNCHANGED ss
  /\ UNCHANGED <<resets, strays, restarts, dials>>

\* The session that queue_recv finds or makes for a datagram, if any.
FoundOrNew(n) ==
  IF Present(n) THEN ss[n]
  ELSE [session_new(TRUE) EXCEPT !.kcp_state = STATE_CONNECT]

\* ikcp_input: una messages of ours are acknowledged, ms arrived in order.
ikcp_input(s, una, ms, hasdata) ==
  [s EXCEPT !.snd_una = una, !.rcv_nxt = @ + Len(ms),
            !.rcv_queue = @ \o ms, !.ack_due = @ \/ hasdata]

\* queue_recv for a session that is not in TIME_WAIT.
Input(s, una, ms, hasdata) ==
  LET c == IF s.kcp_state = STATE_CONNECT
           THEN [s EXCEPT !.kcp_state = STATE_CONNECTED] ELSE s
      i == ikcp_input(c, una, ms, hasdata)
  IN  session_read_cb(IF KcpFlush >= 2 THEN session_kcp_flush(i) ELSE i)

\* queue_recv answers with a RESET: there is no session and this process
\* does not accept any, or the session is over.
MustReset(n) ==
  \/ ~Present(n) /\ n = Client
  \/ Present(n) /\ ss[n].kcp_state = STATE_TIME_WAIT

Reset(n) ==
  IF ~Present(n)
  THEN resets' = resets \cup {Peer(n)} /\ UNCHANGED ss
  ELSE IF ss[n].last_reset = TSTAMP_NIL \/ ss[n].last_reset > ResetInterval
  THEN /\ resets' = resets \cup {Peer(n)}
       /\ ss' = [ss EXCEPT ![n].last_reset = 0]
  ELSE UNCHANGED <<ss, resets>>

\* ikcp_flush of process p has something to send.
HasOutput(p) ==
  /\ Present(p)
  /\ ss[p].kcp_state \in {STATE_CONNECT, STATE_CONNECTED, STATE_LINGER}
  /\ ikcp_waitsnd(ss[p]) > 0 \/ ss[p].ack_due

\* How many messages of s a datagram of p may acknowledge: every segment carries
\* rcv_nxt.  A p that is younger than s, because its predecessor was freed, still
\* acknowledges each segment that it is sent, one by one, if it lies in its window.
Acked(s, p) ==
  IF p.rcv_nxt >= s.snd_una
  THEN {IF p.rcv_nxt > Len(s.tx) THEN Len(s.tx) ELSE p.rcv_nxt}
  ELSE {s.snd_una} \cup {a \in s.snd_una..Len(s.tx) : p.ack_due /\ a <= p.rcv_nxt + RcvWnd}

\* The messages of tx that follow those which s has taken, at most k.
Following(s, tx, k) ==
  SubSeq(tx, s.rcv_nxt + 1, IF s.rcv_nxt + k < Len(tx) THEN s.rcv_nxt + k ELSE Len(tx))

\* Mutant: the last message waits for the next one.
InOrder_HoldLast(s, p, k) ==
  IF p.snd_una > s.rcv_nxt THEN <<>>
  ELSE SubSeq(p.tx, s.rcv_nxt + 1,
              IF s.rcv_nxt + k < Len(p.tx) - 1 THEN s.rcv_nxt + k ELSE Len(p.tx) - 1)

\* The messages of p that s takes in order, at most k: only what p has not
\* seen acknowledged is still sent.
InOrder(s, p, k) ==
  IF p.snd_una > s.rcv_nxt THEN <<>> ELSE Following(s, p.tx, k)

\* queue_recv: a datagram of the peer's session arrives at n.
queue_recv(n) ==
  LET p == Peer(n)
  IN  /\ Present(n) => Idle(n)
      /\ HasOutput(p)
      /\ \/ MustReset(n) /\ Reset(n)
         \/ /\ ~MustReset(n)
            /\ LET s == FoundOrNew(n)
               IN  \E k \in 0..(RcvWnd - Len(s.rcv_queue)), una \in Acked(s, ss[p]) :
                     ss' = [ss EXCEPT
                              ![n] = Input(s, una, InOrder(s, ss[p], k),
                                           ikcp_waitsnd(ss[p]) > 0),
                              ![p].ack_due = FALSE]
            /\ UNCHANGED resets
      /\ UNCHANGED <<accepted, strays, restarts, dials>>

\* What late datagrams to n may bring: what the session of the peer has sent so far,
\* acknowledged or not; of a client's session that is gone, the DIAL.
Late(n) ==
  IF Present(Peer(n)) THEN ss[Peer(n)].tx ELSE IF n = Server THEN <<SMSG_DIAL>> ELSE <<>>

\* queue_recv for a late duplicate.  It finds or makes a session, and to one that was
\* made after the messages were first delivered they are new.
queue_recv_stray(n) ==
  /\ accepted
  /\ strays < MaxStray
  /\ strays' = strays + 1
  /\ Present(n) => Idle(n)
  /\ \/ MustReset(n) /\ Reset(n)
     \/ /\ ~MustReset(n)
        /\ LET s == FoundOrNew(n)
           IN  \E k \in 0..(RcvWnd - Len(s.rcv_queue)) :
                 ss' = [ss EXCEPT ![n] = Input(s, s.snd_una, Following(s, Late(n), k), TRUE)]
        /\ UNCHANGED resets
  /\ UNCHANGED <<accepted, restarts, dials>>

\* ss0_on_reset: a RESET arrives at n; a duplicate of it may stay behind.
ss0_on_reset(n) ==
  /\ n \in resets
  /\ Present(n) => Idle(n)
  /\ resets' \in {resets, resets \ {n}}
  /\ ss' = IF Present(n) /\ ss[n].kcp_state # STATE_TIME_WAIT
           THEN [ss EXCEPT ![n] = session_kcp_stop(session_tcp_stop(@))]
           ELSE ss
  /\ UNCHANGED <<accepted, strays, restarts, dials>>

-----------------------------------------------------------------------------

\* n runs a callback that leaves its session in one of the records of S.
Becomes(n, S) ==
  /\ \E s \in S : ss' = [ss EXCEPT ![n] = s]
  /\ UNCHANGED <<resets, accepted, strays, restarts>>

\* The next pass of the loop in session_read_cb.
ReadLoop(n) ==
  /\ Present(n)
  /\ ss[n].reading
  /\ Becomes(n, ReadLoopPass(ss[n]))
  /\ dials' = IF ss'[n].fd /\ ~ss[n].fd /\ dials < 2 THEN dials + 1 ELSE dials

TcpSocketCb(n) ==
  /\ Idle(n)
  /\ \E revents \in (SUBSET ss[n].events) \ {{}} :
       Becomes(n, tcp_socket_cb(ss[n], revents, MaxBlk[n] - ss[n].tcp_rx))
  /\ UNCHANGED dials

FlushCb(n) ==
  /\ Idle(n)
  /\ ss[n].w_flush
  /\ Becomes(n, {ss_flush_cb(ss[n])})
  /\ UNCHANGED dials

KcpUpdateCb(n) ==
  /\ Idle(n)
  /\ Becomes(n, {kcp_update(ss[n])})
  /\ UNCHANGED dials

TimeoutCb(n) ==
  /\ Idle(n)
  /\ Becomes(n, IF TimeWaitOver(ss[n]) THEN {NULL} ELSE timeout_filt(ss[n]))
  /\ UNCHANGED dials

\* timeout_cb has something to do for the session.
Overdue(s) == TimeWaitOver(s) \/ timeout_filt(s) # {s}

Older(s) ==
  LET Next1(a) == IF a = TSTAMP_NIL \/ a = AgeCap THEN a ELSE a + 1
  IN  [s EXCEPT !.created = Next1(@), !.last_reset = Next1(@),
                !.last_send = Next1(@), !.last_recv = Next1(@)]

\* Time passes for both processes.  If Punctual, the periodic timeout_cb is
\* never late by a whole tick.
Tick ==
  /\ \E n \in Node : Present(n)
  /\ Punctual => \A n \in Node : Present(n) => ~Overdue(ss[n])
  /\ ss' = [n \in Node |-> IF Present(n) THEN Older(ss[n]) ELSE ss[n]]
  /\ UNCHANGED <<resets, accepted, strays, restarts, dials>>

\* The server process ends and starts again with an empty session table.
Restart ==
  /\ restarts < MaxRestart
  /\ Present(Server)
  /\ restarts' = restarts + 1
  /\ ss' = [ss EXCEPT ![Server] = NULL]
  /\ UNCHANGED <<resets, accepted, strays, dials>>

Next ==
  \/ accept_one
  \/ Restart
  \/ Tick
  \/ \E n \in Node :
       \/ queue_recv(n)
       \/ queue_recv_stray(n)
       \/ ss0_on_reset(n)
       \/ ReadLoop(n)
       \/ TcpSocketCb(n)
       \/ FlushCb(n)
       \/ KcpUpdateCb(n)
       \/ TimeoutCb(n)

Spec == Init /\ [][Next]_vars

-----------------------------------------------------------------------------
(* Safety *)

\* Every variable keeps its type.
TypeOK ==
  /\ ss \in [Node -> SessionRec \cup {NULL}]
  /\ resets \subseteq Node
  /\ accepted \in BOOLEAN
  /\ strays \in 0..MaxStray
  /\ restarts \in 0..MaxRestart
  /\ dials \in 0..2

\* The two halves of every session stop together, see HalvesAgree: no callback
\* that can still run for the socket meets a released KCP block, and the linger
\* timeout never releases buffers that are still being flushed.
Lifecycle == \A n \in Node : Present(n) => HalvesAgree(ss[n])

\* tcp_send never writes bytes of another message than the one at the head of
\* wbuf, see FlushInMessage, and its assertion on the two offsets holds.
BufferSafety == \A n \in Node : Present(n) => FlushInMessage(ss[n])

\* No wake-up is lost: whenever the event loop waits, whatever a session still
\* has to do is announced by a watcher, see Awake.
NoLostWakeup == \A n \in Node : Idle(n) => Awake(ss[n])

\* The bytes written to a TCP connection are the bytes read at the other end,
\* from the first on, in order, without gap or repetition.
StreamFidelity ==
  \A n \in Node : Present(n) =>
    \A i \in 1..Len(ss[n].tcp_tx) : ss[n].tcp_tx[i] = i

\* A connection is closed because of the peer's EOF only after every byte the
\* peer had read was written.
EofMeansComplete ==
  \A n \in Node : Present(n) /\ ss[n].eof # -1 =>
    Len(ss[n].tcp_tx) = ss[n].eof * PushLen

\* For one accepted connection the server dials the target at most once.
SingleDial == dials <= 1

-----------------------------------------------------------------------------
(* Liveness *)

Open(n) == Present(n) /\ ss[n].fd

Received(n) == IF Present(n) THEN ss[n].rcv_nxt ELSE 0

(***************************************************************************)
(* Each fairness condition is the weak or strong fairness of an action,    *)
(* with what enables the action written out.                               *)
(***************************************************************************)

\* The event loop finishes a callback it has begun.
LoopFairness ==
  \A n \in Node : []<>~(Present(n) /\ ss[n].reading) \/ []<><<ReadLoop(n)>>_vars

\* Time goes on, and the periodic timer of timeout_cb is not starved.
CanTick ==
  /\ \E n \in Node : Present(n) /\ Older(ss[n]) # ss[n]
  /\ Punctual => \A n \in Node : Present(n) => ~Overdue(ss[n])
CanTimeout(n) == Idle(n) /\ Overdue(ss[n])
ClockFairness ==
  /\ <>[]~CanTick \/ []<><<Tick>>_vars
  /\ \A n \in Node : <>[]~CanTimeout(n) \/ []<><<TimeoutCb(n)>>_vars

\* KCP retransmits until it is acknowledged and the network does not lose
\* every copy: in-order data and acknowledgements get through eventually.
CanInput(n) == (Present(n) => Idle(n)) /\ HasOutput(Peer(n)) /\ ~MustReset(n)
CanReceive(n) ==
  /\ CanInput(n) /\ Len(FoundOrNew(n).rcv_queue) < RcvWnd
  /\ InOrder(FoundOrNew(n), ss[Peer(n)], 1) # <<>>
CanAck(n) ==
  CanInput(n) /\ Present(n) /\ \E una \in Acked(ss[n], ss[Peer(n)]) : una > ss[n].snd_una

\* A TCP peer takes the bytes it is sent, and connect() comes to an end.
CanWrite(n) ==
  /\ Idle(n) /\ WRITE \in ss[n].events
  /\ \E s \in tcp_socket_cb(ss[n], {WRITE}, 0) : s.tcp_tx # ss[n].tcp_tx
CanConnect(n) == Idle(n) /\ ss[n].tcp_state = STATE_CONNECT /\ ss[n].events # {}

\* Each of these steps brings one connection forward, and there are only finitely
\* many of them: fairness of all of them together is fairness of each.
CanProgress(n) == CanReceive(n) \/ CanAck(n) \/ CanWrite(n) \/ CanConnect(n)
Progress(n) ==
  \/ Received(n)' > Received(n)
  \/ /\ Present(n) /\ Present(n)'
     /\ \/ ss'[n].snd_una > ss[n].snd_una
        \/ ss'[n].tcp_tx # ss[n].tcp_tx
        \/ ss[n].tcp_state = STATE_CONNECT /\ ss'[n].tcp_state # STATE_CONNECT
NetFairness ==
  <>[](\A n \in Node : ~CanProgress(n)) \/ []<><<\E n \in Node : Progress(n)>>_vars

ClockSpec == Spec /\ LoopFairness /\ ClockFairness
NetSpec == Spec /\ LoopFairness /\ NetFairness

\* Once the traffic has ceased every session is released, whatever was lost
\* and whoever was restarted: no session lingers, waits or is reset forever.
Released == \A n \in Node : []<>~Present(n)

Ended(n) == Present(n) /\ ss[n].tcp_state = STATE_TIME_WAIT

\* Closing one end closes the other by the protocol alone, without the help
\* of a timeout: the EOF overtakes nothing and is not forgotten.
CloseReachesPeer ==
  \A n \in Node :
    (accepted /\ Ended(n)) ~> Ended(Peer(n))

\* Every byte read at one end is written at the other, whatever the windows and
\* however slow the receiving socket is, unless one of the connections ends first.
Delivered ==
  \A n \in Node : \A b \in 1..MaxBlk[n] :
    (Present(n) /\ ss[n].tcp_rx >= b)
      ~> \/ Present(Peer(n)) /\ Len(ss[Peer(n)].tcp_tx) >= b * PushLen
         \/ \E m \in Node : Ended(m)

=============================================================================
