------------------------------ MODULE PktQueue ------------------------------
(***************************************************************************)
(* The frames that packets are kept in: the pool they come from, the two   *)
(* queues, the callbacks of the packet socket and the calls of queue_send  *)
(* that the dispatched packets lead to (pktqueue.c, event_pkt.c, mcache.h).*)
(* The pool serves the segments of KCP too (util.c, ikcp.c).  What is in a *)
(* packet is left out; a packet has a number, which tells in which order   *)
(* they were queued.                                                       *)
(***************************************************************************)
EXTENDS Integers, Sequences, FiniteSets

CONSTANTS
  Frames,            \* all the frames malloc can give
  CacheSize,         \* mcache.cache_size
  SendCap,           \* mq_send_cap
  RecvCap,           \* mq_recv_cap
  Batch,             \* MMSG_BATCH_SIZE
  Builds,            \* the values of HAVE_RECVMMSG and HAVE_SENDMMSG
  Errors,            \* the socket may meet a persistent error
  SockBuf,           \* the packets the socket takes before it blocks
  MaxIn,             \* bound on the packets that arrive
  MaxPkt             \* bound on the packets that are sent

ASSUME PktQueueAssumption ==
  /\ {CacheSize, SendCap, RecvCap, Batch, SockBuf} \subseteq Nat \ {0}
  /\ {MaxIn, MaxPkt} \subseteq Nat /\ IsFiniteSet(Frames)
  /\ Builds \subseteq BOOLEAN /\ Errors \in BOOLEAN

VARIABLES
  mmsg,              \* the build has recvmmsg and sendmmsg
  live,              \* the frames that were allocated and not freed
  pool,              \* those of them that the mcache holds
  mq_send,           \* the packets to send: [f |-> frame, n |-> number]
  mq_recv,           \* the frames of received packets
  segments,          \* the frames that are segments of some KCP control block
  w_write,           \* the write watcher is active
  pc,                \* "idle", or where pkt_read_cb is
  nrecv,             \* the result of pkt_recv so far
  done,              \* how many entries of mq_recv were dispatched
  room,              \* the packets the socket takes now
  inbox,             \* the packets that wait in the socket
  arrived,           \* the packets that have arrived
  \* History: the frames of packets that could not be sealed, and the number of the
  \* last packet that was queued and of the last that the socket took.
  unsealed,
  last,
  wire

kernel == <<room, inbox, arrived>>
reader == <<mq_recv, pc, nrecv, done>>
vars ==
  <<mmsg, live, pool, segments, mq_send, w_write, reader, kernel, unsealed, last, wire>>

Least(a, b) == IF a < b THEN a ELSE b

Init ==
  /\ mmsg \in Builds
  /\ live = {} /\ pool = {} /\ segments = {}
  /\ mq_send = <<>> /\ mq_recv = <<>>
  /\ w_write = FALSE
  /\ pc = "idle" /\ nrecv = 0 /\ done = 0
  /\ room = SockBuf /\ inbox = 0 /\ arrived = 0
  /\ unsealed = {} /\ last = 0 /\ wire = 0

-----------------------------------------------------------------------------
(* mcache.h *)

\* The sets of k frames that k calls of mcache_get may give: what the pool
\* holds first, and then what malloc does.
mcache_get(k) ==
  {F \in SUBSET (pool \cup (Frames \ live)) :
     /\ Cardinality(F) = k
     /\ F \subseteq pool \/ pool \subseteq F}

\* The pool and the live frames after frames have been put back one by one.
mcache_put(p, l, F) ==
  LET kept == {p \cup K : K \in {K \in SUBSET F :
                 Cardinality(K) = Least(Cardinality(F), CacheSize - Cardinality(p))}}
  IN  {[pool |-> q, live |-> (l \ F) \cup q] : q \in kept}

\* timeout_cb gives one cached frame back to malloc.
mcache_shrink ==
  /\ pc = "idle"
  /\ \E f \in pool :
       /\ pool' = pool \ {f}
       /\ live' = live \ {f}
  /\ UNCHANGED <<mq_send, w_write, reader, kernel, unsealed, last, wire>>

-----------------------------------------------------------------------------
(* ikcp.c *)

\* ikcp_send and ikcp_input take segments out of the pool, from a TCP callback or
\* while a packet is dispatched.
ikcp_segment_new ==
  /\ pc \in {"idle", "dispatch"}
  /\ \E F \in mcache_get(1) :
       /\ pool' = pool \ F /\ live' = live \cup F
       /\ segments' = segments \cup F
  /\ UNCHANGED <<mq_send, w_write, reader, kernel, unsealed, last, wire>>

\* A segment was acknowledged or received, or its control block is released.
ikcp_segment_delete ==
  /\ pc \in {"idle", "dispatch"}
  /\ \E f \in segments :
       /\ \E c \in mcache_put(pool, live, {f}) : pool' = c.pool /\ live' = c.live
       /\ segments' = segments \ {f}
  /\ UNCHANGED <<mq_send, w_write, reader, kernel, unsealed, last, wire>>

-----------------------------------------------------------------------------
(* event_pkt.c, sending *)

FramesOf(q) == {q[i].f : i \in 1..Len(q)}

\* What one call of pkt_send may do with queue q: how many packets the socket
\* takes before it is full or meets an error (EINTR, ENOBUFS and ENOMEM count as
\* transient, as a full socket does), whether that error was persistent, and
\* whether the rest is dropped.  Without sendmmsg, an error of the first packet
\* returns early.
pkt_send(q, space) ==
  {[sent |-> n, error |-> e, drop |-> e /\ (mmsg \/ n > 0)] :
     n \in 0..Least(Len(q), space), e \in {FALSE, Errors /\ q # <<>>}}

\* Mutant: the remaining packets are not moved to the front.
Remaining_NotMoved(q, r) == IF r.drop THEN <<>> ELSE SubSeq(q, 1, Len(q) - r.sent)

\* The queue that a call of pkt_send leaves.
Remaining(q, r) == IF r.drop THEN <<>> ELSE SubSeq(q, r.sent + 1, Len(q))

\* pkt_flush calls pkt_send until that returns 0: k packets leave in calls that
\* meet no persistent error, and r is the call that ends it.
pkt_flush(q, space) ==
  UNION {LET rest == Remaining(q, [sent |-> k, drop |-> FALSE])
         IN  {[q |-> Remaining(rest, r), sent |-> k + r.sent] :
                r \in {r \in pkt_send(rest, space - k) : r.error \/ r.sent = 0}} :
         k \in 0..Least(Len(q), space)}

\* Flush queue q; what was sent or dropped goes back to the pool.
Flush(q, l, p) ==
  \E r \in pkt_flush(q, room) :
    \E c \in mcache_put(p, l, FramesOf(q) \ FramesOf(r.q)) :
      /\ mq_send' = r.q
      /\ pool' = c.pool /\ live' = c.live
      /\ room' = room - r.sent
      /\ wire' = IF r.sent > 0 THEN q[r.sent].n ELSE wire

\* Mutant: the watcher is stopped as soon as the socket took something.
pkt_write_cb_Eager ==
  /\ pc = "idle" /\ w_write /\ room > 0
  /\ Flush(mq_send, live, pool)
  /\ w_write' = FALSE
  /\ UNCHANGED <<reader, inbox, arrived, unsealed, last>>

\* Mutant: packets wait until there is a whole batch of them.
pkt_write_cb_FullBatch ==
  /\ pc = "idle" /\ w_write /\ room > 0
  /\ Len(mq_send) >= Batch
  /\ Flush(mq_send, live, pool)
  /\ UNCHANGED <<w_write, reader, inbox, arrived, unsealed, last>>

\* The socket is writable: with an empty queue the watcher is stopped.
pkt_write_cb ==
  /\ pc = "idle" /\ w_write /\ room > 0
  /\ \/ /\ mq_send = <<>>
        /\ w_write' = FALSE
        /\ UNCHANGED <<live, pool, mq_send, room, wire>>
     \/ /\ mq_send # <<>>
        /\ Flush(mq_send, live, pool)
        /\ w_write' = w_write
  /\ UNCHANGED <<reader, inbox, arrived, unsealed, last>>

-----------------------------------------------------------------------------
(* pktqueue.c *)

\* queue_send of frame f, which holds a new packet: queued and flushed,
\* discarded because the queue is full or the packet cannot be disguised, or
\* neither because it could not be sealed.
Enqueued(f, l, p) ==
  /\ Len(mq_send) < SendCap
  /\ Flush(Append(mq_send, [f |-> f, n |-> last + 1]), l, p)
  /\ w_write' = (w_write \/ mq_send' # <<>>)
  /\ UNCHANGED unsealed

Discarded(f, l, p) ==
  /\ \E c \in mcache_put(p, l, {f}) : pool' = c.pool /\ live' = c.live
  /\ UNCHANGED <<mq_send, w_write, room, unsealed, wire>>

NotSealed(f, l, p) ==
  /\ unsealed' = unsealed \cup {f}
  /\ pool' = p /\ live' = l
  /\ UNCHANGED <<mq_send, w_write, room, wire>>

\* Mutant: a packet that is discarded is not deleted.
queue_send_NoDelete(f, l, p) ==
  \/ Enqueued(f, l, p)
  \/ Len(mq_send) >= SendCap /\ pool' = p /\ live' = l
       /\ UNCHANGED <<mq_send, w_write, room, unsealed, wire>>

queue_send(f, l, p) ==
  \/ Enqueued(f, l, p)
  \/ Discarded(f, l, p)
  \/ NotSealed(f, l, p)

\* kcp_output and ss0_send, from a timer or a TCP callback or while a packet is
\* dispatched.
kcp_output ==
  /\ pc \in {"idle", "dispatch"} /\ last < MaxPkt
  /\ \E F \in mcache_get(1) : \E f \in F :
       queue_send(f, live \cup F, pool \ F)
  /\ last' = last + 1
  /\ UNCHANGED <<reader, inbox, arrived>>

\* queue_dispatch, one pass of its loop: the packet was opened and dispatched,
\* or refused; its frame is deleted.
Dispatch ==
  /\ pc = "dispatch" /\ done < Len(mq_recv)
  /\ \E c \in mcache_put(pool, live, {mq_recv[done + 1]}) :
       pool' = c.pool /\ live' = c.live
  /\ done' = done + 1
  /\ UNCHANGED <<mq_send, w_write, mq_recv, pc, nrecv, kernel, unsealed, last, wire>>

\* The end of queue_dispatch, and pkt_read_cb calls pkt_recv again.
Dispatched ==
  /\ pc = "dispatch" /\ done = Len(mq_recv)
  /\ mq_recv' = <<>> /\ done' = 0 /\ nrecv' = 0
  /\ pc' = "recv"
  /\ UNCHANGED <<live, pool, mq_send, w_write, kernel, unsealed, last, wire>>

-----------------------------------------------------------------------------
(* event_pkt.c, receiving *)

\* pkt_read_cb begins.
pkt_read_cb ==
  /\ pc = "idle" /\ inbox > 0
  /\ pc' = "recv" /\ nrecv' = 0
  /\ UNCHANGED <<live, pool, mq_send, w_write, mq_recv, done, kernel, unsealed, last, wire>>

\* pkt_recv returns n.
Return(n) ==
  /\ pc' = IF n > 0 THEN "dispatch" ELSE "idle"
  /\ nrecv' = 0
  /\ UNCHANGED <<mq_send, w_write, done, room, arrived, unsealed, last, wire>>

\* One pass of the loop of pkt_recv: a batch of frames is allocated, or what is
\* left of memory, packets are received into some of them and the others are
\* deleted.  An error of the socket ends the loop as an empty socket does
\* (udp_reset only logs).
pkt_recv ==
  /\ pc = "recv"
  /\ LET navail == RecvCap - Len(mq_recv)
         nbatch == Least(navail, IF mmsg THEN Batch ELSE 1)
         got == Least(nbatch, Cardinality(pool) + Cardinality(Frames \ live))
     IN  \/ /\ navail > 0 /\ got > 0
            /\ \E n \in {Least(got, inbox)} \cup {n \in {0} : Errors} :
               /\ \E F \in mcache_get(got) : \E s \in [1..n -> F] :
                    LET used == {s[i] : i \in 1..n}
                    IN  /\ Cardinality(used) = n
                        /\ \E c \in mcache_put(pool \ F, live \cup F, F \ used) :
                             pool' = c.pool /\ live' = c.live
                        /\ mq_recv' = mq_recv \o s
                        /\ inbox' = inbox - n
               /\ IF n > 0 /\ n < navail
                  THEN /\ nrecv' = nrecv + n
                       /\ UNCHANGED <<mq_send, w_write, pc, done, room, arrived, unsealed, last, wire>>
                  ELSE Return(nrecv + n)
         \/ /\ navail = 0 \/ got = 0
            /\ Return(IF navail > 0 /\ ~mmsg THEN 0 ELSE nrecv)
            /\ UNCHANGED <<live, pool, mq_recv, inbox>>

-----------------------------------------------------------------------------
(* The kernel *)

Arrive ==
  /\ arrived < MaxIn
  /\ inbox' = inbox + 1 /\ arrived' = arrived + 1
  /\ UNCHANGED <<live, pool, mq_send, w_write, reader, room, unsealed, last, wire>>

Transmit ==
  /\ room < SockBuf
  /\ room' = room + 1
  /\ UNCHANGED <<live, pool, mq_send, w_write, reader, inbox, arrived, unsealed, last, wire>>

-----------------------------------------------------------------------------

Callback ==
  pkt_write_cb \/ Dispatch \/ Dispatched \/ pkt_read_cb \/ pkt_recv

Next ==
  \/ /\ mcache_shrink \/ kcp_output \/ Callback \/ Arrive \/ Transmit
     /\ UNCHANGED <<mmsg, segments>>
  \/ (ikcp_segment_new \/ ikcp_segment_delete) /\ UNCHANGED mmsg

Spec == Init /\ [][Next]_vars

\* The kernel sends what it took; the event loop runs, and calls the callback of
\* every descriptor that is ready before it polls again; a transient error of the
\* socket does not last for ever.
FairSpec ==
  /\ Spec
  /\ WF_vars(Transmit /\ UNCHANGED <<mmsg, segments>>)
  /\ WF_vars(Callback /\ UNCHANGED <<mmsg, segments>>)
  /\ SF_vars(pkt_write_cb /\ mq_send' # mq_send /\ UNCHANGED <<mmsg, segments>>)

-----------------------------------------------------------------------------

\* The frames of the queues that are still to be sent or dispatched.
Sending == FramesOf(mq_send)
Receiving == {mq_recv[i] : i \in (done + 1)..Len(mq_recv)}

\* Every variable keeps its type.
TypeOK ==
  /\ pool \subseteq live /\ live \subseteq Frames
  /\ Cardinality(pool) <= CacheSize
  /\ mq_send \in Seq([f : Frames, n : Nat]) /\ Len(mq_send) <= SendCap
  /\ mq_recv \in Seq(Frames) /\ Len(mq_recv) <= RecvCap
  /\ unsealed \subseteq live /\ segments \subseteq live \ unsealed
  /\ w_write \in BOOLEAN /\ mmsg \in BOOLEAN
  /\ pc \in {"idle", "recv", "dispatch"}
  /\ done \in 0..Len(mq_recv) /\ nrecv \in 0..RecvCap
  /\ room \in 0..SockBuf /\ arrived \in 0..MaxIn /\ inbox \in 0..arrived
  /\ wire \in 0..last /\ last \in 0..MaxPkt

\* Every frame that is allocated is in one place: in the pool, in mq_send, in
\* mq_recv or a segment of KCP.  None is used twice or after it was deleted, and
\* none is lost but those of packets that queue_send could not seal, which it does
\* not delete.  The pool and the queues never hold more than they have room for.
Owned ==
  /\ live = pool \cup Sending \cup Receiving \cup segments \cup unsealed
  /\ Cardinality(pool) <= CacheSize /\ Len(mq_send) <= SendCap /\ Len(mq_recv) <= RecvCap
  /\ Cardinality(live) =
       Cardinality(pool) + Len(mq_send) + (Len(mq_recv) - done)
         + Cardinality(segments) + Cardinality(unsealed)

\* Packets leave in the order in which they were queued, each of them once.
Fifo ==
  \A i \in 1..Len(mq_send) :
    /\ mq_send[i].n > wire
    /\ \A j \in 1..(i - 1) : mq_send[j].n < mq_send[i].n

\* Between two callbacks, packets that wait to be sent are announced by the
\* write watcher, and no received packet waits to be dispatched.  (Without
\* recvmmsg some may: pkt_recv returns 0 when memory runs out, whatever it has
\* received before.)
Announced ==
  pc = "idle" => /\ mq_send # <<>> => w_write
                 /\ mmsg => mq_recv = <<>>

\* With sendmmsg every packet that was queued is taken by the socket or dropped,
\* whatever the errors of the packets before it.  (Without it, a packet that the
\* socket refuses for good stays at the head of the queue.)
Drained == mmsg => []<>(mq_send = <<>>)

=============================================================================
