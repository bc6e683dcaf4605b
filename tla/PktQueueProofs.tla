--------------------------- MODULE PktQueueProofs ---------------------------
(***************************************************************************)
(* Proofs about PktQueue, for any number of frames, any capacities, both    *)
(* builds and any number of packets: every frame has one owner, packets     *)
(* leave in order, and nothing waits without being announced.               *)
(***************************************************************************)
EXTENDS PktQueue, FiniteSetTheorems, SequenceTheorems, TLAPS

Packets == [f : Frames, n : Nat]

\* The frames outside of pool and queues: segments of KCP, and packets that could not
\* be sealed.
Away == segments \cup unsealed
USE DEF Away

\* The live frames are divided between pool, send queue, receive queue and those that
\* are away.
Divided(l, p, S, R, U) ==
  /\ l = p \cup S \cup R \cup U
  /\ p \cap S = {} /\ p \cap R = {} /\ p \cap U = {}
  /\ S \cap R = {} /\ S \cap U = {} /\ R \cap U = {}

\* No frame is twice in a queue.
OncePacket(q) == \A i, j \in 1..Len(q) : q[i].f = q[j].f => i = j
OnceFrame(q, d) == \A i, j \in (d + 1)..Len(q) : q[i] = q[j] => i = j

\* The numbers of the packets in q increase, from above w up to m.
Increasing(q, w, m) ==
  \A i \in 1..Len(q) :
    /\ q[i].n > w /\ q[i].n <= m
    /\ \A j \in 1..(i - 1) : q[j].n < q[i].n

\* Where pkt_read_cb is, and what pkt_recv has counted.
Reading ==
  /\ pc # "dispatch" => done = 0
  /\ pc # "recv" => nrecv = 0
  /\ pc = "recv" => nrecv <= Len(mq_recv) /\ (mmsg => nrecv = Len(mq_recv))

\* What is left in mq_send has started the write watcher.
Watched == mq_send # <<>> => w_write

\* The inductive invariant.
QInv ==
  /\ TypeOK
  /\ Divided(live, pool, Sending, Receiving, Away)
  /\ OncePacket(mq_send) /\ OnceFrame(mq_recv, done)
  /\ Increasing(mq_send, wire, last)
  /\ Reading /\ Watched /\ Announced

-----------------------------------------------------------------------------
(* The pool *)

\* The constants are positive numbers and there are finitely many frames.
LEMMA Constants ==
  /\ CacheSize \in Nat \ {0} /\ SendCap \in Nat \ {0} /\ RecvCap \in Nat \ {0}
  /\ Batch \in Nat \ {0} /\ SockBuf \in Nat \ {0}
  /\ MaxIn \in Nat /\ MaxPkt \in Nat /\ IsFiniteSet(Frames)
BY PktQueueAssumption DEF PktQueueAssumption

\* mcache_put keeps some of the frames that are put back, as many as there is
\* room for, and frees the others.
LEMMA PutBack ==
  ASSUME NEW l \in SUBSET Frames, NEW p \in SUBSET l, NEW F \in SUBSET l,
         Cardinality(p) <= CacheSize, NEW c \in mcache_put(p, l, F)
  PROVE  /\ c.live = (l \ F) \cup c.pool
         /\ p \subseteq c.pool /\ c.pool \subseteq p \cup F
         /\ Cardinality(c.pool) <= CacheSize
<1>1. PICK K \in SUBSET F :
        /\ Cardinality(K) = Least(Cardinality(F), CacheSize - Cardinality(p))
        /\ c = [pool |-> p \cup K, live |-> (l \ F) \cup (p \cup K)]
  BY DEF mcache_put
<1>2. /\ IsFiniteSet(p) /\ IsFiniteSet(F) /\ IsFiniteSet(K)
      /\ IsFiniteSet(p \cap K)
  <2>1. p \in SUBSET Frames /\ F \in SUBSET Frames /\ K \in SUBSET Frames
        /\ p \cap K \in SUBSET Frames
    OBVIOUS
  <2> QED  BY <2>1, Constants, FS_Subset
<1>3. /\ Cardinality(p) \in Nat /\ Cardinality(F) \in Nat /\ Cardinality(K) \in Nat
      /\ Cardinality(p \cap K) \in Nat
  BY <1>2, FS_CardinalityType
<1>4. Cardinality(p \cup K) = Cardinality(p) + Cardinality(K) - Cardinality(p \cap K)
  BY <1>2, FS_Union
<1>5. Cardinality(p \cup K) <= CacheSize
  BY <1>1, <1>3, <1>4, Constants DEF Least
<1> QED  BY <1>1, <1>5

-----------------------------------------------------------------------------
(* Sending *)

\* What SubSeq leaves when the first k elements are removed.
LEMMA SuffixFacts ==
  ASSUME NEW S, NEW q \in Seq(S), NEW k \in 0..Len(q)
  PROVE  /\ SubSeq(q, k + 1, Len(q)) \in Seq(S)
         /\ Len(SubSeq(q, k + 1, Len(q))) = Len(q) - k
         /\ \A i \in 1..(Len(q) - k) : SubSeq(q, k + 1, Len(q))[i] = q[k + i]
<1>1. Len(q) \in Nat /\ k \in Nat /\ k <= Len(q)
  BY LenProperties
<1>2. \A i \in (k + 1)..Len(q) : q[i] \in S
  BY <1>1, ElementOfSeq
<1> DEFINE m == k + 1
<1> DEFINE n == Len(q)
<1>3. /\ SubSeq(q, m, n) \in Seq(S)
      /\ Len(SubSeq(q, m, n)) = IF m <= n THEN n - m + 1 ELSE 0
      /\ \A i \in 1..(n - m + 1) : SubSeq(q, m, n)[i] = q[m + i - 1]
  <2>1. m \in Int /\ n \in Int /\ \A i \in m..n : q[i] \in S
    BY <1>1, <1>2
  <2> HIDE DEF m, n
  <2> QED  BY <2>1, SubSeqProperties
<1>4. Len(q) - (k + 1) + 1 = Len(q) - k
  BY <1>1
<1>5. \A i \in 1..(Len(q) - k) : (k + 1) + i - 1 = k + i
  BY <1>1
<1>6. Len(SubSeq(q, k + 1, Len(q))) = Len(q) - k
  BY <1>1, <1>3
<1> QED  BY <1>3, <1>4, <1>5, <1>6

\* pkt_flush takes packets from the front of the queue, and the socket has taken
\* no more than left the queue and than it had room for.
LEMMA FlushTakesFront ==
  ASSUME NEW q \in Seq(Packets), NEW space \in Nat, NEW r \in pkt_flush(q, space)
  PROVE  /\ r.sent \in 0..Len(q) /\ r.sent <= space
         /\ r.q \in Seq(Packets)
         /\ \E m \in r.sent..Len(q) :
              /\ Len(r.q) = Len(q) - m
              /\ \A i \in 1..Len(r.q) : r.q[i] = q[m + i]
<1> DEFINE Rest(k) == Remaining(q, [sent |-> k, drop |-> FALSE])
<1>1. PICK k \in 0..Least(Len(q), space) :
        \E s \in pkt_send(Rest(k), space - k) :
          r = [q |-> Remaining(Rest(k), s), sent |-> k + s.sent]
  BY DEF pkt_flush
<1>2. PICK s \in pkt_send(Rest(k), space - k) :
        r = [q |-> Remaining(Rest(k), s), sent |-> k + s.sent]
  BY <1>1
<1>0. Len(q) \in Nat
  BY LenProperties
<1>3. k \in 0..Len(q) /\ k <= space
  BY <1>0 DEF Least
<1>4. /\ Rest(k) \in Seq(Packets) /\ Len(Rest(k)) = Len(q) - k
      /\ \A i \in 1..Len(Rest(k)) : Rest(k)[i] = q[k + i]
  <2>1. Rest(k) = SubSeq(q, k + 1, Len(q))
    BY DEF Remaining
  <2> HIDE DEF Rest
  <2>2. /\ Rest(k) \in Seq(Packets) /\ Len(Rest(k)) = Len(q) - k
        /\ \A i \in 1..(Len(q) - k) : Rest(k)[i] = q[k + i]
    BY <1>3, <2>1, SuffixFacts
  <2> QED  BY <2>2
<1> HIDE DEF Rest
<1>5. /\ s.sent \in 0..Len(Rest(k)) /\ s.sent <= space - k
  <2>1. s.sent \in 0..Least(Len(Rest(k)), space - k)
    BY DEF pkt_send
  <2> QED  BY <1>0, <1>3, <1>4, <2>1 DEF Least
<1>6. CASE s.drop
  <2>1. r.q = <<>>
    BY <1>2, <1>6 DEF Remaining
  <2>2. Len(r.q) = 0 /\ r.q \in Seq(Packets)
    BY <2>1
  <2>3. r.sent \in 0..Len(q) /\ r.sent <= space
    BY <1>0, <1>2, <1>3, <1>4, <1>5
  <2> QED  BY <1>0, <2>2, <2>3
<1>7. CASE ~s.drop
  <2> DEFINE Q == r.q
             T == Rest(k)
             m == r.sent
             n == s.sent
  <2>1. /\ T \in Seq(Packets) /\ n \in 0..Len(T) /\ Q = SubSeq(T, n + 1, Len(T))
        /\ Len(T) = Len(q) - k /\ \A i \in 1..Len(T) : T[i] = q[k + i]
        /\ m = k + n /\ n <= space - k
    BY <1>2, <1>4, <1>5, <1>7 DEF Remaining
  <2> HIDE DEF Q, T, m, n
  <2>2. /\ Q \in Seq(Packets) /\ Len(Q) = Len(T) - n
        /\ \A i \in 1..(Len(T) - n) : Q[i] = T[n + i]
    BY <2>1, SuffixFacts
  <2>3. m \in 0..Len(q) /\ m <= space /\ Len(Q) = Len(q) - m
    BY <1>0, <1>3, <2>1, <2>2
  <2>4. ASSUME NEW i \in 1..Len(Q) PROVE Q[i] = q[m + i]
    <3>1. n + i \in 1..Len(T) /\ i \in 1..(Len(T) - n) /\ k + (n + i) = m + i
      BY <1>0, <1>3, <2>1, <2>2
    <3> QED  BY <2>1, <2>2, <3>1
  <2>5. \E e \in m..Len(q) :
          Len(Q) = Len(q) - e /\ \A i \in 1..Len(Q) : Q[i] = q[e + i]
    <3>1. m \in m..Len(q)
      BY <1>0, <2>3
    <3> QED  BY <2>3, <2>4, <3>1
  <2> QED  BY <2>2, <2>3, <2>5 DEF Q, m
<1> QED  BY <1>6, <1>7

\* Q is left of q when k packets were taken from its front, t of them by the socket,
\* so that the number of the last it took changes from w to v.
Left(q, Q, t, k, w, v) ==
  /\ q \in Seq(Packets) /\ Q \in Seq(Packets)
  /\ t \in 0..Len(q) /\ k \in t..Len(q)
  /\ Len(Q) = Len(q) - k /\ \A i \in 1..Len(Q) : Q[i] = q[k + i]
  /\ v = IF t > 0 THEN q[t].n ELSE w

\* What is left of a queue has no frame twice, and is in order.
LEMMA FrontRemoved ==
  ASSUME NEW q, NEW Q, NEW t, NEW k, NEW w \in Nat, NEW v, NEW m \in Nat,
         Left(q, Q, t, k, w, v), w <= m, OncePacket(q), Increasing(q, w, m)
  PROVE  /\ FramesOf(Q) \subseteq FramesOf(q) /\ OncePacket(Q)
         /\ v \in 0..m /\ Increasing(Q, v, m)
<1> USE DEF Left
<1>1. Len(q) \in Nat /\ Len(Q) \in Nat /\ k \in Nat /\ t \in Nat /\ t <= k /\ k <= Len(q)
  BY LenProperties
<1>2. \A i \in 1..Len(q) : q[i].n \in Nat
  <2>1. \A i \in 1..Len(q) : q[i] \in Packets
    BY ElementOfSeq
  <2> QED  BY <2>1 DEF Packets
<1>3. \A i \in 1..Len(Q) : k + i \in 1..Len(q)
  BY <1>1
<1>4. FramesOf(Q) \subseteq FramesOf(q)
  BY <1>3 DEF FramesOf
<1>5. OncePacket(Q)
  <2> SUFFICES ASSUME NEW i \in 1..Len(Q), NEW j \in 1..Len(Q), Q[i].f = Q[j].f
               PROVE  i = j
    BY DEF OncePacket
  <2>1. Q[i] = q[k + i] /\ Q[j] = q[k + j]
    OBVIOUS
  <2>2. k + i \in 1..Len(q) /\ k + j \in 1..Len(q)
    BY <1>3
  <2> HIDE DEF Left
  <2>3. q[k + i].f = q[k + j].f
    BY <2>1
  <2>4. \A x, y \in 1..Len(q) : q[x].f = q[y].f => x = y
    BY DEF OncePacket
  <2>5. k + i = k + j
    BY <2>2, <2>3, <2>4
  <2> QED  BY <1>1, <2>5
<1>6. \A i \in 1..Len(q) : q[i].n > w /\ q[i].n <= m /\ \A j \in 1..(i - 1) : q[j].n < q[i].n
  BY DEF Increasing
<1>7. v \in 0..m
  <2>1. CASE t > 0
    <3>1. t \in 1..Len(q)
      BY <1>1, <2>1
    <3> QED  BY <1>2, <1>6, <2>1, <3>1
  <2>2. CASE ~(t > 0)
    BY <2>2
  <2> QED  BY <2>1, <2>2
<1>8. Increasing(Q, v, m)
  <2> SUFFICES ASSUME NEW i \in 1..Len(Q)
               PROVE  /\ Q[i].n > v /\ Q[i].n <= m
                      /\ \A j \in 1..(i - 1) : Q[j].n < Q[i].n
    BY DEF Increasing
  <2>1. k + i \in 1..Len(q) /\ Q[i] = q[k + i]
    BY <1>3
  <2>2. Q[i].n > v
    <3>1. CASE t > 0
      <4>1. t \in 1..((k + i) - 1) /\ v = q[t].n
        BY <1>1, <3>1
      <4> QED  BY <1>6, <2>1, <4>1
    <3>2. CASE ~(t > 0)
      BY <1>6, <2>1, <3>2
    <3> QED  BY <3>1, <3>2
  <2>3. ASSUME NEW j \in 1..(i - 1) PROVE Q[j].n < Q[i].n
    <3>1. j \in 1..Len(Q) /\ k + j \in 1..((k + i) - 1)
      BY <1>1
    <3>2. Q[j] = q[k + j]
      BY <3>1
    <3> QED  BY <1>6, <2>1, <3>1, <3>2
  <2> QED  BY <1>6, <2>1, <2>2, <2>3
<1> QED  BY <1>4, <1>5, <1>7, <1>8

\* A flush of queue q, whose frames are the share of the send queue, leaves every
\* frame with one owner and the packets in order.
LEMMA FlushKeeps ==
  ASSUME NEW q \in Seq(Packets), NEW l \in SUBSET Frames, NEW p \in SUBSET l,
         NEW R, NEW U, NEW m \in Nat,
         Cardinality(p) <= CacheSize, room \in 0..SockBuf, wire \in Nat,
         Divided(l, p, FramesOf(q), R, U), OncePacket(q), Increasing(q, wire, m),
         wire <= m, Flush(q, l, p)
  PROVE  /\ mq_send' \in Seq(Packets) /\ Len(mq_send') <= Len(q)
         /\ live' \in SUBSET Frames /\ pool' \in SUBSET live'
         /\ Cardinality(pool') <= CacheSize
         /\ room' \in 0..SockBuf /\ wire' \in 0..m
         /\ Divided(live', pool', FramesOf(mq_send'), R, U)
         /\ OncePacket(mq_send') /\ Increasing(mq_send', wire', m)
<1>1. PICK r \in pkt_flush(q, room) :
        \E c \in mcache_put(p, l, FramesOf(q) \ FramesOf(r.q)) :
          /\ mq_send' = r.q /\ pool' = c.pool /\ live' = c.live
          /\ room' = room - r.sent
          /\ wire' = IF r.sent > 0 THEN q[r.sent].n ELSE wire
  BY DEF Flush
<1> DEFINE Q == r.q
           t == r.sent
           F == FramesOf(q) \ FramesOf(Q)
<1>2. /\ mq_send' = Q /\ room' = room - t
      /\ wire' = IF t > 0 THEN q[t].n ELSE wire
  BY <1>1
<1>3. room \in Nat
  BY Constants
<1>4. /\ t \in 0..Len(q) /\ t <= room /\ Q \in Seq(Packets)
      /\ \E k \in t..Len(q) :
           Len(Q) = Len(q) - k /\ \A i \in 1..Len(Q) : Q[i] = q[k + i]
  BY <1>3, FlushTakesFront
<1>5. PICK c \in mcache_put(p, l, F) : pool' = c.pool /\ live' = c.live
  BY <1>1
<1>6. F \in SUBSET l
  BY DEF Divided
<1> HIDE DEF Q, t
<1>7. PICK k \in t..Len(q) :
        Len(Q) = Len(q) - k /\ \A i \in 1..Len(Q) : Q[i] = q[k + i]
  BY <1>4
<1>8. /\ FramesOf(Q) \subseteq FramesOf(q) /\ OncePacket(Q)
      /\ wire' \in 0..m /\ Increasing(Q, wire', m)
  <2>1. Left(q, Q, t, k, wire, wire')
    BY <1>2, <1>4, <1>7 DEF Left
  <2> QED  BY <2>1, FrontRemoved
<1> HIDE DEF F
<1>9. /\ c.live = (l \ F) \cup c.pool
      /\ p \subseteq c.pool /\ c.pool \subseteq p \cup F
      /\ Cardinality(c.pool) <= CacheSize
  BY <1>6, PutBack
<1>10. Divided(live', pool', FramesOf(mq_send'), R, U)
       /\ live' \in SUBSET Frames /\ pool' \in SUBSET live'
  <2> DEFINE A == FramesOf(q)
             B == FramesOf(Q)
  <2>1. B \subseteq A /\ F = A \ B /\ Divided(l, p, A, R, U) /\ FramesOf(mq_send') = B
    BY <1>2, <1>8 DEF F
  <2> HIDE DEF A, B
  <2> QED  BY <1>5, <1>6, <1>9, <2>1 DEF Divided
<1>11. room' \in 0..SockBuf
  <2>1. t \in 0..room /\ room \in 0..SockBuf /\ room' = room - t
    BY <1>2, <1>4
  <2> QED  BY <2>1, Constants
<1>12. Len(mq_send') <= Len(q)
  <2>1. Len(q) \in Nat /\ k \in Nat
    BY <1>4, LenProperties
  <2> QED  BY <1>2, <1>7, <2>1
<1> QED  BY <1>2, <1>4, <1>5, <1>8, <1>9, <1>10, <1>11, <1>12

-----------------------------------------------------------------------------
(* Each action keeps the invariant *)

\* What the type invariant and QInv say of the send queue and the pool.
LEMMA QFacts ==
  ASSUME QInv
  PROVE  /\ mq_send \in Seq(Packets) /\ mq_recv \in Seq(Frames)
         /\ Len(mq_send) \in Nat /\ Len(mq_recv) \in Nat /\ done \in 0..Len(mq_recv)
         /\ live \in SUBSET Frames /\ pool \in SUBSET live
         /\ IsFiniteSet(live) /\ IsFiniteSet(pool)
         /\ Cardinality(pool) <= CacheSize /\ Cardinality(pool) \in Nat
         /\ room \in 0..SockBuf /\ wire \in Nat /\ last \in Nat /\ wire <= last
         /\ nrecv \in Nat
<1>1. /\ mq_send \in Seq(Packets) /\ mq_recv \in Seq(Frames)
      /\ live \in SUBSET Frames /\ pool \in SUBSET live /\ Cardinality(pool) <= CacheSize
      /\ room \in 0..SockBuf /\ wire \in 0..last /\ last \in 0..MaxPkt /\ nrecv \in 0..RecvCap
      /\ done \in 0..Len(mq_recv)
  BY DEF QInv, TypeOK, Packets
<1>2. IsFiniteSet(live)
  BY <1>1, Constants, FS_Subset
<1>3. IsFiniteSet(pool)
  BY <1>1, <1>2, FS_Subset
<1>4. Cardinality(pool) \in Nat
  BY <1>3, FS_CardinalityType
<1>5. Len(mq_send) \in Nat /\ Len(mq_recv) \in Nat
  BY <1>1, LenProperties
<1> QED  BY <1>1, <1>2, <1>3, <1>4, <1>5, Constants

\* mcache_shrink takes a frame that only the pool has.
LEMMA ShrinkKeeps == QInv /\ mcache_shrink /\ UNCHANGED <<mmsg, segments>> => QInv'
<1> SUFFICES ASSUME QInv, mcache_shrink, UNCHANGED <<mmsg, segments>> PROVE QInv'
  OBVIOUS
<1> USE DEF reader, kernel
<1>1. PICK f \in pool : pool' = pool \ {f} /\ live' = live \ {f}
  BY DEF mcache_shrink
<1>2. UNCHANGED <<mq_send, w_write, mq_recv, pc, nrecv, done, room, inbox, arrived,
                  unsealed, segments, last, wire, mmsg>>
  BY DEF mcache_shrink
<1>3. Cardinality(pool') <= CacheSize
  <2>1. Cardinality(pool') <= Cardinality(pool) /\ Cardinality(pool') \in Nat
    BY <1>1, QFacts, FS_Subset, FS_CardinalityType
  <2> QED  BY <2>1, QFacts, Constants
<1>4. Divided(live, pool, Sending, Receiving, Away)
  BY DEF QInv
<1>5. Sending' = Sending /\ Receiving' = Receiving
  BY <1>2 DEF Sending, Receiving, FramesOf
<1>6. Divided(live', pool', Sending', Receiving', Away')
  BY <1>1, <1>2, <1>4, <1>5 DEF Divided
<1>7. TypeOK'
  BY <1>1, <1>2, <1>3, <1>4 DEF QInv, TypeOK, Divided
<1>8. OncePacket(mq_send)' /\ OnceFrame(mq_recv, done)'
      /\ Increasing(mq_send, wire, last)' /\ Reading' /\ Watched' /\ Announced'
  BY <1>2 DEF QInv, OncePacket, OnceFrame, Increasing, Reading, Watched, Announced
<1> QED  BY <1>6, <1>7, <1>8 DEF QInv

\* pkt_write_cb flushes the queue, or stops the watcher of an empty one.
LEMMA WriteKeeps == QInv /\ pkt_write_cb /\ UNCHANGED <<mmsg, segments>> => QInv'
<1> SUFFICES ASSUME QInv, pkt_write_cb, UNCHANGED <<mmsg, segments>> PROVE QInv'
  OBVIOUS
<1>1. UNCHANGED <<mq_recv, pc, nrecv, done, inbox, arrived, unsealed, segments, last, mmsg>>
  BY DEF pkt_write_cb, reader
<1>2. Receiving' = Receiving
  BY <1>1 DEF Receiving
<1>3. CASE mq_send = <<>> /\ w_write' = FALSE /\ UNCHANGED <<live, pool, mq_send, room, wire>>
  <2>1. Sending' = Sending
    BY <1>3 DEF Sending, FramesOf
  <2>2. TypeOK'
    BY <1>1, <1>3 DEF QInv, TypeOK
  <2>3. OncePacket(mq_send)' /\ Increasing(mq_send, wire, last)' /\ OnceFrame(mq_recv, done)'
    BY <1>1, <1>3 DEF QInv, OncePacket, Increasing, OnceFrame
  <2>4. Reading' /\ Watched' /\ Announced'
    BY <1>1, <1>3 DEF QInv, Reading, Watched, Announced
  <2> QED  BY <1>1, <1>2, <1>3, <2>1, <2>2, <2>3, <2>4 DEF QInv
<1>4. CASE Flush(mq_send, live, pool) /\ w_write' = w_write
  <2>1. /\ mq_send' \in Seq(Packets) /\ Len(mq_send') <= Len(mq_send)
        /\ live' \in SUBSET Frames /\ pool' \in SUBSET live'
        /\ Cardinality(pool') <= CacheSize
        /\ room' \in 0..SockBuf /\ wire' \in 0..last
        /\ Divided(live', pool', FramesOf(mq_send'), Receiving, Away)
        /\ OncePacket(mq_send') /\ Increasing(mq_send', wire', last)
    BY <1>4, QFacts, FlushKeeps DEF QInv, Sending
  <2>2. Len(mq_send') \in Nat /\ Len(mq_send') <= SendCap
    BY <2>1, QFacts, LenProperties, Constants DEF QInv, TypeOK
  <2>3. Divided(live', pool', Sending', Receiving', Away')
    BY <1>1, <1>2, <2>1 DEF Sending
  <2>4. TypeOK'
    BY <1>1, <1>4, <2>1, <2>2, <2>3 DEF QInv, TypeOK, Divided, Packets
  <2>5. Announced'
    BY <1>1, <1>4 DEF QInv, Announced, pkt_write_cb
  <2>6. Watched'
    BY <1>4 DEF Watched, pkt_write_cb
  <2> QED  BY <1>1, <2>1, <2>3, <2>4, <2>5, <2>6 DEF QInv, OnceFrame, Reading
<1> QED  BY <1>3, <1>4 DEF pkt_write_cb

\* A frame that mcache_get gives was the pool's, or not allocated.
LEMMA GetFrame ==
  ASSUME QInv, NEW F \in mcache_get(1), NEW f \in F
  PROVE  /\ F = {f} /\ f \in Frames
         /\ f \notin Sending /\ f \notin Receiving /\ f \notin Away
         /\ live \cup F \in SUBSET Frames /\ pool \ F \in SUBSET (live \cup F)
         /\ Cardinality(pool \ F) <= CacheSize
<1>1. F \in SUBSET (pool \cup (Frames \ live)) /\ Cardinality(F) = 1
  BY DEF mcache_get
<1>2. F \in SUBSET Frames
  BY <1>1, QFacts
<1>3. IsFiniteSet(F)
  BY <1>2, Constants, FS_Subset
<1>4. F = {f}
  <2>1. PICK x : F = {x}
    BY <1>1, <1>3, FS_Singleton
  <2> QED  BY <2>1
<1>5. f \notin Sending /\ f \notin Receiving /\ f \notin Away
  BY <1>1 DEF QInv, Divided
<1>6. Cardinality(pool \ F) <= CacheSize
  <2>1. pool \ F \in SUBSET pool
    OBVIOUS
  <2>2. Cardinality(pool \ F) <= Cardinality(pool) /\ Cardinality(pool \ F) \in Nat
    BY <2>1, QFacts, FS_Subset, FS_CardinalityType
  <2> QED  BY <2>2, QFacts, Constants
<1> QED  BY <1>2, <1>4, <1>5, <1>6, QFacts

\* The queue with one more packet in a new frame.
LEMMA Appended ==
  ASSUME QInv, NEW f \in Frames, f \notin Sending
  PROVE  LET q == Append(mq_send, [f |-> f, n |-> last + 1])
         IN  /\ q \in Seq(Packets) /\ Len(q) = Len(mq_send) + 1
             /\ FramesOf(q) = Sending \cup {f}
             /\ OncePacket(q) /\ Increasing(q, wire, last + 1)
<1> DEFINE e == [f |-> f, n |-> last + 1]
           q == Append(mq_send, e)
           N == Len(mq_send)
<1>1. e \in Packets /\ e.f = f /\ e.n = last + 1
  BY QFacts DEF Packets
<1>2. N \in Nat /\ mq_send \in Seq(Packets)
  BY QFacts
<1> HIDE DEF e
<1>3. q \in Seq(Packets) /\ Len(q) = N + 1 /\ q[N + 1] = e
      /\ \A i \in 1..N : q[i] = mq_send[i]
  BY <1>1, <1>2
<1> HIDE DEF q
<1>4. \A i \in 1..N : mq_send[i] \in Packets /\ mq_send[i].f \in Sending
  BY <1>2, ElementOfSeq DEF Sending, FramesOf
<1> HIDE DEF N
<1>5. FramesOf(q) = Sending \cup {f}
  <2>1. \A i \in 1..(N + 1) : i \in 1..N \/ i = N + 1
    BY <1>2
  <2>2. \A i \in 1..N : i \in 1..(N + 1)
    BY <1>2
  <2>3. N + 1 \in 1..(N + 1)
    BY <1>2
  <2>4. Sending = {mq_send[i].f : i \in 1..N} /\ FramesOf(q) = {q[i].f : i \in 1..(N + 1)}
    BY <1>3 DEF Sending, FramesOf, N
  <2> QED  BY <1>1, <1>3, <2>1, <2>2, <2>3, <2>4
<1>6. OncePacket(q)
  <2> SUFFICES ASSUME NEW i \in 1..(N + 1), NEW j \in 1..(N + 1), q[i].f = q[j].f
               PROVE  i = j
    BY <1>3 DEF OncePacket
  <2>1. \A a, b \in 1..N : mq_send[a].f = mq_send[b].f => a = b
    BY DEF QInv, OncePacket, N
  <2>2. i \in 1..N \/ i = N + 1
    BY <1>2
  <2>3. j \in 1..N \/ j = N + 1
    BY <1>2
  <2> QED  BY <1>1, <1>3, <1>4, <2>1, <2>2, <2>3
<1>7. Increasing(q, wire, last + 1)
  <2> SUFFICES ASSUME NEW i \in 1..(N + 1)
               PROVE  /\ q[i].n > wire /\ q[i].n <= last + 1
                      /\ \A j \in 1..(i - 1) : q[j].n < q[i].n
    BY <1>3 DEF Increasing
  <2>1. \A a \in 1..N : /\ mq_send[a].n > wire /\ mq_send[a].n <= last
                        /\ \A b \in 1..(a - 1) : mq_send[b].n < mq_send[a].n
    BY DEF QInv, Increasing, N
  <2>2. \A a \in 1..N : mq_send[a].n \in Nat
    BY <1>4 DEF Packets
  <2>3. last \in Nat /\ wire \in Nat /\ wire <= last
    BY QFacts
  <2>4. CASE i \in 1..N
    <3>1. \A j \in 1..(i - 1) : j \in 1..N
      BY <1>2, <2>4
    <3> QED  BY <1>3, <2>1, <2>2, <2>3, <2>4, <3>1
  <2>5. CASE i = N + 1
    <3>1. \A j \in 1..(i - 1) : j \in 1..N
      BY <1>2, <2>5
    <3> QED  BY <1>1, <1>3, <2>1, <2>2, <2>3, <2>5, <3>1
  <2> QED  BY <1>2, <2>4, <2>5
<1> QED  BY <1>3, <1>5, <1>6, <1>7 DEF q, e, N

\* kcp_output: whatever queue_send does with the frame, it has one owner after it.
LEMMA OutputKeeps == QInv /\ kcp_output /\ UNCHANGED <<mmsg, segments>> => QInv'
<1> SUFFICES ASSUME QInv, kcp_output, UNCHANGED <<mmsg, segments>> PROVE QInv'
  OBVIOUS
<1>1. PICK F \in mcache_get(1) : \E f \in F : queue_send(f, live \cup F, pool \ F)
  BY DEF kcp_output
<1>2. PICK f \in F : queue_send(f, live \cup F, pool \ F)
  BY <1>1
<1>3. UNCHANGED <<mq_recv, pc, nrecv, done, inbox, arrived, segments, mmsg>> /\ last' = last + 1
      /\ last < MaxPkt /\ pc \in {"idle", "dispatch"}
  BY DEF kcp_output, reader
<1> DEFINE l == live \cup F
           p == pool \ F
<1>4. /\ F = {f} /\ f \in Frames
      /\ f \notin Sending /\ f \notin Receiving /\ f \notin Away
      /\ l \in SUBSET Frames /\ p \in SUBSET l /\ Cardinality(p) <= CacheSize
  BY GetFrame
<1>5. Divided(l, p, Sending \cup {f}, Receiving, Away)
  BY <1>4 DEF QInv, Divided
<1>6. queue_send(f, l, p)
  BY <1>2
<1> HIDE DEF l, p
<1>7. Receiving' = Receiving
  BY <1>3 DEF Receiving
<1>8. last' \in 0..MaxPkt /\ wire \in 0..last' /\ last \in Nat
  BY <1>3, QFacts, Constants
<1>9. OnceFrame(mq_recv, done)' /\ Reading'
  BY <1>3 DEF QInv, OnceFrame, Reading
<1>10. CASE Enqueued(f, l, p)
  <2> DEFINE q == Append(mq_send, [f |-> f, n |-> last + 1])
  <2>1. /\ q \in Seq(Packets) /\ Len(q) = Len(mq_send) + 1
        /\ FramesOf(q) = Sending \cup {f}
        /\ OncePacket(q) /\ Increasing(q, wire, last + 1)
    BY <1>4, Appended
  <2>2. /\ Len(mq_send) < SendCap /\ Flush(q, l, p) /\ unsealed' = unsealed
        /\ w_write' = (w_write \/ mq_send' # <<>>)
    BY <1>10 DEF Enqueued
  <2> HIDE DEF q
  <2>3. last + 1 \in Nat /\ wire <= last + 1
    BY QFacts
  <2>4. /\ mq_send' \in Seq(Packets) /\ Len(mq_send') <= Len(q)
        /\ live' \in SUBSET Frames /\ pool' \in SUBSET live'
        /\ Cardinality(pool') <= CacheSize
        /\ room' \in 0..SockBuf /\ wire' \in 0..(last + 1)
        /\ Divided(live', pool', FramesOf(mq_send'), Receiving, Away)
        /\ OncePacket(mq_send') /\ Increasing(mq_send', wire', last + 1)
    <3>1. room \in 0..SockBuf /\ wire \in Nat /\ Divided(l, p, FramesOf(q), Receiving, Away)
      BY <1>5, <2>1, QFacts
    <3> QED  BY <1>4, <2>1, <2>2, <2>3, <3>1, FlushKeeps
  <2>5. Len(mq_send') \in Nat /\ Len(mq_send') <= SendCap
    BY <2>1, <2>2, <2>4, QFacts, LenProperties, Constants
  <2>6. Divided(live', pool', Sending', Receiving', Away')
    BY <1>3, <1>7, <2>2, <2>4 DEF Sending
  <2>7. w_write' \in BOOLEAN /\ (mq_send' # <<>> => w_write')
    BY <2>2
  <2>8. TypeOK'
    BY <1>3, <1>8, <2>2, <2>4, <2>5, <2>6, <2>7 DEF QInv, TypeOK, Divided, Packets
  <2>9. Announced'
    BY <1>3, <2>7 DEF QInv, Announced
  <2> QED  BY <1>3, <1>9, <2>4, <2>6, <2>7, <2>8, <2>9 DEF QInv, Watched
<1>11. ASSUME UNCHANGED <<mq_send, w_write, room, wire>>,
              live' \in SUBSET Frames, pool' \in SUBSET live', Cardinality(pool') <= CacheSize,
              Divided(live', pool', Sending, Receiving, Away'),
              segments' \cap unsealed' = {}
       PROVE  QInv'
  <2>1. Sending' = Sending
    BY <1>11 DEF Sending, FramesOf
  <2>2. Divided(live', pool', Sending', Receiving', Away')
    BY <1>7, <1>11, <2>1
  <2>3. TypeOK'
    BY <1>3, <1>8, <1>11, <2>2 DEF QInv, TypeOK, Divided
  <2>4. OncePacket(mq_send)' /\ Watched' /\ Announced'
    BY <1>3, <1>11 DEF QInv, OncePacket, Watched, Announced
  <2>5. Increasing(mq_send, wire, last)'
    <3>0. \A i \in 1..Len(mq_send) : mq_send[i] \in Packets
      BY QFacts, ElementOfSeq
    <3>1. \A i \in 1..Len(mq_send) : mq_send[i].n \in Nat
      BY <3>0 DEF Packets
    <3> QED  BY <1>3, <1>8, <1>11, <3>1 DEF QInv, Increasing
  <2> QED  BY <1>9, <2>2, <2>3, <2>4, <2>5 DEF QInv
<1>12. CASE Discarded(f, l, p)
  <2>1. PICK c \in mcache_put(p, l, {f}) : pool' = c.pool /\ live' = c.live
    BY <1>12 DEF Discarded
  <2>2. /\ c.live = (l \ {f}) \cup c.pool
        /\ p \subseteq c.pool /\ c.pool \subseteq p \cup {f}
        /\ Cardinality(c.pool) <= CacheSize
    <3>1. {f} \in SUBSET l
      BY <1>4 DEF l
    <3> QED  BY <1>4, <2>1, <3>1, PutBack
  <2>3. UNCHANGED <<mq_send, w_write, room, unsealed, wire>>
    BY <1>12 DEF Discarded
  <2>4. Divided(live', pool', Sending, Receiving, Away')
        /\ live' \in SUBSET Frames /\ pool' \in SUBSET live'
    BY <1>3, <1>4, <1>5, <2>1, <2>2, <2>3 DEF Divided
  <2>5. segments' \cap unsealed' = {}
    BY <1>3, <2>3 DEF QInv, TypeOK
  <2> QED  BY <1>11, <2>1, <2>2, <2>3, <2>4, <2>5
<1>13. CASE NotSealed(f, l, p)
  <2>1. /\ unsealed' = unsealed \cup {f} /\ pool' = p /\ live' = l
        /\ UNCHANGED <<mq_send, w_write, room, wire>>
    BY <1>13 DEF NotSealed
  <2>2. Divided(live', pool', Sending, Receiving, Away')
    BY <1>3, <1>4, <1>5, <2>1 DEF Divided
  <2>3. segments' \cap unsealed' = {}
    BY <1>3, <1>4, <2>1 DEF QInv, TypeOK
  <2> QED  BY <1>4, <1>11, <2>1, <2>2, <2>3
<1> QED  BY <1>6, <1>10, <1>12, <1>13 DEF queue_send

\* The frame at the head of what is still to be dispatched is put back.
LEMMA DispatchKeeps == QInv /\ Dispatch /\ UNCHANGED <<mmsg, segments>> => QInv'
<1> SUFFICES ASSUME QInv, Dispatch, UNCHANGED <<mmsg, segments>> PROVE QInv'
  OBVIOUS
<1> DEFINE f == mq_recv[done + 1]
<1>1. UNCHANGED <<mq_send, w_write, mq_recv, pc, nrecv, room, inbox, arrived,
                  unsealed, segments, last, wire, mmsg>>
      /\ done' = done + 1 /\ done < Len(mq_recv) /\ pc = "dispatch"
  BY DEF Dispatch, kernel
<1>2. PICK c \in mcache_put(pool, live, {f}) : pool' = c.pool /\ live' = c.live
  BY DEF Dispatch
<1>3. Len(mq_recv) \in Nat /\ done \in Nat /\ done + 1 \in (done + 1)..Len(mq_recv)
  BY <1>1, QFacts
<1>4. Receiving = Receiving' \cup {f} /\ f \notin Receiving'
  <2>1. Receiving' = {mq_recv[i] : i \in (done + 2)..Len(mq_recv)}
    BY <1>1, <1>3 DEF Receiving
  <2>2. \A i \in (done + 1)..Len(mq_recv) : i = done + 1 \/ i \in (done + 2)..Len(mq_recv)
    BY <1>3
  <2>3. \A i \in (done + 2)..Len(mq_recv) : i \in (done + 1)..Len(mq_recv) /\ i # done + 1
    BY <1>3
  <2>4. \A i, j \in (done + 1)..Len(mq_recv) : mq_recv[i] = mq_recv[j] => i = j
    BY DEF QInv, OnceFrame
  <2>5. f \notin Receiving'
    BY <1>3, <2>1, <2>3, <2>4
  <2> QED  BY <1>3, <2>1, <2>2, <2>3, <2>5 DEF Receiving
<1>5. Sending' = Sending
  BY <1>1 DEF Sending, FramesOf
<1>6. Divided(live, pool, Sending, Receiving, Away)
  BY DEF QInv
<1>7. /\ c.live = (live \ {f}) \cup c.pool
      /\ pool \subseteq c.pool /\ c.pool \subseteq pool \cup {f}
      /\ Cardinality(c.pool) <= CacheSize
  <2>1. {f} \in SUBSET live
    BY <1>4, <1>6 DEF Divided
  <2> QED  BY <1>2, <2>1, QFacts, PutBack
<1>8. Divided(live', pool', Sending', Receiving', Away')
      /\ live' \in SUBSET Frames /\ pool' \in SUBSET live'
  BY <1>1, <1>2, <1>4, <1>5, <1>6, <1>7, QFacts DEF Divided
<1>9. TypeOK'
  BY <1>1, <1>2, <1>3, <1>7, <1>8 DEF QInv, TypeOK, Divided
<1>10. OncePacket(mq_send)' /\ Increasing(mq_send, wire, last)' /\ Reading' /\ Watched' /\ Announced'
  BY <1>1 DEF QInv, OncePacket, Increasing, Reading, Watched, Announced
<1>11. OnceFrame(mq_recv, done)'
  BY <1>1, <1>3 DEF QInv, OnceFrame
<1> QED  BY <1>8, <1>9, <1>10, <1>11 DEF QInv

\* A frame becomes a segment of KCP or ends to be one.
LEMMA SegmentKeeps ==
  QInv /\ (ikcp_segment_new \/ ikcp_segment_delete) /\ UNCHANGED mmsg => QInv'
<1> SUFFICES ASSUME QInv, ikcp_segment_new \/ ikcp_segment_delete, UNCHANGED mmsg PROVE QInv'
  OBVIOUS
<1>1. UNCHANGED <<mq_send, w_write, mq_recv, pc, nrecv, done, room, inbox, arrived,
                  unsealed, last, wire, mmsg>>
  BY DEF ikcp_segment_new, ikcp_segment_delete, reader, kernel
<1>2. Sending' = Sending /\ Receiving' = Receiving
  BY <1>1 DEF Sending, Receiving, FramesOf
<1>3. Divided(live, pool, Sending, Receiving, Away) /\ segments \cap unsealed = {}
      /\ live \in SUBSET Frames /\ pool \in SUBSET live
  BY DEF QInv, TypeOK
<1>4. /\ Divided(live', pool', Sending, Receiving, Away') /\ segments' \cap unsealed' = {}
      /\ live' \in SUBSET Frames /\ pool' \in SUBSET live' /\ Cardinality(pool') <= CacheSize
  <2>1. CASE ikcp_segment_new
    <3>1. PICK F \in mcache_get(1) :
            pool' = pool \ F /\ live' = live \cup F /\ segments' = segments \cup F
      BY <2>1 DEF ikcp_segment_new
    <3>2. F \subseteq pool \cup (Frames \ live) /\ Cardinality(F) = 1
      BY DEF mcache_get
    <3>3. PICK f : F = {f}
      <4>1. IsFiniteSet(F)
        <5>1. F \in SUBSET Frames
          BY <1>3, <3>2
        <5> QED  BY <5>1, Constants, FS_Subset
      <4> QED  BY <3>2, <4>1, FS_Singleton
    <3>4. f \in F
      BY <3>3
    <3>5. Cardinality(pool \ F) <= CacheSize
      BY <3>4, GetFrame
    <3> QED  BY <1>1, <1>3, <3>1, <3>2, <3>5 DEF Divided
  <2>2. CASE ikcp_segment_delete
    <3>1. PICK f \in segments :
            /\ \E c \in mcache_put(pool, live, {f}) : pool' = c.pool /\ live' = c.live
            /\ segments' = segments \ {f}
      BY <2>2 DEF ikcp_segment_delete
    <3>2. PICK c \in mcache_put(pool, live, {f}) : pool' = c.pool /\ live' = c.live
      BY <3>1
    <3>3. /\ c.live = (live \ {f}) \cup c.pool
          /\ pool \subseteq c.pool /\ c.pool \subseteq pool \cup {f}
          /\ Cardinality(c.pool) <= CacheSize
      <4>1. {f} \in SUBSET live
        BY <1>3 DEF Divided
      <4> QED  BY <3>2, <4>1, QFacts, PutBack
    <3> QED  BY <1>1, <1>3, <3>1, <3>2, <3>3 DEF Divided
  <2> QED  BY <2>1, <2>2
<1>5. TypeOK'
  BY <1>1, <1>4 DEF QInv, TypeOK, Divided
<1>6. OncePacket(mq_send)' /\ OnceFrame(mq_recv, done)'
      /\ Increasing(mq_send, wire, last)' /\ Reading' /\ Watched' /\ Announced'
  BY <1>1 DEF QInv, OncePacket, OnceFrame, Increasing, Reading, Watched, Announced
<1> QED  BY <1>2, <1>4, <1>5, <1>6 DEF QInv

\* The end of queue_dispatch: no frame of mq_recv is left.
LEMMA DispatchedKeeps == QInv /\ Dispatched /\ UNCHANGED <<mmsg, segments>> => QInv'
<1> SUFFICES ASSUME QInv, Dispatched, UNCHANGED <<mmsg, segments>> PROVE QInv'
  OBVIOUS
<1>1. UNCHANGED <<live, pool, mq_send, w_write, room, inbox, arrived,
                  unsealed, segments, last, wire, mmsg>>
      /\ done = Len(mq_recv) /\ mq_recv' = <<>> /\ done' = 0 /\ nrecv' = 0 /\ pc' = "recv"
  BY DEF Dispatched, kernel
<1>2. mq_recv' \in Seq(Frames) /\ Len(mq_recv') = 0
  BY <1>1
<1>3. Receiving = {} /\ Receiving' = {} /\ Sending' = Sending
  BY <1>1, <1>2, QFacts DEF Receiving, Sending, FramesOf
<1>4. Divided(live', pool', Sending', Receiving', Away')
  BY <1>1, <1>3 DEF QInv, Divided
<1>5. TypeOK'
  BY <1>1, <1>2, Constants DEF QInv, TypeOK
<1>6. OncePacket(mq_send)' /\ Increasing(mq_send, wire, last)' /\ Reading' /\ Watched'
      /\ OnceFrame(mq_recv, done)' /\ Announced'
  BY <1>1, <1>2 DEF QInv, OncePacket, Increasing, Reading, Watched, Announced, OnceFrame
<1> QED  BY <1>4, <1>5, <1>6 DEF QInv

\* pkt_read_cb begins with what it finds in mq_recv.
LEMMA ReadKeeps == QInv /\ pkt_read_cb /\ UNCHANGED <<mmsg, segments>> => QInv'
<1> SUFFICES ASSUME QInv, pkt_read_cb, UNCHANGED <<mmsg, segments>> PROVE QInv'
  OBVIOUS
<1>1. UNCHANGED <<live, pool, mq_send, w_write, mq_recv, done, room, inbox, arrived,
                  unsealed, segments, last, wire, mmsg>>
      /\ pc = "idle" /\ pc' = "recv" /\ nrecv' = 0
  BY DEF pkt_read_cb, kernel
<1>2. Sending' = Sending /\ Receiving' = Receiving
  BY <1>1 DEF Receiving, Sending, FramesOf
<1>3. Reading'
  <2>1. mmsg => mq_recv = <<>>
    BY <1>1 DEF QInv, Announced
  <2>2. Len(mq_recv) \in Nat /\ (mq_recv = <<>> => Len(mq_recv) = 0)
    BY QFacts
  <2> QED  BY <1>1, <2>1, <2>2 DEF QInv, Reading
<1> QED
  BY <1>1, <1>2, <1>3, Constants
     DEF QInv, TypeOK, OncePacket, Increasing, Watched, Announced, OnceFrame

\* Packets arrive and are transmitted without the frames.
LEMMA KernelKeeps == QInv /\ (Arrive \/ Transmit) /\ UNCHANGED <<mmsg, segments>> => QInv'
<1> SUFFICES ASSUME QInv, Arrive \/ Transmit, UNCHANGED <<mmsg, segments>> PROVE QInv'
  OBVIOUS
<1>1. UNCHANGED <<live, pool, mq_send, w_write, mq_recv, pc, nrecv, done,
                  unsealed, segments, last, wire, mmsg>>
  BY DEF Arrive, Transmit, reader
<1>2. room' \in 0..SockBuf /\ arrived' \in 0..MaxIn /\ inbox' \in 0..arrived'
  <2>1. room \in 0..SockBuf /\ arrived \in 0..MaxIn /\ inbox \in 0..arrived
    BY DEF QInv, TypeOK
  <2>2. CASE Arrive
    BY <2>1, <2>2, Constants DEF Arrive
  <2>3. CASE Transmit
    BY <2>1, <2>3, Constants DEF Transmit
  <2> QED  BY <2>2, <2>3
<1>3. Sending' = Sending /\ Receiving' = Receiving
  BY <1>1 DEF Receiving, Sending, FramesOf
<1> QED
  BY <1>1, <1>2, <1>3
     DEF QInv, TypeOK, OncePacket, Increasing, Reading, Watched, Announced, OnceFrame

\* q is mq_recv with n packets behind it, in the frames used, which come from F.
Batched(n, F, s, used, q) ==
  /\ n \in Nat /\ F \in SUBSET Frames /\ F \cap Receiving = {} /\ done = 0
  /\ s \in [1..n -> F] /\ used = {s[i] : i \in 1..n} /\ Cardinality(used) = n
  /\ q = mq_recv \o s

\* Received packets are in frames of their own: s gives a different frame to each,
\* and mq_recv with s behind it has no frame twice.
LEMMA ReceivedOnce ==
  ASSUME QInv, NEW n, NEW F, NEW s, NEW used, NEW q, Batched(n, F, s, used, q)
  PROVE  /\ q \in Seq(Frames) /\ Len(q) = Len(mq_recv) + n
         /\ OnceFrame(q, 0)
         /\ {q[i] : i \in 1..Len(q)} = Receiving \cup used
<1> DEFINE N == Len(mq_recv)
<1> USE DEF Batched
<1>1. s \in Seq(Frames) /\ Len(s) = n
  BY SeqDef
<1>2. mq_recv \in Seq(Frames) /\ N \in Nat
  BY QFacts
<1>3. /\ q \in Seq(Frames) /\ Len(q) = N + n
      /\ \A i \in 1..(N + n) : q[i] = IF i <= N THEN mq_recv[i] ELSE s[i - N]
  BY <1>1, <1>2, ConcatProperties
<1>4. \A i, j \in 1..n : s[i] = s[j] => i = j
  <2>1. s \in Surjection(1..n, used)
    BY DEF Surjection
  <2>2. IsFiniteSet(1..n) /\ Cardinality(1..n) = n
    BY FS_Interval
  <2>3. s \in Injection(1..n, used)
    BY <2>1, <2>2, FS_Surjection
  <2> QED  BY <2>3 DEF Injection, IsInjective
<1>5. \A i \in 1..(N + n) : /\ i <= N => i \in 1..N /\ i \in (done + 1)..Len(mq_recv)
                            /\ ~(i <= N) => i - N \in 1..n
  BY <1>2
<1>6. Receiving = {mq_recv[i] : i \in 1..N}
  BY <1>2 DEF Receiving
<1>7. OnceFrame(q, 0)
  <2> SUFFICES ASSUME NEW i \in 1..(N + n), NEW j \in 1..(N + n), q[i] = q[j]
               PROVE  i = j
    BY <1>2, <1>3 DEF OnceFrame
  <2>1. CASE i <= N /\ j <= N
    BY <1>3, <1>5, <2>1 DEF QInv, OnceFrame
  <2>2. CASE ~(i <= N) /\ ~(j <= N)
    <3>1. i - N \in 1..n /\ j - N \in 1..n /\ s[i - N] = s[j - N]
      BY <1>3, <1>5, <2>2
    <3>2. i - N = j - N
      BY <1>4, <3>1
    <3> QED  BY <1>2, <3>2
  <2>3. CASE i <= N /\ ~(j <= N)
    <3>1. q[i] \in Receiving /\ q[j] \in F
      BY <1>3, <1>5, <1>6, <2>3
    <3> QED  BY <3>1
  <2>4. CASE ~(i <= N) /\ j <= N
    <3>1. q[j] \in Receiving /\ q[i] \in F
      BY <1>3, <1>5, <1>6, <2>4
    <3> QED  BY <3>1
  <2> QED  BY <2>1, <2>2, <2>3, <2>4
<1>8. {q[i] : i \in 1..(N + n)} = Receiving \cup used
  <2>1. \A i \in 1..N : i \in 1..(N + n) /\ q[i] = mq_recv[i]
    BY <1>2, <1>3
  <2>2. \A i \in 1..n : N + i \in 1..(N + n) /\ q[N + i] = s[i]
    <3> TAKE i \in 1..n
    <3> DEFINE j == N + i
    <3>1. j \in 1..(N + n) /\ ~(j <= N) /\ j - N = i
      BY <1>2
    <3> HIDE DEF j
    <3>2. q[j] = s[j - N]
      BY <1>3, <3>1
    <3> QED  BY <3>1, <3>2 DEF j
  <2>3. \A i \in 1..(N + n) : q[i] \in Receiving \cup used
    BY <1>3, <1>5, <1>6
  <2>4. \A x \in Receiving : \E i \in 1..(N + n) : q[i] = x
    BY <1>6, <2>1
  <2>5. \A x \in used : \E i \in 1..(N + n) : q[i] = x
    BY <2>2
  <2> QED  BY <2>3, <2>4, <2>5
<1> QED  BY <1>3, <1>7, <1>8

\* One pass of pkt_recv: the frames of the batch go to mq_recv or back.
LEMMA RecvKeeps == QInv /\ pkt_recv /\ UNCHANGED <<mmsg, segments>> => QInv'
<1> SUFFICES ASSUME QInv, pkt_recv, UNCHANGED <<mmsg, segments>> PROVE QInv'
  OBVIOUS
<1> DEFINE navail == RecvCap - Len(mq_recv)
           nbatch == Least(navail, IF mmsg THEN Batch ELSE 1)
           got == Least(nbatch, Cardinality(pool) + Cardinality(Frames \ live))
<1>1. /\ pc = "recv" /\ done = 0 /\ Reading
      /\ mq_recv \in Seq(Frames) /\ Len(mq_recv) \in Nat /\ nrecv \in Nat
      /\ inbox \in 0..arrived /\ arrived \in 0..MaxIn
      /\ nrecv <= Len(mq_recv) /\ (mmsg => nrecv = Len(mq_recv))
      /\ Len(mq_recv) <= RecvCap /\ mmsg \in BOOLEAN
  BY QFacts DEF QInv, TypeOK, Reading, pkt_recv
<1>2. UNCHANGED <<mq_send, w_write, done, room, arrived, unsealed, segments, last, wire, mmsg>>
  BY DEF pkt_recv, Return
<1>3. Sending' = Sending
  BY <1>2 DEF Sending, FramesOf
<1>4. OncePacket(mq_send)' /\ Increasing(mq_send, wire, last)'
  BY <1>2 DEF QInv, OncePacket, Increasing
<1>5. CASE /\ navail = 0 \/ got = 0
           /\ Return(IF navail > 0 /\ ~mmsg THEN 0 ELSE nrecv)
           /\ UNCHANGED <<live, pool, mq_recv, inbox>>
  <2>1. Receiving' = Receiving
    BY <1>2, <1>5 DEF Receiving
  <2>2. pc' \in {"idle", "dispatch"} /\ nrecv' = 0
        /\ (mmsg /\ pc' = "idle" => nrecv = 0)
    BY <1>1, <1>5 DEF Return
  <2>3. mmsg /\ pc' = "idle" => mq_recv = <<>>
    BY <1>1, <2>2
  <2>4. Announced'
    <3>1. mq_send # <<>> => w_write
      BY DEF QInv, Watched
    <3> QED  BY <1>2, <1>5, <2>3, <3>1 DEF Announced
  <2> QED
    BY <1>1, <1>2, <1>3, <1>4, <1>5, <2>1, <2>2, <2>4, Constants
       DEF QInv, TypeOK, Reading, Watched, OnceFrame
<1>6. ASSUME navail > 0, got > 0,
             NEW n \in {Least(got, inbox)} \cup {n \in {0} : Errors},
             NEW F \in mcache_get(got), NEW s \in [1..n -> F],
             Cardinality({s[i] : i \in 1..n}) = n,
             NEW c \in mcache_put(pool \ F, live \cup F, F \ {s[i] : i \in 1..n}),
             pool' = c.pool, live' = c.live,
             mq_recv' = mq_recv \o s, inbox' = inbox - n,
             IF n > 0 /\ n < navail THEN nrecv' = nrecv + n /\ UNCHANGED pc
                                    ELSE Return(nrecv + n)
      PROVE  QInv'
  <2> DEFINE used == {s[i] : i \in 1..n}
             l == live \cup F
             p == pool \ F
  <2>0. /\ navail > 0 /\ mq_recv' = mq_recv \o s /\ inbox' = inbox - n
        /\ IF n > 0 /\ n < navail THEN nrecv' = nrecv + n /\ UNCHANGED pc
                                  ELSE Return(nrecv + n)
    BY <1>6
  <2>1. Cardinality(pool) \in Nat /\ Cardinality(Frames \ live) \in Nat
    <3>1. IsFiniteSet(Frames \ live)
      BY Constants, FS_Subset
    <3> QED  BY <3>1, QFacts, FS_CardinalityType
  <2>2. n \in Nat /\ n <= navail /\ n <= inbox
    <3> DEFINE K == Cardinality(pool) + Cardinality(Frames \ live)
    <3>1. navail \in Nat /\ K \in Nat
      BY <1>1, <2>1, Constants
    <3> HIDE DEF navail
    <3>2. nbatch \in Nat /\ nbatch <= navail
      BY <2>0, <3>1, Constants DEF Least
    <3>3. got = Least(nbatch, K)
      OBVIOUS
    <3>4. inbox \in Nat
      BY <1>1, Constants
    <3> HIDE DEF nbatch, K, got
    <3>5. got \in Nat /\ got <= navail
      BY <3>1, <3>2, <3>3 DEF Least
    <3>6. n = 0 \/ n = Least(got, inbox)
      OBVIOUS
    <3> QED  BY <3>1, <3>4, <3>5, <3>6 DEF Least
  <2>3. F \subseteq pool \cup (Frames \ live)
    BY DEF mcache_get
  <2>4. /\ F \in SUBSET Frames /\ F \cap Receiving = {} /\ F \cap Sending = {}
        /\ F \cap Away = {} /\ used \subseteq F
        /\ l \in SUBSET Frames /\ p \in SUBSET l /\ F \ used \in SUBSET l
    BY <2>3, QFacts DEF QInv, Divided
  <2>5. Cardinality(p) <= CacheSize
    <3>1. Cardinality(p) <= Cardinality(pool) /\ Cardinality(p) \in Nat
      <4>1. p \in SUBSET pool
        OBVIOUS
      <4> QED  BY <4>1, QFacts, FS_Subset, FS_CardinalityType
    <3> QED  BY <3>1, QFacts, Constants
  <2>6. Cardinality(used) = n /\ c \in mcache_put(p, l, F \ used)
    BY <1>6
  <2>7. /\ mq_recv' \in Seq(Frames) /\ Len(mq_recv') = Len(mq_recv) + n
        /\ OnceFrame(mq_recv', 0)
        /\ {mq_recv'[i] : i \in 1..Len(mq_recv')} = Receiving \cup used
    <3>1. Batched(n, F, s, used, mq_recv')
      BY <1>1, <2>0, <2>2, <2>4, <2>6 DEF Batched
    <3> HIDE DEF used
    <3> QED  BY <3>1, ReceivedOnce
  <2>8. Receiving' = Receiving \cup used
    <3>1. done' + 1 = 1
      BY <1>1, <1>2
    <3>2. Receiving' = {mq_recv'[i] : i \in 1..Len(mq_recv')}
      BY <3>1 DEF Receiving
    <3> QED  BY <2>7, <3>2
  <2> HIDE DEF used, l, p
  <2>9. /\ c.live = (l \ (F \ used)) \cup c.pool
        /\ p \subseteq c.pool /\ c.pool \subseteq p \cup (F \ used)
        /\ Cardinality(c.pool) <= CacheSize
    BY <2>4, <2>5, <2>6, PutBack
  <2>10. Divided(live', pool', Sending', Receiving', Away')
         /\ live' \in SUBSET Frames /\ pool' \in SUBSET live'
         /\ unsealed' \in SUBSET live' /\ segments' \in SUBSET (live' \ unsealed')
    <3>1. Divided(live, pool, Sending, Receiving, Away)
      BY DEF QInv
    <3>2. UNCHANGED <<segments, unsealed>> /\ Away' = Away /\ segments \cap unsealed = {}
      BY <1>2 DEF QInv, TypeOK
    <3> HIDE DEF Away
    <3>3. Divided(live', pool', Sending', Receiving', Away')
          /\ live' \in SUBSET Frames /\ pool' \in SUBSET live'
      BY <1>3, <1>6, <2>4, <2>8, <2>9, <3>1, <3>2 DEF Divided, l, p
    <3>4. Away \subseteq live'
      BY <3>2, <3>3 DEF Divided
    <3> QED  BY <3>2, <3>3, <3>4 DEF Away
  <2>11. Len(mq_recv') <= RecvCap /\ nrecv' \in 0..RecvCap
         /\ pc' \in {"idle", "recv", "dispatch"}
         /\ (pc' # "recv" => nrecv' = 0)
         /\ (pc' = "recv" => nrecv' = nrecv + n)
         /\ (pc' = "idle" => nrecv + n = 0)
    <3>1. Len(mq_recv') \in Nat /\ Len(mq_recv') <= RecvCap
      BY <1>1, <2>2, <2>7, Constants
    <3> HIDE DEF navail
    <3>2. CASE n > 0 /\ n < navail
      <4>1. nrecv' = nrecv + n /\ pc' = "recv"
        BY <1>1, <2>0, <3>2
      <4>2. nrecv' \in 0..RecvCap
        BY <1>1, <2>2, <2>7, <3>1, <4>1, Constants
      <4> QED  BY <3>1, <4>1, <4>2
    <3>3. CASE ~(n > 0 /\ n < navail)
      <4>1. Return(nrecv + n) /\ nrecv + n \in Nat
        BY <1>1, <2>0, <2>2, <3>3
      <4> QED  BY <3>1, <4>1, Constants DEF Return
    <3> QED  BY <3>2, <3>3
  <2>12. inbox' \in 0..arrived'
    BY <1>1, <1>2, <2>0, <2>2
  <2>13. TypeOK'
    <3>1. /\ pool' \subseteq live' /\ live' \subseteq Frames
          /\ unsealed' \subseteq live' /\ segments' \subseteq live' \ unsealed'
          /\ Cardinality(pool') <= CacheSize
      <4>1. pool' = c.pool
        BY <1>6
      <4> QED  BY <2>9, <2>10, <4>1
    <3>2. /\ mq_send' \in Seq([f : Frames, n : Nat]) /\ Len(mq_send') <= SendCap
          /\ w_write' \in BOOLEAN /\ mmsg' \in BOOLEAN
          /\ wire' \in 0..last' /\ last' \in 0..MaxPkt
          /\ room' \in 0..SockBuf /\ arrived' \in 0..MaxIn
      BY <1>2 DEF QInv, TypeOK
    <3>3. done' \in 0..Len(mq_recv')
      BY <1>1, <1>2, <2>2, <2>7
    <3> QED  BY <2>7, <2>11, <2>12, <3>1, <3>2, <3>3 DEF TypeOK
  <2>14. Reading'
    BY <1>1, <1>2, <2>2, <2>7, <2>11 DEF Reading
  <2>15. Watched'
    BY <1>2 DEF QInv, Watched
  <2>16. Announced'
    <3>1. mmsg /\ pc' = "idle" => Len(mq_recv') = 0
      BY <1>1, <2>2, <2>7, <2>11
    <3>2. mmsg /\ pc' = "idle" => mq_recv' = <<>>
      BY <2>7, <3>1
    <3> QED  BY <1>2, <2>15, <3>2 DEF Announced, Watched
  <2>17. OnceFrame(mq_recv, done)'
    BY <1>1, <1>2, <2>7
  <2> QED  BY <1>4, <2>10, <2>13, <2>14, <2>15, <2>16, <2>17 DEF QInv
<1> QED
  <2>1. CASE \E n \in {Least(got, inbox)} \cup {n \in {0} : Errors} :
               /\ navail > 0 /\ got > 0
               /\ \E F \in mcache_get(got) : \E s \in [1..n -> F] :
                    /\ Cardinality({s[i] : i \in 1..n}) = n
                    /\ \E c \in mcache_put(pool \ F, live \cup F, F \ {s[i] : i \in 1..n}) :
                         pool' = c.pool /\ live' = c.live
                    /\ mq_recv' = mq_recv \o s
                    /\ inbox' = inbox - n
               /\ IF n > 0 /\ n < navail
                  THEN nrecv' = nrecv + n /\ UNCHANGED pc
                  ELSE Return(nrecv + n)
    <3> HIDE DEF got, navail
    <3> QED  BY <1>6, <2>1
  <2>2. CASE /\ navail = 0 \/ got = 0
             /\ Return(IF navail > 0 /\ ~mmsg THEN 0 ELSE nrecv)
             /\ UNCHANGED <<live, pool, mq_recv, inbox>>
    BY <1>5, <2>2
  <2> QED  BY <2>1, <2>2 DEF pkt_recv

-----------------------------------------------------------------------------
(* The theorems *)

\* The queues and the pool begin empty.
LEMMA InitQInv == Init => QInv
<1> SUFFICES ASSUME Init PROVE QInv
  OBVIOUS
<1>1. /\ live = {} /\ pool = {} /\ segments = {} /\ unsealed = {} /\ mq_send = <<>> /\ mq_recv = <<>>
      /\ w_write = FALSE /\ pc = "idle" /\ nrecv = 0 /\ done = 0
      /\ room = SockBuf /\ inbox = 0 /\ arrived = 0 /\ last = 0 /\ wire = 0
  BY DEF Init
<1>2. mmsg \in BOOLEAN
  BY PktQueueAssumption DEF Init, PktQueueAssumption
<1>3. Len(mq_send) = 0 /\ Len(mq_recv) = 0
      /\ mq_send \in Seq([f : Frames, n : Nat]) /\ mq_recv \in Seq(Frames)
  BY <1>1
<1>4. Sending = {} /\ Receiving = {}
  BY <1>1, <1>3 DEF Sending, Receiving, FramesOf
<1>5. Cardinality(pool) = 0
  BY <1>1, FS_EmptySet
<1>6. TypeOK
  <2>1. /\ pool \subseteq live /\ live \subseteq Frames
        /\ unsealed \subseteq live /\ segments \subseteq live \ unsealed
        /\ w_write \in BOOLEAN /\ pc \in {"idle", "recv", "dispatch"}
    BY <1>1
  <2>2. /\ Cardinality(pool) <= CacheSize
        /\ Len(mq_send) <= SendCap /\ Len(mq_recv) <= RecvCap
    BY <1>3, <1>5, Constants
  <2>3. done \in 0..Len(mq_recv) /\ nrecv \in 0..RecvCap
    BY <1>1, <1>3, Constants
  <2>4. /\ room \in 0..SockBuf /\ arrived \in 0..MaxIn /\ inbox \in 0..arrived
        /\ wire \in 0..last /\ last \in 0..MaxPkt
    BY <1>1, Constants
  <2> QED  BY <1>2, <1>3, <2>1, <2>2, <2>3, <2>4 DEF TypeOK
<1>7. Divided(live, pool, Sending, Receiving, Away)
  BY <1>1, <1>4 DEF Divided
<1> QED
  BY <1>1, <1>3, <1>6, <1>7
     DEF QInv, OncePacket, OnceFrame, Increasing, Reading, Watched, Announced

\* Every step keeps the invariant.
LEMMA NextQInv == QInv /\ [Next]_vars => QInv'
<1> SUFFICES ASSUME QInv, [Next]_vars PROVE QInv'
  OBVIOUS
<1>1. CASE UNCHANGED vars
  <2>1. UNCHANGED <<mmsg, live, pool, mq_send, w_write, mq_recv, pc, nrecv, done,
                    room, inbox, arrived, unsealed, segments, last, wire>>
    BY <1>1 DEF vars, reader, kernel
  <2>2. Sending' = Sending /\ Receiving' = Receiving
    BY <2>1 DEF Sending, Receiving, FramesOf
  <2> QED
    BY <2>1, <2>2
       DEF QInv, TypeOK, OncePacket, OnceFrame, Increasing, Reading, Watched, Announced
<1>2. CASE Next
  BY <1>2, ShrinkKeeps, OutputKeeps, WriteKeeps, DispatchKeeps, DispatchedKeeps,
     ReadKeeps, RecvKeeps, KernelKeeps, SegmentKeeps DEF Next, Callback
<1> QED  BY <1>1, <1>2

\* The inductive invariant of pool and queues (mcache.h, pktqueue.c, event_pkt.c)
\* holds in every reachable state.
THEOREM QueueInvariant == Spec => []QInv
<1>1. Init => QInv
  BY InitQInv
<1>2. QInv /\ [Next]_vars => QInv'
  BY NextQInv
<1> QED  BY <1>1, <1>2, PTL DEF Spec

\* A queue without repetitions has as many frames as entries.
LEMMA CountFrames ==
  ASSUME NEW a \in Nat, NEW b \in Nat, a <= b, NEW g \in [(a + 1)..b -> Frames],
         \A i, j \in (a + 1)..b : g[i] = g[j] => i = j
  PROVE  LET S == {g[i] : i \in (a + 1)..b}
         IN  IsFiniteSet(S) /\ Cardinality(S) = b - a
<1> DEFINE D == (a + 1)..b
           S == {g[i] : i \in D}
<1>1. g \in Bijection(D, S)
  BY DEF Bijection, Injection, Surjection, IsInjective
<1>2. IsFiniteSet(D) /\ Cardinality(D) = b - a
  <2>1. a + 1 \in Int /\ b \in Int
    OBVIOUS
  <2>2. IsFiniteSet(D) /\ Cardinality(D) = IF a + 1 > b THEN 0 ELSE b - (a + 1) + 1
    BY <2>1, FS_Interval
  <2> QED  BY <2>2
<1> HIDE DEF D, S
<1>3. ExistsBijection(D, S)
  BY <1>1 DEF ExistsBijection
<1>4. IsFiniteSet(S) /\ Cardinality(S) = Cardinality(D)
  BY <1>2, <1>3, FS_Bijection
<1> QED  BY <1>2, <1>4 DEF D, S

\* The union of four finite sets that are disjoint has the sum of their numbers.
LEMMA CountDivided ==
  ASSUME NEW l, NEW p, NEW S, NEW R, NEW U, Divided(l, p, S, R, U),
         IsFiniteSet(p), IsFiniteSet(S), IsFiniteSet(R), IsFiniteSet(U)
  PROVE  Cardinality(l) = Cardinality(p) + Cardinality(S) + Cardinality(R) + Cardinality(U)
<1> DEFINE A == p \cup S
           B == A \cup R
<1>1. p \cap S = {} /\ A \cap R = {} /\ B \cap U = {} /\ l = B \cup U
  BY DEF Divided
<1>2. /\ IsFiniteSet(A)
      /\ Cardinality(A) = Cardinality(p) + Cardinality(S) - Cardinality(p \cap S)
  BY FS_Union
<1> HIDE DEF A
<1>3. /\ IsFiniteSet(B)
      /\ Cardinality(B) = Cardinality(A) + Cardinality(R) - Cardinality(A \cap R)
  BY <1>2, FS_Union
<1> HIDE DEF B
<1>4. Cardinality(l) = Cardinality(B) + Cardinality(U) - Cardinality(B \cap U)
  BY <1>1, <1>3, FS_Union
<1>5. /\ Cardinality(p) \in Nat /\ Cardinality(S) \in Nat /\ Cardinality(R) \in Nat
      /\ Cardinality(U) \in Nat /\ Cardinality(A) \in Nat /\ Cardinality(B) \in Nat
  BY <1>2, <1>3, FS_CardinalityType
<1>6. Cardinality(p \cap S) = 0 /\ Cardinality(A \cap R) = 0 /\ Cardinality(B \cap U) = 0
  BY <1>1, FS_EmptySet
<1> QED  BY <1>2, <1>3, <1>4, <1>5, <1>6

\* What the inductive invariant says of a state.
LEMMA QInvImplies == QInv => Owned /\ Fifo /\ Announced
<1> SUFFICES ASSUME QInv PROVE Owned /\ Fifo /\ Announced
  OBVIOUS
<1>1. /\ Divided(live, pool, Sending, Receiving, Away)
      /\ OncePacket(mq_send) /\ OnceFrame(mq_recv, done)
      /\ Increasing(mq_send, wire, last) /\ Announced
  BY DEF QInv
<1>2. /\ pool \subseteq Frames /\ segments \subseteq Frames /\ unsealed \subseteq Frames
      /\ segments \cap unsealed = {}
      /\ Cardinality(pool) <= CacheSize
      /\ mq_send \in Seq(Packets) /\ Len(mq_send) <= SendCap
      /\ mq_recv \in Seq(Frames) /\ Len(mq_recv) <= RecvCap
      /\ done \in 0..Len(mq_recv)
  BY DEF QInv, TypeOK, Packets
<1>3. Len(mq_send) \in Nat /\ Len(mq_recv) \in Nat /\ done \in Nat
  BY <1>2, LenProperties
<1>4. IsFiniteSet(Sending) /\ Cardinality(Sending) = Len(mq_send)
  <2> DEFINE g == [i \in (0 + 1)..Len(mq_send) |-> mq_send[i].f]
  <2>1. \A i \in 1..Len(mq_send) : mq_send[i].f \in Frames
    <3>1. \A i \in 1..Len(mq_send) : mq_send[i] \in Packets
      BY <1>2, ElementOfSeq
    <3> QED  BY <3>1 DEF Packets
  <2>2. g \in [(0 + 1)..Len(mq_send) -> Frames]
    BY <1>3, <2>1
  <2>3. \A i, j \in (0 + 1)..Len(mq_send) : g[i] = g[j] => i = j
    BY <1>1, <1>3 DEF OncePacket
  <2>4. Sending = {g[i] : i \in (0 + 1)..Len(mq_send)}
    BY <1>3 DEF Sending, FramesOf
  <2> HIDE DEF g
  <2>5. LET S == {g[i] : i \in (0 + 1)..Len(mq_send)}
        IN  IsFiniteSet(S) /\ Cardinality(S) = Len(mq_send) - 0
    <3>1. 0 \in Nat /\ 0 <= Len(mq_send)
      BY <1>3
    <3> QED  BY <1>3, <2>2, <2>3, <3>1, CountFrames
  <2> QED  BY <1>3, <2>4, <2>5
<1>5. IsFiniteSet(Receiving) /\ Cardinality(Receiving) = Len(mq_recv) - done
  <2> DEFINE g == [i \in (done + 1)..Len(mq_recv) |-> mq_recv[i]]
  <2>1. \A i \in (done + 1)..Len(mq_recv) : mq_recv[i] \in Frames
    BY <1>2, <1>3, ElementOfSeq
  <2>2. g \in [(done + 1)..Len(mq_recv) -> Frames]
    BY <2>1
  <2>3. \A i, j \in (done + 1)..Len(mq_recv) : g[i] = g[j] => i = j
    BY <1>1 DEF OnceFrame
  <2>4. Receiving = {g[i] : i \in (done + 1)..Len(mq_recv)}
    BY DEF Receiving
  <2>5. done <= Len(mq_recv)
    BY <1>2, <1>3
  <2> HIDE DEF g
  <2>6. LET S == {g[i] : i \in (done + 1)..Len(mq_recv)}
        IN  IsFiniteSet(S) /\ Cardinality(S) = Len(mq_recv) - done
    BY <1>3, <2>2, <2>3, <2>5, CountFrames
  <2> QED  BY <2>4, <2>6
<1>6. /\ IsFiniteSet(pool) /\ IsFiniteSet(Away)
      /\ Cardinality(Away) = Cardinality(segments) + Cardinality(unsealed)
  <2>1. IsFiniteSet(pool) /\ IsFiniteSet(segments) /\ IsFiniteSet(unsealed)
    BY <1>2, Constants, FS_Subset
  <2>2. /\ IsFiniteSet(Away)
        /\ Cardinality(Away) = Cardinality(segments) + Cardinality(unsealed)
                                 - Cardinality(segments \cap unsealed)
    BY <2>1, FS_Union
  <2>3. Cardinality(segments \cap unsealed) = 0
    BY <1>2, FS_EmptySet
  <2>4. Cardinality(segments) \in Nat /\ Cardinality(unsealed) \in Nat
    BY <2>1, FS_CardinalityType
  <2> QED  BY <2>1, <2>2, <2>3, <2>4
<1> HIDE DEF Away
<1>7. Cardinality(live) = Cardinality(pool) + Cardinality(Sending)
                            + Cardinality(Receiving) + Cardinality(Away)
  BY <1>1, <1>4, <1>5, <1>6, CountDivided
<1>8. Owned
  <2>1. live = pool \cup Sending \cup Receiving \cup segments \cup unsealed
    BY <1>1 DEF Divided, Away
  <2>0. /\ Cardinality(pool) \in Nat /\ Cardinality(segments) \in Nat
        /\ Cardinality(unsealed) \in Nat
    BY <1>2, Constants, FS_Subset, FS_CardinalityType
  <2> QED  BY <1>2, <1>3, <1>4, <1>5, <1>6, <1>7, <2>0, <2>1 DEF Owned
<1>9. Fifo
  BY <1>1 DEF Increasing, Fifo
<1> QED  BY <1>1, <1>8, <1>9

\* Every frame that was allocated has exactly one owner (the pool, mq_send, mq_recv
\* or KCP), and none is lost but those that queue_send could not seal; pool and
\* queues keep their limits.
THEOREM OwnedHolds == Spec => []Owned
BY QueueInvariant, QInvImplies, PTL

\* pkt_send takes packets in the order in which queue_send queued them, and none
\* of them twice.
THEOREM FifoHolds == Spec => []Fifo
BY QueueInvariant, QInvImplies, PTL

\* Between two callbacks what waits in mq_send has an active write watcher, and
\* with recvmmsg nothing waits in mq_recv.
THEOREM AnnouncedHolds == Spec => []Announced
BY QueueInvariant, QInvImplies, PTL

=============================================================================
