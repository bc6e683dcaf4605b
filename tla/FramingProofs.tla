--------------------------- MODULE FramingProofs ---------------------------
(***************************************************************************)
(* The receiver of a session finds every message and never lacks the room  *)
(* for the next segment, for every size of buffers, headers and segments   *)
(* with room for one packet beyond the longest message.                    *)
(***************************************************************************)
EXTENDS Framing, TLAPS

-----------------------------------------------------------------------------
(* The inductive invariant. *)

\* No segment is longer than Mss.
Segments == \A c \in cuts : c < written => \E d \in cuts : c < d /\ d <= c + Mss

\* No message is shorter than its header or longer than TLV_MAX_LENGTH.
Messages ==
  \A e \in ends, f \in ends :
    Follows(f, e, ends) => f - e \in TLV_HEADER_SIZE..TLV_MAX_LENGTH

\* While the body of a message is being written, wbuf holds the whole message.
Flushing ==
  \/ wbuf_flush = 0 /\ wbuf_next = 0
  \/ /\ TLV_HEADER_SIZE <= wbuf_flush /\ wbuf_flush <= wbuf_next
     /\ wbuf_next <= wbuf_len
     /\ Follows(Consumed + wbuf_next, Consumed, ends)

FInv ==
  /\ TypeOK /\ written \in ends /\ written \in cuts
  /\ Segments /\ Messages /\ Aligned /\ Flushing /\ NoStall

-----------------------------------------------------------------------------

\* What the constants are.
LEMMA Sizes ==
  /\ SESSION_BUF_SIZE \in Nat /\ MAX_PACKET_SIZE \in Nat /\ TLV_HEADER_SIZE \in Nat
  /\ Mss \in Nat /\ 0 < Mss /\ Mss <= MAX_PACKET_SIZE
  /\ TLV_MAX_LENGTH \in Nat /\ 0 < TLV_HEADER_SIZE /\ TLV_HEADER_SIZE < TLV_MAX_LENGTH
  /\ TLV_MAX_LENGTH + MAX_PACKET_SIZE = SESSION_BUF_SIZE
BY FramingAssumption DEF TLV_MAX_LENGTH

\* The segments that Fragments makes are not longer than Mss.
LEMMA FragmentsShort ==
  ASSUME NEW start \in Nat, NEW end \in Nat, NEW c \in Fragments(start, end), c < end
  PROVE  \E d \in Fragments(start, end) : c < d /\ d <= c + Mss
<1>1. PICK k \in 0..(end - start) : c = start + k * Mss
  BY DEF Fragments
<1>2. Mss \in Nat /\ 0 < Mss /\ k \in Nat /\ c \in Nat
  BY <1>1, Sizes
<1>3. CASE c + Mss <= end
  <2>1. (k + 1) * Mss = k * Mss + Mss
    BY <1>2
  <2>2. k + 1 <= (k + 1) * Mss
    <3>1. PICK r \in Nat : Mss = r + 1
      BY <1>2
    <3>2. (k + 1) * (r + 1) = (k + 1) * r + (k + 1) /\ (k + 1) * r \in Nat
      BY <1>2
    <3> QED
      BY <1>2, <3>1, <3>2
  <2>3. k + 1 \in 0..(end - start) /\ c + Mss = start + (k + 1) * Mss
    <3>1. k * Mss \in Nat
      BY <1>2
    <3> QED
      BY <1>1, <1>2, <1>3, <2>1, <2>2, <3>1
  <2>4. c + Mss \in Fragments(start, end)
    <3>1. c + Mss \in {start + i * Mss : i \in 0..(end - start)}
      BY <2>3
    <3>2. c + Mss \in 0..end
      BY <1>2, <1>3
    <3> QED
      BY <3>1, <3>2 DEF Fragments
  <2> QED
    BY <1>2, <2>4
<1>4. CASE end < c + Mss
  <2>1. end \in Fragments(start, end)
    BY DEF Fragments
  <2> QED
    BY <1>2, <1>4, <2>1
<1> QED
  BY <1>2, <1>3, <1>4

\* Fragments lie between start and end, both included.
LEMMA FragmentsBounds ==
  ASSUME NEW start \in Nat, NEW end \in Nat, start <= end
  PROVE  /\ start \in Fragments(start, end) /\ end \in Fragments(start, end)
         /\ \A c \in Fragments(start, end) : c \in Nat /\ start <= c /\ c <= end
<1>1. Mss \in Nat
  BY Sizes
<1>2. start + 0 * Mss = start /\ 0 \in 0..(end - start)
  BY <1>1
<1>3. start \in Fragments(start, end)
  BY <1>2 DEF Fragments
<1>4. ASSUME NEW c \in Fragments(start, end)
      PROVE  c \in Nat /\ start <= c /\ c <= end
  <2>1. CASE c = end
    BY <2>1
  <2>2. CASE c # end
    <3>1. PICK k \in 0..(end - start) : c = start + k * Mss /\ c \in 0..end
      BY <2>2 DEF Fragments
    <3>2. k * Mss \in Nat
      BY <1>1
    <3> QED
      BY <3>1, <3>2
  <2> QED
    BY <2>1, <2>2
<1> QED
  BY <1>3, <1>4 DEF Fragments

-----------------------------------------------------------------------------
(* Every step keeps the invariant. *)

\* kcp_sendmsg and kcp_push.
LEMMA SendFInv ==
  ASSUME FInv, NEW len \in TLV_HEADER_SIZE..TLV_MAX_LENGTH, SendMessage(len)
  PROVE  FInv'
<1> DEFINE end == written + len
<1>0. /\ len \in Nat /\ 0 < len /\ written \in Nat /\ end \in Nat /\ written < end
  BY Sizes DEF FInv, TypeOK
<1>1. PICK start \in cuts :
        /\ Last(start, IF snd_nxt < written THEN written - 1 ELSE written, cuts)
        /\ cuts' = {c \in cuts : c <= start} \cup Fragments(start, end)
        /\ written' = end
  BY DEF SendMessage, ikcp_send
<1>2. /\ ends' = ends \cup {end}
      /\ UNCHANGED <<snd_nxt, rcv_nxt, taken, wbuf_len, wbuf_flush, wbuf_next, reading>>
  BY DEF SendMessage, wbuf
<1>3. /\ cuts \subseteq 0..written /\ ends \subseteq 0..written
      /\ snd_nxt \in cuts /\ rcv_nxt \in cuts /\ taken \in cuts
      /\ taken <= rcv_nxt /\ rcv_nxt <= snd_nxt
      /\ written \in cuts /\ written \in ends
  BY DEF FInv, TypeOK
<1>4. start \in Nat /\ start <= written /\ snd_nxt <= start
  <2>1. CASE snd_nxt < written
    BY <1>0, <1>1, <1>3, <2>1 DEF Last
  <2>2. CASE ~(snd_nxt < written)
    BY <1>0, <1>1, <1>3, <2>2 DEF Last
  <2> QED
    BY <2>1, <2>2
<1>5. /\ start \in Fragments(start, end) /\ end \in Fragments(start, end)
      /\ \A c \in Fragments(start, end) : c \in Nat /\ start <= c /\ c <= end
  BY <1>0, <1>4, FragmentsBounds
<1>6. TypeOK' /\ written' \in ends' /\ written' \in cuts'
  <2>1. cuts' \subseteq 0..end /\ ends' \subseteq 0..end
    <3>1. \A c \in 0..written : c \in 0..end
      BY <1>0
    <3>2. Fragments(start, end) \subseteq 0..end
      BY <1>0, <1>5
    <3>3. end \in 0..end
      BY <1>0
    <3> QED
      BY <1>1, <1>2, <1>3, <3>1, <3>2, <3>3
  <2>2. snd_nxt \in cuts' /\ rcv_nxt \in cuts' /\ taken \in cuts'
    BY <1>1, <1>3, <1>4
  <2> QED
    BY <1>0, <1>1, <1>2, <1>5, <2>1, <2>2 DEF FInv, TypeOK
<1>7. Segments'
  <2> SUFFICES ASSUME NEW c \in cuts', c < end
               PROVE  \E d \in cuts' : c < d /\ d <= c + Mss
    BY <1>1 DEF Segments
  <2>1. CASE c \in Fragments(start, end)
    BY <1>0, <1>1, <1>4, <2>1, FragmentsShort
  <2>2. CASE c \in cuts /\ c < start
    <3>1. PICK d \in cuts : c < d /\ d <= c + Mss
      BY <1>0, <1>3, <1>4, <2>2 DEF FInv, Segments
    <3>2. c \in Nat /\ d \in Nat /\ Mss \in Nat /\ start \in cuts'
      BY <1>1, <1>3, <1>5, Sizes
    <3>3. CASE d <= start
      BY <1>1, <3>1, <3>3
    <3>4. CASE start < d
      BY <1>4, <2>2, <3>1, <3>2, <3>4
    <3> QED
      BY <1>4, <3>2, <3>3, <3>4
  <2>3. c \in Fragments(start, end) \/ (c \in cuts /\ c <= start)
    BY <1>1
  <2>4. c \in cuts => c \in Nat
    BY <1>3
  <2> QED
    BY <1>4, <1>5, <2>1, <2>2, <2>3, <2>4
<1>8. \A e, f : Follows(f, e, ends) => Follows(f, e, ends')
  BY <1>0, <1>2, <1>3 DEF Follows
<1>9. Messages'
  <2> SUFFICES ASSUME NEW e \in ends', NEW f \in ends', Follows(f, e, ends')
               PROVE  f - e \in TLV_HEADER_SIZE..TLV_MAX_LENGTH
    BY DEF Messages, TLV_MAX_LENGTH
  <2>1. e \in 0..end /\ f \in 0..end /\ e < f /\ e \in ends
    BY <1>0, <1>2, <1>3 DEF Follows
  <2>2. CASE f = end
    <3>1. e = written
      BY <1>0, <1>2, <1>3, <2>1, <2>2 DEF Follows
    <3> QED
      BY <1>0, <2>2, <3>1
  <2>3. CASE f # end
    <3>1. f \in ends /\ Follows(f, e, ends)
      BY <1>2, <2>3 DEF Follows
    <3> QED
      BY <2>1, <3>1 DEF FInv, Messages
  <2> QED
    BY <2>2, <2>3
<1>10. Aligned' /\ Flushing' /\ NoStall'
  <2>1. Aligned'
    BY <1>2 DEF FInv, Aligned, Consumed
  <2>2. Flushing'
    BY <1>2, <1>8 DEF FInv, Flushing, Consumed
  <2>3. NoStall'
    BY <1>2 DEF FInv, NoStall
  <2> QED
    BY <2>1, <2>2, <2>3
<1> QED
  BY <1>6, <1>7, <1>9, <1>10 DEF FInv

\* All positions are natural numbers.
LEMMA Positions ==
  ASSUME FInv
  PROVE  /\ written \in Nat /\ \A c \in cuts : c \in Nat /\ c <= written
         /\ \A e \in ends : e \in Nat
         /\ snd_nxt \in Nat /\ rcv_nxt \in Nat /\ taken \in Nat
<1>1. written \in Nat /\ cuts \subseteq 0..written /\ ends \subseteq 0..written
      /\ snd_nxt \in cuts /\ rcv_nxt \in cuts /\ taken \in cuts
  BY DEF FInv, TypeOK
<1>2. \A c \in 0..written : c \in Nat /\ c <= written
  BY <1>1
<1> QED
  BY <1>1, <1>2

\* A step of the receiver leaves the stream alone.
LEMMA SameStream ==
  ASSUME FInv, UNCHANGED <<written, ends, cuts>>
  PROVE  written' \in ends' /\ written' \in cuts' /\ Segments' /\ Messages'
BY DEF FInv, Segments, Messages, TLV_MAX_LENGTH

\* What kcp_recv leaves in rcv_queue did not fit into wbuf.
LEMMA RecvRoom ==
  ASSUME FInv, NEW left \in 0..SESSION_BUF_SIZE, kcp_recv(left)
  PROVE  /\ taken' \in cuts /\ taken <= taken' /\ taken' <= rcv_nxt
         /\ left + (taken' - taken) <= SESSION_BUF_SIZE
         /\ \/ taken' = rcv_nxt
            \/ left + (taken' - taken) + Mss > SESSION_BUF_SIZE
<1> DEFINE room == taken + (SESSION_BUF_SIZE - left)
           bound == IF room < rcv_nxt THEN room ELSE rcv_nxt
<1>1. /\ cuts \subseteq 0..written /\ written \in Nat
      /\ rcv_nxt \in cuts /\ taken \in cuts /\ taken <= rcv_nxt
      /\ SESSION_BUF_SIZE \in Nat /\ Mss \in Nat /\ left \in Nat
      /\ left <= SESSION_BUF_SIZE
  BY Sizes DEF FInv, TypeOK
<1>2. taken \in Nat /\ rcv_nxt \in Nat /\ room \in Nat /\ taken <= room
  BY <1>1
<1>6. /\ bound \in Nat /\ bound <= rcv_nxt /\ bound <= room
      /\ bound = rcv_nxt \/ bound = room
  BY <1>2
<1> HIDE DEF room, bound
<1>3. PICK upto \in cuts : /\ upto = taken' /\ upto <= bound
                           /\ \A c \in cuts : c <= bound => c <= upto
  BY DEF kcp_recv, Last, room, bound
<1>4. upto \in Nat /\ taken <= upto /\ upto <= rcv_nxt /\ upto <= room
  BY <1>1, <1>2, <1>3, <1>6
<1>5. ASSUME upto # rcv_nxt
      PROVE  upto + Mss > room
  <2>1. PICK d \in cuts : upto < d /\ d <= upto + Mss
    <3>1. upto < written
      BY <1>1, <1>2, <1>4, <1>5
    <3> QED
      BY <3>1 DEF FInv, Segments
  <2>2. d \in Nat
    BY <1>1
  <2>3. CASE d <= rcv_nxt
    <3>1. ~(d <= bound)
      BY <1>3, <1>4, <2>1, <2>2
    <3>2. d > room
      BY <1>2, <1>6, <2>2, <2>3, <3>1
    <3>3. Mss \in Nat
      BY <1>1
    <3> QED
      BY <1>2, <1>4, <2>1, <2>2, <3>2, <3>3
  <2>4. CASE rcv_nxt < d
    <3>1. ~(rcv_nxt <= bound)
      <4>1. rcv_nxt \in cuts /\ ~(rcv_nxt <= upto)
        BY <1>1, <1>2, <1>4, <1>5
      <4> QED
        BY <1>3, <4>1
    <3>2. room < d /\ Mss \in Nat
      BY <1>1, <1>2, <1>6, <2>2, <2>4, <3>1
    <3> QED
      BY <1>2, <1>4, <2>1, <2>2, <3>2
  <2> QED
    BY <1>2, <2>2, <2>3, <2>4
<1>7. left + (upto - taken) <= SESSION_BUF_SIZE
  BY <1>1, <1>2, <1>4 DEF room
<1>8. upto = rcv_nxt \/ left + (upto - taken) + Mss > SESSION_BUF_SIZE
  BY <1>1, <1>2, <1>4, <1>5 DEF room
<1> QED
  BY <1>3, <1>4, <1>7, <1>8

\* ss_process, once the message before is written: from a position where a
\* message begins, either it waits with all segments taken, or it stands before
\* a message that is complete.
LEMMA ProcessFInv ==
  ASSUME FInv, ss_process
  PROVE  FInv'
<1>1. /\ UNCHANGED <<written, ends, cuts, snd_nxt, rcv_nxt>>
      /\ written' \in ends' /\ written' \in cuts' /\ Segments' /\ Messages'
  <2>1. UNCHANGED <<written, ends, cuts, snd_nxt, rcv_nxt>>
    BY DEF ss_process, sender
  <2> QED
    BY <2>1, SameStream
<1>2. /\ written \in Nat /\ ends \subseteq 0..written /\ cuts \subseteq 0..written
      /\ snd_nxt \in cuts /\ rcv_nxt \in cuts /\ taken \in cuts
      /\ taken <= rcv_nxt /\ rcv_nxt <= snd_nxt
      /\ wbuf_len \in 0..SESSION_BUF_SIZE
      /\ wbuf_flush \in 0..SESSION_BUF_SIZE /\ wbuf_next \in 0..SESSION_BUF_SIZE
  BY DEF FInv, TypeOK
<1>3. CASE wbuf_flush < wbuf_next
  <2>1. UNCHANGED <<taken, wbuf_len, wbuf_flush, wbuf_next>> /\ reading' = FALSE
    BY <1>2, <1>3 DEF ss_process, wbuf
  <2>2. TypeOK'
    BY <1>1, <2>1 DEF FInv, TypeOK
  <2>3. Aligned' /\ Flushing'
    BY <1>1, <2>1 DEF FInv, Aligned, Flushing, Consumed
  <2>4. NoStall'
    BY <1>2, <1>3, <2>1 DEF NoStall
  <2> QED
    BY <1>1, <2>2, <2>3, <2>4 DEF FInv
<1>4. CASE wbuf_flush >= wbuf_next
  <2> DEFINE left == wbuf_len - wbuf_flush
             pos == taken - left
             len == left + (taken' - taken)
  <2>1. kcp_recv(left) /\ NextMessage(len)
    BY <1>2, <1>4 DEF ss_process, consume_wbuf
  <2>2. left \in 0..SESSION_BUF_SIZE /\ pos \in ends
    <3>1. CASE wbuf_flush = 0
      BY <1>2, <3>1 DEF FInv, Aligned, Consumed
    <3>2. CASE wbuf_flush # 0
      <4>1. /\ wbuf_flush = wbuf_next /\ wbuf_next <= wbuf_len
            /\ Consumed + wbuf_next \in ends
        BY <1>2, <1>4, <3>2 DEF FInv, Flushing, Follows
      <4> QED
        BY <1>2, <4>1, Sizes DEF Consumed
    <3> QED
      BY <3>1, <3>2
  <2>3. /\ taken' \in cuts /\ taken <= taken' /\ taken' <= rcv_nxt
        /\ len <= SESSION_BUF_SIZE
        /\ taken' = rcv_nxt \/ len + Mss > SESSION_BUF_SIZE
    BY <2>1, <2>2, RecvRoom
  <2>4. len \in 0..SESSION_BUF_SIZE /\ taken' - len = pos /\ taken' \in Nat /\ taken \in Nat
    <3>1. taken \in Nat /\ taken' \in Nat /\ rcv_nxt \in Nat
      BY <2>3, Positions
    <3> QED
      BY <2>2, <2>3, <3>1, Sizes
  <2> HIDE DEF left, len, pos
  <2>8. /\ written' \in Nat /\ ends' \subseteq 0..written' /\ cuts' \subseteq 0..written'
        /\ {snd_nxt', rcv_nxt', taken'} \subseteq cuts'
        /\ taken' <= rcv_nxt' /\ rcv_nxt' <= snd_nxt'
    BY <1>1, <1>2, <2>3
  <2>9. 0 \in 0..SESSION_BUF_SIZE 
    BY Sizes
  <2>5. ASSUME wbuf_len' = len, wbuf_flush' = 0, wbuf_next' = 0, reading' = FALSE,
               len < TLV_MAX_LENGTH
        PROVE  FInv'
    <3>1. taken' = rcv_nxt
      BY <2>3, <2>4, <2>5, Sizes
    <3>2. TypeOK'
      BY <2>4, <2>5, <2>8, <2>9 DEF TypeOK
    <3>3. Aligned'
      BY <1>1, <2>2, <2>4, <2>5 DEF Aligned, Consumed
    <3>4. Flushing' /\ NoStall'
      BY <1>1, <2>5, <3>1 DEF Flushing, NoStall
    <3> QED
      BY <1>1, <3>2, <3>3, <3>4 DEF FInv
  <2>6. CASE len < TLV_HEADER_SIZE
    <3>1. wbuf_len' = len /\ wbuf_flush' = 0 /\ wbuf_next' = 0 /\ reading' = FALSE
      BY <2>1, <2>4, <2>6, Sizes DEF NextMessage
    <3>2. len < TLV_MAX_LENGTH
      BY <2>4, <2>6, Sizes
    <3> QED
      BY <2>5, <3>1, <3>2
  <2>7. CASE len >= TLV_HEADER_SIZE
    <3>1. PICK hdr_len \in tlv_header_read(taken' - len) :
            \/ /\ len < hdr_len
               /\ wbuf_len' = len /\ wbuf_flush' = 0 /\ wbuf_next' = 0
               /\ reading' = FALSE
            \/ /\ len >= hdr_len
               /\ session_on_msg(len, hdr_len)
               /\ reading' = TRUE
      BY <2>1, <2>4, <2>7, Sizes DEF NextMessage
    <3>2. Follows(pos + hdr_len, pos, ends) /\ hdr_len \in TLV_HEADER_SIZE..MaxBytes
      BY <2>2, <2>4 DEF tlv_header_read
    <3>3. hdr_len \in Nat /\ hdr_len <= TLV_MAX_LENGTH /\ TLV_HEADER_SIZE <= hdr_len
          /\ pos \in Nat
      <4>1. pos + hdr_len \in ends
        BY <3>2 DEF Follows
      <4>2. (pos + hdr_len) - pos \in TLV_HEADER_SIZE..TLV_MAX_LENGTH
        BY <2>2, <3>2, <4>1 DEF FInv, Messages
      <4>3. pos \in Nat /\ hdr_len \in Nat
        BY <1>2, <2>2, <3>2, Sizes, FramingAssumption
      <4> QED
        BY <4>2, <4>3, Sizes
    <3>4. CASE len < hdr_len
      <4>1. wbuf_len' = len /\ wbuf_flush' = 0 /\ wbuf_next' = 0 /\ reading' = FALSE
        BY <2>4, <3>1, <3>3, <3>4, Sizes
      <4>2. len < TLV_MAX_LENGTH
        BY <2>4, <3>3, <3>4, Sizes
      <4> QED
        BY <2>5, <4>1, <4>2
    <3>5. CASE len >= hdr_len
      <4>0. session_on_msg(len, hdr_len) /\ reading' = TRUE
        BY <2>4, <3>1, <3>3, <3>5, Sizes
      <4>1. CASE hdr_len = TLV_HEADER_SIZE
        <5>1. wbuf_len' = len - hdr_len /\ wbuf_flush' = 0 /\ wbuf_next' = 0
          BY <4>0, <4>1 DEF session_on_msg, consume_wbuf
        <5>2. TypeOK'
          <6>1. len - hdr_len \in 0..SESSION_BUF_SIZE
            BY <2>4, <3>3, <3>5, Sizes
          <6> QED
            BY <2>8, <2>9, <4>0, <5>1, <6>1 DEF TypeOK
        <5>3. taken' - wbuf_len' = pos + hdr_len
          <6>1. len \in Nat /\ taken' \in Nat /\ hdr_len \in Nat /\ pos = taken' - len
            <7>1. len \in Nat
              BY <2>4, Sizes
            <7> QED
              BY <2>4, <3>3, <7>1
          <6>2. taken' - (len - hdr_len) = pos + hdr_len
            BY <6>1
          <6> QED
            BY <5>1, <6>2
        <5>4. Aligned'
          BY <1>1, <3>2, <5>3 DEF Aligned, Consumed, Follows
        <5>5. Flushing' /\ NoStall'
          BY <4>0, <5>1 DEF Flushing, NoStall
        <5> QED
          BY <1>1, <5>2, <5>4, <5>5 DEF FInv
      <4>2. CASE hdr_len # TLV_HEADER_SIZE
        <5>1. /\ wbuf_len' = len /\ wbuf_flush' \in TLV_HEADER_SIZE..hdr_len
              /\ wbuf_next' = hdr_len
          BY <4>0, <4>2 DEF session_on_msg
        <5>2. wbuf_flush' \in Nat /\ TLV_HEADER_SIZE <= wbuf_flush' /\ wbuf_flush' <= hdr_len
          BY <3>3, <5>1, Sizes
        <5>3. TypeOK'
          <6>1. hdr_len \in 0..SESSION_BUF_SIZE /\ wbuf_flush' \in 0..SESSION_BUF_SIZE
            BY <3>3, <5>2, Sizes
          <6> QED
            BY <2>4, <2>8, <4>0, <5>1, <6>1 DEF TypeOK
        <5>4. Consumed' = pos
          BY <2>4, <5>1 DEF Consumed
        <5>5. Aligned' /\ Flushing'
          BY <1>1, <2>2, <2>4, <3>2, <3>5, <5>1, <5>2, <5>4, Sizes DEF Aligned, Flushing
        <5>6. NoStall'
          BY <4>0 DEF NoStall
        <5> QED
          BY <1>1, <5>3, <5>5, <5>6 DEF FInv
      <4> QED
        BY <4>1, <4>2
    <3> QED
      BY <2>4, <3>3, <3>4, <3>5
  <2> QED
    BY <2>4, <2>6, <2>7, Sizes
<1> QED
  BY <1>2, <1>3, <1>4

\* The stream is empty at first.
LEMMA InitFInv == Init => FInv
<1> SUFFICES ASSUME Init
             PROVE  FInv
  OBVIOUS
<1>1. TypeOK
  <2>1. 0 \in 0..SESSION_BUF_SIZE
    BY Sizes
  <2>2. {0} \subseteq 0..0 /\ {0, 0, 0} \subseteq {0} /\ 0 <= 0 /\ 0 \in Nat
    OBVIOUS
  <2>3. /\ written = 0 /\ ends = {0} /\ cuts = {0} /\ snd_nxt = 0 /\ rcv_nxt = 0
        /\ taken = 0 /\ wbuf_len = 0 /\ wbuf_flush = 0 /\ wbuf_next = 0
        /\ reading = FALSE
    BY DEF Init
  <2> QED
    BY <2>1, <2>2, <2>3, Zenon DEF TypeOK
<1>2. Segments /\ Messages
  BY DEF Init, Segments, Messages, Follows
<1>3. Aligned /\ Flushing /\ NoStall /\ written \in ends /\ written \in cuts
  BY DEF Init, Aligned, Consumed, Flushing, NoStall
<1> QED
  BY <1>1, <1>2, <1>3 DEF FInv

\* Every step of the sender, of KCP and of the receiver.
LEMMA NextFInv == FInv /\ [Next]_vars => FInv'
<1> SUFFICES ASSUME FInv, [Next]_vars
             PROVE  FInv'
  OBVIOUS
<1>1. CASE kcp_sendmsg
  BY <1>1, SendFInv, Sizes DEF kcp_sendmsg
<1>2. CASE kcp_push
  <2>1. PICK n \in 1..(TLV_MAX_LENGTH - TLV_HEADER_SIZE) :
          SendMessage(TLV_HEADER_SIZE + n)
    BY <1>2 DEF kcp_push
  <2>2. TLV_HEADER_SIZE + n \in TLV_HEADER_SIZE..TLV_MAX_LENGTH
    BY Sizes
  <2> QED
    BY <2>1, <2>2, SendFInv
<1>3. CASE ikcp_flush
  <2>1. /\ UNCHANGED <<written, ends, cuts, rcv_nxt, taken, wbuf_len, wbuf_flush,
                       wbuf_next, reading>>
        /\ snd_nxt' \in cuts /\ snd_nxt < snd_nxt'
    BY <1>3 DEF ikcp_flush, wbuf
  <2>2. snd_nxt \in Nat /\ snd_nxt' \in Nat /\ rcv_nxt \in Nat
    BY <2>1, Positions
  <2>3. TypeOK'
    BY <2>1, <2>2 DEF FInv, TypeOK
  <2>4. Aligned' /\ Flushing' /\ NoStall'
    BY <2>1 DEF FInv, Aligned, Flushing, NoStall, Consumed
  <2> QED
    BY <2>1, <2>3, <2>4, SameStream DEF FInv
<1>4. CASE queue_recv
  <2>1. /\ UNCHANGED <<written, ends, cuts, snd_nxt, taken, wbuf_len, wbuf_flush, wbuf_next>>
        /\ rcv_nxt' \in cuts /\ rcv_nxt < rcv_nxt' /\ rcv_nxt' <= snd_nxt
        /\ reading' = TRUE
    BY <1>4 DEF queue_recv, sender, wbuf
  <2>2. taken \in Nat /\ rcv_nxt' \in Nat /\ rcv_nxt \in Nat
    BY <2>1, Positions
  <2>3. TypeOK'
    BY <2>1, <2>2 DEF FInv, TypeOK
  <2>4. Aligned' /\ Flushing' /\ NoStall'
    BY <2>1 DEF FInv, Aligned, Flushing, NoStall, Consumed
  <2> QED
    BY <2>1, <2>3, <2>4, SameStream DEF FInv
<1>5. CASE ss_process
  BY <1>5, ProcessFInv
<1>6. CASE tcp_flush
  <2>1. /\ UNCHANGED <<written, ends, cuts, snd_nxt, rcv_nxt, taken, wbuf_len, wbuf_next>>
        /\ wbuf_flush < wbuf_next /\ wbuf_flush' \in (wbuf_flush + 1)..wbuf_next
        /\ reading' = (wbuf_flush' = wbuf_next)
    BY <1>6 DEF tcp_flush, sender
  <2>2. /\ wbuf_flush \in Nat /\ wbuf_next \in Nat /\ wbuf_len \in Nat
        /\ wbuf_next <= SESSION_BUF_SIZE /\ SESSION_BUF_SIZE \in Nat
    BY Sizes DEF FInv, TypeOK
  <2>3. wbuf_flush' \in Nat /\ wbuf_flush < wbuf_flush' /\ wbuf_flush' <= wbuf_next
    BY <2>1, <2>2
  <2>4. TypeOK'
    <3>1. wbuf_flush' \in 0..SESSION_BUF_SIZE /\ reading' \in BOOLEAN
      BY <2>1, <2>2, <2>3
    <3> QED
      BY <2>1, <3>1 DEF FInv, TypeOK
  <2>5. Aligned'
    BY <2>1 DEF FInv, Aligned, Consumed
  <2>6. Flushing'
    BY <2>1, <2>2, <2>3, Sizes DEF FInv, Flushing, Consumed
  <2>7. NoStall'
    <3>1. ~reading' => wbuf_flush' # wbuf_next
      BY <2>1
    <3> QED
      BY <2>1, <2>2, <2>3, <3>1 DEF NoStall
  <2> QED
    BY <2>1, <2>4, <2>5, <2>6, <2>7, SameStream DEF FInv
<1>7. CASE UNCHANGED vars
  <2>1. UNCHANGED <<written, ends, cuts, snd_nxt, rcv_nxt, taken, wbuf_len, wbuf_flush,
                    wbuf_next, reading>>
    BY <1>7 DEF vars, sender, wbuf
  <2>2. TypeOK'
    BY <2>1 DEF FInv, TypeOK
  <2>3. Aligned' /\ Flushing' /\ NoStall'
    BY <2>1 DEF FInv, Aligned, Flushing, NoStall, Consumed
  <2> QED
    BY <2>1, <2>2, <2>3, SameStream DEF FInv
<1> QED
  BY <1>1, <1>2, <1>3, <1>4, <1>5, <1>6, <1>7 DEF Next

-----------------------------------------------------------------------------

\* The invariant of the stream holds in every reachable state of ikcp_send,
\* kcp_recv and ss_process.
THEOREM StreamInvariant == Spec => []FInv
BY InitFInv, NextFInv, PTL DEF Spec

\* ss_process reads a header only where kcp_sendmsg or kcp_push has written one.
THEOREM AlignedHolds == Spec => []Aligned
<1>1. FInv => Aligned
  BY DEF FInv
<1> QED
  BY StreamInvariant, <1>1, PTL

\* A session whose ss_process waits for more bytes has emptied rcv_queue: with
\* the reserve in TLV_MAX_LENGTH, kcp_recv has room for every segment.
THEOREM NeverStalled == Spec => []NoStall
<1>1. FInv => NoStall
  BY DEF FInv
<1> QED
  BY StreamInvariant, <1>1, PTL

\* No offset of wbuf ever leaves the buffer.
THEOREM FramingTypeCorrect == Spec => []TypeOK
<1>1. FInv => TypeOK
  BY DEF FInv
<1> QED
  BY StreamInvariant, <1>1, PTL

=============================================================================
