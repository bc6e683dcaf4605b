------------------------------ MODULE Framing ------------------------------
(***************************************************************************)
(* How the messages of a session travel in the segments of KCP, which runs *)
(* in stream mode: ikcp_send packs messages of any length into segments,   *)
(* filling up the last one that was not sent yet, and ss_process finds the *)
(* messages again in wbuf, which takes whole segments only.                *)
(*                                                                         *)
(* One direction of a session that goes on for ever: closing it is the     *)
(* subject of Session, and so is the send window.  KCP is taken as what it *)
(* promises, segments in order.  A byte is its position in the stream, so  *)
(* that segments and messages are the positions where they end.            *)
(***************************************************************************)
EXTENDS Integers

CONSTANTS
  SESSION_BUF_SIZE,
  MAX_PACKET_SIZE,
  TLV_HEADER_SIZE,
  Mss,               \* ikcpcb.mss: the length of a full segment
  MaxBytes           \* bound on the length of the stream

\* Mutant: no space for one more segment is reserved.
TLV_MAX_LENGTH_NoReserve == SESSION_BUF_SIZE

\* "reserve space for one more kcp segment"
TLV_MAX_LENGTH == SESSION_BUF_SIZE - MAX_PACKET_SIZE

ASSUME FramingAssumption ==
  /\ {SESSION_BUF_SIZE, MAX_PACKET_SIZE, TLV_HEADER_SIZE, Mss} \subseteq Nat \ {0}
  /\ MaxBytes \in Nat
  /\ Mss <= MAX_PACKET_SIZE
  /\ TLV_HEADER_SIZE < SESSION_BUF_SIZE - MAX_PACKET_SIZE

VARIABLES
  written,           \* the length of the stream so far
  ends,              \* where a message ends, and 0
  cuts,              \* where a segment ends, and 0
  snd_nxt,           \* the segments up to here have left snd_queue
  rcv_nxt,           \* the segments up to here were received in order
  taken,             \* and those up to here were taken out of rcv_queue
  wbuf_len,
  wbuf_flush,
  wbuf_next,
  reading            \* session_read_cb is in its loop

sender == <<written, ends, cuts, snd_nxt>>
wbuf == <<taken, wbuf_len, wbuf_flush, wbuf_next>>
vars == <<sender, rcv_nxt, wbuf, reading>>

\* The position of the first byte of wbuf.
Consumed == taken - wbuf_len

\* b is the element of S that follows a.
Follows(b, a, S) == b \in S /\ a < b /\ \A c \in S : a < c => b <= c

\* b is the greatest element of S up to a.
Last(b, a, S) == b \in S /\ b <= a /\ \A c \in S : c <= a => c <= b

Init ==
  /\ written = 0 /\ ends = {0} /\ cuts = {0} /\ snd_nxt = 0
  /\ rcv_nxt = 0
  /\ taken = 0 /\ wbuf_len = 0 /\ wbuf_flush = 0 /\ wbuf_next = 0
  /\ reading = FALSE

-----------------------------------------------------------------------------
(* The sender: ikcp.c and event_kcp.c *)

\* The ends of full segments from position `start' on, and that of the last one.
Fragments(start, end) ==
  {end} \cup ({start + k * Mss : k \in 0..(end - start)} \cap (0..end))

\* ikcp_send: when snd_queue is not empty, its last segment is filled up first.
ikcp_send(len) ==
  LET end == written + len
  IN  \E start \in cuts :
        /\ Last(start, IF snd_nxt < written THEN written - 1 ELSE written, cuts)
        /\ cuts' = {c \in cuts : c <= start} \cup Fragments(start, end)
        /\ written' = end

SendMessage(len) ==
  /\ written + len <= MaxBytes
  /\ ikcp_send(len)
  /\ ends' = ends \cup {written + len}
  /\ UNCHANGED <<snd_nxt, rcv_nxt, wbuf, reading>>

\* A message without a body: DIAL or KEEPALIVE.
kcp_sendmsg == SendMessage(TLV_HEADER_SIZE)

\* What tcp_recv has read: at least one byte, and no more than it has room for.
kcp_push ==
  \E n \in 1..(TLV_MAX_LENGTH - TLV_HEADER_SIZE) :
    SendMessage(TLV_HEADER_SIZE + n)

\* Mutant: the last segment is held back.
ikcp_flush_HoldLast ==
  /\ snd_nxt' \in {c \in cuts : c > snd_nxt /\ c < written}
  /\ UNCHANGED <<written, ends, cuts, rcv_nxt, wbuf, reading>>

\* ikcp_flush: as many segments as the windows admit leave snd_queue.
ikcp_flush ==
  /\ snd_nxt' \in {c \in cuts : c > snd_nxt}
  /\ UNCHANGED <<written, ends, cuts, rcv_nxt, wbuf, reading>>

-----------------------------------------------------------------------------
(* The receiver: session.c, event_kcp.c and event_tcp.c *)

\* queue_recv: segments arrive and session_read_cb is called.
queue_recv ==
  /\ ~reading
  /\ rcv_nxt' \in {c \in cuts : rcv_nxt < c /\ c <= snd_nxt}
  /\ reading' = TRUE
  /\ UNCHANGED <<sender, wbuf>>

\* kcp_recv: takes whole segments, as long as the next one fits behind the len
\* bytes in wbuf.
kcp_recv(len) ==
  LET room == taken + (SESSION_BUF_SIZE - len)
  IN  /\ taken' \in cuts
      /\ Last(taken', IF room < rcv_nxt THEN room ELSE rcv_nxt, cuts)

\* The lengths that tlv_header_read may find at a position: the length of the
\* message that begins there, or anything if it is in the middle of one.
tlv_header_read(pos) ==
  {n \in TLV_HEADER_SIZE..MaxBytes : pos \in ends => Follows(pos + n, pos, ends)}

\* Mutant: the header is not counted.
consume_wbuf_BodyOnly(len, n) == IF n = 0 THEN len ELSE len - (n - TLV_HEADER_SIZE)

\* consume_wbuf: what is left when n of len bytes are removed.
consume_wbuf(len, n) == len - n

\* session_on_msg, and what ss_process does after it, with len bytes in wbuf: a
\* message without a body is consumed; the body of a PUSH is sent as far as the
\* socket takes it.
session_on_msg(len, hdr_len) ==
  \/ /\ hdr_len = TLV_HEADER_SIZE
     /\ wbuf_len' = consume_wbuf(len, hdr_len)
     /\ wbuf_flush' = 0 /\ wbuf_next' = 0
  \/ /\ hdr_len # TLV_HEADER_SIZE
     /\ wbuf_len' = len
     /\ wbuf_flush' \in TLV_HEADER_SIZE..hdr_len
     /\ wbuf_next' = hdr_len

\* The part of ss_process after kcp_recv, with len bytes in wbuf.  The check
\* that hdr.len is both shorter than a header and too long never fails.
NextMessage(len) ==
  \/ /\ len < TLV_HEADER_SIZE
     /\ wbuf_len' = len /\ wbuf_flush' = 0 /\ wbuf_next' = 0
     /\ reading' = FALSE
  \/ /\ len >= TLV_HEADER_SIZE
     /\ \E hdr_len \in tlv_header_read(taken' - len) :
          \/ /\ len < hdr_len
             /\ wbuf_len' = len /\ wbuf_flush' = 0 /\ wbuf_next' = 0
             /\ reading' = FALSE
          \/ /\ len >= hdr_len
             /\ session_on_msg(len, hdr_len)
             /\ reading' = TRUE

\* One pass of the loop of session_read_cb.
ss_process ==
  /\ reading
  /\ \/ /\ wbuf_flush < wbuf_next
        /\ reading' = FALSE
        /\ UNCHANGED wbuf
     \/ /\ wbuf_flush >= wbuf_next
        /\ LET left == consume_wbuf(wbuf_len, wbuf_flush)
           IN  /\ kcp_recv(left)
               /\ NextMessage(left + (taken' - taken))
  /\ UNCHANGED <<sender, rcv_nxt>>

\* tcp_socket_cb: the socket takes some of the body; after the last byte of it
\* session_read_cb is called.
tcp_flush ==
  /\ ~reading /\ wbuf_flush < wbuf_next
  /\ wbuf_flush' \in (wbuf_flush + 1)..wbuf_next
  /\ reading' = (wbuf_flush' = wbuf_next)
  /\ UNCHANGED <<sender, rcv_nxt, taken, wbuf_len, wbuf_next>>

-----------------------------------------------------------------------------

Next ==
  \/ kcp_sendmsg \/ kcp_push \/ ikcp_flush
  \/ queue_recv \/ ss_process \/ tcp_flush

Spec == Init /\ [][Next]_vars

\* KCP sends and delivers what it was given, the loop of session_read_cb runs to
\* its end, and the reader of the TCP connection goes on reading.
Fairness ==
  /\ WF_vars(ikcp_flush) /\ WF_vars(queue_recv)
  /\ WF_vars(ss_process) /\ WF_vars(tcp_flush)

FairSpec == Spec /\ Fairness

-----------------------------------------------------------------------------

\* Every variable keeps its type, and the positions their order.
TypeOK ==
  /\ written \in Nat
  /\ ends \subseteq 0..written /\ cuts \subseteq 0..written
  /\ {snd_nxt, rcv_nxt, taken} \subseteq cuts
  /\ taken <= rcv_nxt /\ rcv_nxt <= snd_nxt
  /\ wbuf_len \in 0..SESSION_BUF_SIZE
  /\ wbuf_flush \in 0..SESSION_BUF_SIZE /\ wbuf_next \in 0..SESSION_BUF_SIZE
  /\ reading \in BOOLEAN

\* wbuf begins where a message begins, so that the header that ss_process reads
\* is one, wherever the segments were cut.
Aligned == Consumed \in ends

\* A session that waits for more bytes has taken all that KCP has for it: the
\* space that TLV_MAX_LENGTH reserves is enough for the next segment.  If it was
\* not, ikcp_recv would fail forever and the session would never go on.
NoStall == ~reading /\ wbuf_flush >= wbuf_next => taken = rcv_nxt

\* Every byte that is sent reaches the socket at the other end, or is the
\* header of a message that was taken: since the stream is bounded, this says
\* that the receiver never stops before the end of it.
AllConsumed == []<>(Consumed + wbuf_flush = written)

=============================================================================
