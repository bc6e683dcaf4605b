------------------------------ MODULE Session ------------------------------
(***************************************************************************)
(* One session of the tunnel: the struct session of session.h and the      *)
(* functions of session.c, event_tcp.c, event_kcp.c and event_timer.c that *)
(* read and write it.  A session joins one TCP connection (tcp_state) to   *)
(* one KCP stream (kcp_state).                                             *)
(*                                                                         *)
(* A session is a record, and a C function that updates a session is an    *)
(* operator that takes the record before the call.  A function whose       *)
(* outcome depends on the kernel or on the allocator returns the SET of    *)
(* records the call may leave behind; the others return the one record.    *)
(* The actions of the system, which run these functions from the event     *)
(* loop, are in module Tunnel.                                             *)
(***************************************************************************)
EXTENDS Integers, Sequences

CONSTANTS
  PushLen,           \* bytes one recv() on the TCP socket returns
  SndWnd,            \* kcp.sndwnd, in messages
  KcpFlush,          \* kcp.flush: 0, 1 or 2
  DialTimeout,       \* the timeouts of struct server, in clock ticks
  SessionTimeout,
  SessionKeepalive,
  Linger,
  TimeWait,
  ResetInterval,     \* minimum delay between two RESETs for a session
  AgeCap,            \* ages saturate here, beyond every timeout that is to fire
  TcpFaults,         \* TRUE: TCP sockets may be closed, fail, or refuse a dial
  Oom,               \* TRUE: an allocation in ikcp_send may fail
  MaxKeepalive       \* bound on the KEEPALIVE messages of one session

ASSUME SessionAssumption ==
  /\ PushLen \in Nat \ {0}
  /\ SndWnd \in Nat \ {0}
  /\ KcpFlush \in 0..2
  /\ {DialTimeout, SessionTimeout, SessionKeepalive, Linger, TimeWait,
      ResetInterval, AgeCap, MaxKeepalive} \subseteq Nat
  /\ {TcpFaults, Oom} \subseteq BOOLEAN

TLV_HEADER_SIZE == 4

STATE_INIT == "INIT"
STATE_CONNECT == "CONNECT"
STATE_CONNECTED == "CONNECTED"
STATE_LINGER == "LINGER"
STATE_TIME_WAIT == "TIME_WAIT"

State == {STATE_INIT, STATE_CONNECT, STATE_CONNECTED, STATE_LINGER,
          STATE_TIME_WAIT}

READ == "READ"
WRITE == "WRITE"

(***************************************************************************)
(* The messages of the stream.  blk numbers the blocks of PushLen bytes    *)
(* that were read from the TCP connection: a PUSH carries block blk, an    *)
(* EOF was sent when blk blocks had been read.                             *)
(***************************************************************************)
SMSG_DIAL == [msg |-> "DIAL", blk |-> 0]
SMSG_KEEPALIVE == [msg |-> "KEEPALIVE", blk |-> 0]
SMSG_PUSH(b) == [msg |-> "PUSH", blk |-> b]
SMSG_EOF(b) == [msg |-> "EOF", blk |-> b]

Message == [msg : {"DIAL", "PUSH", "EOF", "KEEPALIVE"}, blk : Nat]

\* tlv_header.len, the length on the wire.
TlvLen(m) == TLV_HEADER_SIZE + (IF m.msg = "PUSH" THEN PushLen ELSE 0)

\* The i-th byte of the payload of m, as a position in the sender's stream.
Byte(m, i) == (m.blk - 1) * PushLen + i

TSTAMP_NIL == -1
Age == -1..AgeCap

(***************************************************************************)
(* struct session.  Three fields stand for the state of its ikcpcb: tx are *)
(* the messages given to ikcp_send, the first snd_una of them acknowledged *)
(* by the peer; rcv_nxt messages of the peer have been put in order, the   *)
(* ones in rcv_queue have not been taken by ikcp_recv.  ack_due means that *)
(* ikcp_flush has an acknowledgement to send.  tcp_rx counts the blocks    *)
(* read from the TCP socket, tcp_tx are the bytes written to it.  reading  *)
(* is TRUE while the event loop is inside the while loop of                *)
(* session_read_cb.  eof is -1 until an EOF is taken from the stream, then *)
(* its blk.  The four time stamps are ages in ticks, TSTAMP_NIL if unset.  *)
(***************************************************************************)
SessionRec ==
  [tcp_state : State, kcp_state : State, is_accepted : BOOLEAN,
   kcp : BOOLEAN,                    \* kcp, rbuf and wbuf are allocated
   fd : BOOLEAN,                     \* w_socket.fd # -1
   events : SUBSET {READ, WRITE},    \* what the active w_socket waits for
   w_flush : BOOLEAN,                \* the idle watcher is active
   wbuf : Seq(Message), wbuf_flush : Nat, wbuf_next : Nat,
   tx : Seq(Message), snd_una : Nat, rcv_nxt : Nat,
   rcv_queue : Seq(Message), ack_due : BOOLEAN,
   tcp_rx : Nat, tcp_tx : Seq(Int), eof : Int, reading : BOOLEAN,
   created : Age, last_reset : Age, last_send : Age, last_recv : Age]

session_new(accepted) ==
  [tcp_state |-> STATE_INIT, kcp_state |-> STATE_INIT,
   is_accepted |-> accepted, kcp |-> TRUE, fd |-> FALSE, events |-> {},
   w_flush |-> FALSE, wbuf |-> <<>>, wbuf_flush |-> 0, wbuf_next |-> 0,
   tx |-> <<>>, snd_una |-> 0, rcv_nxt |-> 0, rcv_queue |-> <<>>,
   ack_due |-> FALSE, tcp_rx |-> 0, tcp_tx |-> <<>>, eof |-> -1,
   reading |-> FALSE, created |-> 0, last_reset |-> TSTAMP_NIL,
   last_send |-> TSTAMP_NIL, last_recv |-> TSTAMP_NIL]

ikcp_waitsnd(s) == Len(s.tx) - s.snd_una

kcp_cansend(s) == s.kcp /\ ikcp_waitsnd(s) < SndWnd

-----------------------------------------------------------------------------
(* session.c and event_kcp.c: starting and stopping the two halves *)

session_tcp_start(s) == [s EXCEPT !.fd = TRUE, !.events = {READ, WRITE}]

session_tcp_stop(s) ==
  [s EXCEPT !.tcp_state = STATE_TIME_WAIT, !.fd = FALSE, !.events = {}]

session_kcp_stop(s) ==
  [s EXCEPT !.kcp_state = STATE_TIME_WAIT, !.kcp = FALSE, !.wbuf = <<>>,
            !.tx = <<>>, !.snd_una = 0, !.rcv_nxt = 0, !.rcv_queue = <<>>,
            !.ack_due = FALSE]

session_kcp_flush(s) == [s EXCEPT !.w_flush = TRUE]

\* ikcp_send accepted the message.
Sent(s, m) == [s EXCEPT !.tx = Append(@, m), !.last_send = 0]

\* kcp_sendmsg and kcp_push: the session afterwards and whether it was sent.
kcp_sendmsg(s, m) ==
  {[ok |-> TRUE, ss |-> Sent(s, m)]}
    \cup (IF Oom THEN {[ok |-> FALSE, ss |-> s]} ELSE {})

\* Mutants: the session is released without an EOF; a failed EOF is ignored.
session_kcp_close_NoEof(s) ==
  IF s.kcp_state \notin {STATE_CONNECT, STATE_CONNECTED} THEN {s}
  ELSE {session_kcp_stop(s)}

\* An established session says EOF and lingers; otherwise nothing happens.
session_kcp_close(s) ==
  IF s.kcp_state \notin {STATE_CONNECT, STATE_CONNECTED}
  THEN {s}
  ELSE { IF ~r.ok THEN session_kcp_stop(r.ss)
         ELSE LET l == [r.ss EXCEPT !.kcp_state = STATE_LINGER]
              IN  IF KcpFlush >= 1 THEN session_kcp_flush(l) ELSE l :
         r \in kcp_sendmsg(s, SMSG_EOF(s.tcp_rx)) }

\* The pair of calls that ends a session whose TCP side is finished.
Shutdown(s) == session_kcp_close(session_tcp_stop(s))

-----------------------------------------------------------------------------
(* event_tcp.c *)

\* Mutant: off by one, the last byte of a message is forgotten.
HasData_OffByOne(s) == s.wbuf_flush + 1 < s.wbuf_next

HasData(s) == s.wbuf_flush < s.wbuf_next

\* Mutants: the pending data is not waited for; the reader is never resumed.
tcp_notify_NoWrite(s) ==
  IF s.tcp_state \notin {STATE_CONNECTED, STATE_LINGER} THEN s
  ELSE IF s.tcp_state = STATE_LINGER /\ ~HasData(s) THEN session_tcp_stop(s)
  ELSE [s EXCEPT !.events = IF kcp_cansend(s) THEN {READ} ELSE {}]

\* Recompute what the socket waits for; finish a lingering connection.
tcp_notify(s) ==
  IF s.tcp_state \notin {STATE_CONNECTED, STATE_LINGER} THEN s
  ELSE IF s.tcp_state = STATE_LINGER /\ ~HasData(s) THEN session_tcp_stop(s)
  ELSE [s EXCEPT !.events =
          (IF kcp_cansend(s) THEN {READ} ELSE {})
            \cup (IF s.tcp_state = STATE_LINGER \/ HasData(s)
                  THEN {WRITE} ELSE {})]

\* k bytes of the message in wbuf reach the TCP socket.
Flushed(s, k) ==
  [s EXCEPT !.wbuf_flush = @ + k,
            !.tcp_tx = @ \o [i \in 1..k |->
               Byte(Head(s.wbuf), s.wbuf_flush - TLV_HEADER_SIZE + i)]]

\* Mutant: a failed send() stops the TCP half only.
tcp_flush_HalfStop(s) ==
  LET len == s.wbuf_next - s.wbuf_flush
  IN  IF s.tcp_state \notin {STATE_CONNECTED, STATE_LINGER} \/ len = 0
      THEN {s}
      ELSE {Flushed(s, k) : k \in 0..len} \cup {session_tcp_stop(s)}

\* The loop of tcp_send: send() takes k bytes in all and then would block or
\* fail, unless there is nothing (more) to send.
tcp_flush(s) ==
  LET len == s.wbuf_next - s.wbuf_flush
  IN  IF s.tcp_state \notin {STATE_CONNECTED, STATE_LINGER} \/ len = 0
      THEN {s}
      ELSE {Flushed(s, k) : k \in 0..len}
             \cup (IF ~TcpFaults THEN {}
                   ELSE UNION {Shutdown(Flushed(s, k)) : k \in 0..(len - 1)})

\* k blocks are read from the TCP socket and pushed.
Pushed(s, k) ==
  LET p == [s EXCEPT !.tx = @ \o [i \in 1..k |-> SMSG_PUSH(s.tcp_rx + i)],
                     !.tcp_rx = @ + k,
                     !.last_send = IF k > 0 THEN 0 ELSE @]
  IN  IF k > 0 /\ KcpFlush >= 1 THEN session_kcp_flush(p) ELSE p

\* The loop of tcp_recv and session_kcp_send, when `avail' blocks can be read.
\* It ends because the send window is full, because recv() would block,
\* because the TCP peer closed (or failed), or because a block that was read
\* could not be pushed.
tcp_recv_all(s, avail) ==
  LET room == SndWnd - ikcp_waitsnd(s)
      Closed(k) == TcpFaults /\ k < room
      Lost(k) == Oom /\ k < room /\ k < avail
  IN  IF s.tcp_state # STATE_CONNECTED THEN {s}
      ELSE IF s.kcp_state \notin {STATE_CONNECT, STATE_CONNECTED} THEN Shutdown(s)
      ELSE UNION { {Pushed(s, k)}
                     \cup (IF Closed(k) THEN Shutdown(Pushed(s, k)) ELSE {})
                     \cup (IF Lost(k)
                           THEN Shutdown([Pushed(s, k) EXCEPT !.tcp_rx = @ + 1])
                           ELSE {}) :
                   k \in {j \in 0..avail : j <= room \/ j = 0} }

\* The outcome of a connect() in progress.
connected_cb(s) ==
  {[s EXCEPT !.tcp_state = STATE_CONNECTED]}
    \cup (IF TcpFaults THEN Shutdown(s) ELSE {})

-----------------------------------------------------------------------------
(* session.c: taking messages from the stream *)

\* Mutant: wbuf_next is not reset.
consume_wbuf_StaleNext(s) == [s EXCEPT !.wbuf = Tail(@), !.wbuf_flush = 0]

consume_wbuf(s) ==
  [s EXCEPT !.wbuf = Tail(@), !.wbuf_flush = 0, !.wbuf_next = 0]

kcp_recv(s) ==
  IF s.rcv_queue = <<>> THEN s
  ELSE [s EXCEPT !.wbuf = @ \o s.rcv_queue, !.rcv_queue = <<>>,
                 !.last_recv = 0]

\* connect() fails, is in progress, or succeeds at once.
forward_dial(s) ==
  {[ok |-> TRUE, ss |-> session_tcp_start([s EXCEPT !.tcp_state = t])] :
     t \in {STATE_CONNECT, STATE_CONNECTED}}
    \cup (IF TcpFaults THEN {[ok |-> FALSE, ss |-> s]} ELSE {})

session_on_msg(s, m) ==
  CASE m.msg = "DIAL" /\ s.tcp_state = STATE_INIT -> forward_dial(s)
    [] m.msg = "DIAL" /\ s.tcp_state # STATE_INIT -> {[ok |-> FALSE, ss |-> s]}
    [] m.msg = "PUSH" ->
         {[ok |-> TRUE, ss |-> [s EXCEPT !.wbuf_flush = TLV_HEADER_SIZE]]}
    [] m.msg = "EOF" ->
         {[ok |-> TRUE,
           ss |-> [s EXCEPT !.kcp_state = STATE_LINGER,
                            !.tcp_state = STATE_LINGER,
                            !.wbuf_flush = s.wbuf_next,
                            !.eof = m.blk]]}
    [] m.msg = "KEEPALIVE" /\ s.is_accepted -> kcp_sendmsg(s, SMSG_KEEPALIVE)
    [] m.msg = "KEEPALIVE" /\ ~s.is_accepted -> {[ok |-> TRUE, ss |-> s]}

\* Mutant: the test for a flush in progress is missing.
ss_process_NoWait(s) ==
  LET r == kcp_recv(IF s.wbuf_flush > 0 THEN consume_wbuf(s) ELSE s)
  IN  IF r.wbuf = <<>> THEN {[ret |-> 1, ss |-> r]}
      ELSE LET m == Head(r.wbuf)
               h == session_on_msg([r EXCEPT !.wbuf_next = TlvLen(m)], m)
           IN  UNION { IF ~o.ok THEN {[ret |-> -1, ss |-> o.ss]}
                       ELSE IF o.ss.wbuf_flush > 0
                       THEN {[ret |-> 0, ss |-> f] : f \in tcp_flush(o.ss)}
                       ELSE {[ret |-> 0, ss |-> consume_wbuf(o.ss)]} : o \in h }

\* One call of ss_process: ret is 0 (go on), 1 (wait) or -1 (error).
ss_process(s) ==
  IF HasData(s) THEN {[ret |-> 1, ss |-> s]}
  ELSE LET r == kcp_recv(IF s.wbuf_flush > 0 THEN consume_wbuf(s) ELSE s)
       IN  IF r.wbuf = <<>> THEN {[ret |-> 1, ss |-> r]}
           ELSE LET m == Head(r.wbuf)
                    h == session_on_msg([r EXCEPT !.wbuf_next = TlvLen(m)], m)
                IN  UNION { IF ~o.ok THEN {[ret |-> -1, ss |-> o.ss]}
                            ELSE IF o.ss.wbuf_flush > 0
                            THEN {[ret |-> 0, ss |-> f] : f \in tcp_flush(o.ss)}
                            ELSE {[ret |-> 0, ss |-> consume_wbuf(o.ss)]} :
                            o \in h }

\* session_read_cb up to the first test of its loop condition ...
session_read_cb(s) ==
  IF s.kcp_state = STATE_CONNECTED THEN [s EXCEPT !.reading = TRUE]
  ELSE tcp_notify(s)

\* ... and one pass of the loop, with what follows the loop if it ends.
ReadLoopPass(s) ==
  UNION { IF r.ret < 0 THEN Shutdown([r.ss EXCEPT !.reading = FALSE])
          ELSE IF r.ret = 0 /\ r.ss.kcp_state = STATE_CONNECTED THEN {r.ss}
          ELSE {tcp_notify([r.ss EXCEPT !.reading = FALSE])} :
          r \in ss_process(s) }

-----------------------------------------------------------------------------
(* The callbacks of the event loop that concern one session *)

\* The WRITE half of tcp_socket_cb, and what follows it.
SocketWritable(s) ==
  { IF f.tcp_state = STATE_CONNECTED /\ f.wbuf_flush = f.wbuf_next
    THEN session_read_cb(f) ELSE tcp_notify(f) : f \in tcp_flush(s) }

tcp_socket_cb(s, revents, avail) ==
  LET c == IF s.tcp_state = STATE_CONNECT THEN connected_cb(s) ELSE {s}
      r == IF READ \in revents THEN UNION {tcp_recv_all(x, avail) : x \in c}
           ELSE c
  IN  IF WRITE \in revents THEN UNION {SocketWritable(x) : x \in r}
      ELSE {tcp_notify(x) : x \in r}

ss_flush_cb(s) ==
  LET f == [s EXCEPT !.w_flush = FALSE]
  IN  IF s.kcp_state \in {STATE_CONNECT, STATE_CONNECTED, STATE_LINGER}
      THEN tcp_notify(f) ELSE f

\* ikcp_update only changes what ikcp_input and ikcp_send account for.
kcp_update(s) ==
  IF s.kcp_state \in {STATE_CONNECT, STATE_CONNECTED, STATE_LINGER}
  THEN tcp_notify(s) ELSE s

NumKeepalive(s) == Len(SelectSeq(s.tx, LAMBDA m : m = SMSG_KEEPALIVE))

Since(a, s) == IF a # TSTAMP_NIL THEN a ELSE s.created

\* Mutant: a stopped session is deleted at once.
TimeWaitOver_AtOnce(s) == s.kcp_state = STATE_TIME_WAIT

\* timeout_filt asks for the session to be deleted.
TimeWaitOver(s) ==
  s.kcp_state = STATE_TIME_WAIT /\ Since(s.last_reset, s) > TimeWait

\* Mutants: a silent session only has its KCP half stopped; a session that
\* waits for its EOF to be acknowledged does so forever.
timeout_filt_KcpOnly(s) ==
  IF s.kcp_state = STATE_CONNECTED /\ Since(s.last_recv, s) > SessionTimeout
  THEN {session_kcp_stop(s)} ELSE {s}

timeout_filt_NoLinger(s) ==
  CASE s.kcp_state \in {STATE_INIT, STATE_CONNECT} ->
         IF s.created > DialTimeout THEN Shutdown(s) ELSE {s}
    [] s.kcp_state = STATE_CONNECTED ->
         IF Since(s.last_recv, s) > SessionTimeout
         THEN {session_kcp_stop(session_tcp_stop(s))} ELSE {s}
    [] s.kcp_state \in {STATE_LINGER, STATE_TIME_WAIT} -> {s}

\* timeout_filt, when it keeps the session.
timeout_filt(s) ==
  CASE s.kcp_state \in {STATE_INIT, STATE_CONNECT} ->
         IF s.created > DialTimeout THEN Shutdown(s) ELSE {s}
    [] s.kcp_state = STATE_CONNECTED ->
         IF Since(s.last_recv, s) > SessionTimeout
         THEN {session_kcp_stop(session_tcp_stop(s))}
         ELSE IF /\ ~s.is_accepted
                 /\ Since(s.last_recv, s) > SessionKeepalive
                 /\ NumKeepalive(s) < MaxKeepalive
         THEN {r.ss : r \in kcp_sendmsg(s, SMSG_KEEPALIVE)}
         ELSE {s}
    [] s.kcp_state = STATE_LINGER ->
         IF Since(s.last_send, s) > Linger THEN {session_kcp_stop(s)} ELSE {s}
    [] s.kcp_state = STATE_TIME_WAIT -> {s}

-----------------------------------------------------------------------------
(* What holds of a session between two steps *)

(***************************************************************************)
(* The KCP block and the buffers are released exactly in TIME_WAIT of the  *)
(* KCP half, the socket is open exactly while the TCP half is connecting   *)
(* or connected, the TCP half is stopped exactly when the KCP half lingers *)
(* or is released, and LINGER of the TCP half is never left behind by a    *)
(* callback.                                                               *)
(***************************************************************************)
HalvesAgree(s) ==
  /\ s.kcp <=> s.kcp_state # STATE_TIME_WAIT
  /\ s.fd <=> s.tcp_state \in {STATE_CONNECT, STATE_CONNECTED}
  /\ s.tcp_state = STATE_TIME_WAIT
       <=> s.kcp_state \in {STATE_LINGER, STATE_TIME_WAIT}
  /\ s.tcp_state # STATE_LINGER
  /\ s.kcp_state # STATE_INIT
  /\ s.events # {} => s.fd
  /\ s.tcp_state = STATE_CONNECT => s.events = {READ, WRITE}
  /\ s.reading => s.kcp_state = STATE_CONNECTED

\* The flush position is inside the message at the head of wbuf as long as the
\* stream is open.
FlushInMessage(s) ==
  /\ s.wbuf_flush <= s.wbuf_next
  /\ s.kcp_state \in {STATE_CONNECT, STATE_CONNECTED} /\ s.wbuf_next > 0 =>
       /\ s.wbuf # <<>>
       /\ s.wbuf_next = TlvLen(Head(s.wbuf))
       /\ s.wbuf_flush >= TLV_HEADER_SIZE

\* Nothing is left to process unless a message is still being flushed.
Drained(s) ==
  s.kcp_state = STATE_CONNECTED /\ ~HasData(s) =>
    /\ s.rcv_queue = <<>>
    /\ Len(s.wbuf) = IF s.wbuf_flush > 0 THEN 1 ELSE 0

\* A connected socket is watched for WRITE if bytes wait for it and for READ if
\* the send window has room, and no message that arrived is forgotten.
Awake(s) ==
  /\ s.tcp_state = STATE_CONNECTED /\ HasData(s) => WRITE \in s.events
  /\ s.tcp_state = STATE_CONNECTED /\ kcp_cansend(s) => READ \in s.events
  /\ Drained(s)

=============================================================================
