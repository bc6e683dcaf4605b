------------------------------ MODULE Channel ------------------------------
(***************************************************************************)
(* What KCP promises to a session: the segments that were sent arrive once *)
(* and in order, and at most a window of them waits at the receiver.  This *)
(* is how Tunnel uses KCP (tx, snd_una, rcv_nxt and rcv_queue of a         *)
(* session), for one direction; segment i is the i-th that was sent.       *)
(***************************************************************************)
EXTENDS Integers, Sequences

CONSTANT Window      \* the segments that may wait at the receiver

VARIABLES
  sent,              \* how many segments were sent
  acked,             \* how many of them the sender knows to have arrived
  arrived,           \* how many arrived without a gap
  taken              \* the segments that the receiver has taken

vars == <<sent, acked, arrived, taken>>

\* Nothing is under way.
Init ==
  /\ sent \in Nat
  /\ acked = sent
  /\ arrived = sent
  /\ taken = [i \in 1..sent |-> i]

Send ==
  /\ sent' = sent + 1
  /\ UNCHANGED <<acked, arrived, taken>>

\* Segments arrive, in order and within the window, or the sender learns that some
\* have.
Progress ==
  /\ arrived' \in arrived..sent
  /\ arrived' > arrived => arrived' - Len(taken) <= Window
  /\ acked' \in acked..arrived'
  /\ UNCHANGED <<sent, taken>>

Take ==
  /\ Len(taken) < arrived
  /\ taken' = Append(taken, Len(taken) + 1)
  /\ UNCHANGED <<sent, acked, arrived>>

Next == Send \/ Progress \/ Take

Spec == Init /\ [][Next]_vars

=============================================================================
