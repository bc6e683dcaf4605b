------------------------------- MODULE MCLink -------------------------------
(* Instances of Link for TLC. *)
EXTENDS Link

Moving == [n \in End |-> 1]

=============================================================================
