------------------------------ MODULE MCTunnel ------------------------------
(* Instances of Tunnel for TLC. *)
EXTENDS Tunnel

\* The blocks that each TCP peer writes.
NoData == [n \in Node |-> 0]
OneUp == [n \in Node |-> IF n = Client THEN 1 ELSE 0]
TwoUpOneDown == [n \in Node |-> IF n = Client THEN 2 ELSE 1]

=============================================================================
