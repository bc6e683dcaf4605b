------------------------------ MODULE MCNonce ------------------------------
(* Instances of Nonce for TLC. *)
EXTENDS Nonce

\* Two bits for each nonce, some of them shared.
Neighbours == [n \in 0..4 |-> {n, (n + 1) % 5}]

=============================================================================
