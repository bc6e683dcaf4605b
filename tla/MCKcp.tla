------------------------------- MODULE MCKcp -------------------------------
(* An instance of Kcp for TLC. *)
EXTENDS Kcp

OneWay == [n \in Node |-> IF n = "client" THEN 3 ELSE 0]
DataReordered == [n \in Node |-> IF n = "server" THEN 2 ELSE 1]
BeforeWrap == {Wrap - 2}

=============================================================================
