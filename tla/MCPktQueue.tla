----------------------------- MODULE MCPktQueue -----------------------------
(* Instances of PktQueue for TLC; the constants are given in the .cfg files. *)
EXTENDS PktQueue

=============================================================================
