--------------------------- MODULE MCRaftRestart ----------------------------
(* Instances of the Raft core with restarting processes. *)
EXTENDS RaftRestart, TLC

Symmetry == Permutations(Node)

Anyone == [t \in 1 .. MaxTerm |-> Node]
=============================================================================
