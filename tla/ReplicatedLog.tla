---------------------------- MODULE ReplicatedLog ---------------------------
(***************************************************************************)
(* What replication promises: there is one sequence of chosen entries,     *)
(* which only grows at its end, and every node applies it from the start,  *)
(* entry by entry, each at its own pace.                                   *)
(***************************************************************************)
EXTENDS SequencesExt

CONSTANT Node

VARIABLES chosen, applied

Init == chosen = <<>> /\ applied = [i \in Node |-> <<>>]

\* One node learns that the log has grown, or that it may apply more of it.
Learn(i) ==
    /\ IsPrefix(chosen, chosen')
    /\ IsPrefix(applied[i], applied'[i]) /\ IsPrefix(applied'[i], chosen')
    /\ applied' = [applied EXCEPT ![i] = applied'[i]]

Spec == Init /\ [][\E i \in Node : Learn(i)]_<<chosen, applied>>
=============================================================================
