--------------------------- MODULE RaftAbstraction --------------------------
(***************************************************************************)
(* What the Raft core is for: it keeps the promise of ReplicatedLog.       *)
(***************************************************************************)
EXTENDS Raft

\* The committed log of a node that is ahead of all others.
Chosen ==
    LET ahead == CHOOSE i \in Node : \A j \in Node : committed_index[j] <= committed_index[i]
    IN  SubSeq(log[ahead], 2, committed_index[ahead] + 1)

RL == INSTANCE ReplicatedLog WITH chosen <- Chosen

\* All nodes apply prefixes of one log that is never rewritten, although each term's
\* leader commits on its own authority and followers truncate their logs.
ReplicatesOneLog == RL!Spec
=============================================================================
