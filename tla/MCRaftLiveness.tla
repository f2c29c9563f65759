--------------------------- MODULE MCRaftLiveness ---------------------------
(***************************************************************************)
(* Instances of the Raft core for its liveness runs.                       *)
(***************************************************************************)
EXTENDS RaftLiveness

CONSTANTS n1, n2, n3

BackToFirst == <<{n1}, {n2}, {n1}>>
OneAfterAnother == <<{n1}, {n2}, {n3}>>

(* The search for a behaviour in which a follower never catches up is         *)
(* narrowed: few messages at a time, heartbeats only from the leader of the   *)
(* last term, and no loss once it is elected.  What the search leaves out     *)
(* makes no behaviour it finds any less one of FairSpec.                      *)

LastLeader(i) == state[i] = "Leader" /\ current_term[i] = MaxTerm

FewInFlight == Cardinality(msgs) <= 2

HeartbeatsOfLastLeader == \A i \in Node : HeartbeatTimeout(i) => LastLeader(i)

NoLossUnderLastLeader ==
    (\E i \in Node : LastLeader(i)) => \A m \in msgs : Drop(m) => Receive(m)
=============================================================================
