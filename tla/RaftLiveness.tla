---------------------------- MODULE RaftLiveness ----------------------------
(***************************************************************************)
(* What the Raft core must eventually do while one leader stays in office. *)
(*                                                                         *)
(* Fairness: a leader's tick loop fires the heartbeat every six ticks, and *)
(* every message travels on a thread and a connection of its own, so of a  *)
(* kind of message that a node is sent again and again one gets through.   *)
(* Elections and client requests are not fair: they may stop at any time.  *)
(***************************************************************************)
EXTENDS Raft

Delivery(i, j) == \E m \in msgs : m.from = i /\ m.to = j /\ Receive(m)

FairSpec ==
    /\ Spec
    /\ \A i \in Node : WF_vars(HeartbeatTimeout(i))
    /\ \A i, j \in Node : SF_vars(Delivery(i, j))

\* Every log starts with the leader's, and once the log ends with an entry of the
\* leader's term all of it is committed everywhere.
Replicated(i) ==
    \A j \in Node :
        /\ Prefix(log[j], Smaller(Len(log[j]), Len(log[i]))) = log[i]
        /\ Last(log[i]).term = current_term[i] => committed_index[j] = Last(log[i]).index

\* A leader that stays in office brings every follower to its own log and commits
\* it: the retry after a rejected AppendEntries, the heartbeats and the commit rule
\* together make progress whatever the relay loses, delays or reorders.
CatchUp ==
    \A i \in Node : state[i] = "Leader" ~> state[i] # "Leader" \/ Replicated(i)
=============================================================================
