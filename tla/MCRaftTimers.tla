---------------------------- MODULE MCRaftTimers ----------------------------
(***************************************************************************)
(* The instance of the Raft core under the tick loop: a first leader whom  *)
(* clients ask, a second term somebody else opens, a third leader, and a   *)
(* fourth term that would depose it.                                       *)
(***************************************************************************)
EXTENDS RaftTimers

CONSTANTS n1, n2, n3

Succession == <<{n1}, {n2, n3}, {n2}, {n3}>>

RequestsInFirstTerm ==
    \A i \in Node : state[i] = "Leader" /\ Len(log'[i]) > Len(log[i]) => current_term[i] = 1

\* Requests are lost, not the replies to them.
RepliesArrive == \A m \in msgs : Drop(m) => m.kind \in {"RequestVote", "AppendEntries"}

\* The property reads neither history of Raft.
View == <<termVars, roleVars, logVars, msgs, timerVars>>
=============================================================================
