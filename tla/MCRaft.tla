------------------------------- MODULE MCRaft -------------------------------
(***************************************************************************)
(* Instances of the Raft core for its safety runs.                         *)
(*                                                                         *)
(* With RelayActions = {"Duplicate"} the relay duplicates every message:   *)
(* sent messages may be handled late, repeatedly, in any order or never,   *)
(* which includes every loss and every reordering.                         *)
(***************************************************************************)
EXTENDS RaftAbstraction, TLC

CONSTANTS n1, n2, n3

Symmetry == Permutations(Node)

\* Which nodes may stand for election, term by term.
Anyone == [t \in 1 .. MaxTerm |-> Node]
FirstThenSecond == <<{n1}, {n2}>>
Alternating == <<{n1}, {n2}, {n1}, {n2}>>

\* A reply that can change nothing any more: terms only grow, and no node takes
\* up a role of a term again that it left in that term.  A candidate may still
\* win its term, and then a refusal of that term counts.
Settled(m) ==
    /\ m.kind \in {"VoteReply", "AppendReply"}
    /\ m.term <= current_term[m.to]
    /\ ~CountsAsVote(m) /\ ~ReplyInTerm(m)
    /\ ~(m.kind = "AppendReply" /\ m.term = current_term[m.to] /\ state[m.to] = "Candidate")

\* States that differ only in settled replies behave alike.
LiveView == <<termVars, roleVars, logVars, {m \in msgs : ~Settled(m)}, history>>

\* A message of an older term than its receiver's is delivered no more; in the
\* four-term run clients ask only the leaders of the first two terms.
Old(m) == m.term < current_term[m.to]

NoOldDelivery ==
    \A m \in msgs : Old(m) => ~RejectStaleVote(m) /\ ~RejectStaleEntries(m)

EarlyRequests ==
    \A i \in Node : state[i] = "Leader" /\ Len(log'[i]) > Len(log[i]) => current_term[i] <= 2

RecentView == <<termVars, roleVars, logVars, {m \in msgs : ~Old(m) /\ ~Settled(m)}, history>>

\* For the run with diverged logs: a leader whose entries are under way sends
\* no heartbeat on top of them, and few messages that matter are in flight.
QuietHeartbeats ==
    \A i \in Node :
        HeartbeatTimeout(i) => \A m \in msgs : m.from = i /\ m.kind = "AppendEntries" => Old(m)

FewThatMatter == Cardinality({m \in msgs : ~Old(m) /\ ~Settled(m)}) <= 3
=============================================================================
