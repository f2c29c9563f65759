----------------------------- MODULE RaftTimers -----------------------------
(***************************************************************************)
(* The tick loop of main.rs and the two tick counters of EngineState, over *)
(* the handlers of Raft, whose timeouts fire here only when their counter  *)
(* has reached its limit.                                                  *)
(*                                                                         *)
(* Time is counted in rounds of 50 ms.  In a round every node ticks once,  *)
(* and a message is handled or lost in the round it is sent in, before or  *)
(* after the tick of its receiver.  A process that starts later than       *)
(* another has a larger first limit.                                       *)
(***************************************************************************)
EXTENDS Raft

CONSTANTS
    HeartbeatInterval,  \* 6 in main
    MinTimeout,         \* 30 in EngineState: limits are drawn from
    MaxTimeout,         \* MinTimeout .. MaxTimeout, 149 in EngineState
    MaxLosses           \* how many AppendEntries in a row a node may miss

\* A node that misses MaxLosses heartbeats still hears the next one in time,
\* whichever side of its own tick each of them falls on.  With the numbers of
\* main.rs it holds up to MaxLosses = 3.
ASSUME TimerAssumption ==
    /\ HeartbeatInterval \in Nat \ {0} /\ MaxLosses \in Nat
    /\ MinTimeout \in Nat /\ MaxTimeout \in Nat /\ MinTimeout <= MaxTimeout
    /\ HeartbeatInterval * (MaxLosses + 1) + 1 < MinTimeout

VARIABLES
    election_ticks, election_limit, heartbeat_ticks,    \* EngineState
    ticked,     \* the nodes that have ticked in this round
    missed      \* history: AppendEntries lost since a node last heard one, up to MaxLosses + 1

engineVars == <<election_ticks, election_limit, heartbeat_ticks>>
timerVars == <<engineVars, ticked, missed>>
tvars == <<vars, timerVars>>

Limits == MinTimeout .. MaxTimeout

TInit ==
    /\ Init
    /\ election_ticks = [i \in Node |-> 0]
    /\ election_limit \in [Node -> Limits]
    /\ heartbeat_ticks = [i \in Node |-> 0]
    /\ ticked = {}
    /\ missed = [i \in Node |-> 0]

ResetElectionTimer(i) ==
    /\ election_ticks' = [election_ticks EXCEPT ![i] = 0]
    /\ \E limit \in Limits : election_limit' = [election_limit EXCEPT ![i] = limit]

-----------------------------------------------------------------------------
(* The tick loop *)

Tick(i) == i \notin ticked /\ ticked' = ticked \cup {i}

\* A leader's tick; its election counter stays at zero.
LeaderTick(i) ==
    /\ Tick(i) /\ state[i] = "Leader"
    /\ election_ticks' = [election_ticks EXCEPT ![i] = 0]
    /\ IF heartbeat_ticks[i] + 1 >= HeartbeatInterval
       THEN HeartbeatTimeout(i) /\ heartbeat_ticks' = [heartbeat_ticks EXCEPT ![i] = 0]
       ELSE UNCHANGED vars /\ heartbeat_ticks' = [heartbeat_ticks EXCEPT ![i] = @ + 1]
    /\ UNCHANGED <<election_limit, missed>>

FollowerTick(i) ==
    /\ Tick(i) /\ state[i] # "Leader"
    /\ IF election_ticks[i] + 1 >= election_limit[i]
       THEN ElectionTimeout(i) /\ ResetElectionTimer(i)
       ELSE /\ UNCHANGED vars
            /\ election_ticks' = [election_ticks EXCEPT ![i] = @ + 1]
            /\ UNCHANGED election_limit
    /\ UNCHANGED <<heartbeat_ticks, missed>>

NextRound ==
    /\ ticked = Node /\ msgs = {}
    /\ ticked' = {}
    /\ UNCHANGED <<vars, engineVars, missed>>

-----------------------------------------------------------------------------
(* Messages *)

\* Entries of a leader whose term is not older than the receiver's.
FromLeader(m) == m.kind = "AppendEntries" /\ m.term >= current_term[m.to]

ResetsElectionTimer_WhenMatching(m) ==
    \/ FromLeader(m) /\ HasMatchingPrevEntry(log[m.to], m.prev_log_index, m.prev_log_term)
    \/ m.kind = "RequestVote" /\ m.term >= current_term[m.to] /\ CanVote(m)

\* Hearing from a leader does, before its entries are compared with the log,
\* and giving a vote does; a newer term alone does not.
ResetsElectionTimer(m) ==
    \/ FromLeader(m)
    \/ m.kind = "RequestVote" /\ m.term >= current_term[m.to] /\ CanVote(m)

Wins(m) == CountsAsVote(m) /\ IsMajority(votes_received[m.to] \cup {m.from})

Handle(m) ==
    /\ Receive(m)
    /\ IF ResetsElectionTimer(m) THEN ResetElectionTimer(m.to)
       ELSE UNCHANGED <<election_ticks, election_limit>>
    /\ heartbeat_ticks' = [heartbeat_ticks EXCEPT ![m.to] = IF Wins(m) THEN 0 ELSE @]
    /\ missed' = [missed EXCEPT ![m.to] = IF FromLeader(m) THEN 0 ELSE @]
    /\ UNCHANGED ticked

Lose(m) ==
    /\ Drop(m)
    /\ missed' = [missed EXCEPT ![m.to] = IF m.kind = "AppendEntries" THEN Smaller(@ + 1, MaxLosses + 1) ELSE @]
    /\ UNCHANGED <<engineVars, ticked>>

TClientRequest(i, c) == ClientRequest(i, c) /\ UNCHANGED timerVars

TNext ==
    \/ \E i \in Node : LeaderTick(i)
    \/ \E i \in Node : FollowerTick(i)
    \/ NextRound
    \/ \E m \in msgs : Handle(m)
    \/ \E m \in msgs : Lose(m)
    \/ \E i \in Node, c \in Command : TClientRequest(i, c)

TSpec == TInit /\ [][TNext]_tvars

-----------------------------------------------------------------------------

\* Everybody else redirects clients to i in i's own term.
Recognized(i) ==
    /\ state[i] = "Leader"
    /\ \A j \in Node : current_term[j] = current_term[i] /\ leader_id[j] = i

FewLosses == \A j \in Node : missed[j] <= MaxLosses

\* Once every node has heard of a leader, nobody stands against it as long as no
\* node misses more of its messages in a row than the shortest limit leaves room
\* for, whatever happened before and whichever votes and replies are lost
\* (heartbeat_stability_test.go watches a cluster for it under packet loss).
StableLeader ==
    [][\A i \in Node : Recognized(i) /\ FewLosses /\ FewLosses' => Recognized(i)']_tvars

=============================================================================
