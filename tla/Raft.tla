-------------------------------- MODULE Raft --------------------------------
(***************************************************************************)
(* The Raft core of mini-raft/raft-rust: the decision logic of RaftNode    *)
(* (node.rs), the dispatch of incoming messages and the execution of the   *)
(* side effects (main.rs), over the network the relay provides.            *)
(*                                                                         *)
(* A handler runs under the node's mutex together with the execution of    *)
(* its side effects, so each handler is one action.  The two timers are    *)
(* abstracted to "may fire at any time its handler accepts it".            *)
(* A definition named after another with a suffix, such as CanVote_Again,  *)
(* is a mistaken form of that definition which no action uses: it is there *)
(* to show that the properties tell the two apart.                         *)
(*                                                                         *)
(* log[i] is the Vec of node.rs, sentinel included: the entry whose index  *)
(* is k sits at position k + 1.                                            *)
(***************************************************************************)
EXTENDS RaftLog

CONSTANTS
    Node,           \* the nodes: id, and peers = Node \ {id}
    MaxTerm,        \* bound: no election timeout beyond this term
    MaxIndex,       \* bound: no client request beyond this log index
    Contenders,     \* bound: which nodes' election timer may open a term
    RelayActions    \* what the relay may do with a message

ASSUME NodeAssumption == IsFiniteSet(Node) /\ Node # {} /\ None \notin Node
ASSUME BoundAssumption ==
    MaxTerm \in Nat /\ MaxIndex \in Nat /\ Contenders \in [1 .. MaxTerm -> SUBSET Node]
ASSUME RelayAssumption == RelayActions \subseteq {"Forward", "Duplicate", "Drop"}

VARIABLES
    current_term, voted_for, leader_id, log, state,
    votes_received,                 \* payload of NodeState::Candidate
    next_indices, match_indices,    \* payload of NodeState::Leader
    committed_index, last_applied,
    applied,    \* the commands the node has handed to its state machine
    msgs,       \* messages the relay holds or may still deliver
    ballots,    \* history: every vote cast, never read by an action
    elected     \* history: every election won, never read by an action

termVars == <<current_term, voted_for, leader_id>>
roleVars == <<state, votes_received, next_indices, match_indices>>
logVars == <<log, committed_index, last_applied, applied>>
history == <<ballots, elected>>
vars == <<termVars, roleVars, logVars, msgs, history>>

-----------------------------------------------------------------------------
(* Messages *)

RequestVoteMsg ==
    [kind : {"RequestVote"}, from : Node, to : Node, term : Nat,
     last_log_index : Nat, last_log_term : Nat]
VoteReplyMsg ==
    [kind : {"VoteReply"}, from : Node, to : Node, term : Nat, vote_granted : BOOLEAN]
AppendEntriesMsg ==
    [kind : {"AppendEntries"}, from : Node, to : Node, term : Nat,
     prev_log_index : Nat, prev_log_term : Nat, entries : Seq(Entry), leader_commit : Nat]
AppendReplyMsg ==
    [kind : {"AppendReply"}, from : Node, to : Node, term : Nat,
     success : BOOLEAN, match_index : Nat]
Message == RequestVoteMsg \cup VoteReplyMsg \cup AppendEntriesMsg \cup AppendReplyMsg

Send(sent) == msgs' = msgs \cup sent

\* The receiver handles m and sends: a forwarded message is gone, a
\* duplicated one stays for another delivery.
Reply(m, sent) ==
    \/ "Forward" \in RelayActions /\ msgs' = (msgs \ {m}) \cup sent
    \/ "Duplicate" \in RelayActions /\ msgs' = msgs \cup sent

AppendEntriesArgs_PrevOff(i, to, next, l, commit) ==
    [kind |-> "AppendEntries", from |-> i, to |-> to, term |-> current_term[i],
     prev_log_index |-> next - 2, prev_log_term |-> 0,
     entries |-> SubSeq(l, next + 1, Len(l)), leader_commit |-> commit]

\* What a leader with log l sends to a peer whose next index is next.
AppendEntriesArgs(i, to, next, l, commit) ==
    [kind |-> "AppendEntries", from |-> i, to |-> to, term |-> current_term[i],
     prev_log_index |-> next - 1,
     prev_log_term |-> IF next \in DOMAIN l THEN l[next].term ELSE 0,
     entries |-> SubSeq(l, next + 1, Len(l)),
     leader_commit |-> commit]

AppendReply(i, to, term, success, match_index) ==
    [kind |-> "AppendReply", from |-> i, to |-> to, term |-> term,
     success |-> success, match_index |-> match_index]

VoteReply(i, to, term, granted) ==
    [kind |-> "VoteReply", from |-> i, to |-> to, term |-> term, vote_granted |-> granted]

-----------------------------------------------------------------------------
(* Pieces of the node's state *)

Peers(i) == Node \ {i}
NoIndices == [j \in Node |-> 0]

Init ==
    /\ current_term = [i \in Node |-> 0]
    /\ voted_for = [i \in Node |-> None]
    /\ leader_id = [i \in Node |-> None]
    /\ log = [i \in Node |-> <<Sentinel>>]
    /\ state = [i \in Node |-> "Follower"]
    /\ votes_received = [i \in Node |-> {}]
    /\ next_indices = [i \in Node |-> NoIndices]
    /\ match_indices = [i \in Node |-> NoIndices]
    /\ committed_index = [i \in Node |-> 0]
    /\ last_applied = [i \in Node |-> 0]
    /\ applied = [i \in Node |-> <<>>]
    /\ msgs = {}
    /\ ballots = {}
    /\ elected = {}

\* NodeState::Follower carries neither votes nor indices.
BecomeFollower(i) ==
    /\ state' = [state EXCEPT ![i] = "Follower"]
    /\ votes_received' = [votes_received EXCEPT ![i] = {}]
    /\ next_indices' = [next_indices EXCEPT ![i] = NoIndices]
    /\ match_indices' = [match_indices EXCEPT ![i] = NoIndices]

StepDown_KeepsLeader(i, term) ==
    /\ current_term' = [current_term EXCEPT ![i] = term]
    /\ voted_for' = [voted_for EXCEPT ![i] = None]
    /\ BecomeFollower(i)
    /\ UNCHANGED leader_id

\* maybe_step_down when the term is newer.
StepDown(i, term) ==
    /\ current_term' = [current_term EXCEPT ![i] = term]
    /\ voted_for' = [voted_for EXCEPT ![i] = None]
    /\ leader_id' = [leader_id EXCEPT ![i] = None]
    /\ BecomeFollower(i)

\* The vote that counts in a request's term, after maybe_step_down.
VoteIn(i, term) == IF term > current_term[i] THEN None ELSE voted_for[i]

\* committed_index moves to c and, if that is an advance, every entry up to
\* it that the log l holds is applied.
CommitAndApply(i, l, c) ==
    LET upto == IF c > committed_index[i] THEN Larger(c, last_applied[i]) ELSE last_applied[i]
        fresh == SubSeq(l, last_applied[i] + 2, Smaller(upto + 1, Len(l)))
    IN  /\ committed_index' = [committed_index EXCEPT ![i] = c]
        /\ last_applied' = [last_applied EXCEPT ![i] = upto]
        /\ applied' = [applied EXCEPT ![i] = @ \o fresh]

-----------------------------------------------------------------------------
(* Elections *)

\* The tick loop's election timeout; a leader ignores it.
ElectionTimeout(i) ==
    LET term == current_term[i] + 1
        request(j) ==
            [kind |-> "RequestVote", from |-> i, to |-> j, term |-> term,
             last_log_index |-> Last(log[i]).index, last_log_term |-> Last(log[i]).term]
    IN  /\ state[i] # "Leader"
        /\ term <= MaxTerm /\ i \in Contenders[term]
        /\ current_term' = [current_term EXCEPT ![i] = term]
        /\ voted_for' = [voted_for EXCEPT ![i] = i]
        /\ leader_id' = [leader_id EXCEPT ![i] = None]
        /\ state' = [state EXCEPT ![i] = "Candidate"]
        /\ votes_received' = [votes_received EXCEPT ![i] = {i}]
        /\ Send({request(j) : j \in Peers(i)})
        /\ ballots' = ballots \cup {[voter |-> i, term |-> term, candidate |-> i]}
        /\ UNCHANGED <<next_indices, match_indices, logVars, elected>>

\* The reply to a request or an entry of an older term leaves the node as it is.
RejectStaleVote(m) ==
    LET i == m.to
    IN  /\ m.kind = "RequestVote" /\ m.term < current_term[i]
        /\ Reply(m, {VoteReply(i, m.from, current_term[i], FALSE)})
        /\ UNCHANGED <<termVars, roleVars, logVars, history>>

CanVote_Again(m) == UpToDate(log[m.to], m.last_log_index, m.last_log_term)

CanVote(m) ==
    /\ VoteIn(m.to, m.term) \in {None, m.from}
    /\ UpToDate(log[m.to], m.last_log_index, m.last_log_term)

\* The term and the role a request's term leaves the receiver with.
AdoptTerm(i, term) ==
    /\ current_term' = [current_term EXCEPT ![i] = term]
    /\ leader_id' = [leader_id EXCEPT ![i] = IF term > current_term[i] THEN None ELSE @]
    /\ IF term > current_term[i] THEN BecomeFollower(i) ELSE UNCHANGED roleVars

GrantVote(m) ==
    LET i == m.to
    IN  /\ m.kind = "RequestVote" /\ m.term >= current_term[i] /\ CanVote(m)
        /\ AdoptTerm(i, m.term)
        /\ voted_for' = [voted_for EXCEPT ![i] = m.from]
        /\ ballots' = ballots \cup {[voter |-> i, term |-> m.term, candidate |-> m.from]}
        /\ Reply(m, {VoteReply(i, m.from, m.term, TRUE)})
        /\ UNCHANGED <<logVars, elected>>

DenyVote(m) ==
    LET i == m.to
    IN  /\ m.kind = "RequestVote" /\ m.term >= current_term[i] /\ ~CanVote(m)
        /\ AdoptTerm(i, m.term)
        /\ voted_for' = [voted_for EXCEPT ![i] = VoteIn(i, m.term)]
        /\ Reply(m, {VoteReply(i, m.from, m.term, FALSE)})
        /\ UNCHANGED <<logVars, history>>

\* A reply that carries a newer term, of either kind.
NewerTermReply(m) ==
    /\ m.kind \in {"VoteReply", "AppendReply"} /\ m.term > current_term[m.to]
    /\ StepDown(m.to, m.term)
    /\ Reply(m, {})
    /\ UNCHANGED <<logVars, history>>

CountsAsVote_Denied(m) ==
    m.kind = "VoteReply" /\ m.term = current_term[m.to] /\ state[m.to] = "Candidate"

CountsAsVote(m) ==
    /\ m.kind = "VoteReply" /\ m.term = current_term[m.to]
    /\ state[m.to] = "Candidate" /\ m.vote_granted

IsMajority(votes) == Cardinality(votes) > Cardinality(Node) \div 2

RecordVote(m) ==
    LET i == m.to
        votes == votes_received[i] \cup {m.from}
    IN  /\ CountsAsVote(m) /\ ~IsMajority(votes)
        /\ votes_received' = [votes_received EXCEPT ![i] = votes]
        /\ Reply(m, {})
        /\ UNCHANGED <<termVars, state, next_indices, match_indices, logVars, history>>

\* The deciding vote: the node takes the leader's state and announces itself.
WinElection(m) ==
    LET i == m.to
        next == Len(log[i])
    IN  /\ CountsAsVote(m) /\ IsMajority(votes_received[i] \cup {m.from})
        /\ state' = [state EXCEPT ![i] = "Leader"]
        /\ votes_received' = [votes_received EXCEPT ![i] = {}]
        /\ next_indices' = [next_indices EXCEPT ![i] = [j \in Node |-> Last(log[i]).index + 1]]
        /\ match_indices' = [match_indices EXCEPT ![i] = NoIndices]
        /\ leader_id' = [leader_id EXCEPT ![i] = i]
        /\ elected' = elected \cup {[term |-> current_term[i], node |-> i]}
        /\ Reply(m, {AppendEntriesArgs(i, j, next, log[i], committed_index[i]) : j \in Peers(i)})
        /\ UNCHANGED <<current_term, voted_for, logVars, ballots>>

-----------------------------------------------------------------------------
(* Replication: the follower *)

RejectStaleEntries(m) ==
    LET i == m.to
    IN  /\ m.kind = "AppendEntries" /\ m.term < current_term[i]
        /\ Reply(m, {AppendReply(i, m.from, current_term[i], FALSE, Last(log[i]).index)})
        /\ UNCHANGED <<termVars, roleVars, logVars, history>>

\* Whoever sends entries of a term that is not older leads that term.
RecognizeLeader(i, m) ==
    /\ current_term' = [current_term EXCEPT ![i] = m.term]
    /\ voted_for' = [voted_for EXCEPT ![i] = VoteIn(i, m.term)]
    /\ leader_id' = [leader_id EXCEPT ![i] = m.from]
    /\ BecomeFollower(i)

RejectUnmatchedEntries(m) ==
    LET i == m.to
    IN  /\ m.kind = "AppendEntries" /\ m.term >= current_term[i]
        /\ ~HasMatchingPrevEntry(log[i], m.prev_log_index, m.prev_log_term)
        /\ RecognizeLeader(i, m)
        /\ Reply(m, {AppendReply(i, m.from, m.term, FALSE, Last(log[i]).index)})
        /\ UNCHANGED <<logVars, history>>

FollowerCommit_Unguarded(m) ==
    Smaller(m.leader_commit, LastNewEntryIndex(m.prev_log_index, m.entries))

FollowerCommit(m) ==
    IF m.leader_commit > committed_index[m.to]
    THEN Smaller(m.leader_commit, LastNewEntryIndex(m.prev_log_index, m.entries))
    ELSE committed_index[m.to]

AcceptReply_OwnLastIndex(m) ==
    AppendReply(m.to, m.from, m.term, TRUE, Last(Merged(log[m.to], m.entries)).index)

AcceptReply(m) ==
    AppendReply(m.to, m.from, m.term, TRUE, LastNewEntryIndex(m.prev_log_index, m.entries))

AcceptEntries(m) ==
    LET i == m.to
        l == Merged(log[i], m.entries)
    IN  /\ m.kind = "AppendEntries" /\ m.term >= current_term[i]
        /\ HasMatchingPrevEntry(log[i], m.prev_log_index, m.prev_log_term)
        /\ RecognizeLeader(i, m)
        /\ log' = [log EXCEPT ![i] = l]
        /\ CommitAndApply(i, l, FollowerCommit(m))
        /\ Reply(m, {AcceptReply(m)})
        /\ UNCHANGED history

-----------------------------------------------------------------------------
(* Replication: the leader *)

\* propose_command; a node that is not the leader only redirects the client.
ClientRequest(i, command) ==
    LET e == [term |-> current_term[i], index |-> Last(log[i]).index + 1, command |-> command]
        l == Append(log[i], e)
    IN  /\ state[i] = "Leader"
        /\ e.index <= MaxIndex
        /\ log' = [log EXCEPT ![i] = l]
        /\ Send({AppendEntriesArgs(i, j, e.index, l, committed_index[i]) : j \in Peers(i)})
        /\ UNCHANGED <<termVars, roleVars, committed_index, last_applied, applied, history>>

HeartbeatTimeout(i) ==
    /\ state[i] = "Leader"
    /\ Send({AppendEntriesArgs(i, j, next_indices[i][j], log[i], committed_index[i]) :
               j \in Peers(i)})
    /\ UNCHANGED <<termVars, roleVars, logVars, history>>

AgreedIndex(i, matched) ==
    HighestAgreed([matched EXCEPT ![i] = Last(log[i]).index])

MayCommit_AnyTerm(i, index) == index > committed_index[i] /\ index < Len(log[i])

\* Only an entry of the leader's own term is committed by counting replicas.
MayCommit(i, index) ==
    /\ index > committed_index[i]
    /\ HoldsTerm(log[i], index, current_term[i])

ReplyInTerm(m) ==
    /\ m.kind = "AppendReply" /\ m.term = current_term[m.to] /\ state[m.to] = "Leader"

EntriesReplicated(m) ==
    LET i == m.to
        matched == [match_indices[i] EXCEPT ![m.from] = m.match_index]
        agreed == AgreedIndex(i, matched)
    IN  /\ ReplyInTerm(m) /\ m.success
        /\ match_indices' = [match_indices EXCEPT ![i] = matched]
        /\ next_indices' =
             [next_indices EXCEPT ![i][m.from] = Larger(@, m.match_index + 1)]
        /\ CommitAndApply(i, log[i], IF MayCommit(i, agreed) THEN agreed ELSE committed_index[i])
        /\ Reply(m, {})
        /\ UNCHANGED <<termVars, state, votes_received, log, history>>

RetryIndex_HintItself(next, hint) == IF hint < next THEN hint ELSE Larger(next - 1, 1)

RetryIndex_SameAgain(next, hint) == next

\* The follower's last index is the hint for the next attempt.
RetryIndex(next, hint) ==
    IF hint < next THEN hint + 1 ELSE Larger(next - 1, 1)

EntriesRejected(m) ==
    LET i == m.to
        next == RetryIndex(next_indices[i][m.from], m.match_index)
    IN  /\ ReplyInTerm(m) /\ ~m.success
        /\ next_indices' = [next_indices EXCEPT ![i][m.from] = next]
        /\ Reply(m, {AppendEntriesArgs(i, m.from, next, log[i], committed_index[i])})
        /\ UNCHANGED <<termVars, state, votes_received, match_indices, logVars, history>>

\* Replies of an older term, votes that no longer matter, and refusals.
IgnoreReply(m) ==
    /\ m.kind \in {"VoteReply", "AppendReply"} /\ m.term <= current_term[m.to]
    /\ ~CountsAsVote(m) /\ ~ReplyInTerm(m)
    /\ Reply(m, {})
    /\ UNCHANGED <<termVars, roleVars, logVars, history>>

-----------------------------------------------------------------------------

Receive(m) ==
    \/ RejectStaleVote(m)
    \/ GrantVote(m)
    \/ DenyVote(m)
    \/ NewerTermReply(m)
    \/ RecordVote(m)
    \/ WinElection(m)
    \/ RejectStaleEntries(m)
    \/ RejectUnmatchedEntries(m)
    \/ AcceptEntries(m)
    \/ EntriesReplicated(m)
    \/ EntriesRejected(m)
    \/ IgnoreReply(m)

\* A filter of the relay, or a failed connection, loses the message.
Drop(m) ==
    /\ "Drop" \in RelayActions
    /\ msgs' = msgs \ {m}
    /\ UNCHANGED <<termVars, roleVars, logVars, history>>

Next ==
    \/ \E i \in Node : ElectionTimeout(i)
    \/ \E i \in Node : HeartbeatTimeout(i)
    \/ \E i \in Node, c \in Command : ClientRequest(i, c)
    \/ \E m \in msgs : Receive(m)
    \/ \E m \in msgs : Drop(m)

Spec == Init /\ [][Next]_vars

-----------------------------------------------------------------------------
(* Properties *)

\* Every variable and every message in flight has the type the structs of
\* node.rs and protocol.rs give it, and a log never loses its sentinel, which
\* log.last().unwrap() relies on.
TypeOK ==
    /\ current_term \in [Node -> Nat]
    /\ voted_for \in [Node -> Node \cup {None}]
    /\ leader_id \in [Node -> Node \cup {None}]
    /\ log \in [Node -> Seq(Entry) \ {<<>>}]
    /\ state \in [Node -> {"Follower", "Candidate", "Leader"}]
    /\ votes_received \in [Node -> SUBSET Node]
    /\ next_indices \in [Node -> [Node -> Nat]]
    /\ match_indices \in [Node -> [Node -> Nat]]
    /\ committed_index \in [Node -> Nat]
    /\ last_applied \in [Node -> Nat]
    /\ applied \in [Node -> Seq(Entry)]
    /\ msgs \subseteq Message
    /\ ballots \subseteq [voter : Node, term : Nat, candidate : Node]
    /\ elected \subseteq [term : Nat, node : Node]

\* A node casts at most one vote in a term, whatever order requests, duplicates
\* and its own timeouts come in (the comment on voted_for in RaftNode).
VoteOncePerTerm ==
    \A b, c \in ballots :
        b.voter = c.voter /\ b.term = c.term => b.candidate = c.candidate

\* No two nodes ever win an election of the same term, also when late or
\* duplicated vote replies are counted.
ElectionSafety ==
    \A e, f \in elected : e.term = f.term => e.node = f.node

\* The node a follower would redirect a client to has won the election of the
\* follower's term; in particular a leader redirects to nobody but itself.
LeaderHintSound ==
    \A i \in Node :
        /\ leader_id[i] # None => [term |-> current_term[i], node |-> leader_id[i]] \in elected
        /\ state[i] = "Leader" => leader_id[i] = i

Prefix(l, n) == SubSeq(l, 1, n)

\* Two logs with an entry of the same term at the same index are the same up to
\* there: truncation and appending in handle_append_entries never let a log mix
\* two leaders' histories.
LogMatching ==
    \A i, j \in Node : \A p \in DOMAIN log[i] \cap DOMAIN log[j] :
        log[i][p].term = log[j][p].term => Prefix(log[i], p) = Prefix(log[j], p)

\* A leader's log holds everything any node of its term or an older one counts
\* as committed: what the up-to-date check of a vote and the term check before a
\* commit are there for.
LeaderCompleteness ==
    \A i, j \in Node :
        state[i] = "Leader" /\ current_term[j] <= current_term[i] =>
            /\ committed_index[j] < Len(log[i])
            /\ \A p \in 1 .. committed_index[j] + 1 : log[i][p] = log[j][p]

\* Two state machines never apply different commands at the same index.
StateMachineSafety ==
    \A i, j \in Node : \A p \in DOMAIN applied[i] \cap DOMAIN applied[j] :
        applied[i][p] = applied[j][p]

\* What a node has applied is exactly its committed log, each entry once and in
\* order: last_applied, which the loop increments even where the log has no
\* entry, never runs past the log, and no applied entry is truncated later.
AppliedIsCommitted ==
    \A i \in Node :
        /\ last_applied[i] = committed_index[i]
        /\ committed_index[i] < Len(log[i])
        /\ applied[i] = SubSeq(log[i], 2, committed_index[i] + 1)

\* What a leader believes a follower of its own term holds, it does hold, also
\* after replies arrive late, twice or in the wrong order.
MatchIndexSound ==
    \A i, j \in Node :
        state[i] = "Leader" /\ i # j /\ current_term[j] = current_term[i] =>
            /\ match_indices[i][j] < Len(log[i]) /\ match_indices[i][j] < Len(log[j])
            /\ Prefix(log[i], match_indices[i][j] + 1) = Prefix(log[j], match_indices[i][j] + 1)

\* The index a leader sends from stays within its log, so the previous entry it
\* names always exists and never falls back to term 0.
NextIndexInLog ==
    \A i, j \in Node :
        state[i] = "Leader" /\ i # j => next_indices[i][j] \in 1 .. Len(log[i])

\* committed_index never goes back, although it is assigned a minimum with the
\* last entry of a message that may be older than what the node has.
CommitMonotonic ==
    [][\A i \in Node : committed_index'[i] >= committed_index[i]]_vars

\* Within a term no entry of that term disappears from a log: a delayed or
\* repeated AppendEntries with fewer entries truncates nothing it confirms.
KeepsEntriesOfTerm ==
    [][\A i \in Node : \A p \in DOMAIN log[i] :
         log[i][p].term = current_term[i] /\ current_term'[i] = current_term[i] =>
            p \in DOMAIN log'[i] /\ log'[i][p] = log[i][p]]_vars

\* A leader is deposed by nothing of its own term, and as long as it leads it only
\* appends: handle_append_entries makes whoever accepts entries a follower and cuts
\* its log without a look at its role, so all depends on nobody else sending
\* entries of that term.
LeaderAppendOnly ==
    [][\A i \in Node : state[i] = "Leader" /\ current_term'[i] = current_term[i] =>
         /\ state'[i] = "Leader"
         /\ Len(log'[i]) >= Len(log[i]) /\ Prefix(log'[i], Len(log[i])) = log[i]]_vars
=============================================================================
