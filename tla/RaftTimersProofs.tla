-------------------------- MODULE RaftTimersProofs --------------------------
(***************************************************************************)
(* The tick loop over the Raft core, for any number of nodes, any interval *)
(* and any limits that leave room for MaxLosses lost heartbeats.           *)
(*                                                                         *)
(* A step of the tick loop is a step of Raft or leaves Raft alone, so what *)
(* is proved of Raft holds under it.  A recognized leader stays recognized *)
(* because the election counter of every node that follows it is bounded   *)
(* by the heartbeats the node has missed (HeardLately), and because nobody *)
(* has a newer term to tell of (TermsBehind).                              *)
(***************************************************************************)
EXTENDS RaftTimers, RaftLogProofs

\* A step of the tick loop, seen from Raft.
LEMMA StepOfRaft == TNext => [Next]_vars
  <1>1. ASSUME NEW i \in Node, LeaderTick(i) PROVE [Next]_vars
    BY <1>1 DEF LeaderTick, Next
  <1>2. ASSUME NEW i \in Node, FollowerTick(i) PROVE [Next]_vars
    BY <1>2 DEF FollowerTick, Next
  <1>3. CASE NextRound
    BY <1>3 DEF NextRound
  <1>4. ASSUME NEW m \in msgs, Handle(m) PROVE [Next]_vars
    BY <1>4 DEF Handle, Next
  <1>5. ASSUME NEW m \in msgs, Lose(m) PROVE [Next]_vars
    BY <1>5 DEF Lose, Next
  <1>6. ASSUME NEW i \in Node, NEW c \in Command, TClientRequest(i, c) PROVE [Next]_vars
    BY <1>6 DEF TClientRequest, Next
  <1> QED BY <1>1, <1>2, <1>3, <1>4, <1>5, <1>6 DEF TNext

\* Whatever the tick loop of main.rs and the counters of EngineState allow, Raft
\* allows: every theorem about Raft holds of a cluster with timers.
THEOREM TimersImplementRaft == TSpec => Spec
  <1>1. TInit => Init
    BY DEF TInit
  <1>2. [TNext]_tvars => [Next]_vars
    BY StepOfRaft DEF tvars
  <1> QED BY <1>1, <1>2, PTL DEF TSpec, Spec

-----------------------------------------------------------------------------
(* What the handlers do to terms, roles and leaders *)

\* Nobody says more of terms than it knows.
TermsBehind == \A m \in msgs : m.term <= current_term[m.from]

SameNode(j) ==
    /\ current_term'[j] = current_term[j] /\ leader_id'[j] = leader_id[j]
    /\ state'[j] = "Leader" <=> state[j] = "Leader"

\* The receiver of m follows the sender, leads, hears of a newer term, or stays
\* what it is.
ReceiverChanges(m) ==
    LET j == m.to
    IN  \/ /\ FromLeader(m)
           /\ leader_id'[j] = m.from /\ current_term'[j] = m.term /\ state'[j] = "Follower"
        \/ /\ Wins(m) /\ leader_id'[j] = j /\ current_term'[j] = current_term[j]
        \/ /\ m.term > current_term[j]
           /\ leader_id'[j] = None /\ state'[j] = "Follower"
        \/ SameNode(j)

LEMMA AdoptTermChanges ==
    ASSUME TypeOK, NEW m \in msgs, m.term >= current_term[m.to], AdoptTerm(m.to, m.term)
    PROVE  ReceiverChanges(m) /\ \A j \in Node \ {m.to} : SameNode(j)
  <1>1. m.to \in Node /\ m.term \in Nat /\ current_term[m.to] \in Nat
    BY MessageFields DEF TypeOK
  <1>2. /\ current_term \in [Node -> Nat] /\ leader_id \in [Node -> Node \cup {None}]
        /\ state \in [Node -> {"Follower", "Candidate", "Leader"}]
    BY DEF TypeOK
  <1>3. CASE m.term > current_term[m.to]
    <2>1. /\ current_term' = [current_term EXCEPT ![m.to] = m.term]
          /\ leader_id' = [leader_id EXCEPT ![m.to] = None]
          /\ state' = [state EXCEPT ![m.to] = "Follower"]
      BY <1>3 DEF AdoptTerm, BecomeFollower
    <2> QED BY <1>1, <1>2, <1>3, <2>1 DEF ReceiverChanges, SameNode
  <1>4. CASE ~ (m.term > current_term[m.to])
    <2>1. m.term = current_term[m.to]
      BY <1>1, <1>4
    <2>2. /\ current_term' = [current_term EXCEPT ![m.to] = m.term]
          /\ leader_id' = [leader_id EXCEPT ![m.to] = leader_id[m.to]]
          /\ state' = state
      BY <1>4 DEF AdoptTerm, roleVars
    <2>3. \A j \in Node : SameNode(j)
      BY <1>1, <1>2, <2>1, <2>2 DEF SameNode
    <2> QED BY <1>1, <2>3 DEF ReceiverChanges
  <1> QED BY <1>3, <1>4

LEMMA Unchanged ==
    ASSUME NEW m \in msgs, m.to \in Node, UNCHANGED <<current_term, leader_id, state>>
    PROVE  ReceiverChanges(m) /\ \A j \in Node \ {m.to} : SameNode(j)
  BY DEF ReceiverChanges, SameNode

LEMMA HandlerChanges ==
    ASSUME TypeOK, NEW m \in msgs, Receive(m)
    PROVE  ReceiverChanges(m) /\ \A j \in Node \ {m.to} : SameNode(j)
  <1>1. m.to \in Node /\ m.term \in Nat /\ current_term[m.to] \in Nat
    BY MessageFields DEF TypeOK
  <1>2. /\ current_term \in [Node -> Nat] /\ leader_id \in [Node -> Node \cup {None}]
        /\ state \in [Node -> {"Follower", "Candidate", "Leader"}]
    BY DEF TypeOK
  <1>3. CASE \/ RejectStaleVote(m) \/ RecordVote(m) \/ RejectStaleEntries(m)
             \/ EntriesReplicated(m) \/ EntriesRejected(m) \/ IgnoreReply(m)
    <2>1. UNCHANGED <<current_term, leader_id, state>>
      BY <1>3 DEF RejectStaleVote, RecordVote, RejectStaleEntries, EntriesReplicated,
                  EntriesRejected, IgnoreReply, termVars, roleVars
    <2> QED BY <1>1, <2>1, Unchanged
  <1>4. CASE GrantVote(m) \/ DenyVote(m)
    BY <1>4, AdoptTermChanges DEF GrantVote, DenyVote
  <1>5. CASE NewerTermReply(m)
    <2>1. /\ m.term > current_term[m.to]
          /\ current_term' = [current_term EXCEPT ![m.to] = m.term]
          /\ leader_id' = [leader_id EXCEPT ![m.to] = None]
          /\ state' = [state EXCEPT ![m.to] = "Follower"]
      BY <1>5 DEF NewerTermReply, StepDown, BecomeFollower
    <2> QED BY <1>1, <1>2, <2>1 DEF ReceiverChanges, SameNode
  <1>6. CASE WinElection(m)
    <2>1. /\ Wins(m) /\ current_term' = current_term
          /\ leader_id' = [leader_id EXCEPT ![m.to] = m.to]
          /\ state' = [state EXCEPT ![m.to] = "Leader"]
      BY <1>6 DEF WinElection, Wins
    <2> QED BY <1>1, <1>2, <2>1 DEF ReceiverChanges, SameNode
  <1>7. CASE RejectUnmatchedEntries(m) \/ AcceptEntries(m)
    <2>1. /\ FromLeader(m)
          /\ current_term' = [current_term EXCEPT ![m.to] = m.term]
          /\ leader_id' = [leader_id EXCEPT ![m.to] = m.from]
          /\ state' = [state EXCEPT ![m.to] = "Follower"]
      BY <1>7 DEF RejectUnmatchedEntries, AcceptEntries, RecognizeLeader, BecomeFollower, FromLeader
    <2> QED BY <1>1, <1>2, <2>1 DEF ReceiverChanges, SameNode
  <1> QED BY <1>3, <1>4, <1>5, <1>6, <1>7 DEF Receive

-----------------------------------------------------------------------------
(* What is sent *)

LEMMA ReplySends ==
    ASSUME NEW m \in msgs, NEW sent, Reply(m, sent)
    PROVE  msgs \ {m} \subseteq msgs' /\ msgs' \subseteq msgs \cup sent
  BY DEF Reply

LEMMA ReplySendsOne ==
    ASSUME NEW m \in msgs, m.to \in Node, NEW r, Reply(m, {r}),
           r.from = m.to, r.term = current_term'[m.to]
    PROVE  /\ msgs \ {m} \subseteq msgs'
           /\ \A s \in msgs' \ msgs : s.from \in Node /\ s.term = current_term'[s.from]
  BY DEF Reply

LEMMA AppendReplyFields ==
    ASSUME NEW i, NEW j, NEW t, NEW s, NEW x
    PROVE  AppendReply(i, j, t, s, x).term = t /\ AppendReply(i, j, t, s, x).from = i
  BY DEF AppendReply

LEMMA VoteReplyFields ==
    ASSUME NEW i, NEW j, NEW t, NEW g
    PROVE  VoteReply(i, j, t, g).term = t /\ VoteReply(i, j, t, g).from = i
  BY DEF VoteReply

\* A handler loses at most the message it handles, and sends in its new term.
LEMMA HandlerSends ==
    ASSUME TypeOK, NEW m \in msgs, Receive(m)
    PROVE  /\ msgs \ {m} \subseteq msgs'
           /\ \A r \in msgs' \ msgs : r.from \in Node /\ r.term = current_term'[r.from]
  <1> DEFINE i == m.to
  <1>1. i \in Node /\ m.term \in Nat
    BY MessageFields DEF TypeOK
  <1>2. current_term \in [Node -> Nat]
    BY DEF TypeOK
  <1>3. CASE RejectStaleVote(m)
    <2>1. PICK granted : Reply(m, {VoteReply(i, m.from, current_term[i], granted)})
      BY <1>3 DEF RejectStaleVote
    <2>2. current_term' = current_term
      BY <1>3 DEF RejectStaleVote, termVars
    <2> QED BY <1>1, <2>1, <2>2, ReplySendsOne, VoteReplyFields
  <1>4. ASSUME NEW granted, Reply(m, {VoteReply(i, m.from, m.term, granted)}), AdoptTerm(i, m.term)
        PROVE  /\ msgs \ {m} \subseteq msgs'
               /\ \A r \in msgs' \ msgs : r.from \in Node /\ r.term = current_term'[r.from]
    <2>1. current_term'[i] = m.term
      BY <1>1, <1>2, <1>4 DEF AdoptTerm
    <2> QED BY <1>1, <1>4, <2>1, ReplySendsOne, VoteReplyFields
  <1>5. CASE GrantVote(m) \/ DenyVote(m)
    BY <1>4, <1>5 DEF GrantVote, DenyVote
  <1>6. CASE NewerTermReply(m) \/ RecordVote(m) \/ EntriesReplicated(m) \/ IgnoreReply(m)
    <2>1. Reply(m, {})
      BY <1>6 DEF NewerTermReply, RecordVote, EntriesReplicated, IgnoreReply
    <2> QED BY <2>1, ReplySends
  <1>7. CASE WinElection(m)
    <2> DEFINE next == Len(log[i])
               sent == {AppendEntriesArgs(i, j, next, log[i], committed_index[i]) : j \in Peers(i)}
    <2>1. Reply(m, sent) /\ current_term' = current_term
      BY <1>7 DEF WinElection
    <2>2. \A r \in sent : r.from = i /\ r.term = current_term[i]
      BY EntriesFields
    <2> HIDE DEF sent
    <2> QED BY <1>1, <2>1, <2>2, ReplySends
  <1>8. CASE RejectStaleEntries(m)
    <2>1. PICK success, x : Reply(m, {AppendReply(i, m.from, current_term[i], success, x)})
      BY <1>8 DEF RejectStaleEntries
    <2>2. current_term' = current_term
      BY <1>8 DEF RejectStaleEntries, termVars
    <2> QED BY <1>1, <2>1, <2>2, ReplySendsOne, AppendReplyFields
  <1>9. CASE RejectUnmatchedEntries(m) \/ AcceptEntries(m)
    <2>1. PICK success, x : Reply(m, {AppendReply(i, m.from, m.term, success, x)})
      BY <1>9 DEF RejectUnmatchedEntries, AcceptEntries, AcceptReply
    <2>2. current_term' = [current_term EXCEPT ![i] = m.term]
      BY <1>9 DEF RejectUnmatchedEntries, AcceptEntries, RecognizeLeader
    <2>3. current_term'[i] = m.term
      BY <1>1, <1>2, <2>2
    <2> QED BY <1>1, <2>1, <2>3, ReplySendsOne, AppendReplyFields
  <1>10. CASE EntriesRejected(m)
    <2>1. PICK next : Reply(m, {AppendEntriesArgs(i, m.from, next, log[i], committed_index[i])})
      BY <1>10 DEF EntriesRejected
    <2>2. current_term' = current_term
      BY <1>10 DEF EntriesRejected, termVars
    <2> QED BY <1>1, <2>1, <2>2, ReplySendsOne, EntriesFields
  <1> QED BY <1>3, <1>5, <1>6, <1>7, <1>8, <1>9, <1>10 DEF Receive

LEMMA LeaderSends ==
    ASSUME NEW i \in Node, HeartbeatTimeout(i) \/ \E c \in Command : ClientRequest(i, c)
    PROVE  /\ msgs \subseteq msgs' /\ UNCHANGED <<termVars, roleVars, history>>
           /\ state[i] = "Leader"
           /\ \A r \in msgs' \ msgs : r.from = i /\ r.term = current_term[i]
  <1>1. UNCHANGED <<termVars, roleVars, history>> /\ state[i] = "Leader"
    BY DEF HeartbeatTimeout, ClientRequest
  <1>2. CASE HeartbeatTimeout(i)
    <2>1. msgs' = msgs \cup {AppendEntriesArgs(i, j, next_indices[i][j], log[i],
                                               committed_index[i]) : j \in Peers(i)}
      BY <1>2 DEF HeartbeatTimeout, Send
    <2> QED BY <1>1, <2>1, EntriesFields
  <1>3. CASE \E c \in Command : ClientRequest(i, c)
    <2>1. PICK next, l : msgs' = msgs \cup {AppendEntriesArgs(i, j, next, l, committed_index[i]) :
                                              j \in Peers(i)}
      BY <1>3 DEF ClientRequest, Send
    <2> QED BY <1>1, <2>1, EntriesFields
  <1> QED BY <1>2, <1>3

LEMMA CandidateSends ==
    ASSUME TypeOK, NEW i \in Node, ElectionTimeout(i)
    PROVE  /\ msgs \subseteq msgs'
           /\ \A r \in msgs' \ msgs : r.from = i /\ r.term = current_term'[i]
           /\ state'[i] = "Candidate" /\ \A j \in Node \ {i} : SameNode(j)
  <1>1. /\ current_term \in [Node -> Nat] /\ leader_id \in [Node -> Node \cup {None}]
        /\ state \in [Node -> {"Follower", "Candidate", "Leader"}]
    BY DEF TypeOK
  <1>2. /\ current_term' = [current_term EXCEPT ![i] = current_term[i] + 1]
        /\ leader_id' = [leader_id EXCEPT ![i] = None]
        /\ state' = [state EXCEPT ![i] = "Candidate"]
    BY DEF ElectionTimeout
  <1>3. msgs \subseteq msgs' /\ \A r \in msgs' \ msgs : r.from = i /\ r.term = current_term[i] + 1
    BY DEF ElectionTimeout, Send
  <1> QED BY <1>1, <1>2, <1>3 DEF SameNode

LEMMA TermsBehindNext ==
    ASSUME LeaderInv, TermsBehind, [Next]_vars
    PROVE  TermsBehind'
  <1>1. TypeOK
    BY DEF LeaderInv, TypeInv
  <1>2. \A m \in msgs : m.from \in Node /\ m.term \in Nat
    BY <1>1, MessageFields DEF TypeOK
  <1>3. \A j \in Node : current_term'[j] >= current_term[j] /\ current_term[j] \in Nat
    BY <1>1, RolesChange DEF RoleChanges, TypeOK
  <1>4. \A j \in Node : current_term'[j] \in Nat
    <2>1. TypeInv'
      BY TypeStep DEF LeaderInv
    <2> QED BY <2>1 DEF TypeInv, TypeOK
  <1>5. SUFFICES \A r \in msgs' \ msgs : r.from \in Node /\ r.term = current_term'[r.from]
    BY <1>2, <1>3, <1>4 DEF TermsBehind
  <1>6. CASE UNCHANGED vars
    BY <1>6 DEF vars
  <1>7. ASSUME NEW i \in Node, ElectionTimeout(i)
        PROVE  \A r \in msgs' \ msgs : r.from \in Node /\ r.term = current_term'[r.from]
    BY <1>1, <1>7, CandidateSends
  <1>8. ASSUME NEW i \in Node, HeartbeatTimeout(i) \/ \E c \in Command : ClientRequest(i, c)
        PROVE  \A r \in msgs' \ msgs : r.from \in Node /\ r.term = current_term'[r.from]
    BY <1>8, LeaderSends DEF termVars
  <1>9. ASSUME NEW m \in msgs, Receive(m)
        PROVE  \A r \in msgs' \ msgs : r.from \in Node /\ r.term = current_term'[r.from]
    BY <1>1, <1>9, HandlerSends
  <1>10. ASSUME NEW m \in msgs, Drop(m)
         PROVE  \A r \in msgs' \ msgs : r.from \in Node /\ r.term = current_term'[r.from]
    BY <1>10 DEF Drop
  <1> QED BY <1>6, <1>7, <1>8, <1>9, <1>10 DEF Next

-----------------------------------------------------------------------------
(* The counters *)

TimerTypes ==
    /\ election_ticks \in [Node -> Nat]
    /\ election_limit \in [Node -> Limits]
    /\ heartbeat_ticks \in [Node -> 0 .. HeartbeatInterval - 1]
    /\ ticked \subseteq Node
    /\ missed \in [Node -> Nat]

Follows(j, i) ==
    i # j /\ state[i] = "Leader" /\ current_term[j] = current_term[i] /\ leader_id[j] = i

UnderWay(i, j) ==
    \E m \in msgs :
        m.kind = "AppendEntries" /\ m.from = i /\ m.to = j /\ m.term = current_term[i]

\* The rounds since the leader's heartbeat before j's last one that was handled or
\* lost: the one of this very round, while it is under way, is not counted yet.
Silence(i, j) ==
    IF i \in ticked
    THEN IF heartbeat_ticks[i] = 0 /\ UnderWay(i, j) THEN HeartbeatInterval
         ELSE heartbeat_ticks[i]
    ELSE heartbeat_ticks[i] + 1

OwnTick(j) == IF j \in ticked THEN 1 ELSE 0

\* A follower's counter says how long it has not heard of its leader: an interval for
\* each message missed, the silence after that, and the follower's own tick.
Heard(i, j) ==
    election_ticks[j] <= HeartbeatInterval * missed[j] + Silence(i, j) + OwnTick(j)

HeardLately ==
    \A i, j \in Node : Follows(j, i) /\ missed[j] <= MaxLosses => Heard(i, j)

TimerInv == LeaderInv /\ TermsBehind /\ TimerTypes /\ HeardLately

LEMMA Products ==
    ASSUME NEW a \in Nat, NEW b \in Nat, NEW c \in Nat
    PROVE  /\ a * b \in Nat
           /\ a * (b + 1) = a * b + a
           /\ b <= c => a * b <= a * c
  <1>1. a * b \in Nat /\ a * (b + 1) = a * b + a
    OBVIOUS
  <1>2. ASSUME b <= c PROVE a * b <= a * c
    <2>1. PICK d \in Nat : c = b + d
      <3>1. c - b \in Nat /\ c = b + (c - b)
        BY <1>2
      <3> QED BY <3>1
    <2>2. a * c = a * b + a * d /\ a * d \in Nat
      BY <2>1
    <2> QED BY <1>1, <2>2
  <1> QED BY <1>1, <1>2

LEMMA SilenceBounds ==
    ASSUME TimerTypes, NEW i \in Node, NEW j \in Node
    PROVE  /\ Silence(i, j) \in 0 .. HeartbeatInterval
           /\ OwnTick(j) \in 0 .. 1
  <1>1. heartbeat_ticks[i] \in 0 .. HeartbeatInterval - 1 /\ HeartbeatInterval \in Nat \ {0}
    BY TimerAssumption DEF TimerTypes
  <1> QED BY <1>1 DEF Silence, OwnTick

\* A node that keeps term and leader follows whom it followed before.
LEMMA FollowedBefore ==
    ASSUME LeaderInv, [Next]_vars, NEW i \in Node, NEW j \in Node, Follows(j, i)', SameNode(j)
    PROVE  Follows(j, i) /\ current_term'[i] = current_term[i]
  <1>1. current_term'[i] = current_term[i]
    BY RolesChange DEF RoleChanges, Follows
  <1>2. i # j /\ leader_id[j] = i /\ current_term[j] = current_term[i]
    BY <1>1 DEF Follows, SameNode
  <1>3. Elected(current_term[j], i)
    BY <1>2, NodeAssumption DEF LeaderInv, HintInv, LeaderHintSound, Elected
  <1>4. current_term[i] \in Nat
    BY DEF LeaderInv, TypeInv, TypeOK
  <1>5. state[i] = "Leader"
    BY <1>2, <1>3, <1>4 DEF LeaderInv, RoleInv
  <1> QED BY <1>1, <1>2, <1>5 DEF Follows

\* What lets the silence of a leader grow at most.
LEMMA SilenceKept ==
    ASSUME TimerTypes, NEW i \in Node, NEW j \in Node,
           UnderWay(i, j) => UnderWay(i, j)',
           heartbeat_ticks'[i] = heartbeat_ticks[i], i \in ticked' <=> i \in ticked
    PROVE  Silence(i, j) <= Silence(i, j)'
  <1>1. heartbeat_ticks[i] \in 0 .. HeartbeatInterval - 1 /\ HeartbeatInterval \in Nat \ {0}
    BY TimerAssumption DEF TimerTypes
  <1>2. CASE i \in ticked
    BY <1>1, <1>2 DEF Silence
  <1>3. CASE i \notin ticked
    BY <1>1, <1>3 DEF Silence
  <1> QED BY <1>2, <1>3

LEMMA UnderWayKept ==
    ASSUME NEW i, NEW j, current_term'[i] = current_term[i],
           \A m \in msgs : m.kind = "AppendEntries" /\ m.from = i /\ m.to = j
                           /\ m.term = current_term[i] => m \in msgs'
    PROVE  UnderWay(i, j) => UnderWay(i, j)'
  BY DEF UnderWay

LEMMA HeardNow ==
    ASSUME TimerTypes, NEW i \in Node, NEW j \in Node, election_ticks[j] = 0
    PROVE  Heard(i, j)
  <1>1. missed[j] \in Nat /\ HeartbeatInterval \in Nat
    BY TimerAssumption DEF TimerTypes
  <1>2. HeartbeatInterval * missed[j] \in Nat
    BY <1>1, Products
  <1> QED BY <1>2, SilenceBounds DEF Heard

LEMMA HeardKept ==
    ASSUME TimerTypes, TimerTypes', NEW i \in Node, NEW j \in Node, Heard(i, j),
           election_ticks'[j] <= election_ticks[j], missed'[j] >= missed[j],
           j \in ticked' <=> j \in ticked,
           Silence(i, j) <= Silence(i, j)'
    PROVE  Heard(i, j)'
  <1>1. /\ missed[j] \in Nat /\ missed'[j] \in Nat /\ HeartbeatInterval \in Nat
        /\ election_ticks[j] \in Nat /\ election_ticks'[j] \in Nat
    BY TimerAssumption DEF TimerTypes
  <1> DEFINE a == HeartbeatInterval * missed[j]
             b == HeartbeatInterval * missed'[j]
  <1>2. a \in Nat /\ b \in Nat /\ a <= b
    BY <1>1, Products
  <1>3. /\ Silence(i, j) \in Nat /\ OwnTick(j) \in Nat
        /\ Silence(i, j)' \in Nat /\ OwnTick(j)' = OwnTick(j)
    <2>1. Silence(i, j) \in 0 .. HeartbeatInterval /\ OwnTick(j) \in 0 .. 1
      BY SilenceBounds
    <2>2. Silence(i, j)' \in 0 .. HeartbeatInterval
      <3>1. heartbeat_ticks'[i] \in 0 .. HeartbeatInterval - 1 /\ HeartbeatInterval \in Nat \ {0}
        BY TimerAssumption DEF TimerTypes
      <3> QED BY <3>1 DEF Silence
    <2>3. OwnTick(j)' = OwnTick(j)
      BY DEF OwnTick
    <2> QED BY <1>1, <2>1, <2>2, <2>3
  <1>4. election_ticks[j] <= a + Silence(i, j) + OwnTick(j)
    BY DEF Heard
  <1>5. election_ticks'[j] <= b + Silence(i, j)' + OwnTick(j)'
    <2> HIDE DEF a, b
    <2> QED BY <1>1, <1>2, <1>3, <1>4
  <1> QED BY <1>5 DEF Heard

LEMMA ResetTypes ==
    ASSUME TimerTypes, NEW i \in Node, ResetElectionTimer(i)
    PROVE  /\ election_ticks' \in [Node -> Nat] /\ election_ticks'[i] = 0
           /\ \A j \in Node \ {i} : election_ticks'[j] = election_ticks[j]
           /\ election_limit' \in [Node -> Limits]
  <1>1. election_ticks' = [election_ticks EXCEPT ![i] = 0]
    BY DEF ResetElectionTimer
  <1>2. PICK limit \in Limits : election_limit' = [election_limit EXCEPT ![i] = limit]
    BY DEF ResetElectionTimer
  <1> QED BY <1>1, <1>2 DEF TimerTypes

LEMMA TimerTypesNext ==
    ASSUME TypeOK, TimerTypes, [TNext]_tvars
    PROVE  TimerTypes'
  <1>1. HeartbeatInterval \in Nat \ {0} /\ MaxLosses \in Nat
    BY TimerAssumption
  <1>2. /\ election_ticks \in [Node -> Nat] /\ election_limit \in [Node -> Limits]
        /\ heartbeat_ticks \in [Node -> 0 .. HeartbeatInterval - 1]
        /\ ticked \subseteq Node /\ missed \in [Node -> Nat]
    BY DEF TimerTypes
  <1>3. CASE UNCHANGED tvars
    BY <1>3 DEF tvars, timerVars, engineVars, TimerTypes
  <1>4. ASSUME NEW i \in Node, LeaderTick(i) PROVE TimerTypes'
    <2>1. /\ election_ticks' = [election_ticks EXCEPT ![i] = 0]
          /\ UNCHANGED <<election_limit, missed>> /\ ticked' = ticked \cup {i}
      BY <1>4 DEF LeaderTick, Tick
    <2>2. PICK h \in 0 .. HeartbeatInterval - 1 : heartbeat_ticks' = [heartbeat_ticks EXCEPT ![i] = h]
      <3>1. heartbeat_ticks[i] \in 0 .. HeartbeatInterval - 1
        BY <1>2
      <3>2. CASE heartbeat_ticks[i] + 1 >= HeartbeatInterval
        BY <1>1, <1>4, <3>2 DEF LeaderTick
      <3>3. CASE ~ (heartbeat_ticks[i] + 1 >= HeartbeatInterval)
        <4>1. heartbeat_ticks' = [heartbeat_ticks EXCEPT ![i] = heartbeat_ticks[i] + 1]
          BY <1>4, <3>3 DEF LeaderTick
        <4>2. heartbeat_ticks[i] + 1 \in 0 .. HeartbeatInterval - 1
          BY <1>1, <3>1, <3>3
        <4> QED BY <4>1, <4>2
      <3> QED BY <3>2, <3>3
    <2> QED BY <1>2, <2>1, <2>2 DEF TimerTypes
  <1>5. ASSUME NEW i \in Node, FollowerTick(i) PROVE TimerTypes'
    <2>1. UNCHANGED <<heartbeat_ticks, missed>> /\ ticked' = ticked \cup {i}
      BY <1>5 DEF FollowerTick, Tick
    <2>2. election_ticks' \in [Node -> Nat] /\ election_limit' \in [Node -> Limits]
      <3>1. CASE election_ticks[i] + 1 >= election_limit[i]
        BY <1>5, <3>1, ResetTypes DEF FollowerTick
      <3>2. CASE ~ (election_ticks[i] + 1 >= election_limit[i])
        <4>1. /\ election_ticks' = [election_ticks EXCEPT ![i] = election_ticks[i] + 1]
              /\ election_limit' = election_limit
          BY <1>5, <3>2 DEF FollowerTick
        <4>2. election_ticks[i] + 1 \in Nat
          BY <1>2
        <4> QED BY <1>2, <4>1, <4>2
      <3> QED BY <3>1, <3>2
    <2> QED BY <1>2, <2>1, <2>2 DEF TimerTypes
  <1>6. CASE NextRound
    BY <1>2, <1>6 DEF NextRound, engineVars, TimerTypes
  <1>7. ASSUME NEW m \in msgs, Handle(m) PROVE TimerTypes'
    <2>1. m.to \in Node
      BY MessageFields DEF TypeOK
    <2>2. election_ticks' \in [Node -> Nat] /\ election_limit' \in [Node -> Limits]
      BY <1>2, <1>7, <2>1, ResetTypes DEF Handle
    <2>3. heartbeat_ticks' \in [Node -> 0 .. HeartbeatInterval - 1]
      <3>1. PICK h \in {0, heartbeat_ticks[m.to]} :
              heartbeat_ticks' = [heartbeat_ticks EXCEPT ![m.to] = h]
        BY <1>7 DEF Handle
      <3>2. h \in 0 .. HeartbeatInterval - 1
        BY <1>1, <1>2, <2>1, <3>1
      <3> QED BY <1>2, <3>1, <3>2
    <2>4. missed' \in [Node -> Nat] /\ ticked' = ticked
      <3>1. PICK n \in {0, missed[m.to]} : missed' = [missed EXCEPT ![m.to] = n]
        BY <1>7 DEF Handle
      <3> QED BY <1>2, <1>7, <2>1, <3>1 DEF Handle
    <2> QED BY <1>2, <2>2, <2>3, <2>4 DEF TimerTypes
  <1>8. ASSUME NEW m \in msgs, Lose(m) PROVE TimerTypes'
    <2>1. m.to \in Node
      BY MessageFields DEF TypeOK
    <2>2. UNCHANGED <<election_ticks, election_limit, heartbeat_ticks, ticked>>
      BY <1>8 DEF Lose, engineVars
    <2>3. missed' \in [Node -> Nat]
      <3>1. PICK n \in {missed[m.to], Smaller(missed[m.to] + 1, MaxLosses + 1)} :
              missed' = [missed EXCEPT ![m.to] = n]
        BY <1>8 DEF Lose
      <3>2. n \in Nat
        BY <1>1, <1>2, <2>1, <3>1 DEF Smaller
      <3> QED BY <1>2, <3>1, <3>2
    <2> QED BY <1>2, <2>2, <2>3 DEF TimerTypes
  <1>9. ASSUME NEW i \in Node, NEW c \in Command, TClientRequest(i, c) PROVE TimerTypes'
    BY <1>2, <1>9 DEF TClientRequest, timerVars, engineVars, TimerTypes
  <1> QED BY <1>3, <1>4, <1>5, <1>6, <1>7, <1>8, <1>9 DEF TNext

-----------------------------------------------------------------------------
(* HeardLately after a tick *)

\* The heartbeat goes to every follower.
LEMMA HeartbeatUnderWay ==
    ASSUME NEW i \in Node, HeartbeatTimeout(i), NEW j \in Node, i # j
    PROVE  UnderWay(i, j)'
  <1> DEFINE m == AppendEntriesArgs(i, j, next_indices[i][j], log[i], committed_index[i])
  <1>1. m \in msgs'
    BY DEF HeartbeatTimeout, Send, Peers
  <1>2. m.kind = "AppendEntries" /\ m.from = i /\ m.to = j /\ m.term = current_term[i]
    BY DEF AppendEntriesArgs
  <1>3. current_term' = current_term
    BY DEF HeartbeatTimeout, termVars
  <1> HIDE DEF m
  <1> QED BY <1>1, <1>2, <1>3 DEF UnderWay

LEMMA HeardAtLeaderTick ==
    ASSUME TimerInv, TimerTypes', NEW k \in Node, LeaderTick(k)
    PROVE  HeardLately'
  <1>1. /\ UNCHANGED <<current_term, leader_id, state>> /\ msgs \subseteq msgs'
        /\ election_ticks' = [election_ticks EXCEPT ![k] = 0]
        /\ ticked' = ticked \cup {k} /\ k \notin ticked /\ missed' = missed
    <2>1. UNCHANGED <<current_term, leader_id, state>> /\ msgs \subseteq msgs'
      BY LeaderSends DEF LeaderTick, termVars, roleVars, vars
    <2> QED BY <2>1 DEF LeaderTick, Tick
  <1>2. SUFFICES ASSUME NEW i \in Node, NEW j \in Node, Follows(j, i)', missed'[j] <= MaxLosses
                 PROVE  Heard(i, j)'
    BY DEF HeardLately
  <1>3. Follows(j, i) /\ Heard(i, j)
    BY <1>1, <1>2 DEF Follows, TimerInv, HeardLately
  <1>4. TimerTypes /\ HeartbeatInterval \in Nat \ {0}
    BY TimerAssumption DEF TimerInv
  <1>5. heartbeat_ticks \in [Node -> 0 .. HeartbeatInterval - 1] /\ election_ticks \in [Node -> Nat]
    BY <1>4 DEF TimerTypes
  <1>6. CASE j = k
    <2>1. election_ticks'[j] = 0
      BY <1>1, <1>5, <1>6
    <2>2. /\ missed'[j] \in Nat /\ HeartbeatInterval * missed'[j] \in Nat
          /\ heartbeat_ticks'[i] \in Nat
      <3>1. missed'[j] \in Nat /\ heartbeat_ticks'[i] \in Nat
        BY DEF TimerTypes
      <3> QED BY <1>4, <3>1, Products
    <2> QED BY <1>4, <2>1, <2>2 DEF Heard, Silence, OwnTick
  <1>7. CASE j # k
    <2>1. election_ticks'[j] = election_ticks[j] /\ (j \in ticked' <=> j \in ticked)
      BY <1>1, <1>5, <1>7
    <2>2. Silence(i, j) <= Silence(i, j)'
      <3>1. CASE i = k
        <4>1. Silence(i, j) = heartbeat_ticks[i] + 1 /\ i \in ticked'
          BY <1>1, <3>1 DEF Silence
        <4>2. CASE heartbeat_ticks[i] + 1 >= HeartbeatInterval
          <5>1. HeartbeatTimeout(i) /\ heartbeat_ticks' = [heartbeat_ticks EXCEPT ![i] = 0]
            BY <3>1, <4>2 DEF LeaderTick
          <5>2. heartbeat_ticks'[i] = 0 /\ UnderWay(i, j)'
            BY <1>3, <1>5, <5>1, HeartbeatUnderWay DEF Follows
          <5>3. Silence(i, j)' = HeartbeatInterval
            BY <4>1, <5>2 DEF Silence
          <5>4. heartbeat_ticks[i] \in 0 .. HeartbeatInterval - 1
            BY <1>5
          <5> QED BY <1>4, <4>1, <5>3, <5>4
        <4>3. CASE ~ (heartbeat_ticks[i] + 1 >= HeartbeatInterval)
          <5>1. heartbeat_ticks' = [heartbeat_ticks EXCEPT ![i] = heartbeat_ticks[i] + 1]
            BY <3>1, <4>3 DEF LeaderTick
          <5>2. heartbeat_ticks'[i] = heartbeat_ticks[i] + 1 /\ heartbeat_ticks[i] \in Nat
            BY <1>5, <5>1
          <5>3. Silence(i, j)' = heartbeat_ticks[i] + 1
            BY <4>1, <5>2 DEF Silence
          <5> QED BY <4>1, <5>2, <5>3
        <4> QED BY <4>2, <4>3
      <3>2. CASE i # k
        <4>1. heartbeat_ticks'[i] = heartbeat_ticks[i] /\ (i \in ticked' <=> i \in ticked)
          BY <1>1, <1>5, <3>2 DEF LeaderTick
        <4>2. UnderWay(i, j) => UnderWay(i, j)'
          BY <1>1 DEF UnderWay
        <4> QED BY <1>4, <4>1, <4>2, SilenceKept
      <3> QED BY <3>1, <3>2
    <2>3. election_ticks'[j] <= election_ticks[j] /\ missed'[j] >= missed[j]
      BY <1>1, <1>4, <2>1 DEF TimerTypes
    <2> QED BY <1>3, <1>4, <2>1, <2>2, <2>3, HeardKept
  <1> QED BY <1>6, <1>7

LEMMA HeardAtFollowerTick ==
    ASSUME TimerInv, TimerTypes', NEW k \in Node, FollowerTick(k)
    PROVE  HeardLately'
  <1>1. UNCHANGED <<heartbeat_ticks, missed>> /\ ticked' = ticked \cup {k} /\ k \notin ticked
    BY DEF FollowerTick, Tick
  <1>2. TypeOK /\ LeaderInv /\ TimerTypes /\ [Next]_vars /\ HeartbeatInterval \in Nat \ {0}
    <2>1. TNext
      BY DEF TNext
    <2> QED BY <2>1, StepOfRaft, TimerAssumption DEF TimerInv, LeaderInv, TypeInv
  <1>3. /\ election_ticks \in [Node -> Nat] /\ missed \in [Node -> Nat]
        /\ heartbeat_ticks \in [Node -> Nat]
    BY <1>2 DEF TimerTypes
  <1>4. SUFFICES ASSUME NEW i \in Node, NEW j \in Node, Follows(j, i)', missed'[j] <= MaxLosses
                 PROVE  Heard(i, j)'
    BY DEF HeardLately
  <1>5. CASE election_ticks[k] + 1 >= election_limit[k]
    <2>1. ElectionTimeout(k) /\ ResetElectionTimer(k)
      BY <1>5 DEF FollowerTick
    <2>2. /\ msgs \subseteq msgs' /\ state'[k] = "Candidate"
          /\ \A n \in Node \ {k} : SameNode(n)
      BY <1>2, <2>1, CandidateSends
    <2>3. CASE j = k
      <3>1. election_ticks'[j] = 0
        BY <1>2, <2>1, <2>3, ResetTypes
      <3>2. missed'[j] \in Nat /\ HeartbeatInterval * missed'[j] \in Nat /\ heartbeat_ticks'[i] \in Nat
        BY <1>1, <1>2, <1>3, Products
      <3> QED BY <1>2, <3>1, <3>2 DEF Heard, Silence, OwnTick
    <2>4. CASE j # k
      <3>1. Follows(j, i) /\ current_term'[i] = current_term[i] /\ i # k
        BY <1>2, <1>4, <2>2, <2>4, FollowedBefore DEF Follows
      <3>2. Heard(i, j)
        BY <1>1, <1>4, <3>1 DEF TimerInv, HeardLately
      <3>3. UnderWay(i, j) => UnderWay(i, j)'
        BY <2>2, <3>1 DEF UnderWay
      <3>4. Silence(i, j) <= Silence(i, j)'
        BY <1>1, <1>2, <3>1, <3>3, SilenceKept
      <3>5. /\ election_ticks'[j] = election_ticks[j] /\ missed'[j] = missed[j]
            /\ j \in ticked' <=> j \in ticked
        BY <1>1, <1>2, <2>1, <2>4, ResetTypes
      <3>6. election_ticks'[j] <= election_ticks[j] /\ missed'[j] >= missed[j]
        BY <1>3, <3>5
      <3> QED BY <1>2, <3>2, <3>4, <3>5, <3>6, HeardKept
    <2> QED BY <2>3, <2>4
  <1>6. CASE ~ (election_ticks[k] + 1 >= election_limit[k])
    <2>1. UNCHANGED vars /\ election_ticks' = [election_ticks EXCEPT ![k] = election_ticks[k] + 1]
      BY <1>6 DEF FollowerTick
    <2>2. UNCHANGED <<current_term, leader_id, state, msgs>>
      BY <2>1 DEF vars, termVars, roleVars
    <2>3. Follows(j, i) /\ Heard(i, j) /\ i # k
      BY <1>1, <1>4, <2>2 DEF Follows, TimerInv, HeardLately, FollowerTick
    <2>4. Silence(i, j) <= Silence(i, j)'
      <3>1. UnderWay(i, j) => UnderWay(i, j)'
        BY <2>2 DEF UnderWay
      <3> QED BY <1>1, <1>2, <2>3, <3>1, SilenceKept
    <2>5. CASE j # k
      <3>1. election_ticks'[j] <= election_ticks[j] /\ missed'[j] >= missed[j]
        BY <1>1, <1>3, <2>1, <2>5
      <3> QED BY <1>1, <1>2, <2>3, <2>4, <2>5, <3>1, HeardKept
    <2>6. CASE j = k
      <3>1. election_ticks'[j] = election_ticks[j] + 1 /\ OwnTick(j) = 0 /\ OwnTick(j)' = 1
        BY <1>1, <1>3, <2>1, <2>6 DEF OwnTick
      <3> DEFINE a == HeartbeatInterval * missed[j]
      <3>2. a \in Nat /\ election_ticks[j] \in Nat
        BY <1>2, <1>3, Products
      <3>3. election_ticks[j] <= a + Silence(i, j) /\ Silence(i, j) \in Nat
        <4>1. Silence(i, j) \in 0 .. HeartbeatInterval
          BY <1>2, SilenceBounds
        <4>2. election_ticks[j] <= a + Silence(i, j) + OwnTick(j)
          BY <2>3 DEF Heard
        <4> HIDE DEF a
        <4> QED BY <1>2, <3>1, <3>2, <4>1, <4>2
      <3>4. Silence(i, j)' \in Nat
        BY <1>1, <1>2, <1>3 DEF Silence
      <3>5. election_ticks'[j] <= a + Silence(i, j)' + OwnTick(j)'
        <4> HIDE DEF a
        <4> QED BY <2>4, <3>1, <3>2, <3>3, <3>4
      <3> QED BY <1>1, <3>5 DEF Heard
    <2> QED BY <2>5, <2>6
  <1> QED BY <1>5, <1>6
LEMMA HeardAtNextRound ==
    ASSUME TimerInv, TimerTypes', NextRound
    PROVE  HeardLately'
  <1>1. /\ UNCHANGED <<current_term, leader_id, state, election_ticks, heartbeat_ticks, missed>>
        /\ ticked = Node /\ ticked' = {} /\ msgs = {}
    BY DEF NextRound, vars, termVars, roleVars, engineVars
  <1>2. SUFFICES ASSUME NEW i \in Node, NEW j \in Node, Follows(j, i)', missed'[j] <= MaxLosses
                 PROVE  Heard(i, j)'
    BY DEF HeardLately
  <1>3. Heard(i, j)
    BY <1>1, <1>2 DEF Follows, TimerInv, HeardLately
  <1>4. /\ Silence(i, j) = heartbeat_ticks[i] /\ Silence(i, j)' = heartbeat_ticks[i] + 1
        /\ OwnTick(j) = 1 /\ OwnTick(j)' = 0
    BY <1>1 DEF Silence, OwnTick, UnderWay
  <1>5. /\ HeartbeatInterval * missed[j] \in Nat
        /\ heartbeat_ticks[i] \in Nat /\ election_ticks[j] \in Nat
    <2>1. /\ HeartbeatInterval \in Nat /\ missed[j] \in Nat
          /\ heartbeat_ticks[i] \in Nat /\ election_ticks[j] \in Nat
      BY TimerAssumption DEF TimerInv, TimerTypes
    <2> QED BY <2>1, Products
  <1> QED BY <1>1, <1>3, <1>4, <1>5 DEF Heard

LEMMA HeardAtHandle ==
    ASSUME TimerInv, TimerTypes', NEW m \in msgs, Handle(m)
    PROVE  HeardLately'
  <1>1. TypeOK /\ LeaderInv /\ TimerTypes /\ [Next]_vars /\ HeartbeatInterval \in Nat \ {0}
    <2>1. TNext
      BY DEF TNext
    <2> QED BY <2>1, StepOfRaft, TimerAssumption DEF TimerInv, LeaderInv, TypeInv
  <1>2. m.to \in Node /\ m.term \in Nat
    BY <1>1, MessageFields DEF TypeOK
  <1>3. /\ Receive(m) /\ ticked' = ticked
        /\ heartbeat_ticks' = [heartbeat_ticks EXCEPT ![m.to] =
                                 IF Wins(m) THEN 0 ELSE heartbeat_ticks[m.to]]
        /\ missed' = [missed EXCEPT ![m.to] = IF FromLeader(m) THEN 0 ELSE missed[m.to]]
    BY DEF Handle
  <1>4. /\ election_ticks \in [Node -> Nat] /\ missed \in [Node -> Nat]
        /\ heartbeat_ticks \in [Node -> 0 .. HeartbeatInterval - 1]
    BY <1>1 DEF TimerTypes
  <1>5. SUFFICES ASSUME NEW i \in Node, NEW j \in Node, Follows(j, i)', missed'[j] <= MaxLosses
                 PROVE  Heard(i, j)'
    BY DEF HeardLately
  <1>6. CASE j = m.to /\ FromLeader(m)
    <2>1. election_ticks'[j] = 0
      BY <1>1, <1>2, <1>6, ResetTypes DEF Handle, ResetsElectionTimer
    <2>2. /\ missed'[j] \in Nat /\ HeartbeatInterval * missed'[j] \in Nat
          /\ heartbeat_ticks'[i] \in Nat
      <3>1. missed'[j] \in Nat /\ heartbeat_ticks'[i] \in Nat
        BY DEF TimerTypes
      <3> QED BY <1>1, <3>1, Products
    <2> QED BY <1>1, <2>1, <2>2 DEF Heard, Silence, OwnTick
  <1>7. CASE ~ (j = m.to /\ FromLeader(m))
    <2>1. SameNode(j)
      <3>1. i # j /\ leader_id'[j] = i /\ i # None
        BY <1>5, NodeAssumption DEF Follows
      <3> QED BY <1>1, <1>3, <1>7, <3>1, HandlerChanges DEF ReceiverChanges
    <2>2. Follows(j, i) /\ current_term'[i] = current_term[i]
      BY <1>1, <1>5, <2>1, FollowedBefore
    <2>3. missed'[j] = missed[j] /\ missed[j] \in Nat
      BY <1>2, <1>3, <1>4, <1>7
    <2>4. Heard(i, j)
      BY <1>5, <2>2, <2>3 DEF TimerInv, HeardLately
    <2>5. election_ticks'[j] \in {0, election_ticks[j]}
      BY <1>1, <1>2, ResetTypes DEF Handle
    <2>6. heartbeat_ticks'[i] = heartbeat_ticks[i]
      <3>1. i = m.to => ~ Wins(m)
        BY <2>2 DEF Follows, Wins, CountsAsVote
      <3> QED BY <1>2, <1>3, <1>4, <3>1
    <2>7. UnderWay(i, j) => UnderWay(i, j)'
      <3>1. ASSUME NEW r \in msgs, r.kind = "AppendEntries", r.from = i, r.to = j,
                   r.term = current_term[i]
            PROVE  r \in msgs'
        <4>1. current_term[j] = current_term[i] /\ current_term[i] \in Nat
          BY <1>1, <2>2 DEF Follows, TypeOK
        <4>2. r = m => j = m.to /\ FromLeader(m)
          BY <1>2, <3>1, <4>1 DEF FromLeader
        <4> QED BY <1>1, <1>3, <1>7, <4>2, HandlerSends
      <3> QED BY <2>2, <3>1, UnderWayKept
    <2>8. Silence(i, j) <= Silence(i, j)'
      BY <1>1, <1>3, <2>6, <2>7, SilenceKept
    <2>9. election_ticks'[j] <= election_ticks[j] /\ missed'[j] >= missed[j]
      BY <1>4, <2>3, <2>5
    <2> QED BY <1>1, <1>3, <2>4, <2>8, <2>9, HeardKept
  <1> QED BY <1>6, <1>7

LEMMA HeardAtLose ==
    ASSUME TimerInv, TimerTypes', NEW m \in msgs, Lose(m)
    PROVE  HeardLately'
  <1>1. TypeOK /\ TimerTypes /\ HeartbeatInterval \in Nat \ {0} /\ MaxLosses \in Nat
    BY TimerAssumption DEF TimerInv, LeaderInv, TypeInv
  <1>2. m.to \in Node
    BY <1>1, MessageFields DEF TypeOK
  <1>3. /\ UNCHANGED <<current_term, leader_id, state, election_ticks, heartbeat_ticks, ticked>>
        /\ msgs' = msgs \ {m}
        /\ missed' = [missed EXCEPT ![m.to] = IF m.kind = "AppendEntries"
                                              THEN Smaller(missed[m.to] + 1, MaxLosses + 1)
                                              ELSE missed[m.to]]
    BY DEF Lose, Drop, termVars, roleVars, engineVars
  <1>4. /\ election_ticks \in [Node -> Nat] /\ missed \in [Node -> Nat]
        /\ heartbeat_ticks \in [Node -> 0 .. HeartbeatInterval - 1]
    BY <1>1 DEF TimerTypes
  <1>5. SUFFICES ASSUME NEW i \in Node, NEW j \in Node, Follows(j, i)', missed'[j] <= MaxLosses
                 PROVE  Heard(i, j)'
    BY DEF HeardLately
  <1>6. Follows(j, i)
    BY <1>3, <1>5 DEF Follows
  <1>7. CASE j = m.to /\ m.kind = "AppendEntries"
    <2>1. missed'[j] = missed[j] + 1 /\ missed[j] \in Nat
      BY <1>1, <1>2, <1>3, <1>4, <1>5, <1>7 DEF Smaller
    <2>2. missed[j] <= MaxLosses
      BY <1>1, <1>5, <2>1
    <2>3. Heard(i, j)
      BY <1>6, <2>2 DEF TimerInv, HeardLately
    <2> DEFINE a == HeartbeatInterval * missed[j]
    <2>4. a \in Nat /\ HeartbeatInterval * missed'[j] = a + HeartbeatInterval
      BY <1>1, <2>1, Products
    <2>5. /\ election_ticks'[j] = election_ticks[j] /\ OwnTick(j)' = OwnTick(j)
          /\ election_ticks[j] <= a + Silence(i, j) + OwnTick(j)
      BY <1>3, <2>3 DEF Heard, OwnTick
    <2>6. /\ Silence(i, j) \in 0 .. HeartbeatInterval /\ OwnTick(j) \in 0 .. 1
          /\ election_ticks[j] \in Nat
      BY <1>1, <1>4, SilenceBounds
    <2>7. Silence(i, j)' \in Nat
      <3>1. heartbeat_ticks'[i] \in Nat
        BY <1>3, <1>4
      <3> QED BY <1>1, <3>1 DEF Silence
    <2>8. election_ticks'[j] <= HeartbeatInterval * missed'[j] + Silence(i, j)' + OwnTick(j)'
      <3> HIDE DEF a
      <3> QED BY <1>1, <2>4, <2>5, <2>6, <2>7
    <2> QED BY <2>8 DEF Heard
  <1>8. CASE ~ (j = m.to /\ m.kind = "AppendEntries")
    <2>1. missed'[j] = missed[j] /\ missed[j] \in Nat
      BY <1>2, <1>3, <1>4, <1>8
    <2>2. Heard(i, j)
      BY <1>5, <1>6, <2>1 DEF TimerInv, HeardLately
    <2>3. UnderWay(i, j) => UnderWay(i, j)'
      BY <1>3, <1>8 DEF UnderWay
    <2>4. Silence(i, j) <= Silence(i, j)'
      BY <1>1, <1>3, <2>3, SilenceKept
    <2>5. election_ticks'[j] <= election_ticks[j] /\ missed'[j] >= missed[j]
      BY <1>3, <1>4, <2>1
    <2> QED BY <1>1, <1>3, <2>2, <2>4, <2>5, HeardKept
  <1> QED BY <1>7, <1>8

LEMMA HeardAtClientRequest ==
    ASSUME TimerInv, TimerTypes', NEW k \in Node, NEW c \in Command, TClientRequest(k, c)
    PROVE  HeardLately'
  <1>1. /\ UNCHANGED <<current_term, leader_id, state>> /\ msgs \subseteq msgs'
        /\ UNCHANGED <<election_ticks, heartbeat_ticks, ticked, missed>>
    BY LeaderSends DEF TClientRequest, timerVars, engineVars, termVars, roleVars
  <1>2. SUFFICES ASSUME NEW i \in Node, NEW j \in Node, Follows(j, i)', missed'[j] <= MaxLosses
                 PROVE  Heard(i, j)'
    BY DEF HeardLately
  <1>3. Heard(i, j) /\ TimerTypes
    BY <1>1, <1>2 DEF Follows, TimerInv, HeardLately
  <1>4. UnderWay(i, j) => UnderWay(i, j)'
    BY <1>1 DEF UnderWay
  <1>5. Silence(i, j) <= Silence(i, j)'
    BY <1>1, <1>3, <1>4, SilenceKept
  <1>6. election_ticks'[j] <= election_ticks[j] /\ missed'[j] >= missed[j]
    BY <1>1, <1>3 DEF TimerTypes
  <1> QED BY <1>1, <1>3, <1>5, <1>6, HeardKept

LEMMA HeardLatelyNext ==
    ASSUME TimerInv, [TNext]_tvars
    PROVE  TimerTypes' /\ HeardLately'
  <1>1. TimerTypes'
    BY TimerTypesNext DEF TimerInv, LeaderInv, TypeInv
  <1>2. CASE UNCHANGED tvars
    <2>1. UNCHANGED <<current_term, leader_id, state, msgs, election_ticks, heartbeat_ticks,
                      ticked, missed>>
      BY <1>2 DEF tvars, vars, termVars, roleVars, timerVars, engineVars
    <2> QED BY <1>1, <2>1 DEF TimerInv, HeardLately, Heard, Follows, Silence, OwnTick, UnderWay
  <1>3. CASE TNext
    BY <1>1, <1>3, HeardAtLeaderTick, HeardAtFollowerTick, HeardAtNextRound, HeardAtHandle,
       HeardAtLose, HeardAtClientRequest DEF TNext
  <1> QED BY <1>1, <1>2, <1>3

LEMMA TimersStart == TInit => TermsBehind /\ TimerTypes /\ HeardLately
  <1> SUFFICES ASSUME TInit PROVE TermsBehind /\ TimerTypes /\ HeardLately
    OBVIOUS
  <1>1. HeartbeatInterval \in Nat \ {0}
    BY TimerAssumption
  <1>2. TermsBehind
    BY DEF TInit, Init, TermsBehind
  <1>3. TimerTypes
    BY <1>1 DEF TInit, TimerTypes
  <1>4. HeardLately
    BY DEF TInit, Init, HeardLately, Follows
  <1> QED BY <1>2, <1>3, <1>4

\* In every state of a cluster with timers the counter of a node that follows a leader
\* is bounded by the heartbeats it has missed and the rounds since the last one.
THEOREM TimersHeardLately == TSpec => []TimerInv
  <1>1. TSpec => []LeaderInv
    BY TimersImplementRaft, ReplicationHolds, PTL DEF ReplicationInv
  <1>2. TInit => TermsBehind /\ TimerTypes /\ HeardLately
    BY TimersStart
  <1>3. LeaderInv /\ TermsBehind /\ TimerTypes /\ HeardLately /\ [TNext]_tvars
          => (TermsBehind /\ TimerTypes /\ HeardLately)'
    <2>1. [TNext]_tvars => [Next]_vars
      BY StepOfRaft DEF tvars
    <2> QED BY <2>1, TermsBehindNext, HeardLatelyNext DEF TimerInv
  <1> QED BY <1>1, <1>2, <1>3, PTL DEF TSpec, TimerInv

-----------------------------------------------------------------------------
(* A recognized leader stays recognized *)

\* No counter of a node that follows a leader reaches its limit.
LEMMA NoTimeoutUnderLeader ==
    ASSUME TimerInv, NEW i \in Node, NEW j \in Node, Follows(j, i), missed[j] <= MaxLosses,
           j \notin ticked
    PROVE  ~ (election_ticks[j] + 1 >= election_limit[j])
  <1>1. /\ HeartbeatInterval \in Nat \ {0} /\ MaxLosses \in Nat /\ MinTimeout \in Nat
        /\ MaxTimeout \in Nat /\ HeartbeatInterval * (MaxLosses + 1) + 1 < MinTimeout
    BY TimerAssumption
  <1>2. /\ missed[j] \in Nat /\ election_ticks[j] \in Nat
        /\ election_limit[j] \in MinTimeout .. MaxTimeout
    BY DEF TimerInv, TimerTypes, Limits
  <1>3. Silence(i, j) \in 0 .. HeartbeatInterval /\ OwnTick(j) = 0
    BY SilenceBounds DEF TimerInv, OwnTick
  <1> DEFINE a == HeartbeatInterval * missed[j]
             b == HeartbeatInterval * MaxLosses
  <1>4. /\ a \in Nat /\ b \in Nat /\ a <= b
        /\ HeartbeatInterval * (MaxLosses + 1) = b + HeartbeatInterval
    BY <1>1, <1>2, Products
  <1>5. election_ticks[j] <= a + Silence(i, j) + OwnTick(j)
    BY DEF TimerInv, HeardLately, Heard
  <1>6. b + HeartbeatInterval + 1 < MinTimeout
    BY <1>1, <1>4
  <1> HIDE DEF a, b
  <1> QED BY <1>1, <1>2, <1>3, <1>4, <1>5, <1>6

\* No message changes anybody's mind while all recognize the leader.
LEMMA RecognizedAtHandle ==
    ASSUME TimerInv, LeaderInv', NEW i \in Node, Recognized(i), NEW m \in msgs, Receive(m)
    PROVE  Recognized(i)'
  <1>1. LeaderInv /\ TypeOK /\ [Next]_vars
    BY DEF TimerInv, LeaderInv, TypeInv, Next
  <1>2. m.to \in Node /\ m.from \in Node /\ m.term \in Nat
    BY <1>1, MessageFields DEF TypeOK
  <1>3. /\ current_term[i] \in Nat /\ state[i] = "Leader" /\ i # None
        /\ \A j \in Node : current_term[j] = current_term[i] /\ leader_id[j] = i
    BY <1>1, NodeAssumption DEF TypeOK, Recognized
  <1>4. Elected(current_term[i], i)
    BY <1>1, <1>3 DEF LeaderInv, HintInv, LeaderHintSound, Elected
  <1>5. m.term <= current_term[i]
    BY <1>2, <1>3 DEF TimerInv, TermsBehind
  <1>6. CASE FromLeader(m)
    <2>1. m.kind = "AppendEntries" /\ m.term = current_term[i]
      BY <1>2, <1>3, <1>5, <1>6 DEF FromLeader
    <2>2. Elected(m.term, m.from)
      BY <1>1, <2>1 DEF LeaderInv, HintInv, EntriesFromElected
    <2>3. m.from = i
      BY <1>1, <1>4, <2>1, <2>2, OneLeader
    <2>4. m.to # i
      BY <1>1, <2>1, <2>3 DEF LeaderInv, RoleInv
    <2>5. ~ Wins(m) /\ ~ (m.term > current_term[m.to])
      BY <1>2, <1>3, <2>1 DEF Wins, CountsAsVote
    <2>6. /\ leader_id'[m.to] = i /\ current_term'[m.to] = current_term[i]
          /\ \A j \in Node \ {m.to} : SameNode(j)
      BY <1>1, <1>2, <1>3, <2>1, <2>3, <2>5, HandlerChanges DEF ReceiverChanges, SameNode
    <2> QED BY <1>2, <1>3, <2>4, <2>6 DEF SameNode, Recognized
  <1>7. CASE ~ FromLeader(m)
    <2>1. ~ (m.term > current_term[m.to])
      BY <1>2, <1>3, <1>5
    <2>2. ~ Wins(m) \/ leader_id'[m.to] # m.to
      <3>1. SUFFICES ASSUME Wins(m), leader_id'[m.to] = m.to PROVE FALSE
        OBVIOUS
      <3>2. m.to # i /\ current_term'[m.to] = current_term[m.to]
        BY <1>3, <3>1, <1>1, <1>2, <2>1, <1>7, HandlerChanges
           DEF Wins, CountsAsVote, ReceiverChanges, SameNode
      <3>3. PICK t : t = current_term[i]
        OBVIOUS
      <3>4. Elected(t, m.to)'
        BY <1>2, <1>3, <3>1, <3>2, <3>3, NodeAssumption
           DEF LeaderInv, HintInv, LeaderHintSound, Elected
      <3>5. Elected(t, i)'
        BY <1>1, <1>4, <3>3, RolesChange DEF RoleChanges, Elected
      <3> QED BY <3>2, <3>4, <3>5, OneLeaderPrimed
    <2>3. \A j \in Node : SameNode(j)
      BY <1>1, <1>2, <1>7, <2>1, <2>2, HandlerChanges DEF ReceiverChanges
    <2> QED BY <1>3, <2>3 DEF SameNode, Recognized
  <1> QED BY <1>6, <1>7

LEMMA StableLeaderStep ==
    ASSUME TimerInv, TimerInv', [TNext]_tvars, NEW i \in Node, Recognized(i), FewLosses
    PROVE  Recognized(i)'
  <1>1. CASE UNCHANGED tvars
    BY <1>1 DEF tvars, vars, termVars, roleVars, Recognized
  <1>2. ASSUME NEW k \in Node, LeaderTick(k) PROVE Recognized(i)'
    BY <1>2, LeaderSends DEF LeaderTick, vars, termVars, roleVars, Recognized
  <1>3. ASSUME NEW k \in Node, FollowerTick(k) PROVE Recognized(i)'
    <2>1. Follows(k, i) /\ missed[k] <= MaxLosses /\ k \notin ticked
      BY <1>3 DEF FollowerTick, Tick, Follows, Recognized, FewLosses
    <2>2. UNCHANGED vars
      BY <1>3, <2>1, NoTimeoutUnderLeader DEF FollowerTick
    <2> QED BY <2>2 DEF vars, termVars, roleVars, Recognized
  <1>4. CASE NextRound
    BY <1>4 DEF NextRound, vars, termVars, roleVars, Recognized
  <1>5. ASSUME NEW m \in msgs, Handle(m) PROVE Recognized(i)'
    <2>1. LeaderInv'
      BY DEF TimerInv
    <2> QED BY <1>5, <2>1, RecognizedAtHandle DEF Handle
  <1>6. ASSUME NEW m \in msgs, Lose(m) PROVE Recognized(i)'
    BY <1>6 DEF Lose, Drop, termVars, roleVars, Recognized
  <1>7. ASSUME NEW k \in Node, NEW c \in Command, TClientRequest(k, c) PROVE Recognized(i)'
    BY <1>7, LeaderSends DEF TClientRequest, termVars, roleVars, Recognized
  <1> QED BY <1>1, <1>2, <1>3, <1>4, <1>5, <1>6, <1>7 DEF TNext

\* A leader everybody has heard of stays the leader for as long as no node misses more
\* than MaxLosses of its messages in a row: by HeardLately no counter reaches its limit
\* (node.rs draws it from 30 to 149 ticks), by TermsBehind no message brings a newer
\* term, and nobody else can win its term.
THEOREM LeaderIsStable == TSpec => StableLeader
  <1>1. ASSUME TimerInv, TimerInv', [TNext]_tvars
        PROVE  [\A i \in Node : Recognized(i) /\ FewLosses /\ FewLosses' => Recognized(i)']_tvars
    BY <1>1, StableLeaderStep
  <1> QED BY <1>1, TimersHeardLately, PTL DEF TSpec, StableLeader
=============================================================================
