------------------------- MODULE RaftElectionProofs -------------------------
(***************************************************************************)
(* Election safety of the Raft core, for any number of nodes, any bounds   *)
(* and any relay.                                                          *)
(*                                                                         *)
(* What is counted must have been cast, and what is cast stays cast: the   *)
(* history of ballots is tied to the voters' current term and vote         *)
(* (BallotsHeld), to the granted replies the relay holds                   *)
(* (GrantsAreBallots), to the votes a candidate has counted                *)
(* (CountedAreBallots), and to the elections won (WonByMajority).  Two     *)
(* majorities share a voter, and a voter votes once in a term.             *)
(***************************************************************************)
EXTENDS RaftTypeProofs, FiniteSetTheorems

Ballot(v, t, c) == [voter |-> v, term |-> t, candidate |-> c]

\* A voter remembers its vote of the current term and has none of a later one.
BallotsHeld ==
    \A b \in ballots :
        /\ b.term <= current_term[b.voter]
        /\ b.term = current_term[b.voter] => voted_for[b.voter] = b.candidate

\* A granted reply, however late or often it arrives, stands for a vote cast.
GrantsAreBallots ==
    \A m \in msgs :
        m.kind = "VoteReply" /\ m.vote_granted => Ballot(m.from, m.term, m.to) \in ballots

\* A candidate counts only votes cast for it in its current term.
CountedAreBallots ==
    \A i \in Node : state[i] = "Candidate" =>
        \A v \in votes_received[i] : Ballot(v, current_term[i], i) \in ballots

Voters(t, c) == {v \in Node : Ballot(v, t, c) \in ballots}

\* Whoever was elected has the votes of a majority of the nodes.
WonByMajority == \A e \in elected : IsMajority(Voters(e.term, e.node))

BallotInv ==
    /\ BallotsHeld
    /\ VoteOncePerTerm
    /\ GrantsAreBallots
    /\ CountedAreBallots
    /\ WonByMajority

-----------------------------------------------------------------------------

\* No granted reply is sent, terms do not decrease, a vote stays while the term
\* does, and a candidate that stays one keeps its term and its votes.
Quiet ==
    /\ UNCHANGED history
    /\ \A m \in msgs' : m.kind = "VoteReply" /\ m.vote_granted => m \in msgs
    /\ \A j \in Node :
        /\ current_term'[j] >= current_term[j]
        /\ current_term'[j] = current_term[j] => voted_for'[j] = voted_for[j]
        /\ state'[j] = "Candidate" =>
              /\ state[j] = "Candidate"
              /\ current_term'[j] = current_term[j]
              /\ votes_received'[j] = votes_received[j]

\* A quiet step keeps the ballots, the counts and the elections consistent.
LEMMA QuietStep ==
    ASSUME TypeOK, BallotInv, Quiet, TypeOK'
    PROVE  BallotInv'
  <1>1. BallotsHeld'
    <2> SUFFICES ASSUME NEW b \in ballots
                 PROVE  /\ b.term <= current_term'[b.voter]
                        /\ b.term = current_term'[b.voter] =>
                              voted_for'[b.voter] = b.candidate
      BY DEF BallotsHeld, Quiet, history
    <2>1. b.voter \in Node /\ b.term \in Nat
      BY DEF TypeOK
    <2>2. current_term[b.voter] \in Nat /\ current_term'[b.voter] \in Nat
      BY <2>1 DEF TypeOK
    <2>3. /\ b.term <= current_term[b.voter]
          /\ b.term = current_term[b.voter] => voted_for[b.voter] = b.candidate
      BY DEF BallotInv, BallotsHeld
    <2>4. /\ current_term'[b.voter] >= current_term[b.voter]
          /\ current_term'[b.voter] = current_term[b.voter] =>
                voted_for'[b.voter] = voted_for[b.voter]
      BY <2>1 DEF Quiet
    <2> QED BY <2>1, <2>2, <2>3, <2>4
  <1>2. VoteOncePerTerm'
    BY DEF BallotInv, VoteOncePerTerm, Quiet, history
  <1>3. GrantsAreBallots'
    BY DEF BallotInv, GrantsAreBallots, Quiet, history
  <1>4. CountedAreBallots'
    BY DEF BallotInv, CountedAreBallots, Quiet, history
  <1>5. WonByMajority'
    BY DEF BallotInv, WonByMajority, Voters, Quiet, history
  <1> QED BY <1>1, <1>2, <1>3, <1>4, <1>5 DEF BallotInv

\* What a handler sends other than a granted vote reply is quiet.
LEMMA QuietReply ==
    ASSUME NEW m \in msgs, NEW sent, Reply(m, sent),
           \A r \in sent : ~ (r.kind = "VoteReply" /\ r.vote_granted)
    PROVE  \A r \in msgs' : r.kind = "VoteReply" /\ r.vote_granted => r \in msgs
  BY DEF Reply

LEMMA QuietTimeout ==
    ASSUME TypeOK, NEW i \in Node,
           HeartbeatTimeout(i) \/ \E c \in Command : ClientRequest(i, c)
    PROVE  Quiet
  <1>1. UNCHANGED <<termVars, roleVars, history>>
    BY DEF HeartbeatTimeout, ClientRequest
  <1>2. \A r \in msgs' \ msgs : r.kind = "AppendEntries"
    <2>1. \A j, next, l, commit : AppendEntriesArgs(i, j, next, l, commit).kind = "AppendEntries"
      BY DEF AppendEntriesArgs
    <2>2. CASE HeartbeatTimeout(i)
      <3>1. msgs' = msgs \cup {AppendEntriesArgs(i, j, next_indices[i][j], log[i],
                                                 committed_index[i]) : j \in Peers(i)}
        BY <2>2 DEF HeartbeatTimeout, Send
      <3> QED BY <2>1, <3>1
    <2>3. CASE \E c \in Command : ClientRequest(i, c)
      <3>1. PICK next, l :
              msgs' = msgs \cup {AppendEntriesArgs(i, j, next, l, committed_index[i]) :
                                   j \in Peers(i)}
        BY <2>3 DEF ClientRequest, Send
      <3> QED BY <2>1, <3>1
    <2> QED BY <2>2, <2>3
  <1>3. \A r \in msgs' : r.kind = "VoteReply" /\ r.vote_granted => r \in msgs
    BY <1>2
  <1>4. /\ ballots' = ballots /\ elected' = elected /\ state' = state
        /\ votes_received' = votes_received
        /\ current_term' = current_term /\ voted_for' = voted_for
    BY <1>1 DEF termVars, roleVars, history
  <1>5. \A j \in Node : current_term[j] \in Nat
    BY DEF TypeOK
  <1> QED BY <1>3, <1>4, <1>5 DEF Quiet, history

\* A node that adopts the term of a message has no vote and no count to keep.
LEMMA QuietTerms ==
    ASSUME TypeOK, NEW i \in Node, NEW term \in Nat, term >= current_term[i],
           UNCHANGED history,
           \A m \in msgs' : m.kind = "VoteReply" /\ m.vote_granted => m \in msgs,
           current_term' = [current_term EXCEPT ![i] = term],
           voted_for' = [voted_for EXCEPT ![i] = VoteIn(i, term)],
           \/ BecomeFollower(i)
           \/ term = current_term[i] /\ UNCHANGED roleVars
    PROVE  Quiet
  <1>1. /\ current_term \in [Node -> Nat] /\ state \in [Node -> {"Follower", "Candidate", "Leader"}]
        /\ voted_for \in [Node -> Node \cup {None}]
        /\ votes_received \in [Node -> SUBSET Node]
    BY DEF TypeOK
  <1>2. CASE BecomeFollower(i)
    BY <1>1, <1>2 DEF Quiet, VoteIn, BecomeFollower, history
  <1>3. CASE term = current_term[i] /\ UNCHANGED roleVars
    BY <1>1, <1>3 DEF Quiet, VoteIn, roleVars, history
  <1> QED BY <1>2, <1>3

LEMMA QuietVotes ==
    ASSUME TypeOK, NEW m \in msgs,
           \/ RejectStaleVote(m)
           \/ DenyVote(m)
           \/ NewerTermReply(m)
    PROVE  Quiet
  <1> DEFINE i == m.to
  <1>1. m.from \in Node /\ i \in Node /\ m.term \in Nat
    BY MessageFields DEF TypeOK
  <1>2. current_term[i] \in Nat
    BY <1>1 DEF TypeOK
  <1>3. \A r \in msgs' : r.kind = "VoteReply" /\ r.vote_granted => r \in msgs
    BY QuietReply DEF RejectStaleVote, DenyVote, NewerTermReply, VoteReply
  <1>4. CASE RejectStaleVote(m)
    BY <1>3, <1>4 DEF RejectStaleVote, Quiet, TypeOK, termVars, roleVars
  <1>5. CASE DenyVote(m)
    <2>1. \/ BecomeFollower(i)
          \/ m.term = current_term[i] /\ UNCHANGED roleVars
      <3>1. CASE m.term > current_term[i]
        <4>1. AdoptTerm(i, m.term)
          BY <1>5 DEF DenyVote
        <4>2. BecomeFollower(i)
          BY <3>1, <4>1 DEF AdoptTerm
        <4> QED BY <4>2
      <3>2. CASE ~ (m.term > current_term[i])
        <4>1. m.term = current_term[i]
          BY <1>1, <1>2, <1>5, <3>2 DEF DenyVote
        <4>2. UNCHANGED roleVars
          BY <1>5, <3>2 DEF DenyVote, AdoptTerm, roleVars
        <4> QED BY <4>1, <4>2
      <3> QED BY <3>1, <3>2
    <2> QED BY <1>1, <1>3, <1>5, <2>1, QuietTerms DEF DenyVote, AdoptTerm
  <1>6. CASE NewerTermReply(m)
    <2>1. voted_for' = [voted_for EXCEPT ![i] = VoteIn(i, m.term)]
      BY <1>6 DEF NewerTermReply, StepDown, VoteIn
    <2>2. m.term >= current_term[i]
      BY <1>1, <1>2, <1>6 DEF NewerTermReply
    <2> QED BY <1>1, <1>3, <1>6, <2>1, <2>2, QuietTerms DEF NewerTermReply, StepDown
  <1> QED BY <1>4, <1>5, <1>6

LEMMA QuietReplication ==
    ASSUME TypeOK, NEW m \in msgs,
           \/ RejectStaleEntries(m)
           \/ RejectUnmatchedEntries(m)
           \/ AcceptEntries(m)
           \/ EntriesReplicated(m)
           \/ EntriesRejected(m)
           \/ IgnoreReply(m)
           \/ Drop(m)
    PROVE  Quiet
  <1> DEFINE i == m.to
  <1>1. m.from \in Node /\ i \in Node /\ m.term \in Nat
    BY MessageFields DEF TypeOK
  <1>2. \A r \in msgs' : r.kind = "VoteReply" /\ r.vote_granted => r \in msgs
    <2>1. /\ \A a, b, t, s, x : AppendReply(a, b, t, s, x).kind = "AppendReply"
          /\ \A a, b, n, l, c : AppendEntriesArgs(a, b, n, l, c).kind = "AppendEntries"
      BY DEF AppendReply, AppendEntriesArgs
    <2>2. CASE RejectStaleEntries(m) \/ RejectUnmatchedEntries(m) \/ AcceptEntries(m)
      <3>1. PICK t, s, x : Reply(m, {AppendReply(m.to, m.from, t, s, x)})
        BY <2>2 DEF RejectStaleEntries, RejectUnmatchedEntries, AcceptEntries, AcceptReply
      <3>2. ~ (AppendReply(m.to, m.from, t, s, x).kind = "VoteReply")
        BY <2>1
      <3> QED BY <3>1, <3>2, QuietReply
    <2>3. CASE EntriesRejected(m)
      <3>1. PICK n : Reply(m, {AppendEntriesArgs(m.to, m.from, n, log[m.to],
                                                 committed_index[m.to])})
        BY <2>3 DEF EntriesRejected
      <3>2. ~ (AppendEntriesArgs(m.to, m.from, n, log[m.to], committed_index[m.to]).kind
                 = "VoteReply")
        BY <2>1
      <3> QED BY <3>1, <3>2, QuietReply
    <2>4. CASE EntriesReplicated(m) \/ IgnoreReply(m)
      <3>1. Reply(m, {})
        BY <2>4 DEF EntriesReplicated, IgnoreReply
      <3> QED BY <3>1, QuietReply
    <2>5. CASE Drop(m)
      BY <2>5 DEF Drop
    <2> QED BY <2>2, <2>3, <2>4, <2>5
  <1>3. CASE RejectUnmatchedEntries(m) \/ AcceptEntries(m)
    BY <1>1, <1>2, <1>3, QuietTerms
    DEF RejectUnmatchedEntries, AcceptEntries, RecognizeLeader
  <1>4. CASE \/ RejectStaleEntries(m) \/ EntriesReplicated(m) \/ EntriesRejected(m)
             \/ IgnoreReply(m) \/ Drop(m)
    <2>1. UNCHANGED <<termVars, state, votes_received, history>>
      BY <1>4
      DEF RejectStaleEntries, EntriesReplicated, EntriesRejected, IgnoreReply, Drop, roleVars
    <2> QED BY <1>2, <2>1 DEF Quiet, TypeOK, termVars
  <1> QED BY <1>3, <1>4

-----------------------------------------------------------------------------
(* The steps that cast, grant, count or win *)

\* New ballots leave every count and every election won where they were.
LEMMA MoreBallots ==
    ASSUME TypeOK, WonByMajority, ballots \subseteq ballots', UNCHANGED elected,
           IsFiniteSet(Node)
    PROVE  WonByMajority'
  <1> SUFFICES ASSUME NEW e \in elected
               PROVE  IsMajority(Voters(e.term, e.node)')
    BY DEF WonByMajority
  <1> DEFINE V == Voters(e.term, e.node)
             W == {v \in Node : Ballot(v, e.term, e.node) \in ballots'}
  <1>1. V \subseteq W /\ W \subseteq Node
    BY DEF Voters
  <1>2. IsFiniteSet(W)
    BY <1>1, FS_Subset
  <1>3. /\ Cardinality(V) <= Cardinality(W)
        /\ Cardinality(V) \in Nat /\ Cardinality(W) \in Nat /\ Cardinality(Node) \in Nat
    BY <1>1, <1>2, FS_Subset, FS_CardinalityType
  <1>4. IsMajority(V)
    BY DEF WonByMajority
  <1>5. IsMajority(W)
    <2> HIDE DEF V, W
    <2> QED BY <1>3, <1>4 DEF IsMajority
  <1> QED BY <1>5 DEF Voters, Ballot

LEMMA TimeoutStep ==
    ASSUME TypeOK, BallotInv, NEW i \in Node, ElectionTimeout(i)
    PROVE  BallotInv'
  <1> DEFINE t == current_term[i] + 1
             own == Ballot(i, t, i)
  <1>1. t \in Nat /\ current_term[i] \in Nat
    BY DEF TypeOK
  <1>2. /\ current_term' = [current_term EXCEPT ![i] = t]
        /\ voted_for' = [voted_for EXCEPT ![i] = i]
        /\ state' = [state EXCEPT ![i] = "Candidate"]
        /\ votes_received' = [votes_received EXCEPT ![i] = {i}]
        /\ ballots' = ballots \cup {own}
        /\ elected' = elected
    BY DEF ElectionTimeout, Ballot
  <1>3. \A m \in msgs' : m.kind = "VoteReply" => m \in msgs
    BY DEF ElectionTimeout, Send
  <1>4. own.voter = i /\ own.term = t /\ own.candidate = i
    BY DEF Ballot
  <1>5. \A b \in ballots : b.voter = i => b.term < t
    <2> SUFFICES ASSUME NEW b \in ballots, b.voter = i PROVE b.term < t
      OBVIOUS
    <2>1. b.term <= current_term[i]
      BY DEF BallotInv, BallotsHeld
    <2>2. b.term \in Nat
      BY DEF TypeOK
    <2> QED BY <1>1, <2>1, <2>2
  <1> HIDE DEF own
  <1>6. BallotsHeld'
    <2> SUFFICES ASSUME NEW b \in ballots'
                 PROVE  /\ b.term <= current_term'[b.voter]
                        /\ b.term = current_term'[b.voter] => voted_for'[b.voter] = b.candidate
      BY DEF BallotsHeld
    <2>1. current_term'[i] = t /\ voted_for'[i] = i
      BY <1>2 DEF TypeOK
    <2>2. CASE b = own
      BY <1>1, <1>4, <2>1, <2>2
    <2>3. CASE b \in ballots /\ b.voter = i
      <3>1. b.term \in Nat /\ b.term < t
        BY <1>5, <2>3 DEF TypeOK
      <3> QED BY <1>1, <2>1, <2>3, <3>1
    <2>4. CASE b \in ballots /\ b.voter # i
      <3>1. current_term'[b.voter] = current_term[b.voter] /\ voted_for'[b.voter] = voted_for[b.voter]
        BY <1>2, <2>4 DEF TypeOK
      <3> QED BY <2>4, <3>1 DEF BallotInv, BallotsHeld
    <2> QED BY <1>2, <2>2, <2>3, <2>4
  <1>7. VoteOncePerTerm'
    <2>1. \A b \in ballots : ~ (b.voter = i /\ b.term = t)
      <3> SUFFICES ASSUME NEW b \in ballots, b.voter = i, b.term = t PROVE FALSE
        OBVIOUS
      <3>1. b.term < t
        BY <1>5
      <3> HIDE DEF t
      <3> QED BY <1>1, <3>1
    <2> QED BY <1>2, <1>4, <2>1 DEF BallotInv, VoteOncePerTerm
  <1>8. GrantsAreBallots'
    BY <1>2, <1>3 DEF BallotInv, GrantsAreBallots
  <1>9. CountedAreBallots'
    BY <1>2 DEF BallotInv, CountedAreBallots, TypeOK, own
  <1>10. WonByMajority'
    BY <1>2, MoreBallots, NodeAssumption DEF BallotInv
  <1> QED BY <1>6, <1>7, <1>8, <1>9, <1>10 DEF BallotInv

LEMMA GrantStep ==
    ASSUME TypeOK, BallotInv, NEW m \in msgs, GrantVote(m)
    PROVE  BallotInv'
  <1> DEFINE i == m.to
             c == m.from
             new == Ballot(i, m.term, c)
  <1>1. c \in Node /\ i \in Node /\ m.term \in Nat /\ current_term[i] \in Nat
    BY MessageFields DEF TypeOK
  <1>2. /\ m.term >= current_term[i]
        /\ current_term' = [current_term EXCEPT ![i] = m.term]
        /\ voted_for' = [voted_for EXCEPT ![i] = c]
        /\ ballots' = ballots \cup {new}
        /\ elected' = elected
    BY DEF GrantVote, AdoptTerm, Ballot
  <1>3. m.term = current_term[i] => voted_for[i] \in {None, c}
    BY <1>1 DEF GrantVote, CanVote, VoteIn
  <1>4. new.voter = i /\ new.term = m.term /\ new.candidate = c
    BY DEF Ballot
  <1>5. \A b \in ballots : b.voter = i /\ b.term >= m.term => b.term = m.term /\ b.candidate = c
    <2> SUFFICES ASSUME NEW b \in ballots, b.voter = i, b.term >= m.term
                 PROVE  b.term = m.term /\ b.candidate = c
      OBVIOUS
    <2>1. /\ b.term \in Nat /\ b.candidate \in Node
          /\ b.term <= current_term[i]
          /\ b.term = current_term[i] => voted_for[i] = b.candidate
      BY DEF TypeOK, BallotInv, BallotsHeld
    <2>2. b.term = m.term /\ m.term = current_term[i]
      BY <1>1, <1>2, <2>1
    <2> QED BY <1>3, <2>1, <2>2, NodeAssumption
  <1> HIDE DEF new
  <1>6. BallotsHeld'
    <2> SUFFICES ASSUME NEW b \in ballots'
                 PROVE  /\ b.term <= current_term'[b.voter]
                        /\ b.term = current_term'[b.voter] => voted_for'[b.voter] = b.candidate
      BY DEF BallotsHeld
    <2>1. current_term'[i] = m.term /\ voted_for'[i] = c
      BY <1>1, <1>2 DEF TypeOK
    <2>2. CASE b = new
      BY <1>1, <1>4, <2>1, <2>2
    <2>3. CASE b \in ballots /\ b.voter = i
      <3>1. b.term \in Nat
        BY <2>3 DEF TypeOK
      <3>2. b.term <= m.term /\ (b.term = m.term => b.candidate = c)
        BY <1>1, <1>5, <2>3, <3>1
      <3> QED BY <2>1, <2>3, <3>2
    <2>4. CASE b \in ballots /\ b.voter # i
      <3>1. current_term'[b.voter] = current_term[b.voter] /\ voted_for'[b.voter] = voted_for[b.voter]
        BY <1>1, <1>2, <2>4 DEF TypeOK
      <3> QED BY <2>4, <3>1 DEF BallotInv, BallotsHeld
    <2> QED BY <1>2, <2>2, <2>3, <2>4
  <1>7. VoteOncePerTerm'
    <2>1. \A b \in ballots : b.voter = i /\ b.term = m.term => b.candidate = c
      BY <1>1, <1>5
    <2> QED BY <1>2, <1>4, <2>1 DEF BallotInv, VoteOncePerTerm
  <1>8. GrantsAreBallots'
    <2>1. \A r \in msgs' : r \in msgs \/ r = VoteReply(i, c, m.term, TRUE)
      <3>1. Reply(m, {VoteReply(i, c, m.term, TRUE)})
        BY DEF GrantVote
      <3> DEFINE granted == VoteReply(i, c, m.term, TRUE)
      <3>2. Reply(m, {granted})
        BY <3>1
      <3> HIDE DEF granted
      <3>3. \A r \in msgs' : r \in msgs \/ r = granted
        BY <3>2 DEF Reply
      <3> QED BY <3>3 DEF granted
    <2>2. \A r : r = VoteReply(i, c, m.term, TRUE) => Ballot(r.from, r.term, r.to) = new
      BY DEF VoteReply, new
    <2> QED BY <1>2, <2>1, <2>2 DEF BallotInv, GrantsAreBallots
  <1>9. CountedAreBallots'
    <2> SUFFICES ASSUME NEW j \in Node, state'[j] = "Candidate", NEW v \in votes_received'[j]
                 PROVE  Ballot(v, current_term'[j], j) \in ballots'
      BY DEF CountedAreBallots, Ballot
    <2>1. /\ state[j] = "Candidate" /\ votes_received'[j] = votes_received[j]
          /\ current_term'[j] = current_term[j]
      <3>1. CASE m.term > current_term[i]
        <4>1. /\ state' = [state EXCEPT ![i] = "Follower"]
              /\ votes_received' = [votes_received EXCEPT ![i] = {}]
          BY <3>1 DEF GrantVote, AdoptTerm, BecomeFollower
        <4>2. j # i
          BY <1>1, <4>1 DEF TypeOK
        <4> QED BY <1>1, <1>2, <4>1, <4>2 DEF TypeOK
      <3>2. CASE ~ (m.term > current_term[i])
        <4>1. UNCHANGED <<state, votes_received>>
          BY <3>2 DEF GrantVote, AdoptTerm, roleVars
        <4>2. m.term = current_term[i]
          BY <1>1, <1>2, <3>2
        <4> QED BY <1>1, <1>2, <4>1, <4>2 DEF TypeOK
      <3> QED BY <3>1, <3>2
    <2> QED BY <1>2, <2>1 DEF BallotInv, CountedAreBallots
  <1>10. WonByMajority'
    BY <1>2, MoreBallots, NodeAssumption DEF BallotInv
  <1> QED BY <1>6, <1>7, <1>8, <1>9, <1>10 DEF BallotInv

LEMMA RecordStep ==
    ASSUME TypeOK, BallotInv, NEW m \in msgs, RecordVote(m)
    PROVE  BallotInv'
  <1> DEFINE i == m.to
  <1>1. m.from \in Node /\ i \in Node /\ m.kind = "VoteReply" /\ m.vote_granted
        /\ m.term = current_term[i] /\ state[i] = "Candidate"
    BY MessageFields DEF TypeOK, RecordVote, CountsAsVote
  <1>2. Ballot(m.from, current_term[i], i) \in ballots
    BY <1>1 DEF BallotInv, GrantsAreBallots
  <1>3. /\ votes_received' = [votes_received EXCEPT ![i] = votes_received[i] \cup {m.from}]
        /\ UNCHANGED <<current_term, voted_for, state, ballots, elected>>
        /\ msgs' \subseteq msgs
    BY DEF RecordVote, Reply, termVars, history
  <1>4. BallotsHeld' /\ VoteOncePerTerm' /\ GrantsAreBallots' /\ WonByMajority'
    BY <1>3 DEF BallotInv, BallotsHeld, VoteOncePerTerm, GrantsAreBallots, WonByMajority, Voters
  <1>5. CountedAreBallots'
    BY <1>1, <1>2, <1>3 DEF BallotInv, CountedAreBallots, TypeOK
  <1> QED BY <1>4, <1>5 DEF BallotInv

\* The votes behind a won election are ballots cast for the winner.
LEMMA WinStep ==
    ASSUME TypeOK, BallotInv, NEW m \in msgs, WinElection(m)
    PROVE  BallotInv'
  <1> DEFINE i == m.to
             votes == votes_received[i] \cup {m.from}
             won == [term |-> current_term[i], node |-> i]
  <1>1. m.from \in Node /\ i \in Node /\ m.kind = "VoteReply" /\ m.vote_granted
        /\ m.term = current_term[i] /\ state[i] = "Candidate"
    BY MessageFields DEF TypeOK, WinElection, CountsAsVote
  <1>2. votes \subseteq Voters(current_term[i], i)
    BY <1>1 DEF BallotInv, GrantsAreBallots, CountedAreBallots, Voters, TypeOK
  <1>3. IsMajority(Voters(current_term[i], i))
    <2> DEFINE W == Voters(current_term[i], i)
    <2>1. W \subseteq Node /\ IsFiniteSet(W)
      BY NodeAssumption, FS_Subset DEF Voters
    <2>2. /\ Cardinality(votes) <= Cardinality(W)
          /\ Cardinality(votes) \in Nat /\ Cardinality(W) \in Nat /\ Cardinality(Node) \in Nat
      BY <1>2, <2>1, NodeAssumption, FS_Subset, FS_CardinalityType
    <2>3. IsMajority(votes)
      BY DEF WinElection
    <2> HIDE DEF W, votes
    <2>4. IsMajority(W)
      BY <2>2, <2>3 DEF IsMajority
    <2> QED BY <2>4 DEF W
  <1>4. /\ state' = [state EXCEPT ![i] = "Leader"]
        /\ votes_received' = [votes_received EXCEPT ![i] = {}]
        /\ elected' = elected \cup {won}
        /\ UNCHANGED <<current_term, voted_for, ballots>>
    BY DEF WinElection
  <1>5. \A r \in msgs' : r.kind = "VoteReply" => r \in msgs
    <2> DEFINE sent == {AppendEntriesArgs(i, j, Len(log[i]), log[i], committed_index[i]) :
                          j \in Peers(i)}
    <2>1. \A r \in sent : r.kind # "VoteReply"
      <3>1. \A j, next, l, commit : AppendEntriesArgs(i, j, next, l, commit).kind = "AppendEntries"
        BY DEF AppendEntriesArgs
      <3> QED BY <3>1
    <2>2. Reply(m, sent)
      BY DEF WinElection
    <2> HIDE DEF sent
    <2> QED BY <2>1, <2>2 DEF Reply
  <1>6. BallotsHeld' /\ VoteOncePerTerm' /\ GrantsAreBallots'
    BY <1>4, <1>5 DEF BallotInv, BallotsHeld, VoteOncePerTerm, GrantsAreBallots
  <1>7. CountedAreBallots'
    BY <1>1, <1>4 DEF BallotInv, CountedAreBallots, TypeOK
  <1>8. WonByMajority'
    <2> SUFFICES ASSUME NEW e \in elected' PROVE IsMajority(Voters(e.term, e.node)')
      BY DEF WonByMajority
    <2>1. Voters(e.term, e.node)' = Voters(e.term, e.node)
      BY <1>4 DEF Voters
    <2>2. CASE e \in elected
      BY <2>1, <2>2 DEF BallotInv, WonByMajority, IsMajority
    <2>3. CASE e = won
      <3>1. e.term = current_term[i] /\ e.node = i
        BY <2>3
      <3> QED BY <1>3, <2>1, <3>1 DEF IsMajority
    <2> QED BY <1>4, <2>2, <2>3
  <1> QED BY <1>6, <1>7, <1>8 DEF BallotInv

-----------------------------------------------------------------------------

LEMMA BallotInit == Init => BallotInv
  BY DEF Init, BallotInv, BallotsHeld, VoteOncePerTerm, GrantsAreBallots,
         CountedAreBallots, WonByMajority

LEMMA BallotNext ==
    ASSUME TypeOK, BallotInv, Next, TypeOK'
    PROVE  BallotInv'
  <1>1. CASE \E i \in Node : ElectionTimeout(i)
    BY <1>1, TimeoutStep
  <1>2. CASE \/ \E i \in Node : HeartbeatTimeout(i)
             \/ \E i \in Node, c \in Command : ClientRequest(i, c)
    BY <1>2, QuietTimeout, QuietStep
  <1>3. CASE \E m \in msgs : GrantVote(m)
    BY <1>3, GrantStep
  <1>4. CASE \E m \in msgs : RecordVote(m)
    BY <1>4, RecordStep
  <1>5. CASE \E m \in msgs : WinElection(m)
    BY <1>5, WinStep
  <1>6. CASE \E m \in msgs : RejectStaleVote(m) \/ DenyVote(m) \/ NewerTermReply(m)
    BY <1>6, QuietVotes, QuietStep
  <1>7. CASE \E m \in msgs :
               \/ RejectStaleEntries(m) \/ RejectUnmatchedEntries(m) \/ AcceptEntries(m)
               \/ EntriesReplicated(m) \/ EntriesRejected(m) \/ IgnoreReply(m) \/ Drop(m)
    BY <1>7, QuietReplication, QuietStep
  <1> QED BY <1>1, <1>2, <1>3, <1>4, <1>5, <1>6, <1>7 DEF Next, Receive

LEMMA BallotStep == TypeInv /\ BallotInv /\ [Next]_vars => BallotInv'
  <1> SUFFICES ASSUME TypeInv, BallotInv, [Next]_vars PROVE BallotInv'
    OBVIOUS
  <1>1. TypeOK /\ TypeOK'
    BY TypeStep DEF TypeInv
  <1>2. CASE Next
    BY <1>1, <1>2, BallotNext
  <1>3. CASE UNCHANGED vars
    BY <1>3
    DEF vars, termVars, roleVars, history, BallotInv, BallotsHeld, VoteOncePerTerm,
        GrantsAreBallots, CountedAreBallots, WonByMajority, Voters
  <1> QED BY <1>2, <1>3

\* Two majorities of the nodes have a member in common.
LEMMA MajoritiesMeet ==
    ASSUME NEW V \in SUBSET Node, NEW W \in SUBSET Node, IsMajority(V), IsMajority(W)
    PROVE  \E v \in Node : v \in V /\ v \in W
  <1> DEFINE n == Cardinality(Node)
  <1>1. IsFiniteSet(Node) /\ n \in Nat
    BY NodeAssumption, FS_CardinalityType
  <1>2. Cardinality(V) \in Nat /\ Cardinality(W) \in Nat
    BY <1>1, FS_Subset, FS_CardinalityType
  <1>3. Cardinality(V) + Cardinality(W) > n
    <2>1. Cardinality(V) > n \div 2 /\ Cardinality(W) > n \div 2
      BY DEF IsMajority
    <2> HIDE DEF n
    <2> QED BY <1>1, <1>2, <2>1
  <1>4. V \cap W # {}
    BY <1>1, <1>3, FS_MajoritiesIntersect
  <1> QED BY <1>4

LEMMA BallotsGiveSafety == TypeOK /\ BallotInv => ElectionSafety
  <1> SUFFICES ASSUME TypeOK, BallotInv,
                      NEW e \in elected, NEW f \in elected, e.term = f.term
               PROVE  e.node = f.node
    BY DEF ElectionSafety
  <1>1. IsMajority(Voters(e.term, e.node)) /\ IsMajority(Voters(f.term, f.node))
    BY DEF BallotInv, WonByMajority
  <1>2. PICK v \in Node : v \in Voters(e.term, e.node) /\ v \in Voters(f.term, f.node)
    <2>1. Voters(e.term, e.node) \in SUBSET Node /\ Voters(f.term, f.node) \in SUBSET Node
      BY DEF Voters
    <2> QED BY <1>1, <2>1, MajoritiesMeet
  <1>3. Ballot(v, e.term, e.node) \in ballots /\ Ballot(v, f.term, f.node) \in ballots
    BY <1>2 DEF Voters
  <1> QED BY <1>3 DEF BallotInv, VoteOncePerTerm, Ballot

\* A node casts at most one vote in a term: for every cluster and every relay
\* that may delay, duplicate or lose, voted_for of handle_request_vote is
\* compared and set so that no second candidate gets it.
THEOREM VotesAreSingle == Spec => []VoteOncePerTerm
  <1>1. TypeInv /\ BallotInv => VoteOncePerTerm
    BY DEF BallotInv
  <1> QED BY <1>1, TypeInit, TypeStep, BallotInit, BallotStep, PTL DEF Spec

\* Two nodes never become leader in the same term: a majority of votes counted
\* by handle_request_vote_reply, however late or often the replies arrive, is a
\* majority of votes cast.
THEOREM OneLeaderPerTerm == Spec => []ElectionSafety
  <1>1. TypeInv /\ BallotInv => ElectionSafety
    BY BallotsGiveSafety DEF TypeInv
  <1> QED BY <1>1, TypeInit, TypeStep, BallotInit, BallotStep, PTL DEF Spec

-----------------------------------------------------------------------------
(* The leader a node names *)

Elected(term, node) == [term |-> term, node |-> node] \in elected

\* Entries come only from a node that was elected in their term.
EntriesFromElected ==
    \A m \in msgs : m.kind = "AppendEntries" => Elected(m.term, m.from)

HintInv == LeaderHintSound /\ EntriesFromElected

\* What a step may do: send entries for an elected leader, and at each node keep
\* the hint and the term, forget the hint, or name an elected leader.
HintStep ==
    /\ elected \subseteq elected'
    /\ \A m \in msgs' : m.kind = "AppendEntries" => m \in msgs \/ Elected(m.term, m.from)'
    /\ \A j \in Node :
        \/ /\ leader_id'[j] = leader_id[j] /\ current_term'[j] = current_term[j]
           /\ state'[j] = "Leader" => state[j] = "Leader"
        \/ leader_id'[j] = None /\ state'[j] # "Leader"
        \/ /\ Elected(current_term[j], leader_id[j])'
           /\ state'[j] = "Leader" => leader_id'[j] = j

LEMMA HintKept ==
    ASSUME HintInv, HintStep
    PROVE  HintInv'
  BY DEF HintInv, HintStep, LeaderHintSound, EntriesFromElected, Elected

\* A leader's term and name are those of an election won.
LEMMA LeaderIsElected ==
    ASSUME HintInv, NEW i \in Node, state[i] = "Leader"
    PROVE  Elected(current_term[i], i)
  BY NodeAssumption DEF HintInv, LeaderHintSound, Elected

LEMMA EntriesFields ==
    ASSUME NEW i, NEW j, NEW next, NEW l, NEW commit
    PROVE  /\ AppendEntriesArgs(i, j, next, l, commit).kind = "AppendEntries"
           /\ AppendEntriesArgs(i, j, next, l, commit).term = current_term[i]
           /\ AppendEntriesArgs(i, j, next, l, commit).from = i
  BY DEF AppendEntriesArgs

LEMMA HintTimeouts ==
    ASSUME TypeOK, HintInv, NEW i \in Node,
           \/ ElectionTimeout(i)
           \/ HeartbeatTimeout(i)
           \/ \E c \in Command : ClientRequest(i, c)
    PROVE  HintStep
  <1>1. CASE ElectionTimeout(i)
    BY <1>1 DEF ElectionTimeout, Send, HintStep, TypeOK
  <1>2. CASE HeartbeatTimeout(i) \/ \E c \in Command : ClientRequest(i, c)
    <2>1. /\ state[i] = "Leader"
          /\ UNCHANGED <<termVars, roleVars, history>>
          /\ \A m \in msgs' \ msgs : m.term = current_term[i] /\ m.from = i
      <3>1. CASE HeartbeatTimeout(i)
        BY <3>1, EntriesFields DEF HeartbeatTimeout, Send
      <3>2. CASE \E c \in Command : ClientRequest(i, c)
        BY <3>2, EntriesFields DEF ClientRequest, Send
      <3> QED BY <1>2, <3>1, <3>2
    <2>2. Elected(current_term[i], i)
      BY <2>1, LeaderIsElected
    <2> QED BY <2>1, <2>2 DEF HintStep, Elected, termVars, roleVars, history
  <1> QED BY <1>1, <1>2

LEMMA HintVotes ==
    ASSUME TypeOK, HintInv, NEW m \in msgs,
           \/ RejectStaleVote(m)
           \/ GrantVote(m)
           \/ DenyVote(m)
           \/ NewerTermReply(m)
           \/ RecordVote(m)
    PROVE  HintStep
  <1> DEFINE i == m.to
  <1>1. i \in Node /\ m.term \in Nat /\ current_term[i] \in Nat
    BY MessageFields DEF TypeOK
  <1>2. elected' = elected
    BY DEF RejectStaleVote, GrantVote, DenyVote, NewerTermReply, RecordVote, history
  <1>3. \A r \in msgs' : r.kind = "AppendEntries" => r \in msgs
    BY DEF RejectStaleVote, GrantVote, DenyVote, NewerTermReply, RecordVote, Reply, VoteReply
  <1>4. CASE RejectStaleVote(m) \/ RecordVote(m)
    BY <1>2, <1>3, <1>4 DEF RejectStaleVote, RecordVote, HintStep, termVars, roleVars
  <1>5. CASE NewerTermReply(m)
    BY <1>1, <1>2, <1>3, <1>5 DEF NewerTermReply, StepDown, BecomeFollower, HintStep, TypeOK
  <1>6. CASE GrantVote(m) \/ DenyVote(m)
    <2>1. AdoptTerm(i, m.term) /\ m.term >= current_term[i]
      BY <1>6 DEF GrantVote, DenyVote
    <2>2. CASE m.term > current_term[i]
      <3>1. /\ leader_id' = [leader_id EXCEPT ![i] = None]
            /\ current_term' = [current_term EXCEPT ![i] = m.term]
            /\ state' = [state EXCEPT ![i] = "Follower"]
        BY <2>1, <2>2 DEF AdoptTerm, BecomeFollower
      <3>2. leader_id'[i] = None /\ state'[i] = "Follower"
        BY <1>1, <3>1 DEF TypeOK
      <3>3. \A j \in Node \ {i} : /\ leader_id'[j] = leader_id[j] /\ state'[j] = state[j]
                                  /\ current_term'[j] = current_term[j]
        BY <3>1 DEF TypeOK
      <3> QED BY <1>2, <1>3, <3>2, <3>3 DEF HintStep
    <2>3. CASE m.term = current_term[i]
      <3>1. UNCHANGED <<current_term, leader_id, state>>
        BY <1>1, <2>1, <2>3 DEF AdoptTerm, roleVars, TypeOK
      <3> QED BY <1>2, <1>3, <3>1 DEF HintStep
    <2> QED BY <1>1, <2>1, <2>2, <2>3
  <1> QED BY <1>4, <1>5, <1>6

LEMMA HintWin ==
    ASSUME TypeOK, HintInv, NEW m \in msgs, WinElection(m)
    PROVE  HintStep
  <1> DEFINE i == m.to
             sent == {AppendEntriesArgs(i, j, Len(log[i]), log[i], committed_index[i]) :
                        j \in Peers(i)}
  <1>1. i \in Node
    BY MessageFields DEF TypeOK
  <1>2. /\ state' = [state EXCEPT ![i] = "Leader"]
        /\ leader_id' = [leader_id EXCEPT ![i] = i]
        /\ elected' = elected \cup {[term |-> current_term[i], node |-> i]}
        /\ current_term' = current_term
        /\ Reply(m, sent)
    BY DEF WinElection
  <1>3. \A r \in sent : r.term = current_term[i] /\ r.from = i
    BY EntriesFields
  <1> HIDE DEF sent
  <1>4. \A r \in msgs' : r \in msgs \/ Elected(r.term, r.from)'
    BY <1>2, <1>3 DEF Reply, Elected
  <1> QED BY <1>1, <1>2, <1>4 DEF HintStep, Elected, TypeOK

LEMMA HintReplication ==
    ASSUME TypeOK, HintInv, NEW m \in msgs,
           \/ RejectStaleEntries(m)
           \/ RejectUnmatchedEntries(m)
           \/ AcceptEntries(m)
           \/ EntriesReplicated(m)
           \/ EntriesRejected(m)
           \/ IgnoreReply(m)
           \/ Drop(m)
    PROVE  HintStep
  <1> DEFINE i == m.to
  <1>1. i \in Node
    BY MessageFields DEF TypeOK
  <1>2. elected' = elected
    BY DEF RejectStaleEntries, RejectUnmatchedEntries, AcceptEntries, EntriesReplicated,
           EntriesRejected, IgnoreReply, Drop, history
  <1>3. CASE RejectUnmatchedEntries(m) \/ AcceptEntries(m)
    <2>1. RecognizeLeader(i, m) /\ Elected(m.term, m.from)
      BY <1>3 DEF RejectUnmatchedEntries, AcceptEntries, HintInv, EntriesFromElected
    <2>2. \A r \in msgs' : r.kind = "AppendEntries" => r \in msgs
      BY <1>3 DEF RejectUnmatchedEntries, AcceptEntries, AcceptReply, AppendReply, Reply
    <2> QED BY <1>1, <1>2, <2>1, <2>2 DEF RecognizeLeader, BecomeFollower, HintStep, Elected, TypeOK
  <1>4. CASE EntriesRejected(m)
    <2> DEFINE next == RetryIndex(next_indices[i][m.from], m.match_index)
               sent == AppendEntriesArgs(i, m.from, next, log[i], committed_index[i])
    <2>1. state[i] = "Leader" /\ Reply(m, {sent}) /\ UNCHANGED <<termVars, state>>
      BY <1>4 DEF EntriesRejected, ReplyInTerm
    <2>2. sent.term = current_term[i] /\ sent.from = i
      BY EntriesFields
    <2>3. Elected(sent.term, sent.from)
      BY <1>1, <2>1, <2>2, LeaderIsElected
    <2> HIDE DEF sent
    <2> QED BY <1>2, <2>1, <2>3 DEF Reply, HintStep, Elected, termVars
  <1>5. CASE \/ RejectStaleEntries(m) \/ EntriesReplicated(m) \/ IgnoreReply(m) \/ Drop(m)
    <2>1. UNCHANGED <<termVars, state>>
      BY <1>5 DEF RejectStaleEntries, EntriesReplicated, IgnoreReply, Drop, roleVars
    <2>2. \A r \in msgs' : r.kind = "AppendEntries" => r \in msgs
      BY <1>5 DEF RejectStaleEntries, EntriesReplicated, IgnoreReply, Drop, AppendReply, Reply
    <2> QED BY <1>2, <2>1, <2>2 DEF HintStep, termVars
  <1> QED BY <1>3, <1>4, <1>5

LEMMA HintNext == TypeInv /\ HintInv /\ [Next]_vars => HintInv'
  <1> SUFFICES ASSUME TypeInv, HintInv, [Next]_vars PROVE HintInv'
    OBVIOUS
  <1>1. TypeOK
    BY DEF TypeInv
  <1>2. CASE Next
    <2>1. HintStep
      BY <1>1, <1>2, HintTimeouts, HintVotes, HintWin, HintReplication DEF Next, Receive
    <2> QED BY <2>1, HintKept
  <1>3. CASE UNCHANGED vars
    BY <1>3
    DEF vars, termVars, roleVars, history, HintInv, LeaderHintSound, EntriesFromElected, Elected
  <1> QED BY <1>2, <1>3

\* Only the deciding vote makes a leader.
LEMMA OnlyWinsElect ==
    ASSUME [Next]_vars
    PROVE  elected' = elected \/ \E m \in msgs : WinElection(m)
  <1>1. CASE UNCHANGED vars
    BY <1>1 DEF vars, history
  <1>2. CASE \E i \in Node : ElectionTimeout(i) \/ HeartbeatTimeout(i)
    BY <1>2 DEF ElectionTimeout, HeartbeatTimeout, history
  <1>3. CASE \E i \in Node, c \in Command : ClientRequest(i, c)
    BY <1>3 DEF ClientRequest, history
  <1>4. CASE \E m \in msgs : Receive(m)
    BY <1>4
    DEF Receive, RejectStaleVote, GrantVote, DenyVote, NewerTermReply, RecordVote,
        RejectStaleEntries, RejectUnmatchedEntries, AcceptEntries, EntriesReplicated,
        EntriesRejected, IgnoreReply, history
  <1>5. CASE \E m \in msgs : Drop(m)
    BY <1>5 DEF Drop, history
  <1> QED BY <1>1, <1>2, <1>3, <1>4, <1>5 DEF Next

\* The node a client would be redirected to has won an election of the term the
\* redirecting node is in: leader_id is cleared with every change of term and set
\* only by entries that an elected leader sent.
THEOREM HintNamesLeader == Spec => []LeaderHintSound
  <1>1. Init => HintInv
    BY NodeAssumption DEF Init, HintInv, LeaderHintSound, EntriesFromElected
  <1>2. HintInv => LeaderHintSound
    BY DEF HintInv
  <1> QED BY <1>1, <1>2, HintNext, TypeInit, TypeStep, PTL DEF Spec

=============================================================================
