-------------------------- MODULE RaftCommitProofs --------------------------
(***************************************************************************)
(* Proofs about commits, for every set of nodes and every bound: leaders   *)
(* hold all that is committed, state machines agree, a node applies just   *)
(* its committed log, and commit indices never go back.                    *)
(*                                                                         *)
(* That an entry is committed is a fact about the past: a majority had it  *)
(* in the term it was written in, whatever these nodes have done since.    *)
(* The code keeps no record of it, so the proof does: a set A of           *)
(* acknowledgements <<k, p, t>>, each saying that node k had, when its     *)
(* term was t, an entry of term t at position p.  Acknowledged by a        *)
(* majority, such an entry is Committed.  It is Blocked when a majority    *)
(* has left term t without acknowledging it; it can then never be          *)
(* committed, and it cannot be both, as two majorities meet.               *)
(*                                                                         *)
(* The argument is that every log that ends in a later term, every later   *)
(* leader's log and everything sent by one Keeps (p, t): it has the entry, *)
(* or the entry is blocked.  A new leader's does, because a voter that has *)
(* acknowledged the entry votes for up-to-date logs only (VotersKnow), and *)
(* if no voter has, the voters' majority blocks it.  A commit index then   *)
(* always points into a log that was committed as a whole (Tip), on the    *)
(* node and in every message, and no such log conflicts with another.      *)
(*                                                                         *)
(* T is the tree of logs of RaftLogProofs.  Like T, A is no variable: the  *)
(* invariant CommitInv says that there are such T and A, and each step     *)
(* extends both (TreeNext, AcksGrow).                                      *)
(*                                                                         *)
(* The core implements ReplicatedLog: the chosen log is the committed log  *)
(* of whoever is ahead; committed logs agree as far as they go (TipsAgree) *)
(* and only grow (CommitsAdvance), and a step commits on one node only.    *)
(***************************************************************************)
EXTENDS RaftAbstraction, RaftLogProofs

\* The log l has an entry of term t at position p.
Contains(l, p, t) == p \in 1 .. Len(l) /\ l[p].term = t

\* A holds <<k, p, t>> when node k had, in term t, an entry of term t at position p.
Committed(A, p, t) ==
    \E Q \in SUBSET Node : IsMajority(Q) /\ \A k \in Q : <<k, p, t>> \in A

\* A majority has left term t without such an entry: it will never be committed.
Blocked(A, p, t) ==
    \E Q \in SUBSET Node :
        IsMajority(Q) /\ \A k \in Q : current_term[k] > t /\ <<k, p, t>> \notin A

\* The log l has the entry, or nobody will ever commit it.
Kept(A, l, p, t) == Contains(l, p, t) \/ Blocked(A, p, t)

\* The log l, up to index c, is part of a log that was committed in a term up to u.
Tip(T, A, l, c, u) ==
    \E b \in T :
        /\ Committed(A, Len(b), Last(b).term) /\ Last(b).term <= u
        /\ c + 1 <= Len(b) /\ c + 1 <= Len(l)
        /\ \A q \in 1 .. c + 1 : l[q] = b[q]

-----------------------------------------------------------------------------
(* Votes *)

\* A candidate's requests say what its log ends with, and no ballot is older than
\* its candidate.
VoteInv ==
    /\ \A m \in msgs : m.kind = "RequestVote" =>
          /\ m.term <= current_term[m.from]
          /\ state[m.from] = "Candidate" /\ current_term[m.from] = m.term =>
                /\ m.last_log_index = Last(log[m.from]).index
                /\ m.last_log_term = Last(log[m.from]).term
    /\ \A b \in ballots : b.term <= current_term[b.candidate]

LEMMA BallotsChange ==
    ASSUME [Next]_vars, NEW b \in ballots', b \notin ballots
    PROVE  \/ \E i \in Node : ElectionTimeout(i) /\ b = Ballot(i, current_term[i] + 1, i)
           \/ \E m \in msgs : GrantVote(m) /\ b = Ballot(m.to, m.term, m.from)
  <1>1. CASE UNCHANGED vars
    BY <1>1 DEF vars, history
  <1>2. ASSUME NEW i \in Node, ElectionTimeout(i)
        PROVE  b = Ballot(i, current_term[i] + 1, i)
    BY <1>2 DEF ElectionTimeout, Ballot
  <1>3. CASE \E i \in Node : HeartbeatTimeout(i) \/ \E c \in Command : ClientRequest(i, c)
    BY <1>3 DEF HeartbeatTimeout, ClientRequest, history
  <1>4. ASSUME NEW m \in msgs, GrantVote(m)
        PROVE  b = Ballot(m.to, m.term, m.from)
    BY <1>4 DEF GrantVote, Ballot
  <1>5. ASSUME NEW m \in msgs, Receive(m) \/ Drop(m), ~GrantVote(m)
        PROVE  FALSE
    BY <1>5
    DEF Receive, RejectStaleVote, DenyVote, NewerTermReply, RecordVote, WinElection,
        RejectStaleEntries, RejectUnmatchedEntries, AcceptEntries, EntriesReplicated,
        EntriesRejected, IgnoreReply, Drop, history
  <1> QED BY <1>1, <1>2, <1>3, <1>4, <1>5 DEF Next

LEMMA RequestsSent ==
    ASSUME [Next]_vars, NEW r \in msgs', r.kind = "RequestVote", r \notin msgs
    PROVE  \E i \in Node : /\ ElectionTimeout(i) /\ r.from = i /\ r.term = current_term[i] + 1
                           /\ r.last_log_index = Last(log[i]).index
                           /\ r.last_log_term = Last(log[i]).term
  <1>1. CASE UNCHANGED vars
    BY <1>1 DEF vars
  <1>2. ASSUME NEW i \in Node, ElectionTimeout(i)
        PROVE  /\ r.from = i /\ r.term = current_term[i] + 1
               /\ r.last_log_index = Last(log[i]).index
               /\ r.last_log_term = Last(log[i]).term
    BY <1>2 DEF ElectionTimeout, Send
  <1>3. ASSUME NEW i \in Node, HeartbeatTimeout(i) \/ \E c \in Command : ClientRequest(i, c)
        PROVE  FALSE
    <2>1. CASE HeartbeatTimeout(i)
      BY <2>1, EntriesFields DEF HeartbeatTimeout, Send
    <2>2. CASE \E c \in Command : ClientRequest(i, c)
      BY <2>2, EntriesFields DEF ClientRequest, Send
    <2> QED BY <1>3, <2>1, <2>2
  <1>4. ASSUME NEW m \in msgs, WinElection(m)
        PROVE  FALSE
    BY <1>4, EntriesFields DEF WinElection, Reply
  <1>5. ASSUME NEW m \in msgs,
               \/ RejectStaleVote(m) \/ GrantVote(m) \/ DenyVote(m) \/ NewerTermReply(m)
               \/ RecordVote(m) \/ EntriesReplicated(m) \/ EntriesRejected(m)
               \/ RejectStaleEntries(m) \/ RejectUnmatchedEntries(m) \/ AcceptEntries(m)
               \/ IgnoreReply(m) \/ Drop(m)
        PROVE  FALSE
    BY <1>5, EntriesFields
    DEF RejectStaleVote, GrantVote, DenyVote, NewerTermReply, RecordVote, EntriesReplicated,
        EntriesRejected, RejectStaleEntries, RejectUnmatchedEntries, AcceptEntries, IgnoreReply,
        Drop, Reply, VoteReply, AppendReply, AcceptReply
  <1> QED BY <1>1, <1>2, <1>3, <1>4, <1>5 DEF Next, Receive

\* A candidate's log stays as it is.
LEMMA CandidateLogStays ==
    ASSUME LeaderInv, [Next]_vars, NEW T, LogTree(T), NEW i \in Node, state'[i] = "Candidate"
    PROVE  log'[i] = log[i]
  <1>1. ASSUME NEW m \in msgs, AcceptEntries(m)
        PROVE  log'[i] = log[i]
    BY <1>1, Accepted
  <1>2. ASSUME NEW k \in Node, NEW c \in Command, ClientRequest(k, c)
        PROVE  log'[i] = log[i]
    BY <1>2 DEF ClientRequest, roleVars, LeaderInv, TypeInv, TypeOK
  <1> QED BY <1>1, <1>2, LogsChange

LEMMA VoteNext ==
    ASSUME LeaderInv, LeaderInv', VoteInv, [Next]_vars, NEW T, LogTree(T)
    PROVE  VoteInv'
  <1>1. RoleChanges /\ TypeOK /\ TypeOK'
    BY RolesChange DEF LeaderInv, TypeInv
  <1>2. \A i \in Node : /\ current_term[i] \in Nat /\ current_term'[i] \in Nat
                        /\ current_term'[i] >= current_term[i]
    BY <1>1 DEF TypeOK, RoleChanges
  <1>3. \A i \in Node : ElectionTimeout(i) => current_term'[i] = current_term[i] + 1
    BY <1>1 DEF ElectionTimeout, TypeOK
  <1>4. ASSUME NEW r \in msgs', r.kind = "RequestVote"
        PROVE  /\ r.term <= current_term'[r.from]
               /\ state'[r.from] = "Candidate" /\ current_term'[r.from] = r.term =>
                     /\ r.last_log_index = Last(log'[r.from]).index
                     /\ r.last_log_term = Last(log'[r.from]).term
    <2>1. r.from \in Node /\ r.term \in Nat
      BY <1>1, MessageFields DEF TypeOK
    <2>2. state'[r.from] = "Candidate" => log'[r.from] = log[r.from]
      BY <2>1, CandidateLogStays
    <2>3. CASE r \in msgs
      <3>1. /\ r.term <= current_term[r.from]
            /\ state[r.from] = "Candidate" /\ current_term[r.from] = r.term =>
                  /\ r.last_log_index = Last(log[r.from]).index
                  /\ r.last_log_term = Last(log[r.from]).term
        BY <1>4, <2>3 DEF VoteInv
      <3>2. r.term <= current_term'[r.from]
        BY <1>2, <2>1, <3>1
      <3>3. ASSUME state'[r.from] = "Candidate", current_term'[r.from] = r.term
            PROVE  state[r.from] = "Candidate" /\ current_term[r.from] = r.term
        <4>1. ~ElectionTimeout(r.from)
          BY <1>2, <1>3, <2>1, <3>1, <3>3
        <4> QED BY <1>1, <2>1, <3>3, <4>1 DEF RoleChanges
      <3> QED BY <2>2, <3>1, <3>2, <3>3
    <2>4. CASE r \notin msgs
      <3>1. PICK i \in Node : /\ ElectionTimeout(i) /\ r.from = i /\ r.term = current_term[i] + 1
                              /\ r.last_log_index = Last(log[i]).index
                              /\ r.last_log_term = Last(log[i]).term
        BY <1>4, <2>4, RequestsSent
      <3>2. r.term <= current_term'[r.from]
        BY <1>2, <1>3, <3>1
      <3> QED BY <2>2, <3>1, <3>2
    <2> QED BY <2>3, <2>4
  <1>5. ASSUME NEW b \in ballots'
        PROVE  b.term <= current_term'[b.candidate]
    <2>1. b.candidate \in Node /\ b.term \in Nat
      BY <1>1 DEF TypeOK
    <2>2. CASE b \in ballots
      <3>1. b.term <= current_term[b.candidate]
        BY <2>2 DEF VoteInv
      <3> QED BY <1>2, <2>1, <3>1
    <2>3. ASSUME NEW i \in Node, ElectionTimeout(i), b = Ballot(i, current_term[i] + 1, i)
          PROVE  b.term <= current_term'[b.candidate]
      BY <1>2, <1>3, <2>3 DEF Ballot
    <2>4. ASSUME NEW m \in msgs, GrantVote(m), b = Ballot(m.to, m.term, m.from)
          PROVE  b.term <= current_term'[b.candidate]
      <3>1. m.term <= current_term[m.from]
        BY <2>4 DEF GrantVote, VoteInv
      <3>2. b.term = m.term /\ b.candidate = m.from
        BY <2>4 DEF Ballot
      <3> QED BY <1>2, <2>1, <3>1, <3>2
    <2> QED BY <2>2, <2>3, <2>4, BallotsChange
  <1> QED BY <1>4, <1>5 DEF VoteInv

-----------------------------------------------------------------------------
(* Acknowledgements *)

\* Who has acknowledged an entry still keeps it, and every entry of a node's own term
\* is acknowledged by it.
AcksHeld(A) ==
    /\ \A k \in Node : \A p, t \in Nat :
          <<k, p, t>> \in A => t <= current_term[k] /\ Kept(A, log[k], p, t)
    /\ \A k \in Node : \A p \in Nat :
          Contains(log[k], p, current_term[k]) => <<k, p, current_term[k]>> \in A

\* A log that ends in a term holds whatever an older term may still have committed.
TreeKeeps(T, A) ==
    \A b \in T : \A p, t \in Nat : t < Last(b).term => Kept(A, b, p, t)

\* So does the log of whoever leads a later term.
LeadersKeep(A) ==
    \A i \in Node : state[i] = "Leader" =>
        \A p, t \in Nat : t < current_term[i] => Kept(A, log[i], p, t)

\* A candidate's log holds what each of its voters has acknowledged.
VotersKnow(A) ==
    \A b \in ballots :
        state[b.candidate] = "Candidate" /\ current_term[b.candidate] = b.term =>
            \A p, t \in Nat :
                t < b.term /\ <<b.voter, p, t>> \in A => Kept(A, log[b.candidate], p, t)

\* The acknowledgements after a step: those before it, and what each node has now
\* of its own term.
AcksGrow(A, B) ==
    \A k \in Node : \A p, t \in Nat :
        <<k, p, t>> \in B <=>
            <<k, p, t>> \in A \/ (t = current_term'[k] /\ Contains(log'[k], p, t))

LEMMA AcksExist ==
    ASSUME NEW A
    PROVE  \E B : AcksGrow(A, B)
  <1> DEFINE B == A \cup {a \in Node \X Nat \X Nat :
                           a[3] = current_term'[a[1]] /\ Contains(log'[a[1]], a[2], a[3])}
  <1>1. AcksGrow(A, B)
    BY DEF AcksGrow
  <1> QED BY <1>1

LEMMA BlockedStays ==
    ASSUME RoleChanges, TypeOK, TypeOK', NEW A, NEW B, AcksGrow(A, B),
           NEW p \in Nat, NEW t \in Nat, Blocked(A, p, t)
    PROVE  Blocked(B, p, t)'
  <1>1. PICK Q \in SUBSET Node :
           IsMajority(Q) /\ \A k \in Q : current_term[k] > t /\ <<k, p, t>> \notin A
    BY DEF Blocked
  <1>2. ASSUME NEW k \in Q
        PROVE  current_term'[k] > t /\ <<k, p, t>> \notin B
    <2>1. current_term[k] \in Nat /\ current_term'[k] \in Nat /\ k \in Node
      BY DEF TypeOK
    <2>2. current_term'[k] >= current_term[k]
      BY <2>1 DEF RoleChanges
    <2>3. current_term[k] > t /\ <<k, p, t>> \notin A
      BY <1>1, <1>2
    <2>4. current_term'[k] > t
      BY <2>1, <2>2, <2>3
    <2>5. t # current_term'[k]
      BY <2>1, <2>4
    <2> QED BY <2>1, <2>3, <2>4, <2>5 DEF AcksGrow
  <1>3. IsMajority(Q)'
    BY <1>1 DEF IsMajority
  <1> QED BY <1>2, <1>3 DEF Blocked

LEMMA CommittedStays ==
    ASSUME NEW A, NEW B, AcksGrow(A, B), NEW p \in Nat, NEW t \in Nat, Committed(A, p, t)
    PROVE  Committed(B, p, t)
  BY DEF Committed, AcksGrow

\* What is committed is not blocked, so a log that keeps it contains it.
LEMMA CommittedContained ==
    ASSUME NEW A, NEW l, NEW p, NEW t, Committed(A, p, t), Kept(A, l, p, t)
    PROVE  Contains(l, p, t)
  <1> SUFFICES ASSUME Blocked(A, p, t) PROVE FALSE
    BY DEF Kept
  <1>1. PICK Q \in SUBSET Node : IsMajority(Q) /\ \A k \in Q : <<k, p, t>> \in A
    BY DEF Committed
  <1>2. PICK R \in SUBSET Node : IsMajority(R) /\ \A k \in R : <<k, p, t>> \notin A
    BY DEF Blocked
  <1> QED BY <1>1, <1>2, MajoritiesMeet

\* Kept survives a step for a log that contains what it contained.
LEMMA KeptStays ==
    ASSUME RoleChanges, TypeOK, TypeOK', NEW A, NEW B, AcksGrow(A, B), NEW l, NEW n,
           NEW p \in Nat, NEW t \in Nat, Kept(A, l, p, t),
           Contains(l, p, t) => Contains(n, p, t)
    PROVE  Contains(n, p, t) \/ Blocked(B, p, t)'
  BY BlockedStays DEF Kept

LEMMA BelowContains ==
    ASSUME NEW a \in Seq(Entry), NEW b \in Seq(Entry), Below(a, b), NEW p, NEW t,
           Contains(a, p, t)
    PROVE  Contains(b, p, t)
  BY LenProperties DEF Below, Contains

LEMMA AcksNext ==
    ASSUME LeaderInv, LeaderInv', ReplicationInv, [Next]_vars, NEW T, LogTree(T),
           NEW A, NEW B, AcksHeld(A), AcksGrow(A, B),
           \A m \in msgs : \A l \in T : m.kind = "AppendEntries" /\ Backs(l, m) =>
              \A p, t \in Nat : t < m.term => Kept(A, l, p, t)
    PROVE  AcksHeld(B)'
  <1>1. RoleChanges /\ TypeOK /\ TypeOK'
    BY RolesChange DEF LeaderInv, TypeInv
  <1>2. \A k \in Node : /\ current_term[k] \in Nat /\ current_term'[k] \in Nat
                        /\ current_term'[k] >= current_term[k]
                        /\ log[k] \in Seq(Entry) \ {<<>>}
                        /\ log'[k] \in Seq(Entry) \ {<<>>}
    BY <1>1 DEF TypeOK, RoleChanges
  <1>3. ASSUME NEW k \in Node, NEW p \in Nat, NEW t \in Nat, <<k, p, t>> \in B
        PROVE  t <= current_term'[k] /\ (Contains(log'[k], p, t) \/ Blocked(B, p, t)')
    <2>1. CASE t = current_term'[k] /\ Contains(log'[k], p, t)
      BY <1>2, <2>1
    <2>2. CASE <<k, p, t>> \in A
      <3>1. t <= current_term[k] /\ Kept(A, log[k], p, t)
        BY <2>2 DEF AcksHeld
      <3>2. t <= current_term'[k]
        BY <1>2, <3>1
      <3>3. CASE Below(log[k], log'[k])
        <4>1. Contains(log[k], p, t) => Contains(log'[k], p, t)
          BY <1>2, <3>3, BelowContains
        <4> QED BY <1>1, <3>1, <3>2, <4>1, KeptStays
      <3>4. CASE ~Below(log[k], log'[k])
        <4>1. PICK m \in msgs : AcceptEntries(m)
          <5>1. log'[k] # log[k]
            BY <1>2, <3>4, LenProperties DEF Below
          <5>2. ASSUME NEW i \in Node, NEW c \in Command, ClientRequest(i, c)
                PROVE  FALSE
            <6>1. /\ state[i] = "Leader" /\ state' = state
                  /\ \A j \in Node \ {i} : log'[j] = log[j]
              BY <1>1, <5>2 DEF ClientRequest, roleVars, TypeOK
            <6>2. k = i
              BY <5>1, <6>1
            <6> QED BY <3>4, <6>1, <6>2, LeaderLogGrows
          <5> QED BY <5>1, <5>2, LogsChange
        <4>2. /\ m \in AppendEntriesMsg /\ m.to \in Node
              /\ current_term[m.to] <= m.term /\ current_term'[m.to] = m.term
              /\ \A i \in Node \ {m.to} : log'[i] = log[i]
          BY <4>1, Accepted
        <4>3. PICK l \in T : /\ Stands(T, l, m) /\ Below(l, log'[m.to])
                             /\ log'[m.to] = log[m.to] \/ log'[m.to] = l
          BY <4>1, Accepted
        <4>4. k = m.to /\ log'[k] = l
          BY <1>2, <3>4, <4>2, <4>3, LenProperties DEF Below
        <4>5. m.term \in Nat /\ m.kind = "AppendEntries"
          BY <4>2 DEF AppendEntriesMsg
        <4>6. CASE t < m.term
          <5>1. Kept(A, l, p, t)
            BY <4>3, <4>5, <4>6 DEF Stands
          <5> QED BY <1>1, <3>2, <4>4, <5>1, KeptStays
        <4>7. CASE t = m.term
          <5>1. t = current_term[k] /\ current_term'[k] = current_term[k]
            BY <1>2, <3>1, <4>2, <4>4, <4>7
          <5>2. Contains(log[k], p, t) => Contains(log'[k], p, t)
            <6> SUFFICES ASSUME Contains(log[k], p, t) PROVE Contains(log'[k], p, t)
              OBVIOUS
            <6>1. p \in DOMAIN log[k] /\ log[k][p].term = current_term[k]
              BY <1>2, <5>1, LenProperties DEF Contains
            <6>2. p \in DOMAIN log'[k] /\ log'[k][p] = log[k][p]
              BY <5>1, <6>1, EntriesKept
            <6> QED BY <1>2, <5>1, <6>1, <6>2, LenProperties DEF Contains
          <5> QED BY <1>1, <3>1, <3>2, <5>2, KeptStays
        <4>8. t <= m.term
          BY <3>2, <4>2, <4>4
        <4> QED BY <4>5, <4>6, <4>7, <4>8
      <3> QED BY <3>3, <3>4
    <2> QED BY <1>3, <2>1, <2>2 DEF AcksGrow
  <1>4. ASSUME NEW k \in Node, NEW p \in Nat, Contains(log'[k], p, current_term'[k])
        PROVE  <<k, p, current_term'[k]>> \in B
    BY <1>2, <1>4 DEF AcksGrow
  <1>5. \A k \in Node, p \in Nat, t \in Nat :
           <<k, p, t>> \in B => t <= current_term'[k] /\ (Contains(log'[k], p, t) \/ Blocked(B, p, t)')
    BY <1>3
  <1>6. \A k \in Node, p \in Nat :
           Contains(log'[k], p, current_term'[k]) => <<k, p, current_term'[k]>> \in B
    BY <1>4
  <1> QED BY <1>5, <1>6 DEF AcksHeld, Kept, Contains

\* A log that is up to date with a voter's keeps what the voter has acknowledged.
LEMMA UpToDateKeeps ==
    ASSUME LeaderInv, NEW T, LogTree(T), NEW A, AcksHeld(A), TreeKeeps(T, A),
           NEW v \in Node, NEW c \in Node,
           UpToDate(log[v], Last(log[c]).index, Last(log[c]).term),
           NEW p \in Nat, NEW t \in Nat, <<v, p, t>> \in A
    PROVE  Kept(A, log[c], p, t)
  <1>1. Tree(T) /\ log[v] \in T /\ log[c] \in T
    BY DEF LogTree
  <1>2. /\ log[v] \in Seq(Entry) /\ Len(log[v]) \in Nat \ {0}
        /\ log[c] \in Seq(Entry) /\ Len(log[c]) \in Nat \ {0}
        /\ Last(log[v]).index = Len(log[v]) - 1 /\ Last(log[v]).term \in Nat
        /\ Last(log[c]).index = Len(log[c]) - 1 /\ Last(log[c]).term \in Nat
        /\ \A q \in 1 .. Len(log[v]) : log[v][q].term <= Last(log[v]).term
    <2>1. ASSUME NEW l \in T
          PROVE  /\ l \in Seq(Entry) /\ Len(l) \in Nat \ {0}
                 /\ Last(l).index = Len(l) - 1 /\ Last(l).term \in Nat
                 /\ \A q \in 1 .. Len(l) : l[q].term <= Last(l).term
      <3>1. /\ l \in Seq(Entry) /\ Len(l) \in Nat \ {0} /\ Last(l) = l[Len(l)]
            /\ \A q \in 1 .. Len(l) : /\ l[q].index = q - 1 /\ l[q].term \in Nat
                                      /\ l[q].term <= Last(l).term
        BY <1>1, TreeFacts
      <3>2. Len(l) \in 1 .. Len(l)
        BY <3>1
      <3> QED BY <3>1, <3>2
    <2> QED BY <1>1, <2>1
  <1>3. Contains(log[v], p, t) \/ Blocked(A, p, t)
    BY DEF AcksHeld, Kept
  <1>4. CASE Blocked(A, p, t)
    BY <1>4 DEF Kept
  <1>5. CASE Contains(log[v], p, t)
    <2>1. t <= Last(log[v]).term
      BY <1>2, <1>5 DEF Contains
    <2>2. CASE Last(log[c]).term > Last(log[v]).term
      BY <1>1, <1>2, <2>1, <2>2 DEF TreeKeeps
    <2>3. CASE Last(log[c]).term = Last(log[v]).term /\ Len(log[c]) >= Len(log[v])
      <3>1. Below(log[v], log[c]) \/ Below(log[c], log[v])
        BY <1>1, <2>3 DEF Tree
      <3>2. Contains(log[c], p, t)
        BY <1>2, <1>5, <2>3, <3>1 DEF Below, Contains
      <3> QED BY <3>2 DEF Kept
    <2> QED BY <1>2, <2>2, <2>3 DEF UpToDate
  <1> QED BY <1>3, <1>4, <1>5

LEMMA VotersNext ==
    ASSUME LeaderInv, LeaderInv', VoteInv, [Next]_vars, NEW T, LogTree(T),
           NEW A, NEW B, AcksHeld(A), AcksGrow(A, B), TreeKeeps(T, A), VotersKnow(A)
    PROVE  VotersKnow(B)'
  <1>1. RoleChanges /\ TypeOK /\ TypeOK'
    BY RolesChange DEF LeaderInv, TypeInv
  <1>2. \A k \in Node : current_term[k] \in Nat /\ current_term'[k] \in Nat
    BY <1>1 DEF TypeOK
  <1>3. ASSUME NEW b \in ballots', state'[b.candidate] = "Candidate",
               current_term'[b.candidate] = b.term,
               NEW p \in Nat, NEW t \in Nat, t < b.term, <<b.voter, p, t>> \in B
        PROVE  Contains(log'[b.candidate], p, t) \/ Blocked(B, p, t)'
    <2>1. b.candidate \in Node /\ b.voter \in Node /\ b.term \in Nat
      BY <1>1 DEF TypeOK
    <2>2. b.term <= current_term'[b.voter]
      BY DEF LeaderInv, BallotInv, BallotsHeld
    <2>3. <<b.voter, p, t>> \in A
      <3>1. t # current_term'[b.voter]
        BY <1>2, <1>3, <2>1, <2>2
      <3> QED BY <1>3, <2>1, <3>1 DEF AcksGrow
    <2>4. log'[b.candidate] = log[b.candidate]
      BY <1>3, <2>1, CandidateLogStays
    <2>5. b.term <= current_term[b.candidate] =>
              state[b.candidate] = "Candidate" /\ current_term[b.candidate] = b.term
      <3> SUFFICES ASSUME b.term <= current_term[b.candidate]
                   PROVE  state[b.candidate] = "Candidate" /\ current_term[b.candidate] = b.term
        OBVIOUS
      <3>1. ElectionTimeout(b.candidate) =>
                current_term'[b.candidate] = current_term[b.candidate] + 1
        BY <1>1, <2>1 DEF ElectionTimeout, TypeOK
      <3>2. ~ElectionTimeout(b.candidate)
        BY <1>2, <1>3, <2>1, <3>1
      <3> QED BY <1>1, <1>3, <2>1, <3>2 DEF RoleChanges
    <2>6. Kept(A, log[b.candidate], p, t)
      <3>1. CASE b \in ballots
        <4>1. b.term <= current_term[b.candidate]
          BY <3>1 DEF VoteInv
        <4> QED BY <1>3, <2>3, <2>5, <3>1, <4>1 DEF VotersKnow
      <3>2. ASSUME NEW i \in Node, b = Ballot(i, current_term[i] + 1, i)
            PROVE  Kept(A, log[b.candidate], p, t)
        BY <2>3, <3>2 DEF Ballot, AcksHeld
      <3>3. ASSUME NEW m \in msgs, GrantVote(m), b = Ballot(m.to, m.term, m.from)
            PROVE  Kept(A, log[b.candidate], p, t)
        <4>1. b.voter = m.to /\ b.term = m.term /\ b.candidate = m.from
          BY <3>3 DEF Ballot
        <4>2. m.kind = "RequestVote" /\ CanVote(m)
          BY <3>3 DEF GrantVote
        <4>3. state[m.from] = "Candidate" /\ current_term[m.from] = m.term
          BY <2>5, <4>1, <4>2 DEF VoteInv
        <4>4. /\ m.last_log_index = Last(log[m.from]).index
              /\ m.last_log_term = Last(log[m.from]).term
          BY <4>2, <4>3 DEF VoteInv
        <4>5. UpToDate(log[m.to], Last(log[m.from]).index, Last(log[m.from]).term)
          BY <4>2, <4>4 DEF CanVote
        <4> QED BY <2>1, <2>3, <4>1, <4>5, UpToDateKeeps
      <3> QED BY <3>1, <3>2, <3>3, BallotsChange
    <2> QED BY <1>1, <2>4, <2>6, KeptStays
  <1> QED BY <1>3 DEF VotersKnow, Kept, Contains

LEMMA LeadersNext ==
    ASSUME LeaderInv, LeaderInv', [Next]_vars, NEW T, LogTree(T),
           NEW A, NEW B, AcksGrow(A, B), VotersKnow(A), LeadersKeep(A)
    PROVE  LeadersKeep(B)'
  <1>1. RoleChanges /\ TypeOK /\ TypeOK'
    BY RolesChange DEF LeaderInv, TypeInv
  <1>2. ASSUME NEW i \in Node, state'[i] = "Leader",
               NEW p \in Nat, NEW t \in Nat, t < current_term'[i]
        PROVE  Contains(log'[i], p, t) \/ Blocked(B, p, t)'
    <2>1. /\ current_term'[i] = current_term[i] /\ current_term[i] \in Nat
          /\ state[i] \in {"Candidate", "Leader"}
      BY <1>1, <1>2 DEF RoleChanges, TypeOK
    <2>2. CASE state[i] = "Leader"
      <3>1. Kept(A, log[i], p, t)
        BY <1>2, <2>1, <2>2 DEF LeadersKeep
      <3>2. log[i] \in Seq(Entry) /\ log'[i] \in Seq(Entry)
        BY <1>1 DEF TypeOK
      <3>3. Contains(log[i], p, t) => Contains(log'[i], p, t)
        BY <1>2, <3>2, LeaderLogGrows, BelowContains
      <3> QED BY <1>1, <3>1, <3>3, KeptStays
    <2>3. CASE state[i] = "Candidate"
      <3>1. log' = log
        BY <1>2, <2>3, WinnerIndices
      <3>2. Elected(current_term[i], i)'
        BY <1>2, NodeAssumption DEF LeaderInv, HintInv, LeaderHintSound, Elected
      <3>3. ~Elected(current_term[i], i)
        BY <2>1, <2>3 DEF LeaderInv, RoleInv
      <3>4. ballots' = ballots
        <4>1. elected' # elected
          BY <2>1, <3>2, <3>3 DEF Elected
        <4> QED BY <4>1, OnlyWinsElect DEF WinElection
      <3> DEFINE Q == {v \in Node : Ballot(v, current_term[i], i) \in ballots}
      <3>5. IsMajority(Q)
        BY <2>1, <3>2, <3>4 DEF LeaderInv, BallotInv, WonByMajority, Voters, Elected, IsMajority
      <3>6. ASSUME NEW v \in Q
            PROVE  /\ Ballot(v, current_term[i], i) \in ballots /\ v \in Node
                   /\ current_term[v] > t
        <4>1. Ballot(v, current_term[i], i) \in ballots /\ v \in Node
          BY <3>6
        <4>2. current_term[i] <= current_term[v]
          BY <4>1 DEF LeaderInv, BallotInv, BallotsHeld, Ballot
        <4>3. current_term[v] \in Nat
          BY <1>1, <4>1 DEF TypeOK
        <4> QED BY <1>2, <2>1, <4>1, <4>2, <4>3
      <3>7. CASE \E v \in Q : <<v, p, t>> \in A
        <4>1. PICK v \in Q : <<v, p, t>> \in A
          BY <3>7
        <4>2. Ballot(v, current_term[i], i) \in ballots
          BY <3>6
        <4>3. Kept(A, log[i], p, t)
          BY <1>2, <2>1, <2>3, <4>1, <4>2 DEF VotersKnow, Ballot
        <4> QED BY <1>1, <3>1, <4>3, KeptStays
      <3>8. CASE \A v \in Q : <<v, p, t>> \notin A
        <4>1. Q \in SUBSET Node
          OBVIOUS
        <4>2. Blocked(A, p, t)
          BY <3>5, <3>6, <3>8, <4>1 DEF Blocked
        <4> QED BY <1>1, <4>2, BlockedStays
      <3> QED BY <3>7, <3>8
    <2> QED BY <2>1, <2>2, <2>3
  <1> QED BY <1>2 DEF LeadersKeep, Kept, Contains

LEMMA TreeKeepsNext ==
    ASSUME LeaderInv, LeaderInv', [Next]_vars, NEW T, LogTree(T),
           NEW U, U = T \cup {log'[i] : i \in Node}, LogTree(U)',
           NEW A, NEW B, AcksGrow(A, B), TreeKeeps(T, A), LeadersKeep(B)'
    PROVE  TreeKeeps(U, B)'
  <1>1. RoleChanges /\ TypeOK /\ TypeOK'
    BY RolesChange DEF LeaderInv, TypeInv
  <1>2. ASSUME NEW b \in T, NEW p \in Nat, NEW t \in Nat, t < Last(b).term
        PROVE  Contains(b, p, t) \/ Blocked(B, p, t)'
    <2>1. Kept(A, b, p, t)
      BY <1>2 DEF TreeKeeps
    <2> QED BY <1>1, <2>1, KeptStays
  <1>3. ASSUME NEW i \in Node, log'[i] \notin T,
               NEW p \in Nat, NEW t \in Nat, t < Last(log'[i]).term
        PROVE  Contains(log'[i], p, t) \/ Blocked(B, p, t)'
    <2>1. log[i] \in T
      BY DEF LogTree
    <2>2. ~ \E m \in msgs : AcceptEntries(m)
      BY <1>3, <2>1, Accepted
    <2>3. PICK k \in Node, c \in Command : ClientRequest(k, c)
      BY <1>3, <2>1, <2>2, LogsChange
    <2>4. state'[i] = "Leader"
      BY <1>1, <1>3, <2>1, <2>3 DEF ClientRequest, roleVars, TypeOK
    <2>5. Last(log'[i]).term <= current_term'[i] /\ current_term'[i] \in Nat
      BY <1>1 DEF LogTree, TypeOK
    <2>6. Last(log'[i]).term \in Nat
      BY <1>1, LastType, EntryFields DEF TypeOK
    <2>7. t < current_term'[i]
      BY <1>3, <2>5, <2>6
    <2> QED BY <2>4, <2>7 DEF LeadersKeep, Kept, Contains
  <1> QED BY <1>2, <1>3 DEF TreeKeeps, Kept

-----------------------------------------------------------------------------
(* What has been committed *)

\* Entries under way come from a log that holds what older terms committed, and the
\* commit index with them is the index of something committed.
EntriesKeep(T, A) ==
    \A m \in msgs : \A l \in T : m.kind = "AppendEntries" /\ Backs(l, m) =>
        /\ \A p, t \in Nat : t < m.term => Kept(A, l, p, t)
        /\ Tip(T, A, l, m.leader_commit, m.term)

\* What a node counts as committed is part of a log that was committed.
TipsHold(T, A) == \A i \in Node : Tip(T, A, log[i], committed_index[i], current_term[i])

\* A message names the one log of the tree that its entries were cut from.
LEMMA BackingUnique ==
    ASSUME NEW T, Tree(T), NEW a \in T, NEW b \in T, NEW m \in AppendEntriesMsg,
           Backs(a, m), Backs(b, m)
    PROVE  a = b
  <1>1. m.prev_log_index \in Nat /\ Len(m.entries) \in Nat
    BY LenProperties DEF AppendEntriesMsg
  <1>2. a \in Seq(Entry) /\ b \in Seq(Entry) /\ Len(a) \in Nat \ {0} /\ Len(a) = Len(b)
    BY TreeFacts DEF Backs
  <1>3. Len(a) = m.prev_log_index + 1 + Len(m.entries)
    BY DEF Backs
  <1>4. a[Len(a)].term = b[Len(a)].term
    <2>1. CASE Len(m.entries) = 0
      BY <1>1, <1>3, <2>1 DEF Backs
    <2>2. CASE Len(m.entries) # 0
      <3>1. Len(m.entries) \in 1 .. Len(m.entries)
        BY <1>1, <2>2
      <3>2. a[Len(a)] = m.entries[Len(m.entries)] /\ b[Len(a)] = m.entries[Len(m.entries)]
        BY <1>3, <3>1 DEF Backs
      <3> QED BY <3>2
    <2> QED BY <2>1, <2>2
  <1>5. \A q \in 1 .. Len(a) : a[q] = b[q]
    BY <1>2, <1>4, TreeDetermines
  <1> QED BY <1>2, <1>5, SeqEqual

LEMMA TipStays ==
    ASSUME NEW T, Tree(T), NEW U, T \subseteq U, NEW A, NEW B, AcksGrow(A, B),
           NEW l, NEW n, NEW c \in Nat, NEW u \in Nat, NEW v \in Nat, u <= v,
           Tip(T, A, l, c, u), c + 1 <= Len(n), \A q \in 1 .. c + 1 : n[q] = l[q]
    PROVE  Tip(U, B, n, c, v)
  <1>1. PICK b \in T : /\ Committed(A, Len(b), Last(b).term) /\ Last(b).term <= u
                       /\ c + 1 <= Len(b) /\ c + 1 <= Len(l)
                       /\ \A q \in 1 .. c + 1 : l[q] = b[q]
    BY DEF Tip
  <1>2. Len(b) \in Nat /\ Last(b).term \in Nat
    <2>1. Len(b) \in Nat \ {0} /\ Last(b) = b[Len(b)] /\ \A q \in 1 .. Len(b) : b[q].term \in Nat
      BY TreeFacts
    <2> QED BY <2>1
  <1>3. Committed(B, Len(b), Last(b).term) /\ Last(b).term <= v
    BY <1>1, <1>2, CommittedStays
  <1> QED BY <1>1, <1>3 DEF Tip

\* A log that keeps a committed entry starts with all that was committed with it.
LEMMA KeepsCommitted ==
    ASSUME NEW T, Tree(T), NEW A, NEW l \in T, NEW b \in T,
           Committed(A, Len(b), Last(b).term), Kept(A, l, Len(b), Last(b).term)
    PROVE  Below(b, l)
  <1>1. Contains(l, Len(b), Last(b).term)
    BY CommittedContained
  <1>2. /\ Len(b) \in Nat \ {0} /\ Len(l) \in Nat /\ Last(b) = b[Len(b)]
    BY TreeFacts
  <1>3. Len(b) \in 1 .. Len(b) /\ Len(b) <= Len(l) /\ b[Len(b)].term = l[Len(b)].term
    BY <1>1, <1>2 DEF Contains
  <1>4. \A q \in 1 .. Len(b) : b[q] = l[q]
    BY <1>3, TreeDetermines
  <1> QED BY <1>3, <1>4 DEF Below

\* No step changes an entry a node counts as committed.
LEMMA CommittedPrefixStays ==
    ASSUME LeaderInv, LeaderInv', [Next]_vars, NEW T, LogTree(T),
           NEW A, TipsHold(T, A), EntriesKeep(T, A), NEW i \in Node
    PROVE  /\ committed_index[i] \in Nat
           /\ committed_index[i] + 1 <= Len(log[i]) /\ committed_index[i] + 1 <= Len(log'[i])
           /\ \A q \in 1 .. committed_index[i] + 1 : log'[i][q] = log[i][q]
  <1> DEFINE n == committed_index[i] + 1
  <1>1. TypeOK /\ Tree(T) /\ log[i] \in T
    BY DEF LeaderInv, TypeInv, LogTree
  <1>2. committed_index[i] \in Nat /\ current_term[i] \in Nat /\ n \in Nat \ {0}
    BY <1>1 DEF TypeOK
  <1>3. log[i] \in Seq(Entry) /\ Len(log[i]) \in Nat \ {0}
    BY <1>1, TreeFacts
  <1>4. PICK b \in T :
           /\ Committed(A, Len(b), Last(b).term) /\ Last(b).term <= current_term[i]
           /\ n <= Len(b) /\ n <= Len(log[i]) /\ \A q \in 1 .. n : log[i][q] = b[q]
    BY DEF TipsHold, Tip
  <1>5. Len(b) \in Nat /\ Last(b).term \in Nat
    <2>1. Len(b) \in Nat \ {0} /\ Last(b) = b[Len(b)] /\ \A q \in 1 .. Len(b) : b[q].term \in Nat
      BY <1>1, TreeFacts
    <2> QED BY <2>1
  <1> HIDE DEF n
  <1>6. ASSUME log'[i] = log[i]
        PROVE  n <= Len(log'[i]) /\ \A q \in 1 .. n : log'[i][q] = log[i][q]
    BY <1>4, <1>6
  <1>7. ASSUME NEW k \in Node, NEW c \in Command, ClientRequest(k, c), log'[i] # log[i]
        PROVE  n <= Len(log'[i]) /\ \A q \in 1 .. n : log'[i][q] = log[i][q]
    <2>1. state'[k] = "Leader" /\ k = i
      BY <1>1, <1>7 DEF ClientRequest, roleVars, TypeOK
    <2>2. Below(log[i], log'[i])
      BY <2>1, LeaderLogGrows
    <2>3. Len(log'[i]) \in Nat
      BY LenProperties DEF LeaderInv, TypeInv, TypeOK
    <2>4. \A q \in 1 .. n : q \in 1 .. Len(log[i])
      BY <1>2, <1>3, <1>4
    <2> QED BY <1>2, <1>3, <1>4, <2>2, <2>3, <2>4 DEF Below
  <1>8. ASSUME NEW m \in msgs, AcceptEntries(m), log'[i] # log[i]
        PROVE  n <= Len(log'[i]) /\ \A q \in 1 .. n : log'[i][q] = log[i][q]
    <2>1. /\ m \in AppendEntriesMsg /\ m.to \in Node /\ current_term[m.to] <= m.term
          /\ \A j \in Node \ {m.to} : log'[j] = log[j]
      BY <1>8, Accepted
    <2>2. i = m.to
      BY <1>8, <2>1
    <2>3. PICK l \in T : /\ Stands(T, l, m)
                         /\ log'[i] = log[i] \/ (log'[i] = l /\ ~Below(l, log[i]))
      BY <1>8, <2>2, Accepted
    <2>4. Backs(l, m) /\ m.kind = "AppendEntries" /\ m.term \in Nat
      BY <2>1, <2>3 DEF Stands, AppendEntriesMsg
    <2>5. Below(b, l) \/ Below(l, b)
      <3>1. CASE Last(b).term = m.term
        BY <2>3, <3>1 DEF Stands
      <3>2. CASE Last(b).term < m.term
        <4>1. Kept(A, l, Len(b), Last(b).term)
          BY <1>5, <2>4, <3>2 DEF EntriesKeep
        <4> QED BY <1>1, <1>4, <4>1, KeepsCommitted
      <3>3. Last(b).term <= m.term
        BY <1>2, <1>4, <1>5, <2>1, <2>2, <2>4
      <3> QED BY <1>5, <2>4, <3>1, <3>2, <3>3
    <2>6. Len(l) \in Nat
      BY <1>1, TreeFacts
    <2>7. CASE Below(b, l)
      BY <1>2, <1>4, <1>5, <1>8, <2>3, <2>6, <2>7 DEF Below
    <2>8. CASE Below(l, b)
      <3>1. ~Below(l, log[i])
        BY <1>8, <2>3
      <3>2. n <= Len(l)
        <4> SUFFICES ASSUME Len(l) < n PROVE Below(l, log[i])
          BY <1>2, <2>6, <3>1
        <4> QED BY <1>2, <1>3, <1>4, <1>5, <2>6, <2>8 DEF Below
      <3>3. \A q \in 1 .. n : l[q] = b[q]
        BY <1>2, <2>6, <2>8, <3>2 DEF Below
      <3>4. log'[i] = l
        BY <1>8, <2>3
      <3> QED BY <1>4, <3>2, <3>3, <3>4
    <2> QED BY <2>5, <2>7, <2>8
  <1>9. n <= Len(log'[i]) /\ \A q \in 1 .. n : log'[i][q] = log[i][q]
    BY <1>6, <1>7, <1>8, LogsChange
  <1> QED BY <1>2, <1>4, <1>9 DEF n

-----------------------------------------------------------------------------
(* The index a majority has reached *)

\* Among some nodes, one has a value no other of them exceeds: the one with the
\* fewest above it.
LEMMA SomeHighest ==
    ASSUME NEW S \in SUBSET Node, S # {}, NEW f \in [Node -> Nat]
    PROVE  \E i \in S : \A j \in S : f[j] <= f[i]
  <1> DEFINE Above(i) == {k \in S : f[k] > f[i]}
             counts == {Cardinality(Above(i)) : i \in S}
  <1>1. IsFiniteSet(S)
    BY NodeAssumption, FS_Subset
  <1>2. ASSUME NEW i \in S
        PROVE  IsFiniteSet(Above(i)) /\ Cardinality(Above(i)) \in Nat
    BY <1>1, FS_Subset, FS_CardinalityType
  <1>3. counts \subseteq Nat /\ counts # {}
    BY <1>2
  <1>4. PICK c \in counts : \A d \in counts : c <= d
    BY <1>3, LeastNatural
  <1>5. PICK i \in S : c = Cardinality(Above(i))
    BY <1>4
  <1>6. ASSUME NEW j \in S, f[j] > f[i]
        PROVE  FALSE
    <2>1. f[i] \in Nat /\ f[j] \in Nat /\ \A k \in S : f[k] \in Nat
      OBVIOUS
    <2>2. Above(j) \in SUBSET Above(i) /\ j \in Above(i) /\ j \notin Above(j)
      BY <1>6, <2>1
    <2>3. Cardinality(Above(j)) <= Cardinality(Above(i)) /\ Cardinality(Above(i)) # Cardinality(Above(j))
      BY <1>2, <2>2, FS_Subset
    <2>4. c <= Cardinality(Above(j))
      BY <1>4
    <2> HIDE DEF Above
    <2> QED BY <1>2, <1>5, <2>3, <2>4
  <1>7. \A j \in S : f[j] <= f[i]
    BY <1>6
  <1> QED BY <1>7

\* The median of the sorted indices is one that a majority has reached.
LEMMA AgreedByMajority ==
    ASSUME NEW reached \in [Node -> Nat], NEW i \in Node
    PROVE  /\ HighestAgreed(reached) \in Nat
           /\ IsMajority({j \in Node : reached[j] >= HighestAgreed(reached)})
  <1> DEFINE Reach(v) == {j \in Node : reached[j] >= v}
             n == Cardinality(Node)
             Agreed(v) == Cardinality(Reach(v)) >= MajoritySize(n)
             candidates == {v \in {reached[j] : j \in Node} : Agreed(v)}
             S == {j \in Node : Agreed(reached[j])}
  <1>1. IsFiniteSet(Node) /\ n \in Nat
    BY NodeAssumption, FS_CardinalityType
  <1>2. n # 0
    BY <1>1, FS_EmptySet
  <1>3. ASSUME NEW v \in Nat
        PROVE  Cardinality(Reach(v)) \in Nat
    BY <1>1, FS_Subset, FS_CardinalityType
  <1>4. S # {}
    <2>1. PICK l \in {reached[j] : j \in Node} : \A v \in {reached[j] : j \in Node} : l <= v
      <3>1. {reached[j] : j \in Node} \subseteq Nat /\ {reached[j] : j \in Node} # {}
        OBVIOUS
      <3> QED BY <3>1, LeastNatural
    <2>2. PICK k \in Node : l = reached[k]
      BY <2>1
    <2>3. Reach(reached[k]) = Node
      BY <2>1, <2>2
    <2>4. n >= MajoritySize(n)
      <3> HIDE DEF n
      <3> QED BY <1>1, <1>2 DEF MajoritySize
    <2> QED BY <2>3, <2>4
  <1>5. PICK k \in S : \A j \in S : reached[j] <= reached[k]
    BY <1>4, SomeHighest
  <1>6. reached[k] \in candidates /\ \A w \in candidates : w <= reached[k]
    BY <1>5
  <1>7. DOMAIN reached = Node
    OBVIOUS
  <1>8. HighestAgreed(reached) = CHOOSE v \in candidates : \A w \in candidates : w <= v
    BY <1>7 DEF HighestAgreed
  <1>9. HighestAgreed(reached) \in candidates
    <2> HIDE DEF candidates
    <2> QED BY <1>6, <1>8
  <1>10. HighestAgreed(reached) \in Nat /\ Agreed(HighestAgreed(reached))
    BY <1>9
  <1>11. Cardinality(Reach(HighestAgreed(reached))) > n \div 2
    <2>1. Cardinality(Reach(HighestAgreed(reached))) \in Nat
      BY <1>3, <1>10
    <2> HIDE DEF n, Reach
    <2> QED BY <1>1, <1>10, <2>1 DEF MajoritySize
  <1> QED BY <1>10, <1>11 DEF IsMajority

-----------------------------------------------------------------------------
(* Counting replicas *)

\* A positive reply to the leader of its term stands for acknowledgements.
AckedReplies(A) ==
    \A m \in msgs :
        /\ m.kind = "AppendReply" /\ m.success
        /\ state[m.to] = "Leader" /\ current_term[m.to] = m.term
        => \A p \in 1 .. m.match_index + 1 :
              log[m.to][p].term = m.term => <<m.from, p, m.term>> \in A

\* A leader's match index of a follower stands for acknowledgements.
AckedMatches(A) ==
    \A i, j \in Node : state[i] = "Leader" /\ i # j =>
        \A p \in 1 .. match_indices[i][j] + 1 :
            log[i][p].term = current_term[i] => <<j, p, current_term[i]>> \in A

LEMMA RepliesAcked ==
    ASSUME LeaderInv, LeaderInv', IndexInv, [Next]_vars, NEW T, LogTree(T),
           NEW A, NEW B, AcksGrow(A, B), AckedReplies(A)
    PROVE  AckedReplies(B)'
  <1>1. RoleChanges /\ TypeOK /\ TypeOK'
    BY RolesChange DEF LeaderInv, TypeInv
  <1>2. ASSUME NEW r \in msgs', r.kind = "AppendReply", r.success,
               state'[r.to] = "Leader", current_term'[r.to] = r.term,
               NEW p \in 1 .. r.match_index + 1, log'[r.to][p].term = r.term
        PROVE  <<r.from, p, r.term>> \in B
    <2>1. /\ r.from \in Node /\ r.to \in Node /\ r.term \in Nat /\ r.match_index \in Nat
          /\ p \in Nat
      <3>1. msgs' \subseteq Message
        BY <1>1 DEF TypeOK
      <3>2. r \in Message
        BY <1>2, <3>1
      <3>3. /\ r.from \in Node /\ r.to \in Node /\ r.term \in Nat /\ r \in AppendReplyMsg
        BY <1>2, <3>2, MessageFields
      <3>4. r.match_index \in Nat
        BY <3>3 DEF AppendReplyMsg
      <3>5. p \in Nat
        BY <1>2, <3>4
      <3> QED BY <3>3, <3>4, <3>5
    <2>2. /\ log[r.to] \in Seq(Entry) /\ Len(log[r.to]) \in Nat
          /\ log'[r.from] \in Seq(Entry) /\ Len(log'[r.from]) \in Nat
      BY <1>1, <2>1, LenProperties DEF TypeOK
    <2>3. CASE r \in msgs
      <3>1. /\ Elected(r.term, r.to)
            /\ state[r.to] = "Leader" /\ current_term[r.to] = r.term =>
                  Holds(r.to, r.from, r.match_index)
        BY <1>2, <2>3 DEF IndexInv, RepliesHold
      <3>2. state[r.to] = "Leader" /\ current_term[r.to] = r.term
        BY <1>1, <1>2, <2>1, <3>1, LedBefore
      <3>3. r.match_index < Len(log[r.to])
        BY <3>1, <3>2 DEF Holds
      <3>4. Below(log[r.to], log'[r.to])
        BY <1>2, <2>1, LeaderLogGrows
      <3>5. log'[r.to][p] = log[r.to][p]
        BY <2>1, <2>2, <3>3, <3>4 DEF Below
      <3>6. <<r.from, p, r.term>> \in A
        BY <1>2, <2>3, <3>2, <3>5 DEF AckedReplies
      <3> QED BY <2>1, <3>6 DEF AcksGrow
    <2>4. CASE r \notin msgs
      <3>1. PICK m \in msgs : AcceptEntries(m) /\ r = AcceptReply(m)
        BY <1>2, <2>4, RepliesSent
      <3>2. Holds(r.to, r.from, r.match_index)'
        BY <1>2, <3>1, AcceptHolds
      <3>3. current_term'[r.from] = r.term
        <4>1. r.from = m.to /\ r.term = m.term
          BY <3>1 DEF AcceptReply, AppendReply
        <4> QED BY <3>1, <4>1, Accepted
      <3>4. /\ r.match_index < Len(log'[r.from])
            /\ \A q \in 1 .. r.match_index + 1 : log'[r.from][q] = log'[r.to][q]
        BY <1>2, <3>2, <3>3 DEF Holds
      <3>5. Contains(log'[r.from], p, r.term)
        BY <1>2, <2>1, <2>2, <3>4 DEF Contains
      <3> QED BY <2>1, <3>3, <3>5 DEF AcksGrow
    <2> QED BY <2>3, <2>4
  <1> QED BY <1>2 DEF AckedReplies

LEMMA MatchesAcked ==
    ASSUME LeaderInv, LeaderInv', IndexInv, [Next]_vars, NEW T, LogTree(T),
           NEW A, NEW B, AcksGrow(A, B), AckedReplies(A), AckedMatches(A)
    PROVE  AckedMatches(B)'
  <1>1. RoleChanges /\ TypeOK /\ TypeOK'
    BY RolesChange DEF LeaderInv, TypeInv
  <1>2. ASSUME NEW i \in Node, NEW j \in Node, state'[i] = "Leader", i # j,
               NEW p \in 1 .. match_indices'[i][j] + 1, log'[i][p].term = current_term'[i]
        PROVE  <<j, p, current_term'[i]>> \in B
    <2>1. /\ current_term'[i] = current_term[i] /\ current_term[i] \in Nat
          /\ match_indices[i][j] \in Nat /\ match_indices'[i][j] \in Nat /\ p \in Nat
          /\ log[i] \in Seq(Entry) /\ Len(log[i]) \in Nat
      BY <1>1, <1>2, LenProperties DEF RoleChanges, TypeOK
    <2>2. CASE state[i] = "Leader"
      <3>1. CASE match_indices'[i][j] = match_indices[i][j]
        <4>1. match_indices[i][j] < Len(log[i])
          BY <1>2, <2>2 DEF IndexInv, MatchesHold, Holds
        <4>2. Below(log[i], log'[i])
          BY <1>2, LeaderLogGrows
        <4>3. log'[i][p] = log[i][p]
          BY <1>2, <2>1, <3>1, <4>1, <4>2 DEF Below
        <4>4. <<j, p, current_term[i]>> \in A
          BY <1>2, <2>1, <2>2, <3>1, <4>3 DEF AckedMatches
        <4> QED BY <2>1, <4>4 DEF AcksGrow
      <3>2. ASSUME NEW m \in msgs, m.kind = "AppendReply", m.success, m.from = j, m.to = i,
                   m.term = current_term[i], log'[i] = log[i],
                   match_indices'[i][j] = m.match_index
            PROVE  <<j, p, current_term'[i]>> \in B
        <4>1. <<j, p, current_term[i]>> \in A
          BY <1>2, <2>1, <2>2, <3>2 DEF AckedReplies
        <4> QED BY <2>1, <4>1 DEF AcksGrow
      <3>3. IndicesMove(i, j)
        BY <1>2, <2>2, IndicesChange
      <3> QED BY <3>1, <3>2, <3>3 DEF IndicesMove
    <2>3. CASE state[i] # "Leader"
      <3>1. match_indices'[i][j] = 0 /\ log' = log
        BY <1>2, <2>3, WinnerIndices
      <3>2. log[i][1].term = 0
        <4>1. log[i] \in T /\ Tree(T)
          BY DEF LogTree
        <4> QED BY <4>1, TreeFacts DEF Sentinel
      <3>3. current_term'[i] >= 1
        BY <1>2 DEF LeaderInv, RoleInv
      <3> QED BY <1>2, <2>1, <3>1, <3>2, <3>3
    <2> QED BY <2>2, <2>3
  <1> QED BY <1>2 DEF AckedMatches

-----------------------------------------------------------------------------
(* How far a node commits and applies *)

\* What moves a commit index: entries of a leader, or a reply to one.
LEMMA CommitsChange ==
    ASSUME TypeOK, [Next]_vars, NEW i \in Node
    PROVE  \/ /\ committed_index'[i] = committed_index[i]
              /\ last_applied'[i] = last_applied[i] /\ applied'[i] = applied[i]
           \/ \E m \in msgs : AcceptEntries(m) /\ m.to = i
           \/ \E m \in msgs : EntriesReplicated(m) /\ m.to = i
  <1>1. CASE UNCHANGED vars
    BY <1>1 DEF vars, logVars
  <1>2. ASSUME NEW k \in Node,
               \/ ElectionTimeout(k) \/ HeartbeatTimeout(k)
               \/ \E c \in Command : ClientRequest(k, c)
        PROVE  UNCHANGED <<committed_index, last_applied, applied>>
    BY <1>2 DEF ElectionTimeout, HeartbeatTimeout, ClientRequest, logVars
  <1>3. ASSUME NEW m \in msgs, AcceptEntries(m) \/ EntriesReplicated(m), m.to # i
        PROVE  /\ committed_index'[i] = committed_index[i]
               /\ last_applied'[i] = last_applied[i] /\ applied'[i] = applied[i]
    BY <1>3 DEF AcceptEntries, EntriesReplicated, CommitAndApply, TypeOK
  <1>4. ASSUME NEW m \in msgs, Receive(m) \/ Drop(m), ~AcceptEntries(m), ~EntriesReplicated(m)
        PROVE  UNCHANGED <<committed_index, last_applied, applied>>
    BY <1>4
    DEF Receive, RejectStaleVote, GrantVote, DenyVote, NewerTermReply, RecordVote, WinElection,
        RejectStaleEntries, RejectUnmatchedEntries, EntriesRejected, IgnoreReply, Drop, logVars
  <1> QED BY <1>1, <1>2, <1>3, <1>4 DEF Next

\* handle_append_entries hands CommitAndApply a log that it may commit this far.
LEMMA FollowerCommits ==
    ASSUME LeaderInv, LeaderInv', [Next]_vars, NEW T, LogTree(T), NEW A, EntriesKeep(T, A),
           NEW m \in msgs, AcceptEntries(m)
    PROVE  /\ CommitAndApply(m.to, log'[m.to], FollowerCommit(m))
           /\ FollowerCommit(m) >= committed_index[m.to] /\ FollowerCommit(m) \in Nat
           /\ FollowerCommit(m) # committed_index[m.to] =>
                 Tip(T, A, log'[m.to], FollowerCommit(m), current_term'[m.to])
  <1>1. TypeOK /\ TypeOK' /\ Tree(T)
    BY DEF LeaderInv, TypeInv, LogTree
  <1>2. /\ m \in AppendEntriesMsg /\ m.to \in Node /\ current_term'[m.to] = m.term
    BY Accepted
  <1>3. PICK l \in T : Stands(T, l, m) /\ Below(l, log'[m.to])
    BY Accepted
  <1>4. /\ Backs(l, m) /\ m.kind = "AppendEntries" /\ m.leader_commit \in Nat
        /\ committed_index[m.to] \in Nat
    BY <1>1, <1>2, <1>3 DEF Stands, AppendEntriesMsg, TypeOK
  <1>5. Tip(T, A, l, m.leader_commit, m.term)
    BY <1>4 DEF EntriesKeep
  <1>6. PICK b \in T :
           /\ Committed(A, Len(b), Last(b).term) /\ Last(b).term <= m.term
           /\ m.leader_commit + 1 <= Len(b) /\ m.leader_commit + 1 <= Len(l)
           /\ \A q \in 1 .. m.leader_commit + 1 : l[q] = b[q]
    BY <1>5 DEF Tip
  <1>7. /\ Len(l) \in Nat \ {0} /\ Len(log'[m.to]) \in Nat
    BY <1>1, <1>2, TreeFacts, LenProperties DEF TypeOK
  <1>8. LastNewEntryIndex(m.prev_log_index, m.entries) = Len(l) - 1
    BY <1>1, <1>2, <1>4, LastNew
  <1>9. FollowerCommit(m) = Larger(m.leader_commit, committed_index[m.to])
    BY <1>4, <1>6, <1>7, <1>8 DEF FollowerCommit, Smaller, Larger
  <1>10. ASSUME FollowerCommit(m) # committed_index[m.to]
         PROVE  Tip(T, A, log'[m.to], FollowerCommit(m), current_term'[m.to])
    <2>1. FollowerCommit(m) = m.leader_commit
      BY <1>4, <1>9, <1>10 DEF Larger
    <2>2. /\ m.leader_commit + 1 <= Len(log'[m.to])
          /\ \A q \in 1 .. m.leader_commit + 1 : log'[m.to][q] = b[q]
      <3>1. Len(l) <= Len(log'[m.to]) /\ \A q \in 1 .. Len(l) : l[q] = log'[m.to][q]
        BY <1>3 DEF Below
      <3>2. m.leader_commit + 1 <= Len(log'[m.to])
        BY <1>4, <1>6, <1>7, <3>1
      <3>3. \A q \in 1 .. m.leader_commit + 1 : q \in 1 .. Len(l)
        BY <1>4, <1>6, <1>7
      <3> QED BY <1>6, <3>1, <3>2, <3>3
    <2> QED BY <1>2, <1>6, <2>1, <2>2 DEF Tip
  <1>11. CommitAndApply(m.to, log'[m.to], FollowerCommit(m))
    <2>1. log'[m.to] = Merged(log[m.to], m.entries)
      BY <1>1, <1>2 DEF AcceptEntries, TypeOK
    <2> QED BY <2>1 DEF AcceptEntries
  <1> QED BY <1>4, <1>9, <1>10, <1>11 DEF Larger

\* handle_append_entries_reply commits what a majority has acknowledged.
LEMMA LeaderCommits ==
    ASSUME LeaderInv, LeaderInv', [Next]_vars, NEW T, LogTree(T), NEW A, AcksHeld(A),
           AckedReplies(A), AckedMatches(A), NEW m \in msgs, EntriesReplicated(m)
    PROVE  /\ m.to \in Node /\ log' = log /\ current_term' = current_term
           /\ \E c \in Nat :
                /\ CommitAndApply(m.to, log'[m.to], c) /\ c >= committed_index[m.to]
                /\ c # committed_index[m.to] => Tip(T, A, log'[m.to], c, current_term'[m.to])
  <1> DEFINE i == m.to
             matched == [match_indices[i] EXCEPT ![m.from] = m.match_index]
             reached == [matched EXCEPT ![i] = Last(log[i]).index]
             agreed == HighestAgreed(reached)
             c == IF MayCommit(i, agreed) THEN agreed ELSE committed_index[i]
  <1>1. TypeOK /\ Tree(T) /\ log[i] \in T
    BY MessageFields DEF LeaderInv, TypeInv, TypeOK, LogTree
  <1>2. /\ i \in Node /\ m.kind = "AppendReply" /\ m.success
        /\ m.term = current_term[i] /\ state[i] = "Leader"
        /\ m \in AppendReplyMsg /\ m.match_index \in Nat /\ m.from \in Node
        /\ committed_index[i] \in Nat /\ current_term[i] \in Nat
    BY <1>1, MessageFields DEF EntriesReplicated, ReplyInTerm, TypeOK, AppendReplyMsg
  <1>3. log' = log /\ current_term' = current_term
    BY DEF EntriesReplicated, termVars
  <1>4. CommitAndApply(i, log[i], c)
    BY DEF EntriesReplicated, AgreedIndex
  <1>5. reached \in [Node -> Nat]
    <2>1. Last(log[i]).index \in Nat
      BY <1>1, <1>2, LastType, EntryFields DEF TypeOK
    <2>2. match_indices[i] \in [Node -> Nat]
      BY <1>1, <1>2 DEF TypeOK
    <2> QED BY <1>2, <2>1, <2>2
  <1>6. agreed \in Nat /\ IsMajority({j \in Node : reached[j] >= agreed})
    BY <1>2, <1>5, AgreedByMajority
  <1>7. ASSUME MayCommit(i, agreed)
        PROVE  Tip(T, A, log[i], agreed, current_term[i])
    <2> DEFINE p == agreed + 1
               b == Prefix(log[i], p)
               V == {j \in Node : reached[j] >= agreed}
    <2>1. p \in 1 .. Len(log[i]) /\ log[i][p].term = current_term[i]
      BY <1>1, <1>6, <1>7, TreeFacts DEF MayCommit, HoldsTerm
    <2>2. /\ b \in T /\ Len(b) = p /\ Last(b).term = current_term[i]
          /\ \A q \in 1 .. p : b[q] = log[i][q]
      <3> HIDE DEF p
      <3> QED BY <1>1, <2>1, PrefixBelow
    <2>3. ASSUME NEW j \in V
          PROVE  <<j, p, current_term[i]>> \in A
      <3>1. j \in Node /\ reached[j] >= agreed
        BY <2>3
      <3>2. CASE j = i
        <4>1. Contains(log[i], p, current_term[i]) /\ p \in Nat
          BY <1>6, <2>1 DEF Contains
        <4> QED BY <1>2, <3>2, <4>1 DEF AcksHeld
      <3>3. CASE j # i /\ j = m.from
        <4>1. reached[j] = m.match_index
          BY <1>1, <1>2, <3>1, <3>3 DEF TypeOK
        <4>2. p \in 1 .. m.match_index + 1
          BY <1>2, <1>6, <3>1, <4>1
        <4>3. log[m.to][p].term = m.term /\ state[m.to] = "Leader" /\ current_term[m.to] = m.term
          BY <1>2, <2>1
        <4> HIDE DEF p
        <4>4. <<m.from, p, m.term>> \in A
          BY <1>2, <4>2, <4>3 DEF AckedReplies
        <4> QED BY <1>2, <3>3, <4>4
      <3>4. CASE j # i /\ j # m.from
        <4>1. reached[j] = match_indices[i][j] /\ match_indices[i][j] \in Nat
          BY <1>1, <1>2, <3>1, <3>4 DEF TypeOK
        <4>2. p \in 1 .. match_indices[i][j] + 1
          BY <1>6, <3>1, <4>1
        <4> HIDE DEF p
        <4> QED BY <1>2, <2>1, <3>1, <3>4, <4>2 DEF AckedMatches
      <3> QED BY <3>2, <3>3, <3>4
    <2>4. Committed(A, Len(b), Last(b).term)
      <3>1. V \in SUBSET Node /\ IsMajority(V)
        BY <1>6
      <3> HIDE DEF V, b, p
      <3> QED BY <2>2, <2>3, <3>1 DEF Committed
    <2>5. Last(b).term <= current_term[i] /\ p <= Len(log[i]) /\ p <= Len(b)
      <3> HIDE DEF b
      <3>1. Len(log[i]) \in Nat
        BY <1>1, TreeFacts
      <3> QED BY <1>2, <1>6, <2>1, <2>2, <3>1
    <2>6. \A q \in 1 .. p : log[i][q] = b[q]
      BY <2>2
    <2> HIDE DEF b
    <2> QED BY <2>2, <2>4, <2>5, <2>6 DEF Tip
  <1>8. c \in Nat /\ c >= committed_index[i]
    BY <1>2, <1>6 DEF MayCommit
  <1>9. c # committed_index[i] => Tip(T, A, log[i], c, current_term[i])
    BY <1>7
  <1> HIDE DEF c, agreed
  <1> QED BY <1>2, <1>3, <1>4, <1>8, <1>9

\* What a step does to a node's commit index.
LEMMA CommitSteps ==
    ASSUME LeaderInv, LeaderInv', [Next]_vars, NEW T, LogTree(T), NEW A, AcksHeld(A),
           EntriesKeep(T, A), AckedReplies(A), AckedMatches(A), NEW i \in Node
    PROVE  \/ /\ committed_index'[i] = committed_index[i]
              /\ last_applied'[i] = last_applied[i] /\ applied'[i] = applied[i]
           \/ \E c \in Nat :
                /\ CommitAndApply(i, log'[i], c) /\ c >= committed_index[i]
                /\ committed_index'[i] = c
                /\ c # committed_index[i] => Tip(T, A, log'[i], c, current_term'[i])
  <1>1. TypeOK
    BY DEF LeaderInv, TypeInv
  <1>2. ASSUME NEW m \in msgs, AcceptEntries(m), m.to = i
        PROVE  \E c \in Nat :
                 /\ CommitAndApply(i, log'[i], c) /\ c >= committed_index[i]
                 /\ c # committed_index[i] => Tip(T, A, log'[i], c, current_term'[i])
    BY <1>2, FollowerCommits
  <1>3. ASSUME NEW m \in msgs, EntriesReplicated(m), m.to = i
        PROVE  \E c \in Nat :
                 /\ CommitAndApply(i, log'[i], c) /\ c >= committed_index[i]
                 /\ c # committed_index[i] => Tip(T, A, log'[i], c, current_term'[i])
    BY <1>3, LeaderCommits
  <1>4. ASSUME NEW c \in Nat, CommitAndApply(i, log'[i], c)
        PROVE  committed_index'[i] = c
    BY <1>1, <1>4 DEF CommitAndApply, TypeOK
  <1> QED BY <1>1, <1>2, <1>3, <1>4, CommitsChange

LEMMA TipsNext ==
    ASSUME LeaderInv, LeaderInv', [Next]_vars, NEW T, LogTree(T), NEW U, T \subseteq U,
           NEW A, NEW B, AcksHeld(A), AcksGrow(A, B), TipsHold(T, A), EntriesKeep(T, A),
           AckedReplies(A), AckedMatches(A)
    PROVE  TipsHold(U, B)'
  <1>1. RoleChanges /\ TypeOK /\ TypeOK' /\ Tree(T)
    BY RolesChange DEF LeaderInv, TypeInv, LogTree
  <1>2. ASSUME NEW i \in Node
        PROVE  Tip(U, B, log'[i], committed_index'[i], current_term'[i])
    <2>1. /\ current_term[i] \in Nat /\ current_term'[i] \in Nat
          /\ current_term[i] <= current_term'[i] /\ committed_index'[i] \in Nat
      BY <1>1 DEF RoleChanges, TypeOK
    <2>2. CASE committed_index'[i] = committed_index[i]
      <3>1. /\ committed_index[i] \in Nat /\ committed_index[i] + 1 <= Len(log'[i])
            /\ \A q \in 1 .. committed_index[i] + 1 : log'[i][q] = log[i][q]
        BY CommittedPrefixStays
      <3>2. Tip(T, A, log[i], committed_index[i], current_term[i])
        BY DEF TipsHold
      <3>3. Tip(U, B, log'[i], committed_index[i], current_term'[i])
        BY <1>1, <2>1, <3>1, <3>2, TipStays
      <3> QED BY <2>2, <3>3
    <2>3. CASE committed_index'[i] # committed_index[i]
      <3>1. Tip(T, A, log'[i], committed_index'[i], current_term'[i])
        BY <2>3, CommitSteps
      <3>2. committed_index'[i] + 1 <= Len(log'[i])
        BY <3>1 DEF Tip
      <3>3. \A q \in 1 .. committed_index'[i] + 1 : log'[i][q] = log'[i][q]
        OBVIOUS
      <3> QED BY <1>1, <2>1, <3>1, <3>2, <3>3, TipStays
    <2> QED BY <2>2, <2>3
  <1> QED BY <1>2 DEF TipsHold, Tip

LEMMA EntriesKeepNext ==
    ASSUME LeaderInv, LeaderInv', NextIndexInLog, [Next]_vars, NEW T, LogTree(T),
           NEW U, U = T \cup {log'[i] : i \in Node}, LogTree(U)',
           NEW A, NEW B, AcksGrow(A, B), EntriesKeep(T, A), LeadersKeep(B)', TipsHold(U, B)'
    PROVE  EntriesKeep(U, B)'
  <1>1. RoleChanges /\ TypeOK /\ TypeOK' /\ Tree(T) /\ Tree(U)
    BY RolesChange DEF LeaderInv, TypeInv, LogTree, Tree
  <1>2. ASSUME NEW m \in msgs', NEW l \in U, m.kind = "AppendEntries", Backs(l, m)
        PROVE  /\ \A p, t \in Nat : t < m.term => Contains(l, p, t) \/ Blocked(B, p, t)'
               /\ Tip(U, B, l, m.leader_commit, m.term)
    <2>1. m \in AppendEntriesMsg /\ m.term \in Nat /\ m.leader_commit \in Nat
      BY <1>1, <1>2, MessageFields DEF TypeOK, AppendEntriesMsg
    <2>2. CASE m \in msgs
      <3>1. PICK b \in T : Backs(b, m)
        BY <1>2, <2>2 DEF LogTree, Stands
      <3>2. l = b
        BY <1>1, <1>2, <2>1, <3>1, BackingUnique
      <3>3. /\ \A p, t \in Nat : t < m.term => Kept(A, l, p, t)
            /\ Tip(T, A, l, m.leader_commit, m.term)
        BY <1>2, <2>2, <3>1, <3>2 DEF EntriesKeep
      <3>4. ASSUME NEW p \in Nat, NEW t \in Nat, t < m.term
            PROVE  Contains(l, p, t) \/ Blocked(B, p, t)'
        BY <1>1, <3>3, <3>4, KeptStays
      <3>5. m.leader_commit + 1 <= Len(l) /\ \A q \in 1 .. m.leader_commit + 1 : l[q] = l[q]
        BY <3>3 DEF Tip
      <3>6. Tip(U, B, l, m.leader_commit, m.term)
        BY <1>1, <2>1, <3>3, <3>5, TipStays
      <3> QED BY <3>4, <3>6
    <2>3. CASE m \notin msgs
      <3>1. SentByLeader(m)
        BY <1>2, <2>3, TreeIndices, EntriesSent
      <3>2. PICK i \in Node : \E j \in Peers(i) : \E next \in 1 .. Len(log'[i]) :
               /\ state'[i] = "Leader" /\ current_term'[i] = current_term[i]
               /\ committed_index'[i] = committed_index[i]
               /\ m = AppendEntriesArgs(i, j, next, log'[i], committed_index[i])
        BY <3>1 DEF SentByLeader
      <3>3. PICK j \in Peers(i), next \in 1 .. Len(log'[i]) :
               /\ state'[i] = "Leader" /\ current_term'[i] = current_term[i]
               /\ committed_index'[i] = committed_index[i]
               /\ m = AppendEntriesArgs(i, j, next, log'[i], committed_index[i])
        BY <3>2
      <3>4. m.term = current_term'[i] /\ m.leader_commit = committed_index'[i]
        BY <3>3 DEF AppendEntriesArgs
      <3>5. log'[i] \in U /\ Last(log'[i]).term <= current_term[i]
        BY <3>3 DEF LogTree
      <3>6. Backs(log'[i], m)
        BY <1>1, <3>3, <3>5, ArgsBack
      <3>7. l = log'[i]
        BY <1>1, <1>2, <2>1, <3>5, <3>6, BackingUnique
      <3>8. \A p, t \in Nat : t < current_term'[i] => Contains(log'[i], p, t) \/ Blocked(B, p, t)'
        BY <3>3 DEF LeadersKeep, Kept, Contains
      <3>9. Tip(U, B, log'[i], committed_index'[i], current_term'[i])
        BY DEF TipsHold, Tip
      <3> QED BY <3>4, <3>7, <3>8, <3>9
    <2> QED BY <2>2, <2>3
  <1> QED BY <1>2 DEF EntriesKeep, Kept

\* Logs that agree up to an index yield the same commands up to it.
LEMMA SameSlice ==
    ASSUME NEW a \in Seq(Entry), NEW b \in Seq(Entry), NEW c \in Nat,
           c + 1 <= Len(a), c + 1 <= Len(b), \A q \in 1 .. c + 1 : a[q] = b[q]
    PROVE  SubSeq(a, 2, c + 1) = SubSeq(b, 2, c + 1)
  <1>1. Len(a) \in Nat /\ Len(b) \in Nat
    BY LenProperties
  <1>2. \A q \in 2 .. c + 1 : a[q] \in Entry /\ b[q] \in Entry
    BY <1>1, ElementOfSeq
  <1>3. /\ SubSeq(a, 2, c + 1) \in Seq(Entry) /\ SubSeq(b, 2, c + 1) \in Seq(Entry)
        /\ Len(SubSeq(a, 2, c + 1)) = IF 2 <= c + 1 THEN c + 1 - 2 + 1 ELSE 0
        /\ Len(SubSeq(b, 2, c + 1)) = IF 2 <= c + 1 THEN c + 1 - 2 + 1 ELSE 0
        /\ \A q \in 1 .. c + 1 - 2 + 1 :
              SubSeq(a, 2, c + 1)[q] = a[2 + q - 1] /\ SubSeq(b, 2, c + 1)[q] = b[2 + q - 1]
    BY <1>2, SubSeqProperties
  <1>4. Len(SubSeq(a, 2, c + 1)) = c /\ Len(SubSeq(b, 2, c + 1)) = c
    BY <1>3
  <1>5. \A q \in 1 .. c : SubSeq(a, 2, c + 1)[q] = SubSeq(b, 2, c + 1)[q]
    BY <1>3
  <1> QED BY <1>3, <1>4, <1>5, SeqEqual

\* Committing further applies the entries in between, each once.
LEMMA ApplyMore ==
    ASSUME TypeOK, NEW i \in Node, NEW l \in Seq(Entry), NEW c \in Nat,
           last_applied[i] = committed_index[i], c >= committed_index[i], c + 1 <= Len(l),
           applied[i] = SubSeq(l, 2, committed_index[i] + 1), CommitAndApply(i, l, c)
    PROVE  /\ last_applied'[i] = c /\ committed_index'[i] = c
           /\ applied'[i] = SubSeq(l, 2, c + 1)
  <1> DEFINE n == committed_index[i]
  <1>1. n \in Nat /\ Len(l) \in Nat
    BY LenProperties DEF TypeOK
  <1>2. /\ committed_index'[i] = c
        /\ last_applied'[i] = IF c > n THEN Larger(c, n) ELSE n
        /\ applied'[i] = applied[i] \o SubSeq(l, n + 2, Smaller(last_applied'[i] + 1, Len(l)))
    BY DEF CommitAndApply, TypeOK
  <1>3. last_applied'[i] = c
    BY <1>1, <1>2 DEF Larger
  <1>4. Smaller(last_applied'[i] + 1, Len(l)) = c + 1
    BY <1>1, <1>3 DEF Smaller
  <1>5. SubSeq(l, 2, n + 1) \o SubSeq(l, (n + 1) + 1, c + 1) = SubSeq(l, 2, c + 1)
    <2>1. 2 \in 1 .. Len(l) + 1 /\ n + 1 \in 2 - 1 .. Len(l) /\ c + 1 \in n + 1 .. Len(l)
      BY <1>1
    <2> HIDE DEF n
    <2> QED BY <2>1, ConcatAdjacentSubSeq
  <1>6. (n + 1) + 1 = n + 2
    BY <1>1
  <1> QED BY <1>2, <1>3, <1>4, <1>5, <1>6

LEMMA AppliedNext ==
    ASSUME LeaderInv, LeaderInv', [Next]_vars, NEW T, LogTree(T), NEW A, AcksHeld(A),
           TipsHold(T, A), EntriesKeep(T, A), AckedReplies(A), AckedMatches(A),
           AppliedIsCommitted
    PROVE  AppliedIsCommitted'
  <1>1. TypeOK /\ TypeOK'
    BY DEF LeaderInv, TypeInv
  <1>2. ASSUME NEW i \in Node
        PROVE  /\ last_applied'[i] = committed_index'[i]
               /\ committed_index'[i] < Len(log'[i])
               /\ applied'[i] = SubSeq(log'[i], 2, committed_index'[i] + 1)
    <2>1. /\ committed_index[i] \in Nat
          /\ committed_index[i] + 1 <= Len(log[i]) /\ committed_index[i] + 1 <= Len(log'[i])
          /\ \A q \in 1 .. committed_index[i] + 1 : log'[i][q] = log[i][q]
      BY CommittedPrefixStays
    <2>2. /\ log[i] \in Seq(Entry) /\ log'[i] \in Seq(Entry) /\ Len(log'[i]) \in Nat
      BY <1>1, LenProperties DEF TypeOK
    <2>3. SubSeq(log'[i], 2, committed_index[i] + 1) = SubSeq(log[i], 2, committed_index[i] + 1)
      BY <2>1, <2>2, SameSlice
    <2>4. /\ last_applied[i] = committed_index[i]
          /\ applied[i] = SubSeq(log'[i], 2, committed_index[i] + 1)
      BY <2>3 DEF AppliedIsCommitted
    <2>5. ASSUME committed_index'[i] = committed_index[i], last_applied'[i] = last_applied[i],
                 applied'[i] = applied[i]
          PROVE  /\ last_applied'[i] = committed_index'[i]
                 /\ committed_index'[i] < Len(log'[i])
                 /\ applied'[i] = SubSeq(log'[i], 2, committed_index'[i] + 1)
      BY <2>1, <2>2, <2>4, <2>5
    <2>6. ASSUME NEW c \in Nat, CommitAndApply(i, log'[i], c), c >= committed_index[i],
                 c # committed_index[i] => Tip(T, A, log'[i], c, current_term'[i])
          PROVE  /\ last_applied'[i] = committed_index'[i]
                 /\ committed_index'[i] < Len(log'[i])
                 /\ applied'[i] = SubSeq(log'[i], 2, committed_index'[i] + 1)
      <3>1. c + 1 <= Len(log'[i])
        BY <2>1, <2>6 DEF Tip
      <3>2. /\ last_applied'[i] = c /\ committed_index'[i] = c
            /\ applied'[i] = SubSeq(log'[i], 2, c + 1)
        BY <1>1, <2>2, <2>4, <2>6, <3>1, ApplyMore
      <3> QED BY <2>2, <3>1, <3>2
    <2> QED BY <2>5, <2>6, CommitSteps
  <1> QED BY <1>2 DEF AppliedIsCommitted

-----------------------------------------------------------------------------
(* The inductive invariant and what follows from it *)

\* Everything that is said of the logs T and the acknowledgements A.
Promises(T, A) ==
    /\ LogTree(T)
    /\ AcksHeld(A)
    /\ TreeKeeps(T, A)
    /\ LeadersKeep(A)
    /\ VotersKnow(A)
    /\ EntriesKeep(T, A)
    /\ TipsHold(T, A)
    /\ AckedReplies(A)
    /\ AckedMatches(A)

CommitInv == ReplicationInv /\ VoteInv /\ AppliedIsCommitted /\ \E T, A : Promises(T, A)

LEMMA CommitInit == Init => CommitInv
  <1> SUFFICES ASSUME Init PROVE CommitInv
    OBVIOUS
  <1> DEFINE l == <<Sentinel>>
             A == {<<k, 1, 0>> : k \in Node}
  <1>1. /\ l \in Seq(Entry) /\ Len(l) = 1 /\ l[1] = Sentinel /\ Last(l) = Sentinel
        /\ Sentinel.term = 0
    BY DEF Sentinel, Entry, Last
  <1>2. /\ log = [i \in Node |-> l] /\ current_term = [i \in Node |-> 0]
        /\ state = [i \in Node |-> "Follower"] /\ committed_index = [i \in Node |-> 0]
        /\ last_applied = [i \in Node |-> 0] /\ applied = [i \in Node |-> <<>>]
        /\ msgs = {} /\ ballots = {}
    BY DEF Init
  <1>3. LogTree({l})
    BY TreeInit
  <1>4. \A k \in Node : \A p, t : <<k, p, t>> \in A <=> p = 1 /\ t = 0
    OBVIOUS
  <1> HIDE DEF A, l
  <1>5. AcksHeld(A)
    <2>1. ASSUME NEW k \in Node, NEW p \in Nat, NEW t \in Nat, <<k, p, t>> \in A
          PROVE  t <= current_term[k] /\ Kept(A, log[k], p, t)
      <3>1. p = 1 /\ t = 0
        BY <1>4, <2>1
      <3> QED BY <1>1, <1>2, <3>1 DEF Kept, Contains
    <2>2. ASSUME NEW k \in Node, NEW p \in Nat, Contains(log[k], p, current_term[k])
          PROVE  <<k, p, current_term[k]>> \in A
      <3>1. p \in 1 .. 1 /\ current_term[k] = 0
        BY <1>1, <1>2, <2>2 DEF Contains
      <3>2. p = 1
        BY <3>1
      <3> QED BY <1>4, <3>1, <3>2
    <2> QED BY <2>1, <2>2 DEF AcksHeld
  <1>6. TreeKeeps({l}, A)
    BY <1>1 DEF TreeKeeps
  <1>7. TipsHold({l}, A)
    <2> SUFFICES ASSUME NEW i \in Node
                 PROVE  Tip({l}, A, log[i], committed_index[i], current_term[i])
      BY DEF TipsHold
    <2>1. Committed(A, 1, 0)
      <3>1. IsFiniteSet(Node) /\ Cardinality(Node) \in Nat /\ Cardinality(Node) # 0
        BY NodeAssumption, FS_CardinalityType, FS_EmptySet
      <3>2. IsMajority(Node)
        BY <3>1 DEF IsMajority
      <3> QED BY <1>4, <3>2 DEF Committed
    <2>2. log[i] = l /\ committed_index[i] = 0 /\ current_term[i] = 0
      BY <1>2
    <2>3. Committed(A, Len(l), Last(l).term) /\ Last(l).term <= 0 /\ 0 + 1 <= Len(l)
      BY <1>1, <2>1
    <2>4. Tip({l}, A, l, 0, 0)
      BY <2>3 DEF Tip
    <2> QED BY <2>2, <2>4
  <1>8. /\ LeadersKeep(A) /\ VotersKnow(A) /\ EntriesKeep({l}, A)
        /\ AckedReplies(A) /\ AckedMatches(A) /\ VoteInv
    BY <1>2 DEF LeadersKeep, VotersKnow, EntriesKeep, AckedReplies, AckedMatches, VoteInv
  <1>9. AppliedIsCommitted
    <2>1. SubSeq(l, 2, 1) = <<>>
      BY SubSeqEmpty
    <2>2. Len(l) = 1
      BY <1>1
    <2> SUFFICES ASSUME NEW i \in Node
                 PROVE  /\ committed_index[i] < Len(log[i])
                        /\ last_applied[i] = committed_index[i]
                        /\ applied[i] = SubSeq(log[i], 2, committed_index[i] + 1)
      BY DEF AppliedIsCommitted
    <2>3. /\ log[i] = l /\ committed_index[i] = 0 /\ last_applied[i] = 0
          /\ applied[i] = <<>>
      BY <1>2
    <2> HIDE DEF l
    <2>4. committed_index[i] + 1 = 1
      BY <2>3
    <2>5. applied[i] = SubSeq(log[i], 2, committed_index[i] + 1)
      <3>1. SubSeq(log[i], 2, committed_index[i] + 1) = SubSeq(l, 2, 1)
        BY <2>3, <2>4, Zenon
      <3>2. applied[i] = SubSeq(l, 2, 1)
        BY <2>1, <2>3, Zenon
      <3> QED BY <3>1, <3>2, Zenon
    <2>6. committed_index[i] < Len(log[i])
      <3>1. Len(log[i]) = 1 /\ committed_index[i] = 0
        BY <2>2, <2>3, Zenon
      <3> QED BY <3>1
    <2> QED BY <2>3, <2>5, <2>6
  <1> QED BY <1>3, <1>5, <1>6, <1>7, <1>8, <1>9, ReplicationInit DEF CommitInv, Promises

LEMMA CommitNext == CommitInv /\ [Next]_vars => CommitInv'
  <1> SUFFICES ASSUME CommitInv, [Next]_vars PROVE CommitInv'
    OBVIOUS
  <1>1. ReplicationInv /\ VoteInv /\ AppliedIsCommitted
    BY DEF CommitInv
  <1>2. LeaderInv /\ IndexInv /\ NextIndexInLog /\ LeaderInv' /\ ReplicationInv'
    BY <1>1, LeaderNext, ReplicationNext DEF ReplicationInv, IndexInv
  <1>3. PICK T, A : Promises(T, A)
    BY DEF CommitInv
  <1>4. /\ LogTree(T) /\ AcksHeld(A) /\ TreeKeeps(T, A) /\ LeadersKeep(A) /\ VotersKnow(A)
        /\ EntriesKeep(T, A) /\ TipsHold(T, A) /\ AckedReplies(A) /\ AckedMatches(A)
    BY <1>3 DEF Promises
  <1>5. PICK U : U = T \cup {log'[i] : i \in Node}
    OBVIOUS
  <1>6. PICK B : AcksGrow(A, B)
    BY AcksExist
  <1>7. LogTree(U)'
    BY <1>2, <1>4, <1>5, TreeNext
  <1>8. AcksHeld(B)'
    BY <1>1, <1>2, <1>4, <1>6, AcksNext DEF EntriesKeep
  <1>9. VotersKnow(B)' /\ LeadersKeep(B)'
    BY <1>1, <1>2, <1>4, <1>6, VotersNext, LeadersNext
  <1>10. TreeKeeps(U, B)'
    BY <1>2, <1>4, <1>5, <1>6, <1>7, <1>9, TreeKeepsNext
  <1>11. TipsHold(U, B)'
    BY <1>2, <1>4, <1>5, <1>6, TipsNext
  <1>12. EntriesKeep(U, B)'
    BY <1>2, <1>4, <1>5, <1>6, <1>7, <1>9, <1>11, EntriesKeepNext
  <1>13. AckedReplies(B)' /\ AckedMatches(B)'
    BY <1>2, <1>4, <1>6, RepliesAcked, MatchesAcked
  <1>14. VoteInv' /\ AppliedIsCommitted'
    BY <1>1, <1>2, <1>4, VoteNext, AppliedNext
  <1>15. Promises(U, B)'
    BY <1>7, <1>8, <1>9, <1>10, <1>11, <1>12, <1>13 DEF Promises
  <1> QED BY <1>2, <1>14, <1>15 DEF CommitInv

LEMMA CommitHolds == Spec => []CommitInv
  BY CommitInit, CommitNext, PTL DEF Spec

\* AppliedIsCommitted for every cluster: CommitAndApply never leaves a gap, repeats
\* an entry or passes the end of the log, and nothing applied is cut off.
THEOREM AppliedStaysCommitted == Spec => []AppliedIsCommitted
  BY CommitHolds, PTL DEF CommitInv

\* LeaderCompleteness for every cluster: the up-to-date check of handle_request_vote
\* and the term check before a commit make a new leader hold all that is committed.
THEOREM LeadersAreComplete == Spec => []LeaderCompleteness
  <1>1. CommitInv => LeaderCompleteness
    <2> SUFFICES ASSUME CommitInv, NEW i \in Node, NEW j \in Node,
                        state[i] = "Leader", current_term[j] <= current_term[i]
                 PROVE  /\ committed_index[j] < Len(log[i])
                        /\ \A p \in 1 .. committed_index[j] + 1 : log[i][p] = log[j][p]
      BY DEF LeaderCompleteness
    <2>1. PICK T, A : Promises(T, A)
      BY DEF CommitInv
    <2>2. /\ Tree(T) /\ log[i] \in T /\ LogTree(T) /\ LeadersKeep(A)
          /\ Tip(T, A, log[j], committed_index[j], current_term[j])
      BY <2>1 DEF Promises, LogTree, TipsHold
    <2>3. PICK b \in T :
             /\ Committed(A, Len(b), Last(b).term) /\ Last(b).term <= current_term[j]
             /\ committed_index[j] + 1 <= Len(b)
             /\ \A q \in 1 .. committed_index[j] + 1 : log[j][q] = b[q]
      BY <2>2 DEF Tip
    <2>4. /\ current_term[i] \in Nat /\ current_term[j] \in Nat /\ committed_index[j] \in Nat
      BY DEF CommitInv, ReplicationInv, LeaderInv, TypeInv, TypeOK
    <2>5. Len(b) \in Nat /\ Last(b).term \in Nat /\ Len(log[i]) \in Nat
      <3>1. \A l \in T : Len(l) \in Nat \ {0} /\ Last(l) = l[Len(l)]
                         /\ \A q \in 1 .. Len(l) : l[q].term \in Nat
        BY <2>2, TreeFacts
      <3> QED BY <2>2, <3>1
    <2>6. Below(b, log[i])
      <3>1. CASE Last(b).term = current_term[i]
        BY <2>2, <3>1 DEF LogTree
      <3>2. CASE Last(b).term < current_term[i]
        <4>1. Kept(A, log[i], Len(b), Last(b).term)
          BY <2>2, <2>5, <3>2 DEF LeadersKeep
        <4> QED BY <2>2, <2>3, <4>1, KeepsCommitted
      <3> QED BY <2>3, <2>4, <2>5, <3>1, <3>2
    <2>7. Len(b) <= Len(log[i]) /\ \A q \in 1 .. Len(b) : b[q] = log[i][q]
      BY <2>6 DEF Below
    <2>8. committed_index[j] < Len(log[i])
      BY <2>3, <2>4, <2>5, <2>7
    <2>9. \A p \in 1 .. committed_index[j] + 1 : p \in 1 .. Len(b)
      BY <2>3, <2>4, <2>5
    <2>10. \A p \in 1 .. committed_index[j] + 1 : log[i][p] = log[j][p]
      BY <2>3, <2>7, <2>9
    <2> QED BY <2>8, <2>10
  <1> QED BY <1>1, CommitHolds, PTL

\* The committed logs of two nodes agree as far as both go.
LEMMA TipsAgree ==
    ASSUME CommitInv, NEW i \in Node, NEW j \in Node
    PROVE  \A q \in 1 .. committed_index[i] + 1 :
              q <= committed_index[j] + 1 => log[i][q] = log[j][q]
  <1>1. PICK T, A : Promises(T, A)
    BY DEF CommitInv
  <1>2. /\ Tree(T) /\ TreeKeeps(T, A)
        /\ \A k \in Node : Tip(T, A, log[k], committed_index[k], current_term[k])
    BY <1>1 DEF Promises, LogTree, TipsHold
  <1>3. PICK a \in T :
           /\ Committed(A, Len(a), Last(a).term) /\ committed_index[i] + 1 <= Len(a)
           /\ \A q \in 1 .. committed_index[i] + 1 : log[i][q] = a[q]
    BY <1>2 DEF Tip
  <1>4. PICK b \in T :
           /\ Committed(A, Len(b), Last(b).term) /\ committed_index[j] + 1 <= Len(b)
           /\ \A q \in 1 .. committed_index[j] + 1 : log[j][q] = b[q]
    BY <1>2 DEF Tip
  <1>5. committed_index[i] \in Nat /\ committed_index[j] \in Nat
    BY DEF CommitInv, ReplicationInv, LeaderInv, TypeInv, TypeOK
  <1>6. \A l \in T : Len(l) \in Nat /\ Last(l).term \in Nat
    <2>1. \A l \in T : Len(l) \in Nat \ {0} /\ Last(l) = l[Len(l)]
                       /\ \A q \in 1 .. Len(l) : l[q].term \in Nat
      BY <1>2, TreeFacts
    <2> QED BY <2>1
  <1>7. Below(a, b) \/ Below(b, a)
    <2>1. CASE Last(a).term = Last(b).term
      BY <1>2, <2>1 DEF Tree
    <2>2. CASE Last(a).term < Last(b).term
      <3>1. Kept(A, b, Len(a), Last(a).term)
        BY <1>2, <1>6, <2>2 DEF TreeKeeps
      <3> QED BY <1>2, <1>3, <3>1, KeepsCommitted
    <2>3. CASE Last(b).term < Last(a).term
      <3>1. Kept(A, a, Len(b), Last(b).term)
        BY <1>2, <1>6, <2>3 DEF TreeKeeps
      <3> QED BY <1>2, <1>4, <3>1, KeepsCommitted
    <2> QED BY <1>6, <2>1, <2>2, <2>3
  <1>8. Len(a) \in Nat /\ Len(b) \in Nat
    BY <1>6
  <1> QED BY <1>3, <1>4, <1>5, <1>7, <1>8 DEF Below

\* StateMachineSafety for every cluster: whoever leads when, no two nodes hand
\* their state machines different commands at one index.
THEOREM StateMachinesAgree == Spec => []StateMachineSafety
  <1>1. CommitInv => StateMachineSafety
    <2> SUFFICES ASSUME CommitInv, NEW i \in Node, NEW j \in Node,
                        NEW p \in DOMAIN applied[i] \cap DOMAIN applied[j]
                 PROVE  applied[i][p] = applied[j][p]
      BY DEF StateMachineSafety
    <2>1. ASSUME NEW k \in {i, j}, p \in DOMAIN applied[k]
          PROVE  /\ p \in Nat \ {0} /\ p + 1 <= committed_index[k] + 1
                 /\ applied[k][p] = log[k][p + 1] /\ committed_index[k] \in Nat
      <3> DEFINE n == committed_index[k] + 1
      <3>1. /\ committed_index[k] \in Nat /\ log[k] \in Seq(Entry) /\ Len(log[k]) \in Nat
            /\ n <= Len(log[k]) /\ applied[k] = SubSeq(log[k], 2, n)
        <4>1. /\ k \in Node /\ committed_index[k] \in Nat /\ log[k] \in Seq(Entry)
              /\ committed_index[k] < Len(log[k])
              /\ applied[k] = SubSeq(log[k], 2, committed_index[k] + 1)
          BY DEF CommitInv, ReplicationInv, LeaderInv, TypeInv, TypeOK, AppliedIsCommitted
        <4>2. Len(log[k]) \in Nat
          BY <4>1, LenProperties
        <4> QED BY <4>1, <4>2
      <3>2. n \in Nat
        BY <3>1
      <3> HIDE DEF n
      <3>3. \A q \in 2 .. n : log[k][q] \in Entry
        BY <3>1, <3>2, ElementOfSeq
      <3>4. /\ applied[k] \in Seq(Entry) /\ Len(applied[k]) = IF 2 <= n THEN n - 2 + 1 ELSE 0
            /\ \A q \in 1 .. n - 2 + 1 : applied[k][q] = log[k][2 + q - 1]
        BY <3>1, <3>2, <3>3, SubSeqProperties
      <3>5. p \in 1 .. Len(applied[k])
        BY <2>1, <3>4, LenProperties
      <3>6. p \in 1 .. n - 2 + 1
        <4>1. Len(applied[k]) = IF 2 <= n THEN n - 2 + 1 ELSE 0
          BY <3>4
        <4> QED BY <3>2, <3>5, <4>1
      <3>7. applied[k][p] = log[k][p + 1]
        <4>1. applied[k][p] = log[k][2 + p - 1]
          BY <3>4, <3>6
        <4>2. 2 + p - 1 = p + 1
          BY <3>2, <3>6
        <4> QED BY <4>1, <4>2
      <3>8. p \in Nat \ {0} /\ p + 1 <= n
        BY <3>2, <3>6
      <3> QED BY <3>1, <3>7, <3>8 DEF n
    <2>2. /\ p \in Nat \ {0} /\ p + 1 <= committed_index[i] + 1 /\ committed_index[i] \in Nat
          /\ p + 1 <= committed_index[j] + 1
          /\ applied[i][p] = log[i][p + 1] /\ applied[j][p] = log[j][p + 1]
      BY <2>1
    <2>3. p + 1 \in 1 .. committed_index[i] + 1
      BY <2>2
    <2>4. log[i][p + 1] = log[j][p + 1]
      BY <2>2, <2>3, TipsAgree
    <2> QED BY <2>2, <2>4
  <1> QED BY <1>1, CommitHolds, PTL

\* A step takes neither a commit nor a committed entry back.
LEMMA CommitsAdvance ==
    ASSUME CommitInv, [Next]_vars, NEW i \in Node
    PROVE  /\ committed_index'[i] >= committed_index[i]
           /\ \A q \in 1 .. committed_index[i] + 1 : log'[i][q] = log[i][q]
  <1>1. LeaderInv /\ LeaderInv'
    BY LeaderNext DEF CommitInv, ReplicationInv
  <1>2. PICK T, A : Promises(T, A)
    BY DEF CommitInv
  <1>3. /\ LogTree(T) /\ AcksHeld(A) /\ EntriesKeep(T, A) /\ TipsHold(T, A)
        /\ AckedReplies(A) /\ AckedMatches(A)
    BY <1>2 DEF Promises
  <1>4. committed_index[i] \in Nat
    BY <1>1 DEF LeaderInv, TypeInv, TypeOK
  <1>5. committed_index'[i] >= committed_index[i]
    BY <1>1, <1>3, <1>4, CommitSteps
  <1>6. \A q \in 1 .. committed_index[i] + 1 : log'[i][q] = log[i][q]
    BY <1>1, <1>3, CommittedPrefixStays
  <1> QED BY <1>5, <1>6

\* CommitMonotonic for every cluster: the minimum that handle_append_entries assigns
\* is never below what the node had.
THEOREM CommitsNeverRetreat == Spec => CommitMonotonic
  <1>1. CommitInv /\ [Next]_vars =>
          [\A i \in Node : committed_index'[i] >= committed_index[i]]_vars
    BY CommitsAdvance
  <1> QED BY <1>1, CommitHolds, PTL DEF Spec, CommitMonotonic

-----------------------------------------------------------------------------
(* Commits implement ReplicatedLog *)

CommittedAgree ==
    \A i, j \in Node : \A q \in 1 .. committed_index[i] + 1 :
        q <= committed_index[j] + 1 => log[i][q] = log[j][q]

\* Nobody has committed more than a, and the chosen log is what a has committed.
Ahead(a) ==
    /\ \A j \in Node : committed_index[j] <= committed_index[a]
    /\ Chosen = SubSeq(log[a], 2, committed_index[a] + 1)

LEMMA SomebodyAhead == CommitInv => CommittedAgree /\ \E a \in Node : Ahead(a)
  <1> SUFFICES ASSUME CommitInv PROVE CommittedAgree /\ \E a \in Node : Ahead(a)
    OBVIOUS
  <1>1. CommittedAgree
    BY TipsAgree DEF CommittedAgree
  <1>2. committed_index \in [Node -> Nat]
    BY DEF CommitInv, ReplicationInv, LeaderInv, TypeInv, TypeOK
  <1>3. \E a \in Node : \A j \in Node : committed_index[j] <= committed_index[a]
    BY <1>2, NodeAssumption, SomeHighest
  <1>4. \E a \in Node : Ahead(a)
    BY <1>3 DEF Ahead, Chosen
  <1> QED BY <1>1, <1>4

\* What a log has committed is a prefix of what a longer one has, if they agree.
LEMMA SlicePrefix ==
    ASSUME NEW a \in Seq(Entry), NEW b \in Seq(Entry), NEW c \in Nat, NEW d \in Nat,
           c <= d, c + 1 <= Len(a), d + 1 <= Len(b), \A q \in 1 .. c + 1 : a[q] = b[q]
    PROVE  RL!IsPrefix(SubSeq(a, 2, c + 1), SubSeq(b, 2, d + 1))
  <1> DEFINE x == SubSeq(a, 2, c + 1)
             y == SubSeq(b, 2, d + 1)
  <1>1. Len(a) \in Nat /\ Len(b) \in Nat
    BY LenProperties
  <1>2. (\A q \in 2 .. c + 1 : a[q] \in Entry) /\ (\A q \in 2 .. d + 1 : b[q] \in Entry)
    BY <1>1, ElementOfSeq
  <1>3. /\ x \in Seq(Entry) /\ Len(x) = IF 2 <= c + 1 THEN c + 1 - 2 + 1 ELSE 0
        /\ \A q \in 1 .. c + 1 - 2 + 1 : x[q] = a[2 + q - 1]
    BY <1>2, SubSeqProperties
  <1>4. /\ y \in Seq(Entry) /\ Len(y) = IF 2 <= d + 1 THEN d + 1 - 2 + 1 ELSE 0
        /\ \A q \in 1 .. d + 1 - 2 + 1 : y[q] = b[2 + q - 1]
    BY <1>2, SubSeqProperties
  <1> HIDE DEF x, y
  <1>5. Len(x) = c /\ Len(y) = d
    BY <1>3, <1>4
  <1>6. \A q \in 1 .. c : x[q] = y[q]
    BY <1>3, <1>4
  <1>7. \A q \in 1 .. c : x[q] \in Entry /\ y[q] \in Entry
    BY <1>3, <1>4, <1>5, ElementOfSeq
  <1>8. /\ SubSeq(x, 1, c) \in Seq(Entry) /\ Len(SubSeq(x, 1, c)) = c
        /\ SubSeq(y, 1, c) \in Seq(Entry) /\ Len(SubSeq(y, 1, c)) = c
        /\ \A q \in 1 .. c : SubSeq(x, 1, c)[q] = x[q] /\ SubSeq(y, 1, c)[q] = y[q]
    BY <1>7, SubSeqProperties
  <1>9. SubSeq(x, 1, c) = SubSeq(y, 1, c)
    BY <1>6, <1>8, SeqEqual
  <1>10. RL!IsPrefix(x, y)
    BY <1>5, <1>9 DEF RL!IsPrefix
  <1> QED BY <1>10 DEF x, y

\* At most one node commits or applies in a step.
LEMMA OneCommits ==
    ASSUME TypeOK, [Next]_vars
    PROVE  \E i \in Node : applied' = [applied EXCEPT ![i] = applied'[i]]
  <1>1. CASE applied' = applied
    BY <1>1, NodeAssumption DEF TypeOK
  <1>2. ASSUME NEW m \in msgs, AcceptEntries(m) \/ EntriesReplicated(m)
        PROVE  \E i \in Node : applied' = [applied EXCEPT ![i] = applied'[i]]
    <2>1. m.to \in Node
      BY MessageFields DEF TypeOK
    <2>2. applied' = [applied EXCEPT ![m.to] = applied'[m.to]]
      BY <1>2, <2>1 DEF AcceptEntries, EntriesReplicated, CommitAndApply, TypeOK
    <2> QED BY <2>1, <2>2
  <1>3. CASE UNCHANGED vars
    BY <1>1, <1>3 DEF vars, logVars
  <1>4. ASSUME NEW k \in Node,
               \/ ElectionTimeout(k) \/ HeartbeatTimeout(k)
               \/ \E c \in Command : ClientRequest(k, c)
        PROVE  applied' = applied
    BY <1>4 DEF ElectionTimeout, HeartbeatTimeout, ClientRequest, logVars
  <1>5. ASSUME NEW m \in msgs, Receive(m) \/ Drop(m), ~AcceptEntries(m), ~EntriesReplicated(m)
        PROVE  applied' = applied
    BY <1>5
    DEF Receive, RejectStaleVote, GrantVote, DenyVote, NewerTermReply, RecordVote, WinElection,
        RejectStaleEntries, RejectUnmatchedEntries, EntriesRejected, IgnoreReply, Drop, logVars
  <1> QED BY <1>1, <1>2, <1>3, <1>4, <1>5 DEF Next

LEMMA LearnStep ==
    ASSUME CommitInv, CommitInv', [Next]_vars
    PROVE  \E i \in Node : RL!Learn(i)
  <1>1. TypeOK /\ TypeOK' /\ AppliedIsCommitted /\ AppliedIsCommitted'
    BY DEF CommitInv, ReplicationInv, LeaderInv, TypeInv
  <1>2. \E a \in Node : Ahead(a)
    BY SomebodyAhead
  <1>3. CommittedAgree' /\ (\E a \in Node : Ahead(a))'
    BY CommitInv', SomebodyAhead, PTL
  <1>4. PICK a \in Node : Ahead(a)
    BY <1>2
  <1>5. PICK b \in Node : Ahead(b)'
    BY <1>3
  <1>6. ASSUME NEW i \in Node
        PROVE  /\ committed_index[i] \in Nat /\ committed_index'[i] \in Nat
               /\ committed_index[i] <= committed_index'[i]
               /\ committed_index'[i] <= committed_index'[b]
               /\ log[i] \in Seq(Entry) /\ log'[i] \in Seq(Entry)
               /\ committed_index[i] + 1 <= Len(log[i])
               /\ committed_index'[i] + 1 <= Len(log'[i])
               /\ applied[i] = SubSeq(log[i], 2, committed_index[i] + 1)
               /\ applied'[i] = SubSeq(log'[i], 2, committed_index'[i] + 1)
               /\ \A q \in 1 .. committed_index[i] + 1 : log'[i][q] = log[i][q]
    <2>1. /\ committed_index[i] \in Nat /\ committed_index'[i] \in Nat
          /\ log[i] \in Seq(Entry) /\ log'[i] \in Seq(Entry)
      BY <1>1 DEF TypeOK
    <2>2. Len(log[i]) \in Nat /\ Len(log'[i]) \in Nat
      BY <2>1, LenProperties
    <2>3. /\ committed_index[i] <= committed_index'[i]
          /\ \A q \in 1 .. committed_index[i] + 1 : log'[i][q] = log[i][q]
      BY <2>1, CommitsAdvance
    <2>4. committed_index'[i] <= committed_index'[b]
      BY <1>5 DEF Ahead
    <2>5. /\ committed_index[i] < Len(log[i]) /\ committed_index'[i] < Len(log'[i])
          /\ applied[i] = SubSeq(log[i], 2, committed_index[i] + 1)
          /\ applied'[i] = SubSeq(log'[i], 2, committed_index'[i] + 1)
      BY <1>1 DEF AppliedIsCommitted
    <2>6. /\ committed_index[i] + 1 <= Len(log[i])
          /\ committed_index'[i] + 1 <= Len(log'[i])
      BY <2>1, <2>2, <2>5
    <2> QED BY <2>1, <2>3, <2>4, <2>5, <2>6
  <1>7. ASSUME NEW i \in Node, NEW q \in 1 .. committed_index'[i] + 1
        PROVE  log'[i][q] = log'[b][q]
    <2>1. q <= committed_index'[b] + 1
      BY <1>6
    <2> QED BY <1>3, <2>1 DEF CommittedAgree
  <1>8. Chosen' = SubSeq(log'[b], 2, committed_index'[b] + 1)
    BY <1>5 DEF Ahead
  <1>9. RL!IsPrefix(Chosen, Chosen')
    <2>1. Chosen = SubSeq(log[a], 2, committed_index[a] + 1)
      BY <1>4 DEF Ahead
    <2>2. committed_index[a] <= committed_index'[b]
      <3>1. /\ committed_index[a] \in Nat /\ committed_index'[a] \in Nat
            /\ committed_index'[b] \in Nat /\ committed_index[a] <= committed_index'[a]
            /\ committed_index'[a] <= committed_index'[b]
        BY <1>6
      <3> QED BY <3>1
    <2>3. \A q \in 1 .. committed_index[a] + 1 : log[a][q] = log'[b][q]
      <3> SUFFICES ASSUME NEW q \in 1 .. committed_index[a] + 1 PROVE log[a][q] = log'[b][q]
        OBVIOUS
      <3>1. log'[a][q] = log[a][q]
        BY <1>6
      <3>2. /\ committed_index[a] \in Nat /\ committed_index'[a] \in Nat
            /\ committed_index[a] <= committed_index'[a]
        BY <1>6
      <3>3. q \in 1 .. committed_index'[a] + 1
        BY <3>2
      <3>4. log'[a][q] = log'[b][q]
        BY <1>7, <3>3
      <3> QED BY <3>1, <3>4
    <2> QED BY <1>6, <1>8, <2>1, <2>2, <2>3, SlicePrefix
  <1>10. ASSUME NEW i \in Node
         PROVE  RL!IsPrefix(applied[i], applied'[i]) /\ RL!IsPrefix(applied'[i], Chosen')
    <2>1. RL!IsPrefix(applied[i], applied'[i])
      <3>1. \A q \in 1 .. committed_index[i] + 1 : log[i][q] = log'[i][q]
        BY <1>6
      <3>2. RL!IsPrefix(SubSeq(log[i], 2, committed_index[i] + 1),
                        SubSeq(log'[i], 2, committed_index'[i] + 1))
        BY <1>6, <3>1, SlicePrefix
      <3> QED BY <1>6, <3>2
    <2>2. RL!IsPrefix(applied'[i], Chosen')
      <3>1. RL!IsPrefix(SubSeq(log'[i], 2, committed_index'[i] + 1),
                        SubSeq(log'[b], 2, committed_index'[b] + 1))
        BY <1>6, <1>7, SlicePrefix
      <3> QED BY <1>6, <1>8, <3>1
    <2> QED BY <2>1, <2>2
  <1>11. PICK i \in Node : applied' = [applied EXCEPT ![i] = applied'[i]]
    BY <1>1, OneCommits
  <1> QED BY <1>9, <1>10, <1>11 DEF RL!Learn

LEMMA ChosenInit == Init => RL!Init
  <1> SUFFICES ASSUME Init PROVE RL!Init
    OBVIOUS
  <1>1. PICK a \in Node : Ahead(a)
    BY CommitInit, SomebodyAhead
  <1>2. committed_index[a] = 0 /\ applied = [i \in Node |-> <<>>]
    BY DEF Init
  <1>3. SubSeq(log[a], 2, 0 + 1) = <<>>
    BY SubSeqEmpty
  <1> QED BY <1>1, <1>2, <1>3 DEF RL!Init, Ahead

\* ReplicatesOneLog: what the nodes commit is one log that only grows, and each hands
\* its state machine a growing prefix of it.
THEOREM CommitsImplementLog == Spec => ReplicatesOneLog
  <1>1. CommitInv /\ CommitInv' /\ [Next]_vars
          => [\E i \in Node : RL!Learn(i)]_<<Chosen, applied>>
    BY LearnStep
  <1> QED BY <1>1, ChosenInit, CommitHolds, PTL DEF Spec, ReplicatesOneLog, RL!Spec
=============================================================================
