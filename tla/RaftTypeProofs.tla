--------------------------- MODULE RaftTypeProofs ---------------------------
(***************************************************************************)
(* Type correctness of the Raft core.  A leader's messages name the entry  *)
(* before the first one they carry, so their type needs more than the      *)
(* variables' types: next_indices of a leader are positive.                *)
(***************************************************************************)
EXTENDS Raft, SequenceTheorems, WellFoundedInduction, TLAPS

LeaderIndices ==
    \A i, j \in Node : state[i] = "Leader" => next_indices[i][j] >= 1

TypeInv == TypeOK /\ LeaderIndices

-----------------------------------------------------------------------------
(* Logs *)

LEMMA SliceType ==
    ASSUME NEW l \in Seq(Entry), NEW m \in Nat \ {0}, NEW n \in Nat, n <= Len(l)
    PROVE  SubSeq(l, m, n) \in Seq(Entry)
  <1>1. \A k \in m .. n : l[k] \in Entry
    BY ElementOfSeq
  <1> QED BY <1>1, SubSeqProperties

LEMMA LastType ==
    ASSUME NEW l \in Seq(Entry) \ {<<>>}
    PROVE  Last(l) \in Entry /\ Len(l) \in Nat \ {0}
  <1>1. Len(l) \in Nat \ {0}
    BY EmptySeq
  <1> QED BY <1>1, ElementOfSeq DEF Last

LEMMA AppendType ==
    ASSUME NEW l \in Seq(Entry), NEW e \in Entry
    PROVE  Append(l, e) \in Seq(Entry) \ {<<>>}
  BY AppendProperties

LEMMA NotEmpty ==
    ASSUME NEW s \in Seq(Entry), Len(s) >= 1
    PROVE  s \in Seq(Entry) \ {<<>>}
  BY EmptySeq

\* Every non-empty set of natural numbers has a least element.
LEMMA LeastNatural ==
    ASSUME NEW S, S \subseteq Nat, S # {}
    PROVE  \E k \in S : \A m \in S : k <= m
  <1>1. PICK k \in S : \A m \in S : ~ (<<m, k>> \in OpToRel(<, Nat))
    BY NatLessThanWellFounded, WFMin
  <1>2. ASSUME NEW m \in S PROVE k <= m
    <2>1. <<m, k>> \in Nat \X Nat
      OBVIOUS
    <2>2. ~ (m < k)
      BY <1>1, <2>1 DEF OpToRel
    <2> QED BY <2>2
  <1> QED BY <1>2

\* Merging entries into a log gives a log, and never an empty one.
LEMMA MergedType ==
    ASSUME NEW l \in Seq(Entry) \ {<<>>}, NEW entries \in Seq(Entry)
    PROVE  Merged(l, entries) \in Seq(Entry) \ {<<>>}
  <1> DEFINE new == {k \in DOMAIN entries : Differs(l, entries[k])}
             first == CHOOSE k \in new : \A m \in new : k <= m
             cut == Smaller(entries[first].index, Len(l))
             kept == SubSeq(l, 1, cut)
             added == SubSeq(entries, first, Len(entries))
  <1>1. CASE new = {}
    BY <1>1 DEF Merged
  <1>2. CASE new # {}
    <2>1. new \subseteq Nat
      OBVIOUS
    <2>2. first \in new
      <3>1. \E k \in new : \A m \in new : k <= m
        BY <1>2, <2>1, LeastNatural
      <3> QED BY <3>1
    <2>3. first \in 1 .. Len(entries)
      BY <2>2
    <2>4. entries[first].index \in Nat
      <3>1. entries[first] \in Entry
        BY <2>3, ElementOfSeq
      <3> QED BY <3>1 DEF Entry
    <2>5. cut \in Nat /\ cut <= Len(l)
      BY <2>4 DEF Smaller
    <2>6. kept \in Seq(Entry)
      <3> HIDE DEF cut
      <3> QED BY <2>5, SliceType
    <2>7. added \in Seq(Entry) /\ Len(added) >= 1
      <3>1. \A k \in first .. Len(entries) : entries[k] \in Entry
        BY <2>3, ElementOfSeq
      <3> QED BY <3>1, <2>3, SubSeqProperties
    <2>8. kept \o added \in Seq(Entry) \ {<<>>}
      <3> HIDE DEF kept, added
      <3>1. kept \o added \in Seq(Entry) /\ Len(kept \o added) >= 1
        BY <2>6, <2>7, ConcatProperties, LenProperties
      <3> QED BY <3>1, NotEmpty
    <2> QED BY <1>2, <2>8 DEF Merged
  <1> QED BY <1>1, <1>2

-----------------------------------------------------------------------------
(* Messages *)

LEMMA ArgsType ==
    ASSUME TypeOK, NEW i \in Node, NEW j \in Node, NEW next \in Nat \ {0},
           NEW l \in Seq(Entry), NEW commit \in Nat
    PROVE  AppendEntriesArgs(i, j, next, l, commit) \in Message
  <1> DEFINE prev_term == IF next \in DOMAIN l THEN l[next].term ELSE 0
             sent == SubSeq(l, next + 1, Len(l))
  <1>1. prev_term \in Nat
    <2>1. next \in DOMAIN l => l[next] \in Entry
      BY ElementOfSeq, LenProperties
    <2> QED BY <2>1 DEF Entry
  <1>2. sent \in Seq(Entry)
    BY SliceType, LenProperties
  <1>3. current_term[i] \in Nat /\ next - 1 \in Nat
    BY DEF TypeOK
  <1> HIDE DEF prev_term, sent
  <1>4. [kind |-> "AppendEntries", from |-> i, to |-> j, term |-> current_term[i],
         prev_log_index |-> next - 1, prev_log_term |-> prev_term, entries |-> sent,
         leader_commit |-> commit] \in AppendEntriesMsg
    BY <1>1, <1>2, <1>3 DEF AppendEntriesMsg
  <1> QED BY <1>4 DEF AppendEntriesArgs, Message, prev_term, sent

LEMMA AppendReplyType ==
    ASSUME NEW i \in Node, NEW j \in Node, NEW term \in Nat, NEW success \in BOOLEAN,
           NEW index \in Nat
    PROVE  AppendReply(i, j, term, success, index) \in Message
  BY DEF AppendReply, AppendReplyMsg, Message

LEMMA VoteReplyType ==
    ASSUME NEW i \in Node, NEW j \in Node, NEW term \in Nat, NEW granted \in BOOLEAN
    PROVE  VoteReply(i, j, term, granted) \in Message
  BY DEF VoteReply, VoteReplyMsg, Message

LEMMA ReplyMessages ==
    ASSUME msgs \subseteq Message, NEW m, NEW sent, sent \subseteq Message, Reply(m, sent)
    PROVE  msgs' \subseteq Message
  BY DEF Reply

LEMMA MessageFields ==
    ASSUME NEW m \in Message
    PROVE  /\ m.from \in Node /\ m.to \in Node /\ m.term \in Nat
           /\ m.kind = "AppendEntries" => m \in AppendEntriesMsg
           /\ m.kind = "AppendReply" => m \in AppendReplyMsg
           /\ m.kind = "RequestVote" => m \in RequestVoteMsg
           /\ m.kind = "VoteReply" => m \in VoteReplyMsg
  BY DEF Message, AppendEntriesMsg, AppendReplyMsg, RequestVoteMsg, VoteReplyMsg

-----------------------------------------------------------------------------
(* State *)

TermTypes ==
    /\ current_term \in [Node -> Nat]
    /\ voted_for \in [Node -> Node \cup {None}]
    /\ leader_id \in [Node -> Node \cup {None}]

RoleTypes ==
    /\ state \in [Node -> {"Follower", "Candidate", "Leader"}]
    /\ votes_received \in [Node -> SUBSET Node]
    /\ next_indices \in [Node -> [Node -> Nat]]
    /\ match_indices \in [Node -> [Node -> Nat]]
    /\ LeaderIndices

CommitTypes ==
    /\ committed_index \in [Node -> Nat]
    /\ last_applied \in [Node -> Nat]
    /\ applied \in [Node -> Seq(Entry)]

LogTypes == log \in [Node -> Seq(Entry) \ {<<>>}] /\ CommitTypes

NetTypes == msgs \subseteq Message

HistoryTypes ==
    /\ ballots \subseteq [voter : Node, term : Nat, candidate : Node]
    /\ elected \subseteq [term : Nat, node : Node]

LEMMA TypeParts ==
    /\ TypeInv => TermTypes /\ RoleTypes /\ LogTypes /\ NetTypes /\ HistoryTypes
    /\ TermTypes' /\ RoleTypes' /\ LogTypes' /\ NetTypes' /\ HistoryTypes' => TypeInv'
  BY DEF TypeInv, TypeOK, TermTypes, RoleTypes, CommitTypes, LogTypes, NetTypes, HistoryTypes

LEMMA FollowerRole ==
    ASSUME RoleTypes, NEW i \in Node, BecomeFollower(i)
    PROVE  RoleTypes'
  BY DEF RoleTypes, BecomeFollower, NoIndices, LeaderIndices

LEMMA SameRole ==
    ASSUME RoleTypes, UNCHANGED roleVars
    PROVE  RoleTypes'
  BY DEF RoleTypes, roleVars, LeaderIndices

LEMMA AppliedType ==
    ASSUME CommitTypes, NEW i \in Node, NEW l \in Seq(Entry), NEW c \in Nat,
           CommitAndApply(i, l, c)
    PROVE  CommitTypes'
  <1> DEFINE upto == IF c > committed_index[i] THEN Larger(c, last_applied[i]) ELSE last_applied[i]
             end == Smaller(upto + 1, Len(l))
             fresh == SubSeq(l, last_applied[i] + 2, end)
  <1>1. last_applied[i] \in Nat /\ applied[i] \in Seq(Entry) /\ Len(l) \in Nat
    BY LenProperties DEF CommitTypes
  <1>2. upto \in Nat
    BY <1>1 DEF Larger
  <1>3. end \in Nat /\ end <= Len(l)
    BY <1>1, <1>2 DEF Smaller
  <1>4. fresh \in Seq(Entry)
    <2> HIDE DEF end
    <2> QED BY <1>1, <1>3, SliceType
  <1>5. applied[i] \o fresh \in Seq(Entry)
    <2> HIDE DEF fresh
    <2> QED BY <1>1, <1>4, ConcatProperties
  <1>6. /\ committed_index' = [committed_index EXCEPT ![i] = c]
        /\ last_applied' = [last_applied EXCEPT ![i] = upto]
        /\ applied' = [applied EXCEPT ![i] = applied[i] \o fresh]
    BY DEF CommitAndApply
  <1> HIDE DEF upto, fresh
  <1> QED BY <1>2, <1>5, <1>6 DEF CommitTypes

-----------------------------------------------------------------------------
(* Steps *)

LEMMA TypeInit == Init => TypeInv
  <1> SUFFICES ASSUME Init PROVE TypeInv
    OBVIOUS
  <1>1. <<Sentinel>> \in Seq(Entry) \ {<<>>}
    BY DEF Sentinel, Entry
  <1>2. <<>> \in Seq(Entry)
    BY EmptySeq
  <1> QED
    BY <1>1, <1>2 DEF Init, TypeInv, TypeOK, LeaderIndices, NoIndices

LEMMA TimeoutTypes ==
    ASSUME TypeInv, NEW i \in Node,
           \/ ElectionTimeout(i)
           \/ HeartbeatTimeout(i)
           \/ \E c \in Command : ClientRequest(i, c)
    PROVE  TypeInv'
  <1> USE TypeParts
  <1>1. TermTypes /\ RoleTypes /\ LogTypes /\ NetTypes /\ HistoryTypes
    OBVIOUS
  <1>2. /\ log[i] \in Seq(Entry) \ {<<>>} /\ committed_index[i] \in Nat
        /\ current_term[i] \in Nat
    BY <1>1 DEF LogTypes, CommitTypes, TermTypes
  <1>3. Last(log[i]) \in Entry
    BY <1>2, LastType
  <1>4. CASE ElectionTimeout(i)
    <2> DEFINE request(j) ==
            [kind |-> "RequestVote", from |-> i, to |-> j, term |-> current_term[i] + 1,
             last_log_index |-> Last(log[i]).index, last_log_term |-> Last(log[i]).term]
    <2>1. \A j \in Peers(i) : request(j) \in Message
      BY <1>2, <1>3 DEF Message, RequestVoteMsg, Peers, Entry
    <2>2. NetTypes'
      <3>1. msgs' = msgs \cup {request(j) : j \in Peers(i)}
        BY <1>4 DEF ElectionTimeout, Send
      <3> HIDE DEF request
      <3> QED BY <1>1, <2>1, <3>1 DEF NetTypes
    <2>3. TermTypes'
      BY <1>1, <1>4 DEF ElectionTimeout, TermTypes
    <2>4. RoleTypes'
      BY <1>1, <1>4 DEF ElectionTimeout, RoleTypes, LeaderIndices
    <2>5. LogTypes'
      BY <1>1, <1>4 DEF ElectionTimeout, LogTypes, CommitTypes, logVars
    <2>6. HistoryTypes'
      <3>1. /\ elected' = elected
            /\ ballots' = ballots \cup
                            {[voter |-> i, term |-> current_term[i] + 1, candidate |-> i]}
        BY <1>4 DEF ElectionTimeout
      <3>2. [voter |-> i, term |-> current_term[i] + 1, candidate |-> i]
              \in [voter : Node, term : Nat, candidate : Node]
        BY <1>2
      <3> QED BY <1>1, <3>1, <3>2 DEF HistoryTypes
    <2> QED BY <2>2, <2>3, <2>4, <2>5, <2>6
  <1>5. CASE HeartbeatTimeout(i)
    <2>1. \A j \in Peers(i) :
            AppendEntriesArgs(i, j, next_indices[i][j], log[i], committed_index[i]) \in Message
      <3> TAKE j \in Peers(i)
      <3>1. j \in Node /\ next_indices[i][j] \in Nat \ {0}
        BY <1>1, <1>5 DEF Peers, HeartbeatTimeout, RoleTypes, LeaderIndices
      <3> QED BY <1>2, <3>1, ArgsType DEF TypeInv
    <2>2. NetTypes'
      BY <1>1, <1>5, <2>1 DEF HeartbeatTimeout, Send, NetTypes
    <2>3. RoleTypes'
      BY <1>1, <1>5, SameRole DEF HeartbeatTimeout
    <2> QED
      BY <1>1, <1>5, <2>2, <2>3
      DEF HeartbeatTimeout, TermTypes, LogTypes, CommitTypes, HistoryTypes,
          termVars, logVars, history
  <1>6. CASE \E c \in Command : ClientRequest(i, c)
    <2> PICK c \in Command : ClientRequest(i, c)
      BY <1>6
    <2> DEFINE e == [term |-> current_term[i], index |-> Last(log[i]).index + 1, command |-> c]
               l == Append(log[i], e)
    <2>1. e \in Entry /\ e.index \in Nat \ {0}
      BY <1>2, <1>3 DEF Entry
    <2>2. l \in Seq(Entry) \ {<<>>}
      <3> HIDE DEF e
      <3> QED BY <1>2, <2>1, AppendType
    <2>3. /\ log' = [log EXCEPT ![i] = l]
          /\ msgs' = msgs \cup
                {AppendEntriesArgs(i, j, e.index, l, committed_index[i]) : j \in Peers(i)}
          /\ UNCHANGED <<termVars, roleVars, committed_index, last_applied, applied, history>>
      BY DEF ClientRequest, Send
    <2> HIDE DEF e, l
    <2>4. \A j \in Peers(i) : AppendEntriesArgs(i, j, e.index, l, committed_index[i]) \in Message
      BY <1>2, <2>1, <2>2, ArgsType DEF Peers, TypeInv
    <2>5. NetTypes'
      BY <1>1, <2>3, <2>4 DEF NetTypes
    <2>6. LogTypes'
      BY <1>1, <2>2, <2>3 DEF LogTypes, CommitTypes
    <2>7. RoleTypes'
      BY <1>1, <2>3, SameRole
    <2> QED BY <1>1, <2>3, <2>5, <2>6, <2>7 DEF TermTypes, HistoryTypes, termVars, history
  <1> QED BY <1>4, <1>5, <1>6

LEMMA AdoptTypes ==
    ASSUME TermTypes, RoleTypes, NEW i \in Node, NEW term \in Nat, AdoptTerm(i, term)
    PROVE  /\ current_term' \in [Node -> Nat]
           /\ leader_id' \in [Node -> Node \cup {None}]
           /\ RoleTypes'
  BY FollowerRole, SameRole DEF AdoptTerm, TermTypes

LEMMA VoteTypes ==
    ASSUME TypeInv, NEW m \in msgs,
           \/ RejectStaleVote(m)
           \/ GrantVote(m)
           \/ DenyVote(m)
           \/ NewerTermReply(m)
           \/ RecordVote(m)
           \/ WinElection(m)
    PROVE  TypeInv'
  <1> USE TypeParts
  <1> DEFINE i == m.to
  <1>1. TermTypes /\ RoleTypes /\ LogTypes /\ NetTypes /\ HistoryTypes
    OBVIOUS
  <1>2. m.from \in Node /\ i \in Node /\ m.term \in Nat
    BY <1>1, MessageFields DEF NetTypes
  <1>3. current_term[i] \in Nat /\ voted_for[i] \in Node \cup {None}
    BY <1>1, <1>2 DEF TermTypes
  <1>4. msgs \subseteq Message
    BY <1>1 DEF NetTypes
  <1>5. ASSUME NEW term \in Nat, NEW granted \in BOOLEAN,
               Reply(m, {VoteReply(i, m.from, term, granted)})
        PROVE  NetTypes'
    <2>1. {VoteReply(i, m.from, term, granted)} \subseteq Message
      BY <1>2, VoteReplyType
    <2> QED BY <1>4, <1>5, <2>1, ReplyMessages DEF NetTypes
  <1>6. ASSUME Reply(m, {}) PROVE NetTypes'
    BY <1>4, <1>6, ReplyMessages DEF NetTypes
  <1>7. ASSUME UNCHANGED logVars PROVE LogTypes'
    BY <1>1, <1>7 DEF LogTypes, CommitTypes, logVars
  <1>8. CASE RejectStaleVote(m)
    <2>1. NetTypes' /\ RoleTypes' /\ LogTypes'
      BY <1>1, <1>3, <1>5, <1>7, <1>8, SameRole DEF RejectStaleVote
    <2> QED BY <1>1, <1>8, <2>1 DEF RejectStaleVote, TermTypes, HistoryTypes, termVars, history
  <1>9. CASE GrantVote(m)
    <2>1. NetTypes' /\ LogTypes'
      BY <1>2, <1>5, <1>7, <1>9 DEF GrantVote
    <2>2. TermTypes' /\ RoleTypes'
      BY <1>1, <1>2, <1>9, AdoptTypes DEF GrantVote, TermTypes
    <2>3. HistoryTypes'
      BY <1>1, <1>2, <1>9 DEF GrantVote, HistoryTypes
    <2> QED BY <2>1, <2>2, <2>3
  <1>10. CASE DenyVote(m)
    <2>1. NetTypes' /\ LogTypes'
      BY <1>2, <1>5, <1>7, <1>10 DEF DenyVote
    <2>2. TermTypes' /\ RoleTypes'
      BY <1>1, <1>2, <1>3, <1>10, AdoptTypes DEF DenyVote, TermTypes, VoteIn
    <2> QED BY <1>1, <1>10, <2>1, <2>2 DEF DenyVote, HistoryTypes, history
  <1>11. CASE NewerTermReply(m)
    <2>1. NetTypes' /\ LogTypes'
      BY <1>6, <1>7, <1>11 DEF NewerTermReply
    <2>2. RoleTypes'
      BY <1>1, <1>2, <1>11, FollowerRole DEF NewerTermReply, StepDown
    <2>3. TermTypes'
      BY <1>1, <1>2, <1>11 DEF NewerTermReply, StepDown, TermTypes
    <2> QED BY <1>1, <1>11, <2>1, <2>2, <2>3 DEF NewerTermReply, HistoryTypes, history
  <1>12. CASE RecordVote(m)
    <2>1. NetTypes' /\ LogTypes'
      BY <1>6, <1>7, <1>12 DEF RecordVote
    <2>2. RoleTypes'
      BY <1>1, <1>2, <1>12 DEF RecordVote, RoleTypes, LeaderIndices
    <2> QED
      BY <1>1, <1>12, <2>1, <2>2 DEF RecordVote, TermTypes, HistoryTypes, termVars, history
  <1>13. CASE WinElection(m)
    <2>1. /\ log[i] \in Seq(Entry) \ {<<>>} /\ committed_index[i] \in Nat
          /\ Len(log[i]) \in Nat \ {0} /\ Last(log[i]) \in Entry
      BY <1>1, <1>2, LastType DEF LogTypes, CommitTypes
    <2>2. Last(log[i]).index \in Nat
      BY <2>1 DEF Entry
    <2>3. \A j \in Peers(i) :
            AppendEntriesArgs(i, j, Len(log[i]), log[i], committed_index[i]) \in Message
      BY <1>2, <2>1, ArgsType DEF Peers, TypeInv
    <2>4. NetTypes'
      <3> DEFINE sent == {AppendEntriesArgs(i, j, Len(log[i]), log[i], committed_index[i]) :
                            j \in Peers(i)}
      <3>1. sent \subseteq Message
        BY <2>3
      <3>2. Reply(m, sent)
        BY <1>13 DEF WinElection
      <3> QED BY <1>4, <3>1, <3>2, ReplyMessages DEF NetTypes
    <2>5. RoleTypes'
      <3> DEFINE next == Last(log[i]).index + 1
      <3>1. next \in Nat /\ next >= 1
        BY <2>2
      <3>2. /\ state' = [state EXCEPT ![i] = "Leader"]
            /\ votes_received' = [votes_received EXCEPT ![i] = {}]
            /\ next_indices' = [next_indices EXCEPT ![i] = [j \in Node |-> next]]
            /\ match_indices' = [match_indices EXCEPT ![i] = NoIndices]
        BY <1>13 DEF WinElection
      <3> HIDE DEF next
      <3>3. /\ state' \in [Node -> {"Follower", "Candidate", "Leader"}]
            /\ votes_received' \in [Node -> SUBSET Node]
            /\ next_indices' \in [Node -> [Node -> Nat]]
            /\ match_indices' \in [Node -> [Node -> Nat]]
        BY <1>1, <1>2, <3>1, <3>2 DEF RoleTypes, NoIndices
      <3>4. LeaderIndices'
        BY <1>1, <1>2, <3>1, <3>2 DEF RoleTypes, LeaderIndices
      <3> QED BY <3>3, <3>4 DEF RoleTypes
    <2>6. TermTypes' /\ HistoryTypes'
      BY <1>1, <1>2, <1>3, <1>13 DEF WinElection, TermTypes, HistoryTypes
    <2> QED BY <1>7, <1>13, <2>4, <2>5, <2>6 DEF WinElection
  <1> QED BY <1>8, <1>9, <1>10, <1>11, <1>12, <1>13

LEMMA RecognizeTypes ==
    ASSUME TermTypes, RoleTypes, NEW m \in Message, RecognizeLeader(m.to, m)
    PROVE  TermTypes' /\ RoleTypes'
  <1>1. m.from \in Node /\ m.to \in Node /\ m.term \in Nat
    BY MessageFields
  <1>2. RoleTypes'
    BY <1>1, FollowerRole DEF RecognizeLeader
  <1>3. VoteIn(m.to, m.term) \in Node \cup {None}
    BY <1>1 DEF VoteIn, TermTypes
  <1> QED BY <1>1, <1>2, <1>3 DEF RecognizeLeader, TermTypes

LEMMA FollowerTypes ==
    ASSUME TypeInv, NEW m \in msgs,
           \/ RejectStaleEntries(m)
           \/ RejectUnmatchedEntries(m)
           \/ AcceptEntries(m)
    PROVE  TypeInv'
  <1> USE TypeParts
  <1> DEFINE i == m.to
  <1>1. TermTypes /\ RoleTypes /\ LogTypes /\ NetTypes /\ HistoryTypes
    OBVIOUS
  <1>2. m \in AppendEntriesMsg /\ m \in Message
    BY <1>1, MessageFields
    DEF NetTypes, RejectStaleEntries, RejectUnmatchedEntries, AcceptEntries
  <1>3. m.from \in Node /\ i \in Node /\ m.term \in Nat
    BY <1>2, MessageFields
  <1>4. /\ current_term[i] \in Nat /\ log[i] \in Seq(Entry) \ {<<>>}
        /\ committed_index[i] \in Nat
    BY <1>1, <1>3 DEF TermTypes, LogTypes, CommitTypes
  <1>5. Last(log[i]).index \in Nat
    BY <1>4, LastType DEF Entry
  <1>6. ASSUME NEW term \in Nat, NEW success \in BOOLEAN, NEW index \in Nat,
               Reply(m, {AppendReply(i, m.from, term, success, index)})
        PROVE  NetTypes'
    <2>1. {AppendReply(i, m.from, term, success, index)} \subseteq Message
      BY <1>3, AppendReplyType
    <2> QED BY <1>1, <1>6, <2>1, ReplyMessages DEF NetTypes
  <1>7. ASSUME UNCHANGED history PROVE HistoryTypes'
    BY <1>1, <1>7 DEF HistoryTypes, history
  <1>8. CASE RejectStaleEntries(m)
    <2>1. NetTypes' /\ RoleTypes' /\ HistoryTypes'
      BY <1>1, <1>4, <1>5, <1>6, <1>7, <1>8, SameRole DEF RejectStaleEntries
    <2> QED
      BY <1>1, <1>8, <2>1
      DEF RejectStaleEntries, TermTypes, LogTypes, CommitTypes, termVars, logVars
  <1>9. CASE RejectUnmatchedEntries(m)
    <2>1. NetTypes' /\ HistoryTypes'
      BY <1>3, <1>5, <1>6, <1>7, <1>9 DEF RejectUnmatchedEntries
    <2>2. TermTypes' /\ RoleTypes'
      BY <1>1, <1>2, <1>9, RecognizeTypes DEF RejectUnmatchedEntries
    <2> QED
      BY <1>1, <1>9, <2>1, <2>2
      DEF RejectUnmatchedEntries, LogTypes, CommitTypes, logVars
  <1>10. CASE AcceptEntries(m)
    <2>1. /\ m.prev_log_index \in Nat /\ m.leader_commit \in Nat /\ m.entries \in Seq(Entry)
      BY <1>2 DEF AppendEntriesMsg
    <2>2. LastNewEntryIndex(m.prev_log_index, m.entries) \in Nat
      <3>1. m.entries # <<>> => Last(m.entries).index \in Nat
        BY <2>1, LastType DEF Entry
      <3> QED BY <2>1, <3>1 DEF LastNewEntryIndex
    <2>3. FollowerCommit(m) \in Nat
      BY <1>4, <2>1, <2>2 DEF FollowerCommit, Smaller
    <2> DEFINE l == Merged(log[i], m.entries)
    <2>4. l \in Seq(Entry) \ {<<>>}
      BY <1>4, <2>1, MergedType
    <2>5. /\ log' = [log EXCEPT ![i] = l]
          /\ CommitAndApply(i, l, FollowerCommit(m))
          /\ RecognizeLeader(i, m)
      BY <1>10 DEF AcceptEntries
    <2> HIDE DEF l
    <2>6. LogTypes'
      BY <1>1, <1>3, <2>3, <2>4, <2>5, AppliedType DEF LogTypes
    <2>7. TermTypes' /\ RoleTypes'
      BY <1>1, <1>2, <2>5, RecognizeTypes
    <2>8. NetTypes'
      BY <1>3, <1>6, <1>10, <2>2 DEF AcceptEntries, AcceptReply
    <2> QED BY <1>7, <1>10, <2>6, <2>7, <2>8 DEF AcceptEntries
  <1> QED BY <1>8, <1>9, <1>10

LEMMA LeaderTypes ==
    ASSUME TypeInv, NEW m \in msgs,
           \/ EntriesReplicated(m)
           \/ EntriesRejected(m)
           \/ IgnoreReply(m)
           \/ Drop(m)
    PROVE  TypeInv'
  <1> USE TypeParts
  <1> DEFINE i == m.to
  <1>1. TermTypes /\ RoleTypes /\ LogTypes /\ NetTypes /\ HistoryTypes
    OBVIOUS
  <1>2. m \in Message /\ m.from \in Node /\ i \in Node
    BY <1>1, MessageFields DEF NetTypes
  <1>3. ReplyInTerm(m) => m.match_index \in Nat
    BY <1>2, MessageFields DEF ReplyInTerm, AppendReplyMsg
  <1>4. /\ log[i] \in Seq(Entry) \ {<<>>} /\ committed_index[i] \in Nat
        /\ next_indices[i] \in [Node -> Nat] /\ match_indices[i] \in [Node -> Nat]
    BY <1>1, <1>2 DEF LogTypes, CommitTypes, RoleTypes
  <1>5. Len(log[i]) \in Nat \ {0}
    BY <1>4, LastType
  <1>6. ASSUME Reply(m, {}) PROVE NetTypes'
    BY <1>1, <1>6, ReplyMessages DEF NetTypes
  <1>7. CASE EntriesReplicated(m)
    <2> DEFINE matched == [match_indices[i] EXCEPT ![m.from] = m.match_index]
               agreed == AgreedIndex(i, matched)
               commit == IF MayCommit(i, agreed) THEN agreed ELSE committed_index[i]
               next == Larger(next_indices[i][m.from], m.match_index + 1)
    <2>1. m.match_index \in Nat
      BY <1>3, <1>7 DEF EntriesReplicated
    <2>2. matched \in [Node -> Nat]
      BY <1>4, <2>1
    <2>3. commit \in Nat
      <3> HIDE DEF agreed
      <3> QED BY <1>4, <1>5 DEF MayCommit, HoldsTerm
    <2>4. next \in Nat /\ next >= 1
      BY <1>2, <1>4, <2>1 DEF Larger
    <2>5. /\ match_indices' = [match_indices EXCEPT ![i] = matched]
          /\ next_indices' = [next_indices EXCEPT ![i] = [next_indices[i] EXCEPT ![m.from] = next]]
          /\ CommitAndApply(i, log[i], commit)
          /\ UNCHANGED <<termVars, state, votes_received, log, history>>
      BY <1>1, <1>2, <1>7 DEF EntriesReplicated, RoleTypes
    <2> HIDE DEF matched, commit, next
    <2>6. RoleTypes'
      <3>1. /\ next_indices' \in [Node -> [Node -> Nat]]
            /\ match_indices' \in [Node -> [Node -> Nat]]
        BY <1>1, <1>2, <1>4, <2>2, <2>4, <2>5 DEF RoleTypes
      <3>2. LeaderIndices'
        BY <1>1, <1>2, <1>4, <2>4, <2>5 DEF RoleTypes, LeaderIndices
      <3> QED BY <1>1, <2>5, <3>1, <3>2 DEF RoleTypes
    <2>7. LogTypes'
      BY <1>1, <1>2, <1>4, <2>3, <2>5, AppliedType DEF LogTypes
    <2>8. NetTypes'
      BY <1>6, <1>7 DEF EntriesReplicated
    <2> QED BY <1>1, <2>5, <2>6, <2>7, <2>8 DEF TermTypes, HistoryTypes, termVars, history
  <1>8. CASE EntriesRejected(m)
    <2> DEFINE next == RetryIndex(next_indices[i][m.from], m.match_index)
    <2>1. m.match_index \in Nat
      BY <1>3, <1>8 DEF EntriesRejected
    <2>2. next \in Nat \ {0}
      BY <1>2, <1>4, <2>1 DEF RetryIndex, Larger
    <2>3. /\ next_indices' = [next_indices EXCEPT ![i] = [next_indices[i] EXCEPT ![m.from] = next]]
          /\ Reply(m, {AppendEntriesArgs(i, m.from, next, log[i], committed_index[i])})
          /\ UNCHANGED <<termVars, state, votes_received, match_indices, logVars, history>>
      BY <1>1, <1>2, <1>8 DEF EntriesRejected, RoleTypes
    <2> HIDE DEF next
    <2>4. {AppendEntriesArgs(i, m.from, next, log[i], committed_index[i])} \subseteq Message
      BY <1>2, <1>4, <2>2, ArgsType DEF TypeInv
    <2>5. NetTypes'
      BY <1>1, <2>3, <2>4, ReplyMessages DEF NetTypes
    <2>6. RoleTypes'
      <3>1. next_indices' \in [Node -> [Node -> Nat]]
        BY <1>1, <1>2, <1>4, <2>2, <2>3 DEF RoleTypes
      <3>2. LeaderIndices'
        <4> SUFFICES ASSUME NEW a \in Node, NEW b \in Node, state'[a] = "Leader"
                     PROVE  next_indices'[a][b] >= 1
          BY DEF LeaderIndices
        <4>1. state[a] = "Leader"
          BY <2>3
        <4>2. next_indices[a][b] >= 1
          BY <1>1, <4>1 DEF RoleTypes, LeaderIndices
        <4>3. next_indices \in [Node -> [Node -> Nat]]
          BY <1>1 DEF RoleTypes
        <4>4. next_indices'[a][b] \in {next, next_indices[a][b]}
          BY <1>2, <2>3, <4>3
        <4> QED BY <2>2, <4>2, <4>4
      <3> QED BY <1>1, <2>3, <3>1, <3>2 DEF RoleTypes
    <2> QED
      BY <1>1, <2>3, <2>5, <2>6
      DEF TermTypes, LogTypes, CommitTypes, HistoryTypes, termVars, logVars, history
  <1>9. CASE IgnoreReply(m) \/ Drop(m)
    <2>1. NetTypes' /\ RoleTypes'
      BY <1>1, <1>6, <1>9, SameRole DEF IgnoreReply, Drop, NetTypes
    <2> QED
      BY <1>1, <1>9, <2>1
      DEF IgnoreReply, Drop, TermTypes, LogTypes, CommitTypes, HistoryTypes,
          termVars, logVars, history
  <1> QED BY <1>7, <1>8, <1>9

-----------------------------------------------------------------------------

\* Every step of every handler keeps the types.
LEMMA TypeStep == TypeInv /\ [Next]_vars => TypeInv'
  <1> SUFFICES ASSUME TypeInv, [Next]_vars PROVE TypeInv'
    OBVIOUS
  <1>1. CASE Next
    BY <1>1, TimeoutTypes, VoteTypes, FollowerTypes, LeaderTypes DEF Next, Receive
  <1>2. CASE UNCHANGED vars
    BY <1>2
    DEF vars, termVars, roleVars, logVars, history, TypeInv, TypeOK, LeaderIndices
  <1> QED BY <1>1, <1>2

\* TypeOK holds in every reachable state: every message a handler builds and
\* every field it assigns has the type its struct gives it, no log is ever
\* without its sentinel, and no index a leader sends from falls below 1.
THEOREM TypeCorrect == Spec => []TypeOK
  <1>1. TypeInv => TypeOK
    BY DEF TypeInv
  <1> QED BY <1>1, TypeInit, TypeStep, PTL DEF Spec
=============================================================================
