----------------------------- MODULE RaftLoops ------------------------------
(***************************************************************************)
(* The two loops of RaftNode that the Raft module takes in one step each,  *)
(* iteration by iteration, against the operators it uses for them:         *)
(*                                                                         *)
(*   "append"  handle_append_entries over args.entries, against Merged;    *)
(*   "commit"  handle_append_entries_reply, which collects                 *)
(*             match_indices.values(), whose order a HashMap leaves open,  *)
(*             pushes the leader's own last index, sorts and reads one     *)
(*             position, against HighestAgreed.                            *)
(*                                                                         *)
(* Inputs: every log and every batch of entries that follows an entry of   *)
(* it, with terms that never decrease; every match index of clusters of    *)
(* every size up to that of Peer plus one.                                 *)
(***************************************************************************)
EXTENDS RaftLog

CONSTANTS
    Peer, Leader,
    MaxTerm, MaxIndex     \* bounds on the inputs

ASSUME LoopAssumption ==
    /\ IsFiniteSet(Peer) /\ Leader \notin Peer
    /\ MaxTerm \in Nat /\ MaxIndex \in Nat

VARIABLES
    loop,                   \* the loop under way, or "done"
    before,                 \* append: the log when the message arrives
    prev_log_index,
    entries,                \* append: args.entries
    next,                   \* append: the iteration
    log,
    last_new_entry_index,
    match_indices,
    leader_last_index,
    match_array,
    collected,              \* commit: the peers whose value is in match_array
    potential_commit_index  \* None until it is computed

appendVars == <<before, prev_log_index, entries, next, log, last_new_entry_index>>
commitVars == <<match_indices, leader_last_index, match_array, collected, potential_commit_index>>
vars == <<loop, appendVars, commitVars>>

-----------------------------------------------------------------------------

\* Entries with indices first, first + 1, ... whose terms never decrease.
Batches(first, least) ==
    {[k \in DOMAIN terms |-> [term |-> terms[k], index |-> first + k - 1, command |-> None]] :
        terms \in {t \in UNION {[1 .. n -> least .. MaxTerm] : n \in 0 .. MaxIndex - first + 1} :
                     \A a, b \in DOMAIN t : a <= b => t[a] <= t[b]}}

NoAppend ==
    /\ before = <<Sentinel>> /\ log = before
    /\ prev_log_index = 0 /\ entries = <<>> /\ next = 1
    /\ last_new_entry_index = prev_log_index

NoCommit ==
    /\ match_indices = <<>> /\ leader_last_index = 0
    /\ match_array = <<>> /\ collected = {}
    /\ potential_commit_index = None

AppendBegins ==
    /\ before \in {<<Sentinel>> \o es : es \in Batches(1, 1)}
    /\ prev_log_index \in 0 .. Len(before) - 1
    /\ entries \in Batches(prev_log_index + 1, Larger(1, before[prev_log_index + 1].term))
    /\ next = 1
    /\ log = before
    /\ last_new_entry_index = prev_log_index

CommitBegins ==
    /\ match_indices \in UNION {[peers -> 0 .. MaxIndex] : peers \in SUBSET Peer \ {{}}}
    /\ leader_last_index \in 0 .. MaxIndex
    /\ match_array = <<>>
    /\ collected = {}
    /\ potential_commit_index = None

Init ==
    \/ loop = "append" /\ AppendBegins /\ NoCommit
    \/ loop = "commit" /\ CommitBegins /\ NoAppend

-----------------------------------------------------------------------------

\* Vec::truncate(len) keeps the first len elements, those with indices below len.
Truncate(l, len) == SubSeq(l, 1, Smaller(len, Len(l)))

Iterate_NoTruncation(l, e) ==
    IF e.index + 1 \in DOMAIN l THEN [l EXCEPT ![e.index + 1] = e] ELSE Append(l, e)

Iterate_TruncatesLate(l, e) ==
    IF e.index + 1 \in DOMAIN l
    THEN IF l[e.index + 1].term # e.term THEN Append(Truncate(l, e.index + 1), e) ELSE l
    ELSE Append(l, e)

Iterate(l, e) ==
    IF e.index + 1 \in DOMAIN l
    THEN IF l[e.index + 1].term # e.term THEN Append(Truncate(l, e.index), e) ELSE l
    ELSE Append(l, e)

TakeEntry ==
    /\ loop = "append" /\ next \in DOMAIN entries
    /\ last_new_entry_index' = entries[next].index
    /\ log' = Iterate(log, entries[next])
    /\ next' = next + 1
    /\ UNCHANGED <<loop, before, prev_log_index, entries, commitVars>>

LeaveAppend ==
    /\ loop = "append" /\ next > Len(entries)
    /\ loop' = "done"
    /\ UNCHANGED <<appendVars, commitVars>>

Collect(j) ==
    /\ loop = "commit" /\ j \in DOMAIN match_indices \ collected
    /\ collected' = collected \cup {j}
    /\ match_array' = Append(match_array, match_indices[j])
    /\ UNCHANGED <<loop, match_indices, leader_last_index, potential_commit_index, appendVars>>

\* Where the i-th number stands when s is sorted; which of equal ones is first is not seen.
Rank(s, i) == Cardinality({j \in DOMAIN s : s[j] < s[i] \/ (s[j] = s[i] /\ j <= i)})

Sorted(s) == [q \in DOMAIN s |-> s[CHOOSE i \in DOMAIN s : Rank(s, i) = q]]

\* Positions start at 1, where the code's start at 0.
Position_Minority(len, peers) == len - peers \div 2

MedianPosition(len, peers) == len - MajoritySize(peers + 1) + 1

Choose ==
    /\ loop = "commit" /\ collected = DOMAIN match_indices
    /\ loop' = "done"
    /\ LET sorted == Sorted(Append(match_array, leader_last_index))
           position == MedianPosition(Len(sorted), Cardinality(collected))
       IN  /\ match_array' = sorted
           /\ potential_commit_index' = sorted[position]
    /\ UNCHANGED <<match_indices, leader_last_index, collected, appendVars>>

Next ==
    \/ TakeEntry
    \/ LeaveAppend
    \/ Choose
    \/ \E j \in Peer : Collect(j)

Spec == Init /\ [][Next]_vars

-----------------------------------------------------------------------------

\* When the append loop of handle_append_entries ends, the log is what Merged says
\* and the acknowledged index is that of the last entry of the message, or of its
\* previous entry if it has none.
LoopComputesMerged ==
    loop = "done" =>
        /\ log = Merged(before, entries)
        /\ last_new_entry_index = LastNewEntryIndex(prev_log_index, entries)

\* At every iteration the entry with index k is the k-th: pushing where the log
\* has no entry never leaves a gap, so that get(index) finds what index means.
IndexIsPosition == \A p \in DOMAIN log : log[p].index = p - 1

\* Whatever the order of the HashMap and whether the cluster is odd or even, the
\* index handle_append_entries_reply chooses is the highest one that a majority,
\* the leader included, reached.
MedianIsAgreed ==
    potential_commit_index # None =>
        potential_commit_index =
            HighestAgreed([j \in DOMAIN match_indices \cup {Leader} |->
                             IF j = Leader THEN leader_last_index ELSE match_indices[j]])
=============================================================================
