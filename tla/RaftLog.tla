------------------------------ MODULE RaftLog -------------------------------
(***************************************************************************)
(* Logs of the Raft core and the computations on them that need no node:   *)
(* the consistency check, the merge of new entries, the comparison of two  *)
(* logs in a vote, and the index a majority has reached.                   *)
(*                                                                         *)
(* A log is the Vec of node.rs, sentinel included: the entry whose index   *)
(* is k sits at position k + 1.                                            *)
(***************************************************************************)
EXTENDS Integers, Sequences, FiniteSets

CONSTANTS
    Command,    \* what clients may ask to append
    None        \* Rust's Option::None, and the sentinel's command

ASSUME CommandAssumption == None \notin Command

Entry == [term : Nat, index : Nat, command : Command \cup {None}]

Sentinel == [term |-> 0, index |-> 0, command |-> None]

Last(l) == l[Len(l)]

Larger(a, b) == IF a >= b THEN a ELSE b
Smaller(a, b) == IF a <= b THEN a ELSE b

\* The log has an entry at the index, and it is one of the term.
HoldsTerm(l, index, term) == index \in 0 .. Len(l) - 1 /\ l[index + 1].term = term

HasMatchingPrevEntry_AnyTerm(l, index, term) == index \in 0 .. Len(l) - 1

HasMatchingPrevEntry(l, index, term) == HoldsTerm(l, index, term)

\* Where the log has no entry, or one of another term, at the entry's index.
Differs(l, e) == ~HoldsTerm(l, e.index, e.term)

Merged_Replaced(l, entries) ==
    IF entries = <<>> THEN l ELSE SubSeq(l, 1, entries[1].index) \o entries

\* The log after the loop over args.entries: at the first entry that differs
\* the log is cut there and takes that entry and the ones after it.
Merged(l, entries) ==
    LET new == {k \in DOMAIN entries : Differs(l, entries[k])}
        first == CHOOSE k \in new : \A m \in new : k <= m
    IN  IF new = {} THEN l
        ELSE SubSeq(l, 1, Smaller(entries[first].index, Len(l)))
               \o SubSeq(entries, first, Len(entries))

LastNewEntryIndex(prev_log_index, entries) ==
    IF entries = <<>> THEN prev_log_index ELSE Last(entries).index

UpToDate(l, last_log_index, last_log_term) ==
    \/ last_log_term > Last(l).term
    \/ last_log_term = Last(l).term /\ last_log_index >= Last(l).index

MajoritySize_OneLess(n) == n \div 2

MajoritySize(n) == n \div 2 + 1

\* The highest index that a majority of the nodes has reached, where
\* reached[j] is the last index known to be replicated on j.
HighestAgreed(reached) ==
    LET nodes == DOMAIN reached
        Agreed(v) == Cardinality({j \in nodes : reached[j] >= v}) >= MajoritySize(Cardinality(nodes))
        candidates == {v \in {reached[j] : j \in nodes} : Agreed(v)}
    IN  CHOOSE v \in candidates : \A w \in candidates : w <= v
=============================================================================
