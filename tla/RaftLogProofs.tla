---------------------------- MODULE RaftLogProofs ----------------------------
(***************************************************************************)
(* Proofs about replication, for every set of nodes and every bound: logs  *)
(* that agree on a term agree up to it, a leader's indices stay inside its *)
(* log, what it records as replicated is replicated, and no step takes an  *)
(* entry of the current term from a log.                                   *)
(*                                                                         *)
(* LogMatching compares two logs, but a log is rebuilt from a message, and *)
(* the message may be older than every log there is now.  What survives is *)
(* the set T of all logs any node ever held: it is closed under prefixes   *)
(* and two of its members that end in the same term are prefixes of one    *)
(* another.  No variable holds that set, so the invariant ReplicationInv   *)
(* says that there is one: every node's log is in it, every message of     *)
(* entries is cut from one of its members (Stands), and a step adds the    *)
(* log it writes.  The indices then speak of that set: a reply and a       *)
(* leader's match index say how far the follower's log agrees with the     *)
(* leader's (Holds), as long as both are in the term they were sent in.    *)
(***************************************************************************)
EXTENDS RaftElectionProofs

\* a is an initial part of b.
Below(a, b) == Len(a) <= Len(b) /\ \A q \in 1 .. Len(a) : a[q] = b[q]

\* T is closed under prefixes, its logs count up from the sentinel in terms that do
\* not pass the last one, and the logs that end in one term lie on one path.
Tree(T) ==
    /\ T \subseteq Seq(Entry) \ {<<>>}
    /\ \A l \in T : \A n \in 1 .. Len(l) : Prefix(l, n) \in T
    /\ \A l \in T : \A q \in 1 .. Len(l) : l[q].index = q - 1 /\ l[q].term <= Last(l).term
    /\ \A l \in T : l[1] = Sentinel
    /\ \A a, b \in T : Last(a).term = Last(b).term => Below(a, b) \/ Below(b, a)

LEMMA EntryFields ==
    ASSUME NEW e \in Entry
    PROVE  e.term \in Nat /\ e.index \in Nat
  BY DEF Entry

LEMMA PrefixFacts ==
    ASSUME NEW l \in Seq(Entry), NEW n \in 1 .. Len(l)
    PROVE  /\ Prefix(l, n) \in Seq(Entry) \ {<<>>} /\ Len(Prefix(l, n)) = n
           /\ \A q \in 1 .. n : Prefix(l, n)[q] = l[q]
           /\ Last(Prefix(l, n)) = l[n]
  <1>1. Len(l) \in Nat
    BY LenProperties
  <1>2. \A k \in 1 .. n : l[k] \in Entry
    BY <1>1, ElementOfSeq
  <1>3. /\ Prefix(l, n) \in Seq(Entry) /\ Len(Prefix(l, n)) = n
        /\ \A q \in 1 .. n : Prefix(l, n)[q] = l[q]
    BY <1>1, <1>2, SubSeqProperties DEF Prefix
  <1>4. Prefix(l, n) # <<>>
    BY <1>1, <1>3, NotEmpty
  <1> QED BY <1>1, <1>3, <1>4 DEF Last

LEMMA SamePrefix ==
    ASSUME NEW a \in Seq(Entry), NEW b \in Seq(Entry), NEW n \in 1 .. Len(a), n <= Len(b),
           \A q \in 1 .. n : a[q] = b[q]
    PROVE  Prefix(a, n) = Prefix(b, n)
  <1>1. Len(a) \in Nat /\ Len(b) \in Nat
    BY LenProperties
  <1>2. n \in 1 .. Len(b)
    BY <1>1
  <1> HIDE DEF Prefix
  <1>3. /\ Prefix(a, n) \in Seq(Entry) /\ Prefix(b, n) \in Seq(Entry)
        /\ Len(Prefix(a, n)) = n /\ Len(Prefix(b, n)) = n
        /\ \A q \in 1 .. n : Prefix(a, n)[q] = Prefix(b, n)[q]
    BY <1>2, PrefixFacts
  <1> QED BY <1>3, SeqEqual

\* In a tree an index and a term determine an entry and all before it.
LEMMA TreeDetermines ==
    ASSUME NEW T, Tree(T), NEW a \in T, NEW b \in T,
           NEW n \in 1 .. Len(a), n <= Len(b), a[n].term = b[n].term
    PROVE  \A q \in 1 .. n : a[q] = b[q]
  <1>1. a \in Seq(Entry) /\ b \in Seq(Entry) /\ Len(a) \in Nat /\ Len(b) \in Nat
    BY LenProperties DEF Tree
  <1>2. n \in 1 .. Len(b)
    BY <1>1
  <1>3. Prefix(a, n) \in T /\ Prefix(b, n) \in T
    BY <1>2 DEF Tree
  <1>4. Last(Prefix(a, n)).term = Last(Prefix(b, n)).term
    BY <1>1, <1>2, PrefixFacts
  <1>5. Below(Prefix(a, n), Prefix(b, n)) \/ Below(Prefix(b, n), Prefix(a, n))
    BY <1>3, <1>4 DEF Tree
  <1>6. /\ Len(Prefix(a, n)) = n /\ Len(Prefix(b, n)) = n
        /\ \A q \in 1 .. n : Prefix(a, n)[q] = a[q] /\ Prefix(b, n)[q] = b[q]
    BY <1>1, <1>2, PrefixFacts
  <1> QED BY <1>5, <1>6 DEF Below

LEMMA TreeFacts ==
    ASSUME NEW T, Tree(T), NEW l \in T
    PROVE  /\ l \in Seq(Entry) \ {<<>>} /\ Len(l) \in Nat \ {0} /\ DOMAIN l = 1 .. Len(l)
           /\ \A q \in 1 .. Len(l) : /\ l[q] \in Entry /\ l[q].index = q - 1
                                     /\ l[q].term \in Nat /\ l[q].term <= Last(l).term
           /\ Last(l) = l[Len(l)] /\ l[1] = Sentinel
  <1>1. l \in Seq(Entry) \ {<<>>}
    BY DEF Tree
  <1>2. Len(l) \in Nat \ {0} /\ DOMAIN l = 1 .. Len(l)
    BY <1>1, LastType, LenProperties
  <1>3. \A q \in 1 .. Len(l) : l[q] \in Entry
    BY <1>1, ElementOfSeq
  <1> QED BY <1>1, <1>2, <1>3, EntryFields DEF Tree, Last

LEMMA BelowTransitive ==
    ASSUME NEW a \in Seq(Entry), NEW b \in Seq(Entry), NEW c \in Seq(Entry),
           Below(a, b), Below(b, c)
    PROVE  Below(a, c)
  <1>1. Len(a) \in Nat /\ Len(b) \in Nat /\ Len(c) \in Nat
    BY LenProperties
  <1> QED BY <1>1 DEF Below

LEMMA Appended ==
    ASSUME NEW l \in Seq(Entry), NEW e \in Entry
    PROVE  /\ Append(l, e) \in Seq(Entry) \ {<<>>} /\ Len(Append(l, e)) = Len(l) + 1
           /\ Last(Append(l, e)) = e
           /\ \A q \in 1 .. Len(l) : Append(l, e)[q] = l[q]
           /\ Below(l, Append(l, e))
  <1> DEFINE n == Append(l, e)
  <1>1. Len(l) \in Nat
    BY LenProperties
  <1>2. /\ n \in Seq(Entry) /\ Len(n) = Len(l) + 1 /\ n[Len(l) + 1] = e
        /\ \A q \in 1 .. Len(l) : n[q] = l[q]
    BY AppendProperties
  <1>3. n \in Seq(Entry) \ {<<>>}
    BY AppendType
  <1> HIDE DEF n
  <1>4. Last(n) = e /\ Below(l, n)
    BY <1>1, <1>2 DEF Below, Last
  <1> QED BY <1>2, <1>3, <1>4 DEF n

\* A log of the tree that is the longest of its new term may get one more entry.
LEMMA TreeGrows ==
    ASSUME NEW T, Tree(T), NEW l \in T, NEW e \in Entry, NEW n, n = Append(l, e),
           e.index = Len(l), e.term >= Last(l).term,
           \A b \in T : Last(b).term = e.term => Below(b, l)
    PROVE  Tree(T \cup {n})
  <1> DEFINE U == T \cup {n}
  <1>1. /\ l \in Seq(Entry) /\ Len(l) \in Nat \ {0} /\ l[1] = Sentinel
        /\ \A q \in 1 .. Len(l) : l[q].index = q - 1 /\ l[q].term \in Nat
                                  /\ l[q].term <= Last(l).term
    BY TreeFacts
  <1>2. /\ n \in Seq(Entry) \ {<<>>} /\ Len(n) = Len(l) + 1 /\ Last(n) = e
        /\ \A q \in 1 .. Len(l) : n[q] = l[q]
        /\ Below(l, n)
    BY <1>1, Appended
  <1>3. Last(l).term \in Nat /\ e.term \in Nat
    BY <1>1, EntryFields DEF Last
  <1>4. T \subseteq Seq(Entry) \ {<<>>}
    BY DEF Tree
  <1>5. U \subseteq Seq(Entry) \ {<<>>}
    BY <1>2, <1>4
  <1>6. \A q \in 1 .. Len(n) : Prefix(n, q) \in U
    <2> SUFFICES ASSUME NEW q \in 1 .. Len(n) PROVE Prefix(n, q) \in U
      OBVIOUS
    <2>1. CASE q <= Len(l)
      <3>1. q \in 1 .. Len(l) /\ q <= Len(n)
        BY <1>1, <1>2, <2>1
      <3>2. \A k \in 1 .. q : l[k] = n[k]
        BY <1>1, <1>2, <3>1
      <3>3. Prefix(l, q) = Prefix(n, q)
        BY <1>1, <1>2, <3>1, <3>2, SamePrefix
      <3>4. Prefix(l, q) \in T
        BY <3>1 DEF Tree
      <3> QED BY <3>3, <3>4
    <2>2. CASE ~(q <= Len(l))
      <3>1. q = Len(n)
        BY <1>1, <1>2, <2>2
      <3>2. Prefix(n, Len(n)) = n
        BY <1>2, SubSeqFull DEF Prefix
      <3> QED BY <3>1, <3>2
    <2> QED BY <2>1, <2>2
  <1>7. \A q \in 1 .. Len(n) : n[q].index = q - 1 /\ n[q].term <= Last(n).term
    <2> SUFFICES ASSUME NEW q \in 1 .. Len(n)
                 PROVE  n[q].index = q - 1 /\ n[q].term <= Last(n).term
      OBVIOUS
    <2>1. CASE q <= Len(l)
      <3>1. q \in 1 .. Len(l)
        BY <1>1, <1>2, <2>1
      <3> QED BY <1>1, <1>2, <1>3, <3>1
    <2>2. CASE ~(q <= Len(l))
      <3>1. q = Len(l) + 1
        BY <1>1, <1>2, <2>2
      <3>2. n[q] = e
        BY <1>2, <3>1 DEF Last
      <3> QED BY <1>1, <1>2, <1>3, <3>1, <3>2
    <2> QED BY <2>1, <2>2
  <1>8. n[1] = Sentinel
    BY <1>1, <1>2
  <1>9. \A b \in T : Last(b).term = Last(n).term => Below(b, n)
    <2> SUFFICES ASSUME NEW b \in T, Last(b).term = Last(n).term PROVE Below(b, n)
      OBVIOUS
    <2>1. Below(b, l) /\ b \in Seq(Entry)
      BY <1>2, <1>4
    <2> QED BY <1>1, <1>2, <2>1, BelowTransitive
  <1>10. Below(n, n)
    BY <1>1, <1>2 DEF Below
  <1>11. \A a, b \in U : Last(a).term = Last(b).term => Below(a, b) \/ Below(b, a)
    <2> SUFFICES ASSUME NEW a \in U, NEW b \in U, Last(a).term = Last(b).term
                 PROVE  Below(a, b) \/ Below(b, a)
      OBVIOUS
    <2>1. CASE a \in T /\ b \in T
      BY <2>1 DEF Tree
    <2>2. CASE a = n \/ b = n
      BY <1>9, <1>10, <2>2
    <2> QED BY <2>1, <2>2
  <1>12. /\ \A k \in U : \A q \in 1 .. Len(k) : Prefix(k, q) \in U
         /\ \A k \in U : \A q \in 1 .. Len(k) : k[q].index = q - 1 /\ k[q].term <= Last(k).term
         /\ \A k \in U : k[1] = Sentinel
    BY <1>6, <1>7, <1>8 DEF Tree
  <1> HIDE DEF U
  <1>13. Tree(U)
    BY <1>5, <1>11, <1>12 DEF Tree
  <1> QED BY <1>13 DEF U

-----------------------------------------------------------------------------
(* What a message says of its sender's log *)

\* The log l ends with what the message carries.
Backs(l, m) ==
    /\ Len(l) = m.prev_log_index + 1 + Len(m.entries)
    /\ l[m.prev_log_index + 1].term = m.prev_log_term
    /\ \A k \in 1 .. Len(m.entries) : m.entries[k] = l[m.prev_log_index + 1 + k]
    /\ Last(l).term <= m.term

\* l is what the sender's log was: it fits every log that ends in the term, and
\* the sender's own as long as it leads the term.
Stands(T, l, m) ==
    /\ Backs(l, m)
    /\ \A b \in T : Last(b).term = m.term => Below(b, l) \/ Below(l, b)
    /\ state[m.from] = "Leader" /\ current_term[m.from] = m.term => Below(l, log[m.from])

LEMMA ArgsBack ==
    ASSUME NEW T, Tree(T), NEW l \in T, NEW i, NEW j, NEW commit, NEW next \in 1 .. Len(l),
           Last(l).term <= current_term[i]
    PROVE  Backs(l, AppendEntriesArgs(i, j, next, l, commit))
  <1>1. l \in Seq(Entry) /\ Len(l) \in Nat \ {0} /\ DOMAIN l = 1 .. Len(l)
    BY TreeFacts
  <1> DEFINE m == AppendEntriesArgs(i, j, next, l, commit)
             es == SubSeq(l, next + 1, Len(l))
  <1>2. /\ m.prev_log_index = next - 1 /\ m.prev_log_term = l[next].term
        /\ m.entries = es /\ m.term = current_term[i]
    BY <1>1 DEF AppendEntriesArgs
  <1>3. /\ Len(es) = Len(l) - next
        /\ \A k \in 1 .. Len(l) - next : es[k] = l[next + k]
    <2>1. \A k \in next + 1 .. Len(l) : l[k] \in Entry
      BY <1>1, ElementOfSeq
    <2>2. next + 1 \in Int /\ Len(l) \in Int
      BY <1>1
    <2>3. /\ Len(es) = IF next + 1 <= Len(l) THEN Len(l) - (next + 1) + 1 ELSE 0
          /\ \A k \in 1 .. Len(l) - (next + 1) + 1 : es[k] = l[next + 1 + k - 1]
      BY <2>1, <2>2, SubSeqProperties
    <2>4. \A k \in 1 .. Len(l) - next : es[k] = l[next + k]
      <3> SUFFICES ASSUME NEW k \in 1 .. Len(l) - next PROVE es[k] = l[next + k]
        OBVIOUS
      <3>1. k \in 1 .. Len(l) - (next + 1) + 1 /\ next + 1 + k - 1 = next + k
        BY <1>1
      <3> QED BY <2>3, <3>1
    <2> HIDE DEF es
    <2> QED BY <1>1, <2>3, <2>4
  <1> HIDE DEF m, es
  <1>4. Len(l) = m.prev_log_index + 1 + Len(m.entries)
    BY <1>1, <1>2, <1>3
  <1>5. m.prev_log_index + 1 = next
    BY <1>1, <1>2
  <1> QED BY <1>2, <1>3, <1>4, <1>5 DEF Backs, m

LEMMA MergeCases ==
    ASSUME NEW T, Tree(T), NEW l \in T, NEW b \in T, NEW m \in AppendEntriesMsg, Backs(b, m),
           HasMatchingPrevEntry(l, m.prev_log_index, m.prev_log_term)
    PROVE  \/ Merged(l, m.entries) = l /\ Below(b, l)
           \/ Merged(l, m.entries) = b /\ ~Below(b, l)
  <1> DEFINE p == m.prev_log_index
             es == m.entries
             new == {k \in DOMAIN es : Differs(l, es[k])}
             first == CHOOSE k \in new : \A j \in new : k <= j
  <1>1. /\ p \in Nat /\ es \in Seq(Entry) /\ Len(es) \in Nat /\ DOMAIN es = 1 .. Len(es)
        /\ Len(l) \in Nat \ {0} /\ Len(b) \in Nat \ {0}
        /\ l \in Seq(Entry) /\ b \in Seq(Entry)
    BY TreeFacts, LenProperties DEF AppendEntriesMsg
  <1>2. p + 1 <= Len(l) /\ l[p + 1].term = b[p + 1].term /\ Len(b) = p + 1 + Len(es)
    BY <1>1 DEF HasMatchingPrevEntry, HoldsTerm, Backs
  <1>3. \A k \in 1 .. Len(es) : es[k] = b[p + 1 + k] /\ es[k].index = p + k
    <2> SUFFICES ASSUME NEW k \in 1 .. Len(es)
                 PROVE  es[k] = b[p + 1 + k] /\ es[k].index = p + k
      OBVIOUS
    <2>1. es[k] = b[p + 1 + k]
      BY DEF Backs
    <2>2. p + 1 + k \in 1 .. Len(b)
      BY <1>1, <1>2
    <2> DEFINE q == p + 1 + k
    <2> HIDE DEF q
    <2>3. b[q].index = q - 1
      BY <2>2, TreeFacts DEF q
    <2>4. q - 1 = p + k
      BY <1>1 DEF q
    <2> QED BY <2>1, <2>3, <2>4 DEF q
  <1>4. \A k \in 1 .. Len(es) :
            Differs(l, es[k]) <=> ~(p + 1 + k <= Len(l) /\ l[p + 1 + k].term = b[p + 1 + k].term)
    <2> SUFFICES ASSUME NEW k \in 1 .. Len(es)
                 PROVE  Differs(l, es[k])
                        <=> ~(p + 1 + k <= Len(l) /\ l[p + 1 + k].term = b[p + 1 + k].term)
      OBVIOUS
    <2>1. es[k].index = p + k /\ es[k].term = b[p + 1 + k].term
      BY <1>3
    <2>2. p + k \in 0 .. Len(l) - 1 <=> p + 1 + k <= Len(l)
      BY <1>1
    <2>3. p + k + 1 = p + 1 + k
      BY <1>1
    <2> QED BY <2>1, <2>2, <2>3 DEF Differs, HoldsTerm
  <1>5. CASE new = {}
    <2>1. Merged(l, es) = l
      BY <1>5 DEF Merged
    <2>2. Len(b) <= Len(l) /\ l[Len(b)].term = b[Len(b)].term
      <3>1. CASE Len(es) = 0
        BY <1>1, <1>2, <3>1
      <3>2. CASE Len(es) # 0
        <4>1. Len(es) \in 1 .. Len(es)
          BY <1>1, <3>2
        <4>2. ~Differs(l, es[Len(es)])
          BY <1>1, <1>5, <4>1
        <4> QED BY <1>2, <1>4, <4>1, <4>2
      <3> QED BY <3>1, <3>2
    <2>3. \A q \in 1 .. Len(b) : b[q] = l[q]
      <3>1. Len(b) \in 1 .. Len(b)
        BY <1>1
      <3> QED BY <2>2, <3>1, TreeDetermines
    <2> QED BY <2>1, <2>2, <2>3 DEF Below
  <1>6. CASE new # {}
    <2>1. first \in new /\ \A j \in new : first <= j
      <3>1. new \subseteq Nat
        BY <1>1
      <3>2. \E k \in new : \A j \in new : k <= j
        BY <1>6, <3>1, LeastNatural
      <3> QED BY <3>2
    <2> HIDE DEF first
    <2>2. first \in 1 .. Len(es) /\ Differs(l, es[first])
      BY <1>1, <2>1
    <2>3. p + first <= Len(l) /\ l[p + first].term = b[p + first].term
      <3>1. CASE first = 1
        BY <1>1, <1>2, <3>1
      <3>2. CASE first # 1
        <4>1. first - 1 \in 1 .. Len(es) /\ ~(first <= first - 1)
          BY <1>1, <2>2, <3>2
        <4>2. ~Differs(l, es[first - 1])
          BY <1>1, <2>1, <4>1
        <4>3. p + 1 + (first - 1) = p + first
          BY <1>1, <2>2
        <4> QED BY <1>4, <4>1, <4>2, <4>3
      <3> QED BY <3>1, <3>2
    <2>4. \A q \in 1 .. p + first : l[q] = b[q]
      <3>1. p + first \in 1 .. Len(l) /\ p + first <= Len(b)
        BY <1>1, <1>2, <2>2, <2>3
      <3> QED BY <2>3, <3>1, TreeDetermines
    <2>5. ~Below(b, l)
      <3>1. p + 1 + first \in 1 .. Len(b)
        BY <1>1, <1>2, <2>2
      <3>2. ~(p + 1 + first <= Len(l) /\ l[p + 1 + first].term = b[p + 1 + first].term)
        BY <1>4, <2>2
      <3> QED BY <1>1, <3>1, <3>2 DEF Below
    <2>6. Merged(l, es) = SubSeq(l, 1, p + first) \o SubSeq(es, first, Len(es))
      <3>1. Smaller(es[first].index, Len(l)) = p + first
        BY <1>1, <1>3, <2>2, <2>3 DEF Smaller
      <3> QED BY <1>6, <3>1 DEF Merged, first
    <2>7. /\ SubSeq(l, 1, p + first) \in Seq(Entry) /\ Len(SubSeq(l, 1, p + first)) = p + first
          /\ \A q \in 1 .. p + first : SubSeq(l, 1, p + first)[q] = l[q]
      <3>1. p + first \in 1 .. Len(l)
        BY <1>1, <2>2, <2>3
      <3> QED BY <1>1, <3>1, PrefixFacts DEF Prefix
    <2>8. /\ SubSeq(es, first, Len(es)) \in Seq(Entry)
          /\ Len(SubSeq(es, first, Len(es))) = Len(es) - first + 1
          /\ \A k \in 1 .. Len(es) - first + 1 :
                SubSeq(es, first, Len(es))[k] = es[first + k - 1]
      <3>1. \A k \in first .. Len(es) : es[k] \in Entry
        BY <1>1, <2>2, ElementOfSeq
      <3> QED BY <1>1, <2>2, <3>1, SubSeqProperties
    <2> DEFINE kept == SubSeq(l, 1, p + first)
               added == SubSeq(es, first, Len(es))
    <2> HIDE DEF kept, added
    <2>9. /\ kept \o added \in Seq(Entry) /\ Len(kept \o added) = Len(b)
          /\ \A q \in 1 .. Len(b) :
                (kept \o added)[q] = IF q <= p + first THEN kept[q] ELSE added[q - (p + first)]
      <3>1. kept \in Seq(Entry) /\ added \in Seq(Entry) /\ Len(kept) = p + first
            /\ Len(added) = Len(es) - first + 1
        BY <2>7, <2>8 DEF kept, added
      <3>2. Len(kept) + Len(added) = Len(b)
        <4>1. Len(kept) = p + first /\ Len(added) = Len(es) - first + 1
          BY <3>1
        <4>2. /\ Len(b) = p + 1 + Len(es) /\ first \in Nat
              /\ p \in Nat /\ Len(es) \in Nat
          BY <1>1, <1>2, <2>2
        <4> HIDE DEF es, p
        <4>3. (p + first) + (Len(es) - first + 1) = p + 1 + Len(es)
          BY <4>2
        <4> QED BY <4>1, <4>2, <4>3
      <3>3. /\ kept \o added \in Seq(Entry)
            /\ Len(kept \o added) = Len(kept) + Len(added)
            /\ \A q \in 1 .. Len(kept) + Len(added) :
                  (kept \o added)[q] = IF q <= Len(kept) THEN kept[q] ELSE added[q - Len(kept)]
        BY <3>1, ConcatProperties
      <3>4. Len(kept) = p + first
        BY <3>1
      <3> HIDE DEF p, es
      <3> QED BY <3>2, <3>3, <3>4
    <2>10. \A q \in 1 .. Len(b) : (kept \o added)[q] = b[q]
      <3> SUFFICES ASSUME NEW q \in 1 .. Len(b) PROVE (kept \o added)[q] = b[q]
        OBVIOUS
      <3>1. CASE q <= p + first
        <4>1. q \in 1 .. p + first
          BY <1>1, <2>2, <3>1
        <4> QED BY <2>4, <2>7, <2>9, <3>1, <4>1 DEF kept
      <3>2. CASE ~(q <= p + first)
        <4> DEFINE k == q - (p + first)
        <4>1. k \in 1 .. Len(es) - first + 1 /\ first + k - 1 \in 1 .. Len(es)
              /\ p + 1 + (first + k - 1) = q
          <5>1. Len(b) = p + 1 + Len(es) /\ first \in Nat /\ q \in 1 .. Len(b) /\ p \in Nat
                /\ Len(es) \in Nat /\ 1 <= first
            BY <1>1, <1>2, <2>2
          <5> HIDE DEF es, p
          <5> QED BY <3>2, <5>1
        <4>2. (kept \o added)[q] = added[k]
          BY <2>9, <3>2
        <4>3. added[k] = es[first + k - 1]
          BY <2>8, <4>1 DEF added
        <4>4. es[first + k - 1] = b[q]
          BY <1>3, <4>1
        <4> QED BY <4>2, <4>3, <4>4
      <3> QED BY <3>1, <3>2
    <2>11. kept \o added = b
      BY <1>1, <2>9, <2>10, SeqEqual
    <2> QED BY <2>5, <2>6, <2>11 DEF kept, added
  <1> QED BY <1>5, <1>6

-----------------------------------------------------------------------------
(* Roles *)

\* A node elected in its current term still leads it; an election was held by
\* whoever is not a follower; and nobody sends entries to itself.
RoleInv ==
    /\ \A i \in Node, t \in Nat :
          Elected(t, i) => t <= current_term[i] /\ (t = current_term[i] => state[i] = "Leader")
    /\ \A i \in Node : state[i] # "Follower" => current_term[i] >= 1
    /\ \A m \in msgs : m.kind \in {"AppendEntries", "AppendReply"} => m.from # m.to

LeaderInv == TypeInv /\ BallotInv /\ HintInv /\ RoleInv

RoleChanges ==
    /\ \A j \in Node :
        /\ current_term'[j] >= current_term[j]
        /\ state[j] = "Leader" /\ current_term'[j] = current_term[j] => state'[j] = "Leader"
        /\ state'[j] = "Leader" => current_term'[j] = current_term[j] /\ state[j] # "Follower"
        /\ state'[j] = "Candidate" =>
              \/ state[j] = "Candidate" /\ current_term'[j] = current_term[j]
              \/ ElectionTimeout(j)
    /\ elected \subseteq elected'
    /\ \A t \in Nat, j \in Node :
          Elected(t, j)' => \/ Elected(t, j)
                            \/ t = current_term'[j] /\ state[j] = "Candidate" /\ state'[j] = "Leader"

LEMMA OneLeader ==
    ASSUME LeaderInv, NEW t, NEW i, NEW j, Elected(t, i), Elected(t, j)
    PROVE  i = j
  <1>1. ElectionSafety
    BY BallotsGiveSafety DEF LeaderInv, TypeInv
  <1> QED BY <1>1 DEF ElectionSafety, Elected

LEMMA SameRoles ==
    ASSUME TypeOK, UNCHANGED <<current_term, state, elected>>
    PROVE  RoleChanges
  BY DEF RoleChanges, TypeOK, Elected

LEMMA OneFollows ==
    ASSUME TypeOK, NEW i \in Node, NEW term \in Nat, term >= current_term[i],
           term = current_term[i] => state[i] # "Leader",
           current_term' = [current_term EXCEPT ![i] = term],
           state' = [state EXCEPT ![i] = "Follower"],
           elected' = elected
    PROVE  RoleChanges
  <1>1. current_term[i] \in Nat
    BY DEF TypeOK
  <1>2. current_term'[i] = term /\ state'[i] = "Follower"
    BY DEF TypeOK
  <1>3. \A j \in Node \ {i} : current_term'[j] = current_term[j] /\ state'[j] = state[j]
    BY DEF TypeOK
  <1>4. \A j \in Node : current_term[j] \in Nat
    BY DEF TypeOK
  <1> QED BY <1>1, <1>2, <1>3, <1>4 DEF RoleChanges, Elected

\* A node that receives entries of its own term does not lead it.
LEMMA ReceiverFollows ==
    ASSUME LeaderInv, NEW m \in msgs, m.kind = "AppendEntries", m.term = current_term[m.to]
    PROVE  state[m.to] # "Leader"
  <1> SUFFICES ASSUME state[m.to] = "Leader" PROVE FALSE
    OBVIOUS
  <1>1. m.to \in Node
    BY MessageFields DEF LeaderInv, TypeInv, TypeOK
  <1>2. Elected(m.term, m.to)
    BY <1>1, LeaderIsElected DEF LeaderInv
  <1>3. Elected(m.term, m.from) /\ m.from # m.to
    BY DEF LeaderInv, HintInv, EntriesFromElected, RoleInv
  <1> QED BY <1>2, <1>3, OneLeader

LEMMA RolesChange ==
    ASSUME LeaderInv, [Next]_vars
    PROVE  RoleChanges
  <1>1. TypeOK
    BY DEF LeaderInv, TypeInv
  <1>2. CASE UNCHANGED vars
    BY <1>1, <1>2, SameRoles DEF vars, termVars, roleVars, history
  <1>3. ASSUME NEW i \in Node, ElectionTimeout(i)
        PROVE  RoleChanges
    <2>1. /\ state[i] # "Leader" /\ elected' = elected
          /\ current_term' = [current_term EXCEPT ![i] = current_term[i] + 1]
          /\ state' = [state EXCEPT ![i] = "Candidate"]
      BY <1>3 DEF ElectionTimeout
    <2>2. \A j \in Node : current_term[j] \in Nat
      BY <1>1 DEF TypeOK
    <2>3. /\ current_term'[i] = current_term[i] + 1 /\ state'[i] = "Candidate"
          /\ \A j \in Node \ {i} : current_term'[j] = current_term[j] /\ state'[j] = state[j]
      BY <1>1, <2>1 DEF TypeOK
    <2> QED BY <1>3, <2>1, <2>2, <2>3 DEF RoleChanges, Elected
  <1>4. ASSUME NEW i \in Node, HeartbeatTimeout(i) \/ \E c \in Command : ClientRequest(i, c)
        PROVE  RoleChanges
    BY <1>1, <1>4, SameRoles DEF HeartbeatTimeout, ClientRequest, termVars, roleVars, history
  <1>5. ASSUME NEW m \in msgs,
               \/ RejectStaleVote(m) \/ RecordVote(m) \/ RejectStaleEntries(m)
               \/ EntriesReplicated(m) \/ EntriesRejected(m) \/ IgnoreReply(m) \/ Drop(m)
        PROVE  RoleChanges
    BY <1>1, <1>5, SameRoles
    DEF RejectStaleVote, RecordVote, RejectStaleEntries, EntriesReplicated, EntriesRejected,
        IgnoreReply, Drop, termVars, roleVars, history
  <1>6. ASSUME NEW m \in msgs, GrantVote(m) \/ DenyVote(m)
        PROVE  RoleChanges
    <2> DEFINE i == m.to
    <2>1. i \in Node /\ m.term \in Nat /\ current_term[i] \in Nat
      BY <1>1, MessageFields DEF TypeOK
    <2>2. AdoptTerm(i, m.term) /\ m.term >= current_term[i] /\ elected' = elected
      BY <1>6 DEF GrantVote, DenyVote, history
    <2>3. CASE m.term > current_term[i]
      <3>1. /\ current_term' = [current_term EXCEPT ![i] = m.term]
            /\ state' = [state EXCEPT ![i] = "Follower"]
        BY <2>2, <2>3 DEF AdoptTerm, BecomeFollower
      <3>2. m.term # current_term[i]
        BY <2>1, <2>3
      <3> QED BY <1>1, <2>1, <2>2, <3>1, <3>2, OneFollows
    <2>4. CASE m.term = current_term[i]
      <3>1. current_term' = current_term
        BY <1>1, <2>2, <2>4 DEF AdoptTerm, TypeOK
      <3>2. state' = state
        BY <2>1, <2>2, <2>4 DEF AdoptTerm, roleVars
      <3> QED BY <1>1, <2>2, <3>1, <3>2, SameRoles
    <2> QED BY <2>1, <2>2, <2>3, <2>4
  <1>7. ASSUME NEW m \in msgs, NewerTermReply(m)
        PROVE  RoleChanges
    <2>1. m.to \in Node /\ m.term \in Nat /\ current_term[m.to] \in Nat
      BY <1>1, MessageFields DEF TypeOK
    <2>2. /\ m.term > current_term[m.to] /\ elected' = elected
          /\ current_term' = [current_term EXCEPT ![m.to] = m.term]
          /\ state' = [state EXCEPT ![m.to] = "Follower"]
      BY <1>7 DEF NewerTermReply, StepDown, BecomeFollower, history
    <2>3. m.term # current_term[m.to] /\ m.term >= current_term[m.to]
      BY <2>1, <2>2
    <2> QED BY <1>1, <2>1, <2>2, <2>3, OneFollows
  <1>8. ASSUME NEW m \in msgs, WinElection(m)
        PROVE  RoleChanges
    <2>1. m.to \in Node
      BY <1>1, MessageFields DEF TypeOK
    <2>2. /\ state[m.to] = "Candidate"
          /\ current_term' = current_term
          /\ state' = [state EXCEPT ![m.to] = "Leader"]
          /\ elected' = elected \cup {[term |-> current_term[m.to], node |-> m.to]}
      BY <1>8 DEF WinElection, CountsAsVote
    <2>3. ASSUME NEW j \in Node
          PROVE  /\ current_term[j] \in Nat /\ current_term'[j] = current_term[j]
                 /\ state'[j] = IF j = m.to THEN "Leader" ELSE state[j]
      BY <1>1, <2>1, <2>2 DEF TypeOK
    <2>4. ASSUME NEW t \in Nat, NEW j \in Node, Elected(t, j)', ~ Elected(t, j)
          PROVE  t = current_term'[j] /\ state[j] = "Candidate" /\ state'[j] = "Leader"
      <3>1. [term |-> t, node |-> j] = [term |-> current_term[m.to], node |-> m.to]
        BY <2>2, <2>4 DEF Elected
      <3>2. t = current_term[m.to] /\ j = m.to
        BY <3>1
      <3> QED BY <2>2, <2>3, <3>2
    <2>5. elected \subseteq elected'
      BY <2>2
    <2> QED BY <2>2, <2>3, <2>4, <2>5 DEF RoleChanges
  <1>9. ASSUME NEW m \in msgs, RejectUnmatchedEntries(m) \/ AcceptEntries(m)
        PROVE  RoleChanges
    <2> DEFINE i == m.to
    <2>1. i \in Node /\ m.term \in Nat /\ current_term[i] \in Nat
      BY <1>1, MessageFields DEF TypeOK
    <2>2. /\ RecognizeLeader(i, m) /\ m.term >= current_term[i] /\ elected' = elected
          /\ m.kind = "AppendEntries"
      BY <1>9 DEF RejectUnmatchedEntries, AcceptEntries, history
    <2>3. m.term = current_term[i] => state[i] # "Leader"
      BY <2>2, ReceiverFollows
    <2> QED BY <1>1, <2>1, <2>2, <2>3, OneFollows DEF RecognizeLeader, BecomeFollower
  <1> QED BY <1>2, <1>3, <1>4, <1>5, <1>6, <1>7, <1>8, <1>9 DEF Next, Receive

-----------------------------------------------------------------------------
(* What is sent *)

\* A leader's message to a peer, made from the log it has after the step.
SentByLeader(m) ==
    \E i \in Node : \E j \in Peers(i) : \E next \in 1 .. Len(log'[i]) :
        /\ state'[i] = "Leader" /\ current_term'[i] = current_term[i]
        /\ committed_index'[i] = committed_index[i]
        /\ m = AppendEntriesArgs(i, j, next, log'[i], committed_index[i])

LastIndices == \A i \in Node : Last(log[i]).index + 1 = Len(log[i])

LEMMA EntriesSent ==
    ASSUME LeaderInv, LastIndices, NextIndexInLog, [Next]_vars,
           NEW r \in msgs', r.kind = "AppendEntries", r \notin msgs
    PROVE  SentByLeader(r)
  <1>1. TypeOK
    BY DEF LeaderInv, TypeInv
  <1>2. \A i \in Node : Len(log[i]) \in Nat \ {0}
    BY <1>1, LastType DEF TypeOK
  <1>3. CASE UNCHANGED vars
    BY <1>3 DEF vars
  <1>4. ASSUME NEW i \in Node, ElectionTimeout(i)
        PROVE  FALSE
    BY <1>4 DEF ElectionTimeout, Send
  <1>5. ASSUME NEW i \in Node, HeartbeatTimeout(i)
        PROVE  SentByLeader(r)
    <2>1. /\ state[i] = "Leader" /\ UNCHANGED <<log, state, current_term, committed_index>>
      BY <1>5 DEF HeartbeatTimeout, roleVars, termVars, logVars
    <2>2. PICK j \in Peers(i) :
             r = AppendEntriesArgs(i, j, next_indices[i][j], log[i], committed_index[i])
      BY <1>5 DEF HeartbeatTimeout, Send
    <2>3. next_indices[i][j] \in 1 .. Len(log[i])
      BY <2>1 DEF NextIndexInLog, Peers
    <2> QED BY <2>1, <2>2, <2>3 DEF SentByLeader
  <1>6. ASSUME NEW i \in Node, NEW c \in Command, ClientRequest(i, c)
        PROVE  SentByLeader(r)
    <2> DEFINE e == [term |-> current_term[i], index |-> Last(log[i]).index + 1, command |-> c]
               l == Append(log[i], e)
    <2>1. /\ state[i] = "Leader" /\ UNCHANGED <<state, current_term, committed_index>>
          /\ log' = [log EXCEPT ![i] = l]
      BY <1>6 DEF ClientRequest, roleVars, termVars
    <2>2. PICK j \in Peers(i) : r = AppendEntriesArgs(i, j, e.index, l, committed_index[i])
      BY <1>6 DEF ClientRequest, Send
    <2>3. e.index = Len(log[i])
      BY DEF LastIndices
    <2>4. Len(l) = Len(log[i]) + 1
      <3>1. e \in Entry
        <4>1. Len(log[i]) \in Nat /\ current_term[i] \in Nat
          BY <1>1, <1>2 DEF TypeOK
        <4> QED BY <2>3, <4>1 DEF Entry
      <3> HIDE DEF e
      <3> QED BY <1>1, <3>1, AppendProperties DEF TypeOK
    <2> HIDE DEF e, l
    <2>5. log'[i] = l
      BY <1>1, <2>1 DEF TypeOK
    <2>6. e.index \in 1 .. Len(log'[i])
      BY <1>2, <2>3, <2>4, <2>5
    <2> QED BY <2>1, <2>2, <2>5, <2>6 DEF SentByLeader
  <1>7. ASSUME NEW m \in msgs, WinElection(m)
        PROVE  SentByLeader(r)
    <2> DEFINE i == m.to
    <2>1. i \in Node
      BY <1>1, MessageFields DEF TypeOK
    <2>2. /\ state' = [state EXCEPT ![i] = "Leader"]
          /\ UNCHANGED <<log, current_term, committed_index>>
      BY <1>7 DEF WinElection, logVars
    <2>3. PICK j \in Peers(i) :
             r = AppendEntriesArgs(i, j, Len(log[i]), log[i], committed_index[i])
      BY <1>7 DEF WinElection, Reply
    <2>4. Len(log[i]) \in 1 .. Len(log[i]) /\ state'[i] = "Leader"
      BY <1>1, <1>2, <2>1, <2>2 DEF TypeOK
    <2> QED BY <2>1, <2>2, <2>3, <2>4 DEF SentByLeader
  <1>8. ASSUME NEW m \in msgs, EntriesRejected(m)
        PROVE  SentByLeader(r)
    <2> DEFINE i == m.to
               j == m.from
               next == RetryIndex(next_indices[i][j], m.match_index)
    <2>1. i \in Node /\ j \in Node /\ m.match_index \in Nat
      BY <1>1, <1>8, MessageFields DEF TypeOK, EntriesRejected, ReplyInTerm, AppendReplyMsg
    <2>2. /\ state[i] = "Leader" /\ UNCHANGED <<log, state, current_term, committed_index>>
          /\ j # i
      BY <1>8 DEF EntriesRejected, ReplyInTerm, termVars, logVars, LeaderInv, RoleInv
    <2>3. r = AppendEntriesArgs(i, j, next, log[i], committed_index[i])
      BY <1>8 DEF EntriesRejected, Reply
    <2>4. next \in 1 .. Len(log[i])
      <3>1. next_indices[i][j] \in 1 .. Len(log[i])
        BY <2>1, <2>2 DEF NextIndexInLog
      <3>2. Len(log[i]) \in Nat
        BY <1>2, <2>1
      <3> QED BY <2>1, <3>1, <3>2 DEF RetryIndex, Larger
    <2> HIDE DEF next
    <2> QED BY <2>1, <2>2, <2>3, <2>4 DEF SentByLeader, Peers
  <1>9. ASSUME NEW m \in msgs,
               \/ RejectStaleVote(m) \/ GrantVote(m) \/ DenyVote(m) \/ NewerTermReply(m)
               \/ RecordVote(m) \/ RejectStaleEntries(m) \/ RejectUnmatchedEntries(m)
               \/ AcceptEntries(m) \/ EntriesReplicated(m) \/ IgnoreReply(m) \/ Drop(m)
        PROVE  FALSE
    BY <1>9
    DEF RejectStaleVote, GrantVote, DenyVote, NewerTermReply, RecordVote, RejectStaleEntries,
        RejectUnmatchedEntries, AcceptEntries, EntriesReplicated, IgnoreReply, Drop, Reply,
        VoteReply, AppendReply, AcceptReply
  <1> QED BY <1>3, <1>4, <1>5, <1>6, <1>7, <1>8, <1>9 DEF Next, Receive

\* Replies to entries are sent to whoever the entries came from.
LEMMA RepliesSent ==
    ASSUME LeaderInv, [Next]_vars, NEW r \in msgs', r.kind = "AppendReply", r \notin msgs
    PROVE  \E m \in msgs : /\ m.kind = "AppendEntries" /\ r.from = m.to /\ r.to = m.from
                           /\ r.success => AcceptEntries(m) /\ r = AcceptReply(m)
  <1>1. CASE UNCHANGED vars
    BY <1>1 DEF vars
  <1>2. ASSUME NEW i \in Node,
               ElectionTimeout(i) \/ HeartbeatTimeout(i) \/ \E c \in Command : ClientRequest(i, c)
        PROVE  FALSE
    <2>1. CASE ElectionTimeout(i)
      BY <2>1 DEF ElectionTimeout, Send
    <2>2. CASE HeartbeatTimeout(i)
      BY <2>2, EntriesFields DEF HeartbeatTimeout, Send
    <2>3. CASE \E c \in Command : ClientRequest(i, c)
      BY <2>3, EntriesFields DEF ClientRequest, Send
    <2> QED BY <1>2, <2>1, <2>2, <2>3
  <1>3. ASSUME NEW m \in msgs, WinElection(m)
        PROVE  FALSE
    BY <1>3, EntriesFields DEF WinElection, Reply
  <1>4. ASSUME NEW m \in msgs,
               \/ RejectStaleVote(m) \/ GrantVote(m) \/ DenyVote(m) \/ NewerTermReply(m)
               \/ RecordVote(m) \/ EntriesReplicated(m) \/ EntriesRejected(m)
               \/ IgnoreReply(m) \/ Drop(m)
        PROVE  FALSE
    BY <1>4, EntriesFields
    DEF RejectStaleVote, GrantVote, DenyVote, NewerTermReply, RecordVote, EntriesReplicated,
        EntriesRejected, IgnoreReply, Drop, Reply, VoteReply
  <1>5. ASSUME NEW m \in msgs, RejectStaleEntries(m) \/ RejectUnmatchedEntries(m)
        PROVE  m.kind = "AppendEntries" /\ r.from = m.to /\ r.to = m.from /\ ~r.success
    BY <1>5 DEF RejectStaleEntries, RejectUnmatchedEntries, Reply, AppendReply
  <1>6. ASSUME NEW m \in msgs, AcceptEntries(m)
        PROVE  m.kind = "AppendEntries" /\ r.from = m.to /\ r.to = m.from /\ r = AcceptReply(m)
    <2>1. m.kind = "AppendEntries" /\ Reply(m, {AcceptReply(m)})
      BY <1>6 DEF AcceptEntries
    <2>2. r = AcceptReply(m)
      BY <2>1 DEF Reply
    <2> QED BY <2>1, <2>2 DEF AcceptReply, AppendReply
  <1> QED BY <1>1, <1>2, <1>3, <1>4, <1>5, <1>6 DEF Next, Receive

LEMMA RoleNext ==
    ASSUME LeaderInv, LastIndices, NextIndexInLog, [Next]_vars
    PROVE  RoleInv'
  <1>1. TypeOK
    BY DEF LeaderInv, TypeInv
  <1>2. RoleChanges
    BY RolesChange
  <1>3. TypeOK'
    BY TypeStep DEF LeaderInv, TypeInv
  <1>4. \A j \in Node : current_term[j] \in Nat /\ current_term'[j] \in Nat
    BY <1>1, <1>3 DEF TypeOK
  <1>5. ASSUME NEW i \in Node, NEW t \in Nat, Elected(t, i)'
        PROVE  t <= current_term'[i] /\ (t = current_term'[i] => state'[i] = "Leader")
    <2>1. CASE Elected(t, i)
      <3>1. t <= current_term[i] /\ (t = current_term[i] => state[i] = "Leader")
        BY <2>1 DEF LeaderInv, RoleInv
      <3>2. /\ current_term'[i] >= current_term[i]
            /\ state[i] = "Leader" /\ current_term'[i] = current_term[i] => state'[i] = "Leader"
        BY <1>2 DEF RoleChanges
      <3> QED BY <1>4, <3>1, <3>2
    <2>2. CASE ~Elected(t, i)
      <3>1. t = current_term'[i] /\ state'[i] = "Leader"
        BY <1>2, <1>5, <2>2 DEF RoleChanges
      <3> QED BY <1>4, <3>1
    <2> QED BY <2>1, <2>2
  <1>6. ASSUME NEW i \in Node, state'[i] # "Follower"
        PROVE  current_term'[i] >= 1
    <2>1. CASE state'[i] = "Leader"
      <3>1. current_term'[i] = current_term[i] /\ state[i] # "Follower"
        BY <1>2, <2>1 DEF RoleChanges
      <3> QED BY <3>1 DEF LeaderInv, RoleInv
    <2>2. CASE state'[i] = "Candidate"
      <3>1. CASE ElectionTimeout(i)
        <4>1. current_term'[i] = current_term[i] + 1
          BY <1>1, <3>1 DEF ElectionTimeout, TypeOK
        <4> QED BY <1>4, <4>1
      <3>2. CASE state[i] = "Candidate" /\ current_term'[i] = current_term[i]
        BY <3>2 DEF LeaderInv, RoleInv
      <3> QED BY <1>2, <2>2, <3>1, <3>2 DEF RoleChanges
    <2> QED BY <1>3, <1>6, <2>1, <2>2 DEF TypeOK
  <1>7. ASSUME NEW r \in msgs', r.kind \in {"AppendEntries", "AppendReply"}
        PROVE  r.from # r.to
    <2>1. CASE r \in msgs
      BY <1>7, <2>1 DEF LeaderInv, RoleInv
    <2>2. CASE r \notin msgs /\ r.kind = "AppendEntries"
      BY <2>2, EntriesSent DEF SentByLeader, AppendEntriesArgs, Peers
    <2>3. CASE r \notin msgs /\ r.kind = "AppendReply"
      BY <2>3, RepliesSent DEF LeaderInv, RoleInv
    <2> QED BY <1>7, <2>1, <2>2, <2>3
  <1> QED BY <1>5, <1>6, <1>7 DEF RoleInv, Elected

-----------------------------------------------------------------------------
(* The tree of logs *)

\* What the logs have been so far: T holds every log a node had or has, each
\* message's entries stand on one of them, and the log of a term's leader is the
\* longest that ends in the term.
LogTree(T) ==
    /\ Tree(T)
    /\ \A i \in Node : log[i] \in T /\ Last(log[i]).term <= current_term[i]
    /\ \A i \in Node : state[i] = "Leader" =>
          \A b \in T : Last(b).term = current_term[i] => Below(b, log[i])
    /\ \A b \in T : Last(b).term = 0 \/ \E k \in Node : Elected(Last(b).term, k)
    /\ \A m \in msgs : m.kind = "AppendEntries" => \E l \in T : Stands(T, l, m)

LEMMA LogsChange ==
    ASSUME [Next]_vars
    PROVE  \/ log' = log
           \/ \E m \in msgs : AcceptEntries(m)
           \/ \E i \in Node, c \in Command : ClientRequest(i, c)
  <1>1. CASE UNCHANGED vars
    BY <1>1 DEF vars, logVars
  <1>2. CASE \E i \in Node : ElectionTimeout(i) \/ HeartbeatTimeout(i)
    BY <1>2 DEF ElectionTimeout, HeartbeatTimeout, logVars
  <1>3. ASSUME NEW m \in msgs, Receive(m) \/ Drop(m), ~AcceptEntries(m)
        PROVE  log' = log
    BY <1>3
    DEF Receive, RejectStaleVote, GrantVote, DenyVote, NewerTermReply, RecordVote, WinElection,
        RejectStaleEntries, RejectUnmatchedEntries, EntriesReplicated, EntriesRejected,
        IgnoreReply, Drop, logVars
  <1> QED BY <1>1, <1>2, <1>3 DEF Next

LEMMA TreeIndices ==
    ASSUME NEW T, LogTree(T)
    PROVE  LastIndices
  <1> SUFFICES ASSUME NEW i \in Node PROVE Last(log[i]).index + 1 = Len(log[i])
    BY DEF LastIndices
  <1>1. Tree(T) /\ log[i] \in T
    BY DEF LogTree
  <1>2. Len(log[i]) \in Nat \ {0} /\ \A q \in 1 .. Len(log[i]) : log[i][q].index = q - 1
    BY <1>1, TreeFacts
  <1> QED BY <1>2 DEF Last

\* Who leads the term of an election held before the step led it before the step.
LEMMA LedBefore ==
    ASSUME LeaderInv, RoleChanges, TypeOK', NEW i \in Node, NEW t \in Nat, Elected(t, i),
           state'[i] = "Leader", current_term'[i] = t
    PROVE  state[i] = "Leader" /\ current_term[i] = t
  <1>1. current_term'[i] = current_term[i]
    BY DEF RoleChanges
  <1> QED BY <1>1 DEF LeaderInv, RoleInv

LEMMA OneLeaderPrimed ==
    ASSUME LeaderInv', NEW t, NEW i, NEW j, Elected(t, i)', Elected(t, j)'
    PROVE  i = j
  <1>1. (TypeOK /\ BallotInv)'
    BY DEF LeaderInv, TypeInv
  <1>2. ElectionSafety'
    BY <1>1, BallotsGiveSafety, PTL
  <1> QED BY <1>2 DEF ElectionSafety, Elected

\* A node that wins an election wins the first of its term, and no log yet ends in it.
LEMMA NothingInNewTerm ==
    ASSUME LeaderInv, LeaderInv', RoleChanges, NEW T, LogTree(T), NEW i \in Node,
           state'[i] = "Leader", state[i] # "Leader", NEW b \in T
    PROVE  Last(b).term # current_term[i]
  <1>1. /\ current_term'[i] = current_term[i] /\ state[i] # "Follower"
        /\ elected \subseteq elected'
    BY DEF RoleChanges
  <1>2. current_term[i] >= 1 /\ current_term[i] \in Nat
    BY <1>1 DEF LeaderInv, RoleInv, TypeInv, TypeOK
  <1>3. ~Elected(current_term[i], i)
    BY <1>2 DEF LeaderInv, RoleInv
  <1>4. Elected(current_term[i], i)'
    BY <1>1, NodeAssumption DEF LeaderInv, HintInv, LeaderHintSound, Elected
  <1> SUFFICES ASSUME Last(b).term = current_term[i] PROVE FALSE
    OBVIOUS
  <1>5. PICK k \in Node : Elected(current_term[i], k)
    BY <1>2 DEF LogTree
  <1>6. Elected(current_term[i], k)'
    BY <1>1, <1>5 DEF Elected
  <1>7. k = i
    BY <1>4, <1>6, OneLeaderPrimed
  <1> QED BY <1>3, <1>5, <1>7

\* What is sent in a step stands on the log its sender has after it.
LEMMA SentStands ==
    ASSUME LeaderInv', NEW U, Tree(U), \A i \in Node : log'[i] \in U,
           \A i \in Node : Last(log'[i]).term <= current_term'[i],
           \A i \in Node : state'[i] = "Leader" =>
              \A b \in U : Last(b).term = current_term'[i] => Below(b, log'[i]),
           NEW m, SentByLeader(m)
    PROVE  \E l \in U : Stands(U, l, m)'
  <1>1. PICK i \in Node : \E j \in Peers(i) : \E next \in 1 .. Len(log'[i]) :
           /\ state'[i] = "Leader" /\ current_term'[i] = current_term[i]
           /\ m = AppendEntriesArgs(i, j, next, log'[i], committed_index[i])
    BY DEF SentByLeader
  <1>2. PICK l : l = log'[i]
    OBVIOUS
  <1>3. /\ l \in U /\ Last(l).term <= current_term[i]
        /\ \E j \in Peers(i) : \E next \in 1 .. Len(l) :
              m = AppendEntriesArgs(i, j, next, l, committed_index[i])
    BY <1>1, <1>2
  <1>4. m.from = i /\ m.term = current_term'[i]
    BY <1>1, EntriesFields
  <1>5. Backs(l, m)
    BY <1>3, ArgsBack
  <1>6. \A b \in U : Last(b).term = m.term => Below(b, l)
    BY <1>1, <1>2, <1>4
  <1>7. Below(l, l)
    BY <1>3, TreeFacts DEF Below
  <1>8. Stands(U, l, m)'
    BY <1>2, <1>4, <1>5, <1>6, <1>7 DEF Stands
  <1> QED BY <1>3, <1>8

\* The part of LogTree about messages that were already there, when logs only get
\* longer or are not their leader's, and what the tree gains fits.
LEMMA OldStands ==
    ASSUME LeaderInv, LeaderInv', RoleChanges, NEW T, LogTree(T), NEW U,
           \A i \in Node : state[i] = "Leader" /\ state'[i] = "Leader" => Below(log[i], log'[i]),
           log' \in [Node -> Seq(Entry) \ {<<>>}],
           NEW m \in msgs, m.kind = "AppendEntries", NEW l \in T, Stands(T, l, m),
           \A b \in U : b \in T \/ (Last(b).term = m.term => Below(l, b))
    PROVE  Stands(U, l, m)'
  <1>1. m.from \in Node /\ m.term \in Nat /\ Elected(m.term, m.from)
    BY MessageFields DEF LeaderInv, HintInv, EntriesFromElected, TypeInv, TypeOK
  <1>2. \A b \in U : Last(b).term = m.term => Below(b, l) \/ Below(l, b)
    BY DEF Stands
  <1>3. ASSUME state'[m.from] = "Leader", current_term'[m.from] = m.term
        PROVE  Below(l, log'[m.from])
    <2>1. state[m.from] = "Leader" /\ current_term[m.from] = m.term
      BY <1>1, <1>3, LedBefore DEF LeaderInv, TypeInv
    <2>2. Below(l, log[m.from]) /\ Below(log[m.from], log'[m.from])
      BY <1>1, <1>3, <2>1 DEF Stands
    <2>3. l \in Seq(Entry) /\ log[m.from] \in Seq(Entry) /\ log'[m.from] \in Seq(Entry)
      BY <1>1 DEF LogTree, Tree
    <2> QED BY <2>2, <2>3, BelowTransitive
  <1> QED BY <1>2, <1>3 DEF Stands

\* A step after which every log was in the tree before.
LEMMA TreeKept ==
    ASSUME LeaderInv, LeaderInv', LastIndices, NextIndexInLog, [Next]_vars, NEW T, LogTree(T),
           \A i \in Node : log'[i] \in T /\ Last(log'[i]).term <= current_term'[i],
           \A i \in Node : state'[i] = "Leader" => log'[i] = log[i]
    PROVE  LogTree(T)'
  <1>1. RoleChanges
    BY RolesChange
  <1>2. \A i \in Node : state'[i] = "Leader" =>
           \A b \in T : Last(b).term = current_term'[i] => Below(b, log'[i])
    <2> SUFFICES ASSUME NEW i \in Node, state'[i] = "Leader",
                        NEW b \in T, Last(b).term = current_term'[i]
                 PROVE  Below(b, log[i])
      OBVIOUS
    <2>1. current_term'[i] = current_term[i]
      BY <1>1 DEF RoleChanges
    <2>2. state[i] = "Leader"
      BY <1>1, <2>1, NothingInNewTerm
    <2> QED BY <2>1, <2>2 DEF LogTree
  <1>3. \A b \in T : Last(b).term = 0 \/ \E k \in Node : Elected(Last(b).term, k)'
    BY <1>1 DEF LogTree, RoleChanges, Elected
  <1>4. ASSUME NEW m \in msgs', m.kind = "AppendEntries"
        PROVE  \E l \in T : Stands(T, l, m)'
    <2>1. CASE m \in msgs
      <3>1. PICK l \in T : Stands(T, l, m)
        BY <1>4, <2>1 DEF LogTree
      <3>2. log' \in [Node -> Seq(Entry) \ {<<>>}]
        BY DEF LeaderInv, TypeInv, TypeOK
      <3>3. \A i \in Node : state'[i] = "Leader" => Below(log[i], log'[i])
        <4> SUFFICES ASSUME NEW i \in Node PROVE Below(log[i], log[i])
          OBVIOUS
        <4>1. log[i] \in Seq(Entry)
          BY DEF LeaderInv, TypeInv, TypeOK
        <4>2. Len(log[i]) \in Nat
          BY <4>1, LenProperties
        <4> QED BY <4>2 DEF Below
      <3> QED BY <1>1, <1>4, <2>1, <3>1, <3>2, <3>3, OldStands
    <2>2. CASE m \notin msgs
      <3>1. SentByLeader(m)
        BY <1>4, <2>2, EntriesSent
      <3> QED BY <1>2, <3>1, SentStands DEF LogTree
    <2> QED BY <2>1, <2>2
  <1>5. Tree(T)
    BY DEF LogTree
  <1> QED BY <1>2, <1>3, <1>4, <1>5 DEF LogTree, Elected

\* A node that accepts entries has its sender's log, or a longer one that starts
\* with it.
LEMMA Accepted ==
    ASSUME LeaderInv, NEW T, LogTree(T), NEW m \in msgs, AcceptEntries(m)
    PROVE  /\ m \in AppendEntriesMsg /\ m.to \in Node
           /\ current_term[m.to] <= m.term /\ current_term'[m.to] = m.term
           /\ state'[m.to] = "Follower"
           /\ \A i \in Node \ {m.to} : log'[i] = log[i]
           /\ \E l \in T :
                /\ Stands(T, l, m) /\ Below(l, log'[m.to])
                /\ \/ log'[m.to] = log[m.to]
                   \/ log'[m.to] = l /\ ~Below(l, log[m.to])
  <1> DEFINE i == m.to
  <1>1. TypeOK
    BY DEF LeaderInv, TypeInv
  <1>2. m \in AppendEntriesMsg /\ i \in Node /\ m.term \in Nat /\ current_term[i] \in Nat
    BY <1>1, MessageFields DEF TypeOK, AcceptEntries
  <1>3. /\ m.kind = "AppendEntries" /\ m.term >= current_term[i]
        /\ HasMatchingPrevEntry(log[i], m.prev_log_index, m.prev_log_term)
        /\ current_term' = [current_term EXCEPT ![i] = m.term]
        /\ state' = [state EXCEPT ![i] = "Follower"]
        /\ log' = [log EXCEPT ![i] = Merged(log[i], m.entries)]
    BY DEF AcceptEntries, RecognizeLeader, BecomeFollower
  <1>4. /\ current_term[i] <= m.term /\ current_term'[i] = m.term
        /\ state'[i] = "Follower" /\ log'[i] = Merged(log[i], m.entries)
        /\ \A j \in Node \ {i} : log'[j] = log[j]
    BY <1>1, <1>2, <1>3 DEF TypeOK
  <1>5. PICK l \in T : Stands(T, l, m)
    BY <1>3 DEF LogTree
  <1>6. Tree(T) /\ log[i] \in T /\ Backs(l, m)
    BY <1>2, <1>5 DEF LogTree, Stands
  <1>7. \/ log'[i] = log[i] /\ Below(l, log[i])
        \/ log'[i] = l /\ ~Below(l, log[i])
    BY <1>2, <1>3, <1>4, <1>6, MergeCases
  <1>8. Below(l, l)
    BY <1>6, TreeFacts DEF Below
  <1> QED BY <1>2, <1>4, <1>5, <1>7, <1>8

LEMMA TreeAccept ==
    ASSUME LeaderInv, LeaderInv', NextIndexInLog, [Next]_vars, NEW T, LogTree(T),
           NEW m \in msgs, AcceptEntries(m)
    PROVE  LogTree(T)'
  <1> DEFINE i == m.to
  <1>1. /\ m \in AppendEntriesMsg /\ i \in Node
        /\ current_term[i] <= m.term /\ current_term'[i] = m.term
        /\ state'[i] = "Follower"
        /\ \A j \in Node \ {i} : log'[j] = log[j]
    BY Accepted
  <1>2. PICK l \in T : Stands(T, l, m) /\ (log'[i] = log[i] \/ log'[i] = l)
    BY Accepted
  <1>3. m.term \in Nat /\ \A j \in Node : current_term[j] \in Nat /\ current_term'[j] \in Nat
    BY <1>1 DEF LeaderInv, TypeInv, TypeOK, AppendEntriesMsg
  <1>4. \A b \in T : Last(b).term \in Nat
    <2> SUFFICES ASSUME NEW b \in T PROVE Last(b).term \in Nat
      OBVIOUS
    <2>1. Tree(T)
      BY DEF LogTree
    <2> QED BY <2>1, TreeFacts DEF Last
  <1>5. ASSUME NEW j \in Node
        PROVE  log'[j] \in T /\ Last(log'[j]).term <= current_term'[j]
    <2>1. log[j] \in T /\ Last(log[j]).term <= current_term[j]
      BY DEF LogTree
    <2>2. current_term'[j] >= current_term[j]
      BY RolesChange DEF RoleChanges
    <2>3. CASE j # i \/ log'[i] = log[i]
      <3>1. log'[j] = log[j]
        BY <1>1, <2>3
      <3> QED BY <1>3, <1>4, <2>1, <2>2, <3>1
    <2>4. CASE j = i /\ log'[i] = l
      <3>1. Last(l).term <= m.term
        BY <1>2 DEF Stands, Backs
      <3> QED BY <1>1, <2>4, <3>1
    <2> QED BY <1>2, <2>3, <2>4
  <1>6. \A j \in Node : state'[j] = "Leader" => log'[j] = log[j]
    BY <1>1
  <1> QED BY <1>5, <1>6, TreeIndices, TreeKept

LEMMA TreeClient ==
    ASSUME LeaderInv, LeaderInv', NextIndexInLog, [Next]_vars, NEW T, LogTree(T),
           NEW i \in Node, NEW c \in Command, ClientRequest(i, c),
           NEW U, U = T \cup {log'[i]}
    PROVE  LogTree(U)'
  <1> DEFINE e == [term |-> current_term[i], index |-> Last(log[i]).index + 1, command |-> c]
  <1>1. PICK n : n = Append(log[i], e)
    OBVIOUS
  <1>2. /\ state[i] = "Leader" /\ UNCHANGED <<state, current_term>>
        /\ log' = [log EXCEPT ![i] = n]
    BY <1>1 DEF ClientRequest, roleVars, termVars
  <1>3. TypeOK /\ TypeOK' /\ Tree(T) /\ log[i] \in T
    BY DEF LeaderInv, TypeInv, LogTree
  <1>4. log'[i] = n /\ \A j \in Node \ {i} : log'[j] = log[j]
    BY <1>2, <1>3 DEF TypeOK
  <1>5. e.index = Len(log[i]) /\ e.term = current_term[i] /\ e \in Entry
    <2>1. Last(log[i]).index + 1 = Len(log[i])
      BY TreeIndices DEF LastIndices
    <2>2. Len(log[i]) \in Nat /\ current_term[i] \in Nat
      BY <1>3, TreeFacts DEF TypeOK
    <2> QED BY <2>1, <2>2 DEF Entry
  <1> HIDE DEF e
  <1>6. /\ log[i] \in Seq(Entry) /\ Below(log[i], n) /\ Last(n) = e
    BY <1>1, <1>3, <1>5, Appended DEF TypeOK
  <1>7. Tree(U)
    <2>1. e.term >= Last(log[i]).term
      <3>1. Last(log[i]).term <= current_term[i] /\ current_term[i] \in Nat
        BY <1>3 DEF LogTree, TypeOK
      <3>2. Last(log[i]).term \in Nat
        BY <1>3, TreeFacts DEF Last
      <3> QED BY <1>5, <3>1, <3>2
    <2>2. \A b \in T : Last(b).term = e.term => Below(b, log[i])
      BY <1>2, <1>5 DEF LogTree
    <2>3. Tree(T \cup {n})
      BY <1>1, <1>3, <1>5, <2>1, <2>2, TreeGrows
    <2> QED BY <1>4, <2>3
  <1>8. RoleChanges /\ LastIndices
    BY RolesChange, TreeIndices
  <1>9. \A j \in Node : log'[j] \in U
    BY <1>4 DEF LogTree
  <1>10. \A j \in Node : Last(log'[j]).term <= current_term'[j]
    <2> SUFFICES ASSUME NEW j \in Node PROVE Last(log'[j]).term <= current_term[j]
      BY <1>2
    <2>1. CASE j = i
      <3>1. current_term[i] \in Nat /\ Last(log'[j]).term = current_term[i]
        BY <1>3, <1>4, <1>5, <1>6, <2>1 DEF TypeOK
      <3> QED BY <2>1, <3>1
    <2>2. CASE j # i
      BY <1>4, <2>2 DEF LogTree
    <2> QED BY <2>1, <2>2
  <1>11. \A j \in Node : Below(log[j], log'[j])
    <2> SUFFICES ASSUME NEW j \in Node PROVE Below(log[j], log'[j])
      OBVIOUS
    <2>1. log[j] \in T
      BY DEF LogTree
    <2>2. Below(log[j], log[j])
      BY <1>3, <2>1, TreeFacts DEF Below
    <2> QED BY <1>4, <1>6, <2>2
  <1>12. Elected(current_term[i], i)
    BY <1>2, LeaderIsElected DEF LeaderInv
  <1>13. \A j \in Node : state'[j] = "Leader" =>
            \A b \in U : Last(b).term = current_term'[j] => Below(b, log'[j])
    <2> SUFFICES ASSUME NEW j \in Node, state[j] = "Leader",
                        NEW b \in U, Last(b).term = current_term[j]
                 PROVE  Below(b, log'[j])
      BY <1>2
    <2>1. CASE b \in T
      <3>1. Below(b, log[j]) /\ Below(log[j], log'[j])
        BY <1>11, <2>1 DEF LogTree
      <3>2. b \in Seq(Entry) /\ log[j] \in Seq(Entry) /\ log'[j] \in Seq(Entry)
        BY <1>3, <2>1 DEF Tree, TypeOK
      <3> QED BY <3>1, <3>2, BelowTransitive
    <2>2. CASE b = n
      <3>1. current_term[j] = current_term[i]
        BY <1>5, <1>6, <2>2
      <3>2. Elected(current_term[j], j)
        BY LeaderIsElected DEF LeaderInv
      <3>3. j = i
        BY <1>12, <3>1, <3>2, OneLeader
      <3>4. n \in U
        BY <1>4
      <3>5. Below(n, n)
        BY <1>7, <3>4, TreeFacts DEF Below
      <3> QED BY <1>4, <2>2, <3>3, <3>5
    <2> QED BY <1>4, <2>1, <2>2
  <1>14. \A b \in U : Last(b).term = 0 \/ \E k \in Node : Elected(Last(b).term, k)'
    <2>1. elected \subseteq elected'
      BY <1>8 DEF RoleChanges
    <2>2. \A b \in T : Last(b).term = 0 \/ \E k \in Node : Elected(Last(b).term, k)'
      BY <2>1 DEF LogTree, Elected
    <2>3. Elected(Last(n).term, i)'
      BY <1>5, <1>6, <1>12, <2>1 DEF Elected
    <2> QED BY <1>4, <2>2, <2>3
  <1>15. ASSUME NEW m \in msgs', m.kind = "AppendEntries"
         PROVE  \E l \in U : Stands(U, l, m)'
    <2>1. CASE m \in msgs
      <3>1. PICK l \in T : Stands(T, l, m)
        BY <1>15, <2>1 DEF LogTree
      <3>2. Last(n).term = m.term => Below(l, n)
        <4> SUFFICES ASSUME m.term = current_term[i] PROVE Below(l, n)
          BY <1>5, <1>6
        <4>1. Elected(m.term, m.from)
          BY <1>15, <2>1 DEF LeaderInv, HintInv, EntriesFromElected
        <4>2. m.from = i
          BY <1>12, <4>1, OneLeader
        <4>3. Below(l, log[i])
          BY <1>2, <3>1, <4>2 DEF Stands
        <4>4. l \in Seq(Entry) /\ n \in Seq(Entry)
          BY <1>1, <1>3, <1>5, <1>6, Appended DEF Tree
        <4> QED BY <1>6, <4>3, <4>4, BelowTransitive
      <3>3. \A b \in U : b \in T \/ (Last(b).term = m.term => Below(l, b))
        BY <1>4, <3>2
      <3>4. log' \in [Node -> Seq(Entry) \ {<<>>}]
        BY <1>3 DEF TypeOK
      <3>5. Stands(U, l, m)'
        BY <1>8, <1>11, <1>15, <2>1, <3>1, <3>3, <3>4, OldStands
      <3> QED BY <3>5
    <2>2. CASE m \notin msgs
      <3>1. SentByLeader(m)
        BY <1>8, <1>15, <2>2, EntriesSent
      <3> QED BY <1>7, <1>9, <1>10, <1>13, <3>1, SentStands
    <2> QED BY <2>1, <2>2
  <1> QED BY <1>7, <1>9, <1>10, <1>13, <1>14, <1>15 DEF LogTree, Elected

\* Each step leaves a tree that holds the one before and every log.
LEMMA TreeNext ==
    ASSUME LeaderInv, LeaderInv', NextIndexInLog, [Next]_vars, NEW T, LogTree(T),
           NEW U, U = T \cup {log'[i] : i \in Node}
    PROVE  LogTree(U)'
  <1>1. CASE log' = log
    <2>1. \A i \in Node : log'[i] \in T
      BY <1>1 DEF LogTree
    <2>2. \A i \in Node : Last(log'[i]).term <= current_term'[i]
      <3> SUFFICES ASSUME NEW i \in Node PROVE Last(log[i]).term <= current_term'[i]
        BY <1>1
      <3>1. Last(log[i]).term <= current_term[i] /\ current_term'[i] >= current_term[i]
        BY RolesChange DEF LogTree, RoleChanges
      <3>2. Tree(T) /\ log[i] \in T
        BY DEF LogTree
      <3>3. Last(log[i]).term \in Nat
        BY <3>2, TreeFacts DEF Last
      <3>4. current_term[i] \in Nat /\ current_term'[i] \in Nat
        BY DEF LeaderInv, TypeInv, TypeOK
      <3> QED BY <3>1, <3>3, <3>4
    <2>3. U = T
      BY <2>1
    <2> QED BY <1>1, <2>1, <2>2, <2>3, TreeIndices, TreeKept
  <1>2. ASSUME NEW m \in msgs, AcceptEntries(m)
        PROVE  LogTree(U)'
    <2>1. LogTree(T)'
      BY <1>2, TreeAccept
    <2>2. U = T
      BY <2>1 DEF LogTree
    <2> QED BY <2>1, <2>2
  <1>3. ASSUME NEW i \in Node, NEW c \in Command, ClientRequest(i, c)
        PROVE  LogTree(U)'
    <2>1. \A j \in Node : j = i \/ log'[j] \in T
      BY <1>3 DEF ClientRequest, LogTree, LeaderInv, TypeInv, TypeOK
    <2>2. U = T \cup {log'[i]}
      BY <2>1
    <2> QED BY <1>3, <2>2, TreeClient
  <1> QED BY <1>1, <1>2, <1>3, LogsChange

LEMMA TreeInit == Init => LogTree({<<Sentinel>>})
  <1> SUFFICES ASSUME Init PROVE LogTree({<<Sentinel>>})
    OBVIOUS
  <1> DEFINE s == <<Sentinel>>
  <1>1. Sentinel \in Entry /\ Sentinel.term = 0 /\ Sentinel.index = 0
    BY DEF Sentinel, Entry
  <1>2. s \in Seq(Entry) \ {<<>>} /\ Len(s) = 1 /\ s[1] = Sentinel /\ Last(s) = Sentinel
    BY <1>1 DEF Last
  <1>3. \A q \in 1 .. Len(s) : q = 1
    BY <1>2
  <1>4. Prefix(s, 1) = s
    BY <1>1, <1>2, SubSeqFull DEF Prefix
  <1> HIDE DEF s
  <1>5. Below(s, s)
    BY <1>2 DEF Below
  <1>6. Tree({s})
    <2>1. \A n \in 1 .. Len(s) : Prefix(s, n) \in {s}
      BY <1>3, <1>4
    <2>2. \A q \in 1 .. Len(s) : s[q].index = q - 1 /\ s[q].term <= Last(s).term
      BY <1>1, <1>2, <1>3
    <2> HIDE DEF Prefix
    <2> QED BY <1>2, <1>5, <2>1, <2>2 DEF Tree
  <1>7. /\ \A i \in Node : log[i] = s /\ current_term[i] = 0 /\ state[i] = "Follower"
        /\ msgs = {}
    BY DEF Init, s
  <1>8. LogTree({s})
    BY <1>1, <1>2, <1>6, <1>7 DEF LogTree
  <1> QED BY <1>8 DEF s

-----------------------------------------------------------------------------
(* What a leader knows of its followers *)

\* The follower j of leader i's term has i's log up to index x.
Holds(i, j, x) ==
    /\ x < Len(log[i])
    /\ current_term[j] = current_term[i] =>
          x < Len(log[j]) /\ \A q \in 1 .. x + 1 : log[j][q] = log[i][q]

\* While its receiver leads the term, a positive reply tells the truth.
RepliesHold ==
    \A m \in msgs : m.kind = "AppendReply" /\ m.success =>
        /\ Elected(m.term, m.to) /\ m.term <= current_term[m.from]
        /\ state[m.to] = "Leader" /\ current_term[m.to] = m.term =>
              Holds(m.to, m.from, m.match_index)

MatchesHold ==
    \A i, j \in Node : state[i] = "Leader" /\ i # j =>
        /\ match_indices[i][j] = 0 \/ current_term[j] >= current_term[i]
        /\ Holds(i, j, match_indices[i][j])

IndexInv == RepliesHold /\ MatchesHold /\ NextIndexInLog

LEMMA LastNew ==
    ASSUME NEW T, Tree(T), NEW l \in T, NEW m \in AppendEntriesMsg, Backs(l, m)
    PROVE  LastNewEntryIndex(m.prev_log_index, m.entries) = Len(l) - 1
  <1>1. /\ m.prev_log_index \in Nat /\ m.entries \in Seq(Entry)
        /\ Len(m.entries) \in Nat /\ (m.entries # <<>> => Len(m.entries) # 0)
        /\ Len(<<>>) = 0
    BY EmptySeq, LenProperties DEF AppendEntriesMsg
  <1>2. /\ Len(l) \in Nat \ {0} /\ \A q \in 1 .. Len(l) : l[q].index = q - 1
        /\ Len(l) = m.prev_log_index + 1 + Len(m.entries)
        /\ \A k \in 1 .. Len(m.entries) : m.entries[k] = l[m.prev_log_index + 1 + k]
    BY TreeFacts DEF Backs
  <1>3. CASE m.entries = <<>>
    BY <1>1, <1>2, <1>3 DEF LastNewEntryIndex
  <1>4. CASE m.entries # <<>>
    <2>1. Len(m.entries) \in 1 .. Len(m.entries)
      BY <1>1, <1>4
    <2>2. Last(m.entries) = l[Len(l)]
      BY <1>1, <1>2, <2>1 DEF Last
    <2> QED BY <1>2, <1>4, <2>2 DEF LastNewEntryIndex
  <1> QED BY <1>3, <1>4

\* A leader's log only grows.
LEMMA LeaderLogGrows ==
    ASSUME LeaderInv, [Next]_vars, NEW T, LogTree(T), NEW i \in Node, state'[i] = "Leader"
    PROVE  Below(log[i], log'[i]) /\ Len(log[i]) <= Len(log'[i])
  <1>1. log[i] \in Seq(Entry) /\ Len(log[i]) \in Nat
    BY LenProperties DEF LeaderInv, TypeInv, TypeOK
  <1>2. Below(log[i], log[i])
    BY <1>1 DEF Below
  <1>3. CASE log'[i] = log[i]
    BY <1>1, <1>2, <1>3
  <1>4. CASE log'[i] # log[i]
    <2>1. ASSUME NEW m \in msgs, AcceptEntries(m)
          PROVE  FALSE
      BY <1>4, <2>1, Accepted
    <2>2. PICK k \in Node, c \in Command : ClientRequest(k, c)
      BY <1>4, <2>1, LogsChange
    <2> DEFINE e == [term |-> current_term[i], index |-> Last(log[i]).index + 1, command |-> c]
    <2>3. k = i /\ log'[i] = Append(log[i], e)
      BY <1>4, <2>2 DEF ClientRequest, LeaderInv, TypeInv, TypeOK
    <2>4. e \in Entry
      <3>1. Last(log[i]).index + 1 = Len(log[i])
        BY TreeIndices DEF LastIndices
      <3>2. current_term[i] \in Nat
        BY DEF LeaderInv, TypeInv, TypeOK
      <3> QED BY <1>1, <3>1, <3>2 DEF Entry
    <2> HIDE DEF e
    <2>5. Below(log[i], log'[i]) /\ Len(log'[i]) = Len(log[i]) + 1
      BY <1>1, <2>3, <2>4, Appended
    <2> QED BY <1>1, <2>5
  <1> QED BY <1>3, <1>4

LEMMA HoldsStep ==
    ASSUME LeaderInv, LeaderInv', NextIndexInLog, [Next]_vars, NEW T, LogTree(T),
           NEW i \in Node, NEW j \in Node, i # j, NEW x \in Nat,
           state[i] = "Leader", state'[i] = "Leader",
           Holds(i, j, x), x = 0 \/ current_term[j] >= current_term[i]
    PROVE  Holds(i, j, x)'
  <1>1. RoleChanges
    BY RolesChange
  <1>2. /\ current_term'[i] = current_term[i] /\ current_term'[j] >= current_term[j]
        /\ current_term[i] \in Nat /\ current_term[j] \in Nat /\ current_term'[j] \in Nat
    BY <1>1 DEF RoleChanges, LeaderInv, TypeInv, TypeOK
  <1>3. Below(log[i], log'[i]) /\ Len(log[i]) <= Len(log'[i])
    BY LeaderLogGrows
  <1>4. PICK U : U = T \cup {log'[k] : k \in Node}
    OBVIOUS
  <1>5. Tree(T) /\ Tree(U) /\ log[i] \in T /\ log[j] \in T /\ log'[i] \in U /\ log'[j] \in U
    BY <1>4, TreeNext DEF LogTree
  <1>6. /\ Len(log[i]) \in Nat \ {0} /\ Len(log'[i]) \in Nat \ {0}
        /\ Len(log[j]) \in Nat \ {0} /\ Len(log'[j]) \in Nat \ {0}
        /\ log'[i][1] = Sentinel /\ log'[j][1] = Sentinel
    BY <1>5, TreeFacts
  <1>7. x < Len(log'[i])
    BY <1>3, <1>6 DEF Holds
  <1>8. ASSUME current_term'[j] = current_term'[i]
        PROVE  x < Len(log'[j]) /\ \A q \in 1 .. x + 1 : log'[j][q] = log'[i][q]
    <2>1. CASE x = 0
      <3>1. \A q \in 1 .. x + 1 : q = 1
        BY <2>1
      <3> QED BY <1>6, <2>1, <3>1
    <2>2. CASE x # 0
      <3>1. current_term[j] = current_term[i]
        BY <1>2, <1>8, <2>2
      <3>2. x < Len(log[j]) /\ \A q \in 1 .. x + 1 : log[j][q] = log[i][q]
        BY <3>1 DEF Holds
      <3>3. \A q \in 1 .. x + 1 : log'[i][q] = log[i][q]
        <4>1. \A q \in 1 .. x + 1 : q \in 1 .. Len(log[i])
          BY <1>6 DEF Holds
        <4> QED BY <1>3, <4>1 DEF Below
      <3>4. CASE log'[j] = log[j]
        BY <3>2, <3>3, <3>4
      <3>5. ASSUME NEW m \in msgs, AcceptEntries(m), log'[j] # log[j]
            PROVE  x < Len(log'[j]) /\ \A q \in 1 .. x + 1 : log'[j][q] = log[i][q]
        <4>1. m.to = j /\ m.term = current_term[i]
          BY <1>2, <1>8, <3>5, Accepted
        <4>2. PICK l \in T : Stands(T, l, m) /\ log'[j] = l /\ ~Below(l, log[j])
          BY <3>5, <4>1, Accepted
        <4>3. m.from = i
          <5>1. Elected(current_term[i], i)
            BY LeaderIsElected DEF LeaderInv
          <5>2. Elected(m.term, m.from)
            BY <3>5 DEF AcceptEntries, LeaderInv, HintInv, EntriesFromElected
          <5> QED BY <4>1, <5>1, <5>2, OneLeader
        <4>4. Below(l, log[i])
          BY <4>1, <4>2, <4>3 DEF Stands
        <4>5. Len(l) \in Nat
          BY <1>5, TreeFacts
        <4>6. x + 1 < Len(l)
          <5> SUFFICES ASSUME Len(l) <= x + 1 PROVE Below(l, log[j])
            BY <4>2, <4>5
          <5>1. \A q \in 1 .. Len(l) : q \in 1 .. x + 1
            BY <4>5
          <5>2. \A q \in 1 .. Len(l) : l[q] = log[j][q]
            BY <3>2, <4>4, <5>1 DEF Below
          <5>3. Len(l) <= Len(log[j])
            BY <1>6, <3>2, <4>5
          <5> QED BY <5>2, <5>3 DEF Below
        <4>7. \A q \in 1 .. x + 1 : q \in 1 .. Len(l)
          BY <4>5, <4>6
        <4>8. \A q \in 1 .. x + 1 : l[q] = log[i][q]
          BY <4>4, <4>7 DEF Below
        <4> QED BY <4>2, <4>5, <4>6, <4>8
      <3>6. ASSUME NEW k \in Node, NEW c \in Command, ClientRequest(k, c), log'[j] # log[j]
            PROVE  FALSE
        <4>1. k = j /\ state[j] = "Leader"
          BY <3>6 DEF ClientRequest, LeaderInv, TypeInv, TypeOK
        <4>2. Elected(current_term[i], i) /\ Elected(current_term[j], j)
          BY <4>1, LeaderIsElected DEF LeaderInv
        <4> QED BY <3>1, <4>2, OneLeader
      <3> QED BY <3>3, <3>4, <3>5, <3>6, LogsChange
    <2> QED BY <2>1, <2>2
  <1> QED BY <1>7, <1>8 DEF Holds

\* Accepting entries makes the reply true.
LEMMA AcceptHolds ==
    ASSUME LeaderInv, LeaderInv', [Next]_vars, NEW T, LogTree(T), NEW m \in msgs,
           AcceptEntries(m), NEW r, r = AcceptReply(m),
           state'[r.to] = "Leader", current_term'[r.to] = r.term
    PROVE  Holds(r.to, r.from, r.match_index)'
  <1> DEFINE i == m.from
             j == m.to
  <1>1. /\ m \in AppendEntriesMsg /\ j \in Node /\ i \in Node
        /\ current_term'[j] = m.term /\ state'[j] = "Follower"
        /\ \A k \in Node \ {j} : log'[k] = log[k]
    BY Accepted DEF AppendEntriesMsg
  <1>2. PICK l \in T : Stands(T, l, m) /\ Below(l, log'[j])
    BY Accepted
  <1>3. Tree(T) /\ Backs(l, m)
    BY <1>2 DEF LogTree, Stands
  <1>4. r.to = i /\ r.from = j /\ r.term = m.term /\ r.match_index = Len(l) - 1
    BY <1>1, <1>3, LastNew DEF AcceptReply, AppendReply
  <1>5. Elected(m.term, i) /\ i # j
    BY DEF AcceptEntries, LeaderInv, HintInv, EntriesFromElected, RoleInv
  <1>6. state[i] = "Leader" /\ current_term[i] = m.term
    <2>1. RoleChanges /\ m.term \in Nat /\ TypeOK'
      BY <1>1, RolesChange DEF AppendEntriesMsg, LeaderInv, TypeInv
    <2> QED BY <1>1, <1>4, <1>5, <2>1, LedBefore
  <1>7. Below(l, log[i]) /\ log'[i] = log[i]
    BY <1>1, <1>2, <1>5, <1>6 DEF Stands
  <1>8. Len(l) \in Nat \ {0} /\ Len(log[i]) \in Nat /\ Len(log'[j]) \in Nat
    <2>1. log[i] \in Seq(Entry) /\ log'[j] \in Seq(Entry)
      BY <1>1 DEF LeaderInv, TypeInv, TypeOK
    <2> QED BY <1>3, <2>1, TreeFacts, LenProperties
  <1>9. Len(l) - 1 < Len(log[i]) /\ Len(l) - 1 < Len(log'[j]) /\ Len(l) - 1 + 1 = Len(l)
    BY <1>2, <1>7, <1>8 DEF Below
  <1>10. \A q \in 1 .. Len(l) : log'[j][q] = log'[i][q]
    BY <1>2, <1>7 DEF Below
  <1> QED BY <1>4, <1>7, <1>9, <1>10 DEF Holds

LEMMA RepliesNext ==
    ASSUME LeaderInv, LeaderInv', IndexInv, [Next]_vars, NEW T, LogTree(T)
    PROVE  RepliesHold'
  <1> SUFFICES ASSUME NEW r \in msgs', r.kind = "AppendReply", r.success
               PROVE  /\ Elected(r.term, r.to)' /\ r.term <= current_term'[r.from]
                      /\ state'[r.to] = "Leader" /\ current_term'[r.to] = r.term =>
                            Holds(r.to, r.from, r.match_index)'
    BY DEF RepliesHold
  <1>1. RoleChanges /\ elected \subseteq elected'
    BY RolesChange DEF RoleChanges
  <1>2. r \in AppendReplyMsg /\ r.to \in Node /\ r.from \in Node /\ r.term \in Nat
    BY MessageFields DEF LeaderInv, TypeInv, TypeOK
  <1>3. current_term[r.from] \in Nat /\ current_term'[r.from] \in Nat /\ TypeOK'
    BY <1>2 DEF LeaderInv, TypeInv, TypeOK
  <1>4. CASE r \in msgs
    <2>1. /\ Elected(r.term, r.to) /\ r.term <= current_term[r.from]
          /\ state[r.to] = "Leader" /\ current_term[r.to] = r.term =>
                Holds(r.to, r.from, r.match_index)
          /\ r.to # r.from
      BY <1>4 DEF IndexInv, RepliesHold, LeaderInv, RoleInv
    <2>2. Elected(r.term, r.to)'
      BY <1>1, <2>1 DEF Elected
    <2>3. r.term <= current_term'[r.from]
      BY <1>1, <1>2, <1>3, <2>1 DEF RoleChanges
    <2>4. ASSUME state'[r.to] = "Leader", current_term'[r.to] = r.term
          PROVE  Holds(r.to, r.from, r.match_index)'
      <3>1. state[r.to] = "Leader" /\ current_term[r.to] = r.term
        BY <1>1, <1>2, <1>3, <2>1, <2>4, LedBefore
      <3>2. r.match_index \in Nat
        BY <1>2 DEF AppendReplyMsg
      <3>3. current_term[r.from] >= current_term[r.to]
        BY <1>2, <1>3, <2>1, <3>1
      <3> QED BY <1>2, <2>1, <2>4, <3>1, <3>2, <3>3, HoldsStep DEF IndexInv
    <2> QED BY <2>2, <2>3, <2>4
  <1>5. CASE r \notin msgs
    <2>1. PICK m \in msgs : m.kind = "AppendEntries" /\ AcceptEntries(m) /\ r = AcceptReply(m)
      BY <1>5, RepliesSent
    <2>2. r.to = m.from /\ r.from = m.to /\ r.term = m.term
      BY <2>1 DEF AcceptReply, AppendReply
    <2>3. Elected(r.term, r.to)'
      BY <1>1, <2>1, <2>2 DEF LeaderInv, HintInv, EntriesFromElected, Elected
    <2>4. r.term <= current_term'[r.from]
      BY <1>2, <2>1, <2>2, Accepted
    <2> QED BY <2>1, <2>3, <2>4, AcceptHolds
  <1> QED BY <1>4, <1>5

\* What a leader's indices of a follower may become in a step.
IndicesMove(i, j) ==
    \/ match_indices'[i][j] = match_indices[i][j] /\ next_indices'[i][j] = next_indices[i][j]
    \/ \E m \in msgs :
          /\ m.kind = "AppendReply" /\ m.success /\ m.from = j /\ m.to = i
          /\ m.term = current_term[i] /\ log'[i] = log[i]
          /\ match_indices'[i][j] = m.match_index
          /\ next_indices'[i][j] = Larger(next_indices[i][j], m.match_index + 1)
    \/ \E m \in msgs :
          /\ m.kind = "AppendReply" /\ match_indices'[i][j] = match_indices[i][j]
          /\ next_indices'[i][j] = RetryIndex(next_indices[i][j], m.match_index)

LEMMA IndicesChange ==
    ASSUME LeaderInv, [Next]_vars, NEW i \in Node, NEW j \in Node, i # j,
           state[i] = "Leader", state'[i] = "Leader"
    PROVE  IndicesMove(i, j)
  <1>1. TypeOK
    BY DEF LeaderInv, TypeInv
  <1>2. ASSUME UNCHANGED <<next_indices, match_indices>>
        PROVE  IndicesMove(i, j)
    BY <1>2 DEF IndicesMove
  <1>3. ASSUME NEW k \in Node, BecomeFollower(k)
        PROVE  IndicesMove(i, j)
    <2>1. k # i
      BY <1>1, <1>3 DEF BecomeFollower, TypeOK
    <2>2. match_indices'[i] = match_indices[i] /\ next_indices'[i] = next_indices[i]
      BY <1>1, <1>3, <2>1 DEF BecomeFollower, TypeOK
    <2> QED BY <2>2 DEF IndicesMove
  <1>4. CASE UNCHANGED vars
    BY <1>2, <1>4 DEF vars, roleVars
  <1>5. ASSUME NEW k \in Node, \/ ElectionTimeout(k) \/ HeartbeatTimeout(k)
                               \/ \E c \in Command : ClientRequest(k, c)
        PROVE  IndicesMove(i, j)
    BY <1>2, <1>5 DEF ElectionTimeout, HeartbeatTimeout, ClientRequest, roleVars
  <1>6. ASSUME NEW m \in msgs, \/ RejectStaleVote(m) \/ RecordVote(m) \/ RejectStaleEntries(m)
                               \/ IgnoreReply(m) \/ Drop(m)
        PROVE  IndicesMove(i, j)
    BY <1>2, <1>6 DEF RejectStaleVote, RecordVote, RejectStaleEntries, IgnoreReply, Drop, roleVars
  <1>7. ASSUME NEW m \in msgs, GrantVote(m) \/ DenyVote(m)
        PROVE  IndicesMove(i, j)
    <2>1. m.to \in Node
      BY <1>1, MessageFields DEF TypeOK
    <2>2. BecomeFollower(m.to) \/ UNCHANGED roleVars
      BY <1>7 DEF GrantVote, DenyVote, AdoptTerm
    <2> QED BY <1>2, <1>3, <2>1, <2>2 DEF roleVars
  <1>8. ASSUME NEW m \in msgs, NewerTermReply(m) \/ RejectUnmatchedEntries(m) \/ AcceptEntries(m)
        PROVE  IndicesMove(i, j)
    <2>1. m.to \in Node
      BY <1>1, MessageFields DEF TypeOK
    <2>2. BecomeFollower(m.to)
      BY <1>8 DEF NewerTermReply, StepDown, RejectUnmatchedEntries, AcceptEntries, RecognizeLeader
    <2> QED BY <1>3, <2>1, <2>2
  <1>9. ASSUME NEW m \in msgs, WinElection(m)
        PROVE  IndicesMove(i, j)
    <2>1. m.to # i
      BY <1>9 DEF WinElection, CountsAsVote
    <2>2. match_indices'[i] = match_indices[i] /\ next_indices'[i] = next_indices[i]
      BY <1>1, <1>9, <2>1 DEF WinElection, TypeOK
    <2> QED BY <2>2 DEF IndicesMove
  <1>10. ASSUME NEW m \in msgs, EntriesReplicated(m)
         PROVE  IndicesMove(i, j)
    <2>1. /\ m.kind = "AppendReply" /\ m.success /\ m.term = current_term[m.to]
          /\ match_indices' = [match_indices EXCEPT
                ![m.to] = [match_indices[m.to] EXCEPT ![m.from] = m.match_index]]
          /\ next_indices' = [next_indices EXCEPT
                ![m.to][m.from] = Larger(next_indices[m.to][m.from], m.match_index + 1)]
          /\ log' = log
      BY <1>10 DEF EntriesReplicated, ReplyInTerm
    <2>2. m.to \in Node /\ m.from \in Node
      BY <1>1, MessageFields DEF TypeOK
    <2>3. CASE m.to = i /\ m.from = j
      <3>1. /\ match_indices'[i][j] = m.match_index
            /\ next_indices'[i][j] = Larger(next_indices[i][j], m.match_index + 1)
        BY <1>1, <2>1, <2>2, <2>3 DEF TypeOK
      <3> QED BY <2>1, <2>3, <3>1 DEF IndicesMove
    <2>4. CASE ~(m.to = i /\ m.from = j)
      <3>1. match_indices'[i][j] = match_indices[i][j] /\ next_indices'[i][j] = next_indices[i][j]
        BY <1>1, <2>1, <2>2, <2>4 DEF TypeOK
      <3> QED BY <3>1 DEF IndicesMove
    <2> QED BY <2>3, <2>4
  <1>11. ASSUME NEW m \in msgs, EntriesRejected(m)
         PROVE  IndicesMove(i, j)
    <2>1. /\ m.kind = "AppendReply" /\ match_indices' = match_indices
          /\ next_indices' = [next_indices EXCEPT
                ![m.to][m.from] = RetryIndex(next_indices[m.to][m.from], m.match_index)]
      BY <1>11 DEF EntriesRejected, ReplyInTerm
    <2>2. m.to \in Node /\ m.from \in Node
      BY <1>1, MessageFields DEF TypeOK
    <2>3. CASE m.to = i /\ m.from = j
      <3>1. next_indices'[i][j] = RetryIndex(next_indices[i][j], m.match_index)
        BY <1>1, <2>1, <2>2, <2>3 DEF TypeOK
      <3> QED BY <2>1, <3>1 DEF IndicesMove
    <2>4. CASE ~(m.to = i /\ m.from = j)
      <3>1. next_indices'[i][j] = next_indices[i][j]
        BY <1>1, <2>1, <2>2, <2>4 DEF TypeOK
      <3> QED BY <2>1, <3>1 DEF IndicesMove
    <2> QED BY <2>3, <2>4
  <1> QED BY <1>4, <1>5, <1>6, <1>7, <1>8, <1>9, <1>10, <1>11 DEF Next, Receive

LEMMA WinnerIndices ==
    ASSUME LeaderInv, LeaderInv', [Next]_vars, NEW i \in Node, NEW j \in Node,
           state[i] # "Leader", state'[i] = "Leader"
    PROVE  /\ match_indices'[i][j] = 0 /\ next_indices'[i][j] = Last(log[i]).index + 1
           /\ log' = log
  <1>1. TypeOK
    BY DEF LeaderInv, TypeInv
  <1>2. current_term'[i] = current_term[i] /\ current_term[i] \in Nat
    BY <1>1, RolesChange DEF RoleChanges, TypeOK
  <1>3. ~Elected(current_term[i], i)
    BY <1>2 DEF LeaderInv, RoleInv
  <1>4. Elected(current_term[i], i)'
    BY <1>2, NodeAssumption DEF LeaderInv, HintInv, LeaderHintSound, Elected
  <1>5. PICK m \in msgs : WinElection(m)
    BY <1>2, <1>3, <1>4, OnlyWinsElect DEF Elected
  <1>6. elected' = elected \cup {[term |-> current_term[m.to], node |-> m.to]}
    BY <1>5 DEF WinElection
  <1>7. m.to = i
    BY <1>2, <1>3, <1>4, <1>6 DEF Elected
  <1> QED BY <1>1, <1>5, <1>7 DEF WinElection, NoIndices, logVars, TypeOK

LEMMA MatchesNext ==
    ASSUME LeaderInv, LeaderInv', IndexInv, [Next]_vars, NEW T, LogTree(T)
    PROVE  MatchesHold'
  <1> SUFFICES ASSUME NEW i \in Node, NEW j \in Node, state'[i] = "Leader", i # j
               PROVE  /\ match_indices'[i][j] = 0 \/ current_term'[j] >= current_term'[i]
                      /\ Holds(i, j, match_indices[i][j])'
    BY DEF MatchesHold
  <1>1. /\ current_term'[i] = current_term[i] /\ current_term'[j] >= current_term[j]
        /\ current_term[i] \in Nat /\ current_term[j] \in Nat /\ current_term'[j] \in Nat
        /\ match_indices[i][j] \in Nat
    <2>1. RoleChanges
      BY RolesChange
    <2>2. TypeOK /\ TypeOK'
      BY DEF LeaderInv, TypeInv
    <2> QED BY <2>1, <2>2 DEF RoleChanges, TypeOK
  <1>2. CASE state[i] = "Leader"
    <2>1. /\ match_indices[i][j] = 0 \/ current_term[j] >= current_term[i]
          /\ Holds(i, j, match_indices[i][j])
      BY <1>2 DEF IndexInv, MatchesHold
    <2>2. CASE match_indices'[i][j] = match_indices[i][j]
      <3>1. PICK x \in Nat : x = match_indices[i][j]
        BY <1>1
      <3>2. Holds(i, j, x)'
        BY <1>2, <2>1, <3>1, HoldsStep DEF IndexInv
      <3>3. Holds(i, j, match_indices[i][j])'
        BY <2>2, <3>1, <3>2 DEF Holds
      <3> QED BY <1>1, <2>1, <2>2, <3>3
    <2>3. ASSUME NEW m \in msgs, m.kind = "AppendReply", m.success, m.from = j, m.to = i,
                 m.term = current_term[i], match_indices'[i][j] = m.match_index
          PROVE  /\ match_indices'[i][j] = 0 \/ current_term'[j] >= current_term'[i]
                 /\ Holds(i, j, match_indices[i][j])'
      <3>1. m.term <= current_term[j] /\ Holds(i, j, m.match_index)
        BY <1>2, <2>3 DEF IndexInv, RepliesHold
      <3>2. m.match_index \in Nat
        BY <2>3, MessageFields DEF AppendReplyMsg, LeaderInv, TypeInv, TypeOK
      <3>3. current_term[j] >= current_term[i]
        BY <1>1, <2>3, <3>1
      <3>4. Holds(i, j, m.match_index)'
        BY <1>2, <3>1, <3>2, <3>3, HoldsStep DEF IndexInv
      <3>5. Holds(i, j, match_indices[i][j])'
        BY <2>3, <3>4 DEF Holds
      <3> QED BY <1>1, <3>3, <3>5
    <2> QED BY <1>2, <2>2, <2>3, IndicesChange DEF IndicesMove
  <1>3. CASE state[i] # "Leader"
    <2>1. match_indices'[i][j] = 0
      BY <1>3, WinnerIndices
    <2>2. PICK U : U = T \cup {log'[k] : k \in Node}
      OBVIOUS
    <2>3. Tree(U) /\ log'[i] \in U /\ log'[j] \in U
      BY <2>2, TreeNext DEF LogTree, IndexInv
    <2>4. /\ Len(log'[i]) \in Nat \ {0} /\ Len(log'[j]) \in Nat \ {0}
          /\ log'[i][1] = Sentinel /\ log'[j][1] = Sentinel
      BY <2>3, TreeFacts
    <2>5. \A q \in 1 .. 0 + 1 : q = 1
      OBVIOUS
    <2> QED BY <2>1, <2>4, <2>5 DEF Holds
  <1> QED BY <1>2, <1>3

LEMMA NextIndexNext ==
    ASSUME LeaderInv, LeaderInv', IndexInv, [Next]_vars, NEW T, LogTree(T)
    PROVE  NextIndexInLog'
  <1> SUFFICES ASSUME NEW i \in Node, NEW j \in Node, state'[i] = "Leader", i # j
               PROVE  next_indices'[i][j] \in 1 .. Len(log'[i])
    BY DEF NextIndexInLog
  <1>1. Len(log[i]) \in Nat \ {0} /\ Len(log'[i]) \in Nat /\ match_indices[i][j] \in Nat
    BY LastType, LenProperties DEF LeaderInv, TypeInv, TypeOK
  <1>2. CASE state[i] # "Leader"
    <2>1. Last(log[i]).index + 1 = Len(log[i])
      BY TreeIndices DEF LastIndices
    <2> QED BY <1>1, <1>2, <2>1, WinnerIndices
  <1>3. CASE state[i] = "Leader"
    <2>1. next_indices[i][j] \in 1 .. Len(log[i]) /\ Len(log[i]) <= Len(log'[i])
      BY <1>3, LeaderLogGrows DEF IndexInv, NextIndexInLog
    <2>2. ASSUME NEW m \in msgs, m.kind = "AppendReply", m.success, m.from = j, m.to = i,
                 m.term = current_term[i],
                 next_indices'[i][j] = Larger(next_indices[i][j], m.match_index + 1)
          PROVE  next_indices'[i][j] \in 1 .. Len(log'[i])
      <3>1. m.match_index < Len(log[i])
        BY <1>3, <2>2 DEF IndexInv, RepliesHold, Holds
      <3>2. m.match_index \in Nat
        BY <2>2, MessageFields DEF AppendReplyMsg, LeaderInv, TypeInv, TypeOK
      <3> QED BY <1>1, <2>1, <2>2, <3>1, <3>2 DEF Larger
    <2>3. ASSUME NEW m \in msgs, m.kind = "AppendReply",
                 next_indices'[i][j] = RetryIndex(next_indices[i][j], m.match_index)
          PROVE  next_indices'[i][j] \in 1 .. Len(log'[i])
      <3>1. m.match_index \in Nat
        BY <2>3, MessageFields DEF AppendReplyMsg, LeaderInv, TypeInv, TypeOK
      <3> QED BY <1>1, <2>1, <2>3, <3>1 DEF RetryIndex, Larger
    <2>4. next_indices[i][j] \in 1 .. Len(log'[i])
      BY <1>1, <2>1
    <2> QED BY <1>3, <2>2, <2>3, <2>4, IndicesChange DEF IndicesMove
  <1> QED BY <1>2, <1>3

-----------------------------------------------------------------------------
(* The inductive invariant and what follows from it *)

ReplicationInv == LeaderInv /\ IndexInv /\ \E T : LogTree(T)

LEMMA ReplicationInit == Init => ReplicationInv
  <1> SUFFICES ASSUME Init PROVE ReplicationInv
    OBVIOUS
  <1>1. TypeInv /\ BallotInv
    BY TypeInit, BallotInit
  <1>2. HintInv /\ RoleInv /\ IndexInv
    BY NodeAssumption
    DEF Init, HintInv, LeaderHintSound, EntriesFromElected, RoleInv, Elected, IndexInv,
        RepliesHold, MatchesHold, NextIndexInLog
  <1> QED BY <1>1, <1>2, TreeInit DEF ReplicationInv, LeaderInv

LEMMA LeaderNext == ReplicationInv /\ [Next]_vars => LeaderInv'
  <1> SUFFICES ASSUME ReplicationInv, [Next]_vars PROVE LeaderInv'
    OBVIOUS
  <1>1. LeaderInv /\ NextIndexInLog /\ \E T : LogTree(T)
    BY DEF ReplicationInv, IndexInv
  <1>2. TypeInv' /\ BallotInv' /\ HintInv'
    BY <1>1, TypeStep, BallotStep, HintNext DEF LeaderInv
  <1>3. RoleInv'
    BY <1>1, TreeIndices, RoleNext
  <1> QED BY <1>2, <1>3 DEF LeaderInv

LEMMA ReplicationNext == ReplicationInv /\ [Next]_vars => ReplicationInv'
  <1> SUFFICES ASSUME ReplicationInv, [Next]_vars PROVE ReplicationInv'
    OBVIOUS
  <1>1. LeaderInv /\ IndexInv /\ LeaderInv'
    BY LeaderNext DEF ReplicationInv
  <1>2. PICK T : LogTree(T)
    BY DEF ReplicationInv
  <1>3. PICK U : U = T \cup {log'[i] : i \in Node}
    OBVIOUS
  <1>4. LogTree(U)'
    BY <1>1, <1>2, <1>3, TreeNext DEF IndexInv
  <1>5. IndexInv'
    BY <1>1, <1>2, RepliesNext, MatchesNext, NextIndexNext DEF IndexInv
  <1> QED BY <1>1, <1>4, <1>5 DEF ReplicationInv

LEMMA ReplicationHolds == Spec => []ReplicationInv
  BY ReplicationInit, ReplicationNext, PTL DEF Spec

\* LogMatching for any number of nodes, any log length and any relay: the
\* consistency check and the truncation of handle_append_entries never let a log
\* mix two leaders' histories.
THEOREM LogsMatch == Spec => []LogMatching
  <1>1. ReplicationInv => LogMatching
    <2> SUFFICES ASSUME ReplicationInv, NEW i \in Node, NEW j \in Node,
                        NEW p \in DOMAIN log[i] \cap DOMAIN log[j],
                        log[i][p].term = log[j][p].term
                 PROVE  Prefix(log[i], p) = Prefix(log[j], p)
      BY DEF LogMatching
    <2>1. PICK T : LogTree(T)
      BY DEF ReplicationInv
    <2>2. Tree(T) /\ log[i] \in T /\ log[j] \in T
      BY <2>1 DEF LogTree
    <2>3. /\ log[i] \in Seq(Entry) /\ DOMAIN log[i] = 1 .. Len(log[i])
          /\ log[j] \in Seq(Entry) /\ DOMAIN log[j] = 1 .. Len(log[j])
          /\ Len(log[j]) \in Nat
      BY <2>2, TreeFacts
    <2>4. p \in 1 .. Len(log[i]) /\ p <= Len(log[j])
      BY <2>3
    <2>5. \A q \in 1 .. p : log[i][q] = log[j][q]
      BY <2>2, <2>4, TreeDetermines
    <2> QED BY <2>3, <2>4, <2>5, SamePrefix
  <1> QED BY <1>1, ReplicationHolds, PTL

\* NextIndexInLog for every cluster: whatever hints and replies arrive, the index
\* a leader sends from names an entry of its log.
THEOREM NextIndexStays == Spec => []NextIndexInLog
  <1>1. ReplicationInv => NextIndexInLog
    BY DEF ReplicationInv, IndexInv
  <1> QED BY <1>1, ReplicationHolds, PTL

\* MatchIndexSound for every cluster: what handle_append_entries_reply stores of a
\* follower of the leader's term is on that follower's log.
THEOREM MatchesAreSound == Spec => []MatchIndexSound
  <1>1. ReplicationInv => MatchIndexSound
    <2> SUFFICES ASSUME ReplicationInv, NEW i \in Node, NEW j \in Node,
                        state[i] = "Leader", i # j, current_term[j] = current_term[i]
                 PROVE  /\ match_indices[i][j] < Len(log[i]) /\ match_indices[i][j] < Len(log[j])
                        /\ Prefix(log[i], match_indices[i][j] + 1)
                             = Prefix(log[j], match_indices[i][j] + 1)
      BY DEF MatchIndexSound
    <2> DEFINE x == match_indices[i][j]
    <2>1. Holds(i, j, x)
      BY DEF ReplicationInv, IndexInv, MatchesHold
    <2>2. /\ log[i] \in Seq(Entry) /\ log[j] \in Seq(Entry) /\ x \in Nat
      BY DEF ReplicationInv, LeaderInv, TypeInv, TypeOK
    <2>3. Len(log[i]) \in Nat /\ Len(log[j]) \in Nat
      BY <2>2, LenProperties
    <2> HIDE DEF x
    <2>4. x < Len(log[i]) /\ x < Len(log[j]) /\ \A q \in 1 .. x + 1 : log[i][q] = log[j][q]
      BY <2>1 DEF Holds
    <2>5. x + 1 \in 1 .. Len(log[i]) /\ x + 1 <= Len(log[j])
      BY <2>2, <2>3, <2>4
    <2>6. Prefix(log[i], x + 1) = Prefix(log[j], x + 1)
      BY <2>2, <2>4, <2>5, SamePrefix
    <2> QED BY <2>4, <2>6 DEF x
  <1> QED BY <1>1, ReplicationHolds, PTL

LEMMA PrefixBelow ==
    ASSUME NEW T, Tree(T), NEW l \in T, NEW n \in 1 .. Len(l)
    PROVE  /\ Prefix(l, n) \in T /\ Len(Prefix(l, n)) = n /\ Last(Prefix(l, n)) = l[n]
           /\ \A q \in 1 .. n : Prefix(l, n)[q] = l[q]
           /\ Below(Prefix(l, n), l)
  <1>1. l \in Seq(Entry) /\ Len(l) \in Nat
    BY TreeFacts
  <1>2. /\ Len(Prefix(l, n)) = n /\ Last(Prefix(l, n)) = l[n]
        /\ \A q \in 1 .. n : Prefix(l, n)[q] = l[q]
    BY <1>1, PrefixFacts
  <1>3. Prefix(l, n) \in T
    BY DEF Tree
  <1> QED BY <1>1, <1>2, <1>3 DEF Below

LEMMA EntriesKept ==
    ASSUME ReplicationInv, [Next]_vars, NEW i \in Node, NEW p \in DOMAIN log[i],
           log[i][p].term = current_term[i], current_term'[i] = current_term[i]
    PROVE  p \in DOMAIN log'[i] /\ log'[i][p] = log[i][p]
  <1>1. LeaderInv /\ LeaderInv' /\ NextIndexInLog
    BY LeaderNext DEF ReplicationInv, IndexInv
  <1>2. PICK T : LogTree(T)
    BY DEF ReplicationInv
  <1>3. Tree(T) /\ log[i] \in T
    BY <1>2 DEF LogTree
  <1>4. /\ Len(log[i]) \in Nat /\ p \in 1 .. Len(log[i])
        /\ Len(log'[i]) \in Nat /\ DOMAIN log'[i] = 1 .. Len(log'[i])
    <2>1. log'[i] \in Seq(Entry)
      BY <1>1 DEF LeaderInv, TypeInv, TypeOK
    <2> QED BY <1>3, <2>1, TreeFacts, LenProperties
  <1>5. SUFFICES p <= Len(log'[i]) /\ log'[i][p] = log[i][p]
    BY <1>4
  <1>6. CASE log'[i] = log[i]
    BY <1>4, <1>6
  <1>7. ASSUME NEW m \in msgs, AcceptEntries(m), log'[i] # log[i]
        PROVE  p <= Len(log'[i]) /\ log'[i][p] = log[i][p]
    <2>1. m.to = i /\ m.term = current_term[i]
      BY <1>1, <1>2, <1>7, Accepted
    <2>2. PICK l \in T : Stands(T, l, m) /\ log'[i] = l /\ ~Below(l, log[i])
      BY <1>1, <1>2, <1>7, <2>1, Accepted
    <2>3. PICK b \in T : /\ Len(b) = p /\ Last(b) = log[i][p] /\ Below(b, log[i])
                         /\ \A q \in 1 .. p : b[q] = log[i][q]
      BY <1>3, <1>4, PrefixBelow
    <2>4. Below(b, l) \/ Below(l, b)
      BY <2>1, <2>2, <2>3 DEF Stands
    <2>5. l \in Seq(Entry) /\ b \in Seq(Entry) /\ log[i] \in Seq(Entry)
      BY <1>3 DEF Tree
    <2>6. ~Below(l, b)
      BY <2>2, <2>3, <2>5, BelowTransitive
    <2>7. p \in 1 .. p
      BY <1>4
    <2> QED BY <2>2, <2>3, <2>4, <2>6, <2>7 DEF Below
  <1>8. ASSUME NEW k \in Node, NEW c \in Command, ClientRequest(k, c), log'[i] # log[i]
        PROVE  p <= Len(log'[i]) /\ log'[i][p] = log[i][p]
    <2>1. state'[i] = "Leader"
      BY <1>8 DEF ClientRequest, roleVars, LeaderInv, TypeInv, TypeOK, ReplicationInv
    <2>2. Below(log[i], log'[i])
      BY <1>1, <1>2, <2>1, LeaderLogGrows
    <2> QED BY <1>4, <2>2 DEF Below
  <1> QED BY <1>6, <1>7, <1>8, LogsChange

\* KeepsEntriesOfTerm for every cluster: no AppendEntries of a term, however late
\* or often it arrives, takes away an entry of that term.
THEOREM TermEntriesStay == Spec => KeepsEntriesOfTerm
  <1>1. ReplicationInv /\ [Next]_vars =>
          [\A i \in Node : \A p \in DOMAIN log[i] :
             log[i][p].term = current_term[i] /\ current_term'[i] = current_term[i] =>
                p \in DOMAIN log'[i] /\ log'[i][p] = log[i][p]]_vars
    BY EntriesKept
  <1> QED BY <1>1, ReplicationHolds, PTL DEF Spec, KeepsEntriesOfTerm

LEMMA LeadersAppend ==
    ASSUME ReplicationInv, [Next]_vars, NEW i \in Node,
           state[i] = "Leader", current_term'[i] = current_term[i]
    PROVE  /\ state'[i] = "Leader"
           /\ Len(log'[i]) >= Len(log[i]) /\ Prefix(log'[i], Len(log[i])) = log[i]
  <1>1. LeaderInv /\ LeaderInv'
    BY LeaderNext DEF ReplicationInv
  <1>2. state'[i] = "Leader"
    BY <1>1, RolesChange DEF RoleChanges
  <1>3. PICK T : LogTree(T)
    BY DEF ReplicationInv
  <1>4. Below(log[i], log'[i])
    BY <1>1, <1>2, <1>3, LeaderLogGrows
  <1>5. /\ log[i] \in Seq(Entry) \ {<<>>} /\ log'[i] \in Seq(Entry)
        /\ Len(log[i]) \in Nat \ {0} /\ Len(log'[i]) \in Nat
    <2>1. log[i] \in Seq(Entry) \ {<<>>} /\ log'[i] \in Seq(Entry)
      BY <1>1 DEF LeaderInv, TypeInv, TypeOK
    <2> QED BY <2>1, LastType, LenProperties
  <1>6. Len(log[i]) \in 1 .. Len(log[i])
    BY <1>5
  <1>7. Prefix(log[i], Len(log[i])) = Prefix(log'[i], Len(log[i]))
    BY <1>4, <1>5, <1>6, SamePrefix DEF Below
  <1>8. Prefix(log[i], Len(log[i])) = log[i]
    BY <1>5, SubSeqFull DEF Prefix
  <1>9. Len(log'[i]) >= Len(log[i])
    BY <1>4, <1>5 DEF Below
  <1> QED BY <1>2, <1>7, <1>8, <1>9

\* LeaderAppendOnly for every cluster: whoever accepts entries becomes a follower and
\* merges them, and no leader ever receives entries of its own term.
THEOREM LeadersAppendOnly == Spec => LeaderAppendOnly
  <1>1. ReplicationInv /\ [Next]_vars =>
          [\A i \in Node : state[i] = "Leader" /\ current_term'[i] = current_term[i] =>
             /\ state'[i] = "Leader"
             /\ Len(log'[i]) >= Len(log[i]) /\ Prefix(log'[i], Len(log[i])) = log[i]]_vars
    BY LeadersAppend
  <1> QED BY <1>1, ReplicationHolds, PTL DEF Spec, LeaderAppendOnly
=============================================================================
