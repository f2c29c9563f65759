-------------------------- MODULE RaftLoopsProofs --------------------------
(***************************************************************************)
(* The two loops compute the operators of RaftLog, for every log, every    *)
(* batch of entries and every number of peers.                             *)
(*                                                                         *)
(* The entries loop keeps the log as it was up to the first entry that     *)
(* differs; from then on the log is the old one up to that entry, and the  *)
(* entries of the message after it (Spliced), so that every further entry  *)
(* is pushed.  The median: as many match indices as peers have reached v   *)
(* are collected, for every v, and the element at position q of a sorted   *)
(* array has q - 1 elements before it that are not larger.                 *)
(***************************************************************************)
EXTENDS RaftLoops, FiniteSetTheorems, SequenceTheorems, TLAPS

-----------------------------------------------------------------------------
(* handle_append_entries *)

FirstDiffering(f) ==
    /\ f \in DOMAIN entries /\ Differs(before, entries[f])
    /\ \A k \in 1 .. f - 1 : ~Differs(before, entries[k])

\* The log l after n entries, the f-th of which was the first to differ.
Spliced(l, f, n) ==
    /\ prev_log_index + f <= Len(before) /\ Len(l) = prev_log_index + n + 1
    /\ \A p \in 1 .. Len(l) :
          l[p] = IF p <= prev_log_index + f THEN before[p] ELSE entries[p - prev_log_index - 1]

Message ==
    /\ before \in Seq(Entry) /\ Len(before) >= 1
    /\ \A p \in DOMAIN before : before[p].index = p - 1
    /\ prev_log_index \in 0 .. Len(before) - 1
    /\ entries \in Seq(Entry)
    /\ \A k \in DOMAIN entries : entries[k].index = prev_log_index + k

AppendInv ==
    /\ Message
    /\ next \in 1 .. Len(entries) + 1
    /\ loop # "append" => next = Len(entries) + 1
    /\ last_new_entry_index = prev_log_index + next - 1
    /\ log \in Seq(Entry)
    /\ (\A k \in 1 .. next - 1 : ~Differs(before, entries[k])) => log = before
    /\ \A f \in 1 .. next - 1 : FirstDiffering(f) => Spliced(log, f, next - 1)

LEMMA Least ==
    ASSUME NEW S, S \subseteq Nat, S # {}
    PROVE  \E k \in S : \A m \in S : k <= m
  <1>1. PICK k \in S : \A m \in S : ~ (<<m, k>> \in OpToRel(<, Nat))
    BY NatLessThanWellFounded, WFMin
  <1>2. ASSUME NEW m \in S PROVE k <= m
    <2>1. <<m, k>> \in Nat \X Nat
      OBVIOUS
    <2>2. ~ (m < k)
      BY <1>1, <2>1 DEF OpToRel
    <2> QED BY <2>2
  <1> QED BY <1>2

LEMMA BatchEntries ==
    ASSUME NEW first \in Nat, NEW least \in Nat, NEW es \in Batches(first, least)
    PROVE  es \in Seq(Entry) /\ \A k \in DOMAIN es : es[k].index = first + k - 1
  <1>1. PICK terms \in UNION {[1 .. n -> least .. MaxTerm] : n \in 0 .. MaxIndex - first + 1} :
           es = [k \in DOMAIN terms |-> [term |-> terms[k], index |-> first + k - 1, command |-> None]]
    BY DEF Batches
  <1>2. PICK n \in 0 .. MaxIndex - first + 1 : terms \in [1 .. n -> least .. MaxTerm]
    BY <1>1
  <1>3. n \in Nat /\ DOMAIN terms = 1 .. n
    BY <1>2, LoopAssumption
  <1>4. ASSUME NEW k \in 1 .. n PROVE es[k] \in Entry /\ es[k].index = first + k - 1
    <2>1. terms[k] \in Nat /\ first + k - 1 \in Nat
      <3>1. terms[k] \in least .. MaxTerm
        BY <1>2, <1>3
      <3>2. k \in Nat /\ k >= 1
        BY <1>3
      <3> QED BY <3>1, <3>2, LoopAssumption
    <2>2. es[k] = [term |-> terms[k], index |-> first + k - 1, command |-> None]
      BY <1>1, <1>3
    <2> QED BY <2>1, <2>2 DEF Entry
  <1>5. DOMAIN es = 1 .. n /\ es = [k \in 1 .. n |-> es[k]]
    BY <1>1, <1>3
  <1>6. es \in [1 .. n -> Entry]
    BY <1>4, <1>5
  <1>7. es \in Seq(Entry)
    BY <1>3, <1>6
  <1> QED BY <1>4, <1>5, <1>7

LEMMA AppendInit == Init => AppendInv
  <1> SUFFICES ASSUME Init PROVE AppendInv
    OBVIOUS
  <1>1. Sentinel \in Entry /\ Sentinel.index = 0
    BY DEF Sentinel, Entry
  <1>2. /\ <<Sentinel>> \in Seq(Entry) /\ Len(<<Sentinel>>) = 1 /\ <<Sentinel>>[1] = Sentinel
    BY <1>1
  <1>3. Message /\ next = 1 /\ log = before /\ last_new_entry_index = prev_log_index
    <2>1. CASE AppendBegins
      <3>1. PICK es \in Batches(1, 1) : before = <<Sentinel>> \o es
        BY <2>1 DEF AppendBegins
      <3>2. es \in Seq(Entry) /\ Len(es) \in Nat /\ \A k \in 1 .. Len(es) : es[k].index = k
        BY BatchEntries, LenProperties
      <3>3. /\ before \in Seq(Entry) /\ Len(before) = 1 + Len(es)
            /\ \A p \in 1 .. 1 + Len(es) : before[p] = IF p <= 1 THEN Sentinel ELSE es[p - 1]
        BY <1>2, <3>1, <3>2, ConcatProperties
      <3>4. \A p \in 1 .. Len(before) : before[p].index = p - 1
        BY <1>1, <3>2, <3>3
      <3>5. DOMAIN before = 1 .. Len(before) /\ prev_log_index \in 0 .. Len(before) - 1
        BY <2>1, <3>3, LenProperties DEF AppendBegins
      <3>6. entries \in Batches(prev_log_index + 1, Larger(1, before[prev_log_index + 1].term))
        BY <2>1 DEF AppendBegins
      <3>7. prev_log_index + 1 \in Nat /\ Larger(1, before[prev_log_index + 1].term) \in Nat
        <4>1. before[prev_log_index + 1] \in Entry
          BY <3>2, <3>3, <3>5, ElementOfSeq
        <4> QED BY <3>2, <3>3, <3>5, <4>1 DEF Larger, Entry
      <3>8. /\ entries \in Seq(Entry)
            /\ \A k \in DOMAIN entries : entries[k].index = prev_log_index + 1 + k - 1
        BY <3>6, <3>7, BatchEntries
      <3>9. \A k \in DOMAIN entries : prev_log_index + 1 + k - 1 = prev_log_index + k
        <4>1. prev_log_index \in Nat /\ DOMAIN entries = 1 .. Len(entries) /\ Len(entries) \in Nat
          BY <3>2, <3>3, <3>5, <3>8, LenProperties
        <4> QED BY <4>1
      <3> QED BY <2>1, <3>2, <3>3, <3>4, <3>5, <3>8, <3>9 DEF AppendBegins, Message
    <2>2. CASE NoAppend
      <3>1. /\ before = <<Sentinel>> /\ prev_log_index = 0 /\ entries = <<>> /\ next = 1
            /\ log = before /\ last_new_entry_index = prev_log_index
        BY <2>2 DEF NoAppend
      <3>2. DOMAIN before = {1} /\ before[1].index = 0 /\ Len(before) = 1 /\ before \in Seq(Entry)
        BY <1>1, <1>2, <3>1
      <3>3. entries \in Seq(Entry) /\ DOMAIN entries = {}
        BY <3>1
      <3> QED BY <3>1, <3>2, <3>3 DEF Message
    <2> QED BY <2>1, <2>2 DEF Init
  <1>4. entries \in Seq(Entry) /\ Len(entries) \in Nat /\ prev_log_index \in Int
    BY <1>3, LenProperties DEF Message
  <1>5. loop # "append" => next = Len(entries) + 1
    BY DEF Init, NoAppend
  <1> QED BY <1>3, <1>4, <1>5 DEF AppendInv, Message

LEMMA MessageFacts ==
    ASSUME Message
    PROVE  /\ Len(before) \in Nat \ {0} /\ DOMAIN before = 1 .. Len(before)
           /\ Len(entries) \in Nat /\ DOMAIN entries = 1 .. Len(entries)
           /\ prev_log_index \in Nat /\ prev_log_index + 1 <= Len(before)
           /\ \A p \in DOMAIN before : before[p] \in Entry
           /\ \A k \in DOMAIN entries : entries[k] \in Entry
  BY LenProperties, ElementOfSeq DEF Message

\* An entry that fits is in the log: the log reaches to its position.
LEMMA FitsInLog ==
    ASSUME Message, NEW k \in DOMAIN entries
    PROVE  Differs(before, entries[k]) <=>
              \/ prev_log_index + k + 1 > Len(before)
              \/ before[prev_log_index + k + 1].term # entries[k].term
  <1>1. /\ entries[k].index = prev_log_index + k
        /\ k \in Nat /\ k >= 1 /\ prev_log_index \in Nat /\ Len(before) \in Nat
    BY MessageFacts DEF Message
  <1>2. entries[k].index \in 0 .. Len(before) - 1 <=> ~ (prev_log_index + k + 1 > Len(before))
    BY <1>1
  <1> QED BY <1>1, <1>2 DEF Differs, HoldsTerm

\* Among the first entries either none differs, or there is a first one that does.
LEMMA FirstOfDiffering ==
    ASSUME Message, NEW n \in 0 .. Len(entries)
    PROVE  \/ \A k \in 1 .. n : ~Differs(before, entries[k])
           \/ \E f \in 1 .. n : FirstDiffering(f)
  <1> DEFINE S == {k \in 1 .. n : Differs(before, entries[k])}
  <1>1. Len(entries) \in Nat /\ DOMAIN entries = 1 .. Len(entries)
    BY MessageFacts
  <1>2. CASE S = {}
    BY <1>2
  <1>3. CASE S # {}
    <2>1. S \subseteq Nat
      BY <1>1
    <2>2. PICK f \in S : \A m \in S : f <= m
      BY <1>3, <2>1, Least
    <2>3. \A k \in 1 .. f - 1 : k \notin S /\ k \in 1 .. n
      BY <1>1, <2>2
    <2>4. FirstDiffering(f)
      BY <1>1, <2>2, <2>3 DEF FirstDiffering
    <2> QED BY <2>2, <2>4
  <1> QED BY <1>2, <1>3

LEMMA OneFirst ==
    ASSUME Message, NEW f, NEW g, FirstDiffering(f), FirstDiffering(g)
    PROVE  f = g
  <1>1. f \in Nat /\ g \in Nat /\ f >= 1 /\ g >= 1
    BY MessageFacts DEF FirstDiffering
  <1>2. ~ (f < g) /\ ~ (g < f)
    BY <1>1 DEF FirstDiffering
  <1> QED BY <1>1, <1>2

LEMMA TakeEntryInv == ASSUME AppendInv, TakeEntry PROVE AppendInv'
  <1>1. PICK n, e : n = next /\ e = entries[n]
    OBVIOUS
  <1>2. /\ n \in 1 .. Len(entries) /\ n \in Nat /\ n >= 1
        /\ next' = n + 1 /\ last_new_entry_index' = e.index /\ log' = Iterate(log, e)
        /\ UNCHANGED <<before, prev_log_index, entries, loop>> /\ loop = "append"
    BY <1>1, MessageFacts DEF AppendInv, TakeEntry
  <1>3. Message /\ Message'
    BY <1>2 DEF AppendInv, Message
  <1>4. /\ e \in Entry /\ e.index = prev_log_index + n
        /\ Len(before) \in Nat /\ prev_log_index \in Nat /\ prev_log_index + 1 <= Len(before)
        /\ before \in Seq(Entry) /\ DOMAIN before = 1 .. Len(before) /\ Len(entries) \in Nat
    BY <1>1, <1>2, <1>3, MessageFacts DEF Message
  <1>5. ASSUME NEW f PROVE FirstDiffering(f)' <=> FirstDiffering(f)
    BY <1>2 DEF FirstDiffering
  <1>6. SUFFICES /\ log' \in Seq(Entry)
                 /\ (\A k \in 1 .. n : ~Differs(before, entries[k])) => log' = before
                 /\ \A f \in 1 .. n : FirstDiffering(f) => Spliced(log', f, n)
    <2>1. next' \in 1 .. Len(entries) + 1 /\ next' - 1 = n
          /\ last_new_entry_index' = prev_log_index + next' - 1
      BY <1>2, <1>4
    <2>2. ASSUME NEW f, Spliced(log', f, n) PROVE Spliced(log, f, next - 1)'
      BY <1>2, <2>1, <2>2 DEF Spliced
    <2>3. \A f \in 1 .. next' - 1 : FirstDiffering(f)' => Spliced(log, f, next - 1)'
      BY <1>5, <1>6, <2>1, <2>2
    <2> QED BY <1>2, <1>3, <1>6, <2>1, <2>3 DEF AppendInv
  <1>7. CASE \A k \in 1 .. n - 1 : ~Differs(before, entries[k])
    <2>1. log = before
      BY <1>1, <1>7 DEF AppendInv
    <2>2. prev_log_index + n <= Len(before)
      <3>1. CASE n = 1
        BY <1>4, <3>1
      <3>2. CASE n # 1
        <4>1. n - 1 \in DOMAIN entries /\ n - 1 \in 1 .. n - 1
          BY <1>2, <1>3, <3>2, MessageFacts
        <4>2. ~ (prev_log_index + (n - 1) + 1 > Len(before))
          BY <1>3, <1>7, <4>1, FitsInLog
        <4> QED BY <1>2, <1>4, <4>2
      <3> QED BY <3>1, <3>2
    <2>3. CASE ~Differs(before, e)
      <3>1. prev_log_index + n + 1 \in DOMAIN before /\ before[prev_log_index + n + 1].term = e.term
        <4>1. n \in DOMAIN entries
          BY <1>2, <1>3, MessageFacts
        <4>2. /\ ~ (prev_log_index + n + 1 > Len(before))
              /\ ~ (before[prev_log_index + n + 1].term # e.term)
          BY <1>1, <1>3, <2>3, <4>1, FitsInLog
        <4>3. PICK k : k = prev_log_index + n + 1
          OBVIOUS
        <4>4. k \in 1 .. Len(before)
          BY <1>2, <1>4, <4>2, <4>3
        <4> QED BY <1>4, <4>2, <4>3, <4>4
      <3>2. log' = before
        BY <1>2, <1>4, <2>1, <3>1 DEF Iterate
      <3>3. \A k \in 1 .. n : ~Differs(before, entries[k])
        BY <1>1, <1>2, <1>7, <2>3
      <3> QED BY <1>4, <3>2, <3>3 DEF FirstDiffering
    <2>4. CASE Differs(before, e)
      <3>1. n \in DOMAIN entries /\ FirstDiffering(n)
        BY <1>1, <1>2, <1>3, <1>7, <2>4, MessageFacts DEF FirstDiffering
      <3> DEFINE s == SubSeq(before, 1, prev_log_index + n)
      <3>2. log' = Append(s, e)
        <4>1. CASE prev_log_index + n + 1 > Len(before)
          <5>1. s = before
            <6>1. prev_log_index + n = Len(before)
              <7>1. n \in Nat /\ prev_log_index \in Nat /\ Len(before) \in Nat
                BY <1>2, <1>4
              <7>2. PICK k : k = prev_log_index + n
                OBVIOUS
              <7>3. k <= Len(before) /\ k + 1 > Len(before) /\ k \in Nat
                BY <2>2, <4>1, <7>1, <7>2
              <7> QED BY <7>1, <7>2, <7>3
            <6> QED BY <1>4, <6>1, SubSeqFull
          <5>2. e.index + 1 \notin DOMAIN before
            <6>1. e.index + 1 = prev_log_index + n + 1
              BY <1>2, <1>4
            <6> QED BY <1>4, <4>1, <6>1
          <5>3. Iterate(before, e) = Append(before, e)
            BY <5>2 DEF Iterate
          <5> QED BY <1>2, <2>1, <5>1, <5>3
        <4>2. CASE ~ (prev_log_index + n + 1 > Len(before))
          <5>1. /\ prev_log_index + n + 1 \in DOMAIN before
                /\ before[prev_log_index + n + 1].term # e.term
            BY <1>1, <1>2, <1>3, <1>4, <2>4, <3>1, <4>2, FitsInLog
          <5>2. Smaller(e.index, Len(before)) = prev_log_index + n
            BY <1>2, <1>4, <2>2 DEF Smaller
          <5> QED BY <1>2, <1>4, <2>1, <5>1, <5>2 DEF Iterate, Truncate
        <4> QED BY <4>1, <4>2
      <3>3. /\ s \in Seq(Entry) /\ Len(s) = prev_log_index + n
            /\ \A p \in 1 .. prev_log_index + n : s[p] = before[p]
        <4>1. \A p \in 1 .. prev_log_index + n : before[p] \in Entry
          BY <1>2, <1>3, <1>4, <2>2, MessageFacts
        <4>2. PICK m \in Nat : m = prev_log_index + n
          BY <1>2, <1>4
        <4>3. /\ SubSeq(before, 1, m) \in Seq(Entry)
              /\ Len(SubSeq(before, 1, m)) = IF 1 <= m THEN m - 1 + 1 ELSE 0
              /\ \A p \in 1 .. m - 1 + 1 : SubSeq(before, 1, m)[p] = before[1 + p - 1]
          BY <1>4, <4>1, <4>2, SubSeqProperties
        <4>4. m >= 1 /\ \A p \in 1 .. m : p \in 1 .. m - 1 + 1 /\ 1 + p - 1 = p
          BY <1>2, <1>4, <4>2
        <4> QED BY <4>2, <4>3, <4>4
      <3> HIDE DEF s
      <3>4. /\ log' \in Seq(Entry) /\ Len(log') = prev_log_index + n + 1
            /\ \A p \in 1 .. prev_log_index + n : log'[p] = before[p]
            /\ log'[prev_log_index + n + 1] = e
        BY <1>4, <3>2, <3>3, AppendProperties
      <3>5. Spliced(log', n, n)
        <4>1. ASSUME NEW p \in 1 .. prev_log_index + n + 1
              PROVE  log'[p] = IF p <= prev_log_index + n THEN before[p]
                               ELSE entries[p - prev_log_index - 1]
          <5>1. CASE p <= prev_log_index + n
            BY <1>2, <1>4, <3>4, <5>1
          <5>2. CASE ~ (p <= prev_log_index + n)
            <6>1. p = prev_log_index + n + 1 /\ p - prev_log_index - 1 = n
              BY <1>2, <1>4, <5>2
            <6> QED BY <1>1, <3>4, <5>2, <6>1
          <5> QED BY <5>1, <5>2
        <4> QED BY <2>2, <3>4, <4>1 DEF Spliced
      <3>6. \A f \in 1 .. n : FirstDiffering(f) => f = n
        BY <1>3, <3>1, OneFirst
      <3>7. ~ (\A k \in 1 .. n : ~Differs(before, entries[k]))
        BY <1>1, <1>2, <2>4
      <3> QED BY <3>4, <3>5, <3>6, <3>7
    <2> QED BY <2>3, <2>4
  <1>8. CASE ~ (\A k \in 1 .. n - 1 : ~Differs(before, entries[k]))
    <2>1. PICK f \in 1 .. n - 1 : FirstDiffering(f)
      <3>1. n - 1 \in 0 .. Len(entries)
        BY <1>2, <1>4
      <3> QED BY <1>3, <1>8, <3>1, FirstOfDiffering
    <2>2. Spliced(log, f, n - 1) /\ log \in Seq(Entry)
      BY <1>1, <2>1 DEF AppendInv
    <2>3. /\ f \in Nat /\ f >= 1 /\ f <= n - 1 /\ prev_log_index + f <= Len(before)
          /\ Len(log) = prev_log_index + n /\ DOMAIN log = 1 .. prev_log_index + n
          /\ \A p \in 1 .. Len(log) :
                log[p] = IF p <= prev_log_index + f THEN before[p] ELSE entries[p - prev_log_index - 1]
      <3>1. prev_log_index + (n - 1) + 1 = prev_log_index + n
        BY <1>2, <1>4
      <3> QED BY <1>2, <2>1, <2>2, <3>1, LenProperties DEF Spliced
    <2>4. log' = Append(log, e)
      BY <1>2, <1>4, <2>3 DEF Iterate
    <2>5. /\ log' \in Seq(Entry) /\ Len(log') = prev_log_index + n + 1
          /\ \A p \in 1 .. prev_log_index + n : log'[p] = log[p]
          /\ log'[prev_log_index + n + 1] = e
      BY <1>4, <2>2, <2>3, <2>4, AppendProperties
    <2>6. Spliced(log', f, n)
      <3>1. ASSUME NEW p \in 1 .. prev_log_index + n + 1
            PROVE  log'[p] = IF p <= prev_log_index + f THEN before[p]
                             ELSE entries[p - prev_log_index - 1]
        <4>1. CASE p <= prev_log_index + n
          BY <1>2, <1>4, <2>3, <2>5, <4>1
        <4>2. CASE ~ (p <= prev_log_index + n)
          <5>1. /\ p = prev_log_index + n + 1 /\ p - prev_log_index - 1 = n
                /\ ~ (p <= prev_log_index + f)
            BY <1>2, <1>4, <2>3, <4>2
          <5> QED BY <1>1, <2>5, <5>1
        <4> QED BY <4>1, <4>2
      <3> QED BY <2>3, <2>5, <3>1 DEF Spliced
    <2>7. \A g \in 1 .. n : FirstDiffering(g) => g = f
      BY <1>3, <2>1, OneFirst
    <2>8. ~ (\A k \in 1 .. n : ~Differs(before, entries[k]))
      BY <1>2, <1>8
    <2> QED BY <2>5, <2>6, <2>7, <2>8
  <1> QED BY <1>7, <1>8

LEMMA SplicedIsMerged ==
    ASSUME Message, NEW f, FirstDiffering(f), NEW l \in Seq(Entry), Spliced(l, f, Len(entries))
    PROVE  l = Merged(before, entries)
  <1> DEFINE new == {k \in DOMAIN entries : Differs(before, entries[k])}
             first == CHOOSE k \in new : \A m \in new : k <= m
  <1>1. /\ DOMAIN entries = 1 .. Len(entries) /\ f \in DOMAIN entries
        /\ Len(entries) \in Nat /\ f \in Nat /\ f >= 1 /\ f <= Len(entries)
        /\ entries \in Seq(Entry) /\ before \in Seq(Entry)
        /\ Len(before) \in Nat /\ prev_log_index \in Nat
        /\ entries[f].index = prev_log_index + f
    BY MessageFacts DEF FirstDiffering, Message
  <1>2. f \in new /\ \A m \in new : f <= m
    BY <1>1 DEF FirstDiffering
  <1>3. first = f
    <2>1. first \in new /\ \A m \in new : first <= m
      BY <1>2
    <2>2. first \in Nat /\ first <= f /\ f <= first
      BY <1>1, <1>2, <2>1
    <2> QED BY <1>1, <2>2
  <1>4. prev_log_index + f <= Len(before)
    BY DEF Spliced
  <1>5. PICK m \in Nat : m = prev_log_index + f /\ m >= 1 /\ m <= Len(before)
    BY <1>1, <1>4
  <1> DEFINE a == SubSeq(before, 1, m)
             b == SubSeq(entries, f, Len(entries))
  <1>6. Merged(before, entries) = a \o b
    <2>1. Smaller(entries[f].index, Len(before)) = m
      BY <1>1, <1>5 DEF Smaller
    <2>2. new # {}
      BY <1>2
    <2>3. Merged(before, entries) =
             IF new = {} THEN before
             ELSE SubSeq(before, 1, Smaller(entries[first].index, Len(before)))
                    \o SubSeq(entries, first, Len(entries))
      BY DEF Merged
    <2> HIDE DEF new, first
    <2> QED BY <1>3, <2>1, <2>2, <2>3
  <1>7. a \in Seq(Entry) /\ Len(a) = m /\ \A p \in 1 .. m : a[p] = before[p]
    <2>1. \A p \in 1 .. m : before[p] \in Entry
      BY <1>1, <1>5, MessageFacts
    <2>2. /\ a \in Seq(Entry) /\ Len(a) = IF 1 <= m THEN m - 1 + 1 ELSE 0
          /\ \A p \in 1 .. m - 1 + 1 : a[p] = before[1 + p - 1]
      BY <1>1, <2>1, SubSeqProperties
    <2>3. \A p \in 1 .. m : p \in 1 .. m - 1 + 1 /\ 1 + p - 1 = p
      OBVIOUS
    <2> QED BY <1>5, <2>2, <2>3
  <1>8. /\ b \in Seq(Entry) /\ Len(b) = Len(entries) - f + 1
        /\ \A p \in 1 .. Len(entries) - f + 1 : b[p] = entries[f + p - 1]
    <2>1. \A p \in f .. Len(entries) : entries[p] \in Entry
      BY <1>1, MessageFacts
    <2> QED BY <1>1, <2>1, SubSeqProperties
  <1> HIDE DEF a, b
  <1>9. PICK t : t = a \o b
    OBVIOUS
  <1>10. /\ t \in Seq(Entry) /\ Len(t) = m + (Len(entries) - f + 1)
         /\ \A p \in 1 .. Len(a) + Len(b) : t[p] = IF p <= Len(a) THEN a[p] ELSE b[p - Len(a)]
    <2>1. /\ a \o b \in Seq(Entry) /\ Len(a \o b) = Len(a) + Len(b)
          /\ \A p \in 1 .. Len(a) + Len(b) :
                (a \o b)[p] = IF p <= Len(a) THEN a[p] ELSE b[p - Len(a)]
      BY <1>7, <1>8, ConcatProperties
    <2> QED BY <1>7, <1>8, <1>9, <2>1
  <1>11. Len(l) = prev_log_index + Len(entries) + 1 /\ Len(t) = Len(l) /\ Len(l) = Len(a) + Len(b)
    <2>1. Len(l) = prev_log_index + Len(entries) + 1
      BY DEF Spliced
    <2>2. PICK x, y, z : x = Len(entries) /\ y = Len(a) /\ z = Len(b)
      OBVIOUS
    <2>3. x \in Nat /\ y = prev_log_index + f /\ z = x - f + 1 /\ Len(t) = y + z
      BY <1>1, <1>5, <1>7, <1>8, <1>10, <2>2
    <2>4. prev_log_index + x + 1 = y + z
      BY <1>1, <2>3
    <2> QED BY <2>1, <2>2, <2>3, <2>4
  <1>12. ASSUME NEW p \in 1 .. Len(l) PROVE l[p] = t[p]
    <2>1. l[p] = IF p <= m THEN before[p] ELSE entries[p - prev_log_index - 1]
      BY <1>5 DEF Spliced
    <2>2. t[p] = IF p <= m THEN a[p] ELSE b[p - m]
      BY <1>7, <1>10, <1>11
    <2>3. p \in Nat /\ p >= 1 /\ p <= prev_log_index + Len(entries) + 1
      BY <1>1, <1>11
    <2>4. CASE p <= m
      BY <1>7, <2>1, <2>2, <2>3, <2>4
    <2>5. CASE ~ (p <= m)
      <3>1. p - m \in 1 .. Len(entries) - f + 1 /\ f + (p - m) - 1 = p - prev_log_index - 1
        <4>1. PICK x : x = Len(entries)
          OBVIOUS
        <4>2. x \in Nat /\ p <= prev_log_index + x + 1 /\ m = prev_log_index + f
          BY <1>1, <1>5, <2>3, <4>1
        <4>3. p - m \in 1 .. x - f + 1 /\ f + (p - m) - 1 = p - prev_log_index - 1
          <5>1. PICK c : c = p - m
            OBVIOUS
          <5>2. c \in Nat /\ c >= 1 /\ p = m + c
            BY <2>3, <2>5, <5>1
          <5>3. c <= x - f + 1 /\ f + c - 1 = p - prev_log_index - 1
            <6>1. f \in Nat /\ prev_log_index \in Nat
              BY <1>1
            <6>2. p = prev_log_index + f + c /\ p <= prev_log_index + x + 1 /\ x \in Nat
              BY <4>2, <5>2
            <6>3. f + c <= x + 1
              BY <5>2, <6>1, <6>2
            <6> QED BY <5>2, <6>1, <6>2, <6>3
          <5> QED BY <1>1, <4>2, <5>1, <5>2, <5>3
        <4> QED BY <4>1, <4>3
      <3> QED BY <1>8, <2>1, <2>2, <2>5, <3>1
    <2> QED BY <2>4, <2>5
  <1>13. l = t
    BY <1>10, <1>11, <1>12, SeqEqual
  <1> QED BY <1>6, <1>9, <1>13

LEMMA OtherStepsKeepAppend ==
    ASSUME AppendInv, LeaveAppend \/ (\E j \in Peer : Collect(j)) \/ Choose \/ UNCHANGED vars
    PROVE  AppendInv'
  <1>1. UNCHANGED appendVars
    BY DEF LeaveAppend, Collect, Choose, vars
  <1>2. UNCHANGED <<before, prev_log_index, entries, next, log, last_new_entry_index>>
    BY <1>1 DEF appendVars
  <1>3. loop' # "append" => next = Len(entries) + 1
    <2>1. CASE LeaveAppend
      BY <2>1, MessageFacts DEF LeaveAppend, AppendInv
    <2>2. CASE \E j \in Peer : Collect(j)
      BY <2>2 DEF Collect, AppendInv
    <2>3. CASE Choose
      BY <2>3 DEF Choose, AppendInv
    <2>4. CASE UNCHANGED vars
      BY <2>4 DEF vars, AppendInv
    <2> QED BY <2>1, <2>2, <2>3, <2>4
  <1>4. Message'
    BY <1>2 DEF AppendInv, Message
  <1>5. ASSUME NEW f \in 1 .. next - 1, FirstDiffering(f)' PROVE Spliced(log, f, next - 1)'
    <2>1. FirstDiffering(f)
      BY <1>2, <1>5 DEF FirstDiffering
    <2>2. Spliced(log, f, next - 1)
      BY <1>5, <2>1 DEF AppendInv
    <2> QED BY <1>2, <2>2 DEF Spliced
  <1>6. \A f \in 1 .. next' - 1 : FirstDiffering(f)' => Spliced(log, f, next - 1)'
    BY <1>2, <1>5
  <1> QED BY <1>2, <1>3, <1>4, <1>6 DEF AppendInv

\* What the append loop leaves is what Merged computes.
LEMMA DoneIsMerged == ASSUME AppendInv PROVE LoopComputesMerged
  <1> SUFFICES ASSUME loop = "done" PROVE LoopComputesMerged
    BY DEF LoopComputesMerged
  <1>1. /\ Message /\ log \in Seq(Entry) /\ Len(entries) \in Nat /\ prev_log_index \in Nat
        /\ entries \in Seq(Entry) /\ before \in Seq(Entry) /\ DOMAIN entries = 1 .. Len(entries)
        /\ next - 1 = Len(entries) /\ last_new_entry_index = prev_log_index + Len(entries)
    <2>1. Message /\ next = Len(entries) + 1 /\ last_new_entry_index = prev_log_index + next - 1
      BY DEF AppendInv
    <2>2. Len(entries) \in Nat /\ prev_log_index \in Nat /\ DOMAIN entries = 1 .. Len(entries)
      BY <2>1, MessageFacts
    <2> QED BY <2>1, <2>2 DEF AppendInv, Message
  <1>2. log = Merged(before, entries)
    <2>1. CASE \A k \in 1 .. Len(entries) : ~Differs(before, entries[k])
      <3>1. log = before
        BY <1>1, <2>1 DEF AppendInv
      <3>2. {k \in DOMAIN entries : Differs(before, entries[k])} = {}
        BY <1>1, <2>1
      <3> QED BY <3>1, <3>2 DEF Merged
    <2>2. CASE \E f \in 1 .. Len(entries) : FirstDiffering(f)
      <3>1. PICK f \in 1 .. Len(entries) : FirstDiffering(f)
        BY <2>2
      <3>2. Spliced(log, f, Len(entries))
        BY <1>1, <3>1 DEF AppendInv
      <3> QED BY <1>1, <3>1, <3>2, SplicedIsMerged
    <2>3. Len(entries) \in 0 .. Len(entries)
      BY <1>1
    <2> QED BY <1>1, <2>1, <2>2, <2>3, FirstOfDiffering
  <1>3. last_new_entry_index = LastNewEntryIndex(prev_log_index, entries)
    <2>1. CASE Len(entries) = 0
      <3>1. entries = <<>>
        BY <1>1, <2>1, EmptySeq
      <3> QED BY <1>1, <2>1, <3>1 DEF LastNewEntryIndex
    <2>2. CASE Len(entries) # 0
      <3>1. entries # <<>> /\ Len(entries) \in DOMAIN entries
        BY <1>1, <2>2
      <3>2. entries[Len(entries)].index = prev_log_index + Len(entries)
        BY <1>1, <3>1 DEF Message
      <3> QED BY <1>1, <3>1, <3>2 DEF LastNewEntryIndex, Last
    <2> QED BY <2>1, <2>2
  <1> QED BY <1>2, <1>3 DEF LoopComputesMerged

LEMMA PositionsAreIndices == ASSUME AppendInv PROVE IndexIsPosition
  <1>1. Message /\ log \in Seq(Entry) /\ next \in 1 .. Len(entries) + 1
    BY DEF AppendInv
  <1>2. /\ Len(entries) \in Nat /\ prev_log_index \in Nat /\ Len(before) \in Nat
        /\ DOMAIN entries = 1 .. Len(entries) /\ DOMAIN before = 1 .. Len(before)
        /\ Len(log) \in Nat /\ DOMAIN log = 1 .. Len(log)
    BY <1>1, MessageFacts, LenProperties
  <1>3. PICK n \in 0 .. Len(entries) : n = next - 1
    BY <1>1, <1>2
  <1>4. CASE \A k \in 1 .. n : ~Differs(before, entries[k])
    <2>1. log = before
      BY <1>3, <1>4 DEF AppendInv
    <2> QED BY <1>1, <2>1 DEF IndexIsPosition, Message
  <1>5. CASE \E f \in 1 .. n : FirstDiffering(f)
    <2>1. PICK f \in 1 .. n : FirstDiffering(f)
      BY <1>5
    <2>2. Spliced(log, f, n)
      BY <1>3, <2>1 DEF AppendInv
    <2>3. ASSUME NEW p \in DOMAIN log PROVE log[p].index = p - 1
      <3>1. /\ p \in Nat /\ p >= 1 /\ p <= prev_log_index + n + 1
            /\ log[p] = IF p <= prev_log_index + f THEN before[p] ELSE entries[p - prev_log_index - 1]
            /\ prev_log_index + f <= Len(before) /\ f \in Nat
        BY <1>2, <2>2, <2>3 DEF Spliced
      <3>2. CASE p <= prev_log_index + f
        <4>1. p \in DOMAIN before
          BY <1>2, <3>1, <3>2
        <4> QED BY <1>1, <3>1, <3>2, <4>1 DEF Message
      <3>3. CASE ~ (p <= prev_log_index + f)
        <4>1. PICK k : k = p - prev_log_index - 1
          OBVIOUS
        <4>2. k \in DOMAIN entries /\ prev_log_index + k = p - 1
          BY <1>2, <3>1, <3>3, <4>1
        <4> QED BY <1>1, <3>1, <3>3, <4>1, <4>2 DEF Message
      <3> QED BY <3>2, <3>3
    <2> QED BY <2>3 DEF IndexIsPosition
  <1> QED BY <1>1, <1>4, <1>5, FirstOfDiffering

-----------------------------------------------------------------------------
(* handle_append_entries_reply *)

Reaching(s, v) == {i \in DOMAIN s : s[i] >= v}

\* The positions whose elements stand before the i-th or in its place in a sorted array.
NotAfter(s, i) == {j \in DOMAIN s : s[j] < s[i] \/ (s[j] = s[i] /\ j <= i)}

LEMMA SeqFacts ==
    ASSUME NEW s \in Seq(Nat)
    PROVE  /\ Len(s) \in Nat /\ DOMAIN s = 1 .. Len(s)
           /\ \A i \in DOMAIN s : s[i] \in Nat
           /\ IsFiniteSet(DOMAIN s) /\ Cardinality(DOMAIN s) = Len(s)
  <1>1. Len(s) \in Nat /\ DOMAIN s = 1 .. Len(s) /\ \A i \in DOMAIN s : s[i] \in Nat
    BY LenProperties, ElementOfSeq
  <1>2. PICK n \in Nat : n = Len(s)
    BY <1>1
  <1>3. IsFiniteSet(1 .. n) /\ Cardinality(1 .. n) = n
    BY FS_Interval
  <1> QED BY <1>1, <1>2, <1>3

LEMMA RankBounds ==
    ASSUME NEW s \in Seq(Nat), NEW i \in DOMAIN s
    PROVE  /\ IsFiniteSet(NotAfter(s, i)) /\ NotAfter(s, i) \subseteq DOMAIN s
           /\ i \in NotAfter(s, i)
           /\ Rank(s, i) = Cardinality(NotAfter(s, i)) /\ Rank(s, i) \in DOMAIN s
  <1>1. NotAfter(s, i) \subseteq DOMAIN s /\ i \in NotAfter(s, i)
    BY SeqFacts DEF NotAfter
  <1>2. IsFiniteSet(NotAfter(s, i)) /\ Cardinality(NotAfter(s, i)) <= Len(s)
    BY <1>1, SeqFacts, FS_Subset
  <1>3. Cardinality(NotAfter(s, i)) \in Nat /\ Cardinality(NotAfter(s, i)) # 0
    BY <1>1, <1>2, FS_CardinalityType, FS_EmptySet
  <1>4. Rank(s, i) = Cardinality(NotAfter(s, i))
    BY DEF Rank, NotAfter
  <1> QED BY <1>1, <1>2, <1>3, <1>4, SeqFacts

LEMMA InOrder ==
    ASSUME NEW s \in Seq(Nat), NEW i \in DOMAIN s, NEW k \in DOMAIN s,
           s[i] < s[k] \/ (s[i] = s[k] /\ i <= k)
    PROVE  NotAfter(s, i) \subseteq NotAfter(s, k)
  <1> SUFFICES ASSUME NEW j \in NotAfter(s, i) PROVE j \in NotAfter(s, k)
    OBVIOUS
  <1>1. j \in DOMAIN s /\ (s[j] < s[i] \/ (s[j] = s[i] /\ j <= i))
    BY DEF NotAfter
  <1>2. /\ i \in Nat /\ k \in Nat /\ j \in Nat
        /\ s[i] \in Nat /\ s[k] \in Nat /\ s[j] \in Nat
    BY <1>1, SeqFacts
  <1>3. s[j] < s[k] \/ (s[j] = s[k] /\ j <= k)
    <2>1. PICK u, v, w : u = s[j] /\ v = s[i] /\ w = s[k]
      OBVIOUS
    <2>2. CASE v < w
      BY <1>1, <1>2, <2>1, <2>2
    <2>3. CASE v = w /\ i <= k
      BY <1>1, <1>2, <2>1, <2>3
    <2> QED BY <2>1, <2>2, <2>3
  <1> QED BY <1>1, <1>3 DEF NotAfter

LEMMA RanksDiffer ==
    ASSUME NEW s \in Seq(Nat), NEW i \in DOMAIN s, NEW k \in DOMAIN s, Rank(s, i) = Rank(s, k)
    PROVE  i = k
  <1>1. /\ IsFiniteSet(NotAfter(s, i)) /\ IsFiniteSet(NotAfter(s, k))
        /\ Cardinality(NotAfter(s, i)) = Cardinality(NotAfter(s, k))
        /\ i \in NotAfter(s, i) /\ k \in NotAfter(s, k)
    BY RankBounds
  <1>2. i \in Nat /\ k \in Nat /\ s[i] \in Nat /\ s[k] \in Nat
    BY SeqFacts
  <1>3. NotAfter(s, i) \subseteq NotAfter(s, k) \/ NotAfter(s, k) \subseteq NotAfter(s, i)
    <2>1. \A j \in DOMAIN s : j \in Nat /\ s[j] \in Nat
      BY SeqFacts
    <2>2. CASE s[i] < s[k] \/ (s[i] = s[k] /\ i <= k)
      BY <1>2, <2>1, <2>2, InOrder
    <2>3. CASE ~ (s[i] < s[k] \/ (s[i] = s[k] /\ i <= k))
      <3>1. s[k] < s[i] \/ (s[k] = s[i] /\ k <= i)
        BY <1>2, <2>3
      <3> QED BY <1>2, <2>1, <3>1, InOrder
    <2> QED BY <2>2, <2>3
  <1>4. NotAfter(s, i) = NotAfter(s, k)
    BY <1>1, <1>3, FS_Subset
  <1>5. i \in NotAfter(s, k) /\ k \in NotAfter(s, i)
    BY <1>1, <1>4
  <1> QED BY <1>2, <1>5 DEF NotAfter

\* Every position of the sorted array is the rank of an element.
LEMMA RanksOnto ==
    ASSUME NEW s \in Seq(Nat), NEW q \in DOMAIN s
    PROVE  \E i \in DOMAIN s : Rank(s, i) = q
  <1> DEFINE D == DOMAIN s
             r == [i \in D |-> Rank(s, i)]
  <1>1. r \in [D -> D]
    BY RankBounds
  <1>2. \A i, k \in D : r[i] = r[k] => i = k
    BY RanksDiffer
  <1>3. r \in Injection(D, D)
    BY <1>1, <1>2 DEF Injection, IsInjective
  <1>4. IsFiniteSet(D)
    BY SeqFacts
  <1>5. r \in Surjection(D, D)
    BY <1>3, <1>4, FS_Injection
  <1>6. \E i \in D : r[i] = q
    BY <1>5 DEF Surjection
  <1> QED BY <1>6

LEMMA SortedElement ==
    ASSUME NEW s \in Seq(Nat)
    PROVE  /\ Sorted(s) \in Seq(Nat) /\ Len(Sorted(s)) = Len(s)
           /\ \A q \in DOMAIN s : \E i \in DOMAIN s : Rank(s, i) = q /\ Sorted(s)[q] = s[i]
  <1>1. ASSUME NEW q \in DOMAIN s
        PROVE  \E i \in DOMAIN s : Rank(s, i) = q /\ Sorted(s)[q] = s[i]
    <2>1. PICK i : i = CHOOSE k \in DOMAIN s : Rank(s, k) = q
      OBVIOUS
    <2>2. i \in DOMAIN s /\ Rank(s, i) = q
      BY <2>1, RanksOnto
    <2>3. Sorted(s)[q] = s[i]
      BY <2>1 DEF Sorted
    <2> QED BY <2>2, <2>3
  <1>2. Sorted(s) \in [1 .. Len(s) -> Nat]
    <2>1. \A q \in DOMAIN s : Sorted(s)[q] \in Nat
      BY <1>1, SeqFacts
    <2>2. Sorted(s) = [q \in DOMAIN s |-> Sorted(s)[q]]
      BY DEF Sorted
    <2> QED BY <2>1, <2>2, SeqFacts
  <1>3. Sorted(s) \in Seq(Nat) /\ Len(Sorted(s)) = Len(s)
    BY <1>2, SeqFacts
  <1> QED BY <1>1, <1>3

\* At least as many elements as the position and those after it are as large as
\* the element there; of larger numbers fewer are.
LEMMA SortedCounts ==
    ASSUME NEW s \in Seq(Nat), NEW q \in DOMAIN s
    PROVE  /\ Cardinality(Reaching(s, Sorted(s)[q])) >= Len(s) - q + 1
           /\ \A w \in Nat : w > Sorted(s)[q] => Cardinality(Reaching(s, w)) <= Len(s) - q
  <1>1. PICK i \in DOMAIN s : Rank(s, i) = q /\ Sorted(s)[q] = s[i]
    BY SortedElement
  <1>2. PICK R : R = NotAfter(s, i)
    OBVIOUS
  <1>3. /\ R \subseteq DOMAIN s /\ i \in R /\ IsFiniteSet(R) /\ Cardinality(R) = q
        /\ IsFiniteSet(DOMAIN s) /\ Cardinality(DOMAIN s) = Len(s) /\ Len(s) \in Nat /\ q \in Nat
        /\ \A j \in DOMAIN s : j \in Nat /\ s[j] \in Nat
    BY <1>1, <1>2, RankBounds, SeqFacts
  <1>4. PICK A : A = DOMAIN s \ R
    OBVIOUS
  <1>5. IsFiniteSet(A) /\ Cardinality(A) = Len(s) - q
    <2>1. PICK D : D = DOMAIN s
      OBVIOUS
    <2>2. D \cap R = R
      BY <1>3, <2>1
    <2>3. /\ IsFiniteSet(D \ R)
          /\ Cardinality(D \ R) = Cardinality(D) - Cardinality(D \cap R)
      BY <1>3, <2>1, FS_Difference
    <2> QED BY <1>3, <1>4, <2>1, <2>2, <2>3
  <1>6. i \notin A
    BY <1>3, <1>4
  <1>7. IsFiniteSet(A \cup {i}) /\ Cardinality(A \cup {i}) = Len(s) - q + 1
    BY <1>5, <1>6, FS_AddElement
  <1>8. ASSUME NEW v PROVE IsFiniteSet(Reaching(s, v))
    BY <1>3, FS_Subset DEF Reaching
  <1>9. A \cup {i} \subseteq Reaching(s, s[i])
    BY <1>2, <1>3, <1>4 DEF Reaching, NotAfter
  <1>10. Cardinality(A \cup {i}) <= Cardinality(Reaching(s, s[i]))
    BY <1>8, <1>9, FS_Subset
  <1>11. Cardinality(Reaching(s, s[i])) >= Len(s) - q + 1
    <2>1. Cardinality(Reaching(s, s[i])) \in Nat
      BY <1>8, FS_CardinalityType
    <2> QED BY <1>3, <1>7, <1>10, <2>1
  <1>12. ASSUME NEW w \in Nat, w > s[i] PROVE Cardinality(Reaching(s, w)) <= Len(s) - q
    <2>1. Reaching(s, w) \subseteq A
      BY <1>2, <1>3, <1>4, <1>12 DEF Reaching, NotAfter
    <2> QED BY <1>5, <2>1, FS_Subset
  <1> QED BY <1>1, <1>11, <1>12

LEMMA AppendReaching ==
    ASSUME NEW s \in Seq(Nat), NEW x \in Nat, NEW v \in Nat
    PROVE  Cardinality(Reaching(Append(s, x), v)) =
             IF x >= v THEN Cardinality(Reaching(s, v)) + 1 ELSE Cardinality(Reaching(s, v))
  <1>1. PICK t, n : t = Append(s, x) /\ n = Len(s)
    OBVIOUS
  <1>2. /\ n \in Nat /\ DOMAIN s = 1 .. n /\ IsFiniteSet(DOMAIN s)
        /\ DOMAIN t = 1 .. n + 1 /\ t[n + 1] = x /\ \A i \in 1 .. n : t[i] = s[i]
    BY <1>1, SeqFacts, AppendProperties
  <1>3. IsFiniteSet(Reaching(s, v)) /\ n + 1 \notin Reaching(s, v)
    <2>1. Reaching(s, v) \subseteq DOMAIN s
      BY DEF Reaching
    <2> QED BY <1>2, <2>1, FS_Subset
  <1>4. CASE x >= v
    <2>1. Reaching(t, v) = Reaching(s, v) \cup {n + 1}
      BY <1>2, <1>4 DEF Reaching
    <2> QED BY <1>1, <1>3, <1>4, <2>1, FS_AddElement
  <1>5. CASE ~ (x >= v)
    <2>1. Reaching(t, v) = Reaching(s, v)
      BY <1>2, <1>5 DEF Reaching
    <2> QED BY <1>1, <1>5, <2>1
  <1> QED BY <1>4, <1>5

Reached == [j \in DOMAIN match_indices \cup {Leader} |->
              IF j = Leader THEN leader_last_index ELSE match_indices[j]]

Collecting ==
    loop = "commit" =>
        /\ match_indices \in [DOMAIN match_indices -> Nat]
        /\ IsFiniteSet(DOMAIN match_indices) /\ Leader \notin DOMAIN match_indices
        /\ leader_last_index \in Nat
        /\ collected \subseteq DOMAIN match_indices
        /\ match_array \in Seq(Nat)
        /\ Len(match_array) = Cardinality(collected)
        /\ \A i \in DOMAIN match_array :
              \E j \in DOMAIN match_indices : match_array[i] = match_indices[j]
        /\ \A v \in Nat : Cardinality(Reaching(match_array, v))
                            = Cardinality({j \in collected : match_indices[j] >= v})

LEMMA CollectingInit == Init => Collecting
  <1> SUFFICES ASSUME Init, loop = "commit" PROVE Collecting
    BY DEF Collecting
  <1>1. CommitBegins
    BY DEF Init
  <1>2. PICK peers \in SUBSET Peer : match_indices \in [peers -> 0 .. MaxIndex]
    BY <1>1 DEF CommitBegins
  <1>3. DOMAIN match_indices = peers /\ match_indices \in [DOMAIN match_indices -> Nat]
    BY <1>2, LoopAssumption
  <1>4. IsFiniteSet(peers) /\ Leader \notin peers
    BY <1>2, LoopAssumption, FS_Subset
  <1>5. /\ leader_last_index \in Nat /\ collected = {} /\ match_array = <<>>
        /\ match_array \in Seq(Nat) /\ Len(match_array) = 0 /\ DOMAIN match_array = {}
    BY <1>1, LoopAssumption DEF CommitBegins
  <1>6. \A v : Reaching(match_array, v) = {} /\ {j \in collected : match_indices[j] >= v} = {}
    BY <1>5 DEF Reaching
  <1>7. \A v \in Nat : Cardinality(Reaching(match_array, v))
                         = Cardinality({j \in collected : match_indices[j] >= v})
    BY <1>6
  <1> QED BY <1>3, <1>4, <1>5, <1>7, FS_EmptySet DEF Collecting

LEMMA CollectKeeps == ASSUME Collecting, NEW j \in Peer, Collect(j) PROVE Collecting'
  <1>1. /\ loop = "commit" /\ j \in DOMAIN match_indices /\ j \notin collected
        /\ collected' = collected \cup {j} /\ match_array' = Append(match_array, match_indices[j])
        /\ UNCHANGED <<loop, match_indices, leader_last_index>>
    BY DEF Collect
  <1>2. /\ match_indices \in [DOMAIN match_indices -> Nat]
        /\ IsFiniteSet(DOMAIN match_indices) /\ Leader \notin DOMAIN match_indices
        /\ leader_last_index \in Nat /\ collected \subseteq DOMAIN match_indices
        /\ match_array \in Seq(Nat) /\ Len(match_array) = Cardinality(collected)
        /\ match_indices[j] \in Nat
    BY <1>1 DEF Collecting
  <1>3. PICK x \in Nat : x = match_indices[j]
    BY <1>2
  <1>4. IsFiniteSet(collected) /\ Cardinality(collected') = Cardinality(collected) + 1
    BY <1>1, <1>2, FS_Subset, FS_AddElement
  <1>5. PICK n : n = Len(match_array)
    OBVIOUS
  <1>6. /\ n \in Nat /\ DOMAIN match_array = 1 .. n
        /\ match_array' \in Seq(Nat) /\ Len(match_array') = n + 1 /\ DOMAIN match_array' = 1 .. n + 1
        /\ match_array'[n + 1] = x /\ \A i \in 1 .. n : match_array'[i] = match_array[i]
    BY <1>1, <1>2, <1>3, <1>5, SeqFacts, AppendProperties
  <1>7. ASSUME NEW i \in DOMAIN match_array'
        PROVE  \E k \in DOMAIN match_indices : match_array'[i] = match_indices[k]
    <2>1. CASE i = n + 1
      BY <1>1, <1>3, <1>6, <2>1
    <2>2. CASE i # n + 1
      <3>1. i \in DOMAIN match_array /\ match_array'[i] = match_array[i]
        BY <1>6, <2>2
      <3> QED BY <1>1, <3>1 DEF Collecting
    <2> QED BY <2>1, <2>2
  <1>8. ASSUME NEW v \in Nat
        PROVE  Cardinality(Reaching(match_array', v))
                 = Cardinality({k \in collected' : match_indices[k] >= v})
    <2>1. PICK C : C = {k \in collected : match_indices[k] >= v}
      OBVIOUS
    <2>2. Cardinality(Reaching(match_array, v)) = Cardinality(C)
      BY <1>1, <2>1 DEF Collecting
    <2>3. IsFiniteSet(C) /\ j \notin C
      <3>1. C \subseteq collected
        BY <2>1
      <3> QED BY <1>1, <1>4, <3>1, FS_Subset
    <2>4. Cardinality(Reaching(match_array', v)) =
            IF x >= v THEN Cardinality(C) + 1 ELSE Cardinality(C)
      BY <1>1, <1>2, <1>3, <2>2, AppendReaching
    <2>5. CASE x >= v
      <3>1. {k \in collected' : match_indices[k] >= v} = C \cup {j}
        BY <1>1, <1>3, <2>1, <2>5
      <3>2. Cardinality(Reaching(match_array', v)) = Cardinality(C) + 1
        BY <2>4, <2>5
      <3>3. Cardinality(C \cup {j}) = Cardinality(C) + 1
        BY <2>3, FS_AddElement
      <3> QED BY <3>1, <3>2, <3>3, Zenon
    <2>6. CASE ~ (x >= v)
      <3>1. {k \in collected' : match_indices[k] >= v} = C
        BY <1>1, <1>3, <2>1, <2>6
      <3>2. Cardinality(Reaching(match_array', v)) = Cardinality(C)
        BY <2>4, <2>6
      <3> QED BY <3>1, <3>2, Zenon
    <2> QED BY <2>5, <2>6
  <1>9. collected' \subseteq DOMAIN match_indices
    BY <1>1, <1>2
  <1>10. \A v \in Nat : Cardinality(Reaching(match_array', v))
                         = Cardinality({k \in collected' : match_indices'[k] >= v})
    BY <1>1, <1>8
  <1>11. Len(match_array') = Cardinality(collected')
    BY <1>2, <1>4, <1>5, <1>6
  <1> QED BY <1>1, <1>2, <1>6, <1>7, <1>9, <1>10, <1>11 DEF Collecting, Reaching

LEMMA OtherStepsKeepCollecting ==
    ASSUME Collecting, TakeEntry \/ LeaveAppend \/ Choose \/ UNCHANGED vars
    PROVE  Collecting'
  <1>1. CASE TakeEntry \/ LeaveAppend \/ Choose
    <2>1. loop' # "commit"
      BY <1>1 DEF TakeEntry, LeaveAppend, Choose
    <2> QED BY <2>1 DEF Collecting
  <1>2. CASE UNCHANGED vars
    BY <1>2 DEF vars, commitVars, Collecting, Reaching
  <1> QED BY <1>1, <1>2

\* HighestAgreed is the number a majority has reached if no majority has reached a larger one.
LEMMA HighestAgreedIs ==
    ASSUME NEW reached, NEW n, n = Cardinality(DOMAIN reached),
           NEW v \in Nat, NEW k \in DOMAIN reached, v = reached[k],
           \A j \in DOMAIN reached : reached[j] \in Nat,
           Cardinality(Reaching(reached, v)) >= MajoritySize(n),
           \A w \in Nat : w > v => ~ (Cardinality(Reaching(reached, w)) >= MajoritySize(n))
    PROVE  HighestAgreed(reached) = v
  <1> DEFINE candidates ==
               {w \in {reached[j] : j \in DOMAIN reached} :
                   Cardinality({j \in DOMAIN reached : reached[j] >= w}) >= MajoritySize(Cardinality(DOMAIN reached))}
  <1>1. HighestAgreed(reached) = CHOOSE w \in candidates : \A u \in candidates : u <= w
    BY DEF HighestAgreed
  <1>2. candidates \subseteq Nat /\ v \in candidates
    BY DEF Reaching
  <1>3. ASSUME NEW w \in candidates PROVE w <= v
    <2>1. w \in Nat /\ Cardinality(Reaching(reached, w)) >= MajoritySize(n)
      BY <1>3 DEF Reaching
    <2> QED BY <2>1
  <1> HIDE DEF candidates
  <1>4. \A w \in candidates : (\A u \in candidates : u <= w) => w = v
    BY <1>2, <1>3
  <1>5. \E w \in candidates : \A u \in candidates : u <= w
    BY <1>2, <1>3
  <1>6. PICK c : c = CHOOSE w \in candidates : \A u \in candidates : u <= w
    OBVIOUS
  <1>7. c \in candidates /\ \A u \in candidates : u <= c
    BY <1>5, <1>6
  <1> QED BY <1>1, <1>4, <1>6, <1>7

LEMMA ChooseAgrees == ASSUME Collecting, Choose PROVE MedianIsAgreed'
  <1> DEFINE s == Append(match_array, leader_last_index)
             n == Len(s)
             q == MedianPosition(n, Cardinality(collected))
  <1>1. /\ loop = "commit" /\ collected = DOMAIN match_indices
        /\ match_indices \in [DOMAIN match_indices -> Nat]
        /\ IsFiniteSet(DOMAIN match_indices) /\ Leader \notin DOMAIN match_indices
        /\ leader_last_index \in Nat
        /\ match_array \in Seq(Nat) /\ Len(match_array) = Cardinality(collected)
        /\ UNCHANGED <<match_indices, leader_last_index>>
    BY DEF Choose, Collecting
  <1>2. PICK P \in Nat : P = Cardinality(collected)
    BY <1>1, FS_CardinalityType
  <1>3. /\ s \in Seq(Nat) /\ n = P + 1 /\ DOMAIN s = 1 .. P + 1
        /\ \A i \in 1 .. P : s[i] = match_array[i]
        /\ s[P + 1] = leader_last_index
    BY <1>1, <1>2, SeqFacts, AppendProperties
  <1>4. Len(Sorted(s)) = n
    BY <1>3, SortedElement
  <1>5. potential_commit_index' = Sorted(s)[q]
    BY <1>4 DEF Choose
  <1>6. q = P + 1 - MajoritySize(P + 1) + 1 /\ q \in 1 .. P + 1
        /\ MajoritySize(P + 1) \in Nat
    <2>1. q = P + 1 - MajoritySize(P + 1) + 1
      <3>1. q = MedianPosition(n, Cardinality(collected))
        OBVIOUS
      <3> HIDE DEF q, n, s
      <3>2. q = MedianPosition(P + 1, P)
        BY <1>2, <1>3, <3>1
      <3> QED BY <3>2 DEF MedianPosition, MajoritySize
    <2> HIDE DEF q
    <2> QED BY <2>1 DEF MajoritySize
  <1> HIDE DEF s, n, q
  <1>7. PICK v : v = Sorted(s)[q]
    OBVIOUS
  <1>8. PICK i \in DOMAIN s : v = s[i]
    BY <1>3, <1>6, <1>7, SortedElement
  <1>9. v \in Nat
    BY <1>3, <1>8, SeqFacts
  <1>10. /\ Cardinality(Reaching(s, v)) >= MajoritySize(P + 1)
         /\ \A w \in Nat : w > v => ~ (Cardinality(Reaching(s, w)) >= MajoritySize(P + 1))
    <2>1. \A w : Cardinality(Reaching(s, w)) \in Nat
      <3>1. \A w : Reaching(s, w) \subseteq DOMAIN s
        BY DEF Reaching
      <3>2. IsFiniteSet(DOMAIN s)
        BY <1>3, SeqFacts
      <3> QED BY <3>1, <3>2, FS_Subset, FS_CardinalityType
    <2>2. /\ Cardinality(Reaching(s, v)) >= n - q + 1
          /\ \A w \in Nat : w > v => Cardinality(Reaching(s, w)) <= n - q
      <3>1. q \in DOMAIN s
        BY <1>3, <1>6
      <3>2. /\ Cardinality(Reaching(s, Sorted(s)[q])) >= Len(s) - q + 1
            /\ \A w \in Nat : w > Sorted(s)[q] => Cardinality(Reaching(s, w)) <= Len(s) - q
        BY <1>3, <3>1, SortedCounts
      <3> QED BY <1>7, <3>2 DEF n
    <2>3. n - q + 1 = MajoritySize(P + 1) /\ n - q = MajoritySize(P + 1) - 1
      BY <1>3, <1>6
    <2> QED BY <1>6, <2>1, <2>2, <2>3
  <1>11. PICK r : r = Reached
    OBVIOUS
  <1>12. /\ DOMAIN r = collected \cup {Leader} /\ r[Leader] = leader_last_index
         /\ \A j \in collected : r[j] = match_indices[j]
    BY <1>1, <1>11 DEF Reached
  <1>13. Cardinality(DOMAIN r) = P + 1
    BY <1>1, <1>2, <1>12, FS_AddElement
  <1>14. \A j \in DOMAIN r : r[j] \in Nat
    BY <1>1, <1>12
  <1>15. \E k \in DOMAIN r : v = r[k]
    <2>1. CASE i = P + 1
      BY <1>3, <1>8, <1>12, <2>1
    <2>2. CASE i # P + 1
      <3>1. i \in DOMAIN match_array /\ v = match_array[i]
        BY <1>1, <1>2, <1>3, <1>8, <2>2, SeqFacts
      <3>2. PICK j \in DOMAIN match_indices : match_array[i] = match_indices[j]
        BY <1>1, <3>1 DEF Collecting
      <3> QED BY <1>1, <1>12, <3>1, <3>2
    <2> QED BY <2>1, <2>2
  <1>16. ASSUME NEW w \in Nat
         PROVE  Cardinality(Reaching(r, w)) = Cardinality(Reaching(s, w))
    <2>1. PICK C : C = {j \in collected : match_indices[j] >= w}
      OBVIOUS
    <2>2. IsFiniteSet(C) /\ Leader \notin C
      <3>1. C \subseteq collected
        BY <2>1
      <3> QED BY <1>1, <3>1, FS_Subset
    <2>3. Cardinality(Reaching(match_array, w)) = Cardinality(C)
      BY <1>1, <2>1 DEF Collecting
    <2>4. Cardinality(Reaching(s, w)) =
            IF leader_last_index >= w THEN Cardinality(C) + 1 ELSE Cardinality(C)
      BY <1>1, <2>3, AppendReaching DEF s
    <2>5. CASE leader_last_index >= w
      <3>1. Reaching(r, w) = C \cup {Leader}
        BY <1>1, <1>12, <2>1, <2>5 DEF Reaching
      <3> QED BY <2>2, <2>4, <2>5, <3>1, FS_AddElement
    <2>6. CASE ~ (leader_last_index >= w)
      <3>1. Reaching(r, w) = C
        BY <1>1, <1>12, <2>1, <2>6 DEF Reaching
      <3> QED BY <2>4, <2>6, <3>1
    <2> QED BY <2>5, <2>6
  <1>17. HighestAgreed(r) = v
    <2>1. /\ Cardinality(Reaching(r, v)) >= MajoritySize(P + 1)
          /\ \A w \in Nat : w > v => ~ (Cardinality(Reaching(r, w)) >= MajoritySize(P + 1))
      BY <1>9, <1>10, <1>16
    <2> QED BY <1>9, <1>13, <1>14, <1>15, <2>1, HighestAgreedIs
  <1>18. Reached' = r
    BY <1>1, <1>11 DEF Reached
  <1> QED BY <1>5, <1>7, <1>17, <1>18 DEF MedianIsAgreed, Reached

-----------------------------------------------------------------------------

LoopInv == AppendInv /\ Collecting /\ MedianIsAgreed

LEMMA LoopInduction == Spec => []LoopInv
  <1>1. Init => LoopInv
    <2>1. Init => MedianIsAgreed
      BY DEF Init, CommitBegins, NoCommit, MedianIsAgreed
    <2> QED BY <2>1, AppendInit, CollectingInit DEF LoopInv
  <1>2. ASSUME LoopInv, [Next]_vars PROVE LoopInv'
    <2>1. AppendInv /\ Collecting /\ MedianIsAgreed
      BY <1>2 DEF LoopInv
    <2>2. CASE TakeEntry \/ LeaveAppend \/ UNCHANGED vars
      <3>1. UNCHANGED <<match_indices, leader_last_index, potential_commit_index>>
        BY <2>2 DEF TakeEntry, LeaveAppend, vars, commitVars
      <3>2. MedianIsAgreed'
        BY <2>1, <3>1 DEF MedianIsAgreed
      <3> QED BY <2>1, <2>2, <3>2, TakeEntryInv, OtherStepsKeepAppend, OtherStepsKeepCollecting DEF LoopInv
    <2>3. CASE Choose
      BY <2>1, <2>3, ChooseAgrees, OtherStepsKeepAppend, OtherStepsKeepCollecting DEF LoopInv
    <2>4. ASSUME NEW j \in Peer, Collect(j) PROVE LoopInv'
      <3>1. MedianIsAgreed'
        BY <2>1, <2>4 DEF Collect, MedianIsAgreed
      <3> QED BY <2>1, <2>4, <3>1, CollectKeeps, OtherStepsKeepAppend DEF LoopInv
    <2> QED BY <1>2, <2>2, <2>3, <2>4 DEF Next
  <1> QED BY <1>1, <1>2, PTL DEF Spec

\* For every log, every batch of entries that follows on it and every schedule of
\* the two loops, the entries loop of handle_append_entries leaves the log Merged
\* says and acknowledges the index of the last entry.
THEOREM LoopIsMerged == Spec => []LoopComputesMerged
  <1>1. LoopInv => LoopComputesMerged
    BY DoneIsMerged DEF LoopInv
  <1> QED BY <1>1, LoopInduction, PTL

\* At every iteration of that loop an entry's index is its position, so that
\* get(index) of the code finds the entry with that index.
THEOREM IndicesArePositions == Spec => []IndexIsPosition
  <1>1. LoopInv => IndexIsPosition
    BY PositionsAreIndices DEF LoopInv
  <1> QED BY <1>1, LoopInduction, PTL

\* For clusters of every size, odd and even, and every order in which the HashMap
\* yields its values, the element handle_append_entries_reply reads is the highest
\* index a majority has reached.
THEOREM MedianIsMajority == Spec => []MedianIsAgreed
  <1>1. LoopInv => MedianIsAgreed
    BY DEF LoopInv
  <1> QED BY <1>1, LoopInduction, PTL
=============================================================================
