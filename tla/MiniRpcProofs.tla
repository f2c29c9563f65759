---------------------------- MODULE MiniRpcProofs ----------------------------
(***************************************************************************)
(* mini-rpc for any processes, any chain of next nodes without a ring and  *)
(* any requests at once.                                                   *)
(*                                                                         *)
(* The calls of a request are a chain (CallChain): at most its last one    *)
(* has not been served yet, a call that is linked has a live caller that   *)
(* waits for it, and a live caller that waits has a linked call.  What a   *)
(* call was answered is right for it (Right), as long as the process it    *)
(* was answered by lives, because no connection outlives a process         *)
(* (KnownNow).                                                             *)
(***************************************************************************)
EXTENDS MiniRpc, SequenceTheorems, FiniteSetTheorems, TLAPS

Conn == [to : Process, life : 0 .. MaxLife]
Stored == [store : Value]
Addend == [add : Addition]

\* How far down the chain of next nodes a process stands.
Rank == CHOOSE rank \in [Process -> 1 .. Cardinality(Process)] :
           \A l \in Link : rank[l[2]] < rank[l[1]]

UpNow == {c \in Conn : Up(c)}

\* No connection is to a life that has not begun.
KnownNow == {c \in Conn : c.life <= life[c.to]}

Types ==
    /\ alive \in [Process -> BOOLEAN] /\ life \in [Process -> 0 .. MaxLife]
    /\ data \in [Process -> Stored \cup {None}]
    /\ typeWord \in [Process -> BOOLEAN] /\ dataWord \in [Process -> Conn \cup {None}]
    /\ setting \in [Process -> [next : Conn, left : SUBSET {"type", "data"}] \cup {None}]
    /\ serviceClient \in [Process -> Conn \cup {None}]
    /\ waitsFor \in [Process -> Request \cup {None}]
    /\ stored \in [Process -> SUBSET Stored] /\ configured \in [Process -> BOOLEAN]
    /\ calls \in [Request -> Seq(Call)]

Handles(p, c) == c \in KnownNow /\ <<p, c.to>> \in Link

\* Before the data word is written it is about to be, and it stays written.
HandleInv ==
    \A p \in Process :
        /\ dataWord[p] # None => Handles(p, dataWord[p])
        /\ setting[p] # None =>
              Handles(p, setting[p].next) /\ ("data" \in setting[p].left \/ dataWord[p] # None)
        /\ configured[p] => dataWord[p] # None

StorageInv == \A p \in Process : data[p] # None => data[p] \in stored[p]

\* The calls cs of one request, where up are the connections that are up and known
\* those to a life that has begun.
CallChain(cs, up, known) ==
    /\ cs \in Seq(Call)
    /\ \A k \in DOMAIN cs :
          /\ cs[k].on \in known
          /\ Rank[cs[k].on.to] + k <= Cardinality(Process) + 1
          /\ cs[k].phase \in {"sent", "forwarding"} => k = Len(cs)
          /\ cs[k].phase = "forwarding" => cs[k].does \in Addend
          /\ cs[k].on \in up /\ cs[k].phase = "waiting" => k + 1 \in DOMAIN cs /\ cs[k + 1].linked
          /\ k + 1 \in DOMAIN cs /\ cs[k + 1].linked =>
                /\ cs[k].on \in up /\ cs[k].phase = "waiting"
                /\ cs[k].does \in Addend /\ cs[k + 1].does = cs[k].does

ChainInv == \A r \in Request : CallChain(calls[r], UpNow, KnownNow)

\* One command line waits for a request whose first call is linked.
WaitInv ==
    /\ \A p \in Process : ~alive[p] => serviceClient[p] = None /\ waitsFor[p] = None
    /\ \A p \in Process : serviceClient[p] # None => serviceClient[p] \in KnownNow
    /\ \A p, q \in Process : waitsFor[p] # None /\ waitsFor[p] = waitsFor[q] => p = q
    /\ \A r \in Request : Live(r) /\ calls[r][1].linked <=> \E p \in Process : waitsFor[p] = r

Right(does, on, answer) ==
    answer # Error =>
        /\ does \in Addend => answer = Sum(does)
        /\ does \in Stored => answer = does /\ (Up(on) => does \in stored[on.to])
        /\ does = [read |-> TRUE] => answer = None \/ (Up(on) => answer \in stored[on.to])

AnswersRight ==
    \A r \in Request : \A k \in DOMAIN calls[r] :
        calls[r][k].phase = "answered" => Right(calls[r][k].does, calls[r][k].on, calls[r][k].answer)

RpcInv == Types /\ HandleInv /\ StorageInv /\ ChainInv /\ WaitInv /\ AnswersRight

-----------------------------------------------------------------------------
(* Lemmas about ranks and sequences *)

LEMMA RankIsRank ==
    /\ Rank \in [Process -> 1 .. Cardinality(Process)]
    /\ \A l \in Link : Rank[l[2]] < Rank[l[1]]
  BY NoRing DEF Rank

LEMMA ProcessesCounted == Cardinality(Process) \in Nat
  BY ProcessAssumption, FS_CardinalityType

LEMMA RemoveAtProperties ==
    ASSUME NEW S, NEW s \in Seq(S), NEW k \in DOMAIN s
    PROVE  /\ RemoveAt(s, k) \in Seq(S)
           /\ Len(RemoveAt(s, k)) = Len(s) - 1
           /\ \A j \in 1 .. Len(s) - 1 : RemoveAt(s, k)[j] = IF j < k THEN s[j] ELSE s[j + 1]
  <1> DEFINE a == SubSeq(s, 1, k - 1)
             b == SubSeq(s, k + 1, Len(s))
  <1>1. Len(s) \in Nat /\ k \in 1 .. Len(s) /\ \A j \in 1 .. Len(s) : s[j] \in S
    BY LenProperties, ElementOfSeq
  <1>2. /\ a \in Seq(S) /\ Len(a) = k - 1
        /\ \A j \in 1 .. k - 1 : a[j] = s[j]
    <2>1. \A j \in 1 .. k - 1 : s[j] \in S
      BY <1>1
    <2>2. /\ SubSeq(s, 1, k - 1) \in Seq(S)
          /\ Len(SubSeq(s, 1, k - 1)) = IF 1 <= k - 1 THEN k - 1 - 1 + 1 ELSE 0
          /\ \A j \in 1 .. k - 1 - 1 + 1 : SubSeq(s, 1, k - 1)[j] = s[1 + j - 1]
      BY <1>1, <2>1, SubSeqProperties
    <2>3. \A j \in 1 .. k - 1 : j \in 1 .. k - 1 - 1 + 1 /\ 1 + j - 1 = j
      BY <1>1
    <2> QED BY <1>1, <2>2, <2>3
  <1>3. /\ b \in Seq(S) /\ Len(b) = Len(s) - k
        /\ \A j \in 1 .. Len(s) - k : b[j] = s[k + j]
    <2>1. \A j \in k + 1 .. Len(s) : s[j] \in S
      BY <1>1
    <2>2. /\ b \in Seq(S)
          /\ Len(b) = IF k + 1 <= Len(s) THEN Len(s) - (k + 1) + 1 ELSE 0
          /\ \A j \in 1 .. Len(s) - (k + 1) + 1 : b[j] = s[k + 1 + j - 1]
      BY <1>1, <2>1, SubSeqProperties
    <2>3. \A j \in 1 .. Len(s) - k : j \in 1 .. Len(s) - (k + 1) + 1 /\ k + 1 + j - 1 = k + j
      BY <1>1
    <2> QED BY <1>1, <2>2, <2>3
  <1>4. RemoveAt(s, k) = a \o b
    BY DEF RemoveAt
  <1> HIDE DEF a, b
  <1>5. PICK t : t = a \o b
    OBVIOUS
  <1>6. /\ t \in Seq(S) /\ Len(t) = Len(a) + Len(b)
        /\ \A j \in 1 .. Len(a) + Len(b) : t[j] = IF j <= Len(a) THEN a[j] ELSE b[j - Len(a)]
    BY <1>2, <1>3, <1>5, ConcatProperties
  <1>7. Len(t) = Len(s) - 1
    BY <1>1, <1>2, <1>3, <1>6
  <1>8. ASSUME NEW j \in 1 .. Len(s) - 1 PROVE t[j] = IF j < k THEN s[j] ELSE s[j + 1]
    <2>1. j \in 1 .. Len(a) + Len(b) /\ j \in Nat
      BY <1>1, <1>2, <1>3
    <2>2. t[j] = IF j <= Len(a) THEN a[j] ELSE b[j - Len(a)]
      BY <1>6, <2>1
    <2>3. CASE j < k
      <3>1. j \in 1 .. k - 1 /\ j <= Len(a)
        BY <1>1, <1>2, <2>1, <2>3
      <3> QED BY <1>2, <2>2, <2>3, <3>1
    <2>4. CASE ~ (j < k)
      <3>1. j - (k - 1) \in 1 .. Len(s) - k /\ k + (j - (k - 1)) = j + 1 /\ ~ (j <= k - 1)
        BY <1>1, <2>4
      <3>2. t[j] = b[j - (k - 1)]
        BY <1>2, <2>2, <3>1
      <3> QED BY <1>3, <2>4, <3>1, <3>2
    <2> QED BY <2>3, <2>4
  <1>9. RemoveAt(s, k) = t
    BY <1>4, <1>5
  <1> QED BY <1>6, <1>7, <1>8, <1>9

\* A call is inserted behind the last one.
LEMMA InsertAtEnd ==
    ASSUME NEW S, NEW s \in Seq(S), NEW e \in S
    PROVE  InsertAt(s, Len(s) + 1, e) = Append(s, e)
  <1>1. Len(s) \in Nat
    BY LenProperties
  <1>2. SubSeq(s, 1, Len(s) + 1 - 1) = s
    BY <1>1, SubSeqFull
  <1>3. SubSeq(s, Len(s) + 1, Len(s)) = <<>>
    BY <1>1, SubSeqEmpty
  <1>4. s \o <<e>> \in Seq(S) /\ Append(s, e) = s \o <<e>>
    BY ConcatProperties, AppendIsConcat
  <1>5. (s \o <<e>>) \o <<>> = s \o <<e>>
    BY <1>4, ConcatEmptySeq
  <1>6. InsertAt(s, Len(s) + 1, e)
          = (SubSeq(s, 1, Len(s) + 1 - 1) \o <<e>>) \o SubSeq(s, Len(s) + 1, Len(s))
    BY DEF InsertAt
  <1> QED BY <1>2, <1>3, <1>4, <1>5, <1>6

-----------------------------------------------------------------------------
(* Chains *)

\* What a call is without its life.
SameCall(c, d) == c.on = d.on /\ c.does = d.does /\ c.linked = d.linked

LEMMA CallFields ==
    ASSUME NEW c \in Call
    PROVE  /\ c.on \in Conn /\ c.does \in Command /\ c.linked \in BOOLEAN
           /\ c.phase \in {"sent", "forwarding", "waiting", "answered"}
  BY DEF Call, Conn

LEMMA ChainDomain ==
    ASSUME NEW cs, NEW up, NEW known, CallChain(cs, up, known)
    PROVE  /\ Len(cs) \in Nat /\ DOMAIN cs = 1 .. Len(cs)
           /\ \A k \in DOMAIN cs : cs[k] \in Call
  BY LenProperties, ElementOfSeq DEF CallChain

\* Once it is answered nobody is called for it, and nobody links to it.
LEMMA ChainLinks ==
    ASSUME NEW cs, NEW up, NEW known, CallChain(cs, up, known), NEW k \in DOMAIN cs,
           cs[k].phase # "waiting" \/ cs[k].on \notin up
    PROVE  k + 1 \in DOMAIN cs => cs[k + 1].linked = FALSE
  <1>1. k + 1 \in DOMAIN cs => cs[k + 1].linked \in BOOLEAN
    BY ChainDomain, CallFields
  <1> QED BY <1>1 DEF CallChain

\* The last call, not served yet, is answered or found to be for the next node.
LEMMA ChainServed ==
    ASSUME NEW cs, NEW up, NEW known, CallChain(cs, up, known), NEW k \in DOMAIN cs,
           cs[k].phase = "sent",
           NEW t \in Seq(Call), Len(t) = Len(cs), \A j \in DOMAIN cs : j # k => t[j] = cs[j],
           SameCall(t[k], cs[k]),
           t[k].phase = "answered" \/ (t[k].phase = "forwarding" /\ cs[k].does \in Addend)
    PROVE  CallChain(t, up, known)
  <1>1. Len(cs) \in Nat /\ DOMAIN cs = 1 .. Len(cs) /\ k = Len(cs)
    BY ChainDomain DEF CallChain
  <1>2. DOMAIN t = 1 .. Len(cs)
    BY LenProperties
  <1>3. \A j \in 1 .. Len(cs) : SameCall(t[j], cs[j])
    BY <1>1 DEF SameCall
  <1>4. ASSUME NEW j \in 1 .. Len(cs), j # k
        PROVE  /\ t[j].on \in known
               /\ Rank[t[j].on.to] + j <= Cardinality(Process) + 1
               /\ t[j].phase \in {"sent", "forwarding"} => j = Len(t)
               /\ t[j].phase = "forwarding" => t[j].does \in Addend
               /\ t[j].on \in up /\ t[j].phase = "waiting" => j + 1 \in DOMAIN t /\ t[j + 1].linked
               /\ j + 1 \in DOMAIN t /\ t[j + 1].linked =>
                     /\ t[j].on \in up /\ t[j].phase = "waiting"
                     /\ t[j].does \in Addend /\ t[j + 1].does = t[j].does
    <2>1. t[j] = cs[j] /\ j \in DOMAIN cs
      BY <1>1, <1>4
    <2> QED BY <1>1, <1>2, <1>3, <2>1 DEF CallChain, SameCall
  <1>5. /\ t[k].on \in known
        /\ Rank[t[k].on.to] + k <= Cardinality(Process) + 1
        /\ k = Len(t) /\ k + 1 \notin DOMAIN t /\ t[k].phase # "waiting"
        /\ t[k].phase = "forwarding" => t[k].does \in Addend
    BY <1>1, <1>2 DEF CallChain, SameCall
  <1> QED BY <1>2, <1>4, <1>5 DEF CallChain

\* The last call is forwarded to a node further down.
LEMMA ChainForwarded ==
    ASSUME NEW cs, NEW up, NEW known, CallChain(cs, up, known), NEW k \in DOMAIN cs,
           cs[k].phase = "forwarding", cs[k].on \in up, cs[k].on.to \in Process,
           NEW t \in Seq(Call), Len(t) = Len(cs) + 1,
           \A j \in DOMAIN cs : j # k => t[j] = cs[j],
           SameCall(t[k], cs[k]), t[k].phase = "waiting",
           NEW d \in Call, t[Len(cs) + 1] = d, d.phase = "sent", d.linked, d.does = cs[k].does,
           d.on \in known, <<cs[k].on.to, d.on.to>> \in Link
    PROVE  CallChain(t, up, known)
  <1>1. Len(cs) \in Nat /\ DOMAIN cs = 1 .. Len(cs) /\ k = Len(cs)
    BY ChainDomain DEF CallChain
  <1>2. DOMAIN t = 1 .. Len(cs) + 1
    BY LenProperties
  <1>3. \A j \in 1 .. Len(cs) : SameCall(t[j], cs[j])
    BY <1>1 DEF SameCall
  <1>4. ASSUME NEW j \in 1 .. Len(cs), j # k
        PROVE  /\ t[j].on \in known
               /\ Rank[t[j].on.to] + j <= Cardinality(Process) + 1
               /\ t[j].phase \notin {"sent", "forwarding"}
               /\ t[j].on \in up /\ t[j].phase = "waiting" => j + 1 \in DOMAIN t /\ t[j + 1].linked
               /\ j + 1 \in DOMAIN t /\ t[j + 1].linked =>
                     /\ t[j].on \in up /\ t[j].phase = "waiting"
                     /\ t[j].does \in Addend /\ t[j + 1].does = t[j].does
    <2>1. t[j] = cs[j] /\ j \in DOMAIN cs /\ j + 1 \in 1 .. Len(cs)
      BY <1>1, <1>4
    <2> QED BY <1>1, <1>2, <1>3, <2>1 DEF CallChain, SameCall
  <1>5. /\ t[k].on \in known
        /\ Rank[t[k].on.to] + k <= Cardinality(Process) + 1
        /\ k + 1 \in DOMAIN t /\ t[k + 1] = d
        /\ t[k].on \in up /\ t[k].does \in Addend
    BY <1>1, <1>2 DEF CallChain, SameCall
  <1>6. Rank[d.on.to] + (k + 1) <= Cardinality(Process) + 1
    <2>1. Rank[d.on.to] < Rank[cs[k].on.to]
      <3>1. PICK l \in Link : l = <<cs[k].on.to, d.on.to>>
        OBVIOUS
      <3>2. l[1] = cs[k].on.to /\ l[2] = d.on.to
        BY <3>1
      <3> QED BY <3>1, <3>2, RankIsRank
    <2>2. d.on.to \in Process
      BY CallFields DEF Conn
    <2>3. Rank[d.on.to] \in Nat /\ Rank[cs[k].on.to] \in Nat
      BY <2>2, RankIsRank
    <2>4. Rank[cs[k].on.to] + k <= Cardinality(Process) + 1
      BY DEF CallChain
    <2> QED BY <1>1, <2>1, <2>3, <2>4, ProcessesCounted
  <1>7. DOMAIN t = 1 .. k + 1 /\ Len(t) = k + 1 /\ k + 2 \notin DOMAIN t
    BY <1>1, <1>2
  <1>8. ASSUME NEW j \in DOMAIN t
        PROVE  /\ t[j].on \in known
               /\ Rank[t[j].on.to] + j <= Cardinality(Process) + 1
               /\ t[j].phase \in {"sent", "forwarding"} => j = Len(t)
               /\ t[j].phase = "forwarding" => t[j].does \in Addend
               /\ t[j].on \in up /\ t[j].phase = "waiting" => j + 1 \in DOMAIN t /\ t[j + 1].linked
               /\ j + 1 \in DOMAIN t /\ t[j + 1].linked =>
                     /\ t[j].on \in up /\ t[j].phase = "waiting"
                     /\ t[j].does \in Addend /\ t[j + 1].does = t[j].does
    <2>1. CASE j \in 1 .. Len(cs) /\ j # k
      BY <1>4, <2>1
    <2>2. CASE j = k
      BY <1>5, <2>2 DEF SameCall
    <2>3. CASE j = k + 1
      <3>1. j + 1 \notin DOMAIN t
        BY <1>1, <1>7, <2>3
      <3> QED BY <1>1, <1>5, <1>6, <1>7, <2>3, <3>1
    <2> QED BY <1>1, <1>2, <2>1, <2>2, <2>3
  <1> QED BY <1>8 DEF CallChain

\* The caller of a call gives it up: it is on its own, and its caller is answered.
LEMMA ChainGivenUp ==
    ASSUME NEW cs, NEW up, NEW known, CallChain(cs, up, known), NEW k \in DOMAIN cs,
           NEW t \in Seq(Call), Len(t) = Len(cs),
           \A j \in DOMAIN cs : j # k /\ j + 1 # k => t[j] = cs[j],
           t[k].on = cs[k].on, t[k].does = cs[k].does, t[k].phase = cs[k].phase,
           t[k].linked = FALSE,
           k > 1 => SameCall(t[k - 1], cs[k - 1]) /\ t[k - 1].phase = "answered"
    PROVE  CallChain(t, up, known)
  <1>1. Len(cs) \in Nat /\ DOMAIN cs = 1 .. Len(cs)
    BY ChainDomain
  <1>2. DOMAIN t = 1 .. Len(cs)
    BY LenProperties
  <1>3. \A j \in 1 .. Len(cs) : /\ t[j].on = cs[j].on /\ t[j].does = cs[j].does
                                /\ t[j].linked => cs[j].linked
                                /\ j # k => t[j].linked = cs[j].linked
                                /\ j + 1 # k => t[j].phase = cs[j].phase
    <2> TAKE j \in 1 .. Len(cs)
    <2>1. CASE j = k
      BY <1>1, <2>1
    <2>2. CASE j + 1 = k
      <3>1. k > 1 /\ j = k - 1
        BY <1>1, <2>2
      <3> QED BY <3>1 DEF SameCall
    <2>3. CASE j # k /\ j + 1 # k
      BY <1>1, <2>3
    <2> QED BY <2>1, <2>2, <2>3
  <1>4. ASSUME NEW j \in 1 .. Len(cs), j + 1 = k
        PROVE  t[j].phase = "answered" /\ t[j + 1].linked = FALSE
    <2>1. k > 1 /\ j = k - 1
      BY <1>1, <1>4
    <2> QED BY <1>4, <2>1
  <1>5. ASSUME NEW j \in 1 .. Len(cs)
        PROVE  /\ t[j].on \in known
               /\ Rank[t[j].on.to] + j <= Cardinality(Process) + 1
               /\ t[j].phase \in {"sent", "forwarding"} => j = Len(t)
               /\ t[j].phase = "forwarding" => t[j].does \in Addend
    <2>1. t[j].on = cs[j].on /\ t[j].does = cs[j].does
      BY <1>3
    <2>2. t[j].phase \in {"sent", "forwarding"} => t[j].phase = cs[j].phase
      BY <1>3, <1>4
    <2> QED BY <1>1, <2>1, <2>2 DEF CallChain
  <1>6. ASSUME NEW j \in 1 .. Len(cs), j + 1 # k
        PROVE  /\ t[j].on \in up /\ t[j].phase = "waiting" => j + 1 \in DOMAIN t /\ t[j + 1].linked
               /\ j + 1 \in DOMAIN t /\ t[j + 1].linked =>
                     /\ t[j].on \in up /\ t[j].phase = "waiting"
                     /\ t[j].does \in Addend /\ t[j + 1].does = t[j].does
    <2>1. /\ t[j].on = cs[j].on /\ t[j].does = cs[j].does /\ t[j].phase = cs[j].phase
          /\ j + 1 \in DOMAIN cs => t[j + 1].linked = cs[j + 1].linked /\ t[j + 1].does = cs[j + 1].does
      BY <1>1, <1>3, <1>6
    <2> QED BY <1>1, <1>2, <2>1 DEF CallChain
  <1> QED BY <1>2, <1>4, <1>5, <1>6 DEF CallChain

\* A call that is over is gone; if its caller still waited for it, it is answered.
LEMMA ChainRemoved ==
    ASSUME NEW cs, NEW up, NEW known, CallChain(cs, up, known), NEW k \in DOMAIN cs,
           cs[k].phase = "answered" \/ cs[k].on \notin up,
           NEW t \in Seq(Call), Len(t) = Len(cs) - 1,
           \A j \in 1 .. Len(t) : /\ j >= k => t[j] = cs[j + 1]
                                  /\ j + 1 < k => t[j] = cs[j],
           k > 1 => SameCall(t[k - 1], cs[k - 1]),
           k > 1 => IF cs[k].linked THEN t[k - 1].phase = "answered" ELSE t[k - 1] = cs[k - 1]
    PROVE  CallChain(t, up, known)
  <1>1. Len(cs) \in Nat /\ DOMAIN cs = 1 .. Len(cs) /\ k \in 1 .. Len(cs)
    BY ChainDomain
  <1>2. DOMAIN t = 1 .. Len(cs) - 1
    BY LenProperties
  <1>3. k + 1 \in DOMAIN cs => cs[k + 1].linked = FALSE
    BY ChainLinks
  <1>4. \A j \in 1 .. Len(cs) - 1 : j < k => SameCall(t[j], cs[j])
    <2> TAKE j \in 1 .. Len(cs) - 1
    <2>1. CASE j + 1 < k
      BY <1>1, <2>1 DEF SameCall
    <2>2. CASE j + 1 = k
      <3>1. k > 1 /\ j = k - 1
        BY <1>1, <2>2
      <3> QED BY <3>1
    <2> QED BY <1>1, <2>1, <2>2
  <1>5. ASSUME NEW j \in 1 .. Len(cs) - 1
        PROVE  /\ t[j].on \in known
               /\ Rank[t[j].on.to] + j <= Cardinality(Process) + 1
               /\ t[j].phase \in {"sent", "forwarding"} => j = Len(t)
               /\ t[j].phase = "forwarding" => t[j].does \in Addend
               /\ t[j].on \in up /\ t[j].phase = "waiting" => j + 1 \in DOMAIN t /\ t[j + 1].linked
               /\ j + 1 \in DOMAIN t /\ t[j + 1].linked =>
                     /\ t[j].on \in up /\ t[j].phase = "waiting"
                     /\ t[j].does \in Addend /\ t[j + 1].does = t[j].does
    <2>1. CASE j >= k
      <3>1. t[j] = cs[j + 1] /\ j + 1 \in DOMAIN cs
        BY <1>1, <2>1
      <3>2. /\ j + 1 \in DOMAIN t <=> (j + 1) + 1 \in DOMAIN cs
            /\ j + 1 \in DOMAIN t => t[j + 1] = cs[(j + 1) + 1]
        BY <1>1, <1>2, <2>1
      <3>3. /\ cs[j + 1].on \in known
            /\ Rank[cs[j + 1].on.to] + (j + 1) <= Cardinality(Process) + 1
            /\ cs[j + 1].phase \in {"sent", "forwarding"} => j + 1 = Len(cs)
            /\ cs[j + 1].phase = "forwarding" => cs[j + 1].does \in Addend
        BY <3>1 DEF CallChain
      <3>4. Rank[cs[j + 1].on.to] \in Nat
        <4>1. cs[j + 1].on.to \in Process
          BY <3>1, ChainDomain, CallFields DEF Conn
        <4> QED BY <4>1, RankIsRank
      <3>5. /\ Rank[t[j].on.to] + j <= Cardinality(Process) + 1
            /\ t[j].phase \in {"sent", "forwarding"} => j = Len(t)
        BY <1>1, <3>1, <3>3, <3>4, ProcessesCounted
      <3>6. /\ t[j].on \in up /\ t[j].phase = "waiting" => j + 1 \in DOMAIN t /\ t[j + 1].linked
            /\ j + 1 \in DOMAIN t /\ t[j + 1].linked =>
                  /\ t[j].on \in up /\ t[j].phase = "waiting"
                  /\ t[j].does \in Addend /\ t[j + 1].does = t[j].does
        BY <3>1, <3>2 DEF CallChain
      <3> QED BY <3>1, <3>3, <3>5, <3>6
    <2>2. CASE j + 1 < k
      <3>1. /\ t[j] = cs[j] /\ j \in DOMAIN cs /\ j + 1 \in DOMAIN cs /\ j + 1 \in DOMAIN t
            /\ j # Len(cs) /\ SameCall(t[j + 1], cs[j + 1])
        BY <1>1, <1>2, <1>4, <2>2
      <3> QED BY <3>1 DEF CallChain, SameCall
    <2>3. CASE j + 1 = k
      <3>1. j = k - 1 /\ k > 1 /\ j \in DOMAIN cs /\ j + 1 \in DOMAIN cs /\ j # Len(cs)
        BY <1>1, <2>3
      <3>2. SameCall(t[j], cs[j]) /\ (t[j].phase = "answered" \/ (t[j] = cs[j] /\ ~ cs[k].linked))
        <4>1. CASE cs[k].linked
          BY <3>1, <4>1
        <4>2. CASE ~ cs[k].linked
          BY <3>1, <4>2
        <4> QED BY <4>1, <4>2
      <3>3. j + 1 \in DOMAIN t => t[j + 1].linked = FALSE
        <4>1. j + 1 \in DOMAIN t => k + 1 \in DOMAIN cs /\ t[j + 1] = cs[k + 1]
          BY <1>1, <1>2, <2>3
        <4> QED BY <1>3, <4>1
      <3>4. ~ (t[j].on \in up /\ t[j].phase = "waiting")
        BY <2>3, <3>1, <3>2 DEF CallChain
      <3>5. /\ cs[j].on \in known
            /\ Rank[cs[j].on.to] + j <= Cardinality(Process) + 1
            /\ cs[j].phase \notin {"sent", "forwarding"}
        BY <3>1 DEF CallChain
      <3>6. /\ t[j].on = cs[j].on /\ t[j].does = cs[j].does
            /\ t[j].phase \notin {"sent", "forwarding"}
        BY <3>2, <3>5 DEF SameCall
      <3> QED BY <3>3, <3>4, <3>5, <3>6
    <2> QED BY <1>1, <2>1, <2>2, <2>3
  <1> QED BY <1>2, <1>5 DEF CallChain

\* The process p has died: the calls its servers made are on their own.
Orphaned(p, cs, t) ==
    /\ t \in Seq(Call) /\ Len(t) = Len(cs) /\ DOMAIN t = DOMAIN cs
    /\ \A k \in DOMAIN cs :
          /\ t[k].on = cs[k].on /\ t[k].does = cs[k].does /\ t[k].phase = cs[k].phase
          /\ t[k].answer = cs[k].answer
          /\ k # 1 => t[k].linked = (cs[k].linked /\ cs[k - 1].on.to # p)

LEMMA ChainOrphaned ==
    ASSUME NEW cs, NEW up, NEW known, CallChain(cs, up, known), NEW p,
           NEW down, \A c \in known : c \in down <=> c \in up /\ c.to # p,
           NEW t, Orphaned(p, cs, t)
    PROVE  CallChain(t, down, known)
  <1> USE DEF Orphaned
  <1>1. Len(cs) \in Nat /\ DOMAIN cs = 1 .. Len(cs) /\ t \in Seq(Call)
    BY ChainDomain
  <1>2. DOMAIN t = 1 .. Len(cs)
    BY LenProperties
  <1>3. ASSUME NEW j \in DOMAIN cs
        PROVE  /\ t[j].on \in known
               /\ Rank[t[j].on.to] + j <= Cardinality(Process) + 1
               /\ t[j].phase \in {"sent", "forwarding"} => j = Len(t)
               /\ t[j].phase = "forwarding" => t[j].does \in Addend
               /\ t[j].on \in down /\ t[j].phase = "waiting" => j + 1 \in DOMAIN t /\ t[j + 1].linked
               /\ j + 1 \in DOMAIN t /\ t[j + 1].linked =>
                     /\ t[j].on \in down /\ t[j].phase = "waiting"
                     /\ t[j].does \in Addend /\ t[j + 1].does = t[j].does
    <2>1. t[j].on \in known /\ cs[j].on \in known
      BY DEF CallChain
    <2>2. j + 1 \in DOMAIN cs =>
             /\ t[j + 1].linked = (cs[j + 1].linked /\ cs[j].on.to # p)
             /\ t[j + 1].does = cs[j + 1].does
      <3>1. (j + 1) - 1 = j /\ j + 1 # 1
        BY <1>1
      <3> QED BY <3>1
    <2>3. /\ t[j].on = cs[j].on /\ t[j].does = cs[j].does /\ t[j].phase = cs[j].phase
          /\ cs[j].on \in down <=> cs[j].on \in up /\ cs[j].on.to # p
          /\ j + 1 \in DOMAIN t <=> j + 1 \in DOMAIN cs
      BY <1>1, <1>2, <2>1
    <2>4. /\ Rank[cs[j].on.to] + j <= Cardinality(Process) + 1
          /\ cs[j].phase \in {"sent", "forwarding"} => j = Len(cs)
          /\ cs[j].phase = "forwarding" => cs[j].does \in Addend
      BY DEF CallChain
    <2>5. t[j].on \in down /\ t[j].phase = "waiting" => j + 1 \in DOMAIN t /\ t[j + 1].linked
      BY <2>2, <2>3 DEF CallChain
    <2>6. j + 1 \in DOMAIN t /\ t[j + 1].linked =>
                /\ t[j].on \in down /\ t[j].phase = "waiting"
                /\ t[j].does \in Addend /\ t[j + 1].does = t[j].does
      BY <2>2, <2>3 DEF CallChain
    <2> QED BY <2>1, <2>3, <2>4, <2>5, <2>6
  <1> QED BY <1>1, <1>2, <1>3 DEF CallChain

\* Connections to a new life are no connections of calls that are there.
LEMMA ChainUp ==
    ASSUME NEW cs, NEW up, NEW known, CallChain(cs, up, known),
           NEW upNext, NEW knownNext, known \subseteq knownNext,
           \A c \in known : c \in upNext <=> c \in up
    PROVE  CallChain(cs, upNext, knownNext)
  BY DEF CallChain

LEMMA ChainEmpty ==
    ASSUME NEW up, NEW known
    PROVE  CallChain(<<>>, up, known)
  <1>1. <<>> \in Seq(Call) /\ DOMAIN <<>> = {}
    BY EmptySeq
  <1> QED BY <1>1 DEF CallChain

LEMMA ChainStarts ==
    ASSUME NEW up, NEW known, NEW c \in Call, c.on \in known, c.phase = "sent"
    PROVE  CallChain(<<c>>, up, known)
  <1>1. /\ <<c>> \in Seq(Call) /\ Len(<<c>>) = 1 /\ DOMAIN <<c>> = {1} /\ <<c>>[1] = c
    OBVIOUS
  <1>2. Rank[c.on.to] + 1 <= Cardinality(Process) + 1
    <2>1. c.on.to \in Process
      BY CallFields DEF Conn
    <2> QED BY <2>1, RankIsRank, ProcessesCounted
  <1> QED BY <1>1, <1>2 DEF CallChain

-----------------------------------------------------------------------------
(* The command lines, the handles and the ends of processes *)

LEMMA NotNone ==
    /\ None \notin Conn /\ None \notin [next : Conn, left : SUBSET {"type", "data"}]
    /\ None \notin Stored /\ None # Error /\ Error \notin Stored
  <1>1. DOMAIN None = {"none"} /\ DOMAIN Error = {"error"}
    BY DEF None, Error
  <1>2. "none" \notin {"to", "life"} /\ "none" \notin {"next", "left"} /\ "none" \notin {"store"}
    OBVIOUS
  <1>3. \A c \in Conn : DOMAIN c = {"to", "life"}
    BY DEF Conn
  <1>4. \A s \in [next : Conn, left : SUBSET {"type", "data"}] : DOMAIN s = {"next", "left"}
    OBVIOUS
  <1>5. \A s \in Stored : DOMAIN s = {"store"}
    BY DEF Stored
  <1> QED BY <1>1, <1>2, <1>3, <1>4, <1>5

LEMMA ConnectionIsConn ==
    ASSUME Types, NEW p \in Process
    PROVE  Connection(p) \in KnownNow /\ Connection(p) \in Conn /\ Connection(p).to = p
  <1>1. life[p] \in 0 .. MaxLife /\ MaxLife \in Nat
    BY ProcessAssumption DEF Types
  <1> QED BY <1>1 DEF Connection, KnownNow, Conn

LEMMA NewCallIsCall ==
    ASSUME NEW on \in Conn, NEW does \in Command
    PROVE  /\ NewCall(on, does) \in Call
           /\ NewCall(on, does).on = on /\ NewCall(on, does).does = does
           /\ NewCall(on, does).phase = "sent" /\ NewCall(on, does).linked = TRUE
  BY DEF NewCall, Call, Conn

LEMMA SettledKeeps ==
    ASSUME UNCHANGED processVars
    PROVE  UpNow' = UpNow /\ KnownNow' = KnownNow /\ \A c : Up(c)' <=> Up(c)
  BY DEF processVars, UpNow, KnownNow, Up

LEMMA HandleKept ==
    ASSUME HandleInv, UNCHANGED <<processVars, dataWord, setting, configured>>
    PROVE  HandleInv'
  BY SettledKeeps DEF HandleInv, Handles

LEMMA StorageKept ==
    ASSUME StorageInv, UNCHANGED <<data, stored>>
    PROVE  StorageInv'
  BY DEF StorageInv

LEMMA WaitKept ==
    ASSUME WaitInv, UNCHANGED <<processVars, serviceClient, waitsFor, calls>>
    PROVE  WaitInv'
  BY SettledKeeps DEF WaitInv, Live, processVars

LEMMA CallsKept ==
    ASSUME ChainInv, AnswersRight, UNCHANGED <<processVars, calls, stored>>
    PROVE  ChainInv' /\ AnswersRight'
  <1>1. ChainInv'
    BY SettledKeeps DEF ChainInv
  <1>2. AnswersRight'
    BY SettledKeeps DEF AnswersRight, Right
  <1> QED BY <1>1, <1>2

LEMMA DialKeeps == ASSUME RpcInv, NEW p \in Process, NEW q \in Process, Dial(p, q) PROVE RpcInv'
  <1>1. /\ alive[p] /\ serviceClient' = [serviceClient EXCEPT ![p] = Connection(q)]
        /\ UNCHANGED <<processVars, data, typeWord, dataWord, setting, waitsFor, calls, stored,
                       configured>>
    BY DEF Dial, Idle, serverVars, history
  <1>2. Types /\ Connection(q) \in KnownNow /\ Connection(q) \in Conn
    BY ConnectionIsConn DEF RpcInv
  <1>3. Types'
    BY <1>1, <1>2 DEF Types, processVars
  <1>4. HandleInv' /\ StorageInv' /\ ChainInv' /\ AnswersRight'
    BY <1>1, HandleKept, StorageKept, CallsKept DEF RpcInv
  <1>5. WaitInv'
    <2>1. \A n \in Process : serviceClient'[n] = IF n = p THEN Connection(q) ELSE serviceClient[n]
      BY <1>1, <1>2 DEF Types
    <2>2. UNCHANGED <<alive, waitsFor, calls>> /\ KnownNow' = KnownNow
      BY <1>1, SettledKeeps DEF processVars
    <2> QED BY <1>1, <1>2, <2>1, <2>2 DEF RpcInv, WaitInv, Live
  <1> QED BY <1>3, <1>4, <1>5 DEF RpcInv

\* Calls of one request change, in a step in which no process dies or starts.
LEMMA LocalChain ==
    ASSUME Types, ChainInv, UNCHANGED processVars, NEW r \in Request, NEW t,
           calls' = [calls EXCEPT ![r] = t], CallChain(t, UpNow, KnownNow)
    PROVE  ChainInv'
  <1>1. \A q \in Request : calls'[q] = IF q = r THEN t ELSE calls[q]
    BY DEF Types
  <1> QED BY <1>1, SettledKeeps DEF ChainInv

LEMMA RightKept ==
    ASSUME UNCHANGED processVars, NEW does, NEW on, NEW answer,
           stored[on.to] \subseteq stored'[on.to], Right(does, on, answer)
    PROVE  Right(does, on, answer)'
  BY SettledKeeps DEF Right

LEMMA LocalAnswers ==
    ASSUME Types, ChainInv, AnswersRight, UNCHANGED processVars, NEW r \in Request, NEW t,
           calls' = [calls EXCEPT ![r] = t],
           \A p \in Process : stored[p] \subseteq stored'[p],
           \A k \in DOMAIN t : t[k].phase = "answered" => Right(t[k].does, t[k].on, t[k].answer)'
    PROVE  AnswersRight'
  <1>1. \A q \in Request : calls'[q] = IF q = r THEN t ELSE calls[q]
    BY DEF Types
  <1>2. ASSUME NEW q \in Request, NEW cs, cs = calls'[q], NEW k \in DOMAIN cs,
               cs[k].phase = "answered"
        PROVE  Right(cs[k].does, cs[k].on, cs[k].answer)'
    <2>1. CASE q = r
      BY <1>1, <1>2, <2>1
    <2>2. CASE q # r
      <3>1. cs = calls[q]
        BY <1>1, <1>2, <2>2
      <3>2. Right(cs[k].does, cs[k].on, cs[k].answer)
        BY <1>2, <3>1 DEF AnswersRight
      <3>3. cs[k].on.to \in Process
        BY <1>2, <3>1, ChainDomain, CallFields DEF ChainInv, Conn
      <3> QED BY <3>2, <3>3, RightKept
    <2> QED BY <2>1, <2>2
  <1> QED BY <1>2 DEF AnswersRight

LEMMA IssueKeeps ==
    ASSUME RpcInv, NEW p \in Process, NEW r \in Request, NEW c \in Command, Issue(p, r, c)
    PROVE  RpcInv'
  <1> DEFINE n == NewCall(serviceClient[p], c)
  <1>1. /\ alive[p] /\ waitsFor[p] = None /\ serviceClient[p] # None /\ calls[r] = <<>>
        /\ calls' = [calls EXCEPT ![r] = <<n>>] /\ waitsFor' = [waitsFor EXCEPT ![p] = r]
        /\ UNCHANGED <<processVars, data, typeWord, dataWord, setting, serviceClient, stored,
                       configured>>
    BY DEF Issue, Idle, serverVars, history
  <1>2. Types /\ ChainInv /\ WaitInv /\ AnswersRight
    BY DEF RpcInv
  <1>3. serviceClient[p] \in Conn /\ serviceClient[p] \in KnownNow
    BY <1>1, <1>2 DEF Types, WaitInv
  <1>4. n \in Call /\ n.on = serviceClient[p] /\ n.phase = "sent" /\ n.linked = TRUE
    BY <1>3, NewCallIsCall
  <1> HIDE DEF n
  <1>5. <<n>> \in Seq(Call) /\ DOMAIN <<n>> = {1} /\ <<n>>[1] = n /\ <<n>> # <<>>
    BY <1>4
  <1>6. \A q \in Request : calls'[q] = IF q = r THEN <<n>> ELSE calls[q]
    BY <1>1, <1>2 DEF Types
  <1>7. Types'
    BY <1>1, <1>2, <1>5 DEF Types, processVars
  <1>8. HandleInv' /\ StorageInv'
    BY <1>1, HandleKept, StorageKept DEF RpcInv
  <1>9. ChainInv'
    <2>1. CallChain(<<n>>, UpNow, KnownNow)
      BY <1>3, <1>4, ChainStarts
    <2> QED BY <1>1, <1>2, <2>1, LocalChain
  <1>10. AnswersRight'
    BY <1>1, <1>2, <1>4, <1>5, LocalAnswers
  <1>11. WaitInv'
    <2>1. \A q \in Process : waitsFor[q] # r
      BY <1>1, <1>2 DEF WaitInv, Live
    <2>2. \A q \in Process : waitsFor'[q] = IF q = p THEN r ELSE waitsFor[q]
      BY <1>1, <1>2 DEF Types
    <2>3. UNCHANGED <<alive, serviceClient>> /\ KnownNow' = KnownNow
      BY <1>1, SettledKeeps DEF processVars
    <2>4. r # None
      BY ProcessAssumption
    <2>5. \A q \in Process : ~ alive'[q] => serviceClient'[q] = None /\ waitsFor'[q] = None
      BY <1>1, <1>2, <2>2, <2>3 DEF WaitInv
    <2>6. \A q, s \in Process : waitsFor'[q] # None /\ waitsFor'[q] = waitsFor'[s] => q = s
      BY <1>2, <2>1, <2>2 DEF WaitInv
    <2>7. \A q \in Request : Live(q)' /\ calls'[q][1].linked
                               <=> \E s \in Process : waitsFor'[s] = q
      <3>1. Live(r)' /\ calls'[r][1].linked /\ waitsFor'[p] = r
        BY <1>4, <1>5, <1>6, <2>2 DEF Live
      <3>2. ASSUME NEW q \in Request, q # r
            PROVE  /\ Live(q)' <=> Live(q)
                   /\ calls'[q] = calls[q]
                   /\ \A s \in Process : waitsFor'[s] = q <=> waitsFor[s] = q
        <4>1. q # None
          BY ProcessAssumption
        <4> QED BY <1>1, <1>6, <2>2, <3>2, <4>1 DEF Live
      <3> QED BY <1>2, <3>1, <3>2 DEF WaitInv
    <2> QED BY <1>2, <2>3, <2>5, <2>6, <2>7 DEF WaitInv
  <1> QED BY <1>7, <1>8, <1>9, <1>10, <1>11 DEF RpcInv

LEMMA SetNextNodeKeeps ==
    ASSUME RpcInv, NEW p \in Process, NEW q \in Process, SetNextNode(p, q)
    PROVE  RpcInv'
  <1> DEFINE s == [next |-> Connection(q),
                   left |-> {"data"} \cup (IF typeWord[p] THEN {} ELSE {"type"})]
  <1>1. /\ <<p, q>> \in Link /\ setting' = [setting EXCEPT ![p] = s]
        /\ UNCHANGED <<processVars, data, typeWord, dataWord, serviceClient, waitsFor, calls,
                       stored, configured>>
    BY DEF SetNextNode, cliVars, history
  <1>2. Types /\ Connection(q) \in KnownNow /\ Connection(q) \in Conn /\ Connection(q).to = q
    BY ConnectionIsConn DEF RpcInv
  <1>3. /\ s.next = Connection(q) /\ "data" \in s.left
        /\ s \in [next : Conn, left : SUBSET {"type", "data"}]
    <2>1. s.left \in SUBSET {"type", "data"} /\ "data" \in s.left
      OBVIOUS
    <2> QED BY <1>2, <2>1
  <1> HIDE DEF s
  <1>4. Types'
    BY <1>1, <1>2, <1>3 DEF Types, processVars
  <1>5. HandleInv'
    <2>1. \A n \in Process : setting'[n] = IF n = p THEN s ELSE setting[n]
      BY <1>1, <1>2 DEF Types
    <2>2. Handles(p, s.next)
      BY <1>1, <1>2, <1>3 DEF Handles
    <2>3. \A n, c : Handles(n, c)' <=> Handles(n, c)
      BY <1>1, SettledKeeps DEF Handles
    <2>4. UNCHANGED <<dataWord, configured>> /\ HandleInv
      BY <1>1 DEF RpcInv
    <2> QED BY <1>3, <2>1, <2>2, <2>3, <2>4 DEF HandleInv
  <1>6. StorageInv' /\ ChainInv' /\ AnswersRight' /\ WaitInv'
    BY <1>1, StorageKept, CallsKept, WaitKept DEF RpcInv
  <1> QED BY <1>4, <1>5, <1>6 DEF RpcInv

\* Whichever word comes last, the data word is written by then.
LEMMA AssignKeeps ==
    ASSUME RpcInv, NEW p \in Process, NEW word \in {"type", "data"}, Assign(p, word)
    PROVE  RpcInv'
  <1> DEFINE s == setting[p]
  <1>1. /\ s # None /\ word \in s.left
        /\ typeWord' = [typeWord EXCEPT ![p] = typeWord[p] \/ word = "type"]
        /\ dataWord' = [dataWord EXCEPT ![p] = IF word = "data" THEN s.next ELSE dataWord[p]]
        /\ setting' = [setting EXCEPT ![p] =
                         IF s.left = {word} THEN None ELSE [s EXCEPT !.left = s.left \ {word}]]
        /\ configured' = [configured EXCEPT ![p] = configured[p] \/ s.left = {word}]
        /\ UNCHANGED <<processVars, data, serviceClient, waitsFor, calls, stored>>
    BY DEF Assign, cliVars
  <1>2. Types /\ HandleInv
    BY DEF RpcInv
  <1>3. /\ s \in [next : Conn, left : SUBSET {"type", "data"}] /\ Handles(p, s.next)
        /\ "data" \in s.left \/ dataWord[p] # None
    BY <1>1, <1>2 DEF Types, HandleInv
  <1>4. PICK t \in [next : Conn, left : SUBSET {"type", "data"}] :
           t.next = s.next /\ t.left = s.left \ {word} /\ t = [s EXCEPT !.left = s.left \ {word}]
    BY <1>3
  <1>5. PICK d \in Conn \cup {None} : d = IF word = "data" THEN s.next ELSE dataWord[p]
    BY <1>2, <1>3 DEF Types
  <1>6. /\ d # None => Handles(p, d)
        /\ word = "data" => d # None
        /\ word # "data" => d = dataWord[p]
    BY <1>2, <1>3, <1>5, NotNone DEF HandleInv
  <1>7. PICK u : u = IF s.left = {word} THEN None ELSE t
    OBVIOUS
  <1> HIDE DEF s
  <1>8. PICK y \in BOOLEAN : y = (configured[p] \/ s.left = {word})
    BY <1>2 DEF Types
  <1>9. PICK w \in BOOLEAN : w = (typeWord[p] \/ word = "type")
    BY <1>2 DEF Types
  <1>10. /\ typeWord' = [typeWord EXCEPT ![p] = w] /\ dataWord' = [dataWord EXCEPT ![p] = d]
         /\ setting' = [setting EXCEPT ![p] = u] /\ configured' = [configured EXCEPT ![p] = y]
    BY <1>1, <1>4, <1>5, <1>7, <1>8, <1>9
  <1>11. Types'
    <2>1. u \in [next : Conn, left : SUBSET {"type", "data"}] \cup {None}
      BY <1>7
    <2> QED BY <1>1, <1>2, <1>10, <2>1 DEF Types, processVars
  <1>12. HandleInv'
    <2>1. \A n \in Process : /\ setting'[n] = IF n = p THEN u ELSE setting[n]
                             /\ dataWord'[n] = IF n = p THEN d ELSE dataWord[n]
                             /\ configured'[n] = IF n = p THEN y ELSE configured[n]
      BY <1>2, <1>10 DEF Types
    <2>2. KnownNow' = KnownNow /\ \A n, c : Handles(n, c)' <=> Handles(n, c)
      BY <1>1, SettledKeeps DEF Handles
    <2>3. u # None => Handles(p, u.next) /\ ("data" \in u.left \/ d # None)
      <3>1. u # None => u.next = s.next /\ u.left = s.left \ {word}
        BY <1>4, <1>7
      <3> QED BY <1>3, <1>6, <3>1
    <2>4. y => d # None
      <3>1. s.left = {word} => word = "data" \/ "data" \notin s.left
        OBVIOUS
      <3> QED BY <1>2, <1>3, <1>6, <1>8, <3>1 DEF HandleInv
    <2> QED BY <1>2, <1>6, <2>1, <2>2, <2>3, <2>4 DEF HandleInv
  <1>13. StorageInv' /\ ChainInv' /\ AnswersRight' /\ WaitInv'
    BY <1>1, StorageKept, CallsKept, WaitKept DEF RpcInv
  <1> QED BY <1>11, <1>12, <1>13 DEF RpcInv

\* The calls of a process that dies, and those made to it.
LEMMA DiesKeeps == ASSUME RpcInv, NEW p \in Process, Dies(p) PROVE RpcInv'
  <1>1. /\ alive' = [alive EXCEPT ![p] = FALSE] /\ life' = life
        /\ typeWord' = [typeWord EXCEPT ![p] = FALSE] /\ dataWord' = [dataWord EXCEPT ![p] = None]
        /\ setting' = [setting EXCEPT ![p] = None]
        /\ serviceClient' = [serviceClient EXCEPT ![p] = None]
        /\ waitsFor' = [waitsFor EXCEPT ![p] = None]
        /\ data' = [data EXCEPT ![p] = None] /\ stored' = [stored EXCEPT ![p] = {}]
        /\ configured' = [configured EXCEPT ![p] = FALSE]
    BY DEF Dies
  <1>2. Types /\ HandleInv /\ StorageInv /\ ChainInv /\ WaitInv /\ AnswersRight
    BY DEF RpcInv
  <1>3. \A n \in Process :
           /\ alive'[n] = IF n = p THEN FALSE ELSE alive[n]
           /\ dataWord'[n] = IF n = p THEN None ELSE dataWord[n]
           /\ setting'[n] = IF n = p THEN None ELSE setting[n]
           /\ serviceClient'[n] = IF n = p THEN None ELSE serviceClient[n]
           /\ waitsFor'[n] = IF n = p THEN None ELSE waitsFor[n]
           /\ data'[n] = IF n = p THEN None ELSE data[n]
           /\ stored'[n] = IF n = p THEN {} ELSE stored[n]
           /\ configured'[n] = IF n = p THEN FALSE ELSE configured[n]
    BY <1>1, <1>2 DEF Types
  <1>4. KnownNow' = KnownNow
    BY <1>1 DEF KnownNow
  <1>5. \A c \in Conn : Up(c)' <=> Up(c) /\ c.to # p
    <2> TAKE c \in Conn
    <2>1. c.to \in Process
      BY DEF Conn
    <2>2. (alive'[c.to] <=> alive[c.to] /\ c.to # p) /\ life'[c.to] = life[c.to]
      BY <1>1, <1>3, <2>1
    <2> QED BY <2>2 DEF Up
  <1>6. \A r \in Request :
           calls'[r] = [k \in DOMAIN calls[r] |->
                          [calls[r][k] EXCEPT !.linked =
                             /\ calls[r][k].linked
                             /\ IF k = 1 THEN waitsFor[p] # r ELSE calls[r][k - 1].on.to # p]]
    BY DEF Dies
  <1> DEFINE First(r, cs, t) == 1 \in DOMAIN cs => t[1].linked = (cs[1].linked /\ waitsFor[p] # r)
  <1>7. ASSUME NEW r \in Request, NEW cs, cs = calls[r], NEW t, t = calls'[r]
        PROVE  Orphaned(p, cs, t) /\ First(r, cs, t)
    <2> DEFINE link(k) == cs[k].linked /\ IF k = 1 THEN waitsFor[p] # r ELSE cs[k - 1].on.to # p
    <2>1. CallChain(cs, UpNow, KnownNow)
      BY <1>2, <1>7 DEF ChainInv
    <2>2. Len(cs) \in Nat /\ DOMAIN cs = 1 .. Len(cs) /\ \A k \in DOMAIN cs : cs[k] \in Call
      BY <2>1, ChainDomain
    <2>3. t = [k \in 1 .. Len(cs) |-> [cs[k] EXCEPT !.linked = link(k)]]
      <3>1. t = [k \in DOMAIN cs |-> [cs[k] EXCEPT !.linked = link(k)]]
        BY <1>6, <1>7
      <3> HIDE DEF link
      <3> QED BY <2>2, <3>1
    <2>4. ASSUME NEW k \in 1 .. Len(cs)
          PROVE  /\ t[k] \in Call
                 /\ t[k].on = cs[k].on /\ t[k].does = cs[k].does /\ t[k].phase = cs[k].phase
                 /\ t[k].answer = cs[k].answer /\ t[k].linked = link(k)
      <3>1. PICK y \in BOOLEAN : y = link(k)
        <4>1. cs[k].linked \in BOOLEAN
          BY <2>2, CallFields
        <4> QED BY <4>1
      <3>2. t[k] = [cs[k] EXCEPT !.linked = y]
        BY <2>3, <3>1
      <3>3. PICK c \in Call : c = cs[k]
        BY <2>2
      <3>4. [c EXCEPT !.linked = y] \in Call /\ [c EXCEPT !.linked = y].linked = y
        BY DEF Call
      <3> QED BY <3>1, <3>2, <3>3, <3>4 DEF Call
    <2> HIDE DEF link
    <2>5. t \in Seq(Call) /\ Len(t) = Len(cs) /\ DOMAIN t = 1 .. Len(cs)
      <3>1. t \in [1 .. Len(cs) -> Call]
        BY <2>3, <2>4
      <3> QED BY <2>2, <3>1
    <2> USE DEF link
    <2> QED BY <2>2, <2>4, <2>5 DEF Orphaned
  <1> HIDE DEF First
  <1>8. Types'
    <2>1. calls' \in [Request -> Seq(Call)]
      <3>1. DOMAIN calls' = Request /\ calls' = [r \in Request |-> calls'[r]]
        BY DEF Dies
      <3>2. \A r \in Request : calls'[r] \in Seq(Call)
        BY <1>7 DEF Orphaned
      <3> QED BY <3>1, <3>2
    <2> QED BY <1>1, <1>2, <2>1 DEF Types
  <1>9. HandleInv'
    BY <1>2, <1>3, <1>4 DEF HandleInv, Handles
  <1>10. StorageInv'
    BY <1>2, <1>3 DEF StorageInv
  <1>11. ChainInv'
    <2>1. ASSUME NEW r \in Request, NEW t, t = calls'[r] PROVE CallChain(t, UpNow, KnownNow)'
      <3>1. PICK cs : cs = calls[r]
        OBVIOUS
      <3>2. CallChain(cs, UpNow, KnownNow)
        BY <1>2, <3>1 DEF ChainInv
      <3>3. PICK down : down = UpNow'
        OBVIOUS
      <3>4. \A c \in KnownNow : c \in down <=> c \in UpNow /\ c.to # p
        BY <1>5, <3>3 DEF UpNow, KnownNow
      <3>5. Orphaned(p, cs, t)
        BY <1>7, <2>1, <3>1
      <3>6. CallChain(t, down, KnownNow)
        BY <3>2, <3>4, <3>5, ChainOrphaned
      <3> QED BY <1>4, <3>3, <3>6
    <2> QED BY <2>1 DEF ChainInv
  <1>12. AnswersRight'
    <2>1. ASSUME NEW r \in Request, NEW t, t = calls'[r], NEW k \in DOMAIN t,
                 t[k].phase = "answered"
          PROVE  Right(t[k].does, t[k].on, t[k].answer)'
      <3>1. PICK cs : cs = calls[r]
        OBVIOUS
      <3>2. /\ k \in DOMAIN cs /\ cs[k].phase = "answered" /\ t[k].does = cs[k].does
            /\ t[k].on = cs[k].on /\ t[k].answer = cs[k].answer
        <4>1. Orphaned(p, cs, t)
          BY <1>7, <2>1, <3>1
        <4> QED BY <2>1, <4>1 DEF Orphaned
      <3>3. Right(cs[k].does, cs[k].on, cs[k].answer)
        BY <1>2, <3>1, <3>2 DEF AnswersRight
      <3>4. cs[k].on \in Conn
        BY <1>2, <3>1, <3>2, ChainDomain, CallFields DEF ChainInv
      <3>5. PICK on \in Conn : on = cs[k].on
        BY <3>4
      <3>6. Up(on)' => Up(on) /\ stored'[on.to] = stored[on.to]
        BY <1>3, <1>5 DEF Conn
      <3>7. PICK does, answer : does = cs[k].does /\ answer = cs[k].answer
        OBVIOUS
      <3>8. Right(does, on, answer)
        BY <3>3, <3>5, <3>7
      <3>9. Right(does, on, answer)'
        BY <3>6, <3>8 DEF Right
      <3> QED BY <3>2, <3>5, <3>7, <3>9
    <2> QED BY <2>1 DEF AnswersRight
  <1>13. WaitInv'
    <2>1. ASSUME NEW n \in Process, ~ alive'[n]
          PROVE  serviceClient'[n] = None /\ waitsFor'[n] = None
      <3>1. n = p \/ ~ alive[n]
        BY <1>3, <2>1
      <3>2. ~ alive[n] => serviceClient[n] = None /\ waitsFor[n] = None
        BY <1>2 DEF WaitInv
      <3> QED BY <1>3, <3>1, <3>2
    <2>2. \A n \in Process : serviceClient'[n] # None => serviceClient'[n] \in KnownNow
      BY <1>2, <1>3 DEF WaitInv
    <2>3. \A n, q \in Process : waitsFor'[n] # None /\ waitsFor'[n] = waitsFor'[q] => n = q
      <3>1. \A n \in Process : waitsFor'[n] # None => n # p /\ waitsFor'[n] = waitsFor[n]
        BY <1>3
      <3>2. \A n, q \in Process : waitsFor[n] # None /\ waitsFor[n] = waitsFor[q] => n = q
        BY <1>2 DEF WaitInv
      <3> QED BY <3>1, <3>2
    <2>4. ASSUME NEW r \in Request
          PROVE  Live(r)' /\ calls'[r][1].linked <=> \E n \in Process : waitsFor'[n] = r
      <3>1. PICK cs, t : cs = calls[r] /\ t = calls'[r]
        OBVIOUS
      <3>2. /\ Len(t) = Len(cs) /\ t \in Seq(Call) /\ cs \in Seq(Call)
            /\ 1 \in DOMAIN cs => t[1].linked = (cs[1].linked /\ waitsFor[p] # r)
        <4>1. Orphaned(p, cs, t) /\ First(r, cs, t)
          BY <1>7, <3>1
        <4> QED BY <1>2, <3>1, <4>1 DEF Orphaned, First, Types
      <3>3. /\ cs # <<>> <=> 1 \in DOMAIN cs
            /\ t # <<>> <=> cs # <<>>
        BY <3>2, LenProperties, EmptySeq
      <3>4. cs # <<>> /\ cs[1].linked <=> \E n \in Process : waitsFor[n] = r
        BY <1>2, <3>1 DEF WaitInv, Live
      <3>5. (\E n \in Process : waitsFor'[n] = r)
              <=> (\E n \in Process : waitsFor[n] = r) /\ waitsFor[p] # r
        <4>1. r # None
          BY ProcessAssumption
        <4>2. \A n \in Process : waitsFor'[n] = r <=> n # p /\ waitsFor[n] = r
          BY <1>3, <4>1
        <4>3. \A n \in Process : waitsFor[n] = r /\ waitsFor[p] = r => n = p
          BY <1>2, <4>1 DEF WaitInv
        <4> QED BY <4>2, <4>3
      <3>6. t # <<>> /\ t[1].linked <=> \E n \in Process : waitsFor'[n] = r
        BY <3>2, <3>3, <3>4, <3>5
      <3> QED BY <3>1, <3>6 DEF Live
    <2> QED BY <1>4, <2>1, <2>2, <2>3, <2>4 DEF WaitInv
  <1> QED BY <1>8, <1>9, <1>10, <1>11, <1>12, <1>13 DEF RpcInv

\* A process that starts again is somebody else to all that knew it.
LEMMA RestartKeeps == ASSUME RpcInv, NEW p \in Process, Restart(p) PROVE RpcInv'
  <1>1. /\ ~ alive[p] /\ life[p] < MaxLife /\ alive' = [alive EXCEPT ![p] = TRUE]
        /\ life' = [life EXCEPT ![p] = life[p] + 1]
        /\ UNCHANGED <<data, typeWord, dataWord, setting, serviceClient, waitsFor, calls, stored,
                       configured>>
    BY DEF Restart, serverVars, cliVars, history
  <1>2. Types /\ HandleInv /\ StorageInv /\ ChainInv /\ WaitInv /\ AnswersRight
    BY DEF RpcInv
  <1>3. /\ MaxLife \in Nat /\ life \in [Process -> 0 .. MaxLife] /\ alive \in [Process -> BOOLEAN]
    BY <1>2, ProcessAssumption DEF Types
  <1>4. \A n \in Process : /\ alive'[n] = IF n = p THEN TRUE ELSE alive[n]
                           /\ life'[n] = IF n = p THEN life[p] + 1 ELSE life[n]
                           /\ life[n] \in Nat
    BY <1>1, <1>3
  <1>5. KnownNow \subseteq KnownNow'
    <2> SUFFICES ASSUME NEW c \in Conn, c.life <= life[c.to] PROVE c.life <= life'[c.to]
      BY DEF KnownNow
    <2>1. c.to \in Process /\ c.life \in Nat /\ life[c.to] \in Nat
      BY <1>3 DEF Conn
    <2>2. life'[c.to] = life[c.to] \/ life'[c.to] = life[c.to] + 1
      BY <1>4, <2>1
    <2> QED BY <2>1, <2>2
  <1>6. \A c \in KnownNow : Up(c)' <=> Up(c)
    <2> TAKE c \in KnownNow
    <2>1. c.to \in Process /\ c.life \in Nat /\ c.life <= life[c.to]
      BY <1>3 DEF KnownNow, Conn
    <2>2. CASE c.to = p
      <3>1. ~ Up(c)
        BY <1>1, <2>2 DEF Up
      <3>2. life'[c.to] = life[c.to] + 1 /\ life[c.to] \in Nat
        BY <1>4, <2>1, <2>2
      <3>3. c.life # life'[c.to]
        BY <2>1, <3>2
      <3> QED BY <3>1, <3>3 DEF Up
    <2>3. CASE c.to # p
      BY <1>4, <2>1, <2>3 DEF Up
    <2> QED BY <2>2, <2>3
  <1>7. Types'
    <2>1. life[p] + 1 \in 0 .. MaxLife
      BY <1>1, <1>3
    <2> QED BY <1>1, <1>2, <2>1 DEF Types
  <1>8. HandleInv' /\ StorageInv'
    BY <1>1, <1>2, <1>5 DEF HandleInv, Handles, StorageInv
  <1>9. ChainInv'
    <2>1. \A c \in KnownNow : c \in UpNow' <=> c \in UpNow
      BY <1>6 DEF UpNow, KnownNow
    <2> QED BY <1>1, <1>2, <1>5, <2>1, ChainUp DEF ChainInv
  <1>10. AnswersRight'
    <2>1. ASSUME NEW r \in Request, NEW k \in DOMAIN calls[r]
          PROVE  Up(calls[r][k].on)' <=> Up(calls[r][k].on)
      BY <1>1, <1>2, <1>6 DEF ChainInv, CallChain
    <2> QED BY <1>1, <1>2, <2>1 DEF AnswersRight, Right
  <1>11. WaitInv'
    BY <1>1, <1>2, <1>4, <1>5 DEF WaitInv, Live
  <1> QED BY <1>7, <1>8, <1>9, <1>10, <1>11 DEF RpcInv

LEMMA CrashKeeps == ASSUME RpcInv, NEW p \in Process, Crash(p) PROVE RpcInv'
  BY DiesKeeps DEF Crash

-----------------------------------------------------------------------------
(* The server *)

LEMMA CallOf ==
    ASSUME RpcInv, NEW r \in Request, NEW k \in DOMAIN calls[r]
    PROVE  /\ CallChain(calls[r], UpNow, KnownNow)
           /\ Len(calls[r]) \in Nat /\ DOMAIN calls[r] = 1 .. Len(calls[r])
           /\ calls[r] \in Seq(Call) /\ calls[r][k] \in Call
           /\ calls[r][k].on \in Conn /\ calls[r][k].on.to \in Process
           /\ Up(calls[r][k].on) <=> calls[r][k].on \in UpNow
  <1>1. CallChain(calls[r], UpNow, KnownNow) /\ calls[r] \in Seq(Call)
    BY DEF RpcInv, ChainInv, Types
  <1>2. calls[r][k] \in Call /\ Len(calls[r]) \in Nat /\ DOMAIN calls[r] = 1 .. Len(calls[r])
    BY <1>1, ChainDomain
  <1>3. calls[r][k].on \in Conn
    BY <1>2, CallFields
  <1> QED BY <1>1, <1>2, <1>3 DEF Conn, UpNow

LEMMA PanicKeeps ==
    ASSUME RpcInv, NEW r \in Request, NEW k \in DOMAIN calls[r], Panic(r, k) PROVE RpcInv'
  BY CallOf, DiesKeeps DEF Panic

\* What the first call of a request is linked to does not change.
LEMMA WaitLocal ==
    ASSUME Types, WaitInv, UNCHANGED <<processVars, serviceClient, waitsFor>>,
           NEW r \in Request, NEW t, calls' = [calls EXCEPT ![r] = t],
           t # <<>> /\ t[1].linked <=> Live(r) /\ calls[r][1].linked
    PROVE  WaitInv'
  <1>1. \A q \in Request : calls'[q] = IF q = r THEN t ELSE calls[q]
    BY DEF Types
  <1>2. UNCHANGED <<alive, serviceClient, waitsFor>> /\ KnownNow' = KnownNow
    BY SettledKeeps DEF processVars
  <1>3. ASSUME NEW q \in Request
        PROVE  Live(q)' /\ calls'[q][1].linked <=> \E n \in Process : waitsFor'[n] = q
    <2>1. Live(q) /\ calls[q][1].linked <=> \E n \in Process : waitsFor'[n] = q
      BY <1>2 DEF WaitInv
    <2>2. CASE q = r
      <3>1. Live(q)' /\ calls'[q][1].linked <=> t # <<>> /\ t[1].linked
        BY <1>1, <2>2 DEF Live
      <3> QED BY <2>1, <2>2, <3>1
    <2>3. CASE q # r
      <3>1. Live(q)' /\ calls'[q][1].linked <=> Live(q) /\ calls[q][1].linked
        BY <1>1, <2>3 DEF Live
      <3> QED BY <2>1, <3>1
    <2> QED BY <2>2, <2>3
  <1> QED BY <1>2, <1>3 DEF WaitInv

Answers == {None, Error} \cup Command \cup {Sum(c) : c \in Addend}

LEMMA AnsweredProperties ==
    ASSUME NEW cs \in Seq(Call), NEW k \in DOMAIN cs, NEW answer \in Answers, NEW t,
           t = Answered(cs, k, answer)
    PROVE  /\ t \in Seq(Call) /\ Len(t) = Len(cs) /\ DOMAIN t = DOMAIN cs
           /\ \A j \in DOMAIN cs : j # k => t[j] = cs[j]
           /\ SameCall(t[k], cs[k]) /\ t[k].phase = "answered" /\ t[k].answer = answer
  <1>1. PICK c \in Call : c = cs[k]
    BY LenProperties, ElementOfSeq
  <1> DEFINE d == [c EXCEPT !.phase = "answered", !.answer = answer]
  <1>2. /\ d \in Call /\ SameCall(d, c)
        /\ d.phase = "answered" /\ d.answer = answer
    BY DEF Call, SameCall, Answers, Addend
  <1>3. t = [cs EXCEPT ![k] = d]
    BY <1>1 DEF Answered
  <1> HIDE DEF d
  <1>4. t \in Seq(Call) /\ Len(t) = Len(cs)
    BY <1>2, <1>3, ExceptSeq
  <1>5. DOMAIN t = DOMAIN cs /\ t[k] = d /\ \A j \in DOMAIN cs : j # k => t[j] = cs[j]
    BY <1>3
  <1> QED BY <1>1, <1>2, <1>4, <1>5

\* A call that has just arrived is served, or found to be for the next node.
LEMMA ServedKeeps ==
    ASSUME RpcInv, NEW r \in Request, NEW k \in DOMAIN calls[r], At(r, k, "sent"),
           NEW t \in Seq(Call), Len(t) = Len(calls[r]),
           \A j \in DOMAIN calls[r] : j # k => t[j] = calls[r][j],
           SameCall(t[k], calls[r][k]),
           t[k].phase = "answered" \/ (t[k].phase = "forwarding" /\ calls[r][k].does \in Addend),
           t[k].phase = "answered" => Right(t[k].does, t[k].on, t[k].answer)',
           calls' = [calls EXCEPT ![r] = t],
           UNCHANGED <<processVars, typeWord, dataWord, setting, cliVars, configured>>,
           data' \in [Process -> Stored \cup {None}], stored' \in [Process -> SUBSET Stored],
           \A p \in Process : stored[p] \subseteq stored'[p], StorageInv'
    PROVE  RpcInv'
  <1>1. Types /\ ChainInv /\ WaitInv /\ AnswersRight
    BY DEF RpcInv
  <1>2. /\ CallChain(calls[r], UpNow, KnownNow) /\ calls[r] \in Seq(Call) /\ calls[r] # <<>>
        /\ Len(calls[r]) \in Nat /\ DOMAIN calls[r] = 1 .. Len(calls[r])
    BY CallOf, EmptySeq
  <1>3. CallChain(t, UpNow, KnownNow)
    BY <1>2, ChainServed DEF At
  <1>4. Types'
    BY <1>1 DEF Types, processVars, cliVars
  <1>5. HandleInv'
    BY HandleKept DEF RpcInv
  <1>6. ChainInv'
    BY <1>1, <1>3, LocalChain
  <1>7. DOMAIN t = DOMAIN calls[r]
    BY <1>2, LenProperties
  <1>8. AnswersRight'
    <2>1. ASSUME NEW j \in DOMAIN t, t[j].phase = "answered"
          PROVE  Right(t[j].does, t[j].on, t[j].answer)'
      <3>1. CASE j = k
        BY <2>1, <3>1
      <3>2. CASE j # k
        <4>1. PICK c : c = calls[r][j]
          OBVIOUS
        <4>2. t[j] = c /\ c.on.to \in Process
          BY <1>7, <3>2, <4>1, CallOf
        <4>3. Right(c.does, c.on, c.answer)
          BY <1>1, <1>7, <2>1, <4>1, <4>2 DEF AnswersRight
        <4>4. Right(c.does, c.on, c.answer)'
          BY <4>2, <4>3, RightKept
        <4> QED BY <4>2, <4>4
      <3> QED BY <3>1, <3>2
    <2> QED BY <1>1, <2>1, LocalAnswers
  <1>9. WaitInv'
    <2>1. t # <<>> /\ t[1].linked = calls[r][1].linked
      <3>1. 1 \in DOMAIN calls[r] /\ t # <<>>
        BY <1>2, <1>7, EmptySeq
      <3> QED BY <3>1 DEF SameCall
    <2> QED BY <1>1, <1>2, <2>1, WaitLocal DEF Live, cliVars
  <1> QED BY <1>4, <1>5, <1>6, <1>8, <1>9 DEF RpcInv

LEMMA CommandKinds ==
    ASSUME NEW does
    PROVE  /\ does \in Addend => does \notin Stored /\ does # [read |-> TRUE]
           /\ does \in Stored => does # [read |-> TRUE] /\ does # None /\ does # Error
           /\ None # Error
  <1>1. /\ does \in Addend => DOMAIN does = {"add"}
        /\ does \in Stored => DOMAIN does = {"store"}
        /\ DOMAIN [read |-> TRUE] = {"read"} /\ DOMAIN None = {"none"} /\ DOMAIN Error = {"error"}
    BY DEF Addend, Stored, None, Error
  <1>2. "store" # "add" /\ "store" # "read" /\ "add" # "read" /\ "none" # "store"
        /\ "error" # "store" /\ "none" # "error"
    OBVIOUS
  <1>3. {"store"} # {"add"} /\ {"store"} # {"read"} /\ {"add"} # {"read"} /\ {"none"} # {"store"}
        /\ {"error"} # {"store"} /\ {"none"} # {"error"}
    BY <1>2
  <1> QED BY <1>1, <1>3

LEMMA ServeStorageKeeps ==
    ASSUME RpcInv, NEW r \in Request, NEW k \in DOMAIN calls[r], ServeStorage(r, k)
    PROVE  RpcInv'
  <1>1. PICK p \in Process : p = calls[r][k].on.to
    BY CallOf
  <1>2. PICK c \in Command : c = calls[r][k].does
    BY CallOf, CallFields
  <1>3. /\ At(r, k, "sent")
        /\ UNCHANGED <<processVars, typeWord, dataWord, setting, cliVars, configured>>
        /\ \/ /\ c \in Stored
              /\ data' = [data EXCEPT ![p] = c]
              /\ stored' = [stored EXCEPT ![p] = stored[p] \cup {c}]
              /\ calls' = [calls EXCEPT ![r] = Answered(calls[r], k, c)]
           \/ /\ c = [read |-> TRUE]
              /\ calls' = [calls EXCEPT ![r] = Answered(calls[r], k, data[p])]
              /\ UNCHANGED <<data, stored>>
    BY <1>1, <1>2 DEF ServeStorage, Stored
  <1>4. Types /\ StorageInv /\ data[p] \in Stored \cup {None}
    BY DEF RpcInv, Types
  <1>5. calls[r] \in Seq(Call)
    BY CallOf
  <1>6. PICK on : on = calls[r][k].on
    OBVIOUS
  <1>7. CASE c \in Stored
    <2>1. /\ data' = [data EXCEPT ![p] = c]
          /\ stored' = [stored EXCEPT ![p] = stored[p] \cup {c}]
          /\ calls' = [calls EXCEPT ![r] = Answered(calls[r], k, c)]
      BY <1>3, <1>7, CommandKinds
    <2>2. PICK t : t = Answered(calls[r], k, c)
      OBVIOUS
    <2>3. c \in Answers
      BY DEF Answers
    <2>4. \A n \in Process : /\ data'[n] = IF n = p THEN c ELSE data[n]
                             /\ stored'[n] = IF n = p THEN stored[p] \cup {c} ELSE stored[n]
      BY <1>4, <2>1 DEF Types
    <2>5. data' \in [Process -> Stored \cup {None}] /\ stored' \in [Process -> SUBSET Stored]
      BY <1>4, <1>7, <2>1 DEF Types
    <2>6. StorageInv' /\ \A n \in Process : stored[n] \subseteq stored'[n]
      BY <1>4, <2>4 DEF StorageInv
    <2>7. Right(c, on, c)'
      BY <1>1, <1>6, <1>7, <2>4, CommandKinds DEF Right
    <2>8. /\ t \in Seq(Call) /\ Len(t) = Len(calls[r])
          /\ \A j \in DOMAIN calls[r] : j # k => t[j] = calls[r][j]
          /\ SameCall(t[k], calls[r][k]) /\ t[k].phase = "answered" /\ t[k].answer = c
      BY <1>5, <2>2, <2>3, AnsweredProperties
    <2>9. t[k].does = c /\ t[k].on = on
      BY <1>2, <1>6, <2>8 DEF SameCall
    <2>10. Right(t[k].does, t[k].on, t[k].answer)'
      BY <2>7, <2>8, <2>9
    <2>11. calls' = [calls EXCEPT ![r] = t]
      BY <2>1, <2>2
    <2> QED BY <1>3, <2>5, <2>6, <2>8, <2>10, <2>11, ServedKeeps
  <1>8. CASE c = [read |-> TRUE]
    <2>1. PICK answer : answer = data[p]
      OBVIOUS
    <2>2. calls' = [calls EXCEPT ![r] = Answered(calls[r], k, answer)] /\ UNCHANGED <<data, stored>>
      BY <1>3, <1>8, <2>1, CommandKinds
    <2>3. PICK t : t = Answered(calls[r], k, answer)
      OBVIOUS
    <2>4. answer \in Answers
      BY <1>4, <2>1 DEF Answers, Command, Stored
    <2>5. /\ data' \in [Process -> Stored \cup {None}] /\ stored' \in [Process -> SUBSET Stored]
          /\ \A n \in Process : stored[n] \subseteq stored'[n]
      BY <1>4, <2>2 DEF Types
    <2>6. StorageInv'
      BY <1>4, <2>2, StorageKept
    <2>7. Right(c, on, answer)'
      <3>1. answer # None => answer \in stored'[p]
        BY <1>4, <2>1, <2>2 DEF StorageInv
      <3>2. c \notin Addend /\ c \notin Stored
        BY <1>8, CommandKinds
      <3> QED BY <1>1, <1>6, <3>1, <3>2 DEF Right
    <2>8. /\ t \in Seq(Call) /\ Len(t) = Len(calls[r])
          /\ \A j \in DOMAIN calls[r] : j # k => t[j] = calls[r][j]
          /\ SameCall(t[k], calls[r][k]) /\ t[k].phase = "answered" /\ t[k].answer = answer
      BY <1>5, <2>3, <2>4, AnsweredProperties
    <2>9. t[k].does = c /\ t[k].on = on
      BY <1>2, <1>6, <2>8 DEF SameCall
    <2>10. Right(t[k].does, t[k].on, t[k].answer)'
      BY <2>7, <2>8, <2>9
    <2>11. calls' = [calls EXCEPT ![r] = t]
      BY <2>2, <2>3
    <2> QED BY <1>3, <2>5, <2>6, <2>8, <2>10, <2>11, ServedKeeps
  <1> QED BY <1>3, <1>7, <1>8

LEMMA AddHereKeeps ==
    ASSUME RpcInv, NEW r \in Request, NEW k \in DOMAIN calls[r], AddHere(r, k)
    PROVE  RpcInv'
  <1>1. PICK c : c = calls[r][k].does
    OBVIOUS
  <1>2. /\ At(r, k, "sent") /\ c \in Addend
        /\ UNCHANGED <<processVars, data, typeWord, dataWord, setting, cliVars, stored, configured>>
        /\ calls' = [calls EXCEPT ![r] = Answered(calls[r], k, Sum(c))]
    BY <1>1 DEF AddHere, AddArrives, serverVars, history, Addend
  <1>3. PICK answer : answer = Sum(c)
    OBVIOUS
  <1>4. PICK t : t = Answered(calls[r], k, answer)
    OBVIOUS
  <1>5. answer \in Answers
    BY <1>2, <1>3 DEF Answers
  <1>6. /\ data' \in [Process -> Stored \cup {None}] /\ stored' \in [Process -> SUBSET Stored]
        /\ \A n \in Process : stored[n] \subseteq stored'[n]
    BY <1>2 DEF RpcInv, Types
  <1>7. StorageInv'
    BY <1>2, StorageKept DEF RpcInv
  <1>8. /\ t \in Seq(Call) /\ Len(t) = Len(calls[r])
        /\ \A j \in DOMAIN calls[r] : j # k => t[j] = calls[r][j]
        /\ SameCall(t[k], calls[r][k]) /\ t[k].phase = "answered" /\ t[k].answer = answer
    BY <1>4, <1>5, CallOf, AnsweredProperties
  <1>9. t[k].does = c
    BY <1>1, <1>8 DEF SameCall
  <1>10. PICK on : on = t[k].on
    OBVIOUS
  <1>11. Right(c, on, answer)'
    BY <1>2, <1>3, CommandKinds DEF Right
  <1>12. Right(t[k].does, t[k].on, t[k].answer)'
    BY <1>8, <1>9, <1>10, <1>11
  <1> QED BY <1>2, <1>3, <1>4, <1>6, <1>7, <1>8, <1>12, ServedKeeps

LEMMA SeesNextKeeps ==
    ASSUME RpcInv, NEW r \in Request, NEW k \in DOMAIN calls[r], SeesNext(r, k)
    PROVE  RpcInv'
  <1>1. PICK c \in Call : c = calls[r][k]
    BY CallOf
  <1> DEFINE d == [c EXCEPT !.phase = "forwarding"]
  <1>2. d \in Call /\ SameCall(d, c) /\ d.phase = "forwarding"
    BY DEF Call, SameCall
  <1>3. /\ At(r, k, "sent") /\ c.does \in Addend
        /\ UNCHANGED <<processVars, data, typeWord, dataWord, setting, cliVars, stored, configured>>
        /\ calls' = [calls EXCEPT ![r] = [calls[r] EXCEPT ![k] = d]]
    BY <1>1 DEF SeesNext, AddArrives, serverVars, history, Addend
  <1> HIDE DEF d
  <1>4. PICK t : t = [calls[r] EXCEPT ![k] = d]
    OBVIOUS
  <1>5. t \in Seq(Call) /\ Len(t) = Len(calls[r])
    BY <1>2, <1>4, CallOf, ExceptSeq
  <1>6. t[k] = d /\ \A j \in DOMAIN calls[r] : j # k => t[j] = calls[r][j]
    BY <1>4
  <1>7. /\ data' \in [Process -> Stored \cup {None}] /\ stored' \in [Process -> SUBSET Stored]
        /\ \A n \in Process : stored[n] \subseteq stored'[n]
    BY <1>3 DEF RpcInv, Types
  <1>8. StorageInv'
    BY <1>3, StorageKept DEF RpcInv
  <1>9. t[k].phase = "forwarding" /\ t[k].phase # "answered" /\ SameCall(t[k], calls[r][k])
    BY <1>1, <1>2, <1>6
  <1> QED BY <1>1, <1>3, <1>4, <1>5, <1>6, <1>7, <1>8, <1>9, ServedKeeps

\* An addition is forwarded behind the last call of its request.
LEMMA ForwardKeeps ==
    ASSUME RpcInv, NEW r \in Request, NEW k \in DOMAIN calls[r], Forward(r, k)
    PROVE  RpcInv'
  <1>1. PICK cs : cs = calls[r]
    OBVIOUS
  <1>2. PICK c \in Call : c = cs[k]
    BY <1>1, CallOf
  <1>3. PICK next : next = dataWord[c.on.to]
    OBVIOUS
  <1> DEFINE w == [c EXCEPT !.phase = "waiting"]
             d == NewCall(next, c.does)
  <1>4. /\ c.phase = "forwarding" /\ Up(c.on) /\ next # None
        /\ calls' = [calls EXCEPT ![r] = InsertAt([cs EXCEPT ![k] = w], k + 1, d)]
        /\ UNCHANGED <<processVars, data, typeWord, dataWord, setting, serviceClient, waitsFor,
                       stored, configured>>
    BY <1>1, <1>2, <1>3 DEF Forward, At, serverVars, cliVars, history
  <1>5. Types /\ ChainInv /\ WaitInv /\ AnswersRight
    BY DEF RpcInv
  <1>6. /\ CallChain(cs, UpNow, KnownNow) /\ cs \in Seq(Call) /\ cs # <<>>
        /\ Len(cs) \in Nat /\ DOMAIN cs = 1 .. Len(cs) /\ k \in DOMAIN cs
        /\ c.on.to \in Process /\ c.on \in UpNow /\ c.does \in Command
    BY <1>1, <1>2, <1>4, CallOf, CallFields, EmptySeq
  <1>7. k = Len(cs)
    BY <1>2, <1>4, <1>6 DEF CallChain
  <1>8. next \in Conn /\ next \in KnownNow /\ <<c.on.to, next.to>> \in Link
    BY <1>3, <1>4, <1>5, <1>6 DEF RpcInv, HandleInv, Handles, Types
  <1>9. w \in Call /\ SameCall(w, c) /\ w.phase = "waiting"
    BY DEF Call, SameCall
  <1>10. /\ d \in Call /\ d.on = next /\ d.does = c.does /\ d.phase = "sent" /\ d.linked = TRUE
    BY <1>6, <1>8, NewCallIsCall
  <1> HIDE DEF w, d
  <1>11. PICK s : s = [cs EXCEPT ![k] = w]
    OBVIOUS
  <1>12. /\ s \in Seq(Call) /\ Len(s) = Len(cs)
         /\ s[k] = w /\ \A j \in DOMAIN cs : j # k => s[j] = cs[j]
    BY <1>6, <1>9, <1>11, ExceptSeq
  <1>13. PICK t : t = Append(s, d)
    OBVIOUS
  <1>14. /\ t \in Seq(Call) /\ Len(t) = Len(cs) + 1
         /\ t[Len(cs) + 1] = d /\ \A j \in 1 .. Len(cs) : t[j] = s[j]
    BY <1>10, <1>12, <1>13, AppendProperties
  <1>15. calls' = [calls EXCEPT ![r] = t]
    <2>1. InsertAt(s, Len(s) + 1, d) = Append(s, d)
      BY <1>10, <1>12, InsertAtEnd
    <2>2. k + 1 = Len(s) + 1
      BY <1>7, <1>12
    <2>3. InsertAt(s, k + 1, d) = t
      BY <1>13, <2>1, <2>2
    <2> QED BY <1>4, <1>11, <2>3
  <1>16. t[k] = w /\ \A j \in DOMAIN cs : j # k => t[j] = cs[j]
    BY <1>6, <1>12, <1>14
  <1>17. CallChain(t, UpNow, KnownNow)
    BY <1>2, <1>4, <1>6, <1>8, <1>9, <1>10, <1>14, <1>16, ChainForwarded
  <1>18. Types'
    BY <1>4, <1>5, <1>14, <1>15 DEF Types, processVars
  <1>19. HandleInv' /\ StorageInv'
    BY <1>4, HandleKept, StorageKept DEF RpcInv
  <1>20. ChainInv'
    BY <1>4, <1>5, <1>15, <1>17, LocalChain
  <1>21. DOMAIN t = 1 .. Len(cs) + 1
    BY <1>14, LenProperties
  <1>22. AnswersRight'
    <2>1. ASSUME NEW j \in DOMAIN t, t[j].phase = "answered"
          PROVE  Right(t[j].does, t[j].on, t[j].answer)'
      <3>1. j \in DOMAIN cs /\ t[j] = cs[j]
        <4>1. j # Len(cs) + 1 /\ j # k
          BY <1>9, <1>10, <1>14, <1>16, <2>1
        <4> QED BY <1>6, <1>16, <1>21, <4>1
      <3>2. PICK e : e = cs[j]
        OBVIOUS
      <3>3. Right(e.does, e.on, e.answer) /\ e.on.to \in Process
        BY <1>1, <1>5, <2>1, <3>1, <3>2, CallOf DEF AnswersRight
      <3>4. Right(e.does, e.on, e.answer)'
        BY <1>4, <3>3, RightKept
      <3> QED BY <3>1, <3>2, <3>4
    <2> QED BY <1>4, <1>5, <1>15, <2>1, LocalAnswers
  <1>23. WaitInv'
    <2>1. t # <<>> /\ t[1].linked = cs[1].linked
      <3>1. 1 \in DOMAIN cs /\ t # <<>>
        BY <1>6, <1>14, <1>21, EmptySeq
      <3> QED BY <1>2, <1>9, <1>16, <3>1 DEF SameCall
    <2>2. Live(r) /\ calls[r][1].linked = t[1].linked
      BY <1>1, <1>6, <2>1 DEF Live
    <2> QED BY <1>4, <1>5, <1>15, <2>1, <2>2, WaitLocal
  <1> QED BY <1>18, <1>19, <1>20, <1>22, <1>23 DEF RpcInv

-----------------------------------------------------------------------------
(* CallRemote at the caller *)

\* Whoever waits for the k-th call goes on: t are the calls that are left then.
LEMMA CallerGetsKeeps ==
    ASSUME RpcInv, NEW r \in Request, NEW k \in DOMAIN calls[r], NEW answer, NEW left,
           CallerGets(r, k, answer, left),
           calls[r][k].linked => Right(calls[r][k].does, calls[r][k].on, answer),
           NEW t \in Seq(Call),
           t = IF calls[r][k].linked /\ k > 1 THEN Answered(left, k - 1, answer) ELSE left,
           CallChain(t, UpNow, KnownNow),
           \A j \in DOMAIN t :
              t[j].phase = "answered" => t[j].on \in Conn /\ Right(t[j].does, t[j].on, t[j].answer),
           t # <<>> => t[1].linked = (k # 1 /\ calls[r][1].linked),
           t = <<>> => k = 1
    PROVE  RpcInv' /\ OwnAnswer'
  <1>1. PICK cs : cs = calls[r]
    OBVIOUS
  <1>2. /\ CallChain(cs, UpNow, KnownNow) /\ cs \in Seq(Call) /\ cs # <<>>
        /\ Len(cs) \in Nat /\ DOMAIN cs = 1 .. Len(cs) /\ k \in 1 .. Len(cs)
        /\ cs[k].on.to \in Process /\ cs[k].linked \in BOOLEAN
    BY <1>1, CallOf, CallFields, EmptySeq
  <1>3. Types /\ ChainInv /\ WaitInv /\ AnswersRight
    BY DEF RpcInv
  <1>4. /\ calls' = [calls EXCEPT ![r] = t]
        /\ UNCHANGED <<processVars, data, typeWord, dataWord, setting, serviceClient, stored,
                       configured>>
    BY DEF CallerGets, serverVars, history
  <1>5. \/ /\ cs[k].linked /\ k = 1
           /\ \E p \in Process :
                 /\ waitsFor[p] = r
                 /\ waitsFor' = [waitsFor EXCEPT ![p] = None]
                 /\ printed' = [does |-> cs[1].does, on |-> cs[1].on, answer |-> answer]
        \/ ~ (cs[k].linked /\ k = 1) /\ printed' = None /\ UNCHANGED waitsFor
    BY <1>1 DEF CallerGets, Quiet
  <1>6. HandleInv' /\ StorageInv'
    BY <1>4, HandleKept, StorageKept DEF RpcInv
  <1>7. ChainInv'
    BY <1>3, <1>4, LocalChain
  <1>8. AnswersRight'
    <2>1. ASSUME NEW j \in DOMAIN t, t[j].phase = "answered"
          PROVE  Right(t[j].does, t[j].on, t[j].answer)'
      <3>1. PICK e : e = t[j]
        OBVIOUS
      <3>2. Right(e.does, e.on, e.answer) /\ stored[e.on.to] \subseteq stored'[e.on.to]
        BY <1>4, <2>1, <3>1
      <3>3. Right(e.does, e.on, e.answer)'
        BY <1>4, <3>2, RightKept
      <3> QED BY <3>1, <3>3
    <2> QED BY <1>3, <1>4, <2>1, LocalAnswers
  <1>9. CASE cs[k].linked /\ k = 1
    <2>1. PICK p \in Process :
             /\ waitsFor[p] = r
             /\ waitsFor' = [waitsFor EXCEPT ![p] = None]
             /\ printed' = [does |-> cs[1].does, on |-> cs[1].on, answer |-> answer]
      BY <1>5, <1>9
    <2>2. Types'
      BY <1>3, <1>4, <2>1 DEF Types, processVars
    <2>3. WaitInv'
      <3>1. \A n \in Process : waitsFor'[n] = IF n = p THEN None ELSE waitsFor[n]
        BY <1>3, <2>1 DEF Types
      <3>2. UNCHANGED <<alive, serviceClient>> /\ KnownNow' = KnownNow
        BY <1>4, SettledKeeps DEF processVars
      <3>3. r # None
        BY ProcessAssumption
      <3>4. \A n, q \in Process : waitsFor[n] # None /\ waitsFor[n] = waitsFor[q] => n = q
        BY <1>3 DEF WaitInv
      <3>5. \A n, q \in Process : waitsFor'[n] # None /\ waitsFor'[n] = waitsFor'[q] => n = q
        <4>1. \A n \in Process : waitsFor'[n] # None => n # p /\ waitsFor'[n] = waitsFor[n]
          BY <3>1
        <4> QED BY <3>4, <4>1
      <3>6. \A n \in Process : ~ alive'[n] => serviceClient'[n] = None /\ waitsFor'[n] = None
        BY <1>3, <3>1, <3>2 DEF WaitInv
      <3>7. ASSUME NEW q \in Request
            PROVE  Live(q)' /\ calls'[q][1].linked <=> \E n \in Process : waitsFor'[n] = q
        <4>1. calls'[q] = IF q = r THEN t ELSE calls[q]
          BY <1>3, <1>4 DEF Types
        <4>2. CASE q = r
          <5>1. ~ (Live(q)' /\ calls'[q][1].linked)
            BY <1>9, <4>1, <4>2 DEF Live
          <5>2. \A n \in Process : waitsFor'[n] # r
            BY <2>1, <3>1, <3>3, <3>4
          <5> QED BY <4>2, <5>1, <5>2
        <4>3. CASE q # r
          <5>1. Live(q)' /\ calls'[q][1].linked <=> \E n \in Process : waitsFor[n] = q
            BY <1>3, <4>1, <4>3 DEF WaitInv, Live
          <5>2. q # None
            BY ProcessAssumption
          <5>3. \A n \in Process : waitsFor'[n] = q <=> waitsFor[n] = q
            BY <2>1, <3>1, <4>3, <5>2
          <5> QED BY <5>1, <5>3
        <4> QED BY <4>2, <4>3
      <3> QED BY <1>3, <3>2, <3>5, <3>6, <3>7 DEF WaitInv
    <2>4. OwnAnswer'
      <3>1. PICK does, on : does = cs[1].does /\ on = cs[1].on
        OBVIOUS
      <3>2. Right(does, on, answer) /\ stored[on.to] \subseteq stored'[on.to]
        BY <1>1, <1>4, <1>9, <3>1
      <3>3. Right(does, on, answer)'
        BY <1>4, <3>2, RightKept
      <3>4. printed' = [does |-> does, on |-> on, answer |-> answer]
        BY <2>1, <3>1
      <3> QED BY <3>3, <3>4 DEF OwnAnswer, Right, Addend, Stored
    <2> QED BY <1>6, <1>7, <1>8, <2>2, <2>3, <2>4 DEF RpcInv
  <1>10. CASE ~ (cs[k].linked /\ k = 1)
    <2>1. printed' = None /\ UNCHANGED waitsFor
      BY <1>5, <1>10
    <2>2. Types'
      BY <1>3, <1>4, <2>1 DEF Types, processVars
    <2>3. WaitInv'
      <3>1. t # <<>> /\ t[1].linked <=> Live(r) /\ calls[r][1].linked
        BY <1>1, <1>2, <1>10 DEF Live
      <3> QED BY <1>3, <1>4, <2>1, <3>1, WaitLocal
    <2>4. OwnAnswer'
      BY <2>1 DEF OwnAnswer
    <2> QED BY <1>6, <1>7, <1>8, <2>2, <2>3, <2>4 DEF RpcInv
  <1> QED BY <1>9, <1>10

\* What is right for a forwarded addition is right for the one it was forwarded for.
LEMMA RightForCaller ==
    ASSUME NEW does \in Addend, NEW on, NEW answer, Right(does, on, answer), NEW on2
    PROVE  Right(does, on2, answer)
  BY CommandKinds DEF Right

LEMMA ErrorIsRight == ASSUME NEW does, NEW on PROVE Right(does, on, Error)
  BY DEF Right

\* The caller of the k-th call has made it for the same addition.
LEMMA CallerOf ==
    ASSUME RpcInv, NEW r \in Request, NEW k \in DOMAIN calls[r], k > 1
    PROVE  /\ k - 1 \in DOMAIN calls[r]
           /\ calls[r][k].linked =>
                 calls[r][k].does \in Addend /\ calls[r][k - 1].does = calls[r][k].does
  <1>1. /\ CallChain(calls[r], UpNow, KnownNow)
        /\ Len(calls[r]) \in Nat /\ DOMAIN calls[r] = 1 .. Len(calls[r])
    BY CallOf
  <1>2. k - 1 \in DOMAIN calls[r] /\ (k - 1) + 1 = k
    BY <1>1
  <1> QED BY <1>1, <1>2 DEF CallChain

\* The call is over, and its caller gets what it was answered or an error.
LEMMA RemovedKeeps ==
    ASSUME RpcInv, NEW r \in Request, NEW k \in DOMAIN calls[r], NEW answer \in Answers,
           calls[r][k].phase = "answered" \/ ~ Up(calls[r][k].on),
           Right(calls[r][k].does, calls[r][k].on, answer),
           CallerGets(r, k, answer, RemoveAt(calls[r], k))
    PROVE  RpcInv' /\ OwnAnswer'
  <1>1. PICK cs : cs = calls[r]
    OBVIOUS
  <1>2. /\ CallChain(cs, UpNow, KnownNow) /\ cs \in Seq(Call) /\ AnswersRight
        /\ Len(cs) \in Nat /\ DOMAIN cs = 1 .. Len(cs) /\ k \in 1 .. Len(cs)
        /\ \A j \in DOMAIN cs : cs[j].on \in Conn /\ cs[j].linked \in BOOLEAN
    BY <1>1, CallOf, CallFields, ChainDomain DEF RpcInv
  <1>3. PICK left : left = RemoveAt(cs, k)
    OBVIOUS
  <1>4. /\ left \in Seq(Call) /\ Len(left) = Len(cs) - 1
        /\ DOMAIN left = 1 .. Len(cs) - 1
        /\ \A j \in 1 .. Len(cs) - 1 : left[j] = IF j < k THEN cs[j] ELSE cs[j + 1]
    <2>1. k \in DOMAIN cs
      BY <1>2
    <2>2. /\ left \in Seq(Call) /\ Len(left) = Len(cs) - 1
          /\ \A j \in 1 .. Len(cs) - 1 : left[j] = IF j < k THEN cs[j] ELSE cs[j + 1]
      BY <1>2, <1>3, <2>1, RemoveAtProperties
    <2> QED BY <2>2, LenProperties
  <1>5. cs[k].phase = "answered" \/ cs[k].on \notin UpNow
    BY <1>1, CallOf
  <1>6. k + 1 \in DOMAIN cs => cs[k + 1].linked = FALSE
    BY <1>2, <1>5, ChainLinks
  <1>7. ASSUME NEW j \in DOMAIN left, left[j].phase = "answered"
        PROVE  left[j].on \in Conn /\ Right(left[j].does, left[j].on, left[j].answer)
    <2>1. PICK i \in DOMAIN cs : left[j] = cs[i]
      BY <1>2, <1>4
    <2> QED BY <1>1, <1>2, <1>7, <2>1 DEF AnswersRight
  <1>8. CASE cs[k].linked /\ k > 1
    <2>1. /\ k - 1 \in DOMAIN left /\ left[k - 1] = cs[k - 1]
          /\ cs[k].does \in Addend /\ cs[k - 1].does = cs[k].does
      <3>1. k - 1 \in 1 .. Len(cs) - 1 /\ k - 1 < k
        BY <1>2, <1>8
      <3> QED BY <1>1, <1>4, <1>8, <3>1, CallerOf
    <2>2. PICK t : t = Answered(left, k - 1, answer)
      OBVIOUS
    <2>3. /\ t \in Seq(Call) /\ Len(t) = Len(left) /\ DOMAIN t = DOMAIN left
          /\ \A j \in DOMAIN left : j # k - 1 => t[j] = left[j]
          /\ SameCall(t[k - 1], left[k - 1])
          /\ t[k - 1].phase = "answered" /\ t[k - 1].answer = answer
      <3>1. PICK m \in DOMAIN left : m = k - 1
        BY <2>1
      <3>2. t = Answered(left, m, answer)
        BY <2>2, <3>1
      <3>3. /\ t \in Seq(Call) /\ Len(t) = Len(left) /\ DOMAIN t = DOMAIN left
            /\ \A j \in DOMAIN left : j # m => t[j] = left[j]
            /\ SameCall(t[m], left[m]) /\ t[m].phase = "answered" /\ t[m].answer = answer
        BY <1>4, <3>2, AnsweredProperties
      <3> QED BY <3>1, <3>3
    <2>4. CallChain(t, UpNow, KnownNow)
      <3>1. ASSUME NEW j \in 1 .. Len(t)
            PROVE  (j >= k => t[j] = cs[j + 1]) /\ (j + 1 < k => t[j] = cs[j])
        <4>1. /\ j \in DOMAIN left /\ j \in Nat /\ k \in Nat
              /\ left[j] = IF j < k THEN cs[j] ELSE cs[j + 1]
          BY <1>2, <1>4, <2>3
        <4>2. j >= k => j # k - 1 /\ ~ (j < k)
          BY <4>1
        <4>3. j + 1 < k => j # k - 1 /\ j < k
          BY <4>1
        <4> QED BY <2>3, <4>1, <4>2, <4>3
      <3>2. /\ SameCall(t[k - 1], cs[k - 1])
            /\ IF cs[k].linked THEN t[k - 1].phase = "answered" ELSE t[k - 1] = cs[k - 1]
        BY <1>8, <2>1, <2>3
      <3> QED BY <1>2, <1>4, <1>5, <2>3, <3>1, <3>2, ChainRemoved
    <2>5. ASSUME NEW j \in DOMAIN t, t[j].phase = "answered"
          PROVE  t[j].on \in Conn /\ Right(t[j].does, t[j].on, t[j].answer)
      <3>1. CASE j = k - 1
        <4>1. t[j].does = cs[k].does /\ t[j].on = cs[k - 1].on /\ t[j].answer = answer
          BY <2>1, <2>3, <3>1 DEF SameCall
        <4>2. cs[k - 1].on \in Conn
          BY <1>2, <1>4, <2>1
        <4>3. Right(cs[k].does, cs[k - 1].on, answer)
          BY <1>1, <2>1, RightForCaller
        <4> QED BY <4>1, <4>2, <4>3
      <3>2. CASE j # k - 1
        BY <1>7, <2>3, <2>5, <3>2
      <3> QED BY <3>1, <3>2
    <2>6. t # <<>> /\ t[1].linked = cs[1].linked
      <3>1. 1 \in DOMAIN t /\ 1 < k
        BY <1>2, <1>4, <1>8, <2>3
      <3>2. SameCall(t[1], left[1])
        BY <2>3, <3>1 DEF SameCall
      <3> QED BY <1>4, <2>3, <3>1, <3>2, EmptySeq DEF SameCall
    <2>7. t = IF cs[k].linked /\ k > 1 THEN Answered(left, k - 1, answer) ELSE left
      BY <1>8, <2>2
    <2>8. t[1].linked = (k # 1 /\ cs[1].linked)
      BY <1>2, <1>8, <2>6
    <2> QED BY <1>1, <1>3, <2>3, <2>4, <2>5, <2>6, <2>7, <2>8, CallerGetsKeeps
  <1>9. CASE ~ (cs[k].linked /\ k > 1)
    <2>1. CallChain(left, UpNow, KnownNow)
      <3>1. \A j \in 1 .. Len(left) : /\ j >= k => left[j] = cs[j + 1]
                                      /\ j + 1 < k => left[j] = cs[j]
        BY <1>2, <1>4
      <3>2. k > 1 => left[k - 1] = cs[k - 1]
        BY <1>2, <1>4
      <3> QED BY <1>2, <1>4, <1>5, <1>9, <3>1, <3>2, ChainRemoved DEF SameCall
    <2>2. left # <<>> => left[1].linked = (k # 1 /\ cs[1].linked)
      <3>1. left # <<>> => 1 \in DOMAIN left
        BY <1>2, <1>4, EmptySeq
      <3>2. CASE k = 1
        BY <1>2, <1>4, <1>6, <3>1, <3>2
      <3>3. CASE k # 1
        BY <1>2, <1>4, <3>1, <3>3
      <3> QED BY <3>2, <3>3
    <2>3. left = <<>> => k = 1
      BY <1>2, <1>4, <1>9, EmptySeq
    <2>4. /\ CallerGets(r, k, answer, left) /\ left \in Seq(Call)
          /\ left = IF calls[r][k].linked /\ k > 1 THEN Answered(left, k - 1, answer) ELSE left
      BY <1>1, <1>3, <1>4, <1>9
    <2> QED BY <1>1, <1>7, <2>1, <2>2, <2>3, <2>4, CallerGetsKeeps
  <1> QED BY <1>8, <1>9

LEMMA ReturnKeeps ==
    ASSUME RpcInv, NEW r \in Request, NEW k \in DOMAIN calls[r], Return(r, k)
    PROVE  RpcInv' /\ OwnAnswer'
  <1>1. /\ calls[r][k].phase = "answered"
        /\ CallerGets(r, k, calls[r][k].answer, RemoveAt(calls[r], k))
    BY DEF Return
  <1>2. calls[r][k].answer \in Answers
    BY CallOf DEF Call, Answers, Addend
  <1>3. Right(calls[r][k].does, calls[r][k].on, calls[r][k].answer)
    BY <1>1 DEF RpcInv, AnswersRight
  <1> QED BY <1>1, <1>2, <1>3, RemovedKeeps

LEMMA BrokenKeeps ==
    ASSUME RpcInv, NEW r \in Request, NEW k \in DOMAIN calls[r], Broken(r, k)
    PROVE  RpcInv' /\ OwnAnswer'
  <1>1. ~ Up(calls[r][k].on) /\ CallerGets(r, k, Error, RemoveAt(calls[r], k))
    BY DEF Broken
  <1>2. Error \in Answers
    BY DEF Answers
  <1>3. Right(calls[r][k].does, calls[r][k].on, Error)
    BY ErrorIsRight
  <1> QED BY <1>1, <1>2, <1>3, RemovedKeeps

LEMMA TimeoutKeeps ==
    ASSUME RpcInv, NEW r \in Request, NEW k \in DOMAIN calls[r], Timeout(r, k)
    PROVE  RpcInv' /\ OwnAnswer'
  <1>1. PICK cs : cs = calls[r]
    OBVIOUS
  <1>2. PICK c \in Call : c = cs[k]
    BY <1>1, CallOf
  <1> DEFINE d == [c EXCEPT !.linked = FALSE]
  <1>3. c.linked /\ CallerGets(r, k, Error, [cs EXCEPT ![k] = d])
    BY <1>1, <1>2 DEF Timeout
  <1>4. /\ d \in Call /\ d.on = c.on /\ d.does = c.does /\ d.phase = c.phase
        /\ d.answer = c.answer /\ d.linked = FALSE
    BY DEF Call
  <1> HIDE DEF d
  <1>5. /\ CallChain(cs, UpNow, KnownNow) /\ cs \in Seq(Call) /\ AnswersRight /\ cs # <<>>
        /\ Len(cs) \in Nat /\ DOMAIN cs = 1 .. Len(cs) /\ k \in 1 .. Len(cs)
        /\ \A j \in DOMAIN cs : cs[j].on \in Conn /\ cs[j].linked \in BOOLEAN
    BY <1>1, CallOf, CallFields, ChainDomain, EmptySeq DEF RpcInv
  <1>6. PICK left : left = [cs EXCEPT ![k] = d]
    OBVIOUS
  <1>7. /\ left \in Seq(Call) /\ Len(left) = Len(cs) /\ DOMAIN left = DOMAIN cs
        /\ left[k] = d /\ \A j \in DOMAIN cs : j # k => left[j] = cs[j]
    BY <1>4, <1>5, <1>6, ExceptSeq
  <1>8. ASSUME NEW j \in DOMAIN left, left[j].phase = "answered"
        PROVE  left[j].on \in Conn /\ Right(left[j].does, left[j].on, left[j].answer)
    <2>1. /\ left[j].on = cs[j].on /\ left[j].does = cs[j].does
          /\ left[j].phase = cs[j].phase /\ left[j].answer = cs[j].answer
      BY <1>2, <1>4, <1>7
    <2>2. j \in DOMAIN cs /\ cs[j].on \in Conn
      BY <1>5, <1>7
    <2>3. Right(cs[j].does, cs[j].on, cs[j].answer)
      BY <1>1, <1>5, <1>8, <2>1, <2>2 DEF AnswersRight
    <2> QED BY <2>1, <2>2, <2>3
  <1>9. Error \in Answers /\ Right(c.does, c.on, Error)
    BY ErrorIsRight DEF Answers
  <1>10. CASE k > 1
    <2>1. PICK m \in DOMAIN cs : m = k - 1 /\ m # k /\ k = m + 1
      BY <1>1, <1>5, <1>10, CallerOf
    <2>2. PICK t : t = Answered(left, m, Error)
      OBVIOUS
    <2>3. /\ t \in Seq(Call) /\ Len(t) = Len(left) /\ DOMAIN t = DOMAIN left
          /\ \A j \in DOMAIN left : j # m => t[j] = left[j]
          /\ SameCall(t[m], left[m]) /\ t[m].phase = "answered" /\ t[m].answer = Error
      BY <1>7, <1>9, <2>1, <2>2, AnsweredProperties
    <2>4. CallChain(t, UpNow, KnownNow)
      <3>1. \A j \in DOMAIN cs : j # k /\ j + 1 # k => t[j] = cs[j]
        BY <1>5, <1>7, <2>1, <2>3
      <3>2. t[k] = d
        BY <1>5, <1>7, <2>1, <2>3
      <3>3. SameCall(t[k - 1], cs[k - 1]) /\ t[k - 1].phase = "answered"
        BY <1>7, <2>1, <2>3
      <3>4. t[k].on = cs[k].on /\ t[k].does = cs[k].does /\ t[k].phase = cs[k].phase
        BY <1>2, <1>4, <3>2
      <3>5. t[k].linked = FALSE /\ Len(t) = Len(cs) /\ t \in Seq(Call) /\ k \in DOMAIN cs
        BY <1>4, <1>5, <1>7, <2>3, <3>2
      <3> QED BY <1>5, <3>1, <3>3, <3>4, <3>5, ChainGivenUp
    <2>5. ASSUME NEW j \in DOMAIN t, t[j].phase = "answered"
          PROVE  t[j].on \in Conn /\ Right(t[j].does, t[j].on, t[j].answer)
      <3>1. CASE j = m
        <4>1. t[j].answer = Error /\ t[j].on = cs[m].on
          BY <1>7, <2>1, <2>3, <3>1 DEF SameCall
        <4> QED BY <1>5, <2>1, <4>1, ErrorIsRight
      <3>2. CASE j # m
        BY <1>8, <2>3, <2>5, <3>2
      <3> QED BY <3>1, <3>2
    <2>6. t # <<>> /\ t[1].linked = cs[1].linked
      <3>1. 1 \in DOMAIN t /\ 1 # k
        BY <1>5, <1>7, <1>10, <2>3
      <3>2. SameCall(t[1], left[1]) /\ left[1] = cs[1]
        BY <1>7, <2>3, <3>1 DEF SameCall
      <3> QED BY <1>5, <1>7, <2>3, <3>2, EmptySeq DEF SameCall
    <2>7. t = IF cs[k].linked /\ k > 1 THEN Answered(left, k - 1, Error) ELSE left
      BY <1>2, <1>3, <1>10, <2>1, <2>2
    <2>8. t[1].linked = (k # 1 /\ cs[1].linked)
      BY <1>5, <1>10, <2>6
    <2>9. CallerGets(r, k, Error, left) /\ Right(calls[r][k].does, calls[r][k].on, Error)
      BY <1>1, <1>2, <1>3, <1>6, <1>9
    <2> QED BY <1>1, <2>3, <2>4, <2>5, <2>6, <2>7, <2>8, <2>9, CallerGetsKeeps
  <1>11. CASE k = 1
    <2>1. CallChain(left, UpNow, KnownNow)
      <3>1. /\ left[k].on = cs[k].on /\ left[k].does = cs[k].does /\ left[k].phase = cs[k].phase
            /\ left[k].linked = FALSE
        BY <1>2, <1>4, <1>7
      <3>2. ~ (k > 1)
        BY <1>11
      <3> QED BY <1>5, <1>7, <3>1, <3>2, ChainGivenUp
    <2>2. left[1].linked = (k # 1 /\ cs[1].linked) /\ left # <<>>
      BY <1>4, <1>5, <1>7, <1>11, EmptySeq
    <2>3. left = IF cs[k].linked /\ k > 1 THEN Answered(left, k - 1, Error) ELSE left
      BY <1>11
    <2> QED BY <1>1, <1>2, <1>3, <1>6, <1>7, <1>8, <1>9, <2>1, <2>2, <2>3, CallerGetsKeeps
  <1> QED BY <1>5, <1>10, <1>11

-----------------------------------------------------------------------------
(* The invariant and what it shows *)

LEMMA RpcInit == Init => RpcInv
  <1> SUFFICES ASSUME Init PROVE RpcInv
    OBVIOUS
  <1>1. /\ alive = [p \in Process |-> TRUE] /\ life = [p \in Process |-> 0]
        /\ data = [p \in Process |-> None] /\ typeWord = [p \in Process |-> FALSE]
        /\ dataWord = [p \in Process |-> None] /\ setting = [p \in Process |-> None]
        /\ serviceClient = [p \in Process |-> None] /\ waitsFor = [p \in Process |-> None]
        /\ calls = [r \in Request |-> <<>>] /\ stored = [p \in Process |-> {}]
        /\ configured = [p \in Process |-> FALSE]
    BY DEF Init
  <1>2. <<>> \in Seq(Call) /\ DOMAIN <<>> = {}
    BY EmptySeq
  <1>3. Types
    BY <1>1, <1>2, ProcessAssumption DEF Types
  <1>4. HandleInv /\ StorageInv
    BY <1>1 DEF HandleInv, StorageInv
  <1>5. ChainInv
    BY <1>1, ChainEmpty DEF ChainInv
  <1>6. WaitInv
    BY <1>1, ProcessAssumption DEF WaitInv, Live
  <1>7. AnswersRight
    BY <1>1, <1>2 DEF AnswersRight
  <1> QED BY <1>3, <1>4, <1>5, <1>6, <1>7 DEF RpcInv

LEMMA StutterKeeps == ASSUME RpcInv, OwnAnswer, UNCHANGED vars PROVE RpcInv' /\ OwnAnswer'
  <1>1. UNCHANGED <<processVars, data, typeWord, dataWord, setting, serviceClient, waitsFor, calls,
                    printed, stored, configured>>
    BY DEF vars, serverVars, cliVars, history
  <1>2. Types'
    BY <1>1 DEF RpcInv, Types, processVars
  <1>3. HandleInv' /\ StorageInv' /\ ChainInv' /\ AnswersRight' /\ WaitInv'
    BY <1>1, HandleKept, StorageKept, CallsKept, WaitKept DEF RpcInv
  <1>4. OwnAnswer'
    BY <1>1, SettledKeeps DEF OwnAnswer
  <1> QED BY <1>2, <1>3, <1>4 DEF RpcInv

\* A step in which nothing is printed prints no wrong answer.
LEMMA QuietKeeps == ASSUME Quiet PROVE OwnAnswer'
  BY DEF Quiet, OwnAnswer

LEMMA RpcNext == RpcInv /\ OwnAnswer /\ [Next]_vars => RpcInv' /\ OwnAnswer'
  <1> SUFFICES ASSUME RpcInv, OwnAnswer, [Next]_vars PROVE RpcInv' /\ OwnAnswer'
    OBVIOUS
  <1>1. CASE \E p, q \in Process : Dial(p, q) \/ SetNextNode(p, q)
    BY <1>1, DialKeeps, SetNextNodeKeeps, QuietKeeps DEF Dial, SetNextNode
  <1>2. CASE \E p \in Process, r \in Request, c \in Command : Issue(p, r, c)
    BY <1>2, IssueKeeps, QuietKeeps DEF Issue
  <1>3. CASE \E p \in Process, word \in {"type", "data"} : Assign(p, word)
    BY <1>3, AssignKeeps, QuietKeeps DEF Assign
  <1>4. CASE \E p \in Process : Crash(p) \/ Restart(p)
    BY <1>4, CrashKeeps, RestartKeeps, QuietKeeps DEF Crash, Dies, Restart
  <1>5. CASE \E r \in Request : \E k \in DOMAIN calls[r] : Step(r, k) \/ Timeout(r, k)
    <2>0. PICK r \in Request : \E k \in DOMAIN calls[r] : Step(r, k) \/ Timeout(r, k)
      BY <1>5
    <2>1. PICK k \in DOMAIN calls[r] : Step(r, k) \/ Timeout(r, k)
      BY <2>0
    <2>2. CASE ServeStorage(r, k)
      BY <2>2, ServeStorageKeeps, QuietKeeps DEF ServeStorage
    <2>3. CASE AddHere(r, k)
      BY <2>3, AddHereKeeps, QuietKeeps DEF AddHere, AddArrives
    <2>4. CASE SeesNext(r, k)
      BY <2>4, SeesNextKeeps, QuietKeeps DEF SeesNext, AddArrives
    <2>5. CASE Forward(r, k)
      BY <2>5, ForwardKeeps, QuietKeeps DEF Forward
    <2>6. CASE Panic(r, k)
      BY <2>6, PanicKeeps, QuietKeeps DEF Panic, Dies
    <2>7. CASE Return(r, k)
      BY <2>7, ReturnKeeps
    <2>8. CASE Broken(r, k)
      BY <2>8, BrokenKeeps
    <2>9. CASE Timeout(r, k)
      BY <2>9, TimeoutKeeps
    <2> QED BY <2>1, <2>2, <2>3, <2>4, <2>5, <2>6, <2>7, <2>8, <2>9 DEF Step
  <1>6. CASE UNCHANGED vars
    BY <1>6, StutterKeeps
  <1> QED BY <1>1, <1>2, <1>3, <1>4, <1>5, <1>6 DEF Next

LEMMA RpcInvariant == Spec => [](RpcInv /\ OwnAnswer)
  <1>1. Init => RpcInv /\ OwnAnswer
    BY RpcInit DEF Init, OwnAnswer
  <1> QED BY <1>1, RpcNext, PTL DEF Spec

LEMMA InvTypes == RpcInv => TypeOK
  <1> SUFFICES ASSUME RpcInv PROVE TypeOK
    OBVIOUS
  <1>1. Types /\ WaitInv
    BY DEF RpcInv
  <1>2. ASSUME NEW r \in Request
        PROVE  /\ calls[r] \in Seq(Call) /\ Len(calls[r]) <= Cardinality(Process)
               /\ \A k \in DOMAIN calls[r] : Up(calls[r][k].on) =>
                     (At(r, k, "waiting") <=> k < Len(calls[r]) /\ calls[r][k + 1].linked)
    <2>1. PICK cs : cs = calls[r]
      OBVIOUS
    <2>2. CallChain(cs, UpNow, KnownNow) /\ Len(cs) \in Nat /\ DOMAIN cs = 1 .. Len(cs)
      BY <2>1, ChainDomain DEF RpcInv, ChainInv
    <2>3. Len(cs) <= Cardinality(Process)
      <3>1. CASE Len(cs) = 0
        BY <3>1, ProcessesCounted
      <3>2. CASE Len(cs) # 0
        <4>1. Len(cs) \in DOMAIN cs
          BY <2>2, <3>2
        <4>2. Rank[cs[Len(cs)].on.to] + Len(cs) <= Cardinality(Process) + 1
          BY <2>2, <4>1 DEF CallChain
        <4>3. cs[Len(cs)].on.to \in Process
          BY <2>1, <4>1, CallOf
        <4> QED BY <2>2, <4>2, <4>3, RankIsRank, ProcessesCounted
      <3> QED BY <3>1, <3>2
    <2>4. ASSUME NEW k \in DOMAIN cs, Up(cs[k].on)
          PROVE  cs[k].phase = "waiting" <=> k < Len(cs) /\ cs[k + 1].linked
      <3>1. cs[k].on \in UpNow
        BY <2>1, <2>4, CallOf
      <3>2. k + 1 \in DOMAIN cs <=> k < Len(cs)
        BY <2>2
      <3> QED BY <2>2, <3>1, <3>2 DEF CallChain
    <2> QED BY <1>1, <2>1, <2>3, <2>4 DEF At, Types
  <1>3. \A r \in Request : (Live(r) /\ calls[r][1].linked) <=> \E p \in Process : waitsFor[p] = r
    BY <1>1 DEF WaitInv
  <1>4. \A p \in Process : ~ alive[p] => serviceClient[p] = None /\ waitsFor[p] = None
    BY <1>1 DEF WaitInv
  <1>5. alive \in [Process -> BOOLEAN] /\ life \in [Process -> 0 .. MaxLife]
    BY <1>1 DEF Types
  <1> QED BY <1>2, <1>3, <1>4, <1>5 DEF TypeOK

LEMMA InvHandles == RpcInv => HandleComplete
  BY CallOf DEF RpcInv, HandleInv, HandleComplete

\* A call has a caller that waits for it or is on its own, a live server that waits has a
\* call that will wake it, and without a ring of next nodes a request has at most one
\* call on each process: CallRemote, whose select is left by an answer, an error or the
\* timeout, leaves nobody waiting for a call that is gone.
THEOREM RpcTypes == Spec => []TypeOK
  BY RpcInvariant, InvTypes, PTL

\* However late an answer is, whoever times out, dies or starts again, a command line
\* prints the answer to its own command: the channel of done is one of each CallRemote.
THEOREM AnswersAreOwn == Spec => []OwnAnswer
  BY RpcInvariant, PTL

\* Add, which compares nextNodeHandle with nil and reads it again for the call, finds
\* whom to call once a SetNextNode has returned, for every order of the two words.
THEOREM HandlesAreComplete == Spec => []HandleComplete
  BY RpcInvariant, InvHandles, PTL
=============================================================================
