--------------------------- MODULE TransportProofs ---------------------------
(***************************************************************************)
(* The message path for any messages, any filters and any number of them.  *)
(* The tables of the path agree on where a message is (PathInv), and a     *)
(* message sent across a partition has a partition ahead of it that does   *)
(* not let it pass (IsolationInv).  With the count of the copies the path  *)
(* is the network Raft assumes.                                            *)
(***************************************************************************)
EXTENDS Transport, SequenceTheorems, TLAPS

Stages == {"idle", "queued", "connecting", "blocked", "resolving", "forwarding"}

Types ==
    /\ stage \in [Msg -> Stages]
    /\ filters \in Seq(Filter) /\ registered \subseteq Late \cup {m.to : m \in Msg}
    /\ call \in Call \cup {None}
    /\ position \in [Msg -> Nat \ {0}] /\ doubled \in [Msg -> BOOLEAN]
    /\ handled \in [Msg -> Nat] /\ copies \in [Msg -> 0 .. 2]

\* The channel holds the queued messages, each of them once.
ChannelInv ==
    /\ queue \in Seq(Msg)
    /\ \A m \in Msg : stage[m] = "queued" <=> \E k \in DOMAIN queue : queue[k] = m
    /\ \A k, l \in DOMAIN queue : queue[k] = queue[l] => k = l

\* A message that is not being resolved will start at the first filter.
LockInv ==
    /\ readers \subseteq Msg
    /\ \A m \in Msg : m \in readers <=> stage[m] = "resolving"
    /\ \A m \in Msg \ readers : position[m] = 1

\* A message has copies while it is forwarded, and is handled once per copy.
CopiesInv ==
    \A m \in Msg :
        /\ copies[m] > 0 <=> stage[m] = "forwarding"
        /\ stage[m] # "forwarding" => handled[m] = 0
        /\ handled[m] + copies[m] <= 2

PathInv == Types /\ ChannelInv /\ LockInv /\ CopiesInv

Across(k, m) ==
    k \in DOMAIN filters /\ filters[k] \in [groups : Groups] /\ ~Together(filters[k].groups, m)

\* A partition is still ahead of every message that was sent across it.
IsolationInv ==
    /\ isolated \subseteq Msg
    /\ \A m \in isolated :
          stage[m] # "forwarding" /\ \E k \in DOMAIN filters : Across(k, m) /\ position[m] <= k

-----------------------------------------------------------------------------
(* What an action leaves alone *)

LEMMA ChannelKept ==
    ASSUME ChannelInv, queue' = queue,
           \A m \in Msg : stage'[m] = "queued" <=> stage[m] = "queued"
    PROVE  ChannelInv'
  BY DEF ChannelInv

LEMMA SendPath == ASSUME PathInv, NEW m \in Msg, Send(m) PROVE PathInv'
  <1>1. /\ stage[m] = "idle" /\ stage' = [stage EXCEPT ![m] = "queued"]
        /\ queue' = Append(queue, m)
        /\ UNCHANGED <<filters, registered, readers, call, position, doubled, copies, handled>>
    BY DEF Send, relayVars
  <1>2. stage \in [Msg -> Stages] /\ queue \in Seq(Msg)
    BY DEF PathInv, Types, ChannelInv
  <1>3. \A n \in Msg : stage'[n] = IF n = m THEN "queued" ELSE stage[n]
    BY <1>1, <1>2
  <1>4. Types'
    BY <1>1, <1>2 DEF PathInv, Types, Stages
  <1>5. ChannelInv'
    <2>1. /\ queue' \in Seq(Msg) /\ Len(queue') = Len(queue) + 1
          /\ \A k \in 1 .. Len(queue) : queue'[k] = queue[k]
          /\ queue'[Len(queue) + 1] = m
      BY <1>1, <1>2, AppendProperties
    <2>2. /\ Len(queue) \in Nat /\ DOMAIN queue = 1 .. Len(queue)
          /\ DOMAIN queue' = 1 .. Len(queue) + 1
      BY <1>2, <2>1, LenProperties
    <2>3. \A k \in DOMAIN queue : queue[k] # m /\ queue[k] \in Msg
      BY <1>1, <1>2 DEF PathInv, ChannelInv
    <2>4. \A n \in Msg : stage'[n] = "queued" <=> \E k \in DOMAIN queue' : queue'[k] = n
      <3>1. stage'[m] = "queued" /\ Len(queue) + 1 \in DOMAIN queue'
        BY <1>3, <2>2
      <3>2. ASSUME NEW n \in Msg \ {m}
            PROVE  stage'[n] = "queued" <=> \E k \in DOMAIN queue' : queue'[k] = n
        <4>1. stage[n] = "queued" <=> \E k \in DOMAIN queue : queue[k] = n
          BY DEF PathInv, ChannelInv
        <4>2. \A k \in DOMAIN queue' : queue'[k] = n => k \in DOMAIN queue
          BY <2>1, <2>2, <3>2
        <4>3. \A k \in DOMAIN queue : k \in DOMAIN queue' /\ queue'[k] = queue[k]
          BY <2>1, <2>2
        <4> QED BY <1>3, <3>2, <4>1, <4>2, <4>3
      <3> QED BY <2>1, <3>1, <3>2
    <2>5. ASSUME NEW k \in DOMAIN queue', NEW l \in DOMAIN queue', queue'[k] = queue'[l]
          PROVE  k = l
      <3>1. \A i, j \in DOMAIN queue : queue[i] = queue[j] => i = j
        BY DEF PathInv, ChannelInv
      <3>2. \A i \in DOMAIN queue' : i # Len(queue) + 1 => i \in DOMAIN queue /\ queue'[i] = queue[i]
        BY <2>1, <2>2
      <3> QED BY <2>1, <2>3, <2>5, <3>1, <3>2
    <2> QED BY <2>1, <2>4, <2>5 DEF ChannelInv
  <1>6. LockInv' /\ CopiesInv'
    BY <1>1, <1>3 DEF PathInv, LockInv, CopiesInv
  <1> QED BY <1>4, <1>5, <1>6 DEF PathInv

LEMMA DispatchPath == ASSUME PathInv, Dispatch PROVE PathInv'
  <1> DEFINE h == Head(queue)
  <1>1. /\ queue # <<>> /\ stage' = [stage EXCEPT ![h] = "connecting"] /\ queue' = Tail(queue)
        /\ UNCHANGED <<filters, registered, readers, call, position, doubled, copies, handled>>
    BY DEF Dispatch, relayVars
  <1>2. stage \in [Msg -> Stages] /\ queue \in Seq(Msg)
    BY DEF PathInv, Types, ChannelInv
  <1>3. /\ h \in Msg /\ queue' \in Seq(Msg) /\ Len(queue') = Len(queue) - 1
        /\ \A k \in 1 .. Len(queue') : queue'[k] = queue[k + 1]
    BY <1>1, <1>2, HeadTailProperties
  <1>4. /\ Len(queue) \in Nat \ {0} /\ DOMAIN queue = 1 .. Len(queue)
        /\ DOMAIN queue' = 1 .. Len(queue) - 1 /\ h = queue[1]
    BY <1>1, <1>2, <1>3, LenProperties, EmptySeq
  <1>5. \A i, j \in DOMAIN queue : queue[i] = queue[j] => i = j
    BY DEF PathInv, ChannelInv
  <1>6. \A n \in Msg : stage[n] = "queued" <=> \E k \in DOMAIN queue : queue[k] = n
    BY DEF PathInv, ChannelInv
  <1>7. stage[h] = "queued"
    BY <1>3, <1>4, <1>6
  <1> HIDE DEF h
  <1>8. \A n \in Msg : stage'[n] = IF n = h THEN "connecting" ELSE stage[n]
    BY <1>1, <1>2
  <1>9. Types'
    BY <1>1, <1>2, <1>3 DEF PathInv, Types, Stages
  <1>10. ChannelInv'
    <2>1. ASSUME NEW n \in Msg
          PROVE  stage'[n] = "queued" <=> \E k \in DOMAIN queue' : queue'[k] = n
      <3>1. CASE n = h
        <4>1. \A k \in DOMAIN queue' : k + 1 \in DOMAIN queue /\ k + 1 # 1
          BY <1>4
        <4> QED BY <1>3, <1>4, <1>5, <1>8, <3>1, <4>1
      <3>2. CASE n # h
        <4>1. \A k \in DOMAIN queue : queue[k] = n => k - 1 \in DOMAIN queue' /\ queue'[k - 1] = n
          BY <1>3, <1>4, <3>2
        <4>2. \A k \in DOMAIN queue' : k + 1 \in DOMAIN queue /\ queue'[k] = queue[k + 1]
          BY <1>3, <1>4
        <4> QED BY <1>6, <1>8, <3>2, <4>1, <4>2
      <3> QED BY <3>1, <3>2
    <2>2. \A k, l \in DOMAIN queue' : queue'[k] = queue'[l] => k = l
      <3>1. \A k \in DOMAIN queue' : k \in Int /\ k + 1 \in DOMAIN queue /\ queue'[k] = queue[k + 1]
        BY <1>3, <1>4
      <3>2. \A k, l \in Int : k + 1 = l + 1 => k = l
        OBVIOUS
      <3> QED BY <1>5, <3>1, <3>2
    <2> QED BY <1>3, <2>1, <2>2 DEF ChannelInv
  <1>11. LockInv' /\ CopiesInv'
    BY <1>1, <1>7, <1>8 DEF PathInv, LockInv, CopiesInv
  <1> QED BY <1>9, <1>10, <1>11 DEF PathInv

LEMMA ConnectFailsPath == ASSUME PathInv, NEW m \in Msg, ConnectFails(m) PROVE PathInv'
  <1>1. /\ stage[m] = "connecting" /\ stage' = [stage EXCEPT ![m] = "idle"]
        /\ handled' = [handled EXCEPT ![m] = 0]
        /\ UNCHANGED <<queue, filters, registered, readers, call, position, doubled, copies>>
    BY DEF ConnectFails, Leave, relayVars
  <1>2. stage \in [Msg -> Stages] /\ handled \in [Msg -> Nat]
    BY DEF PathInv, Types
  <1>3. \A n \in Msg : stage'[n] = IF n = m THEN "idle" ELSE stage[n]
    BY <1>1, <1>2
  <1>4. \A n \in Msg : handled'[n] = IF n = m THEN 0 ELSE handled[n]
    BY <1>1, <1>2
  <1>5. Types'
    BY <1>1, <1>2 DEF PathInv, Types, Stages
  <1>6. ChannelInv'
    BY <1>1, <1>3, ChannelKept DEF PathInv
  <1>7. LockInv'
    BY <1>1, <1>3 DEF PathInv, LockInv
  <1>8. CopiesInv'
    BY <1>1, <1>3, <1>4 DEF PathInv, Types, CopiesInv
  <1> QED BY <1>5, <1>6, <1>7, <1>8 DEF PathInv

\* The messages R, all connected or waiting, get the lock.
LEMMA StartReadingPath ==
    ASSUME PathInv, NEW R \in SUBSET Msg, StartReading(R),
           \A m \in R : stage[m] \in {"connecting", "blocked"},
           Types', UNCHANGED <<queue, position, copies, handled>>
    PROVE  PathInv'
  <1>1. \A n \in Msg : stage'[n] = IF n \in R THEN "resolving" ELSE stage[n]
    BY DEF StartReading
  <1>2. readers' = readers \cup R
    BY DEF StartReading
  <1>3. ChannelInv'
    BY <1>1, ChannelKept DEF PathInv
  <1>4. LockInv'
    BY <1>1, <1>2 DEF PathInv, LockInv
  <1>5. CopiesInv'
    BY <1>1 DEF PathInv, CopiesInv
  <1> QED BY <1>3, <1>4, <1>5 DEF PathInv

LEMMA ConnectPath == ASSUME PathInv, NEW m \in Msg, Connect(m) PROVE PathInv'
  <1>1. /\ stage[m] = "connecting"
        /\ UNCHANGED <<queue, filters, registered, call, position, doubled, copies, handled>>
    BY DEF Connect, relayVars
  <1>2. stage \in [Msg -> Stages]
    BY DEF PathInv, Types
  <1>3. CASE call = None
    <2>1. StartReading({m})
      BY <1>3 DEF Connect
    <2>2. stage' \in [Msg -> Stages]
      BY <1>2, <2>1 DEF StartReading, Stages
    <2>3. Types'
      BY <1>1, <2>2 DEF PathInv, Types
    <2> QED BY <1>1, <2>1, <2>3, StartReadingPath
  <1>4. CASE call # None
    <2>1. stage' = [stage EXCEPT ![m] = "blocked"] /\ readers' = readers
      BY <1>4 DEF Connect
    <2>2. \A n \in Msg : stage'[n] = IF n = m THEN "blocked" ELSE stage[n]
      BY <1>2, <2>1
    <2>3. Types'
      BY <1>1, <1>2, <2>1 DEF PathInv, Types, Stages
    <2>4. ChannelInv'
      BY <1>1, <2>2, ChannelKept DEF PathInv
    <2>5. LockInv' /\ CopiesInv'
      BY <1>1, <2>1, <2>2 DEF PathInv, LockInv, CopiesInv
    <2> QED BY <2>3, <2>4, <2>5 DEF PathInv
  <1> QED BY <1>3, <1>4

LEMMA NextFilterPath == ASSUME PathInv, NEW m \in Msg, Passes(m) \/ Doubles(m) PROVE PathInv'
  <1>1. /\ m \in readers /\ position' = [position EXCEPT ![m] = position[m] + 1]
        /\ UNCHANGED <<stage, queue, filters, registered, readers, call, copies, handled>>
    BY DEF Passes, Doubles, AtFilter, relayVars
  <1>2. position \in [Msg -> Nat \ {0}]
    BY DEF PathInv, Types
  <1>3. position[m] + 1 \in Nat \ {0} /\ \A n \in Msg \ {m} : position'[n] = position[n]
    BY <1>1, <1>2
  <1>4. doubled' \in [Msg -> BOOLEAN]
    BY DEF PathInv, Types, Passes, Doubles
  <1>5. Types'
    BY <1>1, <1>2, <1>3, <1>4 DEF PathInv, Types
  <1>6. ChannelInv'
    BY <1>1, ChannelKept DEF PathInv
  <1>7. LockInv' /\ CopiesInv'
    BY <1>1, <1>3 DEF PathInv, LockInv, CopiesInv
  <1> QED BY <1>5, <1>6, <1>7 DEF PathInv

\* ResolveTarget returns: the message is gone or on its way to the receiver.
LEMMA ResolvedPath ==
    ASSUME PathInv, NEW m \in Msg, FilterDrops(m) \/ NoRoute(m) \/ Route(m)
    PROVE  PathInv'
  <1>1. /\ m \in readers /\ readers' = readers \ {m}
        /\ position' = [position EXCEPT ![m] = 1] /\ doubled' = [doubled EXCEPT ![m] = FALSE]
        /\ UNCHANGED <<queue, filters, registered, call>>
    BY DEF FilterDrops, NoRoute, Route, AtFilter, AllPassed, StopReading, relayVars
  <1>2. /\ stage \in [Msg -> Stages] /\ position \in [Msg -> Nat \ {0}]
        /\ doubled \in [Msg -> BOOLEAN] /\ handled \in [Msg -> Nat]
        /\ copies \in [Msg -> 0 .. 2]
    BY DEF PathInv, Types
  <1>3. stage[m] = "resolving" /\ copies[m] = 0 /\ handled[m] = 0
    BY <1>1, <1>2 DEF PathInv, LockInv, CopiesInv
  <1> DEFINE Resolved(s, c) ==
               /\ stage' = [stage EXCEPT ![m] = s] /\ copies' = [copies EXCEPT ![m] = c]
               /\ handled' = [handled EXCEPT ![m] = 0]
               /\ c > 0 <=> s = "forwarding"
  <1>4. PICK s \in {"idle", "forwarding"}, c \in 0 .. 2 : Resolved(s, c)
    <2>1. CASE FilterDrops(m) \/ NoRoute(m)
      <3>1. /\ stage' = [stage EXCEPT ![m] = "idle"] /\ copies' = copies
            /\ handled' = [handled EXCEPT ![m] = 0]
        BY <2>1 DEF FilterDrops, NoRoute, Leave
      <3>2. copies' = [copies EXCEPT ![m] = 0]
        BY <1>2, <1>3, <3>1
      <3>3. Resolved("idle", 0)
        <4>1. 0 > 0 <=> "idle" = "forwarding"
          OBVIOUS
        <4>2. stage' = [stage EXCEPT ![m] = "idle"] /\ copies' = [copies EXCEPT ![m] = 0]
          BY <3>1, <3>2
        <4>3. handled' = [handled EXCEPT ![m] = 0]
          BY <3>1
        <4> QED BY <4>1, <4>2, <4>3
      <3> QED BY <3>3
    <2>2. CASE Route(m)
      <3>1. /\ stage' = [stage EXCEPT ![m] = "forwarding"] /\ handled' = handled
            /\ copies' = [copies EXCEPT ![m] = CopiesOf(m)]
        BY <2>2 DEF Route
      <3>2. CopiesOf(m) \in 1 .. 2
        BY DEF CopiesOf
      <3>3. handled' = [handled EXCEPT ![m] = 0]
        BY <1>2, <1>3, <3>1
      <3>4. PICK n \in 1 .. 2 : n = CopiesOf(m)
        BY <3>2
      <3>5. n \in 0 .. 2 /\ (n > 0 <=> "forwarding" = "forwarding")
        OBVIOUS
      <3>6. /\ stage' = [stage EXCEPT ![m] = "forwarding"] /\ copies' = [copies EXCEPT ![m] = n]
        BY <3>1, <3>4
      <3>7. Resolved("forwarding", n)
        BY <3>3, <3>5, <3>6
      <3> QED BY <3>5, <3>7
    <2> QED BY <2>1, <2>2
  <1>5. \A n \in Msg : /\ stage'[n] = IF n = m THEN s ELSE stage[n]
                       /\ copies'[n] = IF n = m THEN c ELSE copies[n]
                       /\ handled'[n] = IF n = m THEN 0 ELSE handled[n]
                       /\ position'[n] = IF n = m THEN 1 ELSE position[n]
    BY <1>1, <1>2, <1>4
  <1>6. Types'
    BY <1>1, <1>2, <1>4 DEF PathInv, Types, Stages
  <1>7. ChannelInv'
    BY <1>1, <1>3, <1>4, <1>5, ChannelKept DEF PathInv
  <1>8. LockInv'
    BY <1>1, <1>4, <1>5 DEF PathInv, LockInv
  <1>9. CopiesInv'
    BY <1>2, <1>4, <1>5 DEF PathInv, CopiesInv
  <1> QED BY <1>6, <1>7, <1>8, <1>9 DEF PathInv

\* A copy ends: the last one, or one of two.
LEMMA CopyEndsBy ==
    ASSUME PathInv, NEW m \in Msg, CopyHandled(m) \/ CopyLost(m)
    PROVE  /\ stage[m] = "forwarding"
           /\ \/ copies[m] = 1 /\ Leave(m)
              \/ /\ copies[m] = 2 /\ handled[m] = 0 /\ stage' = stage
                 /\ isolated' = isolated
                 /\ \/ handled' = [handled EXCEPT ![m] = 1]
                    \/ handled' = handled
  <1>1. copies[m] \in 1 .. 2 /\ handled[m] \in Nat /\ stage[m] = "forwarding"
    BY DEF PathInv, Types, CopiesInv, CopyHandled, CopyLost, CopyEnds
  <1>2. CASE copies[m] = 1
    BY <1>1, <1>2 DEF CopyHandled, CopyLost
  <1>3. CASE copies[m] = 2
    <2>1. handled[m] = 0
      BY <1>1, <1>3 DEF PathInv, CopiesInv
    <2> QED BY <1>1, <1>3, <2>1 DEF CopyHandled, CopyLost
  <1> QED BY <1>1, <1>2, <1>3

LEMMA CopyEndsPath ==
    ASSUME PathInv, NEW m \in Msg, CopyHandled(m) \/ CopyLost(m)
    PROVE  PathInv'
  <1>1. /\ copies' = [copies EXCEPT ![m] = copies[m] - 1]
        /\ UNCHANGED <<queue, filters, registered, readers, call, position, doubled>>
    BY DEF CopyHandled, CopyLost, CopyEnds, relayVars
  <1>2. /\ stage \in [Msg -> Stages] /\ handled \in [Msg -> Nat] /\ copies \in [Msg -> 0 .. 2]
    BY DEF PathInv, Types
  <1>3. stage[m] = "forwarding"
    BY CopyEndsBy
  <1> DEFINE Ended(s, c, d) ==
               /\ stage' = [stage EXCEPT ![m] = s] /\ copies' = [copies EXCEPT ![m] = c]
               /\ handled' = [handled EXCEPT ![m] = d]
               /\ c > 0 <=> s = "forwarding"
               /\ s = "idle" => d = 0
  <1>4. PICK s \in {"idle", "forwarding"}, c \in 0 .. 1, d \in 0 .. 1 : Ended(s, c, d)
    <2>1. CASE copies[m] = 1 /\ Leave(m)
      <3>1. Ended("idle", 0, 0)
        BY <1>1, <2>1 DEF Leave
      <3> QED BY <3>1
    <2>2. CASE /\ copies[m] = 2 /\ handled[m] = 0 /\ stage' = stage
               /\ \/ handled' = [handled EXCEPT ![m] = 1]
                  \/ handled' = handled
      <3>1. stage' = [stage EXCEPT ![m] = "forwarding"] /\ copies' = [copies EXCEPT ![m] = 1]
        BY <1>1, <1>2, <1>3, <2>2
      <3>2. handled' = [handled EXCEPT ![m] = 1] \/ handled' = [handled EXCEPT ![m] = 0]
        BY <1>2, <2>2
      <3>3. Ended("forwarding", 1, 1) \/ Ended("forwarding", 1, 0)
        BY <3>1, <3>2
      <3> QED BY <3>3
    <2> QED BY <2>1, <2>2, CopyEndsBy
  <1>5. \A n \in Msg : /\ stage'[n] = IF n = m THEN s ELSE stage[n]
                       /\ copies'[n] = IF n = m THEN c ELSE copies[n]
                       /\ handled'[n] = IF n = m THEN d ELSE handled[n]
    BY <1>2, <1>4
  <1>6. Types'
    BY <1>1, <1>2, <1>4 DEF PathInv, Types, Stages
  <1>7. ChannelInv'
    BY <1>1, <1>3, <1>4, <1>5, ChannelKept DEF PathInv
  <1>8. LockInv'
    BY <1>1, <1>3, <1>4, <1>5 DEF PathInv, LockInv
  <1>9. CopiesInv'
    BY <1>2, <1>4, <1>5 DEF PathInv, CopiesInv
  <1> QED BY <1>6, <1>7, <1>8, <1>9 DEF PathInv

LEMMA AskPath == ASSUME PathInv, NEW c \in Call, Ask(c) PROVE PathInv'
  <1>1. /\ call' = c
        /\ UNCHANGED <<stage, queue, filters, registered, readers, position, doubled, copies,
                       handled>>
    BY DEF Ask, relayVars
  <1> QED BY <1>1 DEF PathInv, Types, ChannelInv, LockInv, CopiesInv

LEMMA PerformPath == ASSUME PathInv, Perform PROVE PathInv'
  <1> DEFINE R == {m \in Msg : stage[m] = "blocked"}
  <1>1. /\ call # None /\ call' = None /\ StartReading(R)
        /\ UNCHANGED <<queue, position, doubled, copies, handled>>
    BY DEF Perform
  <1>2. /\ call \in Call /\ filters \in Seq(Filter)
        /\ registered \subseteq Late \cup {m.to : m \in Msg} /\ stage \in [Msg -> Stages]
    BY <1>1 DEF PathInv, Types
  <1>3. filters' \in Seq(Filter)
    <2>1. CASE call \in [add : Filter]
      <3>1. filters' = Append(filters, call.add) /\ call.add \in Filter
        BY <2>1 DEF Perform
      <3> QED BY <1>2, <3>1, AppendProperties
    <2>2. CASE call \notin [add : Filter]
      <3>1. filters' = <<>> \/ filters' = filters
        BY <2>2 DEF Perform
      <3> QED BY <1>2, <3>1, EmptySeq
    <2> QED BY <2>1, <2>2
  <1>4. registered' \subseteq Late \cup {m.to : m \in Msg}
    <2>1. CASE call \in [register : Late]
      <3>1. registered' = registered \cup {call.register} /\ call.register \in Late
        BY <2>1 DEF Perform
      <3> QED BY <1>2, <3>1
    <2>2. CASE call \notin [register : Late]
      BY <1>2, <2>2 DEF Perform
    <2> QED BY <2>1, <2>2
  <1>5. stage' \in [Msg -> Stages]
    BY <1>1, <1>2 DEF StartReading, Stages
  <1>6. Types'
    BY <1>1, <1>3, <1>4, <1>5 DEF PathInv, Types
  <1>7. R \in SUBSET Msg /\ \A m \in R : stage[m] \in {"connecting", "blocked"}
    OBVIOUS
  <1> HIDE DEF R
  <1> QED BY <1>1, <1>6, <1>7, StartReadingPath

LEMMA PathInit == Init => PathInv
  <1> SUFFICES ASSUME Init PROVE PathInv
    OBVIOUS
  <1>1. Types
    BY EmptySeq DEF Init, Types, Stages
  <1>2. queue = <<>> /\ queue \in Seq(Msg) /\ DOMAIN queue = {}
    BY EmptySeq DEF Init
  <1>3. ChannelInv
    BY <1>2 DEF Init, ChannelInv
  <1>4. LockInv /\ CopiesInv
    BY DEF Init, LockInv, CopiesInv
  <1> QED BY <1>1, <1>3, <1>4 DEF PathInv

LEMMA PathNext == PathInv /\ [Next]_vars => PathInv'
  <1> SUFFICES ASSUME PathInv, [Next]_vars PROVE PathInv'
    OBVIOUS
  <1>1. CASE UNCHANGED vars
    BY <1>1 DEF vars, relayVars, PathInv, Types, ChannelInv, LockInv, CopiesInv
  <1>2. CASE Next
    BY <1>2, SendPath, DispatchPath, ConnectPath, ConnectFailsPath, NextFilterPath, ResolvedPath,
       CopyEndsPath, AskPath, PerformPath
    DEF Next, Resolve
  <1> QED BY <1>1, <1>2

LEMMA PathHolds == Spec => []PathInv
  BY PathInit, PathNext, PTL DEF Spec

\* TypeOK for any messages and filters: no message is in two tables of the path at
\* once, and none in the channel twice.
THEOREM PathTypes == Spec => []TypeOK
  <1>1. PathInv => TypeOK
    <2> SUFFICES ASSUME PathInv PROVE TypeOK
      OBVIOUS
    <2>1. {queue[k] : k \in DOMAIN queue} = {m \in Msg : stage[m] = "queued"}
      <3>1. \A k \in DOMAIN queue : queue[k] \in Msg
        BY DEF PathInv, ChannelInv
      <3> QED BY <3>1 DEF PathInv, ChannelInv
    <2>2. readers = {m \in Msg : stage[m] = "resolving"}
      BY DEF PathInv, LockInv
    <2> QED BY <2>1, <2>2 DEF PathInv, Types, ChannelInv, CopiesInv, Stages, TypeOK
  <1> QED BY <1>1, PathHolds, PTL

-----------------------------------------------------------------------------
(* Isolation *)

\* A partition that the message is across does not let it pass, nor does it double it.
LEMMA PartitionStops ==
    ASSUME NEW m, NEW k, Across(k, m)
    PROVE  ~ MayPass(filters[k], m) /\ ~ MayDouble(filters[k])
  <1>1. filters[k] \in [groups : Groups] /\ ~ Together(filters[k].groups, m)
    BY DEF Across
  <1>2. Separates(filters[k].groups, m)
    BY <1>1 DEF Together, Separates
  <1>3. filters[k] # [kind |-> "Duplicate"]
    <2>1. DOMAIN filters[k] = {"groups"}
      BY <1>1
    <2>2. DOMAIN [kind |-> "Duplicate"] = {"kind"}
      OBVIOUS
    <2> QED BY <2>1, <2>2
  <1> QED BY <1>1, <1>2, <1>3 DEF MayPass, MayDouble

LEMMA IsolationKept ==
    ASSUME IsolationInv, PathInv, PathInv', filters' = filters, isolated' \subseteq isolated,
           \A m \in isolated' : stage'[m] # "forwarding" /\ position'[m] <= position[m]
    PROVE  IsolationInv'
  <1>1. /\ isolated \subseteq Msg
        /\ \A m \in isolated : \E k \in DOMAIN filters : Across(k, m) /\ position[m] <= k
    BY DEF IsolationInv
  <1>2. \A m \in Msg : position[m] \in Nat /\ position'[m] \in Nat
    BY DEF PathInv, Types
  <1>3. DOMAIN filters \subseteq Nat
    <2>1. filters \in Seq(Filter)
      BY DEF PathInv, Types
    <2> QED BY <2>1, LenProperties
  <1>4. \A m, k : Across(k, m) => Across(k, m)'
    BY DEF Across
  <1>5. ASSUME NEW m \in isolated'
        PROVE  \E k \in DOMAIN filters' : Across(k, m)' /\ position'[m] <= k
    <2>1. PICK k \in DOMAIN filters : Across(k, m) /\ position[m] <= k
      BY <1>1
    <2>2. position'[m] <= k
      BY <1>1, <1>2, <1>3, <2>1
    <2> QED BY <1>4, <2>1, <2>2
  <1> QED BY <1>1, <1>5 DEF IsolationInv

LEMMA SendIsolation ==
    ASSUME IsolationInv, PathInv, PathInv', NEW m \in Msg, Send(m)
    PROVE  IsolationInv'
  <1>1. /\ stage[m] = "idle" /\ stage' = [stage EXCEPT ![m] = "queued"]
        /\ UNCHANGED <<filters, readers, position>>
    BY DEF Send, relayVars
  <1>2. stage \in [Msg -> Stages] /\ position[m] = 1
    BY <1>1 DEF PathInv, Types, LockInv
  <1>3. \A n \in Msg : stage'[n] = IF n = m THEN "queued" ELSE stage[n]
    BY <1>1, <1>2
  <1>4. DOMAIN filters \subseteq Nat \ {0}
    <2>1. filters \in Seq(Filter)
      BY DEF PathInv, Types
    <2> QED BY <2>1, LenProperties
  <1>5. isolated' # isolated => \E k \in DOMAIN filters : Across(k, m)
    BY DEF Send, Across
  <1>6. isolated' = isolated \/ isolated' = isolated \cup {m}
    BY DEF Send
  <1>7. ASSUME NEW n \in isolated'
        PROVE  /\ n \in Msg /\ stage'[n] # "forwarding"
               /\ \E k \in DOMAIN filters' : Across(k, n)' /\ position'[n] <= k
    <2>1. CASE n \in isolated
      BY <1>1, <1>3, <2>1 DEF IsolationInv, Across
    <2>2. CASE n \notin isolated
      <3>1. n = m /\ isolated' # isolated
        BY <1>6, <1>7, <2>2
      <3>2. PICK k \in DOMAIN filters : Across(k, m)
        BY <1>5, <2>2, <3>1
      <3>3. k \in DOMAIN filters' /\ Across(k, n)'
        BY <1>1, <3>1, <3>2 DEF Across
      <3>4. position'[n] <= k
        BY <1>1, <1>2, <1>4, <3>1, <3>2
      <3> QED BY <1>3, <3>1, <3>3, <3>4
    <2> QED BY <2>1, <2>2
  <1> QED BY <1>7 DEF IsolationInv

LEMMA NextFilterIsolation ==
    ASSUME IsolationInv, PathInv, NEW m \in Msg, Passes(m) \/ Doubles(m)
    PROVE  IsolationInv'
  <1>1. /\ position' = [position EXCEPT ![m] = position[m] + 1]
        /\ UNCHANGED <<stage, filters, isolated>>
    BY DEF Passes, Doubles, relayVars
  <1>2. position \in [Msg -> Nat \ {0}] /\ DOMAIN filters \subseteq Nat
    <2>1. filters \in Seq(Filter) /\ position \in [Msg -> Nat \ {0}]
      BY DEF PathInv, Types
    <2> QED BY <2>1, LenProperties
  <1>3. ASSUME NEW n \in isolated
        PROVE  \E k \in DOMAIN filters : Across(k, n) /\ position'[n] <= k
    <2>1. PICK k \in DOMAIN filters : Across(k, n) /\ position[n] <= k
      BY DEF IsolationInv
    <2>2. n \in Msg
      BY DEF IsolationInv
    <2>3. CASE n = m
      <3>1. position[m] # k
        BY <2>1, <2>3, PartitionStops DEF Passes, Doubles, Current
      <3>2. position'[n] <= k
        BY <1>1, <1>2, <2>1, <2>3, <3>1
      <3> QED BY <2>1, <3>2
    <2>4. CASE n # m
      BY <1>1, <1>2, <2>1, <2>2, <2>4
    <2> QED BY <2>3, <2>4
  <1>4. \A n, k : Across(k, n) => Across(k, n)'
    BY <1>1 DEF Across
  <1> QED BY <1>1, <1>3, <1>4 DEF IsolationInv

\* A message with a partition ahead has not passed all filters.
LEMMA RouteIsolation ==
    ASSUME IsolationInv, PathInv, PathInv', NEW m \in Msg, Route(m)
    PROVE  IsolationInv'
  <1>1. /\ position[m] > Len(filters) /\ stage' = [stage EXCEPT ![m] = "forwarding"]
        /\ position' = [position EXCEPT ![m] = 1] /\ UNCHANGED <<filters, isolated>>
    BY DEF Route, AllPassed, StopReading, relayVars
  <1>2. /\ stage \in [Msg -> Stages] /\ position \in [Msg -> Nat \ {0}]
        /\ filters \in Seq(Filter)
    BY DEF PathInv, Types
  <1>3. Len(filters) \in Nat /\ DOMAIN filters = 1 .. Len(filters)
    BY <1>2, LenProperties
  <1>4. m \notin isolated
    BY <1>1, <1>2, <1>3 DEF IsolationInv
  <1>5. \A n \in isolated : stage'[n] # "forwarding" /\ position'[n] <= position[n]
    BY <1>1, <1>2, <1>4 DEF IsolationInv
  <1> QED BY <1>1, <1>5, IsolationKept

LEMMA LeaveIsolation ==
    ASSUME IsolationInv, PathInv, PathInv', NEW m \in Msg,
           ConnectFails(m) \/ FilterDrops(m) \/ NoRoute(m) \/ CopyHandled(m) \/ CopyLost(m)
    PROVE  IsolationInv'
  <1>1. /\ stage \in [Msg -> Stages] /\ position \in [Msg -> Nat \ {0}]
    BY DEF PathInv, Types
  <1>2. filters' = filters /\ position' \in {position, [position EXCEPT ![m] = 1]}
    BY DEF ConnectFails, FilterDrops, NoRoute, CopyHandled, CopyLost, CopyEnds, Leave,
           StopReading, relayVars
  <1>3. \/ stage' = stage /\ isolated' = isolated
        \/ stage' = [stage EXCEPT ![m] = "idle"] /\ isolated' = isolated \ {m}
    BY CopyEndsBy DEF ConnectFails, FilterDrops, NoRoute, Leave
  <1>4. \A n \in isolated' : n \in isolated /\ n \in Msg /\ stage[n] # "forwarding"
    BY <1>3 DEF IsolationInv
  <1>5. \A n \in isolated' : stage'[n] # "forwarding"
    BY <1>1, <1>3, <1>4
  <1>6. \A n \in isolated' : position'[n] <= position[n]
    BY <1>1, <1>2, <1>4
  <1> QED BY <1>2, <1>4, <1>5, <1>6, IsolationKept

LEMMA OthersIsolation ==
    ASSUME IsolationInv, PathInv, PathInv',
           Dispatch \/ (\E m \in Msg : Connect(m)) \/ (\E c \in Call : Ask(c))
    PROVE  IsolationInv'
  <1>1. UNCHANGED <<filters, position, isolated>>
    BY DEF Dispatch, Connect, Ask, relayVars
  <1>2. stage \in [Msg -> Stages] /\ position \in [Msg -> Nat \ {0}] /\ isolated \subseteq Msg
    BY DEF PathInv, Types, IsolationInv
  <1>3. \A n \in Msg : stage'[n] = "forwarding" => stage[n] = "forwarding"
    BY <1>2 DEF Dispatch, Connect, StartReading, Ask
  <1>4. \A n \in isolated : stage'[n] # "forwarding" /\ position'[n] <= position[n]
    BY <1>1, <1>2, <1>3 DEF IsolationInv
  <1> QED BY <1>1, <1>4, IsolationKept

\* Filters are added behind those there are, and clearing them ends every isolation.
LEMMA PerformIsolation ==
    ASSUME IsolationInv, PathInv, Perform
    PROVE  IsolationInv'
  <1>1. CASE call = [clear |-> TRUE]
    <2>1. isolated' = {}
      BY <1>1 DEF Perform
    <2> QED BY <2>1 DEF IsolationInv
  <1>2. CASE call # [clear |-> TRUE]
    <2>1. isolated' = isolated /\ position' = position
      BY <1>2 DEF Perform
    <2>2. \A n \in Msg : stage'[n] = "forwarding" => stage[n] = "forwarding"
      BY DEF Perform, StartReading
    <2>3. \A k \in DOMAIN filters : k \in DOMAIN filters' /\ filters'[k] = filters[k]
      <3>1. CASE call \in [add : Filter]
        <4>1. /\ filters' = Append(filters, call.add) /\ call.add \in Filter
              /\ filters \in Seq(Filter)
          BY <3>1 DEF Perform, PathInv, Types
        <4>2. /\ filters' \in Seq(Filter) /\ Len(filters') = Len(filters) + 1
              /\ \A k \in 1 .. Len(filters) : filters'[k] = filters[k]
          BY <4>1, AppendProperties
        <4>3. /\ DOMAIN filters = 1 .. Len(filters) /\ DOMAIN filters' = 1 .. Len(filters')
              /\ Len(filters) \in Nat
          BY <4>1, <4>2, LenProperties
        <4> QED BY <4>2, <4>3
      <3>2. CASE call \notin [add : Filter]
        BY <1>2, <3>2 DEF Perform
      <3> QED BY <3>1, <3>2
    <2>4. \A n, k : Across(k, n) => Across(k, n)'
      BY <2>3 DEF Across
    <2> QED BY <2>1, <2>2, <2>3, <2>4 DEF IsolationInv
  <1> QED BY <1>1, <1>2

LEMMA IsolationNext == PathInv /\ IsolationInv /\ [Next]_vars => IsolationInv'
  <1> SUFFICES ASSUME PathInv, IsolationInv, [Next]_vars PROVE IsolationInv'
    OBVIOUS
  <1>1. PathInv'
    BY PathNext
  <1>2. CASE UNCHANGED vars
    <2>1. UNCHANGED <<stage, filters, position, isolated>>
      BY <1>2 DEF vars, relayVars
    <2>2. \A m, k : Across(k, m) => Across(k, m)'
      BY <2>1 DEF Across
    <2> QED BY <2>1, <2>2 DEF IsolationInv
  <1>3. ASSUME NEW m \in Msg, Send(m) PROVE IsolationInv'
    BY <1>1, <1>3, SendIsolation
  <1>4. ASSUME NEW m \in Msg, Passes(m) \/ Doubles(m) PROVE IsolationInv'
    BY <1>4, NextFilterIsolation
  <1>5. ASSUME NEW m \in Msg, Route(m) PROVE IsolationInv'
    BY <1>1, <1>5, RouteIsolation
  <1>6. ASSUME NEW m \in Msg,
               ConnectFails(m) \/ FilterDrops(m) \/ NoRoute(m) \/ CopyHandled(m) \/ CopyLost(m)
        PROVE  IsolationInv'
    BY <1>1, <1>6, LeaveIsolation
  <1>7. CASE Dispatch \/ (\E m \in Msg : Connect(m)) \/ (\E c \in Call : Ask(c))
    BY <1>1, <1>7, OthersIsolation
  <1>8. CASE Perform
    BY <1>8, PerformIsolation
  <1> QED BY <1>2, <1>3, <1>4, <1>5, <1>6, <1>7, <1>8 DEF Next, Resolve

\* PartitionIsolates for any filters in any order and any number of them: no other
\* rule, added before or after the partition, lets a message across it through.
THEOREM PartitionsIsolate == Spec => []PartitionIsolates
  <1>1. Init => IsolationInv
    BY DEF Init, IsolationInv
  <1>2. PathInv /\ IsolationInv => PartitionIsolates
    <2> SUFFICES ASSUME PathInv, IsolationInv, NEW m \in isolated PROVE copies[m] = 0
      BY DEF PartitionIsolates
    <2>1. m \in Msg /\ stage[m] # "forwarding"
      BY DEF IsolationInv
    <2>2. copies[m] \in 0 .. 2 /\ ~ (copies[m] > 0)
      BY <2>1 DEF PathInv, Types, CopiesInv
    <2> QED BY <2>2
  <1> QED BY <1>1, <1>2, PathHolds, IsolationNext, PTL DEF Spec

-----------------------------------------------------------------------------
(* The network of Raft *)

UnderWay == {m \in Msg : stage[m] # "idle"}

NetworkStep == \E m \in Msg : NW!Send(m) \/ NW!Leave(m) \/ NW!Duplicate(m)

\* A message leaves, whichever step takes it out.
LEMMA LeaveIsLeave ==
    ASSUME PathInv, NEW m \in Msg, stage[m] # "idle", Leave(m)
    PROVE  NW!Leave(m)
  <1>1. stage \in [Msg -> Stages]
    BY DEF PathInv, Types
  <1>2. \A n \in Msg : stage'[n] = IF n = m THEN "idle" ELSE stage[n]
    BY <1>1 DEF Leave
  <1>3. {n \in Msg : stage'[n] # "idle"} = {n \in Msg : stage[n] # "idle"} \ {m}
    BY <1>2
  <1> QED BY <1>3 DEF Leave, NW!Leave

LEMMA StepOfNetwork ==
    ASSUME PathInv, [Next]_vars
    PROVE  NetworkStep \/ UNCHANGED <<UnderWay, handled>>
  <1>1. stage \in [Msg -> Stages]
    BY DEF PathInv, Types
  <1>2. ASSUME NEW m \in Msg, Send(m) PROVE NW!Send(m)
    <2>1. stage[m] = "idle" /\ stage' = [stage EXCEPT ![m] = "queued"] /\ handled' = handled
      BY <1>2 DEF Send
    <2>2. \A n \in Msg : stage'[n] = IF n = m THEN "queued" ELSE stage[n]
      BY <1>1, <2>1
    <2>3. {n \in Msg : stage'[n] # "idle"} = {n \in Msg : stage[n] # "idle"} \cup {m}
      BY <2>2
    <2> QED BY <2>1, <2>3 DEF NW!Send
  <1>3. ASSUME NEW m \in Msg, ConnectFails(m) \/ FilterDrops(m) \/ NoRoute(m) PROVE NW!Leave(m)
    <2>1. Leave(m) /\ stage[m] # "idle"
      BY <1>3 DEF ConnectFails, FilterDrops, NoRoute, AtFilter, AllPassed, PathInv, LockInv
    <2> QED BY <2>1, LeaveIsLeave
  <1>4. ASSUME NEW m \in Msg, CopyHandled(m) \/ CopyLost(m)
        PROVE  NetworkStep \/ UNCHANGED <<UnderWay, handled>>
    <2>1. stage[m] = "forwarding"
      BY <1>4, CopyEndsBy
    <2>2. CASE Leave(m)
      BY <2>1, <2>2, LeaveIsLeave DEF NetworkStep
    <2>3. CASE handled[m] = 0 /\ stage' = stage /\ handled' = [handled EXCEPT ![m] = 1]
      <3>1. NW!Duplicate(m)
        BY <2>1, <2>3 DEF NW!Duplicate
      <3> QED BY <3>1 DEF NetworkStep
    <2>4. CASE stage' = stage /\ handled' = handled
      BY <2>4 DEF UnderWay
    <2> QED BY <1>4, <2>2, <2>3, <2>4, CopyEndsBy
  <1>5. ASSUME \A n \in Msg : stage'[n] = "idle" <=> stage[n] = "idle", handled' = handled
        PROVE  UNCHANGED <<UnderWay, handled>>
    BY <1>5 DEF UnderWay
  <1>6. CASE UNCHANGED vars
    BY <1>5, <1>6 DEF vars
  <1>7. CASE Dispatch
    <2>1. queue \in Seq(Msg) /\ queue # <<>>
      BY <1>7 DEF Dispatch, PathInv, ChannelInv
    <2>2. Head(queue) \in Msg /\ stage[Head(queue)] = "queued"
      <3>1. Head(queue) = queue[1] /\ 1 \in DOMAIN queue /\ queue[1] \in Msg
        BY <2>1, LenProperties, EmptySeq
      <3> QED BY <3>1 DEF PathInv, ChannelInv
    <2>3. stage' = [stage EXCEPT ![Head(queue)] = "connecting"] /\ handled' = handled
      BY <1>7 DEF Dispatch
    <2> QED BY <1>1, <1>5, <2>2, <2>3
  <1>8. ASSUME NEW m \in Msg, Connect(m) PROVE UNCHANGED <<UnderWay, handled>>
    BY <1>1, <1>5, <1>8 DEF Connect, StartReading
  <1>9. ASSUME NEW m \in Msg, Passes(m) \/ Doubles(m) PROVE UNCHANGED <<UnderWay, handled>>
    BY <1>5, <1>9 DEF Passes, Doubles
  <1>10. ASSUME NEW m \in Msg, Route(m) PROVE UNCHANGED <<UnderWay, handled>>
    <2>1. /\ stage' = [stage EXCEPT ![m] = "forwarding"] /\ handled' = handled
          /\ stage[m] = "resolving"
      BY <1>10 DEF Route, AllPassed, PathInv, LockInv
    <2> QED BY <1>1, <1>5, <2>1
  <1>11. ASSUME NEW c \in Call, Ask(c) PROVE UNCHANGED <<UnderWay, handled>>
    BY <1>5, <1>11 DEF Ask
  <1>12. CASE Perform
    BY <1>1, <1>5, <1>12 DEF Perform, StartReading
  <1> QED BY <1>2, <1>3, <1>4, <1>6, <1>7, <1>8, <1>9, <1>10, <1>11, <1>12
       DEF Next, Resolve, NetworkStep

\* ImplementsNetwork for any messages, filters and calls: engine, relay and receiver
\* together are the network Raft is verified over.
THEOREM PathIsNetwork == Spec => ImplementsNetwork
  <1>1. Init => NW!Init
    BY DEF Init, NW!Init
  <1>2. PathInv /\ [Next]_vars
          => [\E m \in Msg : NW!Send(m) \/ NW!Leave(m) \/ NW!Duplicate(m)]_<<UnderWay, handled>>
    BY StepOfNetwork DEF NetworkStep
  <1> QED BY <1>1, <1>2, PathHolds, PTL DEF Spec, ImplementsNetwork, NW!Spec, UnderWay
=============================================================================
