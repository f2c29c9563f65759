------------------------------ MODULE Transport ------------------------------
(***************************************************************************)
(* The way of a message from one node to another: the engine's channel and *)
(* its thread per message, the relay's goroutine per connection with the   *)
(* filters under a read lock, the goroutines that forward, and the threads *)
(* of the receiver, while a test changes the filters.                      *)
(*                                                                         *)
(* The lock is Go's sync.RWMutex: from the moment a writer asks for it new *)
(* readers wait, and a writer that leaves lets all of them in before the   *)
(* next one.  DelayRule and JitterRule sleep in Should, that is, with the  *)
(* read lock held: a step of the filter chain may take long.  A message is *)
(* sent again only after it has left the network.                          *)
(***************************************************************************)
EXTENDS Naturals, Sequences, FiniteSets

CONSTANTS
    Msg,            \* messages, records with fields from and to
    Groups,         \* the partitions there may be: functions on some of the nodes
    Late,           \* the nodes that are registered only later
    MaxFilters      \* bound: no filter is added beyond this many

\* A JitterRule is a Delay, a PartitionRule is its groups.
Filter == [kind : {"Delay", "Drop", "Duplicate"}] \cup [groups : Groups]
Call == [add : Filter] \cup [register : Late] \cup {[clear |-> TRUE], [stop |-> TRUE]}
None == [none |-> TRUE]

VARIABLES
    stage,          \* where each message is
    queue,          \* the channel of main.rs
    filters, registered, listening,     \* Relay
    readers,        \* messages whose ResolveTarget holds the read lock
    call,           \* what the test's goroutine waits for the write lock for
    position, doubled,      \* of ResolveTarget: the filter it is at, finalAction = Duplicate
    copies,         \* forward goroutines and receiving threads of a message
    handled,        \* history: how often messages under way were handled
    isolated        \* history: those sent across a partition still in place

relayVars == <<filters, registered, listening>>
vars == <<stage, queue, relayVars, readers, call, position, doubled, copies, handled, isolated>>

Init ==
    /\ stage = [m \in Msg |-> "idle"]
    /\ queue = <<>>
    /\ filters = <<>>
    /\ registered = {m.to : m \in Msg} \ Late
    /\ listening = TRUE
    /\ readers = {}
    /\ call = None
    /\ position = [m \in Msg |-> 1]
    /\ doubled = [m \in Msg |-> FALSE]
    /\ copies = [m \in Msg |-> 0]
    /\ handled = [m \in Msg |-> 0]
    /\ isolated = {}

Together(groups, m) ==
    {m.from, m.to} \subseteq DOMAIN groups /\ groups[m.from] = groups[m.to]

Separates_KnownOnly(groups, m) ==
    {m.from, m.to} \subseteq DOMAIN groups /\ groups[m.from] # groups[m.to]

\* PartitionRule drops what comes from or goes to a node of no group, too.
Separates(groups, m) ==
    {m.from, m.to} \subseteq DOMAIN groups => groups[m.from] # groups[m.to]

\* What a filter does to a message is drawn by lot, except for a partition.
MayDrop(f, m) ==
    IF f \in [groups : Groups] THEN Separates(f.groups, m) ELSE f.kind = "Drop"
MayPass(f, m) == f \in [groups : Groups] => ~Separates(f.groups, m)
MayDouble(f) == f = [kind |-> "Duplicate"]

Leave(m) ==
    /\ stage' = [stage EXCEPT ![m] = "idle"]
    /\ handled' = [handled EXCEPT ![m] = 0]
    /\ isolated' = isolated \ {m}

\* The end of ResolveTarget: the deferred unlock, and its locals are gone.
StopReading(m) ==
    /\ readers' = readers \ {m}
    /\ position' = [position EXCEPT ![m] = 1]
    /\ doubled' = [doubled EXCEPT ![m] = FALSE]

-----------------------------------------------------------------------------
(* The sending engine *)

Send(m) ==
    /\ stage[m] = "idle"
    /\ stage' = [stage EXCEPT ![m] = "queued"]
    /\ queue' = Append(queue, m)
    /\ isolated' = IF \E k \in DOMAIN filters :
                        filters[k] \in [groups : Groups] /\ ~Together(filters[k].groups, m)
                   THEN isolated \cup {m} ELSE isolated
    /\ UNCHANGED <<relayVars, readers, call, position, doubled, copies, handled>>

\* The sender thread starts a thread for the next message of the channel.
Dispatch ==
    /\ queue # <<>>
    /\ stage' = [stage EXCEPT ![Head(queue)] = "connecting"]
    /\ queue' = Tail(queue)
    /\ UNCHANGED <<relayVars, readers, call, position, doubled, copies, handled, isolated>>

ConnectFails(m) ==
    /\ stage[m] = "connecting"
    /\ Leave(m)
    /\ UNCHANGED <<queue, relayVars, readers, call, position, doubled, copies>>

-----------------------------------------------------------------------------
(* The relay: one goroutine for each connection, here for each message *)

\* The messages R get the lock.
StartReading(R) ==
    /\ readers' = readers \cup R
    /\ stage' = [m \in Msg |-> IF m \in R THEN "resolving" ELSE stage[m]]

Connect(m) ==
    /\ stage[m] = "connecting" /\ listening
    /\ IF call = None THEN StartReading({m})
       ELSE stage' = [stage EXCEPT ![m] = "blocked"] /\ UNCHANGED readers
    /\ UNCHANGED <<queue, relayVars, call, position, doubled, copies, handled, isolated>>

\* The message is at a filter, and this is it.
AtFilter(m) == m \in readers /\ position[m] <= Len(filters)
Current(m) == filters[position[m]]

Passes(m) ==
    /\ AtFilter(m) /\ MayPass(Current(m), m)
    /\ position' = [position EXCEPT ![m] = @ + 1]
    /\ UNCHANGED <<stage, queue, relayVars, readers, call, doubled, copies, handled, isolated>>

Doubles(m) ==
    /\ AtFilter(m) /\ MayDouble(Current(m))
    /\ position' = [position EXCEPT ![m] = @ + 1]
    /\ doubled' = [doubled EXCEPT ![m] = TRUE]
    /\ UNCHANGED <<stage, queue, relayVars, readers, call, copies, handled, isolated>>

FilterDrops_KeepsLock(m) ==
    /\ AtFilter(m) /\ MayDrop(Current(m), m)
    /\ Leave(m)
    /\ UNCHANGED <<queue, relayVars, readers, call, position, doubled, copies>>

\* The early return out of the loop over the filters.
FilterDrops(m) ==
    /\ AtFilter(m) /\ MayDrop(Current(m), m)
    /\ Leave(m) /\ StopReading(m)
    /\ UNCHANGED <<queue, relayVars, call, copies>>

AllPassed(m) == m \in readers /\ position[m] > Len(filters)

NoRoute(m) ==
    /\ AllPassed(m) /\ m.to \notin registered
    /\ Leave(m) /\ StopReading(m)
    /\ UNCHANGED <<queue, relayVars, call, copies>>

CopiesOf_PerFilter(m) == 1 + Cardinality({k \in DOMAIN filters : MayDouble(filters[k])})

\* Two filters that duplicate make no third copy.
CopiesOf(m) == IF doubled[m] THEN 2 ELSE 1

Route(m) ==
    /\ AllPassed(m) /\ m.to \in registered
    /\ stage' = [stage EXCEPT ![m] = "forwarding"]
    /\ copies' = [copies EXCEPT ![m] = CopiesOf(m)]
    /\ StopReading(m)
    /\ UNCHANGED <<queue, relayVars, call, handled, isolated>>

-----------------------------------------------------------------------------
(* From the relay to the receiver's handler *)

\* One of the copies is done with, the last one or not.
CopyEnds(m) ==
    /\ copies[m] > 0
    /\ copies' = [copies EXCEPT ![m] = @ - 1]
    /\ UNCHANGED <<queue, relayVars, readers, call, position, doubled>>

CopyHandled(m) ==
    /\ CopyEnds(m)
    /\ IF copies[m] = 1 THEN Leave(m) ELSE handled' = [handled EXCEPT ![m] = @ + 1] /\ UNCHANGED <<stage, isolated>>

\* forward cannot connect to the receiver.
CopyLost(m) ==
    /\ CopyEnds(m)
    /\ IF copies[m] = 1 THEN Leave(m) ELSE UNCHANGED <<stage, handled, isolated>>

-----------------------------------------------------------------------------
(* The test that owns the relay *)

Ask(c) ==
    /\ call = None
    /\ c \in [add : Filter] => Len(filters) < MaxFilters
    /\ call' = c
    /\ UNCHANGED <<stage, queue, relayVars, readers, position, doubled, copies, handled, isolated>>

\* With the write lock; leaving lets in the readers that have waited.
Perform ==
    /\ call # None /\ readers = {}
    /\ filters' = IF call \in [add : Filter] THEN Append(filters, call.add)
                  ELSE IF call = [clear |-> TRUE] THEN <<>> ELSE filters
    /\ registered' = IF call \in [register : Late] THEN registered \cup {call.register}
                     ELSE registered
    /\ listening' = (listening /\ call # [stop |-> TRUE])
    /\ isolated' = IF call = [clear |-> TRUE] THEN {} ELSE isolated
    /\ StartReading({m \in Msg : stage[m] = "blocked"})
    /\ call' = None
    /\ UNCHANGED <<queue, position, doubled, copies, handled>>

-----------------------------------------------------------------------------

Resolve(m) == Passes(m) \/ Doubles(m) \/ FilterDrops(m) \/ NoRoute(m) \/ Route(m)

Next ==
    \/ \E m \in Msg : Send(m)
    \/ Dispatch
    \/ \E m \in Msg : Connect(m)
    \/ \E m \in Msg : ConnectFails(m)
    \/ \E m \in Msg : Resolve(m)
    \/ \E m \in Msg : CopyHandled(m)
    \/ \E m \in Msg : CopyLost(m)
    \/ \E c \in Call : Ask(c)
    \/ Perform

Spec == Init /\ [][Next]_vars

\* Threads and goroutines are scheduled, a sleep of a filter ends, and a
\* connection is accepted or refused; nobody has to send or to change a filter.
FairSpec ==
    /\ Spec
    /\ WF_vars(Dispatch) /\ WF_vars(Perform)
    /\ \A m \in Msg :
          /\ WF_vars(Connect(m) \/ ConnectFails(m))
          /\ WF_vars(Resolve(m))
          /\ WF_vars(CopyHandled(m) \/ CopyLost(m))

-----------------------------------------------------------------------------

\* Every variable has the type of what it stands for, and the bookkeeping of the
\* three tables agrees on where a message is.
TypeOK ==
    /\ stage \in [Msg -> {"idle", "queued", "connecting", "blocked", "resolving", "forwarding"}]
    /\ queue \in Seq(Msg) /\ {queue[k] : k \in DOMAIN queue} = {m \in Msg : stage[m] = "queued"}
    /\ filters \in Seq(Filter) /\ registered \subseteq Late \cup {m.to : m \in Msg}
    /\ readers = {m \in Msg : stage[m] = "resolving"}
    /\ call \in Call \cup {None}
    /\ position \in [Msg -> Nat \ {0}] /\ doubled \in [Msg -> BOOLEAN]
    /\ handled \in [Msg -> Nat] /\ copies \in [Msg -> 0 .. 2] /\ \A m \in Msg : copies[m] > 0 <=> stage[m] = "forwarding"

\* What a node sends across a partition after AddFilter has returned reaches nobody
\* before somebody clears the filters, whatever other filters there are.
PartitionIsolates == \A m \in isolated : copies[m] = 0

\* The message path is the network of Raft: whatever filters do, a message is handled
\* at most twice, late or never, and nothing else is.
NW == INSTANCE Network WITH msgs <- {m \in Msg : stage[m] # "idle"}
ImplementsNetwork == NW!Spec

\* AddFilter, ClearFilters, RegisterNode and Stop return, however much traffic there
\* is and whatever filters sleep under the lock.
CallsReturn == call # None ~> call = None

\* No message is stuck in the channel, at the lock, or behind a sleeping filter.
EveryMessageLeaves == \A m \in Msg : stage[m] = "queued" ~> stage[m] = "idle"
=============================================================================
