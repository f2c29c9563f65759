------------------------------- MODULE MiniRpc -------------------------------
(***************************************************************************)
(* mini-rpc: processes that are server and command line at once, additions *)
(* forwarded along a chain of them, timeouts at every hop, crashes.        *)
(*                                                                         *)
(* A command makes a request, a chain of calls: the first is made by the   *)
(* command line, each further one by the server that runs the one before.  *)
(* net/rpc runs every call in a goroutine of its own, so the calls of all  *)
(* requests interleave.  A caller that has timed out, or has died, is no   *)
(* longer linked to its call, and the call goes on without it.             *)
(*                                                                         *)
(* The field nextNodeHandle is an interface of two words, written and read *)
(* without a lock; both words are nil until the first SetNextNode.         *)
(***************************************************************************)
EXTENDS Naturals, FiniteSets, SequencesExt

CONSTANTS
    Process, Request,
    Users,      \* the processes at whose command line somebody dials and calls
    Link,       \* pairs: whom a command line may set as its server's next node
    Addition,   \* the pairs of numbers that are added
    Value,      \* the values that are stored, all under one key
    Mortal,     \* the processes that somebody may stop
    MaxLife     \* bound: restarts of a process

\* A bound: the next nodes form no ring.  In a ring an addition is forwarded for ever,
\* for nothing in a request says how far it has come.
ASSUME NoRing ==
    \E rank \in [Process -> 1 .. Cardinality(Process)] :
        \A l \in Link : rank[l[2]] < rank[l[1]]

None == [none |-> TRUE]
Error == [error |-> TRUE]
Command == [add : Addition] \cup [store : Value] \cup [read : {TRUE}]

ASSUME ProcessAssumption == IsFiniteSet(Process) /\ MaxLife \in Nat /\ None \notin Request

VARIABLES
    alive, life,        \* of each process
    data,               \* Storage
    typeWord, dataWord, \* nextNodeHandle
    setting,            \* the assignment of SetNextNode at work in each process
    serviceClient,      \* the connection of each command line
    waitsFor,           \* the request of each command line
    calls,              \* of each request, callers before callees
    printed,            \* what a command line has printed in this very step
    stored,             \* history: what Set has written in this life of the process
    configured          \* history: a SetNextNode has returned in this life

processVars == <<alive, life>>
serverVars == <<data, typeWord, dataWord, setting>>
cliVars == <<serviceClient, waitsFor>>
history == <<stored, configured>>
vars == <<processVars, serverVars, cliVars, calls, printed, history>>

-----------------------------------------------------------------------------

Init ==
    /\ alive = [p \in Process |-> TRUE]
    /\ life = [p \in Process |-> 0]
    /\ data = [p \in Process |-> None]
    /\ typeWord = [p \in Process |-> FALSE]
    /\ dataWord = [p \in Process |-> None]
    /\ setting = [p \in Process |-> None]
    /\ serviceClient = [p \in Process |-> None]
    /\ waitsFor = [p \in Process |-> None]
    /\ calls = [r \in Request |-> <<>>]
    /\ printed = None
    /\ stored = [p \in Process |-> {}]
    /\ configured = [p \in Process |-> FALSE]

\* A connection to a process ends with the process's life.
Connection(p) == [to |-> p, life |-> life[p]]
Up(c) == alive[c.to] /\ life[c.to] = c.life

Idle(p) == alive[p] /\ waitsFor[p] = None

NewCall(on, does) ==
    [on |-> on, does |-> does, phase |-> "sent", answer |-> None, linked |-> TRUE]

Quiet == printed' = None

-----------------------------------------------------------------------------
(* The command line *)

Dial(p, q) ==
    /\ p \in Users /\ Idle(p) /\ alive[q]
    /\ serviceClient' = [serviceClient EXCEPT ![p] = Connection(q)]
    /\ Quiet /\ UNCHANGED <<processVars, serverVars, waitsFor, calls, history>>

\* A request that no call is left of is a new one.
Issue(p, r, c) ==
    /\ p \in Users /\ Idle(p) /\ serviceClient[p] # None /\ calls[r] = <<>>
    /\ calls' = [calls EXCEPT ![r] = <<NewCall(serviceClient[p], c)>>]
    /\ waitsFor' = [waitsFor EXCEPT ![p] = r]
    /\ Quiet /\ UNCHANGED <<processVars, serverVars, serviceClient, history>>

SetNextNode_ClearsFirst(p, q) ==
    /\ alive[p] /\ setting[p] = None /\ <<p, q>> \in Link /\ alive[q]
    /\ setting' = [setting EXCEPT ![p] = [next |-> Connection(q), left |-> {"data", "type"}]]
    /\ typeWord' = [typeWord EXCEPT ![p] = FALSE]
    /\ dataWord' = [dataWord EXCEPT ![p] = None]
    /\ Quiet /\ UNCHANGED <<processVars, data, cliVars, calls, history>>

\* At p's command line, or by a remote call of a test; a bound: one at a time.
SetNextNode(p, q) ==
    /\ alive[p] /\ setting[p] = None /\ <<p, q>> \in Link /\ alive[q]
    /\ setting' = [setting EXCEPT ![p] =
                     [next |-> Connection(q),
                      left |-> {"data"} \cup (IF typeWord[p] THEN {} ELSE {"type"})]]
    /\ Quiet /\ UNCHANGED <<processVars, data, typeWord, dataWord, cliVars, calls, history>>

\* The assignment, one word after the other in the order the compiler chose.
Assign(p, word) ==
    LET s == setting[p]
    IN  /\ s # None /\ word \in s.left
        /\ typeWord' = [typeWord EXCEPT ![p] = @ \/ word = "type"]
        /\ dataWord' = [dataWord EXCEPT ![p] = IF word = "data" THEN s.next ELSE @]
        /\ setting' = [setting EXCEPT ![p] =
                         IF s.left = {word} THEN None ELSE [s EXCEPT !.left = @ \ {word}]]
        /\ configured' = [configured EXCEPT ![p] = @ \/ s.left = {word}]
        /\ Quiet /\ UNCHANGED <<processVars, data, cliVars, calls, stored>>

-----------------------------------------------------------------------------
(* The ends of processes *)

\* What the process p was doing, and its connections, are gone: nobody of it waits
\* for an answer any more.
Dies(p) ==
    /\ alive' = [alive EXCEPT ![p] = FALSE]
    /\ typeWord' = [typeWord EXCEPT ![p] = FALSE]
    /\ dataWord' = [dataWord EXCEPT ![p] = None]
    /\ setting' = [setting EXCEPT ![p] = None]
    /\ serviceClient' = [serviceClient EXCEPT ![p] = None]
    /\ waitsFor' = [waitsFor EXCEPT ![p] = None]
    /\ data' = [data EXCEPT ![p] = None]
    /\ stored' = [stored EXCEPT ![p] = {}]
    /\ configured' = [configured EXCEPT ![p] = FALSE]
    /\ calls' = [r \in Request |->
                   [k \in DOMAIN calls[r] |->
                      [calls[r][k] EXCEPT !.linked =
                         @ /\ IF k = 1 THEN waitsFor[p] # r ELSE calls[r][k - 1].on.to # p]]]
    /\ Quiet /\ UNCHANGED life

Crash(p) == p \in Mortal /\ alive[p] /\ life[p] < MaxLife /\ Dies(p)

Restart(p) ==
    /\ ~alive[p] /\ life[p] < MaxLife
    /\ alive' = [alive EXCEPT ![p] = TRUE]
    /\ life' = [life EXCEPT ![p] = @ + 1]
    /\ Quiet /\ UNCHANGED <<serverVars, cliVars, calls, history>>

-----------------------------------------------------------------------------
(* The server: the k-th call of a request *)

At(r, k, phase) == calls[r][k].phase = phase /\ Up(calls[r][k].on)

\* The call has an answer to send.
Answered(cs, k, answer) == [cs EXCEPT ![k].phase = "answered", ![k].answer = answer]

ServeStorage(r, k) ==
    LET p == calls[r][k].on.to
        c == calls[r][k].does
    IN  /\ At(r, k, "sent")
        /\ \/ /\ c \in [store : Value]
              /\ data' = [data EXCEPT ![p] = c]
              /\ stored' = [stored EXCEPT ![p] = @ \cup {c}]
              /\ calls' = [calls EXCEPT ![r] = Answered(@, k, c)]
           \/ /\ c = [read |-> TRUE]
              /\ calls' = [calls EXCEPT ![r] = Answered(@, k, data[p])]
              /\ UNCHANGED <<data, stored>>
        /\ Quiet /\ UNCHANGED <<processVars, typeWord, dataWord, setting, cliVars, configured>>

Sum(c) == [sum |-> c.add[1] + c.add[2]]

\* An addition has arrived at a server whose handle has this first word.
AddArrives(r, k, next) ==
    /\ At(r, k, "sent") /\ calls[r][k].does \in [add : Addition]
    /\ typeWord[calls[r][k].on.to] = next
    /\ Quiet /\ UNCHANGED <<processVars, serverVars, cliVars, history>>

AddHere(r, k) ==
    /\ AddArrives(r, k, FALSE)
    /\ calls' = [calls EXCEPT ![r] = Answered(@, k, Sum(calls[r][k].does))]

\* nextNodeHandle != nil looks at the word with the type.
SeesNext(r, k) ==
    /\ AddArrives(r, k, TRUE)
    /\ calls' = [calls EXCEPT ![r][k].phase = "forwarding"]

\* The handle is read again for the call.
Forward(r, k) ==
    LET next == dataWord[calls[r][k].on.to]
    IN  /\ At(r, k, "forwarding")
        /\ next # None
        /\ calls' = [calls EXCEPT ![r] =
                       InsertAt([@ EXCEPT ![k].phase = "waiting"], k + 1,
                                NewCall(next, calls[r][k].does))]
        /\ Quiet /\ UNCHANGED <<processVars, serverVars, cliVars, history>>

\* CallRemote on a nil *RPCAdapter: net/rpc recovers no panic.
Panic(r, k) ==
    LET p == calls[r][k].on.to
    IN  /\ At(r, k, "forwarding") /\ dataWord[p] = None
        /\ Dies(p)

-----------------------------------------------------------------------------
(* CallRemote at the caller *)

CallerGets_AnyAnswer(r, k, answer, left) ==
    /\ IF k = 1 /\ \E p \in Process : waitsFor[p] # None
       THEN \E p \in Process :
              /\ waitsFor[p] # None
              /\ waitsFor' = [waitsFor EXCEPT ![p] = None]
              /\ printed' = LET c == calls[waitsFor[p]][1]
                            IN  [does |-> c.does, on |-> c.on, answer |-> answer]
       ELSE Quiet /\ UNCHANGED waitsFor
    /\ calls' = [calls EXCEPT ![r] =
                   IF calls[r][k].linked /\ k > 1 THEN Answered(left, k - 1, answer) ELSE left]
    /\ UNCHANGED <<processVars, serverVars, serviceClient, history>>

\* Whoever waits for the k-th call goes on with this answer: the server that made
\* the call sends it on, the command line prints it.  left is what is left of the calls.
CallerGets(r, k, answer, left) ==
    /\ IF calls[r][k].linked /\ k = 1
       THEN \E p \in Process :
              /\ waitsFor[p] = r
              /\ waitsFor' = [waitsFor EXCEPT ![p] = None]
              /\ printed' = [does |-> calls[r][1].does, on |-> calls[r][1].on, answer |-> answer]
       ELSE Quiet /\ UNCHANGED waitsFor
    /\ calls' = [calls EXCEPT ![r] =
                   IF calls[r][k].linked /\ k > 1 THEN Answered(left, k - 1, answer) ELSE left]
    /\ UNCHANGED <<processVars, serverVars, serviceClient, history>>

Return_WhenAwaited(r, k) ==
    /\ calls[r][k].phase = "answered" /\ calls[r][k].linked
    /\ CallerGets(r, k, calls[r][k].answer, RemoveAt(calls[r], k))

\* The answer arrives, in time or when nobody waits for it any more.
Return(r, k) ==
    calls[r][k].phase = "answered" /\ CallerGets(r, k, calls[r][k].answer, RemoveAt(calls[r], k))

\* The connection is closed: the server has died, or had before the call was made.
Broken(r, k) == ~Up(calls[r][k].on) /\ CallerGets(r, k, Error, RemoveAt(calls[r], k))

Timeout_KeepsWaiting(r, k) ==
    /\ calls[r][k].linked
    /\ CallerGets(r, k, Error, calls[r])

\* time.After fires; the call itself is not cancelled.
Timeout(r, k) ==
    /\ calls[r][k].linked
    /\ CallerGets(r, k, Error, [calls[r] EXCEPT ![k].linked = FALSE])

-----------------------------------------------------------------------------

Step(r, k) ==
    \/ ServeStorage(r, k) \/ AddHere(r, k) \/ SeesNext(r, k) \/ Forward(r, k) \/ Panic(r, k)
    \/ Return(r, k) \/ Broken(r, k)

Next ==
    \/ \E p, q \in Process : Dial(p, q) \/ SetNextNode(p, q)
    \/ \E p \in Process, r \in Request, c \in Command : Issue(p, r, c)
    \/ \E p \in Process, word \in {"type", "data"} : Assign(p, word)
    \/ \E p \in Process : Crash(p) \/ Restart(p)
    \/ \E r \in Request : \E k \in DOMAIN calls[r] : Step(r, k) \/ Timeout(r, k)

Spec == Init /\ [][Next]_vars

Live(r) == calls[r] # <<>>

\* Goroutines run, and timers fire; nobody has to type a command, to crash or to
\* restart anything.
FairSpec ==
    /\ Spec
    /\ \A p \in Process : WF_vars(\E word \in {"type", "data"} : Assign(p, word))
    /\ \A r \in Request : \A k \in 1 .. Cardinality(Process) :
          /\ WF_vars(k \in DOMAIN calls[r] /\ Step(r, k))
          /\ WF_vars(k \in DOMAIN calls[r] /\ Timeout(r, k))

-----------------------------------------------------------------------------

Call == [on : [to : Process, life : 0 .. MaxLife], does : Command,
         phase : {"sent", "forwarding", "waiting", "answered"},
         answer : {None, Error} \cup Command \cup {Sum(c) : c \in [add : Addition]},
         linked : BOOLEAN]

\* Besides the types: a call has a caller that waits for it, or it is on its own, and
\* a live server that waits has a call that will wake it.
TypeOK ==
    /\ alive \in [Process -> BOOLEAN] /\ life \in [Process -> 0 .. MaxLife]
    /\ \A p \in Process : ~alive[p] => serviceClient[p] = None /\ waitsFor[p] = None
    /\ \A r \in Request :
          /\ calls[r] \in Seq(Call) /\ Len(calls[r]) <= Cardinality(Process)
          /\ (Live(r) /\ calls[r][1].linked) <=> \E p \in Process : waitsFor[p] = r
          /\ \A k \in DOMAIN calls[r] : Up(calls[r][k].on) =>
                (At(r, k, "waiting") <=> k < Len(calls[r]) /\ calls[r][k + 1].linked)

\* The answer a command line prints is the answer to the command it printed it for,
\* although earlier commands timed out and their answers may still be under way: a
\* sum is that of its numbers, what was stored has been stored in that server, and
\* what was read had been stored there.
OwnAnswer ==
    printed # None /\ printed.answer # Error =>
        /\ printed.does \in [add : Addition] => printed.answer = Sum(printed.does)
        /\ printed.does \in [store : Value] =>
              /\ printed.answer = printed.does
              /\ Up(printed.on) => printed.does \in stored[printed.on.to]
        /\ printed.does = [read |-> TRUE] =>
              printed.answer = None \/ (Up(printed.on) => printed.answer \in stored[printed.on.to])

\* Once a SetNextNode has returned, an addition that has found a next node also finds
\* whom to call, also while the handle is being replaced: only the very first
\* configuration of a node can be caught half done, and then the node panics.
HandleComplete ==
    \A r \in Request : \A k \in DOMAIN calls[r] :
        At(r, k, "forwarding") /\ configured[calls[r][k].on.to] =>
            dataWord[calls[r][k].on.to] # None

\* Nothing of a request is left in the system some time after it was made: no timeout
\* on the way, no crash and no late answer leaves a call behind for ever.
Drains == \A r \in Request : Live(r) ~> ~Live(r)
=============================================================================
