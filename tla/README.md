# A verification project for distributed-sys-lab

The repository holds two programs. `mini-raft` is a Raft implementation: nodes in
Rust (`raft-rust`), a relay in Go through which every message travels and which
injects failures, an orchestrator, and end-to-end tests. `mini-rpc` is a small
RPC system in Go: a key-value service with a command line and chains of
forwarded additions.

This directory models the programs in TLA+, checks the models with TLC on small
instances, and proves the properties that matter most for instances of every
size with TLAPS.

## 1. Inventory

| Part | State | Operations | Talks to | Hard behaviour |
|---|---|---|---|---|
| `RaftNode` (`node.rs`, `protocol.rs`) | term, vote, leader hint, log with sentinel, role with its votes or indices, commit and apply index | two timeouts, a client request, four message handlers | returns side effects to the engine | messages late, doubled, lost and out of order; leaders of different terms active at once; truncation against commit |
| Engine (`main.rs`) | tick counters, random limit, two mutexes, send queue | tick loop, one thread per connection, one thread per message sent | `RaftNode` under the mutex, relay over TCP | a panic under the mutex, threads and ticks interleaved, restart from nothing |
| Relay (`relay.go`, `cmd/relay`) | routing table, filters, listener | register, add and clear filters, resolve, forward | all nodes and the client | filters shared by goroutines, sleeping under a read lock, partition against messages already resolved |
| Envelope (`protocol.go`, `protocol.rs`) | none | encode and decode | engine, relay, client | two encodings of one payload |
| Orchestrator | processes | build, launch, kill | | none that concerns the protocol |
| mini-rpc service and storage | map, handle of the next node | Store, Read, Add, GetTime, SetNextNode | next node through a requester | unsynchronised handle, forwarding cycles |
| mini-rpc requester and server | connection | dial, call with timeout | net/rpc | late replies, equal timeouts along a chain |
| mini-rpc command line | current client | one command per line | local or remote service | which node a command reaches |

What makes each part correct:

* **RaftNode**: one vote per term and node; one leader per term; logs that agree on
  an entry agree before it; a leader holds all that is committed; state machines
  apply the same entries; the leader's view of its followers is never better than
  the truth; a leader in office brings followers up to date.
* **Engine**: handlers and timers exclude each other; a malformed message harms
  nobody; a leader's ticks keep followers quiet.
* **Relay**: forwards to the registered address or nowhere, applies every filter,
  isolates what a partition separates; changing filters terminates.
* **mini-rpc**: an answer reaches the command it belongs to or nobody; an addition
  through a chain gives the sum or an error; replacing the next node is never seen
  half done; every call ends.

`PROJECT.json` lists the hazards of this code line by line, with the properties
that would show them going wrong.

## 2. Modules

| Module | What it is |
|---|---|
| `RaftLog` | operators on logs: consistency check, merge of entries, comparison of logs, majority index |
| `Raft` | the core: one action per handler outcome, over the relay's network; its properties |
| `MCRaft` | instances and reductions for the safety runs |
| `RaftLoops` | the entries loop of `handle_append_entries` and the sorted-array commit index of `handle_append_entries_reply`, iteration by iteration, against `Merged` and `HighestAgreed` of `RaftLog` |
| `RaftLiveness`, `MCRaftLiveness` | fairness and catch-up of followers |
| `RaftRestart`, `MCRaftRestart` | `Raft` with processes that crash and start again |
| `Wire` | JSON shapes along node, relay and client; panics and poisoned mutexes |
| `RaftTimers`, `MCRaftTimers` | `Raft` with the tick loop and the tick counters of the engine |
| `ReplicatedLog` | abstract: one log that is only appended to, of which every machine applies a prefix |
| `RaftAbstraction` | the refinement mapping from `Raft` to `ReplicatedLog`: the chosen log is the committed log of a node that is ahead of all |
| `Network` | abstract: the network `Raft` assumes; a message is handled up to twice, late, or never |
| `Transport`, `MCTransport` | channel, sender threads, relay and receiver; implements `Network` |
| `MiniRpc`, `MCMiniRpc` | processes that are server and command line, chained additions, timeouts, crashes |
| `RaftTypeProofs` | type correctness, proved |
| `RaftElectionProofs` | votes, elections and leader hints, proved |
| `RaftLogProofs` | log matching, a leader's indices and matches, entries of a term stay, leaders only append, proved |
| `RaftCommitProofs` | leader completeness, state machine safety, applied logs, commit indices; the core implements `ReplicatedLog`, proved |
| `RaftLoopsProofs` | the two loops compute the operators of `RaftLog`, proved |
| `RaftTimersProofs` | the core with timers implements `Raft`; a leader all hear of stays, proved |
| `TransportProofs` | the message path: types, partitions, and that it implements `Network`, proved |
| `MiniRpcProofs` | chains of calls, answers and handles of mini-rpc, proved |

### How `Raft` corresponds to the code

Every handler runs under `node.lock()` together with `execute_effects`
(`main.rs` 147-201 and 111-130), so a handler with its sends is one action. A
handler with several outcomes is several actions with disjoint guards:
`handle_request_vote` is `RejectStaleVote`, `GrantVote` and `DenyVote`;
`handle_append_entries` is `RejectStaleEntries`, `RejectUnmatchedEntries` and
`AcceptEntries`; the two reply handlers are `NewerTermReply`, `RecordVote`,
`WinElection`, `EntriesReplicated`, `EntriesRejected` and `IgnoreReply`. The two
timeouts and `propose_command` are actions of their own. A client request to a
node that does not lead changes no state and is no action; the hint it is
answered with is what `LeaderHintSound` is about.

The variables have the names of the fields. `votes_received`, `next_indices` and
`match_indices` are the payloads of `NodeState` and are empty in the other roles.
`log[i]` keeps the sentinel, so the entry with index k is at position k + 1.
`applied` is what `ApplyEntry` handed to the state machine. `ballots` and
`elected` are history: actions write and never read them.

Two loops are one operator each in `Raft`: `Merged` for the loop over entries and
`HighestAgreed` for collect, sort and median. `RaftLoops` runs both
step by step and checks that they compute these operators.

The network is a set of messages. `RelayActions` says what may become of one:
"Forward" delivers it once, "Duplicate" leaves it for further deliveries, "Drop"
removes it. With "Duplicate" alone every message ever sent may be handled at any
later time any number of times or never, which includes all losses and
reorderings. Two equal messages in flight are one element: with "Duplicate" this
loses nothing; with "Forward" it merges equal heartbeats and equal retries, which
carry the same information.

### Engine, relay and mini-rpc

`RaftTimers` composes the handlers of `Raft` with `EngineState`. Time advances in
rounds of 50 ms: every node ticks once per round (`LeaderTick`, `FollowerTick`
are the two halves of the loop body), a message is handled or lost in the round
it is sent in, before or after the tick of its receiver. The timers' side effects
are part of the handlers: `ResetsElectionTimer` names the two cases in which a
message resets the election timer, `Wins` the one in which the heartbeat timer
is. The jitter before the first tick is a larger first limit. Clocks that run at
different speeds and messages that take longer than a round are outside the
model; `MaxLosses` counts a message that late as lost. That nodes tick in step with one
another (`NextRound` waits for all of them) is this assumption about time: in the code every
loop sleeps its own 50 ms (`main.rs:109`).

`Transport` follows one message at a time through `tx`, the sender thread, the
connection's goroutine, `ResolveTarget` filter by filter, `forward` and the thread
that handles it. The lock is Go's `RWMutex`: while somebody waits for it, new
readers wait (`Connect`), and who leaves lets those in (`Perform`). `Dispatch` to
`CopyHandled` are steps of different goroutines and interleave freely; a filter
that sleeps is a step that takes its time. The lots drawn by filters are choices.
`isolated` and `handled` are history.

In `MiniRpc` a request is a chain of calls. Its first call is made by a command line
(`Issue`), the others by servers that forward (`Forward`). A caller that timed out
or died is no longer `linked`; the call goes on, as `CallRemote` does not cancel
it. `typeWord` and `dataWord` are the two words of the interface `nextNodeHandle`;
`SeesNext` is the comparison with nil, `Forward` or `Panic` the second read,
`Assign` writes one word. `Dies` is the end of a process, by a crash, by `exit` or by
the panic of a handler, which `net/rpc` does not recover. One key stands for the
map, as keys do not interact. GetTime, usage errors and the refusal of empty
arguments change no state and are left out.

Terms and indices are naturals. The code's `u64` would take centuries of
elections to overflow, and no property is about it.

## 3. Runs

| Run | Instance | Shows |
|---|---|---|
| `elections` | 3 nodes, 3 terms, no entries, duplicates | votes, leaders and redirections |
| `reordered_replication` | 2 nodes, 2 terms, 2 entries, duplicates | commit, apply and truncation bookkeeping; a leader is neither deposed nor cut in its own term |
| `diverged_logs` | 3 nodes, 2 terms, 2 entries, loss, at most 3 messages that matter | log matching, leader's beliefs |
| `commit_of_old_terms` | 3 nodes, 4 terms, 1 entry, duplicates | leader completeness, state machines; commits refine `ReplicatedLog` |
| `catch_up` | 2 nodes, 3 terms, 1 entry, loss | liveness holds |
| `stuck_follower` | 3 nodes, 3 terms, 1 entry, loss | liveness fails (finding) |
| `restart_two_leaders` | 3 nodes, 1 term, 1 restart | election safety fails (finding) |
| `loops` | every log and batch up to 3 entries, 3 terms; 2 to 5 nodes, indices up to 3 | the loops compute the merge and the majority's index |
| `timers` | 3 nodes, 4 terms, 1 entry, loss, ticks | nobody stands against a leader all hear of |
| `transport` | 2 messages, 2 filters out of 5, a late registration, stop | the way is the network `Raft` assumes; partitions; nothing stuck at the lock |
| `rpc` | 2 processes, the chained one dies and restarts, 2 requests, 2 additions | answers, torn handles, every call ends |
| `wire_nodes` | 2 nodes, a client | node-to-node traffic is lost (finding) |

**Bounds.** `MaxTerm` bounds elections, `MaxIndex` client requests, `Contenders`
says who may open which term, `MaxRestarts` bounds restarts. They are guards of
the actions they bound. Two terms with all their messages in flight let an old
leader and its successor interfere; three terms let a vote reply of one term meet
a candidacy two terms later; four alternating terms are what the schedule needs in
which an entry of an old term is committed by counting (the mutant that drops the
term check is found in that run and in no smaller one). One command suffices:
entries of different leaders differ by term, and the model never compares
commands only. `Contenders` in `diverged_logs` and `commit_of_old_terms` breaks
the symmetry between nodes by hand instead of exploring every choice of leaders.
Two entries per leader are the least with which the previous entry of a message
can be one that the follower has in another term; `FewThatMatter` (at most three
messages that can still change something) and `QuietHeartbeats` (no heartbeat
while the leader's entries are under way) pay for them in `diverged_logs` and still
let a message of the first leader wait while the second one's two are under way.

`timers` scales the numbers of `main.rs` (heartbeat every 6 ticks, limits from 30 to
149) to a heartbeat every 2 ticks and a limit of 6, with one loss in a row; all
limits equal the shortest, which is the worst case for the property.
`TimerAssumption` says what the numbers must satisfy, with 5 instead of 6 the
property fails, and the program's numbers satisfy it for up to 3 losses. Elections
need a few rounds each, so the run allows one contender in the first term, two
rivals in the second, and one each in two more. `RequestsInFirstTerm` and
`RepliesArrive` keep client requests to the first term and losses to what a
follower waits for. `transport` needs two messages for one to wait at the lock
while the other sleeps, and two filters for an early return before a duplicate.
`rpc` needs two requests for the late answer of one to meet the other, and two sums
for a mix-up to show. The process that forwards is the one that dies, also between
forwarding an addition and answering it; its restart meets connections of its earlier
life. Somebody works at the process behind it, so the chain leads out and back without a
ring of next nodes. Longer chains and next nodes that restart are left to the theorems;
`Drains` is checked for the two hops only. `NoRing` excludes rings of next nodes, in which an
addition is forwarded for ever because nothing in it says how far it has come.

**Reductions.** Symmetry is used in safety runs whose contenders are everybody.
`LiveView` hides replies that no handler will ever act upon: a reply of a term
that is past, or for a role the node has left, is ignored now and later, since
terms only grow and a node that leaves a role does not take it again in the same
term. A reply to entries of the current term that finds a candidate is not hidden:
the candidate may yet win that term. `RecentView` and `NoOldDelivery` narrow `diverged_logs` and
`commit_of_old_terms`: messages of a term older than the receiver's are not
delivered (their only effect is a reply that makes the sender step down, which any
other message of the new term does too; `elections` and `reordered_replication`
deliver them). `EarlyRequests` lets only leaders of the first two terms get client
requests in the four-term run. The restart run uses no view: a restarted node does
return to an old term.

**Fairness.** `RaftLiveness` assumes weak fairness of the heartbeat (the tick loop
calls it every six ticks while the node leads) and strong fairness of delivery
on each link (every message travels on a connection of its own, and a kind of
message that is sent again and again is not lost every time). Elections and
requests are not fair. `stuck_follower` narrows the search to few messages in
flight, heartbeats of the last leader only and no loss once it leads; a lasso
found under these constraints is a behaviour of the unconstrained specification
and in it nothing is lost, so fairness is no way out of it. `Wire` assumes that
whoever can read a line does so, and that the main thread keeps ticking.
`Transport` assumes that threads and goroutines run, a filter's sleep ends and a
connection is accepted or refused; nothing is assumed of the test that changes
filters. `MiniRpc` assumes that goroutines run and timers fire: a server that hangs
for ever would keep its own calls, though not its callers. Nobody has to type,
crash or restart.

## 4. Findings

1. **A follower can stay behind for ever** (`stuck_follower`). The leader takes the
   follower's last index + 1 as its next attempt. If the follower's last entry is
   the one that conflicts, that is the attempt just rejected. With two nodes it
   cannot happen (`catch_up` passes): the other node's log is the leader's own
   earlier log or shorter.
2. **Nothing is persisted** (`restart_two_leaders`). A restarted voter votes again
   in the same term.
3. **The relay discards what nodes send** (`wire_nodes`). Its envelope holds a
   `[]byte`, theirs a JSON object.

`Raft` describes nodes over a relay that can decode them, as its tests intend;
finding 3 is about this commit's envelope and is kept apart in `Wire`. That model
also has the counterpart: a Go client's payload is a base64 string, which passes
the relay and makes the handler panic with the node's mutex held (`main.rs:187`),
so that the tick loop's next lock ends the process.

## 5. Proofs

The theorems hold for every value of the constants that satisfies the named
assumptions of the modules:

| Specification | Assumptions |
|---|---|
| `Raft` | `NodeAssumption` (finite, not empty, without `None`), `CommandAssumption`, `BoundAssumption`, `RelayAssumption` |
| `RaftTimers` | those of `Raft`, and `TimerAssumption`: the shortest election limit is longer than the silence that `MaxLosses` lost heartbeats cause |
| `RaftLoops` | `CommandAssumption`, `LoopAssumption`: finitely many peers, the leader is none of them, natural bounds |
| `Transport` | none |
| `MiniRpc` | `ProcessAssumption`: finitely many processes, a natural bound on restarts, `None` is no request; `NoRing` |

### The core

* `TypeCorrect`. `TypeOK` is not inductive by itself: a leader's message names
  `next_index - 1`, so the invariant adds that a leader's indices are positive
  (`LeaderIndices`). `MergedType` shows that merging keeps a log a non-empty
  sequence; it picks the least differing position by well-foundedness of the
  naturals.
* `VotesAreSingle`, `OneLeaderPerTerm`. The inductive invariant `BallotInv` ties
  the history to the state: a voter's term is not below any ballot of its own
  and its vote is the ballot of its term; a granted reply stands for a ballot;
  what a candidate counts are ballots of its term; who was elected has ballots of
  a majority. Most actions are quiet (`Quiet`, `QuietStep`): they grant nothing and
  lower no term. The four others have a lemma each. `MajoritiesMeet` does the
  counting.
* `HintNamesLeader`. Entries come only from elected nodes (`EntriesFromElected`), and
  every step keeps the hint with its term, forgets it, or takes it from such a
  message.

* `LogsMatch`, `NextIndexStays`, `MatchesAreSound`, `TermEntriesStay`, `LeadersAppendOnly`. `LogMatching`
  compares two logs of one state, but a log is rebuilt from a message that may be
  older than every log there is now, so it is not inductive, and neither is it with
  facts about the logs of that state only. The invariant `ReplicationInv` speaks
  of the set `T` of all logs ever held: `Tree(T)` says that it is closed under
  prefixes and that two members ending in the same term are prefixes of one
  another; `LogTree(T)` that every node's log is in it, that the entries of every
  message are the end of one of its members (`Stands`), and that a leader's log is
  the longest that ends in its term. No variable holds `T`: the invariant says that
  one exists, and `TreeNext` adds the log a step writes. A follower that accepts has
  its sender's log or an extension of it (`Accepted`, by `MergeCases`); a client's
  entry is new in the tree because a term has one leader (`TreeClient`, which
  rests on `OneLeaderPerTerm`'s invariant). `Holds` then says how far a follower's
  log agrees with its leader's, for replies under way and for `match_indices`;
  replies of an earlier term say nothing, as the code's comparison of terms demands.
  `LeadersAppendOnly` follows from what the invariant says of roles and messages: entries
  come from whoever was elected in their term and never from their receiver, so with one
  leader per term none reach a leader of that term (`ReceiverFollows`, `RolesChange`), and only
  a client's request writes its log (`LeaderLogGrows`).

* `LeadersAreComplete`, `StateMachinesAgree`, `AppliedStaysCommitted`,
  `CommitsNeverRetreat`. That an entry is committed is a fact about the past: a
  majority had it in the term it was written in. No variable records this, so
  the invariant `CommitInv` says that, next to the tree `T`, there is a set `A` of
  acknowledgements (node, position, term) with the properties in `Promises`. An entry
  is `Committed` if a majority has acknowledged it and `Blocked` if a majority has
  left its term without doing so; it cannot be both. Every log that ends in a later
  term, every later leader's log and all that is sent from it keep the entry or know
  it blocked (`TreeKeeps`, `LeadersKeep`, `EntriesKeep`). For a new leader this comes
  from its voters (`VotersKnow`, by the up-to-date check: `UpToDateKeeps`) or, if none of
  them has acknowledged the entry, from their being a majority that blocks it. A
  commit index always points into a log that was committed as a whole (`TipsHold`,
  and in messages); for a leader that counts, replies and match indices stand for
  acknowledgements of its own term (`AckedReplies`, `AckedMatches`), which is where the
  proof needs the term check of the commit (`LeaderCommits`). The step adds what each node now
  has of its own term (`AcksGrow`). `AgreedByMajority` shows that the median is an
  index a majority has reached.
* `CommitsImplementLog`. A step of the replicated log: the chosen log is that of whoever has
  committed most, committed logs agree as far as they go (`TipsAgree`), a step takes none
  back (`CommitsAdvance`) and applies entries on one node only (`OneCommits`).

### The loops of the core

* `LoopIsMerged`, `IndicesArePositions`. The recursion of the entries loop is that of the
  specification's steps, so no induction over data is needed. `AppendInv` says what the
  log is after each iteration: the log before, as long as no entry has differed;
  from the first that does (`FirstDiffering`) the log before up to that entry and the
  entries of the message after it (`Spliced`), so that every later one is pushed.
  `IndexIsPosition` does not carry itself over an iteration: it needs to know which
  entries the log holds.
* `MedianIsMajority`. `Collecting` counts: for every v, as many collected values as
  peers have reached v, in whatever order they were collected. `Rank` is where
  an element stands in the sorted array; ranks differ (`RanksDiffer`), so every position
  is one (`RanksOnto`), and `SortedCounts` bounds how many elements are as large as the one at a
  position, and how many are larger. The median's position is where these
  bounds are the majority and one less.

### Timers

* `TimersImplementRaft`. Every step of the tick loop is a step of `Raft` or leaves its
  variables alone, so all theorems about the core hold under it.
* `TimersHeardLately`, `LeaderIsStable`. `StableLeader` speaks of two states and of no counter, so
  it rests on an invariant: `HeardLately` bounds the election counter of every node that follows a
  recognized leader by the heartbeats it has missed, the leader's own counter
  and who has ticked in this round; a heartbeat of this round that is under way is
  not counted before it is handled or lost. The proof also needs that nobody says more of terms than it knows
  (`TermsBehind`: a message's term is not above its sender's), or else a
  message could depose a leader all nodes recognize; and `LeaderInv` for there being one
  leader per term. `TimerInv` is their conjunction with the counters' types.

### The message path

* `PathTypes`, `PathIsNetwork`. The path keeps the place of a message in several
  tables: its stage, the channel, the set of readers, its position among the filters, the copies
  under way. `PathInv` says that they agree (`ChannelInv`, `LockInv`, `CopiesInv`); types alone
  are not inductive, as a message that stood twice in the channel would be handled four
  times. `Network` handles a message where a copy is handled, takes it out where a step
  refuses, filters or loses it, and sees nothing of the other steps.
* `PartitionsIsolate`. A message that was sent across a partition is not recognized
  by its content later. `IsolationInv` says where it is: not being
  forwarded, and with a partition that separates its ends still ahead of it. Filters are
  replaced under the write lock, when no message is between two filters.

### mini-rpc

* `RpcTypes`, `AnswersAreOwn`, `HandlesAreComplete`. `RpcInv` ties the calls of a request to
  the processes that make them. `ChainInv` says what a request's calls look like
  (`CallChain`): only the last one may be unserved, a call is linked just if a live caller waits
  for it, and callers stand ever further down the order that `NoRing` gives (`Rank`), so that
  a chain has no more calls than there are processes. An answer is right relative to the
  calls below it, and these can be lost when a process dies: `AnswersRight` speaks of
  answers whose process is still in the life it answered in, and `KnownNow` says that no
  connection is to a life not begun. `HandleInv` says that the data word of a handle is
  written, or about to be, whenever its type word is, which is why only the first
  `SetNextNode` can be seen half done.

The inductive invariants of the loops, the timers, the message path and mini-rpc were
also checked by TLC, each on the instance of the run of its module (for `MiniRpc`
also on a chain of three processes). Those of the core that say that a set of logs or of
acknowledgements exists are beyond TLC.

### What is only model-checked

Every invariant that a passing run checks, and every action property and refinement, is
also proved. Liveness (`CatchUp`, `Drains`, `EveryMessageLeaves`, `CallsReturn`) is out of the
prover's reach and stays with TLC. `Wire`, `RaftRestart` and the stuck follower have no theorems: their
runs show properties to be false.

## 6. Observations that no run is about

* The README's Demo Scenario 2 and `test_cluster.sh` configure other nodes by
  dialling them and typing `setNextNode`. The command always configures the node
  it is typed at (`cli.go:75`, `LocalAdapter`), so no chain beyond one hop is set up;
  the demo's expected sum comes out all the same. `MiniRpc` has the code's behaviour.
* An addition in a ring of next nodes is forwarded for ever (`service.go:125`).
* The very first `SetNextNode` can be caught between its two words; the addition
  that does so panics and ends the process. `HandleComplete` shows that this is
  the only time.
* `store "" x` in the command line stores under the two-character key `""`, where
  the README announces the refusal of an empty key: the line is split at blanks.
* `RaftNode` without peers never becomes leader (`node.rs:342`).

## 7. Not modelled

The orchestrator (process management only), log and console output, socket
options, `GetTime`, lengths of timeouts and delays (any order of their ends is
possible instead, except in `RaftTimers`), a data race inside Go's random
generators beyond the values they may yield, an `rpc` server that never answers.
