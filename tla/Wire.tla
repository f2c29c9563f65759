-------------------------------- MODULE Wire --------------------------------
(***************************************************************************)
(* The envelope between the Rust nodes, the Go relay and a Go client, and  *)
(* what becomes of a node whose handler panics.                            *)
(*                                                                         *)
(* Of a payload only its JSON shape matters here: serde_json::to_value     *)
(* makes an object of the arguments, encoding/json makes a base64 string   *)
(* of a []byte, and each side decodes what it encodes.  What the messages  *)
(* say, and which of them a node would send, is the business of Raft.      *)
(***************************************************************************)
EXTENDS FiniteSets

CONSTANTS Node, Client

VARIABLES
    toRelay,    \* lines on their way to the relay
    toNode,     \* lines the relay has forwarded
    handled,    \* history: messages a handler of RaftNode has taken
    poisoned,   \* a thread panicked while it held the node's mutex
    running     \* the process exists

vars == <<toRelay, toNode, handled, poisoned, running>>

Line(from, to, type, payload) == [from |-> from, to |-> to, type |-> type, payload |-> payload]

\* Message of protocol.rs with a payload of type serde_json::Value.
FromNode(i, to, type) == Line(i, to, type, "object")

\* Message of protocol.go with a payload of type []byte.
FromClient(to, type) == Line(Client, to, type, "string")

\* json.Unmarshal into raft.Message fails unless the []byte is a string.
RelayDecodes(m) == m.payload = "string"

\* serde_json::from_slice into the arguments of a handler.
HandlerDecodes(m) == m.payload = "object"

ReplyType(type) ==
    CASE type = "RequestVote" -> "VoteReply"
      [] type = "AppendEntries" -> "AppendReply"
      [] type = "ClientRequest" -> "ClientReply"

Replies(m) ==
    IF m.type \in {"RequestVote", "AppendEntries", "ClientRequest"}
    THEN {FromNode(m.to, m.from, ReplyType(m.type))} ELSE {}

Init ==
    /\ toRelay = {}
    /\ toNode = {}
    /\ handled = {}
    /\ poisoned = [i \in Node |-> FALSE]
    /\ running = [i \in Node |-> TRUE]

\* A tick of the engine in which a timer fires, or a handler that sends.
NodeSends(i, j, type) ==
    /\ running[i] /\ ~poisoned[i] /\ i # j
    /\ toRelay' = toRelay \cup {FromNode(i, j, type)}
    /\ UNCHANGED <<toNode, handled, poisoned, running>>

ClientSends(i) ==
    /\ toRelay' = toRelay \cup {FromClient(i, "ClientRequest")}
    /\ UNCHANGED <<toNode, handled, poisoned, running>>

RelayReads(m) ==
    /\ m \in toRelay
    /\ toRelay' = toRelay \ {m}
    /\ toNode' = IF RelayDecodes(m) THEN toNode \cup {m} ELSE toNode
    /\ UNCHANGED <<handled, poisoned, running>>

\* A connection thread of the target: it needs the mutex, then the payload, and
\* panics with the mutex held when the payload has another shape.
NodeReads(m) ==
    LET i == m.to
    IN  /\ m \in toNode /\ i \in Node
        /\ toNode' = toNode \ {m}
        /\ IF running[i] /\ ~poisoned[i]
           THEN IF HandlerDecodes(m)
                THEN /\ handled' = handled \cup {m}
                     /\ toRelay' = toRelay \cup Replies(m)
                     /\ UNCHANGED poisoned
                ELSE /\ poisoned' = [poisoned EXCEPT ![i] = TRUE]
                     /\ UNCHANGED <<handled, toRelay>>
           ELSE UNCHANGED <<handled, toRelay, poisoned>>
        /\ UNCHANGED running

\* node.lock().unwrap() of the tick loop, on the main thread.
TickPanics(i) ==
    /\ running[i] /\ poisoned[i]
    /\ running' = [running EXCEPT ![i] = FALSE]
    /\ UNCHANGED <<toRelay, toNode, handled, poisoned>>

Next ==
    \/ \E i, j \in Node, type \in {"RequestVote", "AppendEntries"} : NodeSends(i, j, type)
    \/ \E i \in Node : ClientSends(i)
    \/ \E m \in toRelay : RelayReads(m)
    \/ \E m \in toNode : NodeReads(m)
    \/ \E i \in Node : TickPanics(i)

\* Every line sent is read by the relay, every line forwarded by its target, and
\* the main thread keeps ticking; nobody has to send.
FairSpec ==
    /\ Init /\ [][Next]_vars
    /\ \A i, j \in Node, type \in {"RequestVote", "AppendEntries"} :
          WF_vars(RelayReads(FromNode(i, j, type))) /\ WF_vars(NodeReads(FromNode(i, j, type)))
    /\ \A i \in Node : WF_vars(RelayReads(FromClient(i, "ClientRequest")))
    /\ \A i \in Node : WF_vars(NodeReads(FromClient(i, "ClientRequest")))
    /\ \A i \in Node : WF_vars(TickPanics(i))

-----------------------------------------------------------------------------

\* The envelope carries all node-to-node communication (the comment on Message in
\* protocol.go): what one node sends to another, the relay losing nothing, is taken
\* by a handler of the other unless that one has stopped.
EnvelopeCarries ==
    \A i, j \in Node, type \in {"RequestVote", "AppendEntries"} :
        LET m == FromNode(i, j, type)
        IN  m \in toRelay ~> m \in handled \/ poisoned[j]
=============================================================================
