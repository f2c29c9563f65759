------------------------------- MODULE Network -------------------------------
(***************************************************************************)
(* The network as Raft sees it: what is sent may be handled once or twice, *)
(* at any later time, or be lost; nothing is handled that is not under     *)
(* way.                                                                    *)
(***************************************************************************)
EXTENDS Naturals

CONSTANT Msg

VARIABLES
    msgs,   \* messages under way
    handled \* how often each of them has been handled

Init == msgs = {} /\ handled = [m \in Msg |-> 0]

Send(m) ==
    /\ m \notin msgs
    /\ msgs' = msgs \cup {m}
    /\ UNCHANGED handled

\* Handled for the last time, or lost.
Leave(m) == m \in msgs /\ msgs' = msgs \ {m} /\ handled' = [handled EXCEPT ![m] = 0]

\* Handled, and there is another copy.
Duplicate(m) ==
    /\ m \in msgs /\ handled[m] = 0
    /\ handled' = [handled EXCEPT ![m] = 1]
    /\ UNCHANGED msgs

Spec == Init /\ [][\E m \in Msg : Send(m) \/ Leave(m) \/ Duplicate(m)]_<<msgs, handled>>
=============================================================================
