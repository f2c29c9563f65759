---------------------------- MODULE MCTransport -----------------------------
(***************************************************************************)
(* An instance of Transport: a node sends to another and to one that is    *)
(* registered only later.                                                  *)
(***************************************************************************)
EXTENDS Transport, TLC

CONSTANTS n1, n2, n3

Messages == {[from |-> n1, to |-> n2], [from |-> n1, to |-> n3]}

\* Two sides; and one that leaves a node out.
Partitions == {n1 :> 1 @@ n2 :> 2 @@ n3 :> 1, n1 :> 1 @@ n2 :> 1}
=============================================================================
