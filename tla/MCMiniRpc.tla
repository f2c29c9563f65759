----------------------------- MODULE MCMiniRpc ------------------------------
(***************************************************************************)
(* An instance of MiniRpc: somebody works at a and calls a or b, which may *)
(* have a as its next node and may be stopped and started again, also      *)
(* between forwarding an addition and answering it.                        *)
(***************************************************************************)
EXTENDS MiniRpc

CONSTANTS a, b

Chain == {<<b, a>>}
Additions == {<<1, 2>>, <<1, 3>>}
=============================================================================
