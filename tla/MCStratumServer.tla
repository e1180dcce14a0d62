--------------------------- MODULE MCStratumServer ---------------------------
(***************************************************************************)
(* Values of StratumServer's constants for model checking.                 *)
(***************************************************************************)
EXTENDS StratumServer

CONSTANTS s1, s2, w1, x1, x2, x3

\* One solution that meets no difficulty, one that meets a share's, one a block's.
MeetsInTurn == [x \in Solution |-> CASE x = x1 -> 0 [] x = x2 -> 2 [] x = x3 -> 3]
=============================================================================
