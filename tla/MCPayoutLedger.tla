---------------------------- MODULE MCPayoutLedger ----------------------------
(***************************************************************************)
(* Values of PayoutLedger's constants for model checking: two workers or   *)
(* three, the third with no address in its name, and amounts of a few      *)
(* atoms, so that thresholds, budgets and batch limits all matter.         *)
(***************************************************************************)
EXTENDS PayoutLedger

CONSTANTS s1, s2, c1, c2, o1

\* Two workers, each of an address of its own.
TwoAddresses == [w \in Worker |-> w]

\* Workers 1 and 2 are rigs of one address; the name of worker 3 has none.
SharedAddress == [w \in Worker |-> IF w = 3 THEN 0 ELSE 1]

\* No balance source, and a balance that covers one small payout.
AmpleOrScarce == {-1, 3}
Ample == {-1}
=============================================================================
