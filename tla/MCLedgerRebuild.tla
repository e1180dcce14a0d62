---------------------------- MODULE MCLedgerRebuild ----------------------------
(***************************************************************************)
(* Values of LedgerRebuild's constants for model checking: two workers     *)
(* with an address each, and a subsidy of which the miner's part is the    *)
(* reward of the blocks found.                                             *)
(***************************************************************************)
EXTENDS LedgerRebuild, TLC

CONSTANTS s1, s2, c1

TwoAddresses == [w \in Worker |-> w]
Ample == {-1}

\* The sessions can change places.
SessionSymmetry == Permutations({s1, s2})

\* Bound: a history that is no longer faithful never is again, and then only a ledger
\* that has paid nothing has a property; such a history is not followed into a payment.
UnfaithfulPaysNothing == faithful \/ payoutMu = {}
=============================================================================
