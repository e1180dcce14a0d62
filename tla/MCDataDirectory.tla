---------------------------- MODULE MCDataDirectory ----------------------------
(* DataDirectory on a small instance: numbers of 64 values, 4 atoms to the PAC. *)
EXTENDS DataDirectory, TLC

Typed(fee, whole, frac, auto) == [fee |-> fee, whole |-> whole, frac |-> frac, auto |-> auto]

\* A usual form, one whose threshold wraps to a small one, one that wraps to a negative
\* one, one with a signed fraction, and one with a fee out of range.
MCForm == {Typed(1, 1, 2, TRUE), Typed(2, 17, 0, FALSE), Typed(2, 9, 0, TRUE),
           Typed(1, 0, -1, FALSE), Typed(6, 1, 0, TRUE)}

MCConfigured == [feeBPS |-> 1, payoutMin |-> 5, autoPayout |-> FALSE]

AdminSymmetry == Permutations(Admin)
=============================================================================
