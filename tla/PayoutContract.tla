---------------------------- MODULE PayoutContract ----------------------------
(***************************************************************************)
(* What the payout side of the pool promises its miners, without rounds,   *)
(* locks, wallets or files: the payouts of a solved block become owed, and *)
(* each of them is paid by at most one transaction.                        *)
(***************************************************************************)
EXTENDS Naturals

CONSTANT Payout   \* the payouts there can be: one per found block and worker

VARIABLE paid     \* for each payout earned: how many transactions have paid it

Init == paid = [p \in {} |-> 0]

\* A block is found: payouts never heard of before become owed, that is, paid by no
\* transaction.
Earn ==
    /\ DOMAIN paid \subseteq DOMAIN paid' /\ DOMAIN paid' \subseteq Payout
    /\ paid' = [p \in DOMAIN paid' |-> IF p \in DOMAIN paid THEN paid[p] ELSE 0]

\* A transaction pays some payouts, and only ones no transaction has paid.
Transfer ==
    /\ DOMAIN paid' = DOMAIN paid
    /\ \A p \in DOMAIN paid : paid'[p] = paid[p] \/ (paid[p] = 0 /\ paid'[p] = 1)

Next == Earn \/ Transfer

Spec == Init /\ [][Next]_paid
=============================================================================
