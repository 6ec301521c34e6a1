------------------------- MODULE MCPaymentLifecycle -------------------------
(***************************************************************************)
(* Instances of PaymentLifecycle for TLC.                                  *)
(***************************************************************************)
EXTENDS PaymentLifecycle, TLC

CONSTANTS w1, w2, i1, p1, p2

\* One invoice with two bundles, or with one.
MCTwoItems == [i \in {i1} |-> {p1, p2}]
MCOneItem == [i \in {i1} |-> {p1}]

MCSize == [p \in Purchases |-> 1]
MCSizes == [p \in Purchases |-> IF p = p1 THEN 1 ELSE 2]

TwoWorkers == Permutations({w1, w2})
=============================================================================
