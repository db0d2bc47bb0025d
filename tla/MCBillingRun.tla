---------------------------- MODULE MCBillingRun -----------------------------
(* Contracts of one and of two items.  A period is two days long, of the   *)
(* "daily" item one day.                                                   *)
EXTENDS BillingRun, TLC

OneItem == (1 :> [n \in 0..(LastIndex + 1) |-> 2 * n])
SameFrequency == OneItem @@ (2 :> [n \in 0..(LastIndex + 1) |-> 2 * n])
TwoFrequencies == OneItem @@ (2 :> [n \in 0..(LastIndex + 1) |-> n])
Symmetry == Permutations(Runs)
=============================================================================
