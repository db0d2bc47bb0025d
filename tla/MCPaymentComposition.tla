------------------------ MODULE MCPaymentComposition ------------------------
(* One invoice of one organisation.                                        *)
EXTENDS PaymentComposition, TLC

CONSTANTS i1, o1

MCTotal == i1 :> 3
MCOwner == i1 :> o1
NoSessions == {}
Symmetry == Permutations(Handlers)
=============================================================================
