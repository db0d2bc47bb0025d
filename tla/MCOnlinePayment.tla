-------------------------- MODULE MCOnlinePayment ---------------------------
(* One invoice of three units, two of which make a rupiah: a session asks  *)
(* for four.                                                               *)
EXTENDS OnlinePayment, TLC

CONSTANTS i1

MCTotal == i1 :> 3
Symmetry == Permutations(Handlers) \cup Permutations(Shoppers)
NoSessions == {}
FirstSession == {<<i1, 1>>}
=============================================================================
