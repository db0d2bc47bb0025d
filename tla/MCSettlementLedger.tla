------------------------- MODULE MCSettlementLedger -------------------------
(* Two organisations, one invoice each, for TLC.                           *)
EXTENDS SettlementLedger, TLC

CONSTANTS o1, o2, i1, i2

MCOwner == (i1 :> o1) @@ (i2 :> o2)
=============================================================================
