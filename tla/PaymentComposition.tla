------------------------- MODULE PaymentComposition -------------------------
(***************************************************************************)
(* Online payment seen from its two sides: what it promises the customer   *)
(* (PaymentCustody), and the calls its handlers make to the settlement     *)
(* ledger (SettlementLedger), whose recorders they are.                    *)
(***************************************************************************)
EXTENDS OnlinePayment, Functions

CONSTANTS
  Orgs,   \* organisations that own the invoices
  Owner   \* Owner[i]: the organisation that issued i

ASSUME OwnerAssumption == Owner \in [Invoices -> Orgs]

(* Payments are named by invoice and session. *)
SessionPayments == Invoices \X SessionIds

OutcomeOf(p) ==
  LET i == p[1]
      k == p[2]
  IN IF k > Len(sessions[i]) \/ sessions[i][k].doku = "open" THEN "none"
     ELSE IF rows[i][ReferenceOf(i, k)] > 0 THEN "applied"
     ELSE IF \E f \in refunds : f.inv = i /\ f.pay = k THEN "refund"
     ELSE "held"

Custody == INSTANCE PaymentCustody WITH
  Payments  <- SessionPayments,
  InvoiceOf <- [p \in SessionPayments |-> p[1]],
  outcome   <- [p \in SessionPayments |-> OutcomeOf(p)],
  state     <- [i \in Invoices |-> IF Payable(i) THEN "open" ELSE status[i]]

(* Sessions, retries, crashes and races included, a payment is applied to  *)
(* an open invoice or refunded because the invoice is closed, once.        *)
KeepsCustody == Custody!Spec

(* The ledger entries the handlers write; nobody settles here. *)
LedgerRefs == Invoices \X References
LedgerAmounts == UNION {1..Total[i] : i \in Invoices}
NoEntry == [entry |-> "none"]

CreditOf(r) == credited[r[1]][r[2]]

EntryAt(r) ==
  IF CreditOf(r) = 0 THEN NoEntry ELSE [invoice |-> r[1], amount |-> CreditOf(r)]

(* What the rows of an organisation's invoices add up to. *)
CreditsOf(o) == {r \in LedgerRefs : CreditOf(r) > 0 /\ Owner[r[1]] = o}
SumOfCredits(o) == SumFunction([r \in CreditsOf(o) |-> CreditOf(r)])

Ledger == INSTANCE SettlementLedger WITH
  Refs       <- LedgerRefs,
  Amounts    <- LedgerAmounts,
  Recorders  <- Handlers,
  Clerks     <- {},
  MaxAdjusted <- 0,
  None       <- NoEntry,
  payments   <- [r \in LedgerRefs |-> EntryAt(r)],
  paidIn     <- [o \in Orgs |-> SumOfCredits(o)],
  settled    <- [o \in Orgs |-> 0],
  adjusted   <- [o \in Orgs |-> 0],
  lock       <- [o \in Orgs |-> NoEntry],
  rec        <- [h \in Handlers |-> [at |-> "idle"]],
  clerk      <- [c \in {} |-> [at |-> "idle"]],
  collisions <- {}

(* The handlers use the ledger as its recorders do: one entry per          *)
(* reference, written once, for the invoice's owner.                       *)
UsesLedger == Ledger!Safety
=============================================================================
