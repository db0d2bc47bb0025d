--------------------------- MODULE PaymentCustody ---------------------------
(***************************************************************************)
(* What online payment promises, without sessions, handlers or retries:    *)
(* every payment a customer makes at the provider is held until it is      *)
(* either applied to its invoice, which it settles, or set aside for a     *)
(* refund because the invoice is no longer open.  Neither is ever undone,  *)
(* so an invoice is settled by at most one provider payment.               *)
(***************************************************************************)
CONSTANTS
  Invoices,
  Payments,    \* payments at the provider
  InvoiceOf    \* InvoiceOf[p]: the invoice payment p is for

VARIABLES
  outcome,     \* outcome[p]: what became of p
  state        \* state[i]: open, paid or void

vars == <<outcome, state>>

Init ==
  /\ outcome = [p \in Payments |-> "none"]
  /\ state = [i \in Invoices |-> "open"]

(* The customer pays at the provider. *)
Hold(p) ==
  /\ outcome[p] = "none"
  /\ outcome' = [outcome EXCEPT ![p] = "held"]
  /\ UNCHANGED state

Apply(p) ==
  /\ outcome[p] = "held"
  /\ state[InvoiceOf[p]] = "open"
  /\ outcome' = [outcome EXCEPT ![p] = "applied"]
  /\ state' = [state EXCEPT ![InvoiceOf[p]] = "paid"]

Refund(p) ==
  /\ outcome[p] = "held"
  /\ state[InvoiceOf[p]] # "open"
  /\ outcome' = [outcome EXCEPT ![p] = "refund"]
  /\ UNCHANGED state

(* Staff settle the invoice by hand, or void it. *)
Close(i) ==
  /\ state[i] = "open"
  /\ state' \in {[state EXCEPT ![i] = "paid"], [state EXCEPT ![i] = "void"]}
  /\ UNCHANGED outcome

Next ==
  \/ \E p \in Payments : Hold(p) \/ Apply(p) \/ Refund(p)
  \/ \E i \in Invoices : Close(i)

Spec == Init /\ [][Next]_vars
=============================================================================
