--------------------------- MODULE OnlinePayment ----------------------------
(***************************************************************************)
(* Payment of issued invoices: DOKU checkout sessions, the DOKU webhook,   *)
(* the status query of the public page, payments recorded by staff, the    *)
(* listeners of a paid invoice and the credit in the settlement ledger.    *)
(*                                                                         *)
(*   service/online_payment.go          Checkout, HandleNotification,      *)
(*                                      SyncStatus, creditSettlement       *)
(*   service/payment_service.go         record, afterPaid                  *)
(*   repository/payment_repository.go   Record                             *)
(*   repository/checkout_repository.go  sessions                           *)
(*   repository/invoice_repository.go   Void, MarkOverdue                  *)
(*   handler/doku_webhook_handler.go    what DOKU is answered              *)
(*                                                                         *)
(* A handler is one request in progress.  It takes one step per database   *)
(* transaction, so other requests run between its reads and its writes and *)
(* the process may die there.  DOKU is external: a payment it took is      *)
(* notified again and again until a notification is answered with 200.     *)
(*                                                                         *)
(* Amounts are in the smallest unit of the columns; Rupiah of them make    *)
(* one rupiah, to which sessions are rounded up.                           *)
(***************************************************************************)
EXTENDS Integers, Sequences

CONSTANTS
  Invoices,       \* issued invoices
  Total,          \* Total[i]: grand_total
  Rupiah,         \* units in a rupiah
  MaxSessions,    \* bound: sessions of one invoice
  Anonymous,      \* sessions <<i, k>> whose notifications carry no reference
  Beneficiaries,  \* invoices in IDR of customer organisations
  Handlers,       \* concurrent notifications, status queries, staff requests
  Shoppers,       \* concurrent Checkout requests
  Sources,        \* the kinds of handler: webhook, sync, manual
  ManualAmounts,  \* the amounts staff enter
  MaxFaults       \* bound: crashes and errors that are only logged

ASSUME TotalAssumption == Total \in [Invoices -> Nat]
ASSUME RupiahAssumption == Rupiah \in Nat \ {0}
ASSUME BoundsAssumption == MaxSessions \in Nat /\ MaxFaults \in Nat
ASSUME ManualAssumption == ManualAmounts \subseteq Nat \ {0}

VARIABLES
  status,      \* status[i]: the invoice's status
  amountPaid,  \* amountPaid[i]: its amount_paid
  rows,        \* rows[i][r]: amount of the doku payment row with reference r
  sessions,    \* sessions[i]: its checkout sessions, oldest first
  handler,     \* handler[h]: where request h is, and what it has read
  shopper,     \* shopper[c]: the same for Checkout requests
  notices,     \* notices[i]: times InvoicePaid reached the listeners
  activation,  \* activation[i]: the landing activation that i pays for
  credited,    \* credited[i][r]: ledger entry with that reference
  refunds,     \* payments logged "perlu refund manual", with the reason
  creditErrors,\* credits that failed and were only logged
  faults       \* faults so far

vars == <<status, amountPaid, rows, sessions, handler, shopper, notices,
          activation, credited, refunds, creditErrors, faults>>

SessionIds == 1..MaxSessions
(* References of one invoice: one per session, and 0 for the number and    *)
(* date that stand in for a missing one.                                   *)
References == 0..MaxSessions
ReferenceOf(i, k) == IF <<i, k>> \in Anonymous THEN 0 ELSE k

Payable(i) == status[i] \in {"issued", "overdue"}
RemainingOf(i) == Total[i] - amountPaid[i]

(* ceilRupiah.  Mutant: fractions are dropped. *)
FloorRupiah(a) == (a \div Rupiah) * Rupiah

CeilRupiah(a) == ((a + Rupiah - 1) \div Rupiah) * Rupiah

Init ==
  /\ status = [i \in Invoices |-> "issued"]
  /\ amountPaid = [i \in Invoices |-> 0]
  /\ rows = [i \in Invoices |-> [r \in References |-> 0]]
  /\ sessions = [i \in Invoices |-> <<>>]
  /\ handler = [h \in Handlers |-> [at |-> "idle"]]
  /\ shopper = [c \in Shoppers |-> [at |-> "idle"]]
  /\ notices = [i \in Invoices |-> 0]
  /\ activation = [i \in Invoices |-> "open"]
  /\ credited = [i \in Invoices |-> [r \in References |-> 0]]
  /\ refunds = {}
  /\ creditErrors = {}
  /\ faults = 0

invoiceVars == <<status, amountPaid, rows>>
effectVars == <<notices, activation, credited, refunds, creditErrors>>

-----------------------------------------------------------------------------
(* Checkout: the customer asks for a payment page *)

CheckoutLoad(c) ==
  \E i \in Invoices :
    /\ shopper[c].at = "idle"
    /\ Payable(i)
    /\ RemainingOf(i) > 0
    /\ shopper' = [shopper EXCEPT ![c] =
         [at |-> "loaded", inv |-> i, amount |-> CeilRupiah(RemainingOf(i))]]
    /\ UNCHANGED <<invoiceVars, effectVars, sessions, handler, faults>>

(* FindReusable: the newest session that is pending and not expired. *)
Reusable(i) ==
  \E k \in 1..Len(sessions[i]) :
    sessions[i][k].row = "pending" /\ ~sessions[i][k].expired

CheckoutFind(c) ==
  /\ shopper[c].at = "loaded"
  /\ shopper' = [shopper EXCEPT ![c] =
       IF Reusable(@.inv) THEN [at |-> "idle"] ELSE [@ EXCEPT !.at = "create"]]
  /\ UNCHANGED <<invoiceVars, effectVars, sessions, handler, faults>>

(* CreatePayment at DOKU, then the row; only then has the customer a URL.  *)
(* All sessions of an invoice have the same DOKU number.                   *)
CheckoutCreate(c) ==
  LET i == shopper[c].inv IN
    /\ shopper[c].at = "create"
    /\ Len(sessions[i]) < MaxSessions
    /\ sessions' = [sessions EXCEPT ![i] = Append(@,
         [amount |-> shopper[c].amount, row |-> "pending",
          doku |-> "open", expired |-> FALSE])]
    /\ shopper' = [shopper EXCEPT ![c] = [at |-> "idle"]]
    /\ UNCHANGED <<invoiceVars, effectVars, handler, faults>>

(* CreatePayment fails, the request is cancelled or the process dies. *)
CheckoutFail(c) ==
  /\ shopper[c].at # "idle"
  /\ shopper' = [shopper EXCEPT ![c] = [at |-> "idle"]]
  /\ UNCHANGED <<invoiceVars, effectVars, sessions, handler, faults>>

-----------------------------------------------------------------------------
(* DOKU (external): a session is paid before it expires *)

Expire(i, k) ==
  /\ ~sessions[i][k].expired
  /\ sessions' = [sessions EXCEPT ![i][k].expired = TRUE]
  /\ UNCHANGED <<invoiceVars, effectVars, handler, shopper, faults>>

Pay(i, k) ==
  /\ sessions[i][k].doku = "open"
  /\ ~sessions[i][k].expired
  /\ sessions' = [sessions EXCEPT ![i][k].doku = "paid"]
  /\ UNCHANGED <<invoiceVars, effectVars, handler, shopper, faults>>

-----------------------------------------------------------------------------
(* Three ways into the code that records a payment *)

Begin(h, call) ==
  /\ handler' = [handler EXCEPT ![h] = call]
  /\ UNCHANGED <<invoiceVars, effectVars, sessions, shopper, faults>>

(* The webhook, for a payment DOKU has not been answered for. *)
Deliver(h, i, k) ==
  /\ "webhook" \in Sources
  /\ handler[h].at = "idle"
  /\ sessions[i][k].doku = "paid"
  /\ Begin(h, [at |-> "called", via |-> "webhook", inv |-> i, pay |-> k])

(* External: staff who find a failed settle in the log have DOKU send the  *)
(* notification again, as docs/tenant-products-rollout.md:113-125 says.    *)
Resend(h, i, k) ==
  /\ "webhook" \in Sources
  /\ handler[h].at = "idle"
  /\ sessions[i][k].doku = "acked"
  /\ activation[i] = "failed"
  /\ Begin(h, [at |-> "called", via |-> "webhook", inv |-> i, pay |-> k])

(* SyncStatus: the newest session must be pending ... *)
SyncLoad(h, i) ==
  /\ "sync" \in Sources
  /\ handler[h].at = "idle"
  /\ Payable(i)
  /\ sessions[i] # <<>>
  /\ sessions[i][Len(sessions[i])].row = "pending"
  /\ Begin(h, [at |-> "syncing", inv |-> i])

(* ... and CheckStatus answers for the number, so for any session of it. *)
SyncCheck(h) ==
  LET i == handler[h].inv
      taken == {k \in 1..Len(sessions[i]) : sessions[i][k].doku \in {"paid", "acked"}}
  IN /\ handler[h].at = "syncing"
     /\ \/ \E k \in taken :
             Begin(h, [at |-> "called", via |-> "sync", inv |-> i, pay |-> k])
        \/ taken = {} /\ Begin(h, [at |-> "idle"])

(* RecordManual: any amount, no reference that matters. *)
ManualRequest(h, i) ==
  \E a \in ManualAmounts :
    /\ "manual" \in Sources
    /\ handler[h].at = "idle"
    /\ Begin(h, [at |-> "read", via |-> "manual", inv |-> i, pay |-> 0,
                 co |-> 0, amount |-> a])

-----------------------------------------------------------------------------
(* HandleNotification *)

(* The newest session of the number, and the amount: what DOKU took, but   *)
(* no more than what remained when the invoice was read.                   *)
Capped(i, amount) ==
  IF Payable(i) /\ RemainingOf(i) > 0 /\ amount > RemainingOf(i)
    THEN RemainingOf(i) ELSE amount

ReadInvoice(h) ==
  LET i == handler[h].inv
      k == handler[h].pay
  IN /\ handler[h].at = "called"
     /\ Begin(h, [at |-> "read", via |-> handler[h].via, inv |-> i, pay |-> k,
                  co |-> Len(sessions[i]),
                  amount |-> Capped(i, sessions[i][k].amount)])

Goto(h, label) == handler' = [handler EXCEPT ![h].at = label]
Stop(h) == handler' = [handler EXCEPT ![h] = [at |-> "idle"]]

(* Record holds the invoice row's lock from its first statement on, so it  *)
(* is one step.  A reference that is recorded already comes first: the     *)
(* code looks for it in the organisation, the model among the payments of  *)
(* the invoice, for it takes the references of two invoices to differ.     *)
(* Mutant: it comes after the check of the status.                         *)
RepeatWhilePayable(h) ==
  /\ handler[h].via # "manual"
  /\ Payable(handler[h].inv)
  /\ rows[handler[h].inv][ReferenceOf(handler[h].inv, handler[h].pay)] > 0

IsRepeat(h) ==
  /\ handler[h].via # "manual"
  /\ rows[handler[h].inv][ReferenceOf(handler[h].inv, handler[h].pay)] > 0

(* Which listeners hear of a payment that was recorded before.  Mutants:   *)
(* all of them, and none.                                                  *)
RepeatReachesAll(i) == IF status[i] = "paid" THEN "notify" ELSE "mark"

AfterRepeat(i) == IF status[i] = "paid" THEN "replay" ELSE "mark"

RecordRepeat(h) ==
  /\ handler[h].at = "read"
  /\ IsRepeat(h)
  /\ Goto(h, AfterRepeat(handler[h].inv))
  /\ UNCHANGED <<invoiceVars, effectVars, sessions, shopper, faults>>

(* Mutant: earlier payments are not counted. *)
FitsTotal(h) == handler[h].amount <= Total[handler[h].inv]

Fits(h) == handler[h].amount <= RemainingOf(handler[h].inv)

(* ErrInvoiceNotPayable or ErrPaymentExceeds: staff see the error; for     *)
(* DOKU it is logged as a refund to make and the answer is 200.            *)
RecordRefuse(h) ==
  LET i == handler[h].inv IN
    /\ handler[h].at = "read"
    /\ ~IsRepeat(h)
    /\ ~Payable(i) \/ ~Fits(h)
    /\ IF handler[h].via = "manual"
         THEN /\ Stop(h)
              /\ UNCHANGED refunds
         ELSE /\ Goto(h, "answer")
              /\ refunds' = refunds \cup
                   {[inv |-> i, pay |-> handler[h].pay,
                     why |-> IF Payable(i) THEN "exceeds" ELSE "not_payable"]}
    /\ UNCHANGED <<invoiceVars, notices, activation, credited, creditErrors,
                   sessions, shopper, faults>>

(* The payment row and the invoice's sum and status. *)
RecordNew(h) ==
  LET i == handler[h].inv
      a == handler[h].amount
      r == ReferenceOf(i, handler[h].pay)
      full == amountPaid[i] + a = Total[i]
  IN /\ handler[h].at = "read"
     /\ ~IsRepeat(h)
     /\ Payable(i) /\ Fits(h)
     /\ amountPaid' = [amountPaid EXCEPT ![i] = @ + a]
     /\ status' = [status EXCEPT ![i] = IF full THEN "paid" ELSE @]
     /\ IF handler[h].via = "manual"
          THEN UNCHANGED rows
          ELSE rows' = [rows EXCEPT ![i][r] = a]
     /\ IF full THEN Goto(h, "notify")
        ELSE IF handler[h].via = "manual" THEN Stop(h)
        ELSE Goto(h, "mark")
     /\ UNCHANGED <<effectVars, sessions, shopper, faults>>

(* Mutant: a staff payment closes a session too. *)
AlwaysMark(h) == Goto(h, "mark")

AfterListeners(h) == IF handler[h].via = "manual" THEN Stop(h) ELSE Goto(h, "mark")

(* SettleByInvoice, called by a listener that has no result: an error or a *)
(* panic is logged, nothing tries again, and the request goes on.          *)
Settle(i) ==
  \/ /\ activation' = [activation EXCEPT ![i] = "settled"]
     /\ UNCHANGED faults
  \/ /\ faults < MaxFaults
     /\ faults' = faults + 1
     /\ activation' = [activation EXCEPT ![i] = IF @ = "open" THEN "failed" ELSE @]

(* afterPaid, when the commit is done: every listener. *)
Notify(h) ==
  LET i == handler[h].inv IN
    /\ handler[h].at = "notify"
    /\ notices' = [notices EXCEPT ![i] = @ + 1]
    /\ Settle(i)
    /\ AfterListeners(h)
    /\ UNCHANGED <<invoiceVars, credited, refunds, creditErrors, sessions, shopper>>

(* InvoicePaidReplay: only the listeners that ask for it. *)
Replay(h) ==
  /\ handler[h].at = "replay"
  /\ Settle(handler[h].inv)
  /\ AfterListeners(h)
  /\ UNCHANGED <<invoiceVars, notices, credited, refunds, creditErrors, sessions, shopper>>

(* SetStatus of the session found at the start. *)
MarkSession(h) ==
  /\ handler[h].at = "mark"
  /\ sessions' = [sessions EXCEPT ![handler[h].inv][handler[h].co].row = "paid"]
  /\ Goto(h, "credit")
  /\ UNCHANGED <<invoiceVars, effectVars, shopper, faults>>

(* creditSettlement: the amount of the payment row, under its reference,   *)
(* once.  Mutants: what DOKU took; again for every notification.           *)
CreditSession(i, k) ==
  LET r == ReferenceOf(i, k) IN
    credited' = IF i \in Beneficiaries /\ credited[i][r] = 0
                  THEN [credited EXCEPT ![i][r] = sessions[i][k].amount]
                  ELSE credited

CreditAgain(i, k) ==
  LET r == ReferenceOf(i, k) IN
    credited' = IF i \in Beneficiaries
                  THEN [credited EXCEPT ![i][r] = @ + rows[i][r]]
                  ELSE credited

CreditOnce(i, k) ==
  LET r == ReferenceOf(i, k) IN
    credited' = IF i \in Beneficiaries /\ credited[i][r] = 0
                  THEN [credited EXCEPT ![i][r] = rows[i][r]]
                  ELSE credited

Credit(h) ==
  /\ handler[h].at = "credit"
  /\ CreditOnce(handler[h].inv, handler[h].pay)
  /\ Goto(h, "answer")
  /\ UNCHANGED <<invoiceVars, notices, activation, refunds, creditErrors, sessions, shopper, faults>>

(* Errors of the ledger and of SetStatus are logged and the request goes on. *)
CreditFails(h) ==
  LET i == handler[h].inv IN
    /\ handler[h].at = "credit"
    /\ i \in Beneficiaries
    /\ faults < MaxFaults
    /\ faults' = faults + 1
    /\ creditErrors' = creditErrors \cup {<<i, ReferenceOf(i, handler[h].pay)>>}
    /\ Goto(h, "answer")
    /\ UNCHANGED <<invoiceVars, notices, activation, credited, refunds, sessions, shopper>>

MarkFails(h) ==
  /\ handler[h].at = "mark"
  /\ faults < MaxFaults
  /\ faults' = faults + 1
  /\ Goto(h, "credit")
  /\ UNCHANGED <<invoiceVars, effectVars, sessions, shopper>>

(* 200: DOKU stops notifying.  SyncStatus answers the customer instead. *)
Answer(h) ==
  LET i == handler[h].inv IN
    /\ handler[h].at = "answer"
    /\ IF handler[h].via = "webhook"
         THEN sessions' = [sessions EXCEPT ![i][handler[h].pay].doku = "acked"]
         ELSE UNCHANGED sessions
    /\ Stop(h)
    /\ UNCHANGED <<invoiceVars, effectVars, shopper, faults>>

(* The process dies, or a statement fails: 500 or no answer at all.        *)
(* Mutant: the webhook answers 200 to an error as well.                    *)
CrashAnswers200(h) ==
  /\ handler[h].at \notin {"idle", "syncing"}
  /\ faults < MaxFaults
  /\ faults' = faults + 1
  /\ Stop(h)
  /\ IF handler[h].via = "webhook"
       THEN sessions' = [sessions EXCEPT ![handler[h].inv][handler[h].pay].doku = "acked"]
       ELSE UNCHANGED sessions
  /\ UNCHANGED <<invoiceVars, effectVars, shopper>>

Crash(h) ==
  /\ handler[h].at # "idle"
  /\ faults < MaxFaults
  /\ faults' = faults + 1
  /\ Stop(h)
  /\ UNCHANGED <<invoiceVars, effectVars, sessions, shopper>>

-----------------------------------------------------------------------------
(* Other writers of the invoice row *)

(* Mutant: payments are not looked at. *)
VoidUnchecked(i) ==
  /\ status[i] # "void"
  /\ status' = [status EXCEPT ![i] = "void"]
  /\ UNCHANGED <<amountPaid, rows, effectVars, sessions, handler, shopper, faults>>

Void(i) ==
  /\ Payable(i)
  /\ amountPaid[i] = 0
  /\ status' = [status EXCEPT ![i] = "void"]
  /\ UNCHANGED <<amountPaid, rows, effectVars, sessions, handler, shopper, faults>>

MarkOverdue(i) ==
  /\ status[i] = "issued"
  /\ status' = [status EXCEPT ![i] = "overdue"]
  /\ UNCHANGED <<amountPaid, rows, effectVars, sessions, handler, shopper, faults>>

-----------------------------------------------------------------------------
HandlerStep(h) ==
  \/ SyncCheck(h) \/ ReadInvoice(h)
  \/ RecordRepeat(h) \/ RecordRefuse(h) \/ RecordNew(h)
  \/ Notify(h) \/ Replay(h) \/ MarkSession(h) \/ Credit(h) \/ Answer(h)

ShopperStep(c) ==
  CheckoutLoad(c) \/ CheckoutFind(c) \/ CheckoutCreate(c) \/ CheckoutFail(c)

FaultStep(h) == CreditFails(h) \/ MarkFails(h) \/ Crash(h)

Next ==
  \/ \E c \in Shoppers : ShopperStep(c)
  \/ \E i \in Invoices : \E k \in 1..Len(sessions[i]) : Expire(i, k) \/ Pay(i, k)
  \/ \E h \in Handlers, i \in Invoices :
       \/ \E k \in 1..Len(sessions[i]) : Deliver(h, i, k) \/ Resend(h, i, k)
       \/ SyncLoad(h, i) \/ ManualRequest(h, i)
  \/ \E h \in Handlers : HandlerStep(h) \/ FaultStep(h)
  \/ \E i \in Invoices : Void(i) \/ MarkOverdue(i)

(* A request in progress goes on unless it crashes, and DOKU repeats a     *)
(* notification until it is answered, however often it was not.            *)
Fairness ==
  /\ \A h \in Handlers : WF_vars(HandlerStep(h))
  /\ \A i \in Invoices, k \in SessionIds :
       SF_vars(k <= Len(sessions[i]) /\ \E h \in Handlers : Deliver(h, i, k))

Safety == Init /\ [][Next]_vars
Spec == Safety /\ Fairness

-----------------------------------------------------------------------------
Statuses == {"issued", "overdue", "paid", "void"}
(* "failed" is open still, with a failed settle in the log. *)
ActivationStatuses == {"open", "failed", "settled"}
Positive == Nat \ {0}
Session == [amount : Positive, row : {"pending", "paid"},
            doku : {"open", "paid", "acked"}, expired : BOOLEAN]
HandlerLabels == {"read", "notify", "replay", "mark", "credit", "answer"}
IdleHandler == [at : {"idle"}]
SyncingHandler == [at : {"syncing"}, inv : Invoices]
CalledHandler ==
  [at : {"called"}, via : {"webhook", "sync"}, inv : Invoices, pay : SessionIds]
ActiveHandler ==
  [at : HandlerLabels, via : {"webhook", "sync", "manual"}, inv : Invoices,
   pay : References, co : References, amount : Positive]
IdleShopper == [at : {"idle"}]
BusyShopper == [at : {"loaded", "create"}, inv : Invoices, amount : Positive]
RefundEntry ==
  [inv : Invoices, pay : SessionIds, why : {"not_payable", "exceeds"}]

Active(h) == handler[h].at \in HandlerLabels
FromDoku(h) == Active(h) /\ handler[h].via # "manual"

PointsAtSessions(h) ==
  LET rowIds == 1..Len(sessions[handler[h].inv]) IN
    /\ handler[h].at = "called" => handler[h].pay \in rowIds
    /\ FromDoku(h) => handler[h].pay \in rowIds /\ handler[h].co \in rowIds
    /\ Active(h) /\ ~FromDoku(h) => handler[h].at \in {"read", "notify"}

(* Types, and the rows that handlers point at exist.                       *)
TypeOK ==
  /\ status \in [Invoices -> Statuses]
  /\ amountPaid \in [Invoices -> Nat]
  /\ rows \in [Invoices -> [References -> Nat]]
  /\ sessions \in [Invoices -> Seq(Session)]
  /\ \A i \in Invoices : Len(sessions[i]) <= MaxSessions
  /\ handler \in [Handlers -> IdleHandler \cup SyncingHandler
                              \cup CalledHandler \cup ActiveHandler]
  /\ \A h \in Handlers : PointsAtSessions(h)
  /\ shopper \in [Shoppers -> IdleShopper \cup BusyShopper]
  /\ notices \in [Invoices -> Nat]
  /\ activation \in [Invoices -> ActivationStatuses]
  /\ credited \in [Invoices -> [References -> Nat]]
  /\ refunds \subseteq RefundEntry
  /\ creditErrors \subseteq Invoices \X References
  /\ faults \in Nat

(* Record's row lock: whatever handlers run together, an invoice is never  *)
(* paid more than its total, is paid exactly when nothing remains of it,   *)
(* and is void only when nothing was paid.  (A zero total stays open: no   *)
(* payment can settle it.)                                                 *)
BalanceOK ==
  \A i \in Invoices :
    /\ amountPaid[i] <= Total[i]
    /\ status[i] = "paid" => amountPaid[i] = Total[i]
    /\ Payable(i) /\ Total[i] > 0 => amountPaid[i] < Total[i]
    /\ status[i] = "void" => amountPaid[i] = 0

(* A session asks for at least what remains of its invoice, for what       *)
(* remains never grows: so a DOKU payment that is recorded settles the     *)
(* invoice, and no invoice has two of them.                                *)
DokuPaymentSettles ==
  \A i \in Invoices :
    /\ \A r \in References : rows[i][r] > 0 => status[i] = "paid"
    /\ \A r, s \in References : rows[i][r] > 0 /\ rows[i][s] > 0 => r = s

(* reference-receivable.md:155, for an invoice that was void or paid: a    *)
(* payment logged for a manual refund has no payment row, then or later.   *)
RefundedIsNotRecorded ==
  \A f \in refunds :
    f.why = "not_payable" => rows[f.inv][ReferenceOf(f.inv, f.pay)] = 0

(* The ledger is credited with what was recorded, never with what DOKU     *)
(* took, and only for a payment that was recorded.                         *)
CreditIsRecordedAmount ==
  \A i \in Invoices, r \in References :
    credited[i][r] > 0 => credited[i][r] = rows[i][r]

(* DOKU stops notifying only when the payment has been dealt with: it is   *)
(* to be refunded, or it is recorded and, where it is owed to a customer   *)
(* organisation, credited or in the log as a credit that failed.           *)
AckedIsAccounted ==
  \A i \in Invoices : \A k \in 1..Len(sessions[i]) :
    LET r == ReferenceOf(i, k) IN
    sessions[i][k].doku = "acked" =>
      \/ \E f \in refunds : f.inv = i /\ f.pay = k
      \/ /\ rows[i][r] > 0
         /\ i \in Beneficiaries => credited[i][r] > 0 \/ <<i, r>> \in creditErrors

(* The listeners that cannot be replayed (workspace access, the deal's     *)
(* activity) hear of a paid invoice at most once, and never of another.    *)
NoticeAtMostOnce ==
  \A i \in Invoices : notices[i] <= 1 /\ (notices[i] = 1 => status[i] = "paid")

(* Paid and void are final, and no payment row is changed or removed.      *)
PaymentsAreFinal ==
  [][\A i \in Invoices :
       /\ status[i] \in {"paid", "void"} => status'[i] = status[i]
       /\ amountPaid[i] <= amountPaid'[i]
       /\ \A r \in References : rows[i][r] > 0 => rows'[i][r] = rows[i][r]]_vars

(* Whatever crashes, a payment DOKU took is in the end recorded or logged  *)
(* for a refund, because DOKU repeats what was not answered.               *)
PaymentIsDecided ==
  \A i \in Invoices, k \in SessionIds :
    (k <= Len(sessions[i]) /\ sessions[i][k].doku = "paid")
      ~> \/ rows[i][ReferenceOf(i, k)] > 0
         \/ \E f \in refunds : f.inv = i /\ f.pay = k

(* The runbook: a notification that staff can have sent again again and    *)
(* again is sent again.                                                    *)
StaffResend ==
  \A i \in Invoices, k \in SessionIds :
    SF_vars(k <= Len(sessions[i]) /\ \E h \in Handlers : Resend(h, i, k))


(* reference-receivable.md:155: a payment that is logged for a refund,     *)
(* because it exceeds what remains too, has no payment row.                *)
RefundHasNoPayment ==
  \A f \in refunds : rows[f.inv][ReferenceOf(f.inv, f.pay)] = 0
=============================================================================
