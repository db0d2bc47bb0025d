---------------------- MODULE PaymentCompositionProofs ----------------------
(***************************************************************************)
(* Online payment keeps what PaymentCustody promises and uses the          *)
(* settlement ledger as its recorders do, for any number of invoices,      *)
(* sessions, requests and faults.                                          *)
(***************************************************************************)
EXTENDS PaymentComposition, OnlinePaymentProofs, FiniteSums, TLAPS

(* Two hypotheses, without which the promise is broken: no two sessions of *)
(* an invoice share a reference, as those whose notifications carry none   *)
(* do on one day, ...                                                      *)
DistinctReferences ==
  \A i \in Invoices, j, k \in SessionIds : ReferenceOf(i, j) = ReferenceOf(i, k) => j = k

(* ... and staff record no part payment, which would leave an invoice open *)
(* that refuses the payment DOKU took.                                     *)
ManualSettles == \A i \in Invoices, a \in ManualAmounts : a >= Total[i]

-----------------------------------------------------------------------------
(* What the mapping rests on *)

(* DOKU took the payment of session k. *)
Taken(i, k) == k \in 1..Len(sessions[i]) /\ sessions[i][k].doku # "open"

Closed(i) == status[i] \in {"paid", "void"}

(* Only what remains to be paid is asked for. *)
AskedIsOwed ==
  /\ \A i \in Invoices : sessions[i] # <<>> => Total[i] > 0
  /\ \A c \in Shoppers : shopper[c].at # "idle" => Total[shopper[c].inv] > 0

(* A notification is of a payment DOKU took, and is about to be recorded   *)
(* with an amount that fits while the invoice is open.                     *)
CarriesTaken(h) ==
  /\ handler[h].at = "called" \/ FromDoku(h) => Taken(handler[h].inv, handler[h].pay)
  /\ handler[h].at = "read" /\ handler[h].via # "manual" /\ Payable(handler[h].inv) =>
       handler[h].amount <= RemainingOf(handler[h].inv)
  /\ handler[h].at = "read" /\ handler[h].via = "manual" =>
       handler[h].amount \in ManualAmounts

(* Recorded and refunded payments were taken, and a refund is of an        *)
(* invoice that is closed for good.                                        *)
DecidedIsTaken ==
  /\ \A i \in Invoices, k \in SessionIds : Recorded(i, k) => Taken(i, k)
  /\ \A f \in refunds : Taken(f.inv, f.pay) /\ Closed(f.inv)

CustodyInv ==
  /\ AskedIsOwed
  /\ \A h \in Handlers : CarriesTaken(h)
  /\ DecidedIsTaken

(* A reference is one of the model, and a taken payment's session too.     *)
LEMMA TakenTyped ==
  ASSUME TypeOK, NEW i \in Invoices, NEW k, Taken(i, k)
  PROVE  k \in SessionIds /\ k \in References
<1>1. Len(sessions[i]) \in Nat /\ Len(sessions[i]) <= MaxSessions
  BY DEF TypeOK
<1> QED BY <1>1, BoundsAssumption DEF Taken, SessionIds, References

(* The rewriting of one field of a session changes no other session.       *)
LEMMA OthersKeepState ==
  ASSUME TypeOK, NEW j \in Invoices, NEW m \in 1..Len(sessions[j]),
         \/ sessions' = [sessions EXCEPT ![j][m].expired = TRUE]
         \/ sessions' = [sessions EXCEPT ![j][m].doku = "paid"]
         \/ sessions' = [sessions EXCEPT ![j][m].doku = "acked"]
         \/ sessions' = [sessions EXCEPT ![j][m].row = "paid"],
         NEW i \in Invoices, NEW k
  PROVE  /\ Len(sessions'[i]) = Len(sessions[i])
         /\ ~(i = j /\ k = m) /\ k \in 1..Len(sessions[i]) =>
              sessions'[i][k] = sessions[i][k]
<1>1. Len(sessions'[i]) = Len(sessions[i])
  BY OneSession
<1>2. sessions \in [Invoices -> Seq(Session)] /\ sessions[i] \in Seq(Session)
  BY DEF TypeOK
<1> QED BY <1>1, <1>2

(* A payment is taken by Pay only, and never given back.                   *)
LEMMA TakenByPay ==
  ASSUME TypeOK, CustodyInv, [Next]_vars, NEW i \in Invoices, NEW k
  PROVE  /\ Taken(i, k) => Taken(i, k)'
         /\ Taken(i, k)' => Taken(i, k) \/ (k \in 1..Len(sessions[i]) /\ Pay(i, k))
<1> DEFINE Same == Taken(i, k)' <=> Taken(i, k)
<1>t. sessions \in [Invoices -> Seq(Session)] /\ sessions[i] \in Seq(Session)
  BY DEF TypeOK
<1>1. CASE UNCHANGED sessions
  BY <1>1 DEF Taken
<1>2. ASSUME NEW c \in Shoppers, CheckoutCreate(c) PROVE Same
  <2> DEFINE j == shopper[c].inv
             e == [amount |-> shopper[c].amount, row |-> "pending",
                   doku |-> "open", expired |-> FALSE]
  <2>1. sessions' = [sessions EXCEPT ![j] = Append(@, e)]
    BY <1>2 DEF CheckoutCreate
  <2>2. CASE i # j
    BY <2>1, <2>2, <1>t DEF Taken
  <2>3. CASE i = j
    <3>1. sessions'[i] = Append(sessions[i], e) /\ e.doku = "open"
      BY <2>1, <2>3, <1>t
    <3> HIDE DEF e
    <3>2. /\ Len(sessions'[i]) = Len(sessions[i]) + 1 /\ Len(sessions[i]) \in Nat
          /\ \A n \in 1..Len(sessions[i]) : sessions'[i][n] = sessions[i][n]
          /\ sessions'[i][Len(sessions[i]) + 1] = e
      BY <3>1, <1>t
    <3>3. CASE k \in 1..Len(sessions[i])
      BY <3>2, <3>3 DEF Taken
    <3>4. CASE k \notin 1..Len(sessions[i])
      BY <3>1, <3>2, <3>4 DEF Taken
    <3> QED BY <3>3, <3>4
  <2> QED BY <2>2, <2>3
<1>3. ASSUME NEW j \in Invoices, NEW m \in 1..Len(sessions[j]),
             \/ sessions' = [sessions EXCEPT ![j][m].expired = TRUE]
             \/ sessions' = [sessions EXCEPT ![j][m].row = "paid"]
             \/ sessions' = [sessions EXCEPT ![j][m].doku = "acked"] /\ Taken(j, m)
      PROVE  Same
  <2>1. /\ Len(sessions'[i]) = Len(sessions[i])
        /\ ~(i = j /\ k = m) /\ k \in 1..Len(sessions[i]) => sessions'[i][k] = sessions[i][k]
    BY <1>3, OthersKeepState
  <2>2. CASE ~(i = j /\ k = m)
    BY <2>1, <2>2 DEF Taken
  <2>3. CASE i = j /\ k = m
    <3>1. sessions[i][k] \in Session
      BY <2>3, <1>t
    <3>2. \/ sessions'[i][k].doku = sessions[i][k].doku
          \/ sessions'[i][k].doku = "acked" /\ Taken(i, k)
      BY <1>3, <2>3, <3>1, <1>t DEF Session
    <3> QED BY <2>1, <3>2 DEF Taken
  <2> QED BY <2>2, <2>3
<1>4. ASSUME NEW j \in Invoices, NEW m \in 1..Len(sessions[j]), Pay(j, m)
      PROVE  Same \/ (Taken(i, k)' /\ i = j /\ k = m)
  <2>1. /\ Len(sessions'[i]) = Len(sessions[i])
        /\ ~(i = j /\ k = m) /\ k \in 1..Len(sessions[i]) => sessions'[i][k] = sessions[i][k]
    BY <1>4, OthersKeepState DEF Pay
  <2>2. CASE ~(i = j /\ k = m)
    BY <2>1, <2>2 DEF Taken
  <2>3. CASE i = j /\ k = m
    <3>1. sessions'[i][k].doku = "paid"
      BY <1>4, <2>3, <1>t DEF Pay
    <3> QED BY <2>1, <2>3, <3>1, <1>4 DEF Taken
  <2> QED BY <2>2, <2>3
<1>5. ASSUME NEW h \in Handlers, MarkSession(h) \/ Answer(h), sessions' # sessions PROVE Same
  <2>1. FromDoku(h)
    BY <1>5 DEF MarkSession, Answer, Active, HandlerLabels, TypeOK, PointsAtSessions, FromDoku
  <2>2. /\ handler[h].inv \in Invoices
        /\ handler[h].co \in 1..Len(sessions[handler[h].inv])
        /\ handler[h].pay \in 1..Len(sessions[handler[h].inv])
    BY <2>1, ActiveFields DEF FromDoku
  <2>3. Taken(handler[h].inv, handler[h].pay)
    BY <2>1 DEF CustodyInv, CarriesTaken
  <2> QED BY <1>3, <1>5, <2>2, <2>3 DEF MarkSession, Answer
<1>6. \/ UNCHANGED sessions
      \/ \E c \in Shoppers : CheckoutCreate(c)
      \/ \E j \in Invoices : \E m \in 1..Len(sessions[j]) : Expire(j, m) \/ Pay(j, m)
      \/ \E h \in Handlers : MarkSession(h) \/ Answer(h)
  BY DEF vars, effectVars, Next, ShopperStep, CheckoutLoad, CheckoutFind,
         CheckoutFail, Deliver, Resend, SyncLoad,
         ManualRequest, Begin, HandlerStep, SyncCheck, ReadInvoice, RecordRepeat,
         RecordRefuse, RecordNew, Notify, Replay, Settle, Credit, FaultStep,
         CreditFails, MarkFails, Crash, Void, MarkOverdue
<1> QED BY <1>1, <1>2, <1>3, <1>4, <1>5, <1>6 DEF Expire

(* Every payment that is recorded settles its invoice: DOKU's because it   *)
(* carries what remains, and staff's because it is no part payment.        *)
LEMMA RecordSettles ==
  ASSUME TypeOK, MoneyInv, CustodyInv, ManualSettles, NEW h \in Handlers, RecordNew(h)
  PROVE  /\ handler[h].inv \in Invoices
         /\ Payable(handler[h].inv)
         /\ status' = [status EXCEPT ![handler[h].inv] = "paid"]
         /\ handler[h].via # "manual" =>
              rows' = [rows EXCEPT
                ![handler[h].inv][ReferenceOf(handler[h].inv, handler[h].pay)] =
                  handler[h].amount]
         /\ handler[h].via = "manual" => rows' = rows
<1>p. PICK i, a : i = handler[h].inv /\ a = handler[h].amount
  OBVIOUS
<1>1. Active(h)
  BY DEF RecordNew, Active, HandlerLabels
<1>2. i \in Invoices /\ a \in Nat \ {0}
  BY <1>p, <1>1, ActiveFields DEF Positive
<1>3. amountPaid[i] \in Nat /\ Total[i] \in Nat
  BY <1>2, TotalAssumption DEF TypeOK
<1>4. Payable(i) /\ a <= Total[i] - amountPaid[i]
  BY <1>p DEF RecordNew, Fits, RemainingOf
<1>5. amountPaid[i] + a = Total[i]
  <2>1. CASE handler[h].via # "manual"
    <3>1. a >= Total[i] - amountPaid[i]
      BY <1>p, <2>1 DEF RecordNew, MoneyInv, HandlersCarryEnough, CarriesEnough, RemainingOf
    <3> QED BY <3>1, <1>2, <1>3, <1>4
  <2>2. CASE handler[h].via = "manual"
    <3>1. a \in ManualAmounts
      BY <1>p, <2>2 DEF RecordNew, CustodyInv, CarriesTaken
    <3> QED BY <3>1, <1>2, <1>3, <1>4 DEF ManualSettles
  <2> QED BY <2>1, <2>2
<1> QED BY <1>p, <1>2, <1>4, <1>5 DEF RecordNew

(* So what remains of an open invoice does not change while it is open.    *)
LEMMA OpenKeepsOwing ==
  ASSUME TypeOK, MoneyInv, CustodyInv, ManualSettles, [Next]_vars,
         NEW i \in Invoices, Payable(i)'
  PROVE  Payable(i) /\ RemainingOf(i)' = RemainingOf(i)
<1>1. ASSUME NEW h \in Handlers, RecordNew(h)
      PROVE  Payable(i) /\ RemainingOf(i)' = RemainingOf(i)
  <2>1. /\ handler[h].inv \in Invoices
        /\ status' = [status EXCEPT ![handler[h].inv] = "paid"]
    BY <1>1, RecordSettles
  <2>2. i # handler[h].inv /\ status'[i] = status[i]
    BY <2>1 DEF Payable, TypeOK
  <2>3. amountPaid'[i] = amountPaid[i]
    BY <1>1, <2>1, <2>2 DEF RecordNew, TypeOK
  <2> QED BY <2>2, <2>3 DEF Payable, RemainingOf
<1>2. ASSUME NEW j \in Invoices, Void(j) \/ MarkOverdue(j)
      PROVE  Payable(i) /\ RemainingOf(i)' = RemainingOf(i)
  BY <1>2 DEF Void, MarkOverdue, Payable, RemainingOf, TypeOK
<1>3. CASE UNCHANGED invoiceVars
  BY <1>3 DEF invoiceVars, Payable, RemainingOf
<1> QED BY <1>1, <1>2, <1>3, InvoiceWriters

-----------------------------------------------------------------------------
(* The invariant *)

(* Nothing is asked for at the start. *)
LEMMA InitCustody == Init => CustodyInv
<1> SUFFICES ASSUME Init PROVE CustodyInv
  OBVIOUS
<1>1. AskedIsOwed
  BY DEF Init, AskedIsOwed
<1>2. \A h \in Handlers : CarriesTaken(h)
  BY DEF Init, CarriesTaken, FromDoku, Active, HandlerLabels
<1>3. ASSUME NEW i \in Invoices, NEW k \in SessionIds PROVE ~Recorded(i, k)
  <2>1. ReferenceOf(i, k) \in References
    BY ReferenceTyped, BoundsAssumption DEF References, SessionIds
  <2> QED BY <2>1 DEF Init, Recorded
<1> QED BY <1>1, <1>2, <1>3 DEF Init, CustodyInv, DecidedIsTaken

(* A request for a session starts from what remains, and so do sessions.   *)
LEMMA AskingStep ==
  ASSUME TypeOK, CustodyInv, [Next]_vars
  PROVE  AskedIsOwed'
<1>t. /\ sessions \in [Invoices -> Seq(Session)]
      /\ shopper \in [Shoppers -> IdleShopper \cup BusyShopper]
  BY DEF TypeOK
<1>o. AskedIsOwed
  BY DEF CustodyInv
<1>s. ASSUME NEW c \in Shoppers, CheckoutCreate(c), NEW i \in Invoices, sessions'[i] # <<>>
      PROVE  Total[i] > 0
  <2> DEFINE j == shopper[c].inv
             e == [amount |-> shopper[c].amount, row |-> "pending",
                   doku |-> "open", expired |-> FALSE]
  <2>1. sessions' = [sessions EXCEPT ![j] = Append(@, e)]
    BY <1>s DEF CheckoutCreate
  <2>2. CASE i = j
    BY <1>s, <1>o, <2>2 DEF CheckoutCreate, AskedIsOwed
  <2>3. CASE i # j
    BY <1>s, <1>t, <1>o, <2>1, <2>3 DEF AskedIsOwed
  <2> QED BY <2>2, <2>3
<1>1. ASSUME NEW i \in Invoices, sessions'[i] # <<>> PROVE Total[i] > 0
  <2>1. CASE UNCHANGED sessions
    BY <1>1, <1>o, <2>1 DEF AskedIsOwed
  <2>2. ASSUME NEW j \in Invoices, NEW m \in 1..Len(sessions[j]), Expire(j, m) \/ Pay(j, m)
        PROVE  Total[i] > 0
    <3>1. Len(sessions'[i]) = Len(sessions[i])
      BY <2>2, OneSession DEF Expire, Pay
    <3>2. sessions[i] # <<>>
      <4>1. sessions'[i] \in Seq(Session) /\ sessions[i] \in Seq(Session)
        BY <1>t, <2>2, OneSession DEF SessionsTyped, Expire, Pay
      <4> QED BY <1>1, <3>1, <4>1
    <3> QED BY <1>o, <3>2 DEF AskedIsOwed
  <2>3. ASSUME NEW h \in Handlers, MarkSession(h) \/ Answer(h), sessions' # sessions
        PROVE  Total[i] > 0
    <3>1. FromDoku(h)
      BY <2>3 DEF MarkSession, Answer, Active, HandlerLabels, TypeOK, PointsAtSessions,
                  FromDoku
    <3>2. /\ handler[h].inv \in Invoices
          /\ handler[h].co \in 1..Len(sessions[handler[h].inv])
          /\ handler[h].pay \in 1..Len(sessions[handler[h].inv])
      BY <3>1, ActiveFields DEF FromDoku
    <3>3. SessionsTyped' /\ Len(sessions'[i]) = Len(sessions[i])
      BY <2>3, <3>2, OneSession DEF MarkSession, Answer
    <3>4. sessions[i] # <<>>
      <4>1. sessions'[i] \in Seq(Session) /\ sessions[i] \in Seq(Session)
        BY <1>t, <3>3 DEF SessionsTyped
      <4> QED BY <1>1, <3>3, <4>1
    <3> QED BY <1>o, <3>4 DEF AskedIsOwed
  <2>4. \/ UNCHANGED sessions
        \/ \E c \in Shoppers : CheckoutCreate(c)
        \/ \E j \in Invoices : \E m \in 1..Len(sessions[j]) : Expire(j, m) \/ Pay(j, m)
        \/ \E h \in Handlers : MarkSession(h) \/ Answer(h)
    BY DEF vars, effectVars, Next, ShopperStep, CheckoutLoad, CheckoutFind,
           CheckoutFail, Deliver, Resend, SyncLoad,
           ManualRequest, Begin, HandlerStep, SyncCheck, ReadInvoice, RecordRepeat,
           RecordRefuse, RecordNew, Notify, Replay, Settle, Credit, FaultStep,
           CreditFails, MarkFails, Crash, Void, MarkOverdue
  <2> QED BY <1>1, <1>s, <2>1, <2>2, <2>3, <2>4
<1>2. ASSUME NEW d \in Shoppers, shopper'[d].at # "idle" PROVE Total[shopper'[d].inv] > 0
  <2>1. CASE shopper'[d] = shopper[d]
    BY <1>2, <1>o, <2>1 DEF AskedIsOwed
  <2>2. ASSUME NEW c \in Shoppers, CheckoutLoad(c), shopper'[d] # shopper[d]
        PROVE  Total[shopper'[d].inv] > 0
    <3>1. PICK i \in Invoices :
            /\ RemainingOf(i) > 0
            /\ shopper' = [shopper EXCEPT ![c] =
                 [at |-> "loaded", inv |-> i, amount |-> CeilRupiah(RemainingOf(i))]]
      BY <2>2 DEF CheckoutLoad
    <3>2. Total[i] > 0
      BY <3>1, TotalAssumption DEF RemainingOf, TypeOK
    <3> QED BY <2>2, <3>1, <3>2, <1>t
  <2>3. ASSUME NEW c \in Shoppers, CheckoutFind(c), shopper'[d] # shopper[d]
        PROVE  Total[shopper'[d].inv] > 0
    <3>1. d = c /\ shopper[c] \in BusyShopper /\ shopper[c].at # "idle"
      BY <2>3, <1>t DEF CheckoutFind, IdleShopper
    <3>2. shopper'[c].inv = shopper[c].inv
      BY <1>2, <2>3, <3>1, <1>t DEF CheckoutFind, BusyShopper
    <3> QED BY <3>1, <3>2, <1>o DEF AskedIsOwed
  <2>4. ASSUME NEW c \in Shoppers, CheckoutCreate(c) \/ CheckoutFail(c)
        PROVE  shopper'[d] = shopper[d]
    BY <1>2, <2>4, <1>t DEF CheckoutCreate, CheckoutFail
  <2>5. (\E c \in Shoppers : ShopperStep(c)) \/ UNCHANGED shopper
    BY DEF vars, Next, Expire, Pay, Deliver, Resend, SyncLoad, ManualRequest, Begin,
           HandlerStep, SyncCheck, ReadInvoice, RecordRepeat, RecordRefuse, RecordNew,
           Notify, Replay, Settle, MarkSession, Credit, Answer, FaultStep, CreditFails,
           MarkFails, Crash, Void, MarkOverdue
  <2> QED BY <2>1, <2>2, <2>3, <2>4, <2>5 DEF ShopperStep
<1> QED BY <1>1, <1>2 DEF AskedIsOwed

(* A handler that moves keeps its payment: the one case is the amount,     *)
(* which is fixed when the invoice is read.                                *)
LEMMA CarryingStep ==
  ASSUME TypeOK, MoneyInv, CustodyInv, ManualSettles, [Next]_vars, NEW h \in Handlers
  PROVE  CarriesTaken(h)'
<1>t. HandlerTyped
  BY DEF TypeOK, HandlerTyped
<1>p. PICK i, k : i = handler[h].inv /\ k = handler[h].pay
  OBVIOUS
<1>c. CarriesTaken(h)
  BY DEF CustodyInv
<1>k. ASSUME handler[h].at = "called" \/ Active(h)
      PROVE  i \in Invoices
  BY <1>k, <1>p, <1>t, HandlerKinds, ActiveFields DEF CalledHandler
<1>1. CASE handler'[h] = handler[h]
  <2>1. ASSUME handler[h].at = "called" \/ FromDoku(h) PROVE Taken(i, k)'
    BY <2>1, <1>p, <1>c, <1>k, TakenByPay DEF CarriesTaken, FromDoku
  <2>2. ASSUME handler[h].at = "read", handler[h].via # "manual", Payable(i)'
        PROVE  handler[h].amount <= RemainingOf(i)'
    <3>1. i \in Invoices
      BY <2>2, <1>k DEF Active, HandlerLabels
    <3> QED BY <2>2, <3>1, <1>p, <1>c, OpenKeepsOwing DEF CarriesTaken
  <2>3. handler'[h].inv = i /\ handler'[h].pay = k
    BY <1>1, <1>p
  <2>4. (handler[h].at = "called" \/ FromDoku(h)) <=>
          (handler'[h].at = "called" \/ FromDoku(h)')
    BY <1>1 DEF FromDoku, Active
  <2>5. Taken(handler[h].inv, handler[h].pay)' <=> Taken(i, k)'
    BY <2>3 DEF Taken
  <2>6. Payable(handler[h].inv)' <=> Payable(i)'
    BY <2>3 DEF Payable
  <2>7. RemainingOf(handler[h].inv)' = RemainingOf(i)'
    BY <2>3 DEF RemainingOf
  <2> QED BY <1>1, <1>c, <2>1, <2>2, <2>4, <2>5, <2>6, <2>7 DEF CarriesTaken
<1>2. ASSUME NEW j \in Invoices, NEW m \in 1..Len(sessions[j]),
             handler'[h] = [at |-> "called", via |-> "webhook", inv |-> j, pay |-> m]
               \/ handler'[h] = [at |-> "called", via |-> "sync", inv |-> j, pay |-> m],
             sessions[j][m].doku # "open"
      PROVE  CarriesTaken(h)'
  <2>1. Taken(j, m)'
    BY <1>2, TakenByPay DEF Taken
  <2>2. /\ handler'[h].at = "called" /\ handler'[h].inv = j /\ handler'[h].pay = m
    BY <1>2
  <2>3. Taken(handler[h].inv, handler[h].pay)'
    BY <2>1, <2>2 DEF Taken
  <2> QED BY <2>2, <2>3 DEF CarriesTaken
<1>3. ASSUME handler'[h].at \in {"idle", "syncing"} PROVE CarriesTaken(h)'
  BY <1>3 DEF CarriesTaken, FromDoku, Active, HandlerLabels
<1>4. ASSUME NEW a \in ManualAmounts, NEW j,
             handler'[h] = [at |-> "read", via |-> "manual", inv |-> j, pay |-> 0,
                            co |-> 0, amount |-> a]
      PROVE  CarriesTaken(h)'
  <2>1. handler'[h].at = "read" /\ handler'[h].via = "manual" /\ handler'[h].amount = a
    BY <1>4
  <2> QED BY <2>1 DEF CarriesTaken, FromDoku, Active
<1>5. ASSUME ReadInvoice(h) PROVE CarriesTaken(h)'
  <2> DEFINE a == Capped(i, sessions[i][k].amount)
  <2>1. /\ handler[h].at = "called"
        /\ handler'[h] = [at |-> "read", via |-> handler[h].via, inv |-> i, pay |-> k,
                          co |-> Len(sessions[i]), amount |-> a]
        /\ UNCHANGED <<invoiceVars, sessions>>
    BY <1>5, <1>p, <1>t DEF ReadInvoice, Begin, HandlerTyped
  <2>2. handler[h].via # "manual" /\ i \in Invoices
    BY <2>1, <1>p, <1>t, HandlerKinds DEF CalledHandler
  <2>3. Taken(i, k)
    BY <2>1, <1>p, <1>c DEF CarriesTaken
  <2>4. Payable(i) => a <= RemainingOf(i)
    <3>1. sessions[i] # <<>> /\ sessions[i][k] \in Session
      BY <2>2, <2>3 DEF Taken, TypeOK
    <3>2. Total[i] > 0
      BY <3>1, <2>2 DEF CustodyInv, AskedIsOwed
    <3>3. amountPaid[i] \in Nat /\ Total[i] \in Nat
      BY <2>2, TotalAssumption DEF TypeOK
    <3>4. Payable(i) => RemainingOf(i) > 0
      BY <2>2, <3>2, <3>3 DEF MoneyInv, BalanceOK, RemainingOf
    <3> QED BY <3>1, <3>3, <3>4 DEF Capped, RemainingOf, Session, Positive
  <2> HIDE DEF a
  <2>5. /\ handler'[h].at = "read" /\ handler'[h].via # "manual"
        /\ handler'[h].inv = i /\ handler'[h].pay = k /\ handler'[h].amount = a
    BY <2>1, <2>2
  <2>6. Taken(handler[h].inv, handler[h].pay)'
    BY <2>1, <2>3, <2>5 DEF Taken
  <2>7. Payable(handler[h].inv)' => a <= RemainingOf(handler[h].inv)'
    BY <2>1, <2>4, <2>5 DEF Payable, RemainingOf, invoiceVars
  <2> QED BY <2>5, <2>6, <2>7 DEF CarriesTaken
<1>6. ASSUME Active(h), NEW label \in HandlerLabels \ {"read"}, Goto(h, label)
      PROVE  CarriesTaken(h)'
  <2>1. /\ handler'[h].at = label /\ handler'[h].via = handler[h].via
        /\ handler'[h].inv = i /\ handler'[h].pay = k
    BY <1>6, <1>p, <1>t, GotoTyped
  <2>2. FromDoku(h)' => FromDoku(h)
    BY <1>6, <2>1 DEF FromDoku
  <2>3. FromDoku(h) => Taken(i, k)'
    BY <1>6, <1>p, <1>c, <1>k, TakenByPay DEF CarriesTaken
  <2>4. Taken(handler[h].inv, handler[h].pay)' <=> Taken(i, k)'
    BY <2>1 DEF Taken
  <2> QED BY <1>6, <2>1, <2>2, <2>3, <2>4 DEF CarriesTaken, HandlerLabels
<1>7. ASSUME Stop(h) PROVE CarriesTaken(h)'
  BY <1>3, <1>7, <1>t DEF Stop, HandlerTyped
<1>8. ASSUME SyncCheck(h) PROVE CarriesTaken(h)'
  <2>1. handler[h] \in SyncingHandler /\ i \in Invoices
    BY <1>8, <1>p, <1>t, HandlerKinds DEF SyncCheck, SyncingHandler
  <2>2. ASSUME Begin(h, [at |-> "idle"]) PROVE CarriesTaken(h)'
    BY <2>2, <1>3, <1>t DEF Begin, HandlerTyped
  <2>3. ASSUME NEW m \in 1..Len(sessions[i]), sessions[i][m].doku \in {"paid", "acked"},
               Begin(h, [at |-> "called", via |-> "sync", inv |-> i, pay |-> m])
        PROVE  CarriesTaken(h)'
    <3>1. handler'[h] = [at |-> "called", via |-> "sync", inv |-> i, pay |-> m]
      BY <2>3, <1>t DEF Begin, HandlerTyped
    <3> QED BY <2>1, <2>3, <3>1, <1>2
  <2> QED BY <1>8, <1>p, <2>2, <2>3 DEF SyncCheck
<1>9. ASSUME \/ RecordRepeat(h) \/ RecordRefuse(h) \/ RecordNew(h)
             \/ Notify(h) \/ Replay(h) \/ MarkSession(h) \/ Credit(h) \/ Answer(h)
             \/ FaultStep(h)
      PROVE  CarriesTaken(h)'
  <2>1. \/ Stop(h)
        \/ Active(h) /\ \E label \in HandlerLabels \ {"read"} : Goto(h, label)
    BY <1>9 DEF RecordRepeat, AfterRepeat, RecordRefuse, RecordNew, Notify, Replay, Settle,
                AfterListeners, MarkSession, Credit, Answer, FaultStep, CreditFails,
                MarkFails, Crash, Active, HandlerLabels
  <2> QED BY <2>1, <1>6, <1>7
<1>10. ASSUME NEW j \in Invoices,
              \/ \E m \in 1..Len(sessions[j]) : Deliver(h, j, m) \/ Resend(h, j, m)
              \/ SyncLoad(h, j) \/ ManualRequest(h, j)
       PROVE  CarriesTaken(h)'
  <2>1. ASSUME NEW m \in 1..Len(sessions[j]), Deliver(h, j, m) \/ Resend(h, j, m)
        PROVE  CarriesTaken(h)'
    <3>1. /\ handler'[h] = [at |-> "called", via |-> "webhook", inv |-> j, pay |-> m]
          /\ sessions[j][m].doku \in {"paid", "acked"}
      BY <2>1, <1>t DEF Deliver, Resend, Begin, HandlerTyped
    <3> QED BY <3>1, <1>2
  <2>2. ASSUME SyncLoad(h, j) PROVE CarriesTaken(h)'
    <3>1. handler'[h].at = "syncing"
      BY <2>2, <1>t DEF SyncLoad, Begin, HandlerTyped
    <3> QED BY <3>1, <1>3
  <2>3. ASSUME ManualRequest(h, j) PROVE CarriesTaken(h)'
    <3>1. PICK a \in ManualAmounts :
            handler'[h] = [at |-> "read", via |-> "manual", inv |-> j, pay |-> 0,
                           co |-> 0, amount |-> a]
      BY <2>3, <1>t DEF ManualRequest, Begin, HandlerTyped
    <3> QED BY <3>1, <1>4
  <2> QED BY <1>10, <2>1, <2>2, <2>3
<1>11. CASE handler'[h] # handler[h]
  <2>1. \/ ReadInvoice(h) \/ Settles(h)
        \/ \E j \in Invoices :
             \/ \E m \in 1..Len(sessions[j]) : Deliver(h, j, m) \/ Resend(h, j, m)
             \/ SyncLoad(h, j) \/ ManualRequest(h, j)
    <3>1. ASSUME NEW g \in Handlers, g # h,
                 \/ ReadInvoice(g)
                 \/ \E j \in Invoices :
                      \/ \E m \in 1..Len(sessions[j]) : Deliver(g, j, m) \/ Resend(g, j, m)
                      \/ SyncLoad(g, j) \/ ManualRequest(g, j)
          PROVE  handler'[h] = handler[h]
      BY <3>1, BeginnersAreSilent
    <3>2. ASSUME NEW g \in Handlers, g # h, Settles(g) PROVE handler'[h] = handler[h]
      BY <3>2, HandlerStops
    <3>3. \/ \E c \in Shoppers : ShopperStep(c)
          \/ \E j \in Invoices : \E m \in 1..Len(sessions[j]) : Expire(j, m) \/ Pay(j, m)
          \/ \E j \in Invoices : Void(j) \/ MarkOverdue(j)
          \/ UNCHANGED vars
          => UNCHANGED handler
      BY DEF ShopperStep, CheckoutLoad, CheckoutFind, CheckoutCreate, CheckoutFail,
             Expire, Pay, Void, MarkOverdue, vars
    <3> QED BY <1>11, <3>1, <3>2, <3>3, HandlersMoveAlone
  <2> QED BY <2>1, <1>5, <1>8, <1>9, <1>10 DEF Settles
<1> QED BY <1>1, <1>11

(* What is recorded or refunded was taken, and a refund is of a closed     *)
(* invoice: an open one takes the payment.                                 *)
LEMMA DecidingStep ==
  ASSUME TypeOK, MoneyInv, CustodyInv, DistinctReferences, ManualSettles, [Next]_vars
  PROVE  DecidedIsTaken'
<1>d. DecidedIsTaken /\ FinalStep
  BY StepIsFinal DEF CustodyInv
<1>1. ASSUME NEW i \in Invoices, NEW k \in SessionIds, Recorded(i, k)' PROVE Taken(i, k)'
  <2>1. CASE Recorded(i, k)
    BY <1>d, <2>1, TakenByPay DEF DecidedIsTaken
  <2>2. CASE ~Recorded(i, k)
    <3>1. PICK h \in Handlers : RecordNew(h)
      BY <1>1, <2>2, InvoiceWriters DEF Recorded, Void, MarkOverdue, invoiceVars
    <3>2. PICK j, m : j = handler[h].inv /\ m = handler[h].pay
      OBVIOUS
    <3>3. /\ handler[h].via # "manual"
          /\ rows' = [rows EXCEPT ![j][ReferenceOf(j, m)] = handler[h].amount]
      BY <1>1, <2>2, <3>1, <3>2, RecordSettles DEF Recorded
    <3>4. j \in Invoices /\ m \in SessionIds /\ Taken(j, m)'
      <4>1. handler[h].inv \in Invoices /\ handler[h].pay \in SessionIds
            /\ Taken(handler[h].inv, handler[h].pay)
        BY <3>1, <3>3, ActiveFields
           DEF RecordNew, FromDoku, Active, HandlerLabels, CustodyInv, CarriesTaken
      <4> QED BY <3>2, <4>1, TakenByPay
    <3>5. ReferenceOf(i, k) \in References /\ ReferenceOf(j, m) \in References
      BY <3>4, ReferenceTyped, BoundsAssumption DEF References, SessionIds
    <3>6. i = j /\ ReferenceOf(i, k) = ReferenceOf(j, m)
      <4> DEFINE r == ReferenceOf(i, k)
                 s == ReferenceOf(j, m)
      <4>1. rows \in [Invoices -> [References -> Nat]] /\ r \in References /\ s \in References
        BY <3>5 DEF TypeOK
      <4>2. rows' = [rows EXCEPT ![j][s] = handler[h].amount] /\ rows'[i][r] # rows[i][r]
        BY <1>1, <2>2, <3>3 DEF Recorded, ReferenceOf
      <4> HIDE DEF r, s
      <4>3. i = j /\ r = s
        BY <4>1, <4>2
      <4> QED BY <4>3 DEF r, s
    <3>7. k = m
      BY <3>4, <3>6 DEF DistinctReferences
    <3> QED BY <3>4, <3>6, <3>7
  <2> QED BY <2>1, <2>2
<1>2. ASSUME NEW f \in refunds' PROVE Taken(f.inv, f.pay)' /\ Closed(f.inv)'
  <2>1. CASE f \in refunds
    <3>1. f.inv \in Invoices /\ Taken(f.inv, f.pay) /\ Closed(f.inv)
      BY <1>d, <2>1 DEF DecidedIsTaken, TypeOK, RefundEntry
    <3> QED BY <1>d, <3>1, TakenByPay DEF FinalStep, Closed
  <2>2. CASE f \notin refunds
    <3>1. PICK h \in Handlers : RecordRefuse(h)
      BY <2>2 DEF vars, invoiceVars, effectVars, Next, ShopperStep, CheckoutLoad,
         CheckoutFind, CheckoutCreate, CheckoutFail, Expire, Pay, Deliver, Resend, SyncLoad,
         ManualRequest, Begin, HandlerStep, SyncCheck, ReadInvoice, RecordRepeat,
         RecordNew, Notify, Replay, Settle, MarkSession, Credit, Answer, FaultStep,
         CreditFails, MarkFails, Crash, Void, MarkOverdue
    <3>2. PICK i, k : i = handler[h].inv /\ k = handler[h].pay
      OBVIOUS
    <3>3. handler[h].via # "manual" /\ f.inv = i /\ f.pay = k
      BY <2>2, <3>1, <3>2 DEF RecordRefuse
    <3>4. FromDoku(h)
      BY <3>1, <3>3 DEF RecordRefuse, FromDoku, Active, HandlerLabels
    <3>5. i \in Invoices /\ Taken(i, k)
      BY <3>2, <3>4, ActiveFields DEF FromDoku, CustodyInv, CarriesTaken
    <3>6. ~Payable(i)
      BY <3>1, <3>2, <3>3 DEF RecordRefuse, Fits, CustodyInv, CarriesTaken
    <3>7. Closed(i)'
      BY <3>5, <3>6, <1>d DEF Closed, Payable, TypeOK, Statuses, FinalStep
    <3>8. Taken(i, k)'
      BY <3>5, TakenByPay
    <3> QED BY <3>3, <3>7, <3>8
  <2> QED BY <2>1, <2>2
<1> QED BY <1>1, <1>2 DEF DecidedIsTaken

(* The invariant is inductive. *)
LEMMA CustodyInvStep ==
  ASSUME TypeOK, MoneyInv, CustodyInv, DistinctReferences, ManualSettles, [Next]_vars
  PROVE  CustodyInv'
BY AskingStep, CarryingStep, DecidingStep DEF CustodyInv

-----------------------------------------------------------------------------
(* The refinement *)

Refunded(i, k) == \E f \in refunds : f.inv = i /\ f.pay = k

(* OutcomeOf, by name. *)
Out(i, k) ==
  IF ~Taken(i, k) THEN "none"
  ELSE IF Recorded(i, k) THEN "applied"
  ELSE IF Refunded(i, k) THEN "refund"
  ELSE "held"

StateOf(i) == IF Payable(i) THEN "open" ELSE status[i]

(* The abstract variables before and after a step.                         *)
LEMMA OutcomeIs ==
  ASSUME TypeOK, TypeOK'
  PROVE  \A p \in SessionPayments :
           /\ p[1] \in Invoices /\ p[2] \in SessionIds /\ p = <<p[1], p[2]>>
           /\ OutcomeOf(p) = Out(p[1], p[2])
           /\ OutcomeOf(p)' = Out(p[1], p[2])'
<1> SUFFICES ASSUME NEW p \in SessionPayments
             PROVE  /\ p[1] \in Invoices /\ p[2] \in SessionIds /\ p = <<p[1], p[2]>>
                    /\ OutcomeOf(p) = Out(p[1], p[2])
                    /\ OutcomeOf(p)' = Out(p[1], p[2])'
  OBVIOUS
<1>1. PICK i \in Invoices, k \in SessionIds : p = <<i, k>>
  BY DEF SessionPayments
<1>2. p[1] = i /\ p[2] = k
  BY <1>1
<1>3. k \in Nat /\ k >= 1 /\ Len(sessions[i]) \in Nat /\ Len(sessions'[i]) \in Nat
  BY BoundsAssumption DEF SessionIds, TypeOK
<1>4. OutcomeOf(p) = Out(i, k)
  BY <1>2, <1>3 DEF OutcomeOf, Out, Taken, Recorded, Refunded
<1>5. OutcomeOf(p)' = Out(i, k)'
  BY <1>2, <1>3 DEF OutcomeOf, Out, Taken, Recorded, Refunded
<1> QED BY <1>1, <1>2, <1>4, <1>5

(* Steps of which the abstract machine sees nothing.                       *)
LEMMA Stutters ==
  ASSUME TypeOK, TypeOK',
         \A i \in Invoices, k \in SessionIds : Out(i, k)' = Out(i, k),
         \A i \in Invoices : StateOf(i)' = StateOf(i)
  PROVE  UNCHANGED Custody!vars
<1>1. \A p \in SessionPayments : OutcomeOf(p)' = OutcomeOf(p)
  BY OutcomeIs
<1> QED BY <1>1 DEF Custody!vars, StateOf

(* The customer pays at DOKU. *)
LEMMA PayHolds ==
  ASSUME TypeOK, TypeOK', CustodyInv, NEW i \in Invoices,
         NEW k \in 1..Len(sessions[i]), Pay(i, k)
  PROVE  Custody!Next
<1>1. k \in SessionIds
  BY BoundsAssumption DEF SessionIds, TypeOK
<1>2. UNCHANGED <<status, rows, refunds>>
  BY DEF Pay, invoiceVars, effectVars
<1>3. ~Taken(i, k) /\ Taken(i, k)'
  <2>1. Len(sessions'[i]) = Len(sessions[i])
    BY OthersKeepState DEF Pay
  <2>2. sessions'[i][k].doku = "paid"
    BY DEF Pay, TypeOK
  <2> QED BY <2>1, <2>2 DEF Pay, Taken
<1>4. \A j \in Invoices, m \in SessionIds :
        ~(j = i /\ m = k) => (Taken(j, m)' <=> Taken(j, m))
  BY OthersKeepState DEF Pay, Taken
<1>5. ~Recorded(i, k) /\ ~Refunded(i, k)
  BY <1>1, <1>3 DEF CustodyInv, DecidedIsTaken, Refunded
<1>6. \A j \in Invoices, m \in SessionIds :
        Recorded(j, m)' = Recorded(j, m) /\ Refunded(j, m)' = Refunded(j, m)
  BY <1>2 DEF Recorded, Refunded
<1>7. Out(i, k) = "none" /\ Out(i, k)' = "held"
  BY <1>1, <1>3, <1>5, <1>6 DEF Out
<1>8. \A j \in Invoices, m \in SessionIds : ~(j = i /\ m = k) => Out(j, m)' = Out(j, m)
  BY <1>4, <1>6 DEF Out
<1>9. PICK p \in SessionPayments : p = <<i, k>>
  BY <1>1 DEF SessionPayments
<1>10. /\ OutcomeOf(p) = "none" /\ OutcomeOf(p)' = "held"
       /\ \A q \in SessionPayments \ {p} : OutcomeOf(q)' = OutcomeOf(q)
  BY <1>7, <1>8, <1>9, OutcomeIs
<1>11. \A j \in Invoices : Payable(j)' = Payable(j)
  BY <1>2 DEF Payable
<1>12. Custody!Hold(p)
  BY <1>2, <1>9, <1>10, <1>11 DEF Custody!Hold
<1> QED BY <1>9, <1>12 DEF Custody!Next

(* A payment is recorded: DOKU's is applied, staff's closes the invoice.   *)
LEMMA RecordApplies ==
  ASSUME TypeOK, TypeOK', MoneyInv, CustodyInv, DistinctReferences, ManualSettles,
         NEW h \in Handlers, RecordNew(h)
  PROVE  Custody!Next
<1>p. PICK i, k : i = handler[h].inv /\ k = handler[h].pay
  OBVIOUS
<1>1. /\ i \in Invoices /\ Payable(i)
      /\ status' = [status EXCEPT ![i] = "paid"]
      /\ handler[h].via # "manual" =>
           rows' = [rows EXCEPT ![i][ReferenceOf(i, k)] = handler[h].amount]
      /\ handler[h].via = "manual" => rows' = rows
  BY <1>p, RecordSettles
<1>2. UNCHANGED <<sessions, refunds>>
  BY DEF RecordNew, effectVars
<1>3. \A j, m : Taken(j, m)' = Taken(j, m) /\ Refunded(j, m)' = Refunded(j, m)
  BY <1>2 DEF Taken, Refunded
<1>4. [j \in Invoices |-> StateOf(j)]' = [[j \in Invoices |-> StateOf(j)] EXCEPT ![i] = "paid"]
  BY <1>1 DEF StateOf, Payable, TypeOK
<1>5. CASE handler[h].via = "manual"
  <2>1. \A j, m : Out(j, m)' = Out(j, m)
    BY <1>1, <1>3, <1>5 DEF Out, Recorded, ReferenceOf
  <2>2. \A p \in SessionPayments : OutcomeOf(p)' = OutcomeOf(p)
    BY <2>1, OutcomeIs
  <2>3. Custody!Close(i)
    BY <1>1, <1>4, <2>2 DEF Custody!Close, StateOf
  <2> QED BY <1>1, <2>3 DEF Custody!Next
<1>6. CASE handler[h].via # "manual"
  <2>1. FromDoku(h) /\ handler[h].at = "read" /\ ~IsRepeat(h)
    BY <1>6 DEF RecordNew, FromDoku, Active, HandlerLabels
  <2>2. k \in SessionIds /\ handler[h].amount > 0
    BY <1>p, <2>1, ActiveFields DEF FromDoku, Positive
  <2>3. Taken(i, k)
    BY <1>p, <2>1 DEF CustodyInv, CarriesTaken
  <2>4. ~Recorded(i, k)
    BY <1>p, <1>6, <2>1 DEF IsRepeat, Recorded
  <2>5. ~Refunded(i, k)
    BY <1>1 DEF CustodyInv, DecidedIsTaken, Refunded, Closed, Payable
  <2>6. \A m \in SessionIds : ReferenceOf(i, m) \in References
    BY ReferenceTyped, BoundsAssumption DEF References, SessionIds
  <2>7. Recorded(i, k)'
    <3>1. rows'[i][ReferenceOf(i, k)] = handler[h].amount
      BY <1>1, <1>6, <2>2, <2>6 DEF TypeOK
    <3> QED BY <2>2, <3>1 DEF Recorded, ReferenceOf
  <2>8. ASSUME NEW j \in Invoices, NEW m \in SessionIds, ~(j = i /\ m = k)
        PROVE  Recorded(j, m)' = Recorded(j, m)
    <3> DEFINE r == ReferenceOf(j, m)
               s == ReferenceOf(i, k)
    <3>1. j # i \/ r # s
      BY <2>2, <2>8 DEF DistinctReferences
    <3>2. rows' = [rows EXCEPT ![i][s] = handler[h].amount] /\ s \in References
      BY <1>1, <1>6, <2>2, <2>6
    <3>3. Recorded(j, m) = (rows[j][r] > 0) /\ Recorded(j, m)' = (rows'[j][r] > 0)
      BY DEF Recorded, ReferenceOf
    <3> HIDE DEF r, s
    <3>4. rows'[j][r] = rows[j][r]
      BY <1>1, <3>1, <3>2 DEF TypeOK
    <3> QED BY <3>3, <3>4
  <2>9. Out(i, k) = "held" /\ Out(i, k)' = "applied"
    BY <1>3, <2>3, <2>4, <2>5, <2>7 DEF Out
  <2>10. \A j \in Invoices, m \in SessionIds : ~(j = i /\ m = k) => Out(j, m)' = Out(j, m)
    BY <1>3, <2>8 DEF Out
  <2>11. PICK p \in SessionPayments : p = <<i, k>>
    BY <1>1, <2>2 DEF SessionPayments
  <2>12. /\ OutcomeOf(p) = "held" /\ OutcomeOf(p)' = "applied"
         /\ \A q \in SessionPayments \ {p} : OutcomeOf(q)' = OutcomeOf(q)
    BY <2>9, <2>10, <2>11, OutcomeIs
  <2>13. Custody!Apply(p)
    BY <1>1, <1>4, <2>11, <2>12 DEF Custody!Apply, StateOf
  <2> QED BY <2>11, <2>13 DEF Custody!Next
<1> QED BY <1>5, <1>6

(* A payment is refused: it is set aside, unless it was already.           *)
LEMMA RefuseRefunds ==
  ASSUME TypeOK, TypeOK', CustodyInv, NEW h \in Handlers, RecordRefuse(h)
  PROVE  [Custody!Next]_(Custody!vars)
<1>p. PICK i, k : i = handler[h].inv /\ k = handler[h].pay
  OBVIOUS
<1>1. UNCHANGED <<sessions, status, rows>>
  BY DEF RecordRefuse, invoiceVars
<1>2. /\ \A j, m : Taken(j, m)' = Taken(j, m) /\ Recorded(j, m)' = Recorded(j, m)
      /\ \A j : Payable(j)' = Payable(j) /\ StateOf(j)' = StateOf(j)
  BY <1>1 DEF Taken, Recorded, ReferenceOf, Payable, StateOf
<1>3. ASSUME \A j, m : Refunded(j, m)' <=> Refunded(j, m) PROVE UNCHANGED Custody!vars
  BY <1>2, <1>3, Stutters DEF Out
<1>4. CASE handler[h].via = "manual"
  BY <1>3, <1>4 DEF RecordRefuse, Refunded
<1>5. CASE handler[h].via # "manual"
  <2>1. FromDoku(h) /\ handler[h].at = "read" /\ ~IsRepeat(h)
    BY <1>5 DEF RecordRefuse, FromDoku, Active, HandlerLabels
  <2>2. i \in Invoices /\ k \in SessionIds
    BY <1>p, <2>1, ActiveFields DEF FromDoku
  <2>3. Taken(i, k) /\ ~Recorded(i, k)
    BY <1>p, <1>5, <2>1 DEF CustodyInv, CarriesTaken, IsRepeat, Recorded
  <2>4. ~Payable(i)
    BY <1>p, <1>5, <2>1 DEF RecordRefuse, Fits, CustodyInv, CarriesTaken
  <2>5. StateOf(i) # "open"
    BY <2>2, <2>4 DEF StateOf, Payable, TypeOK, Statuses
  <2>6. PICK f : f.inv = i /\ f.pay = k /\ refunds' = refunds \cup {f}
    <3> DEFINE g == [inv |-> i, pay |-> k,
                     why |-> IF Payable(i) THEN "exceeds" ELSE "not_payable"]
    <3>1. g.inv = i /\ g.pay = k /\ refunds' = refunds \cup {g}
      BY <1>p, <1>5 DEF RecordRefuse
    <3> HIDE DEF g
    <3> QED BY <3>1
  <2>7. \A j, m : Refunded(j, m)' <=> Refunded(j, m) \/ (j = i /\ m = k)
    BY <2>6 DEF Refunded
  <2>8. CASE Refunded(i, k)
    BY <1>3, <2>7, <2>8
  <2>9. CASE ~Refunded(i, k)
    <3>1. Out(i, k) = "held" /\ Out(i, k)' = "refund"
      BY <1>2, <2>3, <2>7, <2>9 DEF Out
    <3>2. \A j, m : ~(j = i /\ m = k) => Out(j, m)' = Out(j, m)
      BY <1>2, <2>7 DEF Out
    <3>3. PICK p \in SessionPayments : p = <<i, k>>
      BY <2>2 DEF SessionPayments
    <3>4. /\ OutcomeOf(p) = "held" /\ OutcomeOf(p)' = "refund"
          /\ \A q \in SessionPayments \ {p} : OutcomeOf(q)' = OutcomeOf(q)
      BY <3>1, <3>2, <3>3, OutcomeIs
    <3>5. Custody!Refund(p)
      BY <1>2, <2>2, <2>5, <3>3, <3>4, <1>1 DEF Custody!Refund, StateOf
    <3> QED BY <3>3, <3>5 DEF Custody!Next
  <2> QED BY <2>8, <2>9
<1> QED BY <1>4, <1>5

(* Void closes; MarkOverdue leaves an open invoice open.                   *)
LEMMA StatusSteps ==
  ASSUME TypeOK, TypeOK', NEW i \in Invoices, Void(i) \/ MarkOverdue(i)
  PROVE  [Custody!Next]_(Custody!vars)
<1>1. UNCHANGED <<sessions, rows, refunds>>
  BY DEF Void, MarkOverdue, effectVars
<1>2. \A j, m : Out(j, m)' = Out(j, m)
  BY <1>1 DEF Out, Taken, Recorded, Refunded, ReferenceOf
<1>3. CASE Void(i)
  <2>1. /\ StateOf(i) = "open"
        /\ [j \in Invoices |-> StateOf(j)]' =
             [[j \in Invoices |-> StateOf(j)] EXCEPT ![i] = "void"]
    BY <1>3 DEF Void, StateOf, Payable, TypeOK
  <2>2. \A p \in SessionPayments : OutcomeOf(p)' = OutcomeOf(p)
    BY <1>2, OutcomeIs
  <2>3. Custody!Close(i)
    BY <2>1, <2>2 DEF Custody!Close, StateOf
  <2> QED BY <2>3 DEF Custody!Next
<1>4. CASE MarkOverdue(i)
  <2>1. \A j \in Invoices : StateOf(j)' = StateOf(j)
    BY <1>4 DEF MarkOverdue, StateOf, Payable, TypeOK
  <2> QED BY <1>2, <2>1, Stutters
<1> QED BY <1>3, <1>4

(* Every step is one of the abstract machine, or none.                     *)
LEMMA EveryStepKeeps ==
  ASSUME TypeOK, TypeOK', MoneyInv, CustodyInv, DistinctReferences, ManualSettles,
         [Next]_vars
  PROVE  [Custody!Next]_(Custody!vars)
<1>1. ASSUME UNCHANGED <<invoiceVars, refunds>>,
             ~ \E i \in Invoices : \E k \in 1..Len(sessions[i]) : Pay(i, k)
      PROVE  UNCHANGED Custody!vars
  <2>1. \A i \in Invoices, k \in SessionIds : Taken(i, k)' = Taken(i, k)
    BY <1>1, TakenByPay DEF Taken
  <2>2. \A i \in Invoices, k \in SessionIds : Out(i, k)' = Out(i, k)
    BY <1>1, <2>1 DEF Out, Recorded, Refunded, ReferenceOf, invoiceVars
  <2>3. \A i \in Invoices : StateOf(i)' = StateOf(i)
    BY <1>1 DEF StateOf, Payable, invoiceVars
  <2> QED BY <2>2, <2>3, Stutters
<1>2. \/ \E h \in Handlers : RecordNew(h) \/ RecordRefuse(h)
      \/ \E i \in Invoices : Void(i) \/ MarkOverdue(i)
      \/ UNCHANGED <<invoiceVars, refunds>>
  BY DEF vars, invoiceVars, effectVars, Next, ShopperStep, CheckoutLoad,
         CheckoutFind, CheckoutCreate, CheckoutFail, Expire, Pay, Deliver, Resend, SyncLoad,
         ManualRequest, Begin, HandlerStep, SyncCheck, ReadInvoice, RecordRepeat,
         Notify, Replay, Settle, MarkSession, Credit, Answer, FaultStep, CreditFails,
         MarkFails, Crash
<1> QED BY <1>1, <1>2, PayHolds, RecordApplies, RefuseRefunds, StatusSteps

(* Nothing is held at the start. *)
LEMMA InitKeeps == Init => Custody!Init
<1> SUFFICES ASSUME Init PROVE Custody!Init
  OBVIOUS
<1>1. \A p \in SessionPayments : OutcomeOf(p) = "none"
  BY BoundsAssumption DEF Init, OutcomeOf, SessionPayments, SessionIds
<1>2. \A i \in Invoices : Payable(i)
  BY DEF Init, Payable
<1> QED BY <1>1, <1>2 DEF Custody!Init

(* Sessions, retries, crashes and races included, every payment DOKU took  *)
(* is held until it is applied to an open invoice, which it settles, or    *)
(* set aside because the invoice is closed, and neither is undone: for any *)
(* number of invoices, sessions, requests and faults, as long as sessions  *)
(* have references of their own and staff record no part payments.         *)
THEOREM PaymentsAreKept ==
  ASSUME DistinctReferences, ManualSettles
  PROVE  Spec => KeepsCustody
<1>1. Init => CustodyInv /\ Custody!Init
  BY InitCustody, InitKeeps
<1>2. TypeOK /\ MoneyInv /\ CustodyInv /\ [Next]_vars => CustodyInv'
  BY CustodyInvStep
<1>3. TypeOK /\ TypeOK' /\ MoneyInv /\ CustodyInv /\ [Next]_vars
        => [Custody!Next]_(Custody!vars)
  BY EveryStepKeeps
<1> QED BY PaymentInvariant, <1>1, <1>2, <1>3, PTL DEF Spec, Safety, KeepsCustody, Custody!Spec
-----------------------------------------------------------------------------
(* The ledger *)

(* No payment row is more than its invoice, and an organisation has        *)
(* finitely many credits.                                                  *)
RowsFit == \A i \in Invoices, r \in References : rows[i][r] <= Total[i]

CreditsFinite == \A o \in Orgs : IsFiniteSet(CreditsOf(o))

LedgerInv == RowsFit /\ CreditsFinite

LEMMA InitLedgerInv == Init => LedgerInv
<1> SUFFICES ASSUME Init PROVE LedgerInv
  OBVIOUS
<1>1. RowsFit
  BY TotalAssumption DEF Init, RowsFit
<1>2. ASSUME NEW o \in Orgs PROVE CreditsOf(o) = {}
  BY DEF Init, CreditsOf, CreditOf, LedgerRefs
<1> QED BY <1>1, <1>2, FS_EmptySet DEF LedgerInv, CreditsFinite

(* A row is written from an amount that fits. *)
LEMMA RowsStep ==
  ASSUME TypeOK, RowsFit, [Next]_vars
  PROVE  RowsFit'
<1>1. ASSUME UNCHANGED rows PROVE RowsFit'
  BY <1>1 DEF RowsFit
<1>2. ASSUME NEW h \in Handlers, RecordNew(h) PROVE RowsFit'
  <2>p. PICK i, a, s : i = handler[h].inv /\ a = handler[h].amount
                       /\ s = ReferenceOf(i, handler[h].pay)
    OBVIOUS
  <2>1. i \in Invoices /\ s \in References /\ a \in Nat
    BY <1>2, <2>p, ActiveFields DEF RecordNew, Active, HandlerLabels, Positive
  <2>2. a <= Total[i]
    <3>1. a <= Total[i] - amountPaid[i]
      BY <1>2, <2>p DEF RecordNew, Fits, RemainingOf
    <3>2. amountPaid[i] \in Nat /\ Total[i] \in Nat
      BY <2>1, TotalAssumption DEF TypeOK
    <3> QED BY <2>1, <3>1, <3>2
  <2>3. rows' = rows \/ rows' = [rows EXCEPT ![i][s] = a]
    BY <1>2, <2>p DEF RecordNew
  <2>4. rows \in [Invoices -> [References -> Nat]]
    BY DEF TypeOK
  <2>5. ASSUME NEW j \in Invoices, NEW r \in References PROVE rows'[j][r] <= Total[j]
    BY <2>1, <2>2, <2>3, <2>4 DEF RowsFit
  <2> QED BY <2>5 DEF RowsFit
<1>3. (\E h \in Handlers : RecordNew(h)) \/ UNCHANGED rows
  BY InvoiceWriters DEF invoiceVars, Void, MarkOverdue
<1> QED BY <1>1, <1>2, <1>3

(* A first credit of a reference adds it to its organisation's.            *)
LEMMA OneCreditMore ==
  ASSUME TypeOK, CreditsFinite, NEW i \in Invoices, NEW s \in References,
         credited[i][s] = 0, NEW v \in Nat \ {0},
         credited' = [credited EXCEPT ![i][s] = v]
  PROVE  /\ CreditOf(<<i, s>>)' = v
         /\ \A r \in LedgerRefs \ {<<i, s>>} : CreditOf(r)' = CreditOf(r)
         /\ CreditsFinite'
         /\ SumOfCredits(Owner[i])' = SumOfCredits(Owner[i]) + v
         /\ \A o \in Orgs \ {Owner[i]} : SumOfCredits(o)' = SumOfCredits(o)
<1> DEFINE new == <<i, s>>
           mine == Owner[i]
<1>t. credited \in [Invoices -> [References -> Nat]]
  BY DEF TypeOK
<1>1. new \in LedgerRefs /\ CreditOf(new) = 0 /\ CreditOf(new)' = v
  BY <1>t DEF LedgerRefs, CreditOf
<1>2. \A r \in LedgerRefs \ {new} : CreditOf(r)' = CreditOf(r)
  BY <1>t DEF LedgerRefs, CreditOf
<1>3. mine \in Orgs
  BY OwnerAssumption
<1>4. Owner[new[1]] = mine
  OBVIOUS
<1>5. \A r \in LedgerRefs : CreditOf(r) \in Nat
  BY <1>t DEF LedgerRefs, CreditOf
<1> HIDE DEF new
<1>6. new \notin CreditsOf(mine) /\ CreditsOf(mine)' = CreditsOf(mine) \cup {new}
  BY <1>1, <1>2, <1>4 DEF CreditsOf
<1>7. \A o \in Orgs \ {mine} : CreditsOf(o)' = CreditsOf(o)
  BY <1>1, <1>2, <1>4 DEF CreditsOf
<1> HIDE DEF mine
<1>8. CreditsFinite'
  <2>1. IsFiniteSet(CreditsOf(mine)')
    BY <1>3, <1>6, FS_AddElement DEF CreditsFinite
  <2>2. ASSUME NEW o \in Orgs PROVE IsFiniteSet(CreditsOf(o))'
    <3>1. CASE o = mine
      BY <2>1, <3>1
    <3>2. CASE o # mine
      BY <1>7, <3>2 DEF CreditsFinite
    <3> QED BY <3>1, <3>2
  <2> QED BY <2>2 DEF CreditsFinite
<1>9. SumOfCredits(mine)' = SumOfCredits(mine) + v
  <2> DEFINE S == CreditsOf(mine)
             f == [r \in S |-> CreditOf(r)]
             k == [r \in S \cup {new} |-> CreditOf(r)']
  <2>1. IsFiniteSet(S) /\ S \subseteq LedgerRefs
    BY <1>3 DEF CreditsFinite, CreditsOf
  <2>2. \A r \in S : CreditOf(r)' = CreditOf(r)
    BY <1>2, <1>6, <2>1
  <2>3. f \in [S -> Int]
    BY <1>5, <2>1
  <2>4. k \in [S \cup {new} -> Int]
    BY <1>1, <2>2, <2>3
  <2>5. k[new] = v /\ \A r \in S : k[r] = f[r]
    BY <1>1, <2>2
  <2>6. SumOfCredits(mine) = SumFunction(f) /\ SumOfCredits(mine)' = SumFunction(k)
    BY <1>6 DEF SumOfCredits
  <2>7. new \notin S
    BY <1>6
  <2> HIDE DEF S, f, k
  <2>8. SumFunction(k) = SumFunction(f) + k[new]
    BY <2>1, <2>3, <2>4, <2>5, <2>7, OneValueMore
  <2> QED BY <2>5, <2>6, <2>8
<1>10. ASSUME NEW o \in Orgs \ {mine} PROVE SumOfCredits(o)' = SumOfCredits(o)
  <2>1. CreditsOf(o)' = CreditsOf(o)
    BY <1>7
  <2>2. \A r \in CreditsOf(o) : CreditOf(r)' = CreditOf(r)
    BY <1>1, <1>2 DEF CreditsOf
  <2>3. [r \in CreditsOf(o) |-> CreditOf(r)]' = [r \in CreditsOf(o) |-> CreditOf(r)]
    BY <2>1, <2>2
  <2> QED BY <2>3 DEF SumOfCredits
<1> QED BY <1>1, <1>2, <1>8, <1>9, <1>10 DEF new, mine

(* So the handler inserts an entry as a recorder of the ledger does.       *)
LEMMA CreditInserts ==
  ASSUME TypeOK, CreditsFinite, NEW h \in Handlers,
         NEW i \in Invoices, NEW s \in References,
         credited[i][s] = 0, NEW v \in 1..Total[i],
         credited' = [credited EXCEPT ![i][s] = v]
  PROVE  CreditsFinite' /\ Ledger!Next
<1>1. v \in Nat \ {0} /\ v \in LedgerAmounts
  BY TotalAssumption DEF LedgerAmounts
<1> DEFINE new == <<i, s>>
           call == [ref |-> new, invoice |-> i, amount |-> v]
<1>2. /\ CreditOf(new)' = v /\ CreditsFinite'
      /\ \A r \in LedgerRefs \ {new} : CreditOf(r)' = CreditOf(r)
      /\ SumOfCredits(Owner[i])' = SumOfCredits(Owner[i]) + v
      /\ \A o \in Orgs \ {Owner[i]} : SumOfCredits(o)' = SumOfCredits(o)
  BY <1>1, OneCreditMore
<1>3. new \in LedgerRefs /\ new[1] = i /\ CreditOf(new) = 0
  BY DEF LedgerRefs, CreditOf
<1>4. call \in Ledger!Calls /\ call.ref = new /\ call.invoice = i /\ call.amount = v
  BY <1>1, <1>3 DEF Ledger!Calls
<1>5. EntryAt(new) = NoEntry /\ EntryAt(new)' = Ledger!EntryOf(call)
  BY <1>1, <1>2, <1>3, <1>4 DEF EntryAt, Ledger!EntryOf
<1>6. \A r \in LedgerRefs \ {new} : EntryAt(r)' = EntryAt(r)
  BY <1>2 DEF EntryAt
<1> HIDE DEF new, call
<1>7. [r \in LedgerRefs |-> EntryAt(r)'] =
        [[r \in LedgerRefs |-> EntryAt(r)] EXCEPT ![new] = Ledger!EntryOf(call)]
  BY <1>3, <1>5, <1>6
<1>8. [o \in Orgs |-> SumOfCredits(o)'] =
        [[o \in Orgs |-> SumOfCredits(o)] EXCEPT ![Owner[i]] = @ + v]
  BY <1>2, OwnerAssumption
<1>9. Ledger!InsertEntry(call)
  BY <1>3, <1>4, <1>5, <1>7, <1>8 DEF Ledger!InsertEntry
<1>10. Ledger!InsertPayment(h)
  BY <1>3, <1>4, <1>5, <1>9 DEF Ledger!InsertPayment
<1> QED BY <1>2, <1>10 DEF Ledger!Next

LEMMA LedgerStutters ==
  ASSUME UNCHANGED credited
  PROVE  /\ UNCHANGED Ledger!vars
         /\ CreditsFinite => CreditsFinite'
<1>1. \A r : CreditOf(r)' = CreditOf(r)
  BY DEF CreditOf
<1>2. \A r : EntryAt(r)' = EntryAt(r)
  BY <1>1 DEF EntryAt
<1>3. \A o : CreditsOf(o)' = CreditsOf(o)
  BY <1>1 DEF CreditsOf
<1>4. \A o : SumOfCredits(o)' = SumOfCredits(o)
  BY <1>1, <1>3 DEF SumOfCredits
<1> QED BY <1>2, <1>3, <1>4 DEF Ledger!vars, CreditsFinite

(* A handler credits a payment that is recorded, at most once.             *)
LEMMA LedgerStep ==
  ASSUME TypeOK, AckInv, RowsFit, CreditsFinite, [Next]_vars
  PROVE  CreditsFinite' /\ [Ledger!Next]_(Ledger!vars)
<1>1. ASSUME UNCHANGED credited PROVE CreditsFinite' /\ [Ledger!Next]_(Ledger!vars)
  BY <1>1, LedgerStutters
<1>2. ASSUME NEW h \in Handlers, Credit(h)
      PROVE  CreditsFinite' /\ [Ledger!Next]_(Ledger!vars)
  <2>p. PICK i, k, s : i = handler[h].inv /\ k = handler[h].pay /\ s = ReferenceOf(i, k)
    OBVIOUS
  <2>1. i \in Invoices /\ s \in References
    BY <1>2, <2>p, ActiveFields DEF Credit, Active, HandlerLabels
  <2>2. FromDoku(h)
    BY <1>2 DEF Credit, Active, HandlerLabels, TypeOK, PointsAtSessions, FromDoku
  <2>3. rows[i][s] > 0
    BY <1>2, <2>p, <2>2 DEF Credit, AckInv, AccountsFor, Recorded
  <2>4. rows[i][s] \in 1..Total[i]
    BY <2>1, <2>3, TotalAssumption DEF RowsFit, TypeOK
  <2>5. \/ credited' = credited
        \/ credited[i][s] = 0 /\ credited' = [credited EXCEPT ![i][s] = rows[i][s]]
    BY <1>2, <2>p DEF Credit, CreditOnce
  <2>6. ASSUME credited[i][s] = 0, credited' = [credited EXCEPT ![i][s] = rows[i][s]]
        PROVE  CreditsFinite' /\ Ledger!Next
    BY <2>1, <2>4, <2>6, CreditInserts
  <2> QED BY <1>1, <2>5, <2>6
<1>3. (\E h \in Handlers : Credit(h)) \/ UNCHANGED credited
  BY DEF vars, effectVars, Next, ShopperStep, CheckoutLoad, CheckoutFind,
         CheckoutCreate, CheckoutFail, Expire, Pay, Deliver, Resend, SyncLoad,
         ManualRequest, Begin, HandlerStep, SyncCheck, ReadInvoice, RecordRepeat,
         RecordRefuse, RecordNew, Notify, Replay, Settle, MarkSession, Answer, FaultStep,
         CreditFails, MarkFails, Crash, Void, MarkOverdue
<1> QED BY <1>1, <1>2, <1>3

(* The ledger starts empty. *)
LEMMA InitLedger == Init => Ledger!Init
<1> SUFFICES ASSUME Init PROVE Ledger!Init
  OBVIOUS
<1>1. \A r \in LedgerRefs : CreditOf(r) = 0
  BY DEF Init, CreditOf, LedgerRefs
<1>2. \A r \in LedgerRefs : EntryAt(r) = NoEntry
  BY <1>1 DEF EntryAt
<1>3. ASSUME NEW o \in Orgs PROVE SumOfCredits(o) = 0
  <2>1. CreditsOf(o) = {}
    BY <1>1 DEF CreditsOf
  <2>2. DOMAIN [r \in CreditsOf(o) |-> CreditOf(r)] = {}
    BY <2>1
  <2> QED BY <2>2, NoValues DEF SumOfCredits
<1> QED BY <1>2, <1>3 DEF Ledger!Init

(* Whatever requests, repeats, crashes and races there are, the handlers   *)
(* write the settlement ledger only as its recorders may: one entry for a  *)
(* reference, of a positive amount, never rewritten, by which what the     *)
(* invoice's owner is owed rises.                                          *)
THEOREM HandlersAreRecorders == Spec => UsesLedger
<1>1. Init => AckInv
  BY DEF Init, AckInv, AckedIsAccounted, AccountsFor, FromDoku, Active, HandlerLabels
<1>2. TypeOK /\ MoneyInv /\ AckInv /\ [Next]_vars => AckInv'
  BY AckStep
<1>3. Init => LedgerInv /\ Ledger!Init
  BY InitLedgerInv, InitLedger
<1>4. TypeOK /\ AckInv /\ LedgerInv /\ [Next]_vars
        => LedgerInv' /\ [Ledger!Next]_(Ledger!vars)
  BY RowsStep, LedgerStep DEF LedgerInv
<1> QED BY PaymentInvariant, <1>1, <1>2, <1>3, <1>4, PTL
        DEF Spec, Safety, UsesLedger, Ledger!Safety
=============================================================================
