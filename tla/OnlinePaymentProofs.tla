------------------------ MODULE OnlinePaymentProofs -------------------------
(***************************************************************************)
(* The safety of online payment, for any number of invoices, sessions,     *)
(* handlers and faults.                                                    *)
(***************************************************************************)
EXTENDS OnlinePayment, SequenceTheorems, TLAPS

(* Rounding up to a rupiah never goes below the amount.                    *)
LEMMA CeilIsEnough ==
  ASSUME NEW a \in Nat
  PROVE  CeilRupiah(a) \in Nat /\ CeilRupiah(a) >= a
<1> DEFINE x == a + Rupiah - 1
           q == x \div Rupiah
           m == x % Rupiah
<1>1. x \in Nat
  BY RupiahAssumption
<1>2. q \in Nat /\ m \in 0..(Rupiah - 1)
  BY <1>1, RupiahAssumption
<1>3. x = Rupiah * q + m
  BY <1>1, RupiahAssumption
<1> HIDE DEF q, m
<1>4. Rupiah * q = q * Rupiah /\ q * Rupiah \in Nat
  BY <1>2, RupiahAssumption
<1>5. q * Rupiah >= a
  BY <1>2, <1>3, <1>4, RupiahAssumption
<1> QED
  BY <1>4, <1>5 DEF CeilRupiah, q

-----------------------------------------------------------------------------
(* Types *)

SessionsTyped ==
  /\ sessions \in [Invoices -> Seq(Session)]
  /\ \A i \in Invoices : Len(sessions[i]) <= MaxSessions

HandlerTyped == handler \in [Handlers -> IdleHandler \cup SyncingHandler
                                           \cup CalledHandler \cup ActiveHandler]

(* A step that rewrites one session keeps the others, every length and     *)
(* every amount.                                                           *)
LEMMA SessionUpdate ==
  ASSUME SessionsTyped,
         NEW i \in Invoices, NEW k \in 1..Len(sessions[i]), NEW e \in Session,
         e.amount = sessions[i][k].amount,
         sessions' = [sessions EXCEPT ![i] = [@ EXCEPT ![k] = e]]
  PROVE  /\ SessionsTyped'
         /\ \A j \in Invoices :
              /\ Len(sessions'[j]) = Len(sessions[j])
              /\ \A m \in 1..Len(sessions[j]) :
                   sessions'[j][m].amount = sessions[j][m].amount
<1> DEFINE s == sessions[i]
           t == [s EXCEPT ![k] = e]
<1>1. s \in Seq(Session)
  BY DEF SessionsTyped
<1>2. t \in Seq(Session) /\ Len(t) = Len(s)
  BY <1>1
<1>3. \A m \in 1..Len(s) : t[m].amount = s[m].amount
  BY <1>1
<1>4. \A j \in Invoices : sessions'[j] = IF j = i THEN t ELSE sessions[j]
  BY DEF SessionsTyped
<1>5. sessions' \in [Invoices -> Seq(Session)]
  BY <1>2 DEF SessionsTyped
<1> QED
  BY <1>2, <1>3, <1>4, <1>5 DEF SessionsTyped

(* No session is forgotten. *)
SessionsGrow == \A i \in Invoices : Len(sessions[i]) <= Len(sessions'[i])

(* The label of a handler tells which record it is.                         *)
LEMMA HandlerKinds ==
  ASSUME HandlerTyped, NEW h \in Handlers
  PROVE  /\ Active(h) <=> handler[h] \in ActiveHandler
         /\ handler[h].at = "called" <=> handler[h] \in CalledHandler
         /\ handler[h].at = "syncing" <=> handler[h] \in SyncingHandler
         /\ handler[h].at = "idle" <=> handler[h] \in IdleHandler
BY DEF HandlerTyped, Active, HandlerLabels, ActiveHandler, CalledHandler,
       SyncingHandler, IdleHandler

(* The handlers that do not move still point at sessions.                  *)
LEMMA OthersPoint ==
  ASSUME TypeOK, SessionsTyped', SessionsGrow, NEW g \in Handlers,
         handler'[g] = handler[g]
  PROVE  PointsAtSessions(g)'
<1>1. CASE handler[g] \in IdleHandler \cup SyncingHandler
  BY <1>1 DEF PointsAtSessions, Active, FromDoku, HandlerLabels, IdleHandler, SyncingHandler
<1>2. CASE handler[g] \in CalledHandler \cup ActiveHandler
  <2>1. handler[g].inv \in Invoices
    BY <1>2 DEF CalledHandler, ActiveHandler
  <2> DEFINE n == Len(sessions[handler[g].inv])
             m == Len(sessions'[handler[g].inv])
  <2>2. n \in Nat /\ m \in Nat /\ n <= m
    BY <2>1 DEF TypeOK, SessionsTyped, SessionsGrow
  <2>3. PointsAtSessions(g)
    BY DEF TypeOK
  <2> QED
    BY <2>2, <2>3 DEF PointsAtSessions, Active, FromDoku
<1> QED
  BY <1>1, <1>2 DEF TypeOK

(* A handler that moves on between labels. *)
LEMMA GotoTyped ==
  ASSUME HandlerTyped, NEW h \in Handlers, Active(h),
         NEW label \in HandlerLabels, Goto(h, label)
  PROVE  /\ HandlerTyped'
         /\ handler'[h] \in ActiveHandler
         /\ handler'[h].at = label
         /\ handler'[h].via = handler[h].via
         /\ handler'[h].inv = handler[h].inv
         /\ handler'[h].pay = handler[h].pay
         /\ handler'[h].co = handler[h].co
         /\ handler'[h].amount = handler[h].amount
         /\ \A g \in Handlers \ {h} : handler'[g] = handler[g]
<1>1. handler[h] \in ActiveHandler
  BY HandlerKinds
<1>2. [handler[h] EXCEPT !.at = label] \in ActiveHandler
  BY <1>1 DEF ActiveHandler
<1> QED
  BY <1>1, <1>2 DEF HandlerTyped, Goto, ActiveHandler

(* A handler that ends its request.                                         *)
LEMMA StopTyped ==
  ASSUME HandlerTyped, NEW h \in Handlers, Stop(h)
  PROVE  /\ HandlerTyped'
         /\ handler'[h] = [at |-> "idle"]
         /\ PointsAtSessions(h)'
         /\ \A g \in Handlers \ {h} : handler'[g] = handler[g]
BY DEF HandlerTyped, Stop, IdleHandler, PointsAtSessions, Active, FromDoku, HandlerLabels

(* What TypeOK says of handlers and sessions, after a step of handler h.   *)
LEMMA HandlerMoves ==
  ASSUME TypeOK, NEW h \in Handlers, HandlerTyped', SessionsTyped', SessionsGrow,
         \A g \in Handlers \ {h} : handler'[g] = handler[g],
         PointsAtSessions(h)'
  PROVE  \A g \in Handlers : PointsAtSessions(g)'
BY OthersPoint

(* Types hold when no invoice has been paid or asked for.                  *)
LEMMA InitTypes == Init => TypeOK
<1> SUFFICES ASSUME Init PROVE TypeOK
  OBVIOUS
<1>1. status \in [Invoices -> Statuses]
  BY DEF Init, Statuses
<1>2. sessions \in [Invoices -> Seq(Session)]
      /\ \A i \in Invoices : Len(sessions[i]) <= MaxSessions
  BY BoundsAssumption DEF Init
<1>3. handler \in [Handlers -> IdleHandler \cup SyncingHandler
                                \cup CalledHandler \cup ActiveHandler]
  BY DEF Init, IdleHandler
<1>4. \A h \in Handlers : PointsAtSessions(h)
  BY DEF Init, PointsAtSessions, Active, FromDoku, HandlerLabels
<1>5. shopper \in [Shoppers -> IdleShopper \cup BusyShopper]
  BY DEF Init, IdleShopper
<1> QED
  BY <1>1, <1>2, <1>3, <1>4, <1>5 DEF Init, TypeOK, ActivationStatuses

(* A handler that goes on or stops, with the sessions as they were.        *)
LEMMA GotoPoints ==
  ASSUME TypeOK, NEW h \in Handlers, Active(h), NEW label \in HandlerLabels,
         Goto(h, label), SessionsTyped', SessionsGrow,
         handler[h].via = "manual" => label \in {"read", "notify"}
  PROVE  HandlerTyped' /\ \A g \in Handlers : PointsAtSessions(g)'
<1>1. HandlerTyped
  BY DEF TypeOK, HandlerTyped
<1>2. /\ HandlerTyped'
      /\ handler'[h] \in ActiveHandler
      /\ handler'[h].at = label
      /\ handler'[h].via = handler[h].via
      /\ handler'[h].inv = handler[h].inv
      /\ handler'[h].pay = handler[h].pay
      /\ handler'[h].co = handler[h].co
      /\ \A g \in Handlers \ {h} : handler'[g] = handler[g]
  BY <1>1, GotoTyped
<1> DEFINE i == handler[h].inv
<1>3. i \in Invoices
  BY <1>1, HandlerKinds DEF ActiveHandler
<1>4. Len(sessions[i]) \in Nat /\ Len(sessions'[i]) \in Nat
      /\ Len(sessions[i]) <= Len(sessions'[i])
  BY <1>3 DEF TypeOK, SessionsTyped, SessionsGrow
<1>5. PointsAtSessions(h)
  BY DEF TypeOK
<1>6. PointsAtSessions(h)'
  BY <1>2, <1>4, <1>5 DEF PointsAtSessions, Active, FromDoku, HandlerLabels
<1> QED
  BY <1>2, <1>6, HandlerMoves

(* A handler that stops points at nothing; the others as before.           *)
LEMMA StopPoints ==
  ASSUME TypeOK, NEW h \in Handlers, Stop(h), SessionsTyped', SessionsGrow
  PROVE  HandlerTyped' /\ \A g \in Handlers : PointsAtSessions(g)'
BY StopTyped, HandlerMoves DEF TypeOK, HandlerTyped

(* A step that leaves the sessions alone keeps their types.                *)
LEMMA SameSessions ==
  ASSUME TypeOK, UNCHANGED sessions
  PROVE  SessionsTyped' /\ SessionsGrow
BY DEF TypeOK, SessionsTyped, SessionsGrow

(* Steps that change one session's row, expiry or state at DOKU.           *)
LEMMA OneSession ==
  ASSUME TypeOK, NEW i \in Invoices, NEW k \in 1..Len(sessions[i]),
         \/ sessions' = [sessions EXCEPT ![i][k].expired = TRUE]
         \/ sessions' = [sessions EXCEPT ![i][k].doku = "paid"]
         \/ sessions' = [sessions EXCEPT ![i][k].doku = "acked"]
         \/ sessions' = [sessions EXCEPT ![i][k].row = "paid"]
  PROVE  /\ SessionsTyped' /\ SessionsGrow
         /\ \A j \in Invoices :
              /\ Len(sessions'[j]) = Len(sessions[j])
              /\ \A m \in 1..Len(sessions[j]) :
                   sessions'[j][m].amount = sessions[j][m].amount
<1> DEFINE e == sessions[i][k]
<1>1. SessionsTyped
  BY DEF TypeOK, SessionsTyped
<1>2. e \in Session
  BY <1>1 DEF SessionsTyped
<1>3. PICK f \in Session :
        f.amount = e.amount /\ sessions' = [sessions EXCEPT ![i] = [@ EXCEPT ![k] = f]]
  <2>1. [e EXCEPT !.expired = TRUE] \in Session
    BY <1>2 DEF Session
  <2>2. [e EXCEPT !.doku = "paid"] \in Session
    BY <1>2 DEF Session
  <2>3. [e EXCEPT !.doku = "acked"] \in Session
    BY <1>2 DEF Session
  <2>4. [e EXCEPT !.row = "paid"] \in Session
    BY <1>2 DEF Session
  <2>5. CASE sessions' = [sessions EXCEPT ![i][k].expired = TRUE]
    BY <2>1, <2>5, <1>2 DEF Session
  <2>6. CASE sessions' = [sessions EXCEPT ![i][k].doku = "paid"]
    BY <2>2, <2>6, <1>2 DEF Session
  <2>7. CASE sessions' = [sessions EXCEPT ![i][k].doku = "acked"]
    BY <2>3, <2>7, <1>2 DEF Session
  <2>8. CASE sessions' = [sessions EXCEPT ![i][k].row = "paid"]
    BY <2>4, <2>8, <1>2 DEF Session
  <2> QED BY <2>5, <2>6, <2>7, <2>8
<1>4. /\ SessionsTyped'
      /\ \A j \in Invoices :
           /\ Len(sessions'[j]) = Len(sessions[j])
           /\ \A m \in 1..Len(sessions[j]) :
                sessions'[j][m].amount = sessions[j][m].amount
  BY <1>1, <1>3, SessionUpdate
<1>5. SessionsGrow
  BY <1>1, <1>4 DEF SessionsGrow, SessionsTyped
<1> QED BY <1>4, <1>5

(* The fields a handler past its reading works on.                         *)
LEMMA ActiveFields ==
  ASSUME TypeOK, NEW h \in Handlers, Active(h)
  PROVE  /\ handler[h].inv \in Invoices
         /\ handler[h].pay \in References
         /\ ReferenceOf(handler[h].inv, handler[h].pay) \in References
         /\ handler[h].amount \in Positive
         /\ handler[h].via \in {"webhook", "sync", "manual"}
         /\ handler[h].via # "manual" =>
              /\ handler[h].pay \in SessionIds
              /\ handler[h].pay \in 1..Len(sessions[handler[h].inv])
              /\ handler[h].co \in 1..Len(sessions[handler[h].inv])
<1>1. handler[h] \in ActiveHandler
  BY HandlerKinds DEF TypeOK, HandlerTyped
<1>2. PointsAtSessions(h)
  BY DEF TypeOK
<1>3. handler[h].via # "manual" =>
        /\ handler[h].pay \in 1..Len(sessions[handler[h].inv])
        /\ handler[h].co \in 1..Len(sessions[handler[h].inv])
  BY <1>2 DEF PointsAtSessions, FromDoku
<1>4. Len(sessions[handler[h].inv]) \in Nat
      /\ Len(sessions[handler[h].inv]) <= MaxSessions
  BY <1>1 DEF TypeOK, ActiveHandler
<1> QED
  BY <1>1, <1>3, <1>4, BoundsAssumption
     DEF ActiveHandler, References, SessionIds, ReferenceOf

(* Every step keeps the types: one case per action.                        *)
LEMMA TypeStep == TypeOK /\ [Next]_vars => TypeOK'
<1> SUFFICES ASSUME TypeOK, [Next]_vars PROVE TypeOK'
  OBVIOUS
<1> USE DEF invoiceVars, effectVars
<1>a. HandlerTyped /\ SessionsTyped
  BY DEF TypeOK, HandlerTyped, SessionsTyped
<1>b. ASSUME UNCHANGED <<invoiceVars, notices, activation, credited, refunds, creditErrors>>,
             faults' \in Nat,
             SessionsTyped', HandlerTyped', \A g \in Handlers : PointsAtSessions(g)',
             shopper' \in [Shoppers -> IdleShopper \cup BusyShopper]
      PROVE  TypeOK'
  BY <1>b DEF TypeOK, SessionsTyped, HandlerTyped
<1>c. ASSUME NEW c \in Shoppers, ShopperStep(c) PROVE TypeOK'
  <2>h. UNCHANGED <<invoiceVars, effectVars, handler, faults>>
    BY <1>c DEF ShopperStep, CheckoutLoad, CheckoutFind, CheckoutCreate, CheckoutFail
  <2>1. CASE CheckoutLoad(c)
    <3>1. PICK i \in Invoices :
            /\ RemainingOf(i) > 0
            /\ shopper' = [shopper EXCEPT ![c] =
                 [at |-> "loaded", inv |-> i, amount |-> CeilRupiah(RemainingOf(i))]]
      BY <2>1 DEF CheckoutLoad
    <3>2. RemainingOf(i) \in Nat
      BY <3>1, TotalAssumption DEF TypeOK, RemainingOf
    <3>3. CeilRupiah(RemainingOf(i)) \in Positive
      BY <3>1, <3>2, CeilIsEnough DEF Positive
    <3>4. shopper' \in [Shoppers -> IdleShopper \cup BusyShopper]
      BY <3>1, <3>3 DEF TypeOK, BusyShopper
    <3> QED BY <2>1, <3>4, <2>h, <1>a DEF CheckoutLoad, TypeOK, PointsAtSessions, Active, FromDoku
  <2>2. CASE CheckoutFind(c)
    <3>1. shopper[c] \in BusyShopper
      BY <2>2 DEF CheckoutFind, TypeOK, IdleShopper, BusyShopper
    <3>2. [shopper[c] EXCEPT !.at = "create"] \in BusyShopper
      BY <3>1 DEF BusyShopper
    <3>3. shopper' \in [Shoppers -> IdleShopper \cup BusyShopper]
      BY <2>2, <3>2 DEF CheckoutFind, TypeOK, IdleShopper
    <3> QED BY <2>2, <3>3, <2>h DEF CheckoutFind, TypeOK, PointsAtSessions, Active, FromDoku
  <2>3. CASE CheckoutCreate(c)
    <3> DEFINE i == shopper[c].inv
               e == [amount |-> shopper[c].amount, row |-> "pending",
                     doku |-> "open", expired |-> FALSE]
    <3>1. i \in Invoices /\ shopper[c].amount \in Positive
      BY <2>3 DEF CheckoutCreate, TypeOK, IdleShopper, BusyShopper
    <3>2. e \in Session
      BY <3>1 DEF Session
    <3>3. sessions' = [sessions EXCEPT ![i] = Append(@, e)]
          /\ Len(sessions[i]) < MaxSessions
      BY <2>3 DEF CheckoutCreate
    <3>4. Append(sessions[i], e) \in Seq(Session)
          /\ Len(Append(sessions[i], e)) = Len(sessions[i]) + 1
      BY <3>1, <3>2, <1>a DEF SessionsTyped
    <3>5. SessionsTyped' /\ SessionsGrow
      BY <3>1, <3>3, <3>4, <1>a, BoundsAssumption DEF SessionsTyped, SessionsGrow
    <3>6. \A g \in Handlers : PointsAtSessions(g)'
      BY <2>h, <3>5, OthersPoint
    <3>7. shopper' \in [Shoppers -> IdleShopper \cup BusyShopper]
      BY <2>3 DEF CheckoutCreate, TypeOK, IdleShopper
    <3> QED BY <2>h, <3>5, <3>6, <3>7, <1>a, <1>b DEF TypeOK, HandlerTyped
  <2>4. CASE CheckoutFail(c)
    <3>1. shopper' \in [Shoppers -> IdleShopper \cup BusyShopper]
      BY <2>4 DEF CheckoutFail, TypeOK, IdleShopper
    <3> QED BY <2>4, <3>1, <2>h DEF CheckoutFail, TypeOK, PointsAtSessions, Active, FromDoku
  <2> QED BY <1>c, <2>1, <2>2, <2>3, <2>4 DEF ShopperStep
<1>d. ASSUME NEW i \in Invoices, NEW k \in 1..Len(sessions[i]), Expire(i, k) \/ Pay(i, k)
      PROVE  TypeOK'
  <2>1. SessionsTyped' /\ SessionsGrow
    BY <1>d, OneSession DEF Expire, Pay
  <2>2. UNCHANGED <<invoiceVars, effectVars, handler, shopper, faults>>
    BY <1>d DEF Expire, Pay
  <2>3. \A g \in Handlers : PointsAtSessions(g)'
    BY <2>1, <2>2, OthersPoint
  <2> QED BY <2>1, <2>2, <2>3, <1>a, <1>b DEF TypeOK, HandlerTyped
<1>e. ASSUME NEW h \in Handlers, NEW call, Begin(h, call),
             call \in IdleHandler \cup SyncingHandler \cup CalledHandler \cup ActiveHandler,
             PointsAtSessions(h)'
      PROVE  TypeOK'
  <2>1. UNCHANGED <<invoiceVars, effectVars, sessions, shopper, faults>>
        /\ handler' = [handler EXCEPT ![h] = call]
    BY <1>e DEF Begin
  <2>2. SessionsTyped' /\ SessionsGrow
    BY <2>1, SameSessions
  <2>3. HandlerTyped'
    BY <2>1, <1>e, <1>a DEF HandlerTyped
  <2>4. \A g \in Handlers \ {h} : handler'[g] = handler[g]
    BY <2>1, <1>a DEF HandlerTyped
  <2>5. \A g \in Handlers : PointsAtSessions(g)'
    BY <2>2, <2>3, <2>4, <1>e, HandlerMoves
  <2> QED BY <2>1, <2>2, <2>3, <2>5, <1>b DEF TypeOK
<1>1. ASSUME NEW h \in Handlers, NEW i \in Invoices, NEW k \in 1..Len(sessions[i]),
             Deliver(h, i, k) \/ Resend(h, i, k)
      PROVE  TypeOK'
  <2> DEFINE call == [at |-> "called", via |-> "webhook", inv |-> i, pay |-> k]
  <2>1. Begin(h, call)
    BY <1>1 DEF Deliver, Resend
  <2>2. k \in SessionIds
    BY <1>a, BoundsAssumption DEF SessionsTyped, SessionIds
  <2>3. call \in CalledHandler
    BY <2>2 DEF CalledHandler
  <2>4. handler'[h] = call /\ sessions' = sessions
    BY <2>1, <1>a DEF Begin, HandlerTyped
  <2>5. PointsAtSessions(h)'
    BY <2>4 DEF PointsAtSessions, Active, FromDoku, HandlerLabels
  <2> QED BY <2>1, <2>3, <2>5, <1>e
<1>2. ASSUME NEW h \in Handlers, NEW i \in Invoices, SyncLoad(h, i) PROVE TypeOK'
  <2> DEFINE call == [at |-> "syncing", inv |-> i]
  <2>1. Begin(h, call)
    BY <1>2 DEF SyncLoad
  <2>2. call \in SyncingHandler
    BY DEF SyncingHandler
  <2>3. handler'[h] = call
    BY <2>1, <1>a DEF Begin, HandlerTyped
  <2>4. PointsAtSessions(h)'
    BY <2>3 DEF PointsAtSessions, Active, FromDoku, HandlerLabels
  <2> QED BY <2>1, <2>2, <2>4, <1>e
<1>3. ASSUME NEW h \in Handlers, NEW i \in Invoices, ManualRequest(h, i) PROVE TypeOK'
  <2>1. PICK a \in ManualAmounts :
          Begin(h, [at |-> "read", via |-> "manual", inv |-> i, pay |-> 0,
                    co |-> 0, amount |-> a])
    BY <1>3 DEF ManualRequest
  <2> DEFINE call == [at |-> "read", via |-> "manual", inv |-> i, pay |-> 0,
                      co |-> 0, amount |-> a]
  <2>2. call \in ActiveHandler
    BY ManualAssumption, BoundsAssumption
       DEF ActiveHandler, HandlerLabels, References, Positive
  <2>3. handler'[h] = call
    BY <2>1, <1>a DEF Begin, HandlerTyped
  <2>4. PointsAtSessions(h)'
    BY <2>3 DEF PointsAtSessions, Active, FromDoku, HandlerLabels
  <2> QED BY <2>1, <2>2, <2>4, <1>e
<1>4. ASSUME NEW h \in Handlers, SyncCheck(h) PROVE TypeOK'
  <2> DEFINE i == handler[h].inv
  <2>1. i \in Invoices
    BY <1>4, <1>a, HandlerKinds DEF SyncCheck, SyncingHandler
  <2>2. CASE Begin(h, [at |-> "idle"])
    <3>1. handler'[h] = [at |-> "idle"]
      BY <2>2, <1>a DEF Begin, HandlerTyped
    <3>2. PointsAtSessions(h)'
      BY <3>1 DEF PointsAtSessions, Active, FromDoku, HandlerLabels
    <3> QED BY <2>2, <3>2, <1>e DEF IdleHandler
  <2>3. CASE \E k \in 1..Len(sessions[i]) :
               Begin(h, [at |-> "called", via |-> "sync", inv |-> i, pay |-> k])
    <3>1. PICK k \in 1..Len(sessions[i]) :
            Begin(h, [at |-> "called", via |-> "sync", inv |-> i, pay |-> k])
      BY <2>3
    <3> DEFINE call == [at |-> "called", via |-> "sync", inv |-> i, pay |-> k]
    <3>2. k \in SessionIds
      BY <2>1, <1>a, BoundsAssumption DEF SessionsTyped, SessionIds
    <3>3. call \in CalledHandler
      BY <2>1, <3>2 DEF CalledHandler
    <3>4. handler'[h] = call /\ sessions' = sessions
      BY <3>1, <1>a DEF Begin, HandlerTyped
    <3>5. PointsAtSessions(h)'
      BY <3>4 DEF PointsAtSessions, Active, FromDoku, HandlerLabels
    <3> QED BY <3>1, <3>3, <3>5, <1>e
  <2> QED BY <1>4, <2>2, <2>3 DEF SyncCheck
<1>5. ASSUME NEW h \in Handlers, ReadInvoice(h) PROVE TypeOK'
  <2> DEFINE i == handler[h].inv
             k == handler[h].pay
             call == [at |-> "read", via |-> handler[h].via, inv |-> i, pay |-> k,
                      co |-> Len(sessions[i]), amount |-> Capped(i, sessions[i][k].amount)]
  <2>1. Begin(h, call) /\ handler[h].at = "called"
    BY <1>5 DEF ReadInvoice
  <2>2. handler[h] \in CalledHandler
    BY <2>1, <1>a, HandlerKinds
  <2>3. i \in Invoices /\ k \in SessionIds /\ handler[h].via \in {"webhook", "sync"}
    BY <2>2 DEF CalledHandler
  <2>4. k \in 1..Len(sessions[i])
    BY <2>1 DEF TypeOK, PointsAtSessions
  <2>5. Len(sessions[i]) \in 1..MaxSessions
    BY <2>3, <2>4, <1>a, BoundsAssumption DEF SessionsTyped
  <2>6. sessions[i][k] \in Session
    BY <2>3, <2>4, <1>a DEF SessionsTyped
  <2>7. RemainingOf(i) \in Int
    BY <2>3, TotalAssumption DEF RemainingOf, TypeOK
  <2>8. Capped(i, sessions[i][k].amount) \in Positive
    BY <2>6, <2>7 DEF Capped, Session, Positive
  <2>9. call \in ActiveHandler
    BY <2>3, <2>5, <2>8, BoundsAssumption
       DEF ActiveHandler, HandlerLabels, References, SessionIds
  <2>10. handler'[h] = call /\ sessions' = sessions
    BY <2>1, <1>a DEF Begin, HandlerTyped
  <2>11. PointsAtSessions(h)'
    BY <2>4, <2>5, <2>10 DEF PointsAtSessions, Active, FromDoku, HandlerLabels
  <2> QED BY <2>1, <2>9, <2>11, <1>e
<1>6. ASSUME NEW h \in Handlers, RecordRepeat(h) PROVE TypeOK'
  <2>1. Active(h) /\ AfterRepeat(handler[h].inv) \in HandlerLabels
        /\ handler[h].via # "manual" /\ Goto(h, AfterRepeat(handler[h].inv))
    BY <1>6 DEF RecordRepeat, IsRepeat, Active, HandlerLabels, AfterRepeat
  <2>2. UNCHANGED <<invoiceVars, effectVars, sessions, shopper, faults>>
    BY <1>6 DEF RecordRepeat
  <2>3. SessionsTyped' /\ SessionsGrow
    BY <2>2, SameSessions
  <2>4. HandlerTyped' /\ \A g \in Handlers : PointsAtSessions(g)'
    BY <2>1, <2>3, GotoPoints
  <2> QED BY <2>2, <2>3, <2>4, <1>b DEF TypeOK
<1>7. ASSUME NEW h \in Handlers, RecordRefuse(h) PROVE TypeOK'
  <2>1. Active(h)
    BY <1>7 DEF RecordRefuse, Active, HandlerLabels
  <2>2. UNCHANGED <<invoiceVars, notices, activation, credited, creditErrors,
                    sessions, shopper, faults>>
    BY <1>7 DEF RecordRefuse
  <2>3. SessionsTyped' /\ SessionsGrow
    BY <2>2, SameSessions
  <2>4. HandlerTyped' /\ \A g \in Handlers : PointsAtSessions(g)'
    <3>1. CASE handler[h].via = "manual"
      BY <3>1, <1>7, <2>3, StopPoints DEF RecordRefuse
    <3>2. CASE handler[h].via # "manual"
      BY <3>2, <1>7, <2>1, <2>3, GotoPoints DEF RecordRefuse, HandlerLabels
    <3> QED BY <3>1, <3>2
  <2>5. refunds' \subseteq RefundEntry
    <3>1. /\ handler[h].inv \in Invoices
          /\ handler[h].via # "manual" => handler[h].pay \in SessionIds
      BY <2>1, ActiveFields
    <3> DEFINE why == IF Payable(handler[h].inv) THEN "exceeds" ELSE "not_payable"
               entry == [inv |-> handler[h].inv, pay |-> handler[h].pay, why |-> why]
    <3>2. why \in {"not_payable", "exceeds"}
      OBVIOUS
    <3>3. handler[h].via # "manual" => refunds' = refunds \cup {entry}
      BY <1>7 DEF RecordRefuse
    <3>4. handler[h].via = "manual" => refunds' = refunds
      BY <1>7 DEF RecordRefuse
    <3> HIDE DEF why
    <3>5. handler[h].via # "manual" => entry \in RefundEntry
      BY <3>1, <3>2 DEF RefundEntry
    <3> QED BY <3>3, <3>4, <3>5 DEF TypeOK
  <2> QED BY <2>2, <2>3, <2>4, <2>5 DEF TypeOK, HandlerTyped, SessionsTyped
<1>8. ASSUME NEW h \in Handlers, RecordNew(h) PROVE TypeOK'
  <2> DEFINE i == handler[h].inv
             r == ReferenceOf(i, handler[h].pay)
             a == handler[h].amount
  <2>1. Active(h)
    BY <1>8 DEF RecordNew, Active, HandlerLabels
  <2>2. UNCHANGED <<effectVars, sessions, shopper, faults>>
    BY <1>8 DEF RecordNew
  <2>3. SessionsTyped' /\ SessionsGrow
    BY <2>2, SameSessions
  <2>4. HandlerTyped' /\ \A g \in Handlers : PointsAtSessions(g)'
    <3>1. CASE Goto(h, "notify")
      BY <3>1, <2>1, <2>3, GotoPoints DEF HandlerLabels
    <3>2. CASE Stop(h)
      BY <3>2, <2>3, StopPoints
    <3>3. CASE Goto(h, "mark") /\ handler[h].via # "manual"
      BY <3>3, <2>1, <2>3, GotoPoints DEF HandlerLabels
    <3> QED BY <1>8, <3>1, <3>2, <3>3 DEF RecordNew
  <2>5. i \in Invoices /\ r \in References /\ a \in Nat
    BY <2>1, ActiveFields DEF Positive
  <2>6. status' \in [Invoices -> Statuses]
    BY <1>8, <2>5 DEF RecordNew, TypeOK, Statuses
  <2>7. amountPaid' \in [Invoices -> Nat]
    BY <1>8, <2>5 DEF RecordNew, TypeOK
  <2>8. rows' \in [Invoices -> [References -> Nat]]
    <3>1. rows' = rows \/ rows' = [rows EXCEPT ![i] = [@ EXCEPT ![r] = a]]
      BY <1>8 DEF RecordNew
    <3>2. [rows[i] EXCEPT ![r] = a] \in [References -> Nat]
      BY <2>5 DEF TypeOK
    <3> QED BY <3>1, <3>2, <2>5 DEF TypeOK
  <2> QED BY <2>2, <2>3, <2>4, <2>6, <2>7, <2>8 DEF TypeOK, HandlerTyped, SessionsTyped
<1>9. ASSUME NEW h \in Handlers, Notify(h) \/ Replay(h) PROVE TypeOK'
  <2>1. Active(h)
    BY <1>9 DEF Notify, Replay, Active, HandlerLabels
  <2>2. UNCHANGED <<invoiceVars, credited, refunds, creditErrors, sessions, shopper>>
    BY <1>9 DEF Notify, Replay
  <2>3. SessionsTyped' /\ SessionsGrow
    BY <2>2, SameSessions
  <2>4. HandlerTyped' /\ \A g \in Handlers : PointsAtSessions(g)'
    <3>1. CASE Stop(h)
      BY <3>1, <2>3, StopPoints
    <3>2. CASE Goto(h, "mark") /\ handler[h].via # "manual"
      BY <3>2, <2>1, <2>3, GotoPoints DEF HandlerLabels
    <3> QED BY <1>9, <3>1, <3>2 DEF Notify, Replay, AfterListeners
  <2>5. handler[h].inv \in Invoices
    BY <2>1, ActiveFields
  <2>6. notices' \in [Invoices -> Nat]
    <3>1. CASE Notify(h)
      BY <3>1, <2>5 DEF Notify, TypeOK
    <3>2. CASE Replay(h)
      BY <3>2, <2>5 DEF Replay, TypeOK
    <3> QED BY <1>9, <3>1, <3>2
  <2>7. Settle(handler[h].inv)
    BY <1>9 DEF Notify, Replay
  <2>8. faults' \in Nat
    BY <2>7 DEF Settle, TypeOK
  <2>9. /\ activation \in [Invoices -> ActivationStatuses]
        /\ "settled" \in ActivationStatuses /\ "failed" \in ActivationStatuses
    BY DEF TypeOK, ActivationStatuses
  <2>10. activation' \in [Invoices -> ActivationStatuses]
    BY <2>5, <2>7, <2>9 DEF Settle
  <2> QED BY <2>2, <2>3, <2>4, <2>6, <2>8, <2>10 DEF TypeOK, HandlerTyped, SessionsTyped
<1>10. ASSUME NEW h \in Handlers, Active(h), handler[h].via # "manual",
              NEW label \in HandlerLabels, Goto(h, label), SessionsTyped', SessionsGrow,
              UNCHANGED <<invoiceVars, notices, activation, refunds, shopper>>,
              credited' \in [Invoices -> [References -> Nat]],
              creditErrors' \subseteq Invoices \X References, faults' \in Nat
       PROVE  TypeOK'
  <2>1. HandlerTyped' /\ \A g \in Handlers : PointsAtSessions(g)'
    BY <1>10, GotoPoints
  <2> QED BY <2>1, <1>10 DEF TypeOK, HandlerTyped, SessionsTyped
<1>11. ASSUME NEW h \in Handlers, handler[h].at \in {"mark", "credit", "answer"}
       PROVE  Active(h) /\ handler[h].via # "manual"
  <2>1. Active(h)
    BY <1>11 DEF Active, HandlerLabels
  <2>2. PointsAtSessions(h)
    BY DEF TypeOK
  <2> QED BY <1>11, <2>1, <2>2 DEF PointsAtSessions, FromDoku
<1>12. ASSUME NEW h \in Handlers, MarkSession(h) PROVE TypeOK'
  <2>1. Active(h) /\ handler[h].via # "manual"
    BY <1>11, <1>12 DEF MarkSession
  <2>2. SessionsTyped' /\ SessionsGrow
    BY <1>12, <2>1, ActiveFields, OneSession DEF MarkSession
  <2> QED BY <1>12, <2>1, <2>2, <1>10 DEF MarkSession, TypeOK, HandlerLabels
<1>13. ASSUME NEW h \in Handlers, Credit(h) PROVE TypeOK'
  <2> DEFINE i == handler[h].inv
             r == ReferenceOf(i, handler[h].pay)
  <2>1. Active(h) /\ handler[h].via # "manual"
    BY <1>11, <1>13 DEF Credit
  <2>2. i \in Invoices /\ r \in References
    BY <2>1, ActiveFields
  <2>3. credited' = credited \/ credited' = [credited EXCEPT ![i] = [@ EXCEPT ![r] = rows[i][r]]]
    BY <1>13 DEF Credit, CreditOnce
  <2>4. [credited[i] EXCEPT ![r] = rows[i][r]] \in [References -> Nat]
    BY <2>2 DEF TypeOK
  <2>5. credited' \in [Invoices -> [References -> Nat]]
    BY <2>2, <2>3, <2>4 DEF TypeOK
  <2>6. SessionsTyped' /\ SessionsGrow
    BY <1>13, SameSessions DEF Credit
  <2> QED BY <1>13, <2>1, <2>5, <2>6, <1>10 DEF Credit, TypeOK, HandlerLabels
<1>14. ASSUME NEW h \in Handlers, CreditFails(h) PROVE TypeOK'
  <2>1. Active(h) /\ handler[h].via # "manual"
    BY <1>11, <1>14 DEF CreditFails
  <2>2. handler[h].inv \in Invoices
        /\ ReferenceOf(handler[h].inv, handler[h].pay) \in References
    BY <2>1, ActiveFields
  <2>3. SessionsTyped' /\ SessionsGrow
    BY <1>14, SameSessions DEF CreditFails
  <2>4. creditErrors' \subseteq Invoices \X References /\ faults' \in Nat
    BY <1>14, <2>2 DEF CreditFails, TypeOK
  <2> QED BY <1>14, <2>1, <2>3, <2>4, <1>10 DEF CreditFails, TypeOK, HandlerLabels
<1>15. ASSUME NEW h \in Handlers, MarkFails(h) PROVE TypeOK'
  <2>1. Active(h) /\ handler[h].via # "manual"
    BY <1>11, <1>15 DEF MarkFails
  <2>2. SessionsTyped' /\ SessionsGrow
    BY <1>15, SameSessions DEF MarkFails
  <2>3. faults' \in Nat
    BY <1>15 DEF MarkFails, TypeOK
  <2>4. UNCHANGED <<invoiceVars, effectVars, shopper>> /\ Goto(h, "credit")
    BY <1>15 DEF MarkFails
  <2> QED BY <2>1, <2>2, <2>3, <2>4, <1>10 DEF TypeOK, HandlerLabels
<1>16. ASSUME NEW h \in Handlers, Answer(h) PROVE TypeOK'
  <2>1. Active(h) /\ handler[h].via # "manual"
    BY <1>11, <1>16 DEF Answer
  <2>2. SessionsTyped' /\ SessionsGrow
    <3>1. CASE UNCHANGED sessions
      BY <3>1, SameSessions
    <3>2. CASE sessions' = [sessions EXCEPT ![handler[h].inv][handler[h].pay].doku = "acked"]
      BY <3>2, <2>1, ActiveFields, OneSession
    <3> QED BY <1>16, <3>1, <3>2 DEF Answer
  <2>3. HandlerTyped' /\ \A g \in Handlers : PointsAtSessions(g)'
    BY <1>16, <2>2, StopPoints DEF Answer
  <2> QED BY <1>16, <2>2, <2>3, <1>b DEF Answer, TypeOK
<1>17. ASSUME NEW h \in Handlers, Crash(h) PROVE TypeOK'
  <2>1. SessionsTyped' /\ SessionsGrow
    BY <1>17, SameSessions DEF Crash
  <2>2. HandlerTyped' /\ \A g \in Handlers : PointsAtSessions(g)'
    BY <1>17, <2>1, StopPoints DEF Crash
  <2> QED BY <1>17, <2>1, <2>2, <1>b DEF Crash, TypeOK
<1>18. ASSUME NEW i \in Invoices, Void(i) \/ MarkOverdue(i) PROVE TypeOK'
  <2>1. UNCHANGED <<amountPaid, rows, effectVars, sessions, handler, shopper, faults>>
    BY <1>18 DEF Void, MarkOverdue
  <2>2. status' \in [Invoices -> Statuses]
    BY <1>18 DEF Void, MarkOverdue, TypeOK, Statuses
  <2> QED BY <2>1, <2>2 DEF TypeOK, PointsAtSessions, Active, FromDoku
<1>19. CASE UNCHANGED vars
  BY <1>19 DEF vars, TypeOK, PointsAtSessions, Active, FromDoku
<1> QED
  BY <1>c, <1>d, <1>1, <1>2, <1>3, <1>4, <1>5, <1>6, <1>7, <1>8, <1>9, <1>12,
     <1>13, <1>14, <1>15, <1>16, <1>17, <1>18, <1>19
     DEF Next, HandlerStep, FaultStep

-----------------------------------------------------------------------------
(* Money *)

(* Sessions, the requests that make them and the notifications of them all *)
(* carry at least what remains of the invoice.                             *)
SessionsAskEnough ==
  \A i \in Invoices : \A k \in 1..Len(sessions[i]) :
    sessions[i][k].amount >= RemainingOf(i)

AsksEnough(c) ==
  shopper[c].at # "idle" => shopper[c].amount >= RemainingOf(shopper[c].inv)

ShoppersAskEnough == \A c \in Shoppers : AsksEnough(c)

CarriesEnough(h) ==
  handler[h].at = "read" /\ handler[h].via # "manual"
    => handler[h].amount >= RemainingOf(handler[h].inv)

HandlersCarryEnough == \A h \in Handlers : CarriesEnough(h)

MoneyInv ==
  /\ BalanceOK
  /\ DokuPaymentSettles
  /\ SessionsAskEnough
  /\ ShoppersAskEnough
  /\ HandlersCarryEnough

(* Nothing is paid and nothing asked for at the start.                     *)
LEMMA InitMoney == Init => MoneyInv
BY TotalAssumption
   DEF Init, MoneyInv, BalanceOK, DokuPaymentSettles, SessionsAskEnough,
       ShoppersAskEnough, AsksEnough, HandlersCarryEnough, CarriesEnough,
       Payable

(* The steps after which handler h is not about to record. *)
Settles(h) ==
  \/ SyncCheck(h) \/ RecordRepeat(h) \/ RecordRefuse(h) \/ RecordNew(h)
  \/ Notify(h) \/ Replay(h) \/ MarkSession(h) \/ Credit(h) \/ Answer(h)
  \/ FaultStep(h)

(* After these steps h is not about to record, and the others stand still. *)
LEMMA HandlerStops ==
  ASSUME TypeOK, NEW h \in Handlers, Settles(h)
  PROVE  /\ handler'[h].at # "read"
         /\ \A g \in Handlers \ {h} : handler'[g] = handler[g]
         /\ UNCHANGED shopper
<1> DEFINE Moves == /\ handler'[h].at # "read"
                    /\ \A g \in Handlers \ {h} : handler'[g] = handler[g]
<1>t. HandlerTyped
  BY DEF TypeOK, HandlerTyped
<1>g. ASSUME NEW label \in HandlerLabels \ {"read"}, Goto(h, label) PROVE Moves
  BY <1>g, <1>t DEF Goto, HandlerTyped
<1>s. ASSUME Stop(h) PROVE Moves
  BY <1>s, <1>t DEF Stop, HandlerTyped
<1>b. ASSUME NEW call, call.at # "read", Begin(h, call) PROVE Moves
  BY <1>b, <1>t DEF Begin, HandlerTyped
<1> HIDE DEF Moves
<1>1. ASSUME SyncCheck(h) PROVE Moves
  <2>1. ASSUME Begin(h, [at |-> "idle"]) PROVE Moves
    BY <2>1, <1>b
  <2>2. ASSUME NEW k \in 1..Len(sessions[handler[h].inv]),
               Begin(h, [at |-> "called", via |-> "sync", inv |-> handler[h].inv, pay |-> k])
        PROVE  Moves
    BY <2>2, <1>b
  <2> QED BY <1>1, <2>1, <2>2 DEF SyncCheck
<1>2. ASSUME RecordRepeat(h) PROVE Moves
  BY <1>2, <1>g DEF RecordRepeat, AfterRepeat, HandlerLabels
<1>3. ASSUME RecordRefuse(h) PROVE Moves
  BY <1>3, <1>g, <1>s DEF RecordRefuse, HandlerLabels
<1>4. ASSUME RecordNew(h) PROVE Moves
  BY <1>4, <1>g, <1>s DEF RecordNew, HandlerLabels
<1>5. ASSUME Notify(h) \/ Replay(h) PROVE Moves
  BY <1>5, <1>g, <1>s DEF Notify, Replay, Settle, AfterListeners, HandlerLabels
<1>6. ASSUME MarkSession(h) \/ Credit(h) \/ Answer(h) \/ FaultStep(h) PROVE Moves
  BY <1>6, <1>g, <1>s
     DEF MarkSession, Credit, Answer, FaultStep, CreditFails, MarkFails, Crash,
         HandlerLabels
<1>7. Moves
  BY <1>1, <1>2, <1>3, <1>4, <1>5, <1>6 DEF Settles
<1>8. UNCHANGED shopper
  BY DEF Settles, SyncCheck, RecordRepeat, RecordRefuse, RecordNew, Notify, Replay, Settle,
         MarkSession, Credit, Answer, FaultStep, CreditFails, MarkFails, Crash, Begin
<1> QED BY <1>7, <1>8 DEF Moves

(* Only RecordNew, Void and MarkOverdue write an invoice, and each of them *)
(* looks at the status first.                                              *)
LEMMA InvoiceWriters ==
  ASSUME [Next]_vars
  PROVE  \/ \E h \in Handlers : RecordNew(h)
         \/ \E i \in Invoices : Void(i) \/ MarkOverdue(i)
         \/ UNCHANGED invoiceVars
BY DEF vars, invoiceVars, Next, ShopperStep, CheckoutLoad, CheckoutFind,
       CheckoutCreate, CheckoutFail, Expire, Pay, Deliver, Resend, SyncLoad,
       ManualRequest, Begin, HandlerStep, SyncCheck, ReadInvoice, RecordRepeat,
       RecordRefuse, Notify, Replay, Settle, MarkSession, Credit, Answer, FaultStep,
       CreditFails, MarkFails, Crash

(* Recording a payment keeps the sums, and settles the invoice if DOKU     *)
(* took the money.                                                         *)
LEMMA RecordKeepsMoney ==
  ASSUME TypeOK, MoneyInv, NEW h \in Handlers, RecordNew(h)
  PROVE  /\ BalanceOK' /\ DokuPaymentSettles'
         /\ \A i \in Invoices : amountPaid[i] <= amountPaid'[i]
<1> DEFINE i == handler[h].inv
           r == ReferenceOf(i, handler[h].pay)
           a == handler[h].amount
           full == amountPaid[i] + a = Total[i]
<1>1. Active(h)
  BY DEF RecordNew, Active, HandlerLabels
<1>2. i \in Invoices /\ r \in References /\ a \in Nat \ {0}
  BY <1>1, ActiveFields DEF Positive
<1>3. \A j \in Invoices : amountPaid[j] \in Nat /\ Total[j] \in Nat
  BY TotalAssumption DEF TypeOK
<1>4. Payable(i) /\ a <= Total[i] - amountPaid[i] /\ status[i] # "paid"
  BY DEF RecordNew, Fits, RemainingOf, Payable
<1>5. handler[h].via # "manual" => full
  BY <1>2, <1>3, <1>4 DEF RecordNew, MoneyInv, HandlersCarryEnough, CarriesEnough, RemainingOf
<1>6. /\ status' = [status EXCEPT ![i] = IF full THEN "paid" ELSE @]
      /\ amountPaid' = [amountPaid EXCEPT ![i] = @ + a]
      /\ rows' = rows \/ (full /\ rows' = [rows EXCEPT ![i][r] = a])
  BY <1>5 DEF RecordNew
<1> HIDE DEF full
<1>7. /\ amountPaid'[i] = amountPaid[i] + a
      /\ status'[i] = IF full THEN "paid" ELSE status[i]
      /\ \A j \in Invoices \ {i} : amountPaid'[j] = amountPaid[j] /\ status'[j] = status[j]
                                   /\ rows'[j] = rows[j]
  BY <1>2, <1>6 DEF TypeOK
<1>8. BalanceOK'
  <2>1. amountPaid'[i] <= Total[i] /\ (full <=> amountPaid'[i] = Total[i])
    BY <1>2, <1>3, <1>4, <1>7 DEF full
  <2>2. status[i] # "void"
    BY <1>4 DEF Payable
  <2>3. \A j \in Invoices \ {i} : amountPaid'[j] = amountPaid[j] /\ status'[j] = status[j]
    BY <1>7
  <2>4. status'[i] = "paid" <=> full
    BY <1>4, <1>7
  <2>5. /\ amountPaid'[i] <= Total[i]
        /\ status'[i] = "paid" => amountPaid'[i] = Total[i]
        /\ status'[i] \in {"issued", "overdue"} /\ Total[i] > 0 => amountPaid'[i] < Total[i]
        /\ status'[i] # "void"
    BY <1>2, <1>3, <1>7, <2>1, <2>2, <2>4
  <2> QED BY <1>2, <2>3, <2>5 DEF MoneyInv, BalanceOK, Payable
<1>9. \A s \in References : rows[i][s] = 0
  BY <1>2, <1>4 DEF MoneyInv, DokuPaymentSettles, TypeOK
<1>10. DokuPaymentSettles'
  <2>1. \A s \in References : rows'[i][s] > 0 => s = r /\ full
    BY <1>2, <1>6, <1>9 DEF TypeOK
  <2> QED BY <1>2, <1>7, <2>1 DEF MoneyInv, DokuPaymentSettles
<1>11. \A j \in Invoices : amountPaid[j] <= amountPaid'[j]
  BY <1>2, <1>3, <1>7
<1> QED BY <1>8, <1>10, <1>11

(* The other steps change the invoice's status only, if anything.          *)
LEMMA InvoicesKeepMoney ==
  ASSUME TypeOK, MoneyInv, [Next]_vars
  PROVE  /\ BalanceOK' /\ DokuPaymentSettles'
         /\ \A i \in Invoices : amountPaid[i] <= amountPaid'[i]
<1>1. ASSUME NEW h \in Handlers, RecordNew(h)
      PROVE  /\ BalanceOK' /\ DokuPaymentSettles'
             /\ \A i \in Invoices : amountPaid[i] <= amountPaid'[i]
  BY <1>1, RecordKeepsMoney
<1>2. ASSUME NEW i \in Invoices, Void(i) \/ MarkOverdue(i)
      PROVE  BalanceOK' /\ DokuPaymentSettles' /\ amountPaid' = amountPaid
  <2>1. /\ amountPaid' = amountPaid /\ rows' = rows
        /\ status[i] # "paid"
        /\ \/ status' = [status EXCEPT ![i] = "void"] /\ amountPaid[i] = 0
           \/ status' = [status EXCEPT ![i] = "overdue"] /\ status[i] = "issued"
    BY <1>2 DEF Void, MarkOverdue, Payable
  <2>2. BalanceOK'
    BY <2>1 DEF MoneyInv, BalanceOK, Payable, TypeOK
  <2>3. DokuPaymentSettles'
    BY <2>1 DEF MoneyInv, DokuPaymentSettles, TypeOK
  <2> QED BY <2>1, <2>2, <2>3
<1>3. CASE UNCHANGED invoiceVars
  <2>1. BalanceOK'
    BY <1>3 DEF invoiceVars, MoneyInv, BalanceOK, Payable
  <2>2. DokuPaymentSettles'
    BY <1>3 DEF invoiceVars, MoneyInv, DokuPaymentSettles
  <2> QED BY <2>1, <2>2, <1>3 DEF invoiceVars, TypeOK
<1> QED BY <1>1, <1>2, <1>3, InvoiceWriters DEF TypeOK

(* What a session asks for never changes, and a new one asks for what its  *)
(* request found remaining.                                                *)
LEMMA SessionsKeepAsking ==
  ASSUME TypeOK, MoneyInv, [Next]_vars,
         \A i \in Invoices : RemainingOf(i)' \in Int /\ RemainingOf(i)' <= RemainingOf(i)
  PROVE  SessionsAskEnough'
<1>1. SessionsTyped
  BY DEF TypeOK, SessionsTyped
<1>2. \A i \in Invoices : RemainingOf(i) \in Int
  BY TotalAssumption DEF TypeOK, RemainingOf
<1>3. ASSUME \A j \in Invoices :
               /\ Len(sessions'[j]) = Len(sessions[j])
               /\ \A m \in 1..Len(sessions[j]) :
                    sessions'[j][m].amount = sessions[j][m].amount
      PROVE  SessionsAskEnough'
  <2> SUFFICES ASSUME NEW j \in Invoices, NEW m \in 1..Len(sessions[j])
               PROVE  sessions'[j][m].amount >= RemainingOf(j)'
    BY <1>3 DEF SessionsAskEnough
  <2>1. sessions[j][m] \in Session
    BY <1>1 DEF SessionsTyped
  <2> QED BY <2>1, <1>2, <1>3 DEF Session, Positive, MoneyInv, SessionsAskEnough
<1>4. ASSUME NEW c \in Shoppers, CheckoutCreate(c) PROVE SessionsAskEnough'
  <2> DEFINE i == shopper[c].inv
             e == [amount |-> shopper[c].amount, row |-> "pending",
                   doku |-> "open", expired |-> FALSE]
  <2>1. shopper[c] \in BusyShopper /\ shopper[c].at # "idle"
    BY <1>4 DEF CheckoutCreate, TypeOK, IdleShopper, BusyShopper
  <2>2. i \in Invoices /\ shopper[c].amount \in Positive
    BY <2>1 DEF BusyShopper
  <2>3. shopper[c].amount >= RemainingOf(i)
    BY <2>1 DEF MoneyInv, ShoppersAskEnough, AsksEnough
  <2>4. sessions' = [sessions EXCEPT ![i] = Append(@, e)]
    BY <1>4 DEF CheckoutCreate
  <2> SUFFICES ASSUME NEW j \in Invoices, NEW m \in 1..Len(sessions'[j])
               PROVE  sessions'[j][m].amount >= RemainingOf(j)'
    BY DEF SessionsAskEnough
  <2>5. RemainingOf(j)' \in Int /\ RemainingOf(j)' <= RemainingOf(j) /\ RemainingOf(j) \in Int
    BY <1>2
  <2>6. sessions[j] \in Seq(Session)
    BY <1>1 DEF SessionsTyped
  <2>7. CASE j = i /\ m = Len(sessions[j]) + 1
    <3>1. sessions'[j] = Append(sessions[j], e)
      BY <2>4, <2>7, <1>1 DEF SessionsTyped
    <3>2. sessions'[j][m] = e
      BY <3>1, <2>6, <2>7
    <3>3. sessions'[j][m].amount = shopper[c].amount
      BY <3>2
    <3> QED BY <3>3, <2>2, <2>3, <2>5, <2>7 DEF Positive
  <2>8. CASE ~(j = i /\ m = Len(sessions[j]) + 1)
    <3>1. m \in 1..Len(sessions[j]) /\ sessions'[j][m] = sessions[j][m]
      BY <2>2, <2>4, <2>6, <2>8, <1>1 DEF SessionsTyped
    <3>2. sessions[j][m] \in Session
      BY <3>1, <2>6
    <3> QED BY <3>1, <3>2, <2>5 DEF Session, Positive, MoneyInv, SessionsAskEnough
  <2> QED BY <2>7, <2>8
<1>5. ASSUME UNCHANGED sessions PROVE SessionsAskEnough'
  BY <1>3, <1>5
<1>6. ASSUME NEW i \in Invoices, NEW k \in 1..Len(sessions[i]), Expire(i, k) \/ Pay(i, k)
      PROVE  SessionsAskEnough'
  BY <1>3, <1>6, OneSession DEF Expire, Pay
<1>7. ASSUME NEW h \in Handlers, MarkSession(h) \/ Answer(h) PROVE SessionsAskEnough'
  <2>1. Active(h)
    BY <1>7 DEF MarkSession, Answer, Active, HandlerLabels
  <2>2. handler[h].via # "manual"
    <3>1. PointsAtSessions(h)
      BY DEF TypeOK
    <3> QED BY <1>7, <2>1, <3>1 DEF MarkSession, Answer, PointsAtSessions, FromDoku
  <2>3. /\ handler[h].inv \in Invoices
        /\ handler[h].pay \in 1..Len(sessions[handler[h].inv])
        /\ handler[h].co \in 1..Len(sessions[handler[h].inv])
    BY <2>1, <2>2, ActiveFields
  <2>4. \/ UNCHANGED sessions
        \/ sessions' = [sessions EXCEPT ![handler[h].inv][handler[h].co].row = "paid"]
        \/ sessions' = [sessions EXCEPT ![handler[h].inv][handler[h].pay].doku = "acked"]
    BY <1>7 DEF MarkSession, Answer
  <2> QED BY <1>3, <1>5, <2>3, <2>4, OneSession
<1>8. \/ \E c \in Shoppers : CheckoutCreate(c)
      \/ \E i \in Invoices : \E k \in 1..Len(sessions[i]) : Expire(i, k) \/ Pay(i, k)
      \/ \E h \in Handlers : MarkSession(h) \/ Answer(h)
      \/ UNCHANGED sessions
  BY DEF vars, Next, ShopperStep, CheckoutLoad, CheckoutFind, CheckoutFail,
         Deliver, Resend, SyncLoad, ManualRequest, Begin, HandlerStep, SyncCheck,
         ReadInvoice, RecordRepeat, RecordRefuse, RecordNew, Notify, Replay, Settle, Credit,
         FaultStep, CreditFails, MarkFails, Crash, Void, MarkOverdue
<1> QED BY <1>4, <1>5, <1>6, <1>7, <1>8

(* The same of the requests that are about to make a session.              *)
LEMMA ShoppersKeepAsking ==
  ASSUME TypeOK, MoneyInv, [Next]_vars,
         \A i \in Invoices : amountPaid'[i] \in Nat /\ amountPaid[i] <= amountPaid'[i]
  PROVE  ShoppersAskEnough'
<1> USE DEF RemainingOf
<1>1. \A i \in Invoices : amountPaid[i] \in Nat /\ Total[i] \in Nat
  BY TotalAssumption DEF TypeOK
<1>2. ASSUME NEW d \in Shoppers, shopper[d].at # "idle" => shopper[d] \in BusyShopper,
             \/ shopper'[d].at = "idle"
             \/ /\ shopper[d].at # "idle"
                /\ shopper'[d].inv = shopper[d].inv
                /\ shopper'[d].amount = shopper[d].amount
      PROVE  AsksEnough(d)'
  <2>1. AsksEnough(d)
    BY DEF MoneyInv, ShoppersAskEnough
  <2> QED BY <2>1, <1>1, <1>2 DEF AsksEnough, BusyShopper, Positive
<1>3. \A d \in Shoppers : shopper[d].at # "idle" => shopper[d] \in BusyShopper
  BY DEF TypeOK, IdleShopper
<1>4. ASSUME NEW d \in Shoppers, shopper'[d] = shopper[d] PROVE AsksEnough(d)'
  BY <1>2, <1>3, <1>4
<1>5. ASSUME NEW c \in Shoppers, CheckoutLoad(c) PROVE AsksEnough(c)'
  <2>1. PICK i \in Invoices :
          shopper' = [shopper EXCEPT ![c] =
            [at |-> "loaded", inv |-> i, amount |-> CeilRupiah(RemainingOf(i))]]
          /\ RemainingOf(i) > 0
    BY <1>5 DEF CheckoutLoad
  <2>2. RemainingOf(i) \in Nat
    BY <2>1, <1>1
  <2>3. CeilRupiah(RemainingOf(i)) \in Nat /\ CeilRupiah(RemainingOf(i)) >= RemainingOf(i)
    BY <2>2, CeilIsEnough
  <2>4. shopper'[c].inv = i /\ shopper'[c].amount = CeilRupiah(RemainingOf(i))
    BY <2>1 DEF TypeOK
  <2> QED BY <1>1, <2>3, <2>4 DEF AsksEnough
<1>6. ASSUME NEW c \in Shoppers, CheckoutFind(c) PROVE AsksEnough(c)'
  <2>1. shopper[c] \in BusyShopper /\ shopper[c].at # "idle"
    BY <1>6, <1>3 DEF CheckoutFind
  <2>2. \/ shopper'[c].at = "idle"
        \/ /\ shopper'[c].inv = shopper[c].inv
           /\ shopper'[c].amount = shopper[c].amount
    BY <1>6, <2>1 DEF CheckoutFind, TypeOK, BusyShopper
  <2> QED BY <1>2, <2>1, <2>2
<1>7. ASSUME NEW c \in Shoppers, CheckoutCreate(c) \/ CheckoutFail(c) PROVE AsksEnough(c)'
  <2>1. shopper'[c].at = "idle"
    BY <1>7 DEF CheckoutCreate, CheckoutFail, TypeOK
  <2> QED BY <1>2, <1>3, <2>1
<1>8. ASSUME NEW c \in Shoppers, ShopperStep(c), NEW d \in Shoppers \ {c}
      PROVE  shopper'[d] = shopper[d]
  BY <1>8 DEF ShopperStep, CheckoutLoad, CheckoutFind, CheckoutCreate, CheckoutFail, TypeOK
<1>9. ASSUME NEW c \in Shoppers, ShopperStep(c) PROVE ShoppersAskEnough'
  BY <1>4, <1>5, <1>6, <1>7, <1>8, <1>9 DEF ShopperStep, ShoppersAskEnough
<1>10. ASSUME UNCHANGED shopper PROVE ShoppersAskEnough'
  BY <1>4, <1>10 DEF ShoppersAskEnough
<1>11. (\E c \in Shoppers : ShopperStep(c)) \/ UNCHANGED shopper
  BY DEF vars, Next, Expire, Pay, Deliver, Resend, SyncLoad, ManualRequest, Begin,
         HandlerStep, SyncCheck, ReadInvoice, RecordRepeat, RecordRefuse, RecordNew,
         Notify, Replay, Settle, MarkSession, Credit, Answer, FaultStep, CreditFails,
         MarkFails, Crash, Void, MarkOverdue
<1> QED BY <1>9, <1>10, <1>11

(* And of the notifications that are about to be recorded.                 *)
LEMMA HandlersKeepCarrying ==
  ASSUME TypeOK, MoneyInv, [Next]_vars,
         \A i \in Invoices : amountPaid'[i] \in Nat /\ amountPaid[i] <= amountPaid'[i]
  PROVE  HandlersCarryEnough'
<1> USE DEF RemainingOf
<1>1. \A i \in Invoices : amountPaid[i] \in Nat /\ Total[i] \in Nat
  BY TotalAssumption DEF TypeOK
<1>2. HandlerTyped /\ SessionsTyped
  BY DEF TypeOK, HandlerTyped, SessionsTyped
<1>3. ASSUME NEW g \in Handlers, handler'[g] = handler[g] PROVE CarriesEnough(g)'
  <2>1. handler[g].at = "read" => handler[g].inv \in Invoices /\ handler[g].amount \in Nat
    BY ActiveFields DEF Active, HandlerLabels, Positive
  <2>2. CarriesEnough(g)
    BY DEF MoneyInv, HandlersCarryEnough
  <2> QED BY <2>1, <2>2, <1>1, <1>3 DEF CarriesEnough
<1>4. ASSUME NEW h \in Handlers, NEW call, Begin(h, call),
             call.at # "read" \/ call.via = "manual"
      PROVE  HandlersCarryEnough'
  <2>1. handler'[h] = call /\ \A g \in Handlers \ {h} : handler'[g] = handler[g]
    BY <1>4, <1>2 DEF Begin, HandlerTyped
  <2>2. CarriesEnough(h)'
    BY <1>4, <2>1 DEF CarriesEnough
  <2> QED BY <1>3, <2>1, <2>2 DEF HandlersCarryEnough
<1>5. ASSUME NEW h \in Handlers, ReadInvoice(h) PROVE HandlersCarryEnough'
  <2> DEFINE i == handler[h].inv
             k == handler[h].pay
             call == [at |-> "read", via |-> handler[h].via, inv |-> i, pay |-> k,
                      co |-> Len(sessions[i]), amount |-> Capped(i, sessions[i][k].amount)]
  <2>1. handler' = [handler EXCEPT ![h] = call] /\ amountPaid' = amountPaid
        /\ handler[h].at = "called"
    BY <1>5 DEF ReadInvoice, Begin, invoiceVars
  <2>2. i \in Invoices
    BY <2>1, <1>2, HandlerKinds DEF CalledHandler
  <2>3. k \in 1..Len(sessions[i])
    BY <2>1 DEF TypeOK, PointsAtSessions
  <2>4. sessions[i][k].amount \in Nat /\ sessions[i][k].amount >= Total[i] - amountPaid[i]
    <3>1. sessions[i][k] \in Session
      BY <2>2, <2>3, <1>2 DEF SessionsTyped
    <3> QED BY <2>2, <2>3, <3>1 DEF Session, Positive, MoneyInv, SessionsAskEnough
  <2>5. Capped(i, sessions[i][k].amount) >= Total[i] - amountPaid[i]
    BY <2>2, <2>4, <1>1 DEF Capped
  <2>6. handler'[h].inv = i /\ handler'[h].amount = Capped(i, sessions[i][k].amount)
        /\ \A g \in Handlers \ {h} : handler'[g] = handler[g]
    BY <2>1, <1>2 DEF HandlerTyped
  <2>7. CarriesEnough(h)'
    BY <2>1, <2>5, <2>6 DEF CarriesEnough
  <2> QED BY <1>3, <2>6, <2>7 DEF HandlersCarryEnough
<1>6. ASSUME NEW h \in Handlers, Settles(h) PROVE HandlersCarryEnough'
  <2>1. /\ handler'[h].at # "read"
        /\ \A g \in Handlers \ {h} : handler'[g] = handler[g]
    BY <1>6, HandlerStops
  <2>2. CarriesEnough(h)'
    BY <2>1 DEF CarriesEnough
  <2> QED BY <1>3, <2>1, <2>2 DEF HandlersCarryEnough
<1>7. ASSUME NEW h \in Handlers, NEW i \in Invoices,
             \/ \E k \in 1..Len(sessions[i]) : Deliver(h, i, k) \/ Resend(h, i, k)
             \/ SyncLoad(h, i) \/ ManualRequest(h, i)
      PROVE  HandlersCarryEnough'
  <2>1. ASSUME NEW k \in 1..Len(sessions[i]), Deliver(h, i, k) \/ Resend(h, i, k)
        PROVE  HandlersCarryEnough'
    <3>1. Begin(h, [at |-> "called", via |-> "webhook", inv |-> i, pay |-> k])
      BY <2>1 DEF Deliver, Resend
    <3> QED BY <3>1, <1>4
  <2>2. ASSUME SyncLoad(h, i) PROVE HandlersCarryEnough'
    <3>1. Begin(h, [at |-> "syncing", inv |-> i])
      BY <2>2 DEF SyncLoad
    <3> QED BY <3>1, <1>4
  <2>3. ASSUME ManualRequest(h, i) PROVE HandlersCarryEnough'
    <3>1. PICK a \in ManualAmounts :
            Begin(h, [at |-> "read", via |-> "manual", inv |-> i, pay |-> 0,
                      co |-> 0, amount |-> a])
      BY <2>3 DEF ManualRequest
    <3> QED BY <3>1, <1>4
  <2> QED BY <1>7, <2>1, <2>2, <2>3
<1>8. ASSUME UNCHANGED handler PROVE HandlersCarryEnough'
  BY <1>3, <1>8 DEF HandlersCarryEnough
<1>9. \/ \E h \in Handlers : ReadInvoice(h) \/ Settles(h)
      \/ \E h \in Handlers, i \in Invoices :
           \/ \E k \in 1..Len(sessions[i]) : Deliver(h, i, k) \/ Resend(h, i, k)
           \/ SyncLoad(h, i) \/ ManualRequest(h, i)
      \/ UNCHANGED handler
  BY DEF vars, Next, ShopperStep, CheckoutLoad, CheckoutFind, CheckoutCreate,
         CheckoutFail, Expire, Pay, HandlerStep, Settles, Void, MarkOverdue
<1> QED BY <1>5, <1>6, <1>7, <1>8, <1>9

(* Every step keeps the sums and what is asked for.                        *)
LEMMA MoneyStep == TypeOK /\ MoneyInv /\ [Next]_vars => MoneyInv'
<1> SUFFICES ASSUME TypeOK, MoneyInv, [Next]_vars PROVE MoneyInv'
  OBVIOUS
<1>1. TypeOK'
  BY TypeStep
<1>2. /\ BalanceOK' /\ DokuPaymentSettles'
      /\ \A i \in Invoices : amountPaid[i] <= amountPaid'[i]
  BY InvoicesKeepMoney
<1>3. \A i \in Invoices : amountPaid'[i] \in Nat /\ amountPaid[i] \in Nat
  BY <1>1 DEF TypeOK
<1>4. \A i \in Invoices : RemainingOf(i)' \in Int /\ RemainingOf(i)' <= RemainingOf(i)
  BY <1>2, <1>3, TotalAssumption DEF RemainingOf
<1> QED
  BY <1>2, <1>3, <1>4, SessionsKeepAsking, ShoppersKeepAsking, HandlersKeepCarrying
     DEF MoneyInv

(* The inductive invariant holds in every run.                             *)
THEOREM PaymentInvariant == Spec => [](TypeOK /\ MoneyInv)
<1>1. Init => TypeOK /\ MoneyInv
  BY InitTypes, InitMoney
<1>2. TypeOK /\ MoneyInv /\ [Next]_vars => TypeOK' /\ MoneyInv'
  BY TypeStep, MoneyStep
<1> QED BY <1>1, <1>2, PTL DEF Spec, Safety

(* TypeOK holds in every run, for any number of invoices, sessions,        *)
(* requests and faults: no handler ever points at a session that is not    *)
(* there.                                                                  *)
THEOREM PaymentTypes == Spec => []TypeOK
BY PaymentInvariant, PTL

(* The row lock of repository Record is enough: no invoice is overpaid,    *)
(* paid exactly when nothing remains, void only when nothing was paid.     *)
THEOREM InvoicesBalance == Spec => []BalanceOK
<1>1. MoneyInv => BalanceOK
  BY DEF MoneyInv
<1> QED BY PaymentInvariant, <1>1, PTL

(* A DOKU payment that is recorded settles its invoice, and no invoice has *)
(* two of them, however many sessions concurrent Checkouts made.           *)
THEOREM OneDokuPayment == Spec => []DokuPaymentSettles
<1>1. MoneyInv => DokuPaymentSettles
  BY DEF MoneyInv
<1> QED BY PaymentInvariant, <1>1, PTL

-----------------------------------------------------------------------------
(* What is final *)

FinalStep ==
  \A i \in Invoices :
    /\ status[i] \in {"paid", "void"} => status'[i] = status[i]
    /\ amountPaid[i] <= amountPaid'[i]
    /\ \A r \in References : rows[i][r] > 0 => rows'[i][r] = rows[i][r]

(* A payment is recorded only on an invoice that has no DOKU payment, so   *)
(* every row of an invoice that is paid or void stays as it is.            *)
LEMMA RecordIsFinal ==
  ASSUME TypeOK, MoneyInv, NEW h \in Handlers, RecordNew(h)
  PROVE  \A i \in Invoices :
           /\ status[i] \in {"paid", "void"} => status'[i] = status[i] /\ rows'[i] = rows[i]
           /\ \A r \in References : rows[i][r] > 0 => rows'[i][r] = rows[i][r]
<1> DEFINE i == handler[h].inv
           r == ReferenceOf(i, handler[h].pay)
<1>1. Active(h)
  BY DEF RecordNew, Active, HandlerLabels
<1>2. i \in Invoices /\ r \in References
  BY <1>1, ActiveFields
<1>3. Payable(i) /\ status[i] \notin {"paid", "void"}
  BY DEF RecordNew, Payable
<1>4. \A q \in References : ~(rows[i][q] > 0)
  BY <1>2, <1>3 DEF MoneyInv, DokuPaymentSettles
<1>5. \A j \in Invoices \ {i} : status'[j] = status[j] /\ rows'[j] = rows[j]
  BY <1>2 DEF RecordNew, TypeOK
<1> QED BY <1>3, <1>4, <1>5

(* What is paid or void stays so, and recorded rows stay as they are.      *)
LEMMA StepIsFinal ==
  ASSUME TypeOK, MoneyInv, [Next]_vars
  PROVE  FinalStep
<1>1. \A i \in Invoices : amountPaid[i] <= amountPaid'[i]
  BY InvoicesKeepMoney
<1>2. ASSUME NEW h \in Handlers, RecordNew(h) PROVE FinalStep
  BY <1>1, <1>2, RecordIsFinal DEF FinalStep
<1>3. ASSUME NEW i \in Invoices, Void(i) \/ MarkOverdue(i) PROVE FinalStep
  <2>1. status[i] \notin {"paid", "void"} /\ rows' = rows
    BY <1>3 DEF Void, MarkOverdue, Payable
  <2>2. \A j \in Invoices \ {i} : status'[j] = status[j]
    BY <1>3 DEF Void, MarkOverdue, TypeOK
  <2> QED BY <1>1, <2>1, <2>2 DEF FinalStep
<1>4. ASSUME UNCHANGED invoiceVars PROVE FinalStep
  BY <1>1, <1>4 DEF FinalStep, invoiceVars
<1> QED BY <1>2, <1>3, <1>4, InvoiceWriters

(* Paid and void are final and no payment row is changed or removed, in    *)
(* every run: Void and Record decide under the same row lock.              *)
THEOREM PaymentsStayFinal == Spec => PaymentsAreFinal
<1>1. TypeOK /\ MoneyInv /\ [Next]_vars => [FinalStep]_vars
  BY StepIsFinal
<1> QED BY PaymentInvariant, <1>1, PTL DEF Spec, Safety, PaymentsAreFinal, FinalStep

-----------------------------------------------------------------------------
(* Credits and refunds *)

(* A credit is taken from a row, and rows do not change.                   *)
LEMMA CreditStep ==
  ASSUME TypeOK, MoneyInv, CreditIsRecordedAmount, [Next]_vars
  PROVE  CreditIsRecordedAmount'
<1>1. FinalStep
  BY StepIsFinal
<1>2. ASSUME UNCHANGED credited PROVE CreditIsRecordedAmount'
  <2> SUFFICES ASSUME NEW i \in Invoices, NEW r \in References, credited[i][r] > 0
               PROVE  credited[i][r] = rows'[i][r]
    BY <1>2 DEF CreditIsRecordedAmount
  <2>1. credited[i][r] = rows[i][r]
    BY DEF CreditIsRecordedAmount
  <2> QED BY <2>1, <1>1 DEF FinalStep
<1>3. ASSUME NEW h \in Handlers, Credit(h) PROVE CreditIsRecordedAmount'
  <2> DEFINE i == handler[h].inv
             r == ReferenceOf(i, handler[h].pay)
  <2>1. rows' = rows
    BY <1>3 DEF Credit, invoiceVars
  <2>2. \/ credited' = credited
        \/ credited' = [credited EXCEPT ![i][r] = rows[i][r]]
    BY <1>3 DEF Credit, CreditOnce
  <2>3. \A j \in Invoices, s \in References :
          credited'[j][s] = credited[j][s] \/ credited'[j][s] = rows[j][s]
    <3>1. credited \in [Invoices -> [References -> Nat]]
      BY DEF TypeOK
    <3>2. i \in Invoices /\ r \in References
      BY <1>3, ActiveFields DEF Credit, Active, HandlerLabels
    <3> HIDE DEF i, r
    <3> QED BY <2>2, <3>1, <3>2
  <2> QED BY <2>1, <2>3 DEF CreditIsRecordedAmount
<1>4. (\E h \in Handlers : Credit(h)) \/ UNCHANGED credited
  BY DEF vars, effectVars, Next, ShopperStep, CheckoutLoad, CheckoutFind,
         CheckoutCreate, CheckoutFail, Expire, Pay, Deliver, Resend, SyncLoad,
         ManualRequest, Begin, HandlerStep, SyncCheck, ReadInvoice, RecordRepeat,
         RecordRefuse, RecordNew, Notify, Replay, Settle, MarkSession, Answer, FaultStep,
         CreditFails, MarkFails, Crash, Void, MarkOverdue
<1> QED BY <1>2, <1>3, <1>4

(* The ledger is credited with the amount of the payment row, never with   *)
(* what DOKU took, and only for a payment that was recorded.               *)
THEOREM CreditsMatchPayments == Spec => []CreditIsRecordedAmount
<1>1. Init => CreditIsRecordedAmount
  BY DEF Init, CreditIsRecordedAmount
<1>2. TypeOK /\ MoneyInv /\ CreditIsRecordedAmount /\ [Next]_vars => CreditIsRecordedAmount'
  BY CreditStep
<1> QED BY PaymentInvariant, <1>1, <1>2, PTL DEF Spec, Safety

(* An invoice whose payment was refused because it is void or paid takes   *)
(* no payment any more: this makes RefundedIsNotRecorded inductive.        *)
RefusedForGood ==
  \A f \in refunds :
    f.why = "not_payable" =>
      /\ status[f.inv] \in {"paid", "void"}
      /\ rows[f.inv][ReferenceOf(f.inv, f.pay)] = 0

(* A refused payment is for an invoice that takes none any more.           *)
LEMMA RefundStep ==
  ASSUME TypeOK, MoneyInv, RefusedForGood, [Next]_vars
  PROVE  RefusedForGood'
<1>1. FinalStep
  BY StepIsFinal
<1>2. ASSUME NEW h \in Handlers, RecordNew(h) PROVE RefusedForGood'
  <2>1. \A i \in Invoices : status[i] \in {"paid", "void"} =>
          status'[i] = status[i] /\ rows'[i] = rows[i]
    BY <1>2, RecordIsFinal
  <2>2. refunds' = refunds /\ \A f \in refunds : f.inv \in Invoices
    BY <1>2 DEF RecordNew, effectVars, TypeOK, RefundEntry
  <2> QED BY <2>1, <2>2 DEF RefusedForGood
<1>3. ASSUME NEW i \in Invoices, Void(i) \/ MarkOverdue(i) PROVE RefusedForGood'
  <2>1. refunds' = refunds /\ rows' = rows /\ \A f \in refunds : f.inv \in Invoices
    BY <1>3 DEF Void, MarkOverdue, effectVars, TypeOK, RefundEntry
  <2> QED BY <1>1, <2>1 DEF RefusedForGood, FinalStep
<1>4. ASSUME NEW h \in Handlers, RecordRefuse(h) PROVE RefusedForGood'
  <2> DEFINE i == handler[h].inv
             r == ReferenceOf(i, handler[h].pay)
             why == IF Payable(i) THEN "exceeds" ELSE "not_payable"
             f == [inv |-> i, pay |-> handler[h].pay, why |-> why]
  <2>1. status' = status /\ rows' = rows
    BY <1>4 DEF RecordRefuse, invoiceVars
  <2>2. refunds' = refunds \/ (refunds' = refunds \cup {f} /\ handler[h].via # "manual")
    BY <1>4 DEF RecordRefuse
  <2>3. i \in Invoices /\ r \in References
    BY <1>4, ActiveFields DEF RecordRefuse, Active, HandlerLabels
  <2>4. handler[h].via # "manual" => rows[i][r] = 0
    BY <1>4, <2>3 DEF RecordRefuse, IsRepeat, TypeOK
  <2>5. f.why = "not_payable" => status[i] \in {"paid", "void"}
    BY <2>3 DEF Payable, TypeOK, Statuses
  <2> QED BY <2>1, <2>2, <2>4, <2>5 DEF RefusedForGood
<1>5. ASSUME UNCHANGED <<invoiceVars, refunds>> PROVE RefusedForGood'
  BY <1>5 DEF RefusedForGood, invoiceVars
<1>6. \/ \E h \in Handlers : RecordNew(h) \/ RecordRefuse(h)
      \/ \E i \in Invoices : Void(i) \/ MarkOverdue(i)
      \/ UNCHANGED <<invoiceVars, refunds>>
  BY DEF vars, invoiceVars, effectVars, Next, ShopperStep, CheckoutLoad,
         CheckoutFind, CheckoutCreate, CheckoutFail, Expire, Pay, Deliver, Resend, SyncLoad,
         ManualRequest, Begin, HandlerStep, SyncCheck, ReadInvoice, RecordRepeat,
         Notify, Replay, Settle, MarkSession, Credit, Answer, FaultStep, CreditFails,
         MarkFails, Crash
<1> QED BY <1>2, <1>3, <1>4, <1>5, <1>6

(* A payment logged for a manual refund because the invoice was void or    *)
(* paid has no payment row, then or later, whatever is delivered again.    *)
THEOREM RefundsStayUnrecorded == Spec => []RefundedIsNotRecorded
<1>1. Init => RefusedForGood
  BY DEF Init, RefusedForGood
<1>2. TypeOK /\ MoneyInv /\ RefusedForGood /\ [Next]_vars => RefusedForGood'
  BY RefundStep
<1>3. RefusedForGood => RefundedIsNotRecorded
  BY DEF RefusedForGood, RefundedIsNotRecorded
<1> QED BY PaymentInvariant, <1>1, <1>2, <1>3, PTL DEF Spec, Safety
-----------------------------------------------------------------------------
(* Notices *)

(* A handler that is about to notify is the only one for its invoice, which*)
(* is paid and of which nobody heard: this makes NoticeAtMostOnce          *)
(* inductive.                                                              *)
NoticeInv ==
  /\ NoticeAtMostOnce
  /\ \A h \in Handlers : handler[h].at = "notify" =>
       /\ status[handler[h].inv] = "paid"
       /\ notices[handler[h].inv] = 0
  /\ \A g, h \in Handlers :
       /\ handler[g].at = "notify" /\ handler[h].at = "notify"
       /\ handler[g].inv = handler[h].inv
       => g = h

(* A handler comes to notify only by recording the payment that settles.   *)
LEMMA OnlySettlingNotifies ==
  ASSUME TypeOK, NEW h \in Handlers, Settles(h), handler'[h].at = "notify"
  PROVE  /\ RecordNew(h)
         /\ handler'[h].inv = handler[h].inv
         /\ handler[h].inv \in Invoices
         /\ status'[handler[h].inv] = "paid"
<1>t. HandlerTyped
  BY DEF TypeOK, HandlerTyped
<1>g. ASSUME NEW label, label # "notify", Goto(h, label) PROVE FALSE
  BY <1>g, <1>t DEF Goto, HandlerTyped
<1>s. ASSUME Stop(h) PROVE FALSE
  BY <1>s, <1>t DEF Stop, HandlerTyped
<1>b. ASSUME NEW call, call.at # "notify", Begin(h, call) PROVE FALSE
  BY <1>b, <1>t DEF Begin, HandlerTyped
<1>1. ~SyncCheck(h)
  <2> SUFFICES ASSUME SyncCheck(h) PROVE FALSE
    OBVIOUS
  <2>1. ASSUME Begin(h, [at |-> "idle"]) PROVE FALSE
    BY <2>1, <1>b
  <2>2. ASSUME NEW k \in 1..Len(sessions[handler[h].inv]),
               Begin(h, [at |-> "called", via |-> "sync", inv |-> handler[h].inv, pay |-> k])
        PROVE  FALSE
    BY <2>2, <1>b
  <2> QED BY <2>1, <2>2 DEF SyncCheck
<1>2. ~(RecordRepeat(h) \/ RecordRefuse(h) \/ Notify(h) \/ Replay(h))
  BY <1>g, <1>s DEF RecordRepeat, AfterRepeat, RecordRefuse, Notify, Replay, Settle, AfterListeners
<1>3. ~(MarkSession(h) \/ Credit(h) \/ Answer(h) \/ FaultStep(h))
  BY <1>g, <1>s DEF MarkSession, Credit, Answer, FaultStep, CreditFails, MarkFails, Crash
<1>4. RecordNew(h)
  BY <1>1, <1>2, <1>3 DEF Settles
<1> DEFINE i == handler[h].inv
           full == amountPaid[i] + handler[h].amount = Total[i]
<1>5. Active(h)
  BY <1>4 DEF RecordNew, Active, HandlerLabels
<1>6. i \in Invoices
  BY <1>5, ActiveFields
<1>7. full /\ Goto(h, "notify")
  BY <1>4, <1>g, <1>s DEF RecordNew
<1>8. status'[i] = "paid"
  BY <1>4, <1>6, <1>7 DEF RecordNew, TypeOK
<1>9. handler'[h].inv = i
  BY <1>5, <1>7, <1>t, GotoTyped DEF HandlerLabels
<1> QED BY <1>4, <1>6, <1>8, <1>9

(* A handler that begins does not notify.                                  *)
LEMMA BeginnersAreSilent ==
  ASSUME TypeOK, NEW h \in Handlers,
         \/ ReadInvoice(h)
         \/ \E i \in Invoices :
              \/ \E k \in 1..Len(sessions[i]) : Deliver(h, i, k) \/ Resend(h, i, k)
              \/ SyncLoad(h, i) \/ ManualRequest(h, i)
  PROVE  /\ handler'[h].at \in {"called", "syncing", "read"}
         /\ \A g \in Handlers \ {h} : handler'[g] = handler[g]
         /\ UNCHANGED <<invoiceVars, effectVars, sessions>>
<1>t. HandlerTyped
  BY DEF TypeOK, HandlerTyped
<1>b. ASSUME NEW call, call.at \in {"called", "syncing", "read"}, Begin(h, call)
      PROVE  /\ handler'[h].at \in {"called", "syncing", "read"}
             /\ \A g \in Handlers \ {h} : handler'[g] = handler[g]
             /\ UNCHANGED <<invoiceVars, effectVars, sessions>>
  BY <1>b, <1>t DEF Begin, HandlerTyped
<1>1. PICK call : call.at \in {"called", "syncing", "read"} /\ Begin(h, call)
  <2>1. CASE ReadInvoice(h)
    BY <2>1 DEF ReadInvoice
  <2>2. CASE \E i \in Invoices : \E k \in 1..Len(sessions[i]) : Deliver(h, i, k) \/ Resend(h, i, k)
    BY <2>2 DEF Deliver, Resend
  <2>3. CASE \E i \in Invoices : SyncLoad(h, i)
    BY <2>3 DEF SyncLoad
  <2>4. CASE \E i \in Invoices : ManualRequest(h, i)
    BY <2>4 DEF ManualRequest
  <2> QED BY <2>1, <2>2, <2>3, <2>4
<1> QED BY <1>1, <1>b

(* Who moves: a handler that begins, one that goes on, or none.            *)
LEMMA HandlersMoveAlone ==
  ASSUME [Next]_vars
  PROVE  \/ \E h \in Handlers :
              \/ ReadInvoice(h)
              \/ \E i \in Invoices :
                   \/ \E k \in 1..Len(sessions[i]) : Deliver(h, i, k) \/ Resend(h, i, k)
                   \/ SyncLoad(h, i) \/ ManualRequest(h, i)
         \/ \E h \in Handlers : Settles(h)
         \/ \E c \in Shoppers : ShopperStep(c)
         \/ \E i \in Invoices : \E k \in 1..Len(sessions[i]) : Expire(i, k) \/ Pay(i, k)
         \/ \E i \in Invoices : Void(i) \/ MarkOverdue(i)
         \/ UNCHANGED vars
BY DEF Next, HandlerStep, Settles

(* The one that settles the invoice notifies once, and is the only one.    *)
LEMMA NoticeStep ==
  ASSUME TypeOK, MoneyInv, NoticeInv, [Next]_vars
  PROVE  NoticeInv'
<1>1. FinalStep
  BY StepIsFinal
<1>2. \A i \in Invoices : notices[i] \in Nat
  BY DEF TypeOK
<1>3. ASSUME UNCHANGED notices,
             \A h \in Handlers : handler'[h].at = "notify" => handler'[h] = handler[h]
      PROVE  NoticeInv'
  <2>1. \A h \in Handlers : handler[h].at = "notify" => handler[h].inv \in Invoices
    BY ActiveFields DEF Active, HandlerLabels
  <2> QED BY <1>1, <1>3, <2>1 DEF NoticeInv, NoticeAtMostOnce, FinalStep
<1>4. ASSUME NEW h \in Handlers,
             \/ ReadInvoice(h)
             \/ \E i \in Invoices :
                  \/ \E k \in 1..Len(sessions[i]) : Deliver(h, i, k) \/ Resend(h, i, k)
                  \/ SyncLoad(h, i) \/ ManualRequest(h, i)
      PROVE  NoticeInv'
  <2>1. /\ handler'[h].at # "notify" /\ notices' = notices
        /\ \A g \in Handlers \ {h} : handler'[g] = handler[g]
    BY <1>4, BeginnersAreSilent DEF effectVars
  <2> QED BY <2>1, <1>3
<1>5. ASSUME NEW h \in Handlers, Notify(h) PROVE NoticeInv'
  <2> DEFINE i == handler[h].inv
  <2>1. Active(h) /\ handler[h].at = "notify" /\ Settles(h)
    BY <1>5 DEF Notify, Active, HandlerLabels, Settles
  <2>2. i \in Invoices
    BY <2>1, ActiveFields
  <2>3. /\ \A g \in Handlers \ {h} : handler'[g] = handler[g]
        /\ handler'[h].at # "notify"
    <3>1. ~RecordNew(h)
      BY <2>1 DEF RecordNew
    <3> QED BY <2>1, <3>1, HandlerStops, OnlySettlingNotifies
  <2>4. /\ notices'[i] = notices[i] + 1
        /\ \A j \in Invoices \ {i} : notices'[j] = notices[j]
        /\ UNCHANGED status
    BY <1>5, <2>2 DEF Notify, TypeOK, invoiceVars
  <2>5. notices[i] = 0 /\ status[i] = "paid"
    BY <2>1 DEF NoticeInv
  <2>6. NoticeAtMostOnce'
    BY <2>2, <2>4, <2>5 DEF NoticeInv, NoticeAtMostOnce
  <2>7. ASSUME NEW g \in Handlers, handler'[g].at = "notify"
        PROVE  /\ g # h /\ handler'[g] = handler[g]
               /\ handler[g].inv \in Invoices \ {i}
    <3>1. g # h /\ handler'[g] = handler[g]
      BY <2>3, <2>7
    <3>2. handler[g].inv # i
      BY <2>1, <2>7, <3>1 DEF NoticeInv
    <3>3. handler[g].inv \in Invoices
      BY <2>7, <3>1, ActiveFields DEF Active, HandlerLabels
    <3> QED BY <3>1, <3>2, <3>3
  <2> QED BY <2>4, <2>6, <2>7 DEF NoticeInv
<1>6. ASSUME NEW h \in Handlers, Settles(h), ~Notify(h) PROVE NoticeInv'
  <2>1. \A g \in Handlers \ {h} : handler'[g] = handler[g]
    BY <1>6, HandlerStops
  <2>2. notices' = notices
    BY <1>6 DEF Settles, SyncCheck, Begin, RecordRepeat, RecordRefuse, RecordNew, Replay,
                MarkSession, Credit, Answer, FaultStep, CreditFails, MarkFails, Crash,
                effectVars
  <2>3. CASE handler'[h].at # "notify"
    BY <2>1, <2>2, <2>3, <1>3
  <2>4. CASE handler'[h].at = "notify"
    <3> DEFINE i == handler[h].inv
    <3>1. /\ RecordNew(h) /\ handler'[h].inv = i /\ i \in Invoices
          /\ status'[i] = "paid"
      BY <1>6, <2>4, OnlySettlingNotifies
    <3>2. status[i] # "paid"
      BY <3>1 DEF RecordNew, Payable
    <3>3. notices[i] = 0
      BY <1>2, <3>1, <3>2 DEF NoticeInv, NoticeAtMostOnce
    <3>4. ASSUME NEW g \in Handlers \ {h}, handler[g].at = "notify"
          PROVE  handler[g].inv \in Invoices \ {i}
      <4>1. handler[g].inv \in Invoices
        BY <3>4, ActiveFields DEF Active, HandlerLabels
      <4> QED BY <4>1, <3>2, <3>4 DEF NoticeInv
    <3>5. NoticeAtMostOnce'
      BY <1>1, <2>2 DEF NoticeInv, NoticeAtMostOnce, FinalStep
    <3> QED BY <1>1, <2>1, <2>2, <3>1, <3>3, <3>4, <3>5 DEF NoticeInv, FinalStep
  <2> QED BY <2>3, <2>4
<1>7. ASSUME UNCHANGED <<handler, notices>> PROVE NoticeInv'
  BY <1>7, <1>3
<1>8. \/ \E c \in Shoppers : ShopperStep(c)
      \/ \E i \in Invoices : \E k \in 1..Len(sessions[i]) : Expire(i, k) \/ Pay(i, k)
      \/ \E i \in Invoices : Void(i) \/ MarkOverdue(i)
      \/ UNCHANGED vars
      => UNCHANGED <<handler, notices>>
  BY DEF ShopperStep, CheckoutLoad, CheckoutFind, CheckoutCreate, CheckoutFail,
         Expire, Pay, Void, MarkOverdue, effectVars, vars
<1> QED BY <1>4, <1>5, <1>6, <1>7, <1>8, HandlersMoveAlone

(* The listeners that are not replayed hear of a paid invoice at most      *)
(* once, and of no other: the payment that settles it is recorded once.    *)
THEOREM NoticesAreGivenOnce == Spec => []NoticeAtMostOnce
<1>1. Init => NoticeInv
  BY DEF Init, NoticeInv, NoticeAtMostOnce
<1>2. TypeOK /\ MoneyInv /\ NoticeInv /\ [Next]_vars => NoticeInv'
  BY NoticeStep
<1>3. NoticeInv => NoticeAtMostOnce
  BY DEF NoticeInv
<1> QED BY PaymentInvariant, <1>1, <1>2, <1>3, PTL DEF Spec, Safety
-----------------------------------------------------------------------------
(* Answers to DOKU *)

Recorded(i, k) == rows[i][ReferenceOf(i, k)] > 0

Accounted(i, k) ==
  \/ \E f \in refunds : f.inv = i /\ f.pay = k
  \/ /\ Recorded(i, k)
     /\ i \in Beneficiaries =>
          \/ credited[i][ReferenceOf(i, k)] > 0
          \/ <<i, ReferenceOf(i, k)>> \in creditErrors

(* A notification past Record has its payment row, and one that is about   *)
(* to be answered is accounted for.                                        *)
AccountsFor(h) ==
  FromDoku(h) =>
    /\ handler[h].at \in {"notify", "replay", "mark", "credit"} =>
         Recorded(handler[h].inv, handler[h].pay)
    /\ handler[h].at = "answer" => Accounted(handler[h].inv, handler[h].pay)

(* This makes AckedIsAccounted inductive. *)
AckInv == AckedIsAccounted /\ \A h \in Handlers : AccountsFor(h)

(* A reference of a session of an invoice. *)
LEMMA ReferenceTyped ==
  ASSUME NEW i, NEW k \in References
  PROVE  ReferenceOf(i, k) \in References
BY BoundsAssumption DEF ReferenceOf, References

(* The logs grow, and a credit is not taken back.                          *)
LEMMA LogsGrow ==
  ASSUME TypeOK, [Next]_vars
  PROVE  /\ refunds \subseteq refunds' /\ creditErrors \subseteq creditErrors'
         /\ \A i \in Invoices, r \in References :
              credited[i][r] > 0 => credited'[i][r] > 0
<1>1. refunds \subseteq refunds'
  BY DEF vars, invoiceVars, effectVars, Next, ShopperStep, CheckoutLoad, CheckoutFind,
         CheckoutCreate, CheckoutFail, Expire, Pay, Deliver, Resend, SyncLoad,
         ManualRequest, Begin, HandlerStep, SyncCheck, ReadInvoice, RecordRepeat,
         RecordRefuse, RecordNew, Notify, Replay, Settle, MarkSession, Credit, Answer, FaultStep,
         CreditFails, MarkFails, Crash, Void, MarkOverdue
<1>2. creditErrors \subseteq creditErrors'
  BY DEF vars, invoiceVars, effectVars, Next, ShopperStep, CheckoutLoad, CheckoutFind,
         CheckoutCreate, CheckoutFail, Expire, Pay, Deliver, Resend, SyncLoad,
         ManualRequest, Begin, HandlerStep, SyncCheck, ReadInvoice, RecordRepeat,
         RecordRefuse, RecordNew, Notify, Replay, Settle, MarkSession, Credit, Answer, FaultStep,
         CreditFails, MarkFails, Crash, Void, MarkOverdue
<1>3. (\E h \in Handlers : Credit(h)) \/ UNCHANGED credited
  BY DEF vars, effectVars, Next, ShopperStep, CheckoutLoad, CheckoutFind,
         CheckoutCreate, CheckoutFail, Expire, Pay, Deliver, Resend, SyncLoad,
         ManualRequest, Begin, HandlerStep, SyncCheck, ReadInvoice, RecordRepeat,
         RecordRefuse, RecordNew, Notify, Replay, Settle, MarkSession, Answer, FaultStep,
         CreditFails, MarkFails, Crash, Void, MarkOverdue
<1>4. ASSUME NEW h \in Handlers, Credit(h), NEW i \in Invoices, NEW r \in References,
             credited[i][r] > 0
      PROVE  credited'[i][r] > 0
  <2> DEFINE j == handler[h].inv
             s == ReferenceOf(j, handler[h].pay)
  <2>1. \/ credited' = credited
        \/ credited[j][s] = 0 /\ credited' = [credited EXCEPT ![j][s] = rows[j][s]]
    BY <1>4 DEF Credit, CreditOnce
  <2>2. credited \in [Invoices -> [References -> Nat]]
    BY DEF TypeOK
  <2> HIDE DEF j, s
  <2> QED BY <1>4, <2>1, <2>2
<1> QED BY <1>1, <1>2, <1>3, <1>4

(* So what is accounted for stays accounted for.                           *)
LEMMA AccountsStay ==
  ASSUME TypeOK, MoneyInv, [Next]_vars, NEW i \in Invoices, NEW k \in References
  PROVE  /\ Recorded(i, k) => Recorded(i, k)'
         /\ Accounted(i, k) => Accounted(i, k)'
<1>1. FinalStep
  BY StepIsFinal
<1>2. ReferenceOf(i, k) \in References
  BY ReferenceTyped
<1>3. Recorded(i, k) => Recorded(i, k)'
  BY <1>1, <1>2 DEF FinalStep, Recorded
<1> QED BY <1>2, <1>3, LogsGrow DEF Accounted

(* A session is acknowledged by the answer to its notification.            *)
LEMMA AckedByAnswer ==
  ASSUME TypeOK, [Next]_vars, NEW i \in Invoices,
         NEW k \in 1..Len(sessions'[i]), sessions'[i][k].doku = "acked"
  PROVE  \/ k \in 1..Len(sessions[i]) /\ sessions[i][k].doku = "acked"
         \/ \E h \in Handlers :
              Answer(h) /\ FromDoku(h) /\ handler[h].inv = i /\ handler[h].pay = k
<1> DEFINE Before == k \in 1..Len(sessions[i]) /\ sessions[i][k].doku = "acked"
<1>t. sessions \in [Invoices -> Seq(Session)] /\ sessions[i] \in Seq(Session)
  BY DEF TypeOK
<1>1. CASE UNCHANGED sessions
  BY <1>1
<1>2. ASSUME NEW c \in Shoppers, CheckoutCreate(c) PROVE Before
  <2> DEFINE j == shopper[c].inv
             e == [amount |-> shopper[c].amount, row |-> "pending",
                   doku |-> "open", expired |-> FALSE]
  <2>1. sessions' = [sessions EXCEPT ![j] = Append(@, e)]
    BY <1>2 DEF CheckoutCreate
  <2>2. CASE i # j
    BY <2>1, <2>2, <1>t
  <2>3. CASE i = j
    <3>1. sessions'[i] = Append(sessions[i], e) /\ e.doku # "acked"
      BY <2>1, <2>3, <1>t
    <3> HIDE DEF e
    <3>2. k # Len(sessions[i]) + 1
      BY <3>1, <1>t
    <3> QED BY <3>1, <3>2, <1>t
  <2> QED BY <2>2, <2>3
<1>3. ASSUME NEW j \in Invoices, NEW m \in 1..Len(sessions[j]),
             \/ sessions' = [sessions EXCEPT ![j][m].expired = TRUE]
             \/ sessions' = [sessions EXCEPT ![j][m].doku = "paid"]
             \/ sessions' = [sessions EXCEPT ![j][m].row = "paid"]
      PROVE  Before
  <2>1. Len(sessions'[i]) = Len(sessions[i])
    BY <1>3, OneSession
  <2>2. sessions[j][m] \in Session /\ sessions[j] \in Seq(Session)
    BY <1>t
  <2>3. sessions'[i][k].doku \in {"paid", sessions[i][k].doku}
    <3>1. k \in 1..Len(sessions[i])
      BY <2>1
    <3>2. CASE i = j /\ k = m
      BY <1>3, <1>t, <2>2, <3>2 DEF Session
    <3>3. CASE ~(i = j /\ k = m)
      BY <1>3, <1>t, <3>1, <3>3
    <3> QED BY <3>2, <3>3
  <2> QED BY <2>1, <2>3
<1>4. ASSUME NEW h \in Handlers, MarkSession(h) PROVE Before
  <2>1. Active(h) /\ handler[h].via # "manual"
    BY <1>4 DEF MarkSession, Active, HandlerLabels, TypeOK, PointsAtSessions, FromDoku
  <2>2. handler[h].inv \in Invoices /\ handler[h].co \in 1..Len(sessions[handler[h].inv])
    BY <2>1, ActiveFields
  <2> QED BY <1>3, <1>4, <2>2 DEF MarkSession
<1>5. ASSUME NEW h \in Handlers, Answer(h), sessions' # sessions
      PROVE  Before \/ (FromDoku(h) /\ handler[h].inv = i /\ handler[h].pay = k)
  <2> DEFINE j == handler[h].inv
             m == handler[h].pay
  <2>1. /\ FromDoku(h)
        /\ sessions' = [sessions EXCEPT ![j][m].doku = "acked"]
    BY <1>5 DEF Answer, FromDoku, Active, HandlerLabels
  <2>2. j \in Invoices /\ m \in 1..Len(sessions[j])
    BY <2>1, ActiveFields DEF FromDoku
  <2>3. Len(sessions'[i]) = Len(sessions[i])
    BY <2>1, <2>2, OneSession
  <2>4. CASE i = j /\ k = m
    BY <2>1, <2>4
  <2>5. CASE ~(i = j /\ k = m)
    <3>1. sessions'[i][k] = sessions[i][k]
      BY <2>1, <2>2, <2>3, <2>5, <1>t
    <3> QED BY <2>3, <3>1
  <2> QED BY <2>4, <2>5
<1>6. \/ UNCHANGED sessions
      \/ \E c \in Shoppers : CheckoutCreate(c)
      \/ \E j \in Invoices : \E m \in 1..Len(sessions[j]) : Expire(j, m) \/ Pay(j, m)
      \/ \E h \in Handlers : MarkSession(h) \/ Answer(h)
  BY DEF vars, effectVars, Next, ShopperStep, CheckoutLoad, CheckoutFind,
         CheckoutFail, Deliver, Resend, SyncLoad,
         ManualRequest, Begin, HandlerStep, SyncCheck, ReadInvoice, RecordRepeat,
         RecordRefuse, RecordNew, Notify, Replay, Settle, Credit, FaultStep,
         CreditFails, MarkFails, Crash, Void, MarkOverdue
<1> QED BY <1>1, <1>2, <1>3, <1>4, <1>5, <1>6 DEF Expire, Pay

(* A notification past its reading keeps to what it has done: the case of  *)
(* the handler that moves.                                                 *)
LEMMA MoverAccounts ==
  ASSUME TypeOK, MoneyInv, AckInv, [Next]_vars, NEW h \in Handlers, Settles(h)
  PROVE  AccountsFor(h)'
<1>p. PICK i, k : i = handler[h].inv /\ k = handler[h].pay
  OBVIOUS
<1> DEFINE r == ReferenceOf(i, k)
<1>t. HandlerTyped
  BY DEF TypeOK, HandlerTyped
<1>s. ASSUME Stop(h) PROVE AccountsFor(h)'
  BY <1>s, <1>t, StopTyped DEF AccountsFor, FromDoku, Active, HandlerLabels
<1>f. ASSUME Active(h)
      PROVE  /\ i \in Invoices /\ k \in References /\ r \in References
             /\ Recorded(i, k) => Recorded(i, k)'
             /\ Accounted(i, k) => Accounted(i, k)'
  BY <1>f, <1>p, ActiveFields, AccountsStay
<1>g. ASSUME Active(h), NEW label \in HandlerLabels, Goto(h, label),
             handler[h].via # "manual" =>
               /\ label \in {"notify", "replay", "mark", "credit"} => Recorded(i, k)'
               /\ label = "answer" => Accounted(i, k)'
      PROVE  AccountsFor(h)'
  <2>1. /\ handler'[h].at = label /\ handler'[h].via = handler[h].via
        /\ handler'[h].inv = i /\ handler'[h].pay = k
    BY <1>p, <1>g, <1>t, GotoTyped
  <2> QED BY <1>p, <1>g, <2>1 DEF AccountsFor, FromDoku, Active, Accounted, Recorded
<1>a. AccountsFor(h)
  BY DEF AckInv
<1> HIDE DEF r
<1>1. ASSUME SyncCheck(h) PROVE AccountsFor(h)'
  <2>1. ASSUME NEW call, call.at \in {"idle", "called"}, Begin(h, call)
        PROVE  AccountsFor(h)'
    BY <2>1, <1>t DEF Begin, HandlerTyped, AccountsFor, FromDoku, Active, HandlerLabels
  <2>2. ASSUME NEW m,
               Begin(h, [at |-> "called", via |-> "sync", inv |-> handler[h].inv, pay |-> m])
        PROVE  AccountsFor(h)'
    BY <2>1, <2>2
  <2>3. ASSUME Begin(h, [at |-> "idle"]) PROVE AccountsFor(h)'
    BY <2>1, <2>3
  <2> QED BY <1>1, <2>2, <2>3 DEF SyncCheck
<1>2. ASSUME RecordRepeat(h) PROVE AccountsFor(h)'
  <2>1. Active(h) /\ Recorded(i, k)
    BY <1>p, <1>2 DEF RecordRepeat, IsRepeat, Active, HandlerLabels, Recorded
  <2> QED BY <1>p, <1>2, <1>f, <1>g, <2>1 DEF RecordRepeat, AfterRepeat, HandlerLabels
<1>3. ASSUME RecordRefuse(h) PROVE AccountsFor(h)'
  <2>1. CASE handler[h].via = "manual"
    BY <1>p, <1>3, <1>s, <2>1 DEF RecordRefuse
  <2>2. CASE handler[h].via # "manual"
    <3> DEFINE f == [inv |-> i, pay |-> k,
                     why |-> IF Payable(i) THEN "exceeds" ELSE "not_payable"]
    <3>1. \E g \in refunds' : g.inv = i /\ g.pay = k
      <4>1. f \in refunds' /\ f.inv = i /\ f.pay = k
        BY <1>p, <1>3, <2>2 DEF RecordRefuse
      <4> QED BY <4>1
    <3>2. Accounted(i, k)'
      BY <3>1 DEF Accounted
    <3> QED BY <1>p, <1>3, <1>g, <2>2, <3>2 DEF RecordRefuse, Active, HandlerLabels
  <2> QED BY <2>1, <2>2
<1>4. ASSUME RecordNew(h) PROVE AccountsFor(h)'
  <2>1. Active(h)
    BY <1>p, <1>4 DEF RecordNew, Active, HandlerLabels
  <2>2. CASE Stop(h)
    BY <1>s, <2>2
  <2>3. CASE ~Stop(h)
    <3>1. \E label \in {"notify", "mark"} : Goto(h, label)
      BY <1>4, <2>3 DEF RecordNew
    <3>2. ASSUME handler[h].via # "manual" PROVE Recorded(i, k)'
      <4>1. handler[h].amount > 0 /\ i \in Invoices /\ r \in References
        BY <1>p, <2>1, <1>f, ActiveFields DEF Positive
      <4>2. rows' = [rows EXCEPT ![i][r] = handler[h].amount]
        BY <1>p, <1>4, <3>2 DEF RecordNew, r
      <4>3. rows'[i][r] > 0
        BY <4>1, <4>2 DEF TypeOK
      <4> QED BY <4>3 DEF Recorded, r
    <3> QED BY <2>1, <3>1, <3>2, <1>g DEF HandlerLabels
  <2> QED BY <2>2, <2>3
<1>5. ASSUME Notify(h) \/ Replay(h) PROVE AccountsFor(h)'
  <2>1. Active(h) /\ (handler[h].via # "manual" => Recorded(i, k))
    BY <1>p, <1>5, <1>a DEF Notify, Replay, Settle, Active, HandlerLabels, AccountsFor, FromDoku
  <2>2. Stop(h) \/ Goto(h, "mark")
    BY <1>p, <1>5 DEF Notify, Replay, Settle, AfterListeners
  <2> QED BY <2>1, <2>2, <1>f, <1>g, <1>s DEF HandlerLabels
<1>6. ASSUME MarkSession(h) \/ MarkFails(h) PROVE AccountsFor(h)'
  <2>1. Active(h) /\ (handler[h].via # "manual" => Recorded(i, k))
    BY <1>p, <1>6, <1>a DEF MarkSession, MarkFails, Active, HandlerLabels, AccountsFor,
                      FromDoku
  <2>2. Goto(h, "credit")
    BY <1>p, <1>6 DEF MarkSession, MarkFails
  <2> QED BY <2>1, <2>2, <1>f, <1>g DEF HandlerLabels
<1>7. ASSUME Credit(h) \/ CreditFails(h) PROVE AccountsFor(h)'
  <2>1. Active(h) /\ (handler[h].via # "manual" => Recorded(i, k))
    BY <1>p, <1>7, <1>a DEF Credit, CreditFails, Active, HandlerLabels, AccountsFor,
                      FromDoku
  <2>2. Goto(h, "answer")
    BY <1>p, <1>7 DEF Credit, CreditFails
  <2>3. CASE CreditFails(h)
    <3>1. <<i, r>> \in creditErrors'
      BY <1>p, <2>3 DEF CreditFails, r
    <3>2. Recorded(i, k) => Accounted(i, k)'
      BY <2>1, <3>1, <1>f DEF Accounted, ReferenceOf, r
    <3> QED BY <2>1, <2>2, <3>2, <1>g DEF HandlerLabels
  <2>4. CASE Credit(h)
    <3>1. CreditOnce(i, k)
      BY <1>p, <2>4 DEF Credit
    <3>2. Recorded(i, k) => rows[i][r] > 0
      BY DEF Recorded, r
    <3>3. Recorded(i, k) /\ i \in Beneficiaries => credited'[i][r] > 0
      <4>1. i \in Invoices /\ r \in References
        BY <2>1, <1>f
      <4>2. credited \in [Invoices -> [References -> Nat]]
        BY DEF TypeOK
      <4>3. i \in Beneficiaries =>
              credited' = IF credited[i][r] = 0
                            THEN [credited EXCEPT ![i][r] = rows[i][r]] ELSE credited
        BY <3>1 DEF CreditOnce, r
      <4> QED BY <4>1, <4>2, <4>3, <3>2
    <3>4. Recorded(i, k) => Accounted(i, k)'
      BY <2>1, <3>3, <1>f DEF Accounted, r
    <3> QED BY <2>1, <2>2, <3>4, <1>g DEF HandlerLabels
  <2> QED BY <1>7, <2>3, <2>4
<1>8. ASSUME Answer(h) \/ Crash(h) PROVE AccountsFor(h)'
  BY <1>8, <1>s DEF Answer, Crash
<1> QED BY <1>1, <1>2, <1>3, <1>4, <1>5, <1>6, <1>7, <1>8 DEF Settles, FaultStep

(* Every notification that is answered with 200 is accounted for.          *)
LEMMA AckStep ==
  ASSUME TypeOK, MoneyInv, AckInv, [Next]_vars
  PROVE  AckInv'
<1>1. ASSUME NEW h \in Handlers, handler'[h] = handler[h] PROVE AccountsFor(h)'
  <2>p. PICK i, k : i = handler[h].inv /\ k = handler[h].pay
    OBVIOUS
  <2>1. CASE FromDoku(h)
    <3>1. /\ Recorded(i, k) => Recorded(i, k)'
          /\ Accounted(i, k) => Accounted(i, k)'
      BY <2>1, <2>p, ActiveFields, AccountsStay DEF FromDoku
    <3>2. AccountsFor(h)
      BY DEF AckInv
    <3> QED BY <1>1, <2>p, <2>1, <3>1, <3>2 DEF AccountsFor, FromDoku, Active, Accounted, Recorded
  <2>2. CASE ~FromDoku(h)
    BY <1>1, <2>2 DEF AccountsFor, FromDoku, Active
  <2> QED BY <2>1, <2>2
<1>2. ASSUME NEW h \in Handlers,
             \/ ReadInvoice(h)
             \/ \E i \in Invoices :
                  \/ \E k \in 1..Len(sessions[i]) : Deliver(h, i, k) \/ Resend(h, i, k)
                  \/ SyncLoad(h, i) \/ ManualRequest(h, i)
      PROVE  \A g \in Handlers : AccountsFor(g)'
  <2>1. /\ handler'[h].at \in {"called", "syncing", "read"}
        /\ \A g \in Handlers \ {h} : handler'[g] = handler[g]
    BY <1>2, BeginnersAreSilent
  <2>2. AccountsFor(h)'
    BY <2>1 DEF AccountsFor
  <2> QED BY <2>1, <2>2, <1>1
<1>3. ASSUME NEW h \in Handlers, Settles(h) PROVE \A g \in Handlers : AccountsFor(g)'
  BY <1>1, <1>3, HandlerStops, MoverAccounts
<1>4. ASSUME UNCHANGED handler PROVE \A g \in Handlers : AccountsFor(g)'
  BY <1>1, <1>4
<1>5. \A g \in Handlers : AccountsFor(g)'
  <2>1. \/ \E c \in Shoppers : ShopperStep(c)
        \/ \E i \in Invoices : \E k \in 1..Len(sessions[i]) : Expire(i, k) \/ Pay(i, k)
        \/ \E i \in Invoices : Void(i) \/ MarkOverdue(i)
        \/ UNCHANGED vars
        => UNCHANGED handler
    BY DEF ShopperStep, CheckoutLoad, CheckoutFind, CheckoutCreate, CheckoutFail,
           Expire, Pay, Void, MarkOverdue, vars
  <2> QED BY <1>2, <1>3, <1>4, <2>1, HandlersMoveAlone
<1>6. AckedIsAccounted'
  <2> SUFFICES ASSUME NEW i \in Invoices, NEW k \in 1..Len(sessions'[i]),
                      sessions'[i][k].doku = "acked"
               PROVE  Accounted(i, k)'
    BY DEF AckedIsAccounted, Accounted, Recorded
  <2>1. Accounted(i, k) /\ k \in References
    <3>1. CASE k \in 1..Len(sessions[i]) /\ sessions[i][k].doku = "acked"
      <4>1. Accounted(i, k)
        BY <3>1 DEF AckInv, AckedIsAccounted, Accounted, Recorded
      <4>2. Len(sessions[i]) \in Nat /\ Len(sessions[i]) <= MaxSessions
        BY DEF TypeOK
      <4> QED BY <3>1, <4>1, <4>2, BoundsAssumption DEF References
    <3>2. ASSUME NEW h \in Handlers,
                 Answer(h), FromDoku(h), handler[h].inv = i, handler[h].pay = k
          PROVE  Accounted(i, k) /\ k \in References
      BY <3>2, ActiveFields DEF Answer, AckInv, AccountsFor, FromDoku
    <3> QED BY <3>1, <3>2, AckedByAnswer
  <2> QED BY <2>1, AccountsStay
<1> QED BY <1>5, <1>6 DEF AckInv

(* DOKU is answered 200 only when its payment is recorded and, where it is *)
(* owed to a customer organisation, credited or logged as a failed credit, *)
(* or is logged for a refund: no crash or race loses a payment silently.   *)
THEOREM AnswersAreAccounted == Spec => []AckedIsAccounted
<1>1. Init => AckInv
  BY DEF Init, AckInv, AckedIsAccounted, AccountsFor, FromDoku, Active, HandlerLabels
<1>2. TypeOK /\ MoneyInv /\ AckInv /\ [Next]_vars => AckInv'
  BY AckStep
<1>3. AckInv => AckedIsAccounted
  BY DEF AckInv
<1> QED BY PaymentInvariant, <1>1, <1>2, <1>3, PTL DEF Spec, Safety
=============================================================================
