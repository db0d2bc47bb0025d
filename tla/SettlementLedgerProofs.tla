----------------------- MODULE SettlementLedgerProofs -----------------------
(***************************************************************************)
(* The balance of the settlement ledger, proved for any number of          *)
(* organisations, references, recorders and clerks.                        *)
(*                                                                         *)
(* RemainingNonNegative is not inductive: the clerk that inserts checked   *)
(* a balance it read earlier.  The invariant that is says in addition that *)
(* this balance is still a lower bound, which in turn needs the lock.      *)
(***************************************************************************)
EXTENDS SettlementLedger, FiniteSums, TLAPS

IInv ==
  /\ TypeOK
  /\ LockHeld
  /\ ReadBalanceIsLowerBound
  /\ RemainingNonNegative

(* An entry can be told from the absence of one.                           *)
LEMMA EntryIsNotNone ==
  ASSUME NEW call \in Calls
  PROVE  /\ EntryOf(call) \in Entries
         /\ EntryOf(call) # None
BY NoneAssumption DEF Calls, EntryOf, Entries

(* The ledger is empty and nobody is in a transaction at first.            *)
LEMMA InitInv == Init => IInv
BY OwnerAssumption, NoneAssumption
   DEF Init, IInv, TypeOK, LockHeld, ReadBalanceIsLowerBound,
       RemainingNonNegative, Remaining, IdleRec, IdleClerk

(* Every action of the code keeps the types.                               *)
LEMMA TypeStep == TypeOK /\ [Next]_vars => TypeOK'
<1> SUFFICES ASSUME TypeOK, [Next]_vars PROVE TypeOK'
  OBVIOUS
<1> USE OwnerAssumption, AmountsAssumption, NoneAssumption
<1> USE DEF TypeOK
<1>1. ASSUME NEW q \in Recorders, InsertPayment(q) PROVE TypeOK'
  <2>1. PICK call \in Calls :
          /\ InsertEntry(call)
          /\ rec' = [rec EXCEPT ![q] =
                       IF payments[call.ref] = None
                         THEN [at |-> "idle"]
                         ELSE [at |-> "conflict", call |-> call]]
          /\ UNCHANGED <<settled, adjusted, lock, clerk, collisions>>
    BY <1>1 DEF InsertPayment
  <2>2. payments' \in [Refs -> Entries \cup {None}]
    BY <2>1, EntryIsNotNone DEF InsertEntry, Calls
  <2>3. paidIn' \in [Orgs -> Nat]
    <3>1. call.invoice \in Invoices /\ call.amount \in Amounts
      BY DEF Calls
    <3>2. call.amount \in Nat
      BY <3>1, AmountsAssumption
    <3>3. Owner[call.invoice] \in Orgs
      BY <3>1
    <3> QED BY <2>1, <3>2, <3>3 DEF InsertEntry
  <2>4. rec' \in [Recorders -> IdleRec \cup ConflictRec]
    BY <2>1 DEF IdleRec, ConflictRec
  <2> QED BY <2>1, <2>2, <2>3, <2>4
<1>2. ASSUME NEW q \in Recorders, CheckDuplicate(q) PROVE TypeOK'
  <2>1. rec[q].call \in Calls
    BY <1>2 DEF CheckDuplicate, IdleRec, ConflictRec
  <2>2. rec' \in [Recorders -> IdleRec \cup ConflictRec]
    BY <1>2 DEF CheckDuplicate, IdleRec
  <2> QED BY <1>2, <2>1, <2>2 DEF CheckDuplicate
<1>3. ASSUME NEW c \in Clerks, Request(c) PROVE TypeOK'
  <2>1. PICK o \in Orgs, k \in Kinds, a \in Amounts, s \in {1, -1} :
          /\ SignAllowed(k, s * a)
          /\ clerk' = [clerk EXCEPT ![c] =
                         [at |-> "begun", org |-> o, kind |-> k, amount |-> s * a]]
    BY <1>3 DEF Request
  <2>2. s * a \in Int
    OBVIOUS
  <2>3. clerk' \in [Clerks -> IdleClerk \cup BusyClerk \cup ReadClerk]
    BY <2>1, <2>2 DEF BusyClerk
  <2> QED BY <1>3, <2>3 DEF Request
<1>4. ASSUME NEW c \in Clerks, AcquireLock(c) PROVE TypeOK'
  <2>1. clerk[c] \in BusyClerk
    BY <1>4 DEF AcquireLock, IdleClerk, BusyClerk, ReadClerk
  <2>2. [clerk[c] EXCEPT !.at = "locked"] \in BusyClerk
    BY <2>1 DEF BusyClerk
  <2>3. clerk' \in [Clerks -> IdleClerk \cup BusyClerk \cup ReadClerk]
    BY <1>4, <2>2 DEF AcquireLock
  <2> QED BY <1>4, <2>3 DEF AcquireLock
<1>5. ASSUME NEW c \in Clerks, ReadTotals(c) PROVE TypeOK'
  <2>1. clerk[c] \in BusyClerk
    BY <1>5 DEF ReadTotals, IdleClerk, BusyClerk, ReadClerk
  <2>2. Remaining(clerk[c].org) \in Int
    BY <2>1 DEF BusyClerk, Remaining
  <2>3. clerk' \in [Clerks -> IdleClerk \cup BusyClerk \cup ReadClerk]
    BY <1>5, <2>1, <2>2 DEF ReadTotals, BusyClerk, ReadClerk
  <2> QED BY <1>5, <2>3 DEF ReadTotals
<1>6. ASSUME NEW c \in Clerks, InsertManual(c) PROVE TypeOK'
  <2>1. clerk[c] \in ReadClerk
    BY <1>6 DEF InsertManual, IdleClerk, BusyClerk, ReadClerk
  <2>2. settled' \in [Orgs -> Nat] /\ adjusted' \in [Orgs -> Int]
    BY <1>6, <2>1 DEF InsertManual, ReadClerk, SignAllowed
  <2>3. clerk' \in [Clerks -> IdleClerk \cup BusyClerk \cup ReadClerk]
    BY <1>6 DEF InsertManual, Finish, IdleClerk
  <2> QED BY <1>6, <2>2, <2>3 DEF InsertManual, Finish
<1>7. ASSUME NEW c \in Clerks, Reject(c) PROVE TypeOK'
  <2>1. clerk' \in [Clerks -> IdleClerk \cup BusyClerk \cup ReadClerk]
    BY <1>7 DEF Reject, Finish, IdleClerk
  <2> QED BY <1>7, <2>1 DEF Reject, Finish
<1>8. ASSUME NEW c \in Clerks, Abort(c) PROVE TypeOK'
  <2>1. clerk' \in [Clerks -> IdleClerk \cup BusyClerk \cup ReadClerk]
    BY <1>8 DEF Abort, IdleClerk
  <2> QED BY <1>8, <2>1 DEF Abort
<1>9. CASE UNCHANGED vars
  BY <1>9 DEF vars
<1> QED
  BY <1>1, <1>2, <1>3, <1>4, <1>5, <1>6, <1>7, <1>8, <1>9 DEF Next, ClerkStep

(* Only the recorders' insert raises paidIn, and nothing lowers it.        *)
LEMMA PaidInGrows ==
  ASSUME TypeOK, NEW q \in Recorders, InsertPayment(q), NEW o \in Orgs
  PROVE  paidIn[o] <= paidIn'[o]
<1>1. PICK call \in Calls : InsertEntry(call)
  BY DEF InsertPayment
<1>2. call.amount \in Amounts
  BY <1>1 DEF Calls
<1>3. call.amount \in Nat
  BY <1>2, AmountsAssumption
<1> QED
  BY <1>1, <1>3 DEF InsertEntry, TypeOK

(* The lock, the balances that were read and the balances themselves.      *)
LEMMA BalanceStep == IInv /\ [Next]_vars => IInv'
<1> SUFFICES ASSUME IInv, [Next]_vars PROVE IInv'
  OBVIOUS
<1>t. TypeOK /\ TypeOK'
  BY TypeStep DEF IInv
<1> USE DEF LockHeld, ReadBalanceIsLowerBound, RemainingNonNegative
<1> DEFINE Rest == LockHeld /\ ReadBalanceIsLowerBound /\ RemainingNonNegative
<1>r. Rest
  BY DEF IInv
<1>n. ASSUME NEW o \in Orgs
      PROVE  /\ Remaining(o) \in Int
             /\ paidIn[o] \in Int /\ settled[o] \in Int /\ adjusted[o] \in Int
  BY <1>t DEF TypeOK, Remaining
<1>c. ASSUME NEW c \in Clerks, clerk[c].at = "read"
      PROVE  clerk[c] \in ReadClerk
  BY <1>c, <1>t DEF TypeOK, IdleClerk, BusyClerk, ReadClerk
<1>b. ASSUME NEW c \in Clerks, clerk[c].at # "idle"
      PROVE  clerk[c].org \in Orgs
  BY <1>b, <1>t DEF TypeOK, IdleClerk, BusyClerk, ReadClerk
<1>1. ASSUME NEW q \in Recorders, InsertPayment(q) PROVE Rest'
  <2>1. UNCHANGED <<settled, adjusted, lock, clerk>>
    BY <1>1 DEF InsertPayment
  <2>2. ASSUME NEW o \in Orgs PROVE Remaining(o) <= Remaining(o)'
    <3>1. paidIn[o] <= paidIn'[o] /\ paidIn'[o] \in Int
      BY <1>1, <1>t, PaidInGrows DEF TypeOK
    <3> QED BY <2>1, <3>1, <1>n DEF Remaining
  <2>3. ASSUME NEW o \in Orgs PROVE Remaining(o)' \in Int
    BY <1>t DEF TypeOK, Remaining
  <2>4. LockHeld'
    BY <2>1, <1>r
  <2>5. RemainingNonNegative'
    BY <2>2, <2>3, <1>n, <1>r
  <2>6. ASSUME NEW c \in Clerks, clerk[c].at = "read",
               NEW o \in Orgs, o = clerk[c].org
        PROVE  clerk[c].seen <= Remaining(o)'
    <3>1. clerk[c].seen \in Int
      BY <2>6, <1>c DEF ReadClerk
    <3>2. clerk[c].seen <= Remaining(o)
      BY <2>6, <1>r
    <3> QED BY <3>1, <3>2, <2>2, <2>3, <1>n
  <2>7. ReadBalanceIsLowerBound'
    BY <2>1, <2>6, <1>b DEF Remaining
  <2> QED BY <2>4, <2>5, <2>7
<1>2. ASSUME NEW q \in Recorders, CheckDuplicate(q) PROVE Rest'
  BY <1>2, <1>r DEF CheckDuplicate, Remaining
<1>3. ASSUME NEW c \in Clerks, Request(c) PROVE Rest'
  BY <1>3, <1>r, <1>t DEF Request, Remaining, TypeOK
<1>4. ASSUME NEW c \in Clerks, AcquireLock(c) PROVE Rest'
  <2>1. clerk[c].org \in Orgs
    BY <1>4, <1>b DEF AcquireLock
  <2>2. clerk'[c].at = "locked" /\ clerk'[c].org = clerk[c].org
    BY <1>4, <1>t DEF AcquireLock, TypeOK
  <2>3. LockHeld'
    BY <1>4, <1>r, <1>t, <2>1, <2>2, NoneAssumption DEF AcquireLock, TypeOK
  <2>4. ReadBalanceIsLowerBound'
    BY <1>4, <1>r, <1>t, <2>2 DEF AcquireLock, TypeOK, Remaining
  <2> QED BY <1>4, <1>r, <2>3, <2>4 DEF AcquireLock, Remaining
<1>5. ASSUME NEW c \in Clerks, ReadTotals(c) PROVE Rest'
  <2>1. clerk[c].org \in Orgs
    BY <1>5, <1>b DEF ReadTotals
  <2>2. LockHeld'
    BY <1>5, <1>r, <1>t DEF ReadTotals, TypeOK
  <2>3. ReadBalanceIsLowerBound'
    BY <1>5, <1>r, <1>t, <1>n, <2>1 DEF ReadTotals, TypeOK, Remaining
  <2> QED BY <1>5, <1>r, <2>2, <2>3 DEF ReadTotals, Remaining
<1>6. ASSUME NEW c \in Clerks, InsertManual(c) PROVE Rest'
  <2>1. clerk[c] \in ReadClerk /\ clerk[c].at = "read"
    BY <1>6, <1>c DEF InsertManual
  <2> DEFINE org == clerk[c].org
             amount == clerk[c].amount
             seen == clerk[c].seen
  <2>2. org \in Orgs /\ amount \in Int /\ seen \in Int
    BY <2>1 DEF ReadClerk
  <2>3. seen <= Remaining(org)
    BY <2>1, <1>r
  <2>4. clerk' = [clerk EXCEPT ![c] = [at |-> "idle"]]
        /\ lock' = [lock EXCEPT ![org] = None] /\ paidIn' = paidIn
    BY <1>6 DEF InsertManual, Finish
  <2>5. ASSUME NEW o \in Orgs, o # org PROVE Remaining(o)' = Remaining(o)
    BY <1>6, <1>t, <2>2, <2>4, <2>5 DEF InsertManual, TypeOK, Remaining
  <2>6. ASSUME NEW o \in Orgs, o = org PROVE Remaining(o)' >= 0
    <3>1. CASE clerk[c].kind = "settlement"
      <4>1. amount <= seen
        BY <1>6, <3>1 DEF InsertManual, CheckPasses
      <4>2. settled'[org] = settled[org] + amount /\ adjusted' = adjusted
        BY <1>6, <3>1, <1>t, <2>2 DEF InsertManual, TypeOK
      <4> QED BY <4>1, <4>2, <2>2, <2>3, <2>4, <2>6, <1>n DEF Remaining
    <3>2. CASE clerk[c].kind # "settlement"
      <4>1. seen + amount >= 0
        BY <1>6, <3>2 DEF InsertManual, CheckPasses
      <4>2. adjusted'[org] = adjusted[org] + amount /\ settled' = settled
        BY <1>6, <3>2, <1>t, <2>2 DEF InsertManual, TypeOK
      <4> QED BY <4>1, <4>2, <2>2, <2>3, <2>4, <2>6, <1>n DEF Remaining
    <3> QED BY <3>1, <3>2
  <2>7. ASSUME NEW d \in Clerks, clerk'[d].at \in {"locked", "read"}
        PROVE  /\ clerk'[d] = clerk[d] /\ d # c
               /\ clerk[d].org \in Orgs /\ clerk[d].org # org
    <3>1. clerk'[d] = clerk[d] /\ d # c
      BY <2>4, <2>7, <1>t DEF TypeOK
    <3>2. lock[clerk[d].org] = d /\ lock[org] = c
      BY <3>1, <2>1, <2>7, <1>r
    <3> QED BY <3>1, <3>2, <2>7, <1>b
  <2>8. LockHeld'
    BY <2>4, <2>7, <2>2, <1>t, <1>r DEF TypeOK
  <2>9. ReadBalanceIsLowerBound'
    BY <2>5, <2>7, <1>r
  <2>10. RemainingNonNegative'
    BY <2>5, <2>6, <1>r
  <2> QED BY <2>8, <2>9, <2>10
<1>7. ASSUME NEW c \in Clerks, Reject(c) PROVE Rest'
  <2>1. clerk[c] \in ReadClerk /\ clerk[c].at = "read"
    BY <1>7, <1>c DEF Reject
  <2>2. clerk[c].org \in Orgs
    BY <2>1 DEF ReadClerk
  <2>3. clerk' = [clerk EXCEPT ![c] = [at |-> "idle"]]
        /\ lock' = [lock EXCEPT ![clerk[c].org] = None]
        /\ UNCHANGED ledgerVars
    BY <1>7 DEF Reject, Finish, ledgerVars
  <2>4. ASSUME NEW d \in Clerks, clerk'[d].at \in {"locked", "read"}
        PROVE  /\ clerk'[d] = clerk[d] /\ d # c
               /\ clerk[d].org \in Orgs /\ clerk[d].org # clerk[c].org
    <3>1. clerk'[d] = clerk[d] /\ d # c
      BY <2>3, <2>4, <1>t DEF TypeOK
    <3>2. lock[clerk[d].org] = d /\ lock[clerk[c].org] = c
      BY <3>1, <2>1, <2>4, <1>r
    <3> QED BY <3>1, <3>2, <2>4, <1>b
  <2>5. LockHeld'
    BY <2>2, <2>3, <2>4, <1>t, <1>r DEF TypeOK
  <2> QED BY <2>3, <2>4, <2>5, <1>r DEF ledgerVars, Remaining
<1>8. ASSUME NEW c \in Clerks, Abort(c) PROVE Rest'
  <2>1. clerk' = [clerk EXCEPT ![c] = [at |-> "idle"]]
        /\ lock' = [o \in Orgs |-> IF lock[o] = c THEN None ELSE lock[o]]
        /\ UNCHANGED ledgerVars
    BY <1>8 DEF Abort, ledgerVars
  <2>2. ASSUME NEW d \in Clerks, clerk'[d].at \in {"locked", "read"}
        PROVE  clerk'[d] = clerk[d] /\ d # c /\ clerk[d].org \in Orgs
    BY <2>1, <2>2, <1>t, <1>b DEF TypeOK
  <2>3. LockHeld'
    BY <2>1, <2>2, <1>r
  <2> QED BY <2>1, <2>2, <2>3, <1>r DEF ledgerVars, Remaining
<1>9. ASSUME UNCHANGED vars PROVE Rest'
  BY <1>9, <1>r DEF vars, Remaining
<1> QED
  BY <1>t, <1>1, <1>2, <1>3, <1>4, <1>5, <1>6, <1>7, <1>8, <1>9
     DEF IInv, Next, ClerkStep

(* Every state of the ledger has the types, the locks and the balances.    *)
THEOREM LedgerInvariant == Spec => []IInv
BY InitInv, BalanceStep, PTL DEF Spec, Safety

(* TypeOK for every value of the constants.                                *)
THEOREM LedgerTypes == Spec => []TypeOK
BY LedgerInvariant, PTL DEF IInv

(* The platform never settles more than an organisation was credited: the  *)
(* check of Record, on a balance read under the lock, is enough.           *)
THEOREM BalanceNeverNegative == Spec => []RemainingNonNegative
BY LedgerInvariant, PTL DEF IInv

(* The comment on InsertManualLocked is right: payments need no lock.      *)
THEOREM PaymentsNeedNoLock == Spec => []ReadBalanceIsLowerBound
BY LedgerInvariant, PTL DEF IInv

-----------------------------------------------------------------------------
(* Entries *)

EntriesStay == \A r \in Refs : payments[r] # None => payments'[r] = payments[r]

(* No step changes an entry that is there.                                 *)
LEMMA StepKeepsEntries ==
  ASSUME TypeOK, [Next]_vars
  PROVE  EntriesStay
<1> SUFFICES ASSUME NEW r \in Refs, payments[r] # None
             PROVE  payments'[r] = payments[r]
  BY DEF EntriesStay
<1>1. ASSUME NEW q \in Recorders, InsertPayment(q) PROVE payments'[r] = payments[r]
  BY <1>1 DEF InsertPayment, InsertEntry, TypeOK
<1>2. ASSUME NEW q \in Recorders, CheckDuplicate(q) PROVE payments'[r] = payments[r]
  BY <1>2 DEF CheckDuplicate
<1>3. ASSUME NEW c \in Clerks, Request(c) \/ ClerkStep(c) \/ Abort(c)
      PROVE  payments'[r] = payments[r]
  BY <1>3 DEF Request, ClerkStep, AcquireLock, ReadTotals, InsertManual,
              Reject, Finish, Abort
<1> QED BY <1>1, <1>2, <1>3 DEF Next, vars

(* An insert that finds its reference taken leaves the entry as it is, so  *)
(* no step of any writer changes a payment entry.                          *)
THEOREM EntriesNeverChange == Spec => EntriesAreImmutable
<1>1. TypeOK /\ [Next]_vars => [EntriesStay]_vars
  BY StepKeepsEntries
<1> QED
  BY <1>1, LedgerTypes, PTL DEF Spec, Safety, EntriesAreImmutable, EntriesStay

-----------------------------------------------------------------------------
(* Collisions *)

(* A call that lost its reference, and those that were reported, lost it   *)
(* to an entry; with EntriesNeverChange this makes CollisionsAreReal       *)
(* inductive.                                                              *)
ConflictInv ==
  /\ \A q \in Recorders :
       rec[q].at = "conflict" => payments[rec[q].call.ref] # None
  /\ CollisionsAreReal

(* The comparison is made after the insert has failed, on an entry that is *)
(* there for good.                                                         *)
LEMMA ConflictStep ==
  ASSUME TypeOK, ConflictInv, [Next]_vars
  PROVE  ConflictInv'
<1>1. EntriesStay
  BY StepKeepsEntries
<1>2. \A q \in Recorders : rec[q].at = "conflict" => rec[q].call \in Calls
  BY DEF TypeOK, IdleRec, ConflictRec
<1>3. collisions \subseteq Calls
  BY DEF TypeOK
<1>4. ASSUME UNCHANGED collisions PROVE CollisionsAreReal'
  BY <1>1, <1>3, <1>4 DEF ConflictInv, CollisionsAreReal, EntriesStay, Calls
<1>5. ASSUME NEW q \in Recorders, rec'[q] = rec[q], rec'[q].at = "conflict"
      PROVE  payments'[rec'[q].call.ref] # None
  BY <1>1, <1>2, <1>5 DEF ConflictInv, EntriesStay, Calls
<1>6. ASSUME NEW q \in Recorders, InsertPayment(q) PROVE ConflictInv'
  <2>1. PICK call \in Calls :
          rec' = [rec EXCEPT ![q] = IF payments[call.ref] = None
                                      THEN [at |-> "idle"]
                                      ELSE [at |-> "conflict", call |-> call]]
    BY <1>6 DEF InsertPayment
  <2>2. rec'[q].at = "conflict" => payments'[rec'[q].call.ref] # None
    BY <2>1, <1>1 DEF TypeOK, EntriesStay, Calls
  <2>3. \A p \in Recorders \ {q} : rec'[p] = rec[p]
    BY <2>1 DEF TypeOK
  <2>4. CollisionsAreReal'
    BY <1>4, <1>6 DEF InsertPayment
  <2> QED BY <2>2, <2>3, <2>4, <1>5 DEF ConflictInv
<1>7. ASSUME NEW q \in Recorders, CheckDuplicate(q) PROVE ConflictInv'
  <2>1. /\ rec' = [rec EXCEPT ![q] = [at |-> "idle"]]
        /\ payments' = payments
        /\ rec[q].at = "conflict"
    BY <1>7 DEF CheckDuplicate
  <2>2. \A p \in Recorders : rec'[p].at = "conflict" => rec'[p] = rec[p]
    BY <2>1 DEF TypeOK
  <2>3. collisions' = collisions \/
          (collisions' = collisions \cup {rec[q].call}
             /\ payments[rec[q].call.ref] # EntryOf(rec[q].call))
    BY <1>7 DEF CheckDuplicate
  <2>4. payments[rec[q].call.ref] # None
    BY <2>1 DEF ConflictInv
  <2>5. CollisionsAreReal'
    BY <2>1, <2>3, <2>4 DEF ConflictInv, CollisionsAreReal
  <2> QED BY <2>2, <2>5, <1>5 DEF ConflictInv
<1>8. ASSUME UNCHANGED <<rec, collisions>> PROVE ConflictInv'
  BY <1>4, <1>5, <1>8 DEF ConflictInv
<1>9. \/ \E q \in Recorders : InsertPayment(q) \/ CheckDuplicate(q)
      \/ UNCHANGED <<rec, collisions>>
  BY DEF Next, vars, Request, ClerkStep, AcquireLock, ReadTotals, InsertManual,
         Reject, Finish, Abort
<1> QED BY <1>6, <1>7, <1>8, <1>9

(* A collision in the log is never a false alarm, however many handlers    *)
(* insert and compare at once: the compared entry cannot change between.   *)
THEOREM CollisionsStayReal == Spec => []CollisionsAreReal
<1>1. Init => ConflictInv
  BY DEF Init, ConflictInv, CollisionsAreReal
<1>2. TypeOK /\ ConflictInv /\ [Next]_vars => ConflictInv'
  BY ConflictStep
<1>3. ConflictInv => CollisionsAreReal
  BY DEF ConflictInv
<1> QED BY LedgerTypes, <1>1, <1>2, <1>3, PTL DEF Spec, Safety

-----------------------------------------------------------------------------
(* The sum of the entries *)

(* The amounts that SumOfEntries adds up.                                  *)
Amount(o) == [r \in EntriesOf(o) |-> payments[r].amount]

(* Each organisation has finitely many entries, and their sum is paid in.  *)
SumInv == \A o \in Orgs : IsFiniteSet(EntriesOf(o)) /\ paidIn[o] = SumFunction(Amount(o))

LEMMA AmountsAreInt ==
  ASSUME TypeOK, NEW o \in Orgs
  PROVE  Amount(o) \in [EntriesOf(o) -> Int]
<1>1. ASSUME NEW r \in EntriesOf(o) PROVE payments[r].amount \in Int
  <2>1. payments[r] \in Entries
    BY DEF EntriesOf, TypeOK
  <2>2. payments[r].amount \in Amounts
    BY <2>1 DEF Entries
  <2>3. payments[r].amount \in Nat
    BY <2>2, AmountsAssumption
  <2> QED BY <2>3
<1> QED BY <1>1 DEF Amount

(* An insert that takes its reference adds one entry to its organisation   *)
(* and none to the others.                                                 *)
LEMMA OneEntryMore ==
  ASSUME TypeOK, NEW call \in Calls, InsertEntry(call), payments[call.ref] = None
  PROVE  /\ Owner[call.invoice] \in Orgs
         /\ call.ref \notin EntriesOf(Owner[call.invoice])
         /\ EntriesOf(Owner[call.invoice])' = EntriesOf(Owner[call.invoice]) \cup {call.ref}
         /\ payments'[call.ref].amount = call.amount
         /\ \A r \in Refs \ {call.ref} : payments'[r] = payments[r]
         /\ \A o \in Orgs \ {Owner[call.invoice]} : EntriesOf(o)' = EntriesOf(o)
<1>1. /\ call.ref \in Refs /\ call.invoice \in Invoices
      /\ payments' = [payments EXCEPT ![call.ref] = EntryOf(call)]
  BY DEF Calls, InsertEntry
<1>2. payments'[call.ref] = EntryOf(call) /\ \A r \in Refs \ {call.ref} : payments'[r] = payments[r]
  BY <1>1 DEF TypeOK
<1>3. EntryOf(call) # None
  BY EntryIsNotNone
<1>4. EntryOf(call).invoice = call.invoice /\ EntryOf(call).amount = call.amount
  BY DEF EntryOf
<1>5. Owner[call.invoice] \in Orgs
  BY <1>1, OwnerAssumption
<1>6. ASSUME NEW o \in Orgs
      PROVE  EntriesOf(o)' = {r \in Refs : payments'[r] # None /\ Owner[payments'[r].invoice] = o}
  BY DEF EntriesOf
<1>7. ASSUME NEW o \in Orgs, NEW r \in Refs \ {call.ref}
      PROVE  r \in EntriesOf(o)' <=> r \in EntriesOf(o)
  BY <1>2, <1>6 DEF EntriesOf
<1>8. ASSUME NEW o \in Orgs
      PROVE  /\ call.ref \notin EntriesOf(o)
             /\ call.ref \in EntriesOf(o)' <=> Owner[call.invoice] = o
  BY <1>1, <1>2, <1>3, <1>4, <1>6 DEF EntriesOf
<1>9. ASSUME NEW o \in Orgs PROVE EntriesOf(o) \subseteq Refs /\ EntriesOf(o)' \subseteq Refs
  BY DEF EntriesOf
<1>10. EntriesOf(Owner[call.invoice])' = EntriesOf(Owner[call.invoice]) \cup {call.ref}
  BY <1>1, <1>5, <1>7, <1>8, <1>9
<1>11. ASSUME NEW o \in Orgs \ {Owner[call.invoice]} PROVE EntriesOf(o)' = EntriesOf(o)
  BY <1>7, <1>8, <1>9
<1> QED BY <1>2, <1>4, <1>5, <1>8, <1>10, <1>11

LEMMA SumStep ==
  ASSUME TypeOK, SumInv, [Next]_vars
  PROVE  SumInv'
<1>1. ASSUME UNCHANGED <<payments, paidIn>> PROVE SumInv'
  BY <1>1 DEF SumInv, Amount, EntriesOf
<1>2. ASSUME NEW call \in Calls, InsertEntry(call), payments[call.ref] = None,
             NEW o \in Orgs
      PROVE  IsFiniteSet(EntriesOf(o))' /\ paidIn'[o] = SumFunction(Amount(o))'
  <2> DEFINE owner == Owner[call.invoice]
  <2>e. /\ owner \in Orgs
        /\ call.ref \notin EntriesOf(owner)
        /\ EntriesOf(owner)' = EntriesOf(owner) \cup {call.ref}
        /\ payments'[call.ref].amount = call.amount
        /\ \A r \in Refs \ {call.ref} : payments'[r] = payments[r]
        /\ \A p \in Orgs \ {owner} : EntriesOf(p)' = EntriesOf(p)
    BY <1>2, OneEntryMore
  <2>p. paidIn' = [paidIn EXCEPT ![owner] = @ + call.amount]
    BY <1>2 DEF InsertEntry
  <2>i. IsFiniteSet(EntriesOf(o)) /\ paidIn[o] = SumFunction(Amount(o))
    BY DEF SumInv
  <2>a. Amount(o)' = [r \in EntriesOf(o)' |-> payments'[r].amount]
    BY DEF Amount
  <2>s. \A r \in EntriesOf(o) : r # call.ref => Amount(o)[r] = payments'[r].amount
    BY <2>e DEF Amount, EntriesOf
  <2>1. CASE o = owner
    <3> DEFINE S == EntriesOf(o)
               k == [r \in S \cup {call.ref} |-> payments'[r].amount]
    <3>1. Amount(o) \in [S -> Int] /\ IsFiniteSet(S) /\ call.ref \notin S
      BY <2>e, <2>i, <2>1, AmountsAreInt
    <3>2. call.amount \in Int
      <4>1. call.amount \in Amounts
        BY DEF Calls
      <4>2. call.amount \in Nat
        BY <4>1, AmountsAssumption
      <4> QED BY <4>2
    <3>3. \A r \in S : k[r] = Amount(o)[r] /\ Amount(o)[r] \in Int
      BY <3>1, <2>s
    <3>4. k \in [S \cup {call.ref} -> Int] /\ k[call.ref] = call.amount
      BY <3>2, <3>3, <2>e
    <3>5. Amount(o)' = k
      BY <2>a, <2>e, <2>1
    <3>6. IsFiniteSet(EntriesOf(o))'
      BY <2>e, <2>1, <3>1, FS_AddElement
    <3>7. SumFunction(k) = SumFunction(Amount(o)) + call.amount
      <4> DEFINE f == Amount(o)
                 a == call.ref
      <4>1. f \in [S -> Int] /\ IsFiniteSet(S) /\ a \notin S
        BY <3>1
      <4>2. k \in [S \cup {a} -> Int] /\ \A r \in S : k[r] = f[r]
        BY <3>3, <3>4
      <4> HIDE DEF S, k, f, a
      <4>3. SumFunction(k) = SumFunction(f) + k[a]
        BY <4>1, <4>2, OneValueMore
      <4> QED BY <4>3, <3>4 DEF f, a
    <3> HIDE DEF S, k
    <3>8. paidIn'[o] = paidIn[o] + call.amount
      BY <2>p, <2>1 DEF TypeOK
    <3> QED BY <2>i, <3>5, <3>6, <3>7, <3>8
  <2>2. CASE o # owner
    <3>1. EntriesOf(o)' = EntriesOf(o) /\ call.ref \notin EntriesOf(o)
      BY <2>e, <2>2, <1>2 DEF EntriesOf
    <3>2. Amount(o)' = Amount(o)
      BY <2>a, <2>s, <3>1 DEF Amount
    <3>3. paidIn'[o] = paidIn[o]
      BY <2>p, <2>2 DEF TypeOK
    <3> QED BY <2>i, <3>1, <3>2, <3>3
  <2> QED BY <2>1, <2>2
<1>3. ASSUME NEW call \in Calls, InsertEntry(call) PROVE SumInv'
  <2>1. CASE payments[call.ref] = None
    BY <1>2, <1>3, <2>1 DEF SumInv
  <2>2. CASE payments[call.ref] # None
    BY <1>1, <1>3, <2>2 DEF InsertEntry
  <2> QED BY <2>1, <2>2
<1>4. \/ \E call \in Calls : InsertEntry(call)
      \/ UNCHANGED <<payments, paidIn>>
  BY DEF Next, vars, InsertPayment, CheckDuplicate, Request, ClerkStep, AcquireLock,
         ReadTotals, InsertManual, Reject, Finish, Abort
<1> QED BY <1>1, <1>3, <1>4

(* The balance that clerks check counts every payment of the organisation  *)
(* once, for any number of recorders, references and repeated calls.       *)
THEOREM EntriesAreCountedOnce == Spec => []PaidInMatchesEntries
<1>1. Init => SumInv
  <2> SUFFICES ASSUME Init, NEW o \in Orgs
               PROVE  IsFiniteSet(EntriesOf(o)) /\ paidIn[o] = SumFunction(Amount(o))
    BY DEF SumInv
  <2>1. EntriesOf(o) = {} /\ DOMAIN Amount(o) = {}
    BY DEF Init, EntriesOf, Amount
  <2>2. SumFunction(Amount(o)) = 0
    BY <2>1, NoValues
  <2> QED BY <2>1, <2>2, FS_EmptySet DEF Init
<1>2. TypeOK /\ SumInv /\ [Next]_vars => SumInv'
  BY SumStep
<1>3. SumInv => PaidInMatchesEntries
  BY DEF SumInv, PaidInMatchesEntries, SumOfEntries, Amount
<1> QED BY LedgerTypes, <1>1, <1>2, <1>3, PTL DEF Spec, Safety
=============================================================================
