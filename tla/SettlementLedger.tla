-------------------------- MODULE SettlementLedger --------------------------
(***************************************************************************)
(* The settlement ledger of the receivable module: what the platform owes  *)
(* a customer organisation whose invoices were paid through DOKU.          *)
(*                                                                         *)
(*   service/settlement.go                RecordPayment, checkDuplicate,   *)
(*                                        newBalance, Record               *)
(*   repository/settlement_repository.go  InsertPayment, queryTotals,      *)
(*                                        InsertManualLocked               *)
(*                                                                         *)
(* Two kinds of writer share the rows of settlement_entries.  A recorder   *)
(* (a DOKU notification handler) inserts payment entries with ON CONFLICT  *)
(* DO NOTHING and takes no lock.  A clerk (a super admin's request)        *)
(* inserts settlements and adjustments: it takes an advisory lock on the   *)
(* organisation, reads the totals, checks them and inserts, as separate    *)
(* statements of one READ COMMITTED transaction.                           *)
(*                                                                         *)
(* Amounts are integers; the code uses exact rationals.  Orgs are the      *)
(* organisations of type "customer", the only ones either writer accepts.  *)
(***************************************************************************)
EXTENDS Integers, Functions

CONSTANTS
  Orgs,        \* organisations of type customer
  Invoices,    \* invoices that receive online payments
  Owner,       \* Owner[i]: the organisation that issued invoice i
  Refs,        \* provider references of payments
  Amounts,     \* the amounts requests carry, all positive
  Recorders,   \* concurrent RecordPayment calls
  Clerks,      \* concurrent Record requests
  MaxAdjusted, \* bound: no positive adjustment above this total
  None         \* no entry, nobody

ASSUME OwnerAssumption == Owner \in [Invoices -> Orgs]
ASSUME AmountsAssumption == Amounts \subseteq Nat \ {0}
ASSUME NoneAssumption ==
  /\ None \notin Clerks
  /\ None \notin [invoice : Invoices, amount : Amounts]

VARIABLES
  payments,    \* payments[r]: the payment entry with reference r
  paidIn,      \* paidIn[o]: SUM(amount) of o's payment entries
  settled,     \* settled[o]: SUM(amount) of o's settlement entries
  adjusted,    \* adjusted[o]: SUM(amount) of o's adjustment entries
  lock,        \* lock[o]: the clerk whose transaction holds o's advisory lock
  rec,         \* rec[q]: where recorder q is, and its arguments
  clerk,       \* clerk[c]: where clerk c is, its request, the balance it read
  collisions   \* calls logged as reference collisions

ledgerVars == <<payments, paidIn, settled, adjusted>>
vars == <<payments, paidIn, settled, adjusted, lock, rec, clerk, collisions>>

Entries == [invoice : Invoices, amount : Amounts]
Calls == [ref : Refs, invoice : Invoices, amount : Amounts]
Kinds == {"settlement", "adjustment"}

EntryOf(call) == [invoice |-> call.invoice, amount |-> call.amount]

(* newBalance: what is still owed to o. *)
Remaining(o) == paidIn[o] - settled[o] + adjusted[o]

Init ==
  /\ payments = [r \in Refs |-> None]
  /\ paidIn = [o \in Orgs |-> 0]
  /\ settled = [o \in Orgs |-> 0]
  /\ adjusted = [o \in Orgs |-> 0]
  /\ lock = [o \in Orgs |-> None]
  /\ rec = [q \in Recorders |-> [at |-> "idle"]]
  /\ clerk = [c \in Clerks |-> [at |-> "idle"]]
  /\ collisions = {}

-----------------------------------------------------------------------------
(* RecordPayment *)

(* Mutants: an upsert instead of DO NOTHING; a total kept beside the rows. *)
UpsertEntry(call) ==
  /\ payments' = [payments EXCEPT ![call.ref] = EntryOf(call)]
  /\ paidIn' = [o \in Orgs |->
       paidIn[o]
         - (IF payments[call.ref] # None /\ Owner[payments[call.ref].invoice] = o
              THEN payments[call.ref].amount ELSE 0)
         + (IF Owner[call.invoice] = o THEN call.amount ELSE 0)]

CountEveryCall(call) ==
  /\ payments' = [payments EXCEPT ![call.ref] = IF @ = None THEN EntryOf(call) ELSE @]
  /\ paidIn' = [paidIn EXCEPT ![Owner[call.invoice]] = @ + call.amount]

(* A created row also raises the SUM of the invoice's owner; a reference   *)
(* that is taken, whatever its entry, leaves the table alone.              *)
InsertEntry(call) ==
  IF payments[call.ref] = None
    THEN /\ payments' = [payments EXCEPT ![call.ref] = EntryOf(call)]
         /\ paidIn' = [paidIn EXCEPT ![Owner[call.invoice]] = @ + call.amount]
    ELSE UNCHANGED <<payments, paidIn>>

InsertPayment(q) ==
  \E call \in Calls :
    /\ rec[q].at = "idle"
    /\ InsertEntry(call)
    /\ rec' = [rec EXCEPT ![q] =
                 IF payments[call.ref] = None
                   THEN [at |-> "idle"]
                   ELSE [at |-> "conflict", call |-> call]]
    /\ UNCHANGED <<settled, adjusted, lock, clerk, collisions>>

(* Mutant: every taken reference is reported. *)
ReportEveryDuplicate(q) ==
  /\ rec[q].at = "conflict"
  /\ collisions' = collisions \cup {rec[q].call}
  /\ rec' = [rec EXCEPT ![q] = [at |-> "idle"]]
  /\ UNCHANGED <<payments, paidIn, settled, adjusted, lock, clerk>>

(* The same payment again is fine; anything else is logged as a collision. *)
CheckDuplicate(q) ==
  /\ rec[q].at = "conflict"
  /\ collisions' = IF payments[rec[q].call.ref] = EntryOf(rec[q].call)
                     THEN collisions
                     ELSE collisions \cup {rec[q].call}
  /\ rec' = [rec EXCEPT ![q] = [at |-> "idle"]]
  /\ UNCHANGED <<payments, paidIn, settled, adjusted, lock, clerk>>

-----------------------------------------------------------------------------
(* Record: a settlement or an adjustment entered by a super admin *)

(* signedAmount: only an adjustment may be negative.  Mutant: either may.  *)
AnySignAllowed(kind, amount) == amount # 0

SignAllowed(kind, amount) == amount > 0 \/ kind = "adjustment"

(* The validation before the transaction. *)
Request(c) ==
  \E o \in Orgs, k \in Kinds, a \in Amounts, s \in {1, -1} :
    /\ clerk[c].at = "idle"
    /\ SignAllowed(k, s * a)
    /\ k = "adjustment" /\ s = 1 => adjusted[o] + a <= MaxAdjusted
    /\ clerk' = [clerk EXCEPT ![c] =
                   [at |-> "begun", org |-> o, kind |-> k, amount |-> s * a]]
    /\ UNCHANGED <<payments, paidIn, settled, adjusted, lock, rec, collisions>>

(* Mutant: no lock, as if each organisation's check were alone. *)
ProceedUnlocked(c) ==
  /\ clerk[c].at = "begun"
  /\ clerk' = [clerk EXCEPT ![c].at = "locked"]
  /\ UNCHANGED <<payments, paidIn, settled, adjusted, lock, rec, collisions>>

(* pg_advisory_xact_lock: waits for the holder's transaction to end. *)
AcquireLock(c) ==
  /\ clerk[c].at = "begun"
  /\ lock[clerk[c].org] = None
  /\ lock' = [lock EXCEPT ![clerk[c].org] = c]
  /\ clerk' = [clerk EXCEPT ![c].at = "locked"]
  /\ UNCHANGED <<payments, paidIn, settled, adjusted, rec, collisions>>

(* queryTotals and newBalance: the rows committed when the SELECT runs. *)
ReadTotals(c) ==
  /\ clerk[c].at = "locked"
  /\ clerk' = [clerk EXCEPT ![c] =
                 [at |-> "read", org |-> @.org, kind |-> @.kind,
                  amount |-> @.amount, seen |-> Remaining(@.org)]]
  /\ UNCHANGED <<payments, paidIn, settled, adjusted, lock, rec, collisions>>

(* The check callback, on the balance the clerk read. *)
CheckPasses(kind, amount, seen) ==
  \/ kind = "settlement" /\ amount <= seen
  \/ kind = "adjustment" /\ seen + amount >= 0

(* Mutant: a session lock, which outlives the transaction. *)
FinishKeepingLock(c) ==
  /\ clerk' = [clerk EXCEPT ![c] = [at |-> "idle"]]
  /\ UNCHANGED <<payments, paidIn, lock, rec, collisions>>

Finish(c) ==
  /\ lock' = [lock EXCEPT ![clerk[c].org] = None]
  /\ clerk' = [clerk EXCEPT ![c] = [at |-> "idle"]]
  /\ UNCHANGED <<payments, paidIn, rec, collisions>>

(* The INSERT and the COMMIT, which releases the lock. *)
InsertManual(c) ==
  /\ clerk[c].at = "read"
  /\ CheckPasses(clerk[c].kind, clerk[c].amount, clerk[c].seen)
  /\ IF clerk[c].kind = "settlement"
       THEN /\ settled' = [settled EXCEPT ![clerk[c].org] = @ + clerk[c].amount]
            /\ UNCHANGED adjusted
       ELSE /\ adjusted' = [adjusted EXCEPT ![clerk[c].org] = @ + clerk[c].amount]
            /\ UNCHANGED settled
  /\ Finish(c)

(* The check's error rolls the transaction back. *)
Reject(c) ==
  /\ clerk[c].at = "read"
  /\ ~CheckPasses(clerk[c].kind, clerk[c].amount, clerk[c].seen)
  /\ UNCHANGED <<settled, adjusted>>
  /\ Finish(c)

(* A failed statement or a lost process: the transaction rolls back and    *)
(* its lock, if it had it, is released with it.                            *)
Abort(c) ==
  /\ clerk[c].at \in {"begun", "locked", "read"}
  /\ lock' = [o \in Orgs |-> IF lock[o] = c THEN None ELSE lock[o]]
  /\ clerk' = [clerk EXCEPT ![c] = [at |-> "idle"]]
  /\ UNCHANGED <<payments, paidIn, settled, adjusted, rec, collisions>>

ClerkStep(c) ==
  AcquireLock(c) \/ ReadTotals(c) \/ InsertManual(c) \/ Reject(c)

Next ==
  \/ \E q \in Recorders : InsertPayment(q) \/ CheckDuplicate(q)
  \/ \E c \in Clerks : Request(c) \/ ClerkStep(c) \/ Abort(c)

(* Postgres queues waiters for an advisory lock in order of arrival, so a  *)
(* request that waits gets the lock: strong fairness per clerk.  Nothing   *)
(* is assumed of the requests themselves, nor of failures.                 *)
Fairness == \A c \in Clerks : SF_vars(ClerkStep(c))

Safety == Init /\ [][Next]_vars
Spec == Safety /\ Fairness

-----------------------------------------------------------------------------
IdleRec == [at : {"idle"}]
ConflictRec == [at : {"conflict"}, call : Calls]
IdleClerk == [at : {"idle"}]
BusyClerk ==
  {r \in [at : {"begun", "locked"}, org : Orgs, kind : Kinds, amount : Int] :
     SignAllowed(r.kind, r.amount)}
ReadClerk ==
  {r \in [at : {"read"}, org : Orgs, kind : Kinds, amount : Int, seen : Int] :
     SignAllowed(r.kind, r.amount)}

(* The variables hold what the columns and the call frames can hold.       *)
TypeOK ==
  /\ payments \in [Refs -> Entries \cup {None}]
  /\ paidIn \in [Orgs -> Nat]
  /\ settled \in [Orgs -> Nat]
  /\ adjusted \in [Orgs -> Int]
  /\ lock \in [Orgs -> Clerks \cup {None}]
  /\ rec \in [Recorders -> IdleRec \cup ConflictRec]
  /\ clerk \in [Clerks -> IdleClerk \cup BusyClerk \cup ReadClerk]
  /\ collisions \subseteq Calls

(* Record never lets the platform pay out more than it holds for an        *)
(* organisation, whatever requests and payments run at the same time.      *)
RemainingNonNegative == \A o \in Orgs : Remaining(o) >= 0

(* The comment on InsertManualLocked: payments take no lock because they   *)
(* only raise the balance, so a balance read under the lock is never more  *)
(* than the balance at the insert and a check that passed stays true.      *)
ReadBalanceIsLowerBound ==
  \A c \in Clerks : clerk[c].at = "read" => clerk[c].seen <= Remaining(clerk[c].org)

(* The advisory lock of an organisation has one holder, and a transaction  *)
(* that is past AcquireLock holds it.                                      *)
LockHeld ==
  \A c \in Clerks : clerk[c].at \in {"locked", "read"} => lock[clerk[c].org] = c

(* The ERROR a collision logs is never a false alarm: a call it names was  *)
(* refused its reference by another payment and is not in the ledger, so   *)
(* the operator who then credits it by hand does not credit it twice.      *)
CollisionsAreReal ==
  \A call \in collisions :
    /\ payments[call.ref] # None
    /\ payments[call.ref] # EntryOf(call)

(* The paid-in total is the sum of the organisation's own entries: a       *)
(* notification delivered twice or to two workers credits once.            *)
EntriesOf(o) == {r \in Refs : payments[r] # None /\ Owner[payments[r].invoice] = o}
SumOfEntries(o) == SumFunction([r \in EntriesOf(o) |-> payments[r].amount])

PaidInMatchesEntries == \A o \in Orgs : paidIn[o] = SumOfEntries(o)

(* An entry is written once: neither a repeated nor a colliding call ever  *)
(* changes or removes a payment entry.                                     *)
EntriesAreImmutable ==
  [][\A r \in Refs : payments[r] # None => payments'[r] = payments[r]]_vars

(* A request that has begun is answered: clerks never wait on each other   *)
(* for ever, and an aborted transaction does not keep the lock.            *)
RequestsAreAnswered ==
  \A c \in Clerks : clerk[c].at # "idle" ~> clerk[c].at = "idle"
=============================================================================
