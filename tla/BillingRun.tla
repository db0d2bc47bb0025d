----------------------------- MODULE BillingRun ------------------------------
(***************************************************************************)
(* The billing run: the hourly job that bills the due periods of a         *)
(* contract's items, one invoice per billing day, and ends the contract    *)
(* when its end date has passed.                                           *)
(*                                                                         *)
(*   service/billing_run.go              Run, groupDue, bill               *)
(*   service/issue.go                    CreateAndIssue, issueExisting     *)
(*   service/contract_service.go         SetEndDate, End                   *)
(*   repository/contract_repository.go   DueItems, Advance, EndExpired     *)
(*   repository/invoice_repository.go    Create, Issue, Void               *)
(*                                                                         *)
(* One contract.  Every worker process has its own timer, so several runs  *)
(* may be in progress; a run takes one step per database transaction and   *)
(* works on the items as it read them.  Days are numbered, and an item is  *)
(* its position in the contract.                                           *)
(***************************************************************************)
EXTENDS Integers, FiniteSets

CONSTANTS
  Items,        \* positions of the contract's items
  Prepaid,      \* the items billed ahead of their periods
  PeriodStart,  \* PeriodStart[i][n]: first day of the n-th period of i
  LastIndex,    \* bound: periods are numbered from 0 to LastIndex
  LeadDays,     \* the values of invoice_lead_days
  EndDates,     \* the end dates staff enter
  NoEnd,        \* no end date
  Runs,         \* worker processes
  Batch,        \* limit of the query of due items
  MaxRounds,    \* billingRunMaxRounds
  MaxDay,       \* bound: the last day
  MaxFaults     \* bound: crashes and errors

Indexes == 0..LastIndex

ASSUME ItemsAssumption == Items \subseteq Int /\ IsFiniteSet(Items) /\ Prepaid \subseteq Items
ASSUME PeriodAssumption ==
  /\ LastIndex \in Nat
  /\ PeriodStart \in [Items -> [0..(LastIndex + 1) -> Int]]
  /\ \A i \in Items, n, m \in 0..(LastIndex + 1) :
       n < m => PeriodStart[i][n] < PeriodStart[i][m]
ASSUME DayAssumption == LeadDays \subseteq Nat /\ EndDates \subseteq Int /\ NoEnd \notin Int
ASSUME BillingBounds ==
  Batch \in Nat /\ MaxRounds \in Nat /\ MaxDay \in Nat /\ MaxFaults \in Nat

VARIABLES
  today,      \* the business day
  lead,       \* invoice_lead_days
  index,      \* index[i]: period_index, the next period of i to be billed
  valid,      \* whether buildParams accepts the invoices of the contract
  contract,   \* status, end date, and who ended it
  invoice,    \* invoice[k]: the invoice with key period:k, and its lines
  run,        \* run[r]: where run r is, and what it has read
  staff,      \* whether End still has to tell the listeners
  announced,  \* times ContractEnded reached the listeners
  faults      \* faults so far

vars == <<today, lead, index, valid, contract, invoice, run, staff, announced, faults>>

Step(r, next) == run' = [run EXCEPT ![r] = next]
Goto(r, label) == run' = [run EXCEPT ![r].at = label]
Idle == [at |-> "idle"]

Periods == Items \X Indexes
Start(p) == PeriodStart[p[1]][p[2]]

(* billOnExpr: a postpaid period is billed the day after its end.          *)
BillOn(p, l) == IF p[1] \in Prepaid THEN Start(p) - l ELSE PeriodStart[p[1]][p[2] + 1]

BillDays == {BillOn(p, l) : p \in Periods, l \in LeadDays}
(* BillOrder's first invoice has billed the first period of prepaid items. *)
FirstIndex(i) == IF i \in Prepaid THEN 1 ELSE 0

Init ==
  /\ today = 0
  /\ lead \in LeadDays
  /\ index = [i \in Items |-> FirstIndex(i)]
  /\ valid = TRUE
  /\ contract = [status |-> "active", endDate |-> NoEnd, endedBy |-> "nobody"]
  /\ invoice = [k \in BillDays |-> [status |-> "none", lines |-> {}]]
  /\ run = [r \in Runs |-> Idle]
  /\ staff = "idle"
  /\ announced = 0
  /\ faults = 0

StartsInTime(p) == contract.endDate = NoEnd \/ Start(p) <= contract.endDate

-----------------------------------------------------------------------------
(* Run: the day and the settings are read once *)

Begin(r) ==
  /\ run[r].at = "idle"
  /\ Step(r, [at |-> "query", day |-> today, lead |-> lead, round |-> 0, failed |-> {},
              todo |-> {}, key |-> 0, group |-> {}, rest |-> {}])
  /\ UNCHANGED <<today, lead, index, valid, contract, invoice, staff, announced, faults>>

(* DueItems, in its order and up to its limit.                             *)
DuePeriods(l, day) ==
  {p \in {<<i, index[i]>> : i \in {j \in Items : index[j] <= LastIndex}} :
     contract.status = "active" /\ StartsInTime(p) /\ BillOn(p, l) <= day}

Before(p, q) == Start(p) < Start(q) \/ (Start(p) = Start(q) /\ p[1] < q[1])

FirstOf(due) == {p \in due : Cardinality({q \in due : Before(q, p)}) < Batch}

(* A round: the due items but those that failed in this run.               *)
Query(r) ==
  LET due == FirstOf(DuePeriods(run[r].lead, run[r].day))
      todo == {p \in due : p[1] \notin run[r].failed}
  IN /\ run[r].at = "query"
     /\ IF todo = {} \/ run[r].round = MaxRounds
          THEN Goto(r, "expire")
          ELSE Step(r, [run[r] EXCEPT !.at = "find", !.todo = todo, !.round = @ + 1])
     /\ UNCHANGED <<today, lead, index, valid, contract, invoice, staff, announced, faults>>

(* groupDue: the items of the earliest billing day are one invoice.        *)
Earliest(r) ==
  {p \in run[r].todo :
     \A q \in run[r].todo : BillOn(p, run[r].lead) <= BillOn(q, run[r].lead)}

(* The group is done, or given up: its items are left alone until the next *)
(* run.                                                                    *)
AfterGroup(todo) == IF todo = {} THEN "query" ELSE "find"

GiveUp(r, group, todo) ==
  Step(r, [run[r] EXCEPT !.at = AfterGroup(todo), !.todo = todo, !.group = {}, !.rest = {},
                         !.failed = @ \cup {p[1] : p \in group}])

-----------------------------------------------------------------------------
(* CreateAndIssue, with the key period:<billing day> *)

(* issueExisting: a draft left by a run that was cut off is issued, any    *)
(* other invoice is taken as it is.  Mutants: drafts are taken as they     *)
(* are; drafts are not looked for.                                         *)
DraftsAreDone(k) == IF invoice[k].status = "none" THEN "create" ELSE "advance"
DraftsAreOverlooked(k) ==
  IF invoice[k].status \in {"none", "draft"} THEN "create" ELSE "advance"

AfterFind(k) ==
  CASE invoice[k].status = "none" -> "create"
    [] invoice[k].status = "draft" -> "issue"
    [] OTHER -> "advance"

Find(r) ==
  LET group == Earliest(r) IN
    /\ run[r].at = "find"
    /\ \E p \in group :
         LET k == BillOn(p, run[r].lead) IN
         Step(r, [run[r] EXCEPT !.at = AfterFind(k), !.key = k, !.group = group,
                                !.rest = group, !.todo = @ \ group])
    /\ UNCHANGED <<today, lead, index, valid, contract, invoice, staff, announced, faults>>

Billed(p) == \E k \in BillDays : p \in invoice[k].lines

(* The unique index on (contract_item_id, period_start).  Mutant: without. *)
LinesAnyway(group) == TRUE
LinesAreNew(group) == \A p \in group : ~Billed(p)

(* buildParams: the account is gone, its PIC has left the organisation, a  *)
(* description is too long with its period or a value too large.  No run   *)
(* creates an invoice until that has changed.                              *)
CreateInvalid(r) ==
  /\ run[r].at = "create"
  /\ ~valid
  /\ GiveUp(r, run[r].group, run[r].todo)
  /\ UNCHANGED <<today, lead, index, valid, contract, invoice, staff, announced, faults>>

(* Create, for a key that nobody else has taken in the meantime.           *)
CreateDraft(r) ==
  LET k == run[r].key IN
    /\ run[r].at = "create"
    /\ valid
    /\ invoice[k].status = "none"
    /\ LinesAreNew(run[r].group)
    /\ invoice' = [invoice EXCEPT ![k] = [status |-> "draft", lines |-> run[r].group]]
    /\ Goto(r, "issue")
    /\ UNCHANGED <<today, lead, index, valid, contract, staff, announced, faults>>

(* ErrDuplicateSource: another run has.                                    *)
CreateLost(r) ==
  /\ run[r].at = "create"
  /\ valid
  /\ invoice[run[r].key].status # "none"
  /\ Goto(r, AfterFind(run[r].key))
  /\ UNCHANGED <<today, lead, index, valid, contract, invoice, staff, announced, faults>>

(* One of the periods has a line on an invoice with another key.           *)
CreateRefused(r) ==
  /\ run[r].at = "create"
  /\ valid
  /\ invoice[run[r].key].status = "none"
  /\ ~LinesAreNew(run[r].group)
  /\ GiveUp(r, run[r].group, run[r].todo)
  /\ UNCHANGED <<today, lead, index, valid, contract, invoice, staff, announced, faults>>

(* issue: whoever comes second finds the invoice issued.                   *)
Issue(r) ==
  LET k == run[r].key IN
    /\ run[r].at = "issue"
    /\ invoice[k].status \in {"draft", "issued"}
    /\ invoice' = [invoice EXCEPT ![k].status = "issued"]
    /\ Goto(r, "advance")
    /\ UNCHANGED <<today, lead, index, valid, contract, staff, announced, faults>>

(* Voided since: an error if the first read sees it, else it is returned.  *)
IssueVoided(r) ==
  /\ run[r].at = "issue"
  /\ invoice[run[r].key].status = "void"
  /\ \/ GiveUp(r, run[r].group, run[r].todo)
     \/ Goto(r, "advance")
  /\ UNCHANGED <<today, lead, index, valid, contract, invoice, staff, announced, faults>>

(* Advance, in the order of the query and only from the index that was     *)
(* read.  Mutant: from any.                                                *)
AdvanceAnyway(p) == index' = [index EXCEPT ![p[1]] = @ + 1]
AdvanceFrom(p) == index' = [index EXCEPT ![p[1]] = IF @ = p[2] THEN @ + 1 ELSE @]

Advance(r) ==
  /\ run[r].at = "advance"
  /\ \E p \in run[r].rest :
       LET rest == run[r].rest \ {p} IN
       /\ \A q \in rest : Before(p, q)
       /\ AdvanceFrom(p)
       /\ IF rest = {}
            THEN Step(r, [run[r] EXCEPT !.at = AfterGroup(run[r].todo), !.group = {}, !.rest = {}])
            ELSE Step(r, [run[r] EXCEPT !.rest = rest])
  /\ UNCHANGED <<today, lead, valid, contract, invoice, staff, announced, faults>>

(* A statement fails, in CreateAndIssue or in Advance. *)
GroupFails(r) ==
  /\ faults < MaxFaults
  /\ faults' = faults + 1
  /\ \/ run[r].at = "find" /\ GiveUp(r, Earliest(r), run[r].todo \ Earliest(r))
     \/ /\ run[r].at \in {"create", "issue", "advance"}
        /\ GiveUp(r, run[r].group, run[r].todo)
  /\ UNCHANGED <<today, lead, index, valid, contract, invoice, staff, announced>>

(* The process dies, or a query fails and Run returns. *)
Crash(r) ==
  /\ run[r].at # "idle"
  /\ faults < MaxFaults
  /\ faults' = faults + 1
  /\ Step(r, Idle)
  /\ UNCHANGED <<today, lead, index, valid, contract, invoice, staff, announced>>

-----------------------------------------------------------------------------
(* EndExpired: every period that starts by the end date has been passed.   *)
(* Mutants: the items are not looked at; the status is not looked at.      *)
DateHasPassed(day) ==
  /\ contract.status = "active"
  /\ contract.endDate # NoEnd /\ contract.endDate < day
ExpiredOnceMore(day) ==
  /\ contract.endDate # NoEnd /\ contract.endDate < day
  /\ \A i \in Items : PeriodStart[i][index[i]] > contract.endDate

Expired(day) ==
  /\ contract.status = "active"
  /\ contract.endDate # NoEnd /\ contract.endDate < day
  /\ \A i \in Items : PeriodStart[i][index[i]] > contract.endDate

EndExpired(r) ==
  /\ run[r].at = "expire"
  /\ Expired(run[r].day)
  /\ contract' = [contract EXCEPT !.status = "ended", !.endedBy = "run"]
  /\ Goto(r, "announce")
  /\ UNCHANGED <<today, lead, index, valid, invoice, staff, announced, faults>>

EndNothing(r) ==
  /\ run[r].at = "expire"
  /\ ~Expired(run[r].day)
  /\ Step(r, Idle)
  /\ UNCHANGED <<today, lead, index, valid, contract, invoice, staff, announced, faults>>

(* The listeners are called when the transaction has committed. *)
Announce(r) ==
  /\ run[r].at = "announce"
  /\ announced' = announced + 1
  /\ Step(r, Idle)
  /\ UNCHANGED <<today, lead, index, valid, contract, invoice, staff, faults>>

-----------------------------------------------------------------------------
(* Staff, the settings and the calendar *)

SetEndDate(d) ==
  /\ contract.status = "active"
  /\ d # NoEnd => d >= today
  /\ contract' = [contract EXCEPT !.endDate = d]
  /\ UNCHANGED <<today, lead, index, valid, invoice, run, staff, announced, faults>>

End(d) ==
  /\ staff = "idle"
  /\ contract.status = "active"
  /\ contract' = [status |-> "ended", endDate |-> d, endedBy |-> "staff"]
  /\ staff' = "announce"
  /\ UNCHANGED <<today, lead, index, valid, invoice, run, announced, faults>>

StaffAnnounce ==
  /\ staff = "announce"
  /\ staff' = "idle"
  /\ announced' = announced + 1
  /\ UNCHANGED <<today, lead, index, valid, contract, invoice, run, faults>>

StaffCrash ==
  /\ staff = "announce"
  /\ faults < MaxFaults
  /\ faults' = faults + 1
  /\ staff' = "idle"
  /\ UNCHANGED <<today, lead, index, valid, contract, invoice, run, announced>>

(* Void takes drafts too, and Issue those a run has left. *)
VoidInvoice(k) ==
  /\ invoice[k].status \in {"draft", "issued"}
  /\ invoice' = [invoice EXCEPT ![k].status = "void"]
  /\ UNCHANGED <<today, lead, index, valid, contract, run, staff, announced, faults>>

IssueByStaff(k) ==
  /\ invoice[k].status = "draft"
  /\ invoice' = [invoice EXCEPT ![k].status = "issued"]
  /\ UNCHANGED <<today, lead, index, valid, contract, run, staff, announced, faults>>

SetLead(l) ==
  /\ lead # l
  /\ lead' = l
  /\ UNCHANGED <<today, index, valid, contract, invoice, run, staff, announced, faults>>

(* Other modules change what buildParams looks at, or staff correct it. *)
DataChanges ==
  /\ valid' = ~valid
  /\ UNCHANGED <<today, lead, index, contract, invoice, run, staff, announced, faults>>

NextDay ==
  /\ today < MaxDay
  /\ today' = today + 1
  /\ UNCHANGED <<lead, index, valid, contract, invoice, run, staff, announced, faults>>

-----------------------------------------------------------------------------
RunStep(r) ==
  \/ Begin(r) \/ Query(r) \/ Find(r)
  \/ CreateInvalid(r) \/ CreateDraft(r) \/ CreateLost(r) \/ CreateRefused(r)
  \/ Issue(r) \/ IssueVoided(r) \/ Advance(r)
  \/ EndExpired(r) \/ EndNothing(r) \/ Announce(r)

Next ==
  \/ \E r \in Runs : RunStep(r) \/ GroupFails(r) \/ Crash(r)
  \/ \E d \in EndDates : SetEndDate(d) \/ End(d)
  \/ SetEndDate(NoEnd)
  \/ StaffAnnounce \/ StaffCrash
  \/ \E k \in BillDays : VoidInvoice(k) \/ IssueByStaff(k)
  \/ \E l \in LeadDays : SetLead(l)
  \/ DataChanges
  \/ NextDay

(* The timer starts the job again and again, and a run goes on unless the  *)
(* process dies.                                                           *)
Fairness == \A r \in Runs : WF_vars(RunStep(r))

Safety == Init /\ [][Next]_vars
Spec == Safety /\ Fairness

-----------------------------------------------------------------------------
IdleRun == [at : {"idle"}]
BusyRun ==
  [at : {"query", "find", "create", "issue", "advance", "expire", "announce"},
   day : 0..MaxDay, lead : LeadDays, round : 0..MaxRounds, failed : SUBSET Items,
   todo : SUBSET Periods, key : BillDays \cup {0},
   group : SUBSET Periods, rest : SUBSET Periods]

TypeOK ==
  /\ today \in 0..MaxDay
  /\ lead \in LeadDays
  /\ index \in [Items -> 0..(LastIndex + 1)]
  /\ valid \in BOOLEAN
  /\ contract \in [status : {"active", "ended"}, endDate : EndDates \cup {NoEnd},
                   endedBy : {"nobody", "staff", "run"}]
  /\ invoice \in [BillDays -> [status : {"none", "draft", "issued", "void"},
                               lines : SUBSET Periods]]
  /\ run \in [Runs -> IdleRun \cup BusyRun]
  /\ \A r \in Runs : run[r].at \in {"create", "issue", "advance"} => run[r].key \in BillDays
  /\ staff \in {"idle", "announce"}
  /\ announced \in Nat
  /\ faults \in Nat

OnIssuedInvoice(p) ==
  \E k \in BillDays : p \in invoice[k].lines /\ invoice[k].status \in {"issued", "void"}

(* An item is never moved past a period that no invoice was issued for,    *)
(* whatever runs in parallel or is cut off.  (billing_run.go:54-56)        *)
AdvancedIsBilled ==
  \A i \in Items : \A n \in FirstIndex(i)..(index[i] - 1) : OnIssuedInvoice(<<i, n>>)

(* No period of an item is on two invoices, whatever the lead days were    *)
(* when their keys were made.                                              *)
PeriodBilledOnce ==
  \A k, m \in BillDays : k # m => invoice[k].lines \cap invoice[m].lines = {}

(* A contract that the run has ended was billed for every period that      *)
(* started by its end date.                                                *)
EndedIsBilled ==
  contract.endedBy = "run" =>
    \A i \in Items : \A n \in FirstIndex(i)..LastIndex :
      Start(<<i, n>>) <= contract.endDate => OnIssuedInvoice(<<i, n>>)

(* The listeners (workspace access is taken away) never hear twice of the  *)
(* end, though the run and staff may both end the contract.                *)
AnnouncedAtMostOnce == announced <= 1 /\ (announced = 1 => contract.status = "ended")

IsDue(i, n) == index[i] = n /\ <<i, n>> \in DuePeriods(lead, today)

(* With lead days that never change, and once buildParams accepts the      *)
(* contract's invoices, a due period is billed in the end or no longer     *)
(* due: a run cut off between the invoice and Advance is made up for by    *)
(* the next.  (reference-receivable.md:214-215, which says it without the  *)
(* first condition: when the key changes between two runs, the unique      *)
(* index refuses the line the first has created in every later one.)       *)
DueIsBilled ==
  \A l \in LeadDays :
    [](lead = l) /\ <>[]valid =>
      \A i \in Items, n \in Indexes : IsDue(i, n) ~> ~IsDue(i, n)
=============================================================================
