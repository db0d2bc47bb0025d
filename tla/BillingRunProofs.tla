--------------------------- MODULE BillingRunProofs ---------------------------
(* The billing run for any contract, any number of runs in parallel and any *)
(* faults: what holds always, and what holds as long as no two periods meet *)
(* on one billing day.                                                      *)
EXTENDS BillingRun, TLAPS

-----------------------------------------------------------------------------
(* Types *)

RunsTyped ==
  /\ run \in [Runs -> IdleRun \cup BusyRun]
  /\ \A r \in Runs : run[r].at \in {"create", "issue", "advance"} => run[r].key \in BillDays

InvoicesTyped ==
  invoice \in [BillDays -> [status : {"none", "draft", "issued", "void"},
                            lines : SUBSET Periods]]

RestTyped ==
  /\ today \in 0..MaxDay
  /\ lead \in LeadDays
  /\ index \in [Items -> 0..(LastIndex + 1)]
  /\ valid \in BOOLEAN
  /\ contract \in [status : {"active", "ended"}, endDate : EndDates \cup {NoEnd},
                   endedBy : {"nobody", "staff", "run"}]
  /\ staff \in {"idle", "announce"}
  /\ announced \in Nat
  /\ faults \in Nat

LEMMA TypesAreParts == TypeOK <=> RunsTyped /\ InvoicesTyped /\ RestTyped
BY DEF TypeOK, RunsTyped, InvoicesTyped, RestTyped

LEMMA TypesNext ==
  ASSUME RunsTyped', InvoicesTyped', RestTyped' PROVE TypeOK'
BY DEF TypeOK, RunsTyped, InvoicesTyped, RestTyped

(* Days and periods.                                                       *)
LEMMA Days ==
  /\ \A p \in Periods : p[1] \in Items /\ p[2] \in Indexes /\ Start(p) \in Int
  /\ \A p \in Periods, l \in LeadDays : BillOn(p, l) \in BillDays
  /\ BillDays \subseteq Int
  /\ \A i \in Items, n \in Indexes : <<i, n>> \in Periods
<1>1. ASSUME NEW p \in Periods PROVE p[1] \in Items /\ p[2] \in Indexes /\ Start(p) \in Int
  BY PeriodAssumption DEF Periods, Indexes, Start
<1>2. ASSUME NEW p \in Periods, NEW l \in LeadDays
      PROVE  BillOn(p, l) \in Int /\ BillOn(p, l) \in BillDays
  <2>1. p[2] + 1 \in 0..(LastIndex + 1)
    BY <1>1, PeriodAssumption DEF Indexes
  <2>2. BillOn(p, l) \in Int
    BY <1>1, <2>1, PeriodAssumption, DayAssumption DEF BillOn, Indexes
  <2> QED BY <2>2 DEF BillDays
<1>3. BillDays \subseteq Int
  BY <1>2 DEF BillDays
<1> QED BY <1>1, <1>2, <1>3 DEF Periods

LEMMA RunBusy ==
  ASSUME TypeOK, NEW r \in Runs, run[r].at # "idle"
  PROVE  run[r] \in BusyRun
BY DEF TypeOK, IdleRun

Others(r) == \A q \in Runs \ {r} : run'[q] = run[q]

LEMMA RunUpdate ==
  ASSUME TypeOK, NEW r \in Runs, NEW f \in IdleRun \cup BusyRun,
         run' = [run EXCEPT ![r] = f],
         f.at \in {"create", "issue", "advance"} => f.key \in BillDays
  PROVE  RunsTyped' /\ run'[r] = f /\ Others(r)
BY DEF TypeOK, RunsTyped, Others

LEMMA InvoiceUpdate ==
  ASSUME TypeOK, NEW k \in BillDays,
         NEW v \in [status : {"none", "draft", "issued", "void"}, lines : SUBSET Periods],
         invoice' = [invoice EXCEPT ![k] = v]
  PROVE  /\ InvoicesTyped' /\ invoice'[k] = v
         /\ \A m \in BillDays \ {k} : invoice'[m] = invoice[m]
BY DEF TypeOK, InvoicesTyped

(* A run gives up a group, or is through with it.                          *)
LEMMA GiveUpStep ==
  ASSUME TypeOK, NEW r \in Runs, run[r].at # "idle", NEW group \in SUBSET Periods,
         NEW todo \in SUBSET Periods, GiveUp(r, group, todo)
  PROVE  RunsTyped' /\ Others(r) /\ run'[r] \in BusyRun /\ run'[r].at \in {"query", "find"}
<1> DEFINE at == AfterGroup(todo)
           failed == run[r].failed \cup {p[1] : p \in group}
           f == [run[r] EXCEPT !.at = at, !.todo = todo, !.group = {}, !.rest = {},
                               !.failed = failed]
<1>1. run[r] \in BusyRun
  BY RunBusy
<1>2. at \in {"query", "find"}
  BY DEF AfterGroup
<1>3. failed \in SUBSET Items
  BY <1>1, Days DEF BusyRun
<1>4. run' = [run EXCEPT ![r] = f]
  BY DEF GiveUp, Step
<1> HIDE DEF at, failed
<1>5. f \in BusyRun /\ f.at \in {"query", "find"}
  BY <1>1, <1>2, <1>3 DEF BusyRun
<1> HIDE DEF f
<1> QED BY <1>4, <1>5, RunUpdate

(* A run moves on and keeps what it has read.                              *)
LEMMA GotoStep ==
  ASSUME TypeOK, NEW r \in Runs,
         NEW at \in {"find", "create", "issue", "advance", "expire", "announce"},
         run[r].at # "idle",
         at \in {"create", "issue", "advance"} => run[r].key \in BillDays,
         Goto(r, at)
  PROVE  /\ RunsTyped' /\ Others(r) /\ run'[r] \in BusyRun /\ run'[r].at = at
         /\ run'[r].key = run[r].key /\ run'[r].group = run[r].group
         /\ run'[r].rest = run[r].rest /\ run'[r].lead = run[r].lead
<1> DEFINE f == [run[r] EXCEPT !.at = at]
<1>1. run[r] \in BusyRun
  BY RunBusy
<1>2. f \in BusyRun /\ f.at = at /\ f.key = run[r].key /\ f.group = run[r].group
      /\ f.rest = run[r].rest /\ f.lead = run[r].lead
  BY <1>1 DEF BusyRun
<1>3. run' = [run EXCEPT ![r] = f]
  BY DEF Goto
<1> HIDE DEF f
<1> QED BY <1>2, <1>3, RunUpdate

LEMMA IdleStep ==
  ASSUME TypeOK, NEW r \in Runs, Step(r, Idle)
  PROVE  RunsTyped' /\ Others(r) /\ run'[r] = Idle
<1>1. Idle \in IdleRun /\ Idle.at = "idle"
  BY DEF Idle, IdleRun
<1> QED BY <1>1, RunUpdate DEF Step

-----------------------------------------------------------------------------
(* The steps of a run, by what they leave of it and of the invoices *)

(* A run that has no group in hand.                                        *)
EmptyHanded(r) == run[r].at \notin {"create", "issue", "advance"}

(* A group of periods with one billing day, which is the run's key.        *)
Grouped(r) ==
  /\ run[r].key \in BillDays /\ run[r].group \in SUBSET Periods /\ run[r].lead \in LeadDays
  /\ run[r].group # {} /\ run[r].rest \subseteq run[r].group
  /\ \A p \in run[r].group : BillOn(p, run[r].lead) = run[r].key

Keeps(r) ==
  /\ run'[r].key = run[r].key /\ run'[r].group = run[r].group
  /\ run'[r].rest = run[r].rest /\ run'[r].lead = run[r].lead

LEMMA FindStep ==
  ASSUME TypeOK, NEW r \in Runs, Find(r)
  PROVE  /\ RunsTyped' /\ Others(r) /\ Grouped(r)' /\ run'[r].at = AfterFind(run'[r].key)
         /\ run'[r].at \in {"create", "issue", "advance"}
<1> DEFINE group == Earliest(r)
<1>1. run[r].at = "find" /\ run[r] \in BusyRun
  BY RunBusy DEF Find
<1>2. group \in SUBSET Periods
  BY <1>1 DEF Earliest, BusyRun
<1>3. \A p, q \in group : BillOn(p, run[r].lead) = BillOn(q, run[r].lead)
  <2>1. \A p \in group : BillOn(p, run[r].lead) \in Int
    BY <1>1, <1>2, Days DEF BusyRun
  <2>2. \A p, q \in group : BillOn(p, run[r].lead) <= BillOn(q, run[r].lead)
    BY DEF Earliest
  <2> HIDE DEF group
  <2> QED BY <2>1, <2>2
<1>4. PICK p \in group :
        Step(r, [run[r] EXCEPT !.at = AfterFind(BillOn(p, run[r].lead)),
                               !.key = BillOn(p, run[r].lead), !.group = group,
                               !.rest = group, !.todo = @ \ group])
  BY DEF Find
<1> DEFINE k == BillOn(p, run[r].lead)
           at == AfterFind(k)
           todo == run[r].todo \ group
           f == [run[r] EXCEPT !.at = at, !.key = k, !.group = group, !.rest = group,
                               !.todo = todo]
<1>5. k \in BillDays
  BY <1>1, <1>2, Days DEF BusyRun
<1>6. at \in {"create", "issue", "advance"}
  BY DEF AfterFind
<1>7. todo \in SUBSET Periods
  BY <1>1 DEF BusyRun
<1>8. run' = [run EXCEPT ![r] = f]
  BY <1>4 DEF Step
<1> HIDE DEF group, k, at, todo
<1>9. /\ f \in BusyRun /\ f.at = at /\ f.key = k /\ f.group = group /\ f.rest = group
      /\ f.lead = run[r].lead /\ f.lead \in LeadDays
  BY <1>1, <1>2, <1>5, <1>6, <1>7 DEF BusyRun
<1> HIDE DEF f
<1>10. RunsTyped' /\ run'[r] = f /\ Others(r)
  BY <1>5, <1>8, <1>9, RunUpdate
<1>11. \A q \in group : BillOn(q, run'[r].lead) = run'[r].key
  BY <1>3, <1>9, <1>10 DEF k
<1> QED BY <1>2, <1>5, <1>6, <1>9, <1>10, <1>11 DEF Grouped, at

LEMMA QuerySteps ==
  ASSUME TypeOK, NEW r \in Runs, Begin(r) \/ Query(r)
  PROVE  RunsTyped' /\ Others(r) /\ run'[r].at \in {"query", "find", "expire"}
<1>1. CASE Begin(r)
  <2> DEFINE f == [at |-> "query", day |-> today, lead |-> lead, round |-> 0,
                   failed |-> {}, todo |-> {}, key |-> 0, group |-> {}, rest |-> {}]
  <2>1. f \in BusyRun /\ f.at = "query"
    BY BillingBounds DEF BusyRun, TypeOK
  <2>2. run' = [run EXCEPT ![r] = f]
    BY <1>1 DEF Begin, Step
  <2> HIDE DEF f
  <2> QED BY <2>1, <2>2, RunUpdate
<1>2. CASE Query(r)
  <2> DEFINE todo == {p \in FirstOf(DuePeriods(run[r].lead, run[r].day)) :
                        p[1] \notin run[r].failed}
  <2>1. run[r].at = "query" /\ run[r] \in BusyRun
    BY <1>2, RunBusy DEF Query
  <2>2. \/ Goto(r, "expire")
        \/ /\ run[r].round # MaxRounds
           /\ Step(r, [run[r] EXCEPT !.at = "find", !.todo = todo, !.round = @ + 1])
    BY <1>2 DEF Query
  <2>3. CASE Goto(r, "expire")
    BY <2>1, <2>3, GotoStep
  <2>4. CASE /\ run[r].round # MaxRounds
             /\ Step(r, [run[r] EXCEPT !.at = "find", !.todo = todo, !.round = @ + 1])
    <3> DEFINE f == [run[r] EXCEPT !.at = "find", !.todo = todo, !.round = @ + 1]
    <3>1. todo \in SUBSET Periods
      <4>1. DuePeriods(run[r].lead, run[r].day) \subseteq Periods
        BY PeriodAssumption DEF DuePeriods, Periods, Indexes, TypeOK
      <4> QED BY <4>1 DEF FirstOf
    <3>2. run[r].round + 1 \in 0..MaxRounds
      BY <2>1, <2>4, BillingBounds DEF BusyRun
    <3>3. run' = [run EXCEPT ![r] = f]
      BY <2>4 DEF Step
    <3> HIDE DEF todo
    <3>4. f \in BusyRun /\ f.at = "find"
      BY <2>1, <3>1, <3>2 DEF BusyRun
    <3> HIDE DEF f
    <3> QED BY <3>3, <3>4, RunUpdate
  <2> QED BY <2>2, <2>3, <2>4
<1> QED BY <1>1, <1>2

LEMMA RestUnchanged ==
  ASSUME TypeOK, UNCHANGED <<today, lead, index, valid, contract, staff, announced>>,
         faults' \in Nat
  PROVE  RestTyped'
BY DEF TypeOK, RestTyped

(* Create, Issue and what a run does when it comes too late.               *)
SetsInvoice(r, v) ==
  /\ invoice'[run[r].key] = v
  /\ \A m \in BillDays \ {run[r].key} : invoice'[m] = invoice[m]

LEMMA InvoiceSteps ==
  ASSUME TypeOK, NEW r \in Runs, Grouped(r),
         CreateDraft(r) \/ CreateLost(r) \/ Issue(r) \/ IssueVoided(r)
  PROVE  LET k == run[r].key IN
         /\ TypeOK' /\ Others(r) /\ UNCHANGED <<index, contract, staff, announced>>
         /\ run[r].at \in {"create", "issue"}
         /\ \/ /\ run[r].at = "create" /\ run'[r].at = "issue" /\ Keeps(r)
               /\ invoice[k].status = "none" /\ LinesAreNew(run[r].group)
               /\ SetsInvoice(r, [status |-> "draft", lines |-> run[r].group])
            \/ /\ run[r].at = "create" /\ run'[r].at = AfterFind(k) /\ Keeps(r)
               /\ invoice[k].status # "none" /\ UNCHANGED invoice
            \/ /\ run[r].at = "issue" /\ run'[r].at = "advance" /\ Keeps(r)
               /\ invoice[k].status \in {"draft", "issued"}
               /\ SetsInvoice(r, [invoice[k] EXCEPT !.status = "issued"])
            \/ /\ run[r].at = "issue" /\ run'[r].at = "advance" /\ Keeps(r)
               /\ invoice[k].status = "void" /\ UNCHANGED invoice
            \/ EmptyHanded(r)' /\ run'[r].at # "announce" /\ UNCHANGED invoice
<1> DEFINE k == run[r].key
<1>1. /\ run[r].at \in {"create", "issue"}
      /\ UNCHANGED <<today, lead, index, valid, contract, staff, announced, faults>>
  BY DEF CreateDraft, CreateLost, Issue, IssueVoided
<1>2. run[r] \in BusyRun /\ run[r].at # "idle" /\ k \in BillDays
  BY <1>1, RunBusy DEF Grouped
<1>3. RestTyped'
  BY <1>1, RestUnchanged DEF TypeOK
<1>4. invoice[k] \in [status : {"none", "draft", "issued", "void"}, lines : SUBSET Periods]
  BY <1>2 DEF TypeOK
<1>5. ASSUME UNCHANGED invoice PROVE InvoicesTyped'
  BY <1>5 DEF TypeOK, InvoicesTyped
<1>6. ASSUME NEW at \in {"create", "issue", "advance"}, Goto(r, at)
      PROVE  RunsTyped' /\ Others(r) /\ run'[r].at = at /\ Keeps(r)
  BY <1>2, <1>6, GotoStep DEF Keeps
<1> HIDE DEF k
<1>7. CASE CreateDraft(r)
  <2> DEFINE v == [status |-> "draft", lines |-> run[r].group]
  <2>1. /\ run[r].at = "create" /\ invoice[k].status = "none" /\ LinesAreNew(run[r].group)
        /\ invoice' = [invoice EXCEPT ![k] = v] /\ Goto(r, "issue")
    BY <1>7 DEF CreateDraft, k
  <2>2. v \in [status : {"none", "draft", "issued", "void"}, lines : SUBSET Periods]
    BY DEF Grouped
  <2> HIDE DEF v
  <2>3. InvoicesTyped' /\ SetsInvoice(r, v)
    BY <1>2, <2>1, <2>2, InvoiceUpdate DEF SetsInvoice, k
  <2>4. RunsTyped' /\ Others(r) /\ run'[r].at = "issue" /\ Keeps(r)
    BY <1>6, <2>1
  <2>5. TypeOK'
    BY <1>3, <2>3, <2>4, TypesNext
  <2> QED BY <1>1, <2>1, <2>3, <2>4, <2>5 DEF v, k
<1>8. CASE CreateLost(r)
  <2>1. /\ run[r].at = "create" /\ invoice[k].status # "none" /\ UNCHANGED invoice
        /\ Goto(r, AfterFind(k))
    BY <1>8 DEF CreateLost, k
  <2>2. AfterFind(k) \in {"create", "issue", "advance"}
    BY DEF AfterFind
  <2>3. RunsTyped' /\ Others(r) /\ run'[r].at = AfterFind(k) /\ Keeps(r)
    BY <1>6, <2>1, <2>2
  <2>4. TypeOK'
    BY <1>3, <1>5, <2>1, <2>3, TypesNext
  <2> QED BY <1>1, <2>1, <2>3, <2>4 DEF k
<1>9. CASE Issue(r)
  <2> DEFINE v == [invoice[k] EXCEPT !.status = "issued"]
  <2>1. /\ run[r].at = "issue" /\ invoice[k].status \in {"draft", "issued"}
        /\ invoice' = [invoice EXCEPT ![k] = v] /\ Goto(r, "advance")
    BY <1>9 DEF Issue, k
  <2>2. v \in [status : {"none", "draft", "issued", "void"}, lines : SUBSET Periods]
    BY <1>4
  <2> HIDE DEF v
  <2>3. InvoicesTyped' /\ SetsInvoice(r, v)
    BY <1>2, <2>1, <2>2, InvoiceUpdate DEF SetsInvoice, k
  <2>4. RunsTyped' /\ Others(r) /\ run'[r].at = "advance" /\ Keeps(r)
    BY <1>6, <2>1
  <2>5. TypeOK'
    BY <1>3, <2>3, <2>4, TypesNext
  <2> QED BY <1>1, <2>1, <2>3, <2>4, <2>5 DEF v, k
<1>10. CASE IssueVoided(r)
  <2>1. /\ run[r].at = "issue" /\ invoice[k].status = "void" /\ UNCHANGED invoice
        /\ GiveUp(r, run[r].group, run[r].todo) \/ Goto(r, "advance")
    BY <1>10 DEF IssueVoided, k
  <2>2. CASE Goto(r, "advance")
    <3>1. RunsTyped' /\ Others(r) /\ run'[r].at = "advance" /\ Keeps(r)
      BY <1>6, <2>2
    <3>2. TypeOK'
      BY <1>3, <1>5, <2>1, <3>1, TypesNext
    <3> QED BY <1>1, <2>1, <3>1, <3>2 DEF k
  <2>3. CASE GiveUp(r, run[r].group, run[r].todo)
    <3>1. run[r].todo \in SUBSET Periods /\ run[r].group \in SUBSET Periods
      BY <1>2 DEF BusyRun
    <3>2. RunsTyped' /\ Others(r) /\ run'[r].at \in {"query", "find"}
      BY <1>2, <2>3, <3>1, GiveUpStep
    <3>3. TypeOK'
      BY <1>3, <1>5, <2>1, <3>2, TypesNext
    <3> QED BY <1>1, <2>1, <3>2, <3>3 DEF EmptyHanded
  <2> QED BY <2>1, <2>2, <2>3
<1> QED BY <1>7, <1>8, <1>9, <1>10

LEMMA AdvanceStep ==
  ASSUME TypeOK, NEW r \in Runs, Grouped(r), Advance(r)
  PROVE  /\ TypeOK' /\ Others(r) /\ UNCHANGED <<invoice, contract, staff, announced>>
         /\ run[r].at = "advance"
         /\ \E p \in run[r].rest :
              /\ p \in Periods
              /\ index'[p[1]] = IF index[p[1]] = p[2] THEN index[p[1]] + 1 ELSE index[p[1]]
              /\ \A i \in Items \ {p[1]} : index'[i] = index[i]
         /\ \/ EmptyHanded(r)' /\ run'[r].at # "announce"
            \/ Grouped(r)' /\ run'[r].at = "advance" /\ run'[r].key = run[r].key
<1>1. PICK p \in run[r].rest :
        /\ index' = [index EXCEPT ![p[1]] =
                       IF index[p[1]] = p[2] THEN index[p[1]] + 1 ELSE index[p[1]]]
        /\ IF run[r].rest \ {p} = {}
            THEN Step(r, [run[r] EXCEPT !.at = AfterGroup(run[r].todo), !.group = {},
                                        !.rest = {}])
            ELSE Step(r, [run[r] EXCEPT !.rest = run[r].rest \ {p}])
  BY DEF Advance, AdvanceFrom
<1>2. /\ run[r].at = "advance" /\ run[r] \in BusyRun
      /\ UNCHANGED <<today, lead, valid, contract, invoice, staff, announced, faults>>
  BY RunBusy DEF Advance
<1>3. p \in Periods /\ p[1] \in Items /\ p[2] \in Indexes
  BY <1>2, Days DEF BusyRun
<1> DEFINE n == IF index[p[1]] = p[2] THEN index[p[1]] + 1 ELSE index[p[1]]
<1>4. index \in [Items -> 0..(LastIndex + 1)] /\ n \in 0..(LastIndex + 1)
  BY <1>3, PeriodAssumption DEF TypeOK, Indexes
<1>5. index' = [index EXCEPT ![p[1]] = n]
  BY <1>1
<1> HIDE DEF n
<1>6. index' \in [Items -> 0..(LastIndex + 1)] /\ index'[p[1]] = n
      /\ \A i \in Items \ {p[1]} : index'[i] = index[i]
  BY <1>3, <1>4, <1>5
<1>7. RestTyped' /\ InvoicesTyped'
  BY <1>2, <1>6 DEF TypeOK, RestTyped, InvoicesTyped
<1>8. CASE run[r].rest \ {p} = {}
  <2> DEFINE at == AfterGroup(run[r].todo)
             f == [run[r] EXCEPT !.at = at, !.group = {}, !.rest = {}]
  <2>1. at \in {"query", "find"} /\ run' = [run EXCEPT ![r] = f]
    BY <1>1, <1>8 DEF AfterGroup, Step
  <2> HIDE DEF at
  <2>2. f \in BusyRun /\ f.at \in {"query", "find"}
    BY <1>2, <2>1 DEF BusyRun
  <2> HIDE DEF f
  <2>3. RunsTyped' /\ Others(r) /\ run'[r].at \in {"query", "find"}
    BY <2>1, <2>2, RunUpdate
  <2> QED BY <1>2, <1>3, <1>6, <1>7, <2>3, TypesNext DEF EmptyHanded, n
<1>9. CASE run[r].rest \ {p} # {}
  <2> DEFINE rest == run[r].rest \ {p}
             f == [run[r] EXCEPT !.rest = rest]
  <2>1. run' = [run EXCEPT ![r] = f]
    BY <1>1, <1>9 DEF Step
  <2>2. rest \in SUBSET Periods /\ rest \subseteq run[r].group
    BY <1>2 DEF BusyRun, Grouped
  <2> HIDE DEF rest
  <2>3. f \in BusyRun /\ f.at = "advance" /\ f.key = run[r].key /\ f.group = run[r].group
        /\ f.lead = run[r].lead /\ f.rest = rest
    BY <1>2, <2>2 DEF BusyRun
  <2> HIDE DEF f
  <2>4. f.key \in BillDays
    BY <2>3 DEF Grouped
  <2>5. RunsTyped' /\ Others(r) /\ run'[r] = f
    BY <2>1, <2>3, <2>4, RunUpdate
  <2>6. Grouped(r)'
    BY <2>2, <2>3, <2>5 DEF Grouped
  <2> QED BY <1>2, <1>3, <1>6, <1>7, <2>3, <2>5, <2>6, TypesNext DEF n
<1> QED BY <1>8, <1>9

(* The steps of a run that leave the invoices and the items alone and the  *)
(* run without a group.                                                    *)
LEMMA EmptySteps ==
  ASSUME TypeOK, NEW r \in Runs,
         \/ Begin(r) \/ Query(r) \/ CreateInvalid(r)
         \/ CreateRefused(r) \/ GroupFails(r) \/ Crash(r)
         \/ EndExpired(r) \/ EndNothing(r) \/ Announce(r)
  PROVE  /\ TypeOK' /\ Others(r) /\ UNCHANGED <<index, invoice, staff>>
         /\ EmptyHanded(r)'
         /\ run'[r].at = "announce" => EndExpired(r)
         /\ ~EndExpired(r) => UNCHANGED contract
         /\ ~Announce(r) => UNCHANGED announced
<1>1. UNCHANGED <<today, lead, index, valid, invoice, staff>> /\ (faults' = faults \/ faults' = faults + 1)
      /\ (~EndExpired(r) => UNCHANGED contract) /\ (~Announce(r) => UNCHANGED announced)
  BY DEF Begin, Query, CreateInvalid, CreateRefused, GroupFails, Crash, EndExpired, EndNothing, Announce
<1>2. InvoicesTyped' /\ faults' \in Nat
  BY <1>1 DEF TypeOK, InvoicesTyped
<1>3. RestTyped'
  <2>1. CASE EndExpired(r)
    <3>1. contract' \in [status : {"active", "ended"}, endDate : EndDates \cup {NoEnd},
                         endedBy : {"nobody", "staff", "run"}]
      BY <2>1 DEF EndExpired, TypeOK
    <3>2. ~Announce(r)
      BY <2>1 DEF EndExpired, Announce
    <3> QED BY <1>1, <1>2, <3>1, <3>2 DEF TypeOK, RestTyped
  <2>2. CASE Announce(r)
    <3>1. announced' \in Nat /\ ~EndExpired(r)
      BY <2>2 DEF Announce, EndExpired, TypeOK
    <3> QED BY <1>1, <1>2, <3>1 DEF TypeOK, RestTyped
  <2>3. CASE ~EndExpired(r) /\ ~Announce(r)
    BY <1>1, <1>2, <2>3, RestUnchanged
  <2> QED BY <2>1, <2>2, <2>3
<1>4. CASE Begin(r) \/ Query(r)
  <2>1. RunsTyped' /\ Others(r) /\ run'[r].at \in {"query", "find", "expire"}
    BY <1>4, QuerySteps
  <2> QED BY <1>1, <1>2, <1>3, <2>1, TypesNext DEF EmptyHanded
<1>5. CASE CreateInvalid(r) \/ CreateRefused(r) \/ GroupFails(r)
  <2>1. run[r].at # "idle"
    BY <1>5 DEF CreateInvalid, CreateRefused, GroupFails
  <2>2. run[r] \in BusyRun
    BY <2>1, RunBusy
  <2>3. PICK group \in SUBSET Periods, todo \in SUBSET Periods : GiveUp(r, group, todo)
    <3>1. Earliest(r) \in SUBSET Periods /\ run[r].todo \ Earliest(r) \in SUBSET Periods
          /\ run[r].group \in SUBSET Periods /\ run[r].todo \in SUBSET Periods
      BY <2>2 DEF BusyRun, Earliest
    <3> QED BY <1>5, <3>1 DEF CreateInvalid, CreateRefused, GroupFails
  <2>4. RunsTyped' /\ Others(r) /\ run'[r].at \in {"query", "find"}
    BY <2>1, <2>3, GiveUpStep
  <2> QED BY <1>1, <1>2, <1>3, <2>4, TypesNext DEF EmptyHanded
<1>6. CASE Crash(r) \/ EndNothing(r) \/ Announce(r)
  <2>1. Step(r, Idle)
    BY <1>6 DEF Crash, EndNothing, Announce
  <2>2. RunsTyped' /\ Others(r) /\ run'[r].at = "idle"
    BY <2>1, IdleStep DEF Idle
  <2> QED BY <1>1, <1>2, <1>3, <2>2, TypesNext DEF EmptyHanded
<1>7. CASE EndExpired(r)
  <2>1. run[r].at # "idle" /\ Goto(r, "announce")
    BY <1>7 DEF EndExpired
  <2>2. RunsTyped' /\ Others(r) /\ run'[r].at = "announce"
    BY <2>1, GotoStep
  <2> QED BY <1>1, <1>2, <1>3, <1>7, <2>2, TypesNext DEF EmptyHanded
<1> QED BY <1>4, <1>5, <1>6, <1>7

-----------------------------------------------------------------------------
(* Staff, the settings and the calendar *)

LEMMA SettingSteps ==
  ASSUME TypeOK,
         \/ \E d \in EndDates \cup {NoEnd} : SetEndDate(d) \/ (d \in EndDates /\ End(d))
         \/ StaffAnnounce \/ StaffCrash \/ NextDay \/ DataChanges \/ \E l \in LeadDays : SetLead(l)
  PROVE  TypeOK' /\ UNCHANGED <<index, invoice, run>>
<1>1. UNCHANGED <<index, invoice, run>>
  BY DEF SetEndDate, End, StaffAnnounce, StaffCrash, NextDay, DataChanges, SetLead
<1>2. RunsTyped' /\ InvoicesTyped'
  BY <1>1 DEF TypeOK, RunsTyped, InvoicesTyped
<1>3. CASE \E d \in EndDates \cup {NoEnd} : SetEndDate(d)
  BY <1>1, <1>2, <1>3, TypesNext DEF SetEndDate, TypeOK, RestTyped
<1>4. CASE \E d \in EndDates : End(d)
  BY <1>1, <1>2, <1>4, TypesNext DEF End, TypeOK, RestTyped
<1>5. CASE StaffAnnounce \/ StaffCrash
  BY <1>1, <1>2, <1>5, TypesNext DEF StaffAnnounce, StaffCrash, TypeOK, RestTyped
<1>6. CASE NextDay
  BY <1>1, <1>2, <1>6, TypesNext, BillingBounds DEF NextDay, TypeOK, RestTyped
<1>7. CASE \E l \in LeadDays : SetLead(l)
  BY <1>1, <1>2, <1>7, TypesNext DEF SetLead, TypeOK, RestTyped
<1>8. CASE DataChanges
  <2>1. valid' \in BOOLEAN
    BY <1>8 DEF DataChanges
  <2>2. UNCHANGED <<today, lead, index, contract, staff, announced, faults>>
    BY <1>8 DEF DataChanges
  <2> QED BY <1>1, <1>2, <2>1, <2>2, TypesNext DEF TypeOK, RestTyped
<1> QED BY <1>3, <1>4, <1>5, <1>6, <1>7, <1>8

LEMMA StaffInvoiceSteps ==
  ASSUME TypeOK, NEW k \in BillDays, VoidInvoice(k) \/ IssueByStaff(k)
  PROVE  /\ TypeOK' /\ UNCHANGED <<index, contract, run, staff, announced>>
         /\ invoice[k].status \in {"draft", "issued"}
         /\ invoice'[k].lines = invoice[k].lines
         /\ invoice'[k].status \in {"issued", "void"}
         /\ \A m \in BillDays \ {k} : invoice'[m] = invoice[m]
<1>1. /\ UNCHANGED <<today, lead, index, valid, contract, run, staff, announced, faults>>
      /\ invoice[k].status \in {"draft", "issued"}
  BY DEF VoidInvoice, IssueByStaff
<1>2. PICK s \in {"issued", "void"} : invoice' = [invoice EXCEPT ![k].status = s]
  BY DEF VoidInvoice, IssueByStaff
<1> DEFINE v == [invoice[k] EXCEPT !.status = s]
<1>3. /\ v \in [status : {"none", "draft", "issued", "void"}, lines : SUBSET Periods]
      /\ v.lines = invoice[k].lines /\ v.status = s
      /\ invoice' = [invoice EXCEPT ![k] = v]
  BY <1>2 DEF TypeOK
<1> HIDE DEF v
<1>4. InvoicesTyped' /\ invoice'[k] = v /\ \A m \in BillDays \ {k} : invoice'[m] = invoice[m]
  BY <1>3, InvoiceUpdate
<1>5. RunsTyped' /\ RestTyped'
  BY <1>1 DEF TypeOK, RunsTyped, RestTyped
<1> QED BY <1>1, <1>3, <1>4, <1>5, TypesNext

-----------------------------------------------------------------------------
(* Every step keeps the types, and the groups of the runs *)

GroupsOK == \A r \in Runs : EmptyHanded(r) \/ Grouped(r)

EmptyStep(r) ==
  \/ Begin(r) \/ Query(r) \/ CreateInvalid(r)
  \/ CreateRefused(r) \/ GroupFails(r) \/ Crash(r)
  \/ EndExpired(r) \/ EndNothing(r) \/ Announce(r)
InvoiceStep(r) == CreateDraft(r) \/ CreateLost(r) \/ Issue(r) \/ IssueVoided(r)
SettingStep ==
  \/ \E d \in EndDates \cup {NoEnd} : SetEndDate(d) \/ (d \in EndDates /\ End(d))
  \/ StaffAnnounce \/ StaffCrash \/ NextDay \/ DataChanges \/ \E l \in LeadDays : SetLead(l)

LEMMA NextSteps ==
  ASSUME Next
  PROVE  \/ \E r \in Runs : EmptyStep(r) \/ Find(r) \/ InvoiceStep(r) \/ Advance(r)
         \/ SettingStep
         \/ \E k \in BillDays : VoidInvoice(k) \/ IssueByStaff(k)
BY DEF Next, RunStep, EmptyStep, InvoiceStep, SettingStep

LEMMA FindKeeps ==
  ASSUME TypeOK, NEW r \in Runs, Find(r)
  PROVE  TypeOK' /\ UNCHANGED <<index, contract, invoice, staff, announced>>
<1>1. UNCHANGED <<today, lead, index, valid, contract, invoice, staff, announced, faults>>
  BY DEF Find
<1>2. RunsTyped'
  BY FindStep
<1>3. RestTyped' /\ InvoicesTyped'
  BY <1>1 DEF TypeOK, RestTyped, InvoicesTyped
<1> QED BY <1>1, <1>2, <1>3, TypesNext

LEMMA InHand ==
  ASSUME GroupsOK, NEW r \in Runs, InvoiceStep(r) \/ Advance(r)
  PROVE  Grouped(r)
BY DEF GroupsOK, EmptyHanded, InvoiceStep, CreateDraft, CreateLost, Issue, IssueVoided,
       Advance

LEMMA OthersGrouped ==
  ASSUME GroupsOK, NEW r \in Runs, Others(r), EmptyHanded(r)' \/ Grouped(r)'
  PROVE  GroupsOK'
<1>1. ASSUME NEW q \in Runs \ {r} PROVE EmptyHanded(q)' \/ Grouped(q)'
  <2>1. run'[q] = run[q] /\ (EmptyHanded(q) \/ Grouped(q))
    BY DEF Others, GroupsOK
  <2> QED BY <2>1 DEF EmptyHanded, Grouped
<1> QED BY <1>1 DEF GroupsOK

LEMMA InitTypes == Init => TypeOK /\ GroupsOK
<1> SUFFICES ASSUME Init PROVE TypeOK /\ GroupsOK
  OBVIOUS
<1>1. 0 \in 0..MaxDay /\ index \in [Items -> 0..(LastIndex + 1)]
  BY BillingBounds, PeriodAssumption DEF Init, FirstIndex
<1>2. \A r \in Runs : run[r].at = "idle"
  BY DEF Init, Idle
<1>3. run \in [Runs -> IdleRun \cup BusyRun]
  BY DEF Init, Idle, IdleRun
<1> QED BY <1>1, <1>2, <1>3 DEF Init, TypeOK, GroupsOK, EmptyHanded

LEMMA TypeStep ==
  ASSUME TypeOK, GroupsOK, [Next]_vars PROVE TypeOK' /\ GroupsOK'
<1>1. ASSUME NEW r \in Runs, EmptyStep(r) PROVE TypeOK' /\ GroupsOK'
  BY <1>1, EmptySteps, OthersGrouped DEF EmptyStep
<1>2. ASSUME NEW r \in Runs, Find(r) PROVE TypeOK' /\ GroupsOK'
  BY <1>2, FindKeeps, FindStep, OthersGrouped
<1>3. ASSUME NEW r \in Runs, InvoiceStep(r) PROVE TypeOK' /\ GroupsOK'
  <2>1. Grouped(r)
    BY <1>3, InHand
  <2>2. TypeOK' /\ Others(r) /\ (Keeps(r) \/ EmptyHanded(r)')
    BY <1>3, <2>1, InvoiceSteps DEF InvoiceStep
  <2>3. EmptyHanded(r)' \/ Grouped(r)'
    BY <2>1, <2>2 DEF Grouped, Keeps
  <2> QED BY <2>2, <2>3, OthersGrouped
<1>4. ASSUME NEW r \in Runs, Advance(r) PROVE TypeOK' /\ GroupsOK'
  BY <1>4, InHand, AdvanceStep, OthersGrouped
<1>5. CASE SettingStep
  <2>1. TypeOK' /\ UNCHANGED run
    BY <1>5, SettingSteps DEF SettingStep
  <2> QED BY <2>1 DEF GroupsOK, EmptyHanded, Grouped
<1>6. ASSUME NEW k \in BillDays, VoidInvoice(k) \/ IssueByStaff(k)
      PROVE  TypeOK' /\ GroupsOK'
  <2>1. TypeOK' /\ UNCHANGED run
    BY <1>6, StaffInvoiceSteps
  <2> QED BY <2>1 DEF GroupsOK, EmptyHanded, Grouped
<1>7. CASE UNCHANGED vars
  BY <1>7 DEF vars, TypeOK, GroupsOK, EmptyHanded, Grouped
<1> QED BY <1>1, <1>2, <1>3, <1>4, <1>5, <1>6, <1>7, NextSteps

(* Rows and runs keep their shape, and an item is never moved past the     *)
(* last period.                                                            *)
THEOREM BillingTypes == Spec => []TypeOK
<1>1. TypeOK /\ GroupsOK /\ [Next]_vars => TypeOK' /\ GroupsOK'
  BY TypeStep
<1> QED BY <1>1, InitTypes, PTL DEF Spec, Safety

-----------------------------------------------------------------------------
(* What becomes of an invoice: it is made once, its lines stay, and it is  *)
(* never again a draft or none.                                            *)

InvoicesGrow ==
  \A k \in BillDays :
    invoice[k].status # "none" =>
      /\ invoice'[k].lines = invoice[k].lines /\ invoice'[k].status # "none"
      /\ invoice[k].status \in {"issued", "void"} => invoice'[k].status \in {"issued", "void"}

(* A new draft takes only periods that are on no invoice.                  *)
DraftsAreNew ==
  \/ \A k \in BillDays : invoice'[k].lines = invoice[k].lines
                         /\ (invoice[k].status = "none" => invoice'[k].status = "none")
  \/ \E r \in Runs :
       /\ Grouped(r) /\ invoice[run[r].key].status = "none" /\ LinesAreNew(run[r].group)
       /\ SetsInvoice(r, [status |-> "draft", lines |-> run[r].group])

LEMMA InvoiceChanges ==
  ASSUME TypeOK, GroupsOK, [Next]_vars
  PROVE  InvoicesGrow /\ DraftsAreNew
<1>1. ASSUME UNCHANGED invoice PROVE InvoicesGrow /\ DraftsAreNew
  BY <1>1 DEF InvoicesGrow, DraftsAreNew
<1>2. ASSUME NEW r \in Runs, InvoiceStep(r) PROVE InvoicesGrow /\ DraftsAreNew
  <2> DEFINE k == run[r].key
  <2>1. Grouped(r) /\ k \in BillDays
    BY <1>2, InHand DEF Grouped
  <2>2. \/ /\ invoice[k].status = "none" /\ LinesAreNew(run[r].group)
           /\ SetsInvoice(r, [status |-> "draft", lines |-> run[r].group])
        \/ /\ invoice[k].status \in {"draft", "issued"}
           /\ SetsInvoice(r, [invoice[k] EXCEPT !.status = "issued"])
        \/ UNCHANGED invoice
    BY <1>2, <2>1, InvoiceSteps DEF InvoiceStep
  <2>3. CASE /\ invoice[k].status = "none" /\ LinesAreNew(run[r].group)
             /\ SetsInvoice(r, [status |-> "draft", lines |-> run[r].group])
    <3>1. \A m \in BillDays \ {k} : invoice'[m] = invoice[m]
      BY <2>3 DEF SetsInvoice
    <3>2. InvoicesGrow
      BY <2>3, <3>1 DEF InvoicesGrow
    <3> QED BY <2>1, <2>3, <3>2 DEF DraftsAreNew
  <2>4. CASE /\ invoice[k].status \in {"draft", "issued"}
             /\ SetsInvoice(r, [invoice[k] EXCEPT !.status = "issued"])
    <3>1. invoice[k] \in [status : {"none", "draft", "issued", "void"},
                          lines : SUBSET Periods]
      BY <2>1 DEF TypeOK
    <3>2. /\ invoice'[k].lines = invoice[k].lines /\ invoice'[k].status = "issued"
          /\ \A m \in BillDays \ {k} : invoice'[m] = invoice[m]
      BY <2>4, <3>1 DEF SetsInvoice
    <3> QED BY <2>4, <3>2 DEF InvoicesGrow, DraftsAreNew
  <2> QED BY <1>1, <2>2, <2>3, <2>4
<1>3. ASSUME NEW r \in Runs, EmptyStep(r) \/ Find(r) \/ Advance(r)
      PROVE  InvoicesGrow /\ DraftsAreNew
  <2>1. UNCHANGED invoice
    BY <1>3, EmptySteps, FindKeeps, AdvanceStep, InHand DEF EmptyStep
  <2> QED BY <1>1, <2>1
<1>4. CASE SettingStep
  BY <1>1, <1>4, SettingSteps DEF SettingStep
<1>5. ASSUME NEW k \in BillDays, VoidInvoice(k) \/ IssueByStaff(k)
      PROVE  InvoicesGrow /\ DraftsAreNew
  <2>1. /\ invoice[k].status \in {"draft", "issued"}
        /\ invoice'[k].lines = invoice[k].lines /\ invoice'[k].status \in {"issued", "void"}
        /\ \A m \in BillDays \ {k} : invoice'[m] = invoice[m]
    BY <1>5, StaffInvoiceSteps
  <2> QED BY <2>1 DEF InvoicesGrow, DraftsAreNew
<1>6. CASE UNCHANGED vars
  BY <1>1, <1>6 DEF vars
<1> QED BY <1>1, <1>2, <1>3, <1>4, <1>5, <1>6, NextSteps

LEMMA BilledOnceStep ==
  ASSUME TypeOK, GroupsOK, PeriodBilledOnce, [Next]_vars
  PROVE  PeriodBilledOnce'
<1>1. DraftsAreNew
  BY InvoiceChanges
<1>2. CASE \A k \in BillDays : invoice'[k].lines = invoice[k].lines
  BY <1>2 DEF PeriodBilledOnce
<1>3. ASSUME NEW r \in Runs, Grouped(r), LinesAreNew(run[r].group),
             SetsInvoice(r, [status |-> "draft", lines |-> run[r].group])
      PROVE  PeriodBilledOnce'
  <2> DEFINE k == run[r].key
  <2>1. /\ k \in BillDays /\ invoice'[k].lines = run[r].group
        /\ \A m \in BillDays \ {k} : invoice'[m].lines = invoice[m].lines
    BY <1>3 DEF Grouped, SetsInvoice
  <2>2. \A m \in BillDays : run[r].group \cap invoice[m].lines = {}
    BY <1>3 DEF LinesAreNew, Billed
  <2> HIDE DEF k
  <2> QED BY <2>1, <2>2 DEF PeriodBilledOnce
<1> QED BY <1>1, <1>2, <1>3 DEF DraftsAreNew

(* The unique index on the lines: no period of an item is on two invoices, *)
(* whatever the settings, the end dates and the runs in parallel.          *)
THEOREM PeriodsAreBilledOnce == Spec => []PeriodBilledOnce
<1>1. TypeOK /\ GroupsOK /\ PeriodBilledOnce /\ [Next]_vars =>
        TypeOK' /\ GroupsOK' /\ PeriodBilledOnce'
  BY TypeStep, BilledOnceStep
<1>2. Init => TypeOK /\ GroupsOK /\ PeriodBilledOnce
  BY InitTypes DEF Init, PeriodBilledOnce
<1> QED BY <1>1, <1>2, PTL DEF Spec, Safety

-----------------------------------------------------------------------------
(* The end of the contract *)

(* At most one process has still to tell the listeners, and none has when  *)
(* they were told; and only of a contract that ended.                      *)
AnnounceInv ==
  /\ announced \in {0, 1}
  /\ \A r \in Runs :
       run[r].at = "announce" =>
         /\ announced = 0 /\ staff = "idle" /\ contract.status = "ended"
         /\ \A q \in Runs : run[q].at = "announce" => q = r
  /\ staff = "announce" => announced = 0 /\ contract.status = "ended"
  /\ announced = 1 => contract.status = "ended"

LEMMA OtherAnnouncers ==
  ASSUME AnnounceInv, NEW r \in Runs, Others(r), run'[r].at # "announce",
         UNCHANGED <<staff, announced>>, contract.status = "ended" => contract'.status = "ended"
  PROVE  AnnounceInv'
BY DEF AnnounceInv, Others

LEMMA AnnounceStep ==
  ASSUME TypeOK, GroupsOK, AnnounceInv, [Next]_vars
  PROVE  AnnounceInv'
<1>1. ASSUME NEW r \in Runs, EmptyStep(r) PROVE AnnounceInv'
  <2>1. /\ Others(r) /\ UNCHANGED staff /\ (run'[r].at = "announce" => EndExpired(r))
        /\ (~EndExpired(r) => UNCHANGED contract) /\ (~Announce(r) => UNCHANGED announced)
    BY <1>1, EmptySteps DEF EmptyStep
  <2>2. CASE EndExpired(r)
    <3>1. contract.status = "active" /\ contract'.status = "ended" /\ ~Announce(r)
      BY <2>2 DEF EndExpired, Expired, Announce, TypeOK
    <3>2. announced' = 0 /\ staff' = "idle" /\ \A q \in Runs : run[q].at # "announce"
      BY <2>1, <3>1 DEF AnnounceInv, TypeOK
    <3> QED BY <2>1, <3>1, <3>2 DEF AnnounceInv, Others
  <2>3. CASE Announce(r)
    <3>1. run[r].at = "announce" /\ announced' = announced + 1 /\ ~EndExpired(r)
      BY <2>3 DEF Announce, EndExpired
    <3>2. announced' = 1 /\ staff' = "idle" /\ contract'.status = "ended"
          /\ \A q \in Runs \ {r} : run[q].at # "announce"
      BY <2>1, <3>1 DEF AnnounceInv
    <3> QED BY <2>1, <3>1, <3>2 DEF AnnounceInv, Others
  <2>4. CASE ~EndExpired(r) /\ ~Announce(r)
    BY <2>1, <2>4, OtherAnnouncers
  <2> QED BY <2>2, <2>3, <2>4
<1>2. ASSUME NEW r \in Runs, Find(r) PROVE AnnounceInv'
  BY <1>2, FindKeeps, FindStep, OtherAnnouncers
<1>3. ASSUME NEW r \in Runs, InvoiceStep(r) PROVE AnnounceInv'
  <2>1. Grouped(r)
    BY <1>3, InHand
  <2>2. Others(r) /\ run'[r].at # "announce" /\ UNCHANGED <<contract, staff, announced>>
    BY <1>3, <2>1, InvoiceSteps DEF InvoiceStep, AfterFind
  <2> QED BY <2>2, OtherAnnouncers
<1>4. ASSUME NEW r \in Runs, Advance(r) PROVE AnnounceInv'
  <2>1. Grouped(r)
    BY <1>4, InHand
  <2>2. Others(r) /\ run'[r].at # "announce" /\ UNCHANGED <<contract, staff, announced>>
    BY <1>4, <2>1, AdvanceStep
  <2> QED BY <2>2, OtherAnnouncers
<1>5. CASE SettingStep
  <2>1. UNCHANGED run
    BY <1>5, SettingSteps DEF SettingStep
  <2>2. CASE \E d \in EndDates \cup {NoEnd} : SetEndDate(d)
    <3>1. contract'.status = contract.status /\ UNCHANGED <<staff, announced>>
      BY <2>2 DEF SetEndDate, TypeOK
    <3> QED BY <2>1, <3>1 DEF AnnounceInv
  <2>3. CASE \E d \in EndDates : End(d)
    <3>1. /\ contract.status = "active" /\ contract'.status = "ended"
          /\ staff' = "announce" /\ UNCHANGED announced
      BY <2>3 DEF End
    <3>2. announced = 0 /\ \A q \in Runs : run[q].at # "announce"
      BY <3>1 DEF AnnounceInv
    <3> QED BY <2>1, <3>1, <3>2 DEF AnnounceInv
  <2>4. CASE StaffAnnounce
    <3>1. /\ staff = "announce" /\ staff' = "idle" /\ announced' = announced + 1
          /\ UNCHANGED contract
      BY <2>4 DEF StaffAnnounce
    <3>2. announced' = 1 /\ contract'.status = "ended" /\ \A q \in Runs : run[q].at # "announce"
      BY <3>1 DEF AnnounceInv
    <3> QED BY <2>1, <3>1, <3>2 DEF AnnounceInv
  <2>5. CASE StaffCrash
    <3>1. staff' = "idle" /\ UNCHANGED <<contract, announced>>
      BY <2>5 DEF StaffCrash
    <3> QED BY <2>1, <3>1 DEF AnnounceInv
  <2>6. CASE NextDay \/ DataChanges \/ \E l \in LeadDays : SetLead(l)
    <3>1. UNCHANGED <<staff, contract, announced>>
      BY <2>6 DEF NextDay, DataChanges, SetLead
    <3> QED BY <2>1, <3>1 DEF AnnounceInv
  <2> QED BY <1>5, <2>2, <2>3, <2>4, <2>5, <2>6 DEF SettingStep
<1>6. ASSUME NEW k \in BillDays, VoidInvoice(k) \/ IssueByStaff(k) PROVE AnnounceInv'
  <2>1. UNCHANGED <<run, contract, staff, announced>>
    BY <1>6, StaffInvoiceSteps
  <2> QED BY <2>1 DEF AnnounceInv
<1>7. CASE UNCHANGED vars
  BY <1>7 DEF vars, AnnounceInv
<1> QED BY <1>1, <1>2, <1>3, <1>4, <1>5, <1>6, <1>7, NextSteps

(* The status in the statement that ends a contract: however many runs and *)
(* staff, the listeners hear of the end at most once, and only of an end.  *)
THEOREM EndIsAnnouncedOnce == Spec => []AnnouncedAtMostOnce
<1>1. TypeOK /\ GroupsOK /\ AnnounceInv /\ [Next]_vars =>
        TypeOK' /\ GroupsOK' /\ AnnounceInv'
  BY TypeStep, AnnounceStep
<1>2. Init => TypeOK /\ GroupsOK /\ AnnounceInv
  BY InitTypes DEF Init, AnnounceInv, Idle
<1>3. AnnounceInv => AnnouncedAtMostOnce
  BY DEF AnnounceInv, AnnouncedAtMostOnce
<1> QED BY <1>1, <1>2, <1>3, PTL DEF Spec, Safety

(* When the run has ended a contract, no item has a period left that       *)
(* starts by its end date.                                                 *)
EndInv ==
  contract.endedBy = "run" =>
    /\ contract.status = "ended" /\ contract.endDate \in Int
    /\ \A i \in Items : PeriodStart[i][index[i]] > contract.endDate

LEMMA EndKept ==
  ASSUME TypeOK, TypeOK', EndInv, UNCHANGED contract,
         \A i \in Items : index'[i] = index[i] \/ index'[i] = index[i] + 1
  PROVE  EndInv'
<1>1. ASSUME contract.endedBy = "run", NEW i \in Items
      PROVE  PeriodStart[i][index'[i]] > contract.endDate
  <2>1. contract.endDate \in Int /\ PeriodStart[i][index[i]] > contract.endDate
        /\ (index'[i] = index[i] \/ index'[i] = index[i] + 1)
    BY <1>1 DEF EndInv
  <2>2. index[i] \in 0..(LastIndex + 1) /\ index'[i] \in 0..(LastIndex + 1)
    BY DEF TypeOK
  <2>3. PeriodStart[i][index[i]] \in Int /\ PeriodStart[i][index'[i]] \in Int
        /\ PeriodStart[i][index[i]] <= PeriodStart[i][index'[i]]
    <3>1. index[i] = index'[i] \/ index[i] < index'[i]
      BY <2>1, <2>2
    <3> QED BY <2>2, <3>1, PeriodAssumption
  <2> QED BY <2>1, <2>3
<1> QED BY <1>1 DEF EndInv

LEMMA EndStep ==
  ASSUME TypeOK, TypeOK', GroupsOK, EndInv, [Next]_vars
  PROVE  EndInv'
<1>1. ASSUME UNCHANGED <<contract, index>> PROVE EndInv'
  BY <1>1, EndKept
<1>2. ASSUME NEW r \in Runs, EmptyStep(r) PROVE EndInv'
  <2>1. UNCHANGED index /\ (~EndExpired(r) => UNCHANGED contract)
    BY <1>2, EmptySteps DEF EmptyStep
  <2>2. CASE EndExpired(r)
    <3>1. /\ contract' = [contract EXCEPT !.status = "ended", !.endedBy = "run"]
          /\ contract.endDate # NoEnd
          /\ \A i \in Items : PeriodStart[i][index[i]] > contract.endDate
      BY <2>2 DEF EndExpired, Expired
    <3>2. contract'.status = "ended" /\ contract'.endDate = contract.endDate
          /\ contract.endDate \in Int
      BY <3>1, DayAssumption DEF TypeOK
    <3> QED BY <2>1, <3>1, <3>2 DEF EndInv
  <2> QED BY <1>1, <2>1, <2>2
<1>3. ASSUME NEW r \in Runs, Find(r) \/ InvoiceStep(r) PROVE EndInv'
  <2>1. UNCHANGED <<contract, index>>
    BY <1>3, FindKeeps, InvoiceSteps, InHand DEF InvoiceStep
  <2> QED BY <1>1, <2>1
<1>4. ASSUME NEW r \in Runs, Advance(r) PROVE EndInv'
  <2>1. UNCHANGED contract
        /\ \A i \in Items : index'[i] = index[i] \/ index'[i] = index[i] + 1
    BY <1>4, InHand, AdvanceStep
  <2> QED BY <2>1, EndKept
<1>5. CASE SettingStep
  <2>1. UNCHANGED index
    BY <1>5, SettingSteps DEF SettingStep
  <2>2. CASE \E d \in EndDates \cup {NoEnd} : SetEndDate(d)
    <3>1. contract.status = "active" /\ contract'.endedBy = contract.endedBy
      BY <2>2 DEF SetEndDate, TypeOK
    <3> QED BY <3>1 DEF EndInv
  <2>3. CASE \E d \in EndDates : End(d)
    <3>1. contract'.endedBy = "staff"
      BY <2>3 DEF End
    <3> QED BY <3>1 DEF EndInv
  <2>4. CASE StaffAnnounce \/ StaffCrash \/ NextDay \/ DataChanges \/ \E l \in LeadDays : SetLead(l)
    <3>1. UNCHANGED contract
      BY <2>4 DEF StaffAnnounce, StaffCrash, NextDay, DataChanges, SetLead
    <3> QED BY <1>1, <2>1, <3>1
  <2> QED BY <1>5, <2>2, <2>3, <2>4 DEF SettingStep
<1>6. ASSUME NEW k \in BillDays, VoidInvoice(k) \/ IssueByStaff(k) PROVE EndInv'
  BY <1>1, <1>6, StaffInvoiceSteps
<1>7. CASE UNCHANGED vars
  BY <1>1, <1>7 DEF vars
<1> QED BY <1>2, <1>3, <1>4, <1>5, <1>6, <1>7, NextSteps

LEMMA EndedWasPassed ==
  ASSUME TypeOK, EndInv, AdvancedIsBilled PROVE EndedIsBilled
<1> SUFFICES ASSUME contract.endedBy = "run", NEW i \in Items,
                    NEW n \in FirstIndex(i)..LastIndex,
                    Start(<<i, n>>) <= contract.endDate
             PROVE  OnIssuedInvoice(<<i, n>>)
  BY DEF EndedIsBilled
<1>1. /\ index[i] \in 0..(LastIndex + 1) /\ n \in 0..(LastIndex + 1)
      /\ contract.endDate \in Int /\ PeriodStart[i][index[i]] > contract.endDate
      /\ PeriodStart[i][n] <= contract.endDate
  BY PeriodAssumption DEF TypeOK, EndInv, Start, FirstIndex
<1>2. PeriodStart[i][index[i]] \in Int /\ PeriodStart[i][n] \in Int
      /\ (index[i] < n => PeriodStart[i][index[i]] < PeriodStart[i][n])
  BY <1>1, PeriodAssumption
<1>3. n < index[i]
  BY <1>1, <1>2
<1>4. n \in FirstIndex(i)..(index[i] - 1)
  BY <1>1, <1>3 DEF FirstIndex
<1> QED BY <1>4 DEF AdvancedIsBilled

(* EndExpired waits for the items: a contract that the run has ended lacks *)
(* an invoice for no period but one that an item was moved past unbilled.  *)
THEOREM EndedIsBilledIfAdvancedIs == Spec => [](AdvancedIsBilled => EndedIsBilled)
<1>1. TypeOK /\ GroupsOK /\ EndInv /\ [Next]_vars => TypeOK' /\ GroupsOK' /\ EndInv'
  BY TypeStep, EndStep
<1>2. Init => TypeOK /\ GroupsOK /\ EndInv
  BY InitTypes DEF Init, EndInv
<1>3. TypeOK /\ EndInv => (AdvancedIsBilled => EndedIsBilled)
  BY EndedWasPassed
<1> QED BY <1>1, <1>2, <1>3, PTL DEF Spec, Safety

-----------------------------------------------------------------------------
(* No period is passed unbilled, if no two periods meet on a billing day *)

(* The lead days keep apart what the key period:<day> cannot tell apart.   *)
DistinctDays ==
  \A p, q \in Periods, l, m \in LeadDays : BillOn(p, l) = BillOn(q, m) => p = q

(* An invoice of a period's day has a line for it; a run that advances has *)
(* found or issued such an invoice.                                        *)
LinesOK ==
  \A p \in Periods, l \in LeadDays :
    invoice[BillOn(p, l)].status # "none" => p \in invoice[BillOn(p, l)].lines

StageOK(r) ==
  /\ run[r].at = "issue" => invoice[run[r].key].status # "none"
  /\ run[r].at = "advance" => invoice[run[r].key].status \in {"issued", "void"}

BilledInv == LinesOK /\ (\A r \in Runs : StageOK(r)) /\ AdvancedIsBilled

LEMMA LinesStep ==
  ASSUME DistinctDays, TypeOK, GroupsOK, LinesOK, [Next]_vars
  PROVE  LinesOK'
<1>1. InvoicesGrow /\ DraftsAreNew
  BY InvoiceChanges
<1>2. ASSUME NEW p \in Periods, NEW l \in LeadDays,
             invoice'[BillOn(p, l)].status # "none"
      PROVE  p \in invoice'[BillOn(p, l)].lines
  <2> DEFINE k == BillOn(p, l)
  <2>1. k \in BillDays
    BY Days
  <2>2. CASE invoice[k].status # "none"
    BY <1>1, <2>1, <2>2 DEF LinesOK, InvoicesGrow
  <2>3. CASE invoice[k].status = "none"
    <3>1. PICK r \in Runs :
            /\ Grouped(r)
            /\ SetsInvoice(r, [status |-> "draft", lines |-> run[r].group])
      BY <1>1, <1>2, <2>1, <2>3 DEF DraftsAreNew
    <3>2. k = run[r].key
      BY <1>2, <2>1, <2>3, <3>1 DEF SetsInvoice
    <3>3. PICK q \in run[r].group : q \in Periods /\ BillOn(q, run[r].lead) = k
      BY <3>1, <3>2 DEF Grouped
    <3>4. q = p
      <4>1. run[r].lead \in LeadDays
        BY <3>1 DEF Grouped
      <4> QED BY <3>3, <4>1 DEF DistinctDays
    <3>5. invoice'[k].lines = run[r].group
      BY <3>1, <3>2 DEF SetsInvoice
    <3> QED BY <3>3, <3>4, <3>5
  <2> QED BY <2>2, <2>3
<1> QED BY <1>2 DEF LinesOK

LEMMA StageStep ==
  ASSUME TypeOK, GroupsOK, \A r \in Runs : StageOK(r), [Next]_vars
  PROVE  \A r \in Runs : StageOK(r)'
<1>1. InvoicesGrow
  BY InvoiceChanges
<1>2. ASSUME NEW q \in Runs, run'[q] = run[q] PROVE StageOK(q)'
  <2>1. StageOK(q) /\ (run[q].at \in {"issue", "advance"} => run[q].key \in BillDays)
    BY DEF TypeOK
  <2> QED BY <1>1, <1>2, <2>1 DEF StageOK, InvoicesGrow
<1>3. ASSUME NEW r \in Runs, Others(r), StageOK(r)' PROVE \A q \in Runs : StageOK(q)'
  BY <1>2, <1>3 DEF Others
<1>4. ASSUME NEW r \in Runs, EmptyStep(r) PROVE \A q \in Runs : StageOK(q)'
  <2>1. Others(r) /\ EmptyHanded(r)'
    BY <1>4, EmptySteps DEF EmptyStep
  <2> QED BY <1>3, <2>1 DEF StageOK, EmptyHanded
<1>5. ASSUME NEW r \in Runs, Find(r) PROVE \A q \in Runs : StageOK(q)'
  <2>1. /\ Others(r) /\ UNCHANGED invoice /\ run'[r].at = AfterFind(run'[r].key)
        /\ run'[r].key \in BillDays
    BY <1>5, FindStep, FindKeeps DEF Grouped
  <2>2. invoice[run'[r].key].status \in {"none", "draft", "issued", "void"}
    BY <2>1 DEF TypeOK
  <2>3. StageOK(r)'
    BY <2>1, <2>2 DEF StageOK, AfterFind
  <2> QED BY <1>3, <2>1, <2>3
<1>6. ASSUME NEW r \in Runs, InvoiceStep(r) PROVE \A q \in Runs : StageOK(q)'
  <2> DEFINE k == run[r].key
  <2>1. Grouped(r) /\ k \in BillDays
    BY <1>6, InHand DEF Grouped
  <2>2. invoice[k] \in [status : {"none", "draft", "issued", "void"}, lines : SUBSET Periods]
    BY <2>1 DEF TypeOK
  <2>3. CreateDraft(r) \/ CreateLost(r) \/ Issue(r) \/ IssueVoided(r)
    BY <1>6 DEF InvoiceStep
  <2>4. Others(r)
    BY <2>1, <2>3, InvoiceSteps
  <2>5. \/ /\ run'[r].at = "issue" /\ Keeps(r)
           /\ SetsInvoice(r, [status |-> "draft", lines |-> run[r].group])
        \/ /\ run'[r].at = AfterFind(k) /\ Keeps(r)
           /\ UNCHANGED invoice
        \/ /\ run'[r].at = "advance" /\ Keeps(r)
           /\ SetsInvoice(r, [invoice[k] EXCEPT !.status = "issued"])
        \/ /\ run'[r].at = "advance" /\ Keeps(r)
           /\ invoice[k].status = "void" /\ UNCHANGED invoice
        \/ EmptyHanded(r)'
    BY <2>1, <2>3, InvoiceSteps
  <2>6. CASE /\ run'[r].at = "issue" /\ Keeps(r)
             /\ SetsInvoice(r, [status |-> "draft", lines |-> run[r].group])
    <3>1. run'[r].at = "issue" /\ run'[r].key = k /\ invoice'[k].status = "draft"
      BY <2>6 DEF Keeps, SetsInvoice
    <3>2. StageOK(r)'
      BY <3>1 DEF StageOK
    <3> QED BY <1>3, <2>4, <3>2
  <2>7. CASE run'[r].at = AfterFind(k) /\ Keeps(r) /\ UNCHANGED invoice
    <3>1. run'[r].key = k /\ invoice'[k] = invoice[k]
      BY <2>7 DEF Keeps
    <3>2. StageOK(r)'
      BY <2>2, <2>7, <3>1 DEF StageOK, AfterFind
    <3> QED BY <1>3, <2>4, <3>2
  <2>8. CASE /\ run'[r].at = "advance" /\ Keeps(r)
             /\ SetsInvoice(r, [invoice[k] EXCEPT !.status = "issued"])
    <3>1. run'[r].at = "advance" /\ run'[r].key = k /\ invoice'[k].status = "issued"
      BY <2>2, <2>8 DEF Keeps, SetsInvoice
    <3>2. StageOK(r)'
      BY <3>1 DEF StageOK
    <3> QED BY <1>3, <2>4, <3>2
  <2>9. CASE /\ run'[r].at = "advance" /\ Keeps(r)
             /\ invoice[k].status = "void" /\ UNCHANGED invoice
    <3>1. StageOK(r)'
      BY <2>9 DEF StageOK, Keeps
    <3> QED BY <1>3, <2>4, <3>1
  <2>10. CASE EmptyHanded(r)'
    <3>1. StageOK(r)'
      BY <2>10 DEF StageOK, EmptyHanded
    <3> QED BY <1>3, <2>4, <3>1
  <2> QED BY <2>5, <2>6, <2>7, <2>8, <2>9, <2>10
<1>7. ASSUME NEW r \in Runs, Advance(r) PROVE \A q \in Runs : StageOK(q)'
  <2>1. /\ Others(r) /\ UNCHANGED invoice /\ run[r].at = "advance"
        /\ EmptyHanded(r)' \/ (run'[r].at = "advance" /\ run'[r].key = run[r].key)
    BY <1>7, InHand, AdvanceStep
  <2>2. StageOK(r)'
    BY <2>1 DEF StageOK, EmptyHanded
  <2> QED BY <1>3, <2>1, <2>2
<1>8. CASE SettingStep
  BY <1>2, <1>8, SettingSteps DEF SettingStep
<1>9. ASSUME NEW k \in BillDays, VoidInvoice(k) \/ IssueByStaff(k)
      PROVE  \A q \in Runs : StageOK(q)'
  BY <1>2, <1>9, StaffInvoiceSteps
<1>10. CASE UNCHANGED vars
  BY <1>2, <1>10 DEF vars
<1> QED BY <1>4, <1>5, <1>6, <1>7, <1>8, <1>9, <1>10, NextSteps

LEMMA OnIssuedStays ==
  ASSUME InvoicesGrow, NEW p, OnIssuedInvoice(p) PROVE OnIssuedInvoice(p)'
BY DEF InvoicesGrow, OnIssuedInvoice

LEMMA AdvancedStep ==
  ASSUME TypeOK, TypeOK', GroupsOK, BilledInv, [Next]_vars
  PROVE  AdvancedIsBilled'
<1>1. InvoicesGrow
  BY InvoiceChanges
<1>2. ASSUME NEW i \in Items, NEW n \in FirstIndex(i)..(index[i] - 1)
      PROVE  OnIssuedInvoice(<<i, n>>)'
  BY <1>1, <1>2, OnIssuedStays DEF BilledInv, AdvancedIsBilled
<1>3. ASSUME UNCHANGED index PROVE AdvancedIsBilled'
  BY <1>2, <1>3 DEF AdvancedIsBilled, OnIssuedInvoice
<1>4. ASSUME NEW r \in Runs, Advance(r) PROVE AdvancedIsBilled'
  <2>1. /\ Grouped(r) /\ run[r].at = "advance"
        /\ invoice[run[r].key].status \in {"issued", "void"}
    <3>1. Grouped(r) /\ run[r].at = "advance"
      BY <1>4, InHand DEF Advance
    <3>2. StageOK(r)
      BY DEF BilledInv
    <3> QED BY <3>1, <3>2 DEF StageOK
  <2>2. PICK p \in run[r].rest :
          /\ p \in Periods
          /\ index'[p[1]] = IF index[p[1]] = p[2] THEN index[p[1]] + 1 ELSE index[p[1]]
          /\ \A i \in Items \ {p[1]} : index'[i] = index[i]
    BY <1>4, <2>1, AdvanceStep
  <2>3. OnIssuedInvoice(p)
    <3>1. p \in run[r].group /\ BillOn(p, run[r].lead) = run[r].key
          /\ run[r].lead \in LeadDays /\ run[r].key \in BillDays
      BY <2>1, <2>2 DEF Grouped
    <3>2. p \in invoice[run[r].key].lines
      BY <2>1, <2>2, <3>1 DEF BilledInv, LinesOK
    <3> QED BY <2>1, <3>1, <3>2 DEF OnIssuedInvoice
  <2>4. OnIssuedInvoice(p)'
    BY <1>1, <2>3, OnIssuedStays
  <2>5. p = <<p[1], p[2]>> /\ p[1] \in Items /\ p[2] \in Nat
    BY <2>2 DEF Periods, Indexes
  <2>6. ASSUME NEW i \in Items, NEW n \in FirstIndex(i)..(index'[i] - 1)
        PROVE  OnIssuedInvoice(<<i, n>>)'
    <3>1. index[i] \in Int /\ index'[i] \in Int /\ FirstIndex(i) \in Int
      BY DEF TypeOK, FirstIndex
    <3>2. CASE n \in FirstIndex(i)..(index[i] - 1)
      BY <1>2, <3>2
    <3>3. CASE n \notin FirstIndex(i)..(index[i] - 1)
      <4>1. i = p[1] /\ n = p[2]
        BY <2>2, <2>5, <3>1, <3>3
      <4>2. <<i, n>> = p
        BY <2>5, <4>1
      <4> QED BY <2>4, <4>2
    <3> QED BY <3>2, <3>3
  <2> QED BY <2>6 DEF AdvancedIsBilled, OnIssuedInvoice
<1>5. ASSUME NEW r \in Runs, EmptyStep(r) \/ Find(r) \/ InvoiceStep(r)
      PROVE  AdvancedIsBilled'
  <2>1. UNCHANGED index
    BY <1>5, EmptySteps, FindKeeps, InvoiceSteps, InHand DEF EmptyStep, InvoiceStep
  <2> QED BY <1>3, <2>1
<1>6. CASE SettingStep
  BY <1>3, <1>6, SettingSteps DEF SettingStep
<1>7. ASSUME NEW k \in BillDays, VoidInvoice(k) \/ IssueByStaff(k) PROVE AdvancedIsBilled'
  BY <1>3, <1>7, StaffInvoiceSteps
<1>8. CASE UNCHANGED vars
  BY <1>3, <1>8 DEF vars
<1> QED BY <1>4, <1>5, <1>6, <1>7, <1>8, NextSteps

LEMMA InitBilled == DistinctDays /\ Init => BilledInv
<1> SUFFICES ASSUME Init PROVE BilledInv
  OBVIOUS
<1>1. \A k \in BillDays : invoice[k].status = "none"
  BY DEF Init
<1>2. LinesOK
  BY <1>1, Days DEF LinesOK
<1>3. \A r \in Runs : StageOK(r)
  BY DEF Init, StageOK, Idle
<1>4. AdvancedIsBilled
  BY DEF Init, AdvancedIsBilled, FirstIndex
<1> QED BY <1>2, <1>3, <1>4 DEF BilledInv

(* billing_run.go:54-56, where it holds: while no two periods of the       *)
(* contract can meet on a billing day, no item is moved past a period that *)
(* no invoice was issued for, however many runs, crashes, voided drafts    *)
(* and changes of the end date.                                            *)
THEOREM AdvancedIsBilledOnDistinctDays == DistinctDays /\ Spec => []AdvancedIsBilled
<1>1. DistinctDays /\ TypeOK /\ GroupsOK /\ BilledInv /\ [Next]_vars =>
        TypeOK' /\ GroupsOK' /\ BilledInv'
  BY TypeStep, LinesStep, StageStep, AdvancedStep DEF BilledInv
<1>2. DistinctDays /\ Init => TypeOK /\ GroupsOK /\ BilledInv
  BY InitTypes, InitBilled
<1>3. BilledInv => AdvancedIsBilled
  BY DEF BilledInv
<1> SUFFICES ASSUME DistinctDays PROVE Spec => []AdvancedIsBilled
  OBVIOUS
<1>4. DistinctDays
  OBVIOUS
<1> QED BY <1>1, <1>2, <1>3, <1>4, PTL DEF Spec, Safety

(* A contract with one item, while the lead days stay as they are.         *)
OneItemOneLead ==
  (\A i, j \in Items : i = j) /\ (\A l, m \in LeadDays : l = m)

LEMMA OneItemDistinctDays == OneItemOneLead => DistinctDays
<1> SUFFICES ASSUME OneItemOneLead, NEW p \in Periods, NEW q \in Periods,
                    NEW l \in LeadDays, NEW m \in LeadDays, BillOn(p, l) = BillOn(q, m)
             PROVE  p = q
  BY DEF DistinctDays
<1>1. /\ p = <<p[1], p[2]>> /\ q = <<q[1], q[2]>>
      /\ p[1] \in Items /\ q[1] \in Items /\ p[2] \in 0..LastIndex /\ q[2] \in 0..LastIndex
  BY DEF Periods, Indexes
<1>2. q[1] = p[1] /\ l = m /\ l \in Int
  BY <1>1, DayAssumption DEF OneItemOneLead
<1> DEFINE i == p[1]
           days(n) == PeriodStart[i][n]
<1>3. \A n, k \in 0..(LastIndex + 1) :
        days(n) \in Int /\ (n < k => days(n) < days(k))
  BY <1>1, PeriodAssumption
<1>4. LastIndex \in Nat
  BY PeriodAssumption
<1>5. \/ BillOn(p, l) = days(p[2]) - l /\ BillOn(q, m) = days(q[2]) - l
      \/ BillOn(p, l) = days(p[2] + 1) /\ BillOn(q, m) = days(q[2] + 1)
  BY <1>2 DEF BillOn, Start
<1> HIDE DEF days
<1>6. \A n, k \in 0..(LastIndex + 1) : days(n) = days(k) => n = k
  BY <1>3, <1>4
<1>7. p[2] = q[2]
  <2>1. CASE days(p[2]) - l = days(q[2]) - l
    <3>1. days(p[2]) = days(q[2])
      BY <1>1, <1>2, <1>3, <1>4, <2>1
    <3> QED BY <1>1, <1>4, <1>6, <3>1
  <2>2. CASE days(p[2] + 1) = days(q[2] + 1)
    <3>1. p[2] + 1 = q[2] + 1
      BY <1>1, <1>4, <1>6, <2>2
    <3> QED BY <1>1, <3>1
  <2> QED BY <1>5, <2>1, <2>2
<1> QED BY <1>1, <1>2, <1>7

(* Such a contract is never ended by the run before it was billed for all  *)
(* the periods that started by its end date.                               *)
THEOREM OneItemIsBilledToTheEnd ==
  OneItemOneLead /\ Spec => [](AdvancedIsBilled /\ EndedIsBilled)
<1> SUFFICES ASSUME OneItemOneLead
             PROVE  Spec => [](AdvancedIsBilled /\ EndedIsBilled)
  OBVIOUS
<1>1. DistinctDays
  BY OneItemDistinctDays
<1>2. Spec => []AdvancedIsBilled
  BY <1>1, AdvancedIsBilledOnDistinctDays
<1>3. Spec => [](AdvancedIsBilled => EndedIsBilled)
  BY EndedIsBilledIfAdvancedIs
<1> QED BY <1>2, <1>3, PTL

=============================================================================
