---------------------------- MODULE TenantAccess ----------------------------
(* What a customer's workspace may use: its features, which follow the     *)
(* contracts of the company it is linked to, and its status, which the     *)
(* hourly run takes away when an invoice stays overdue past the grace and  *)
(* a payment gives back.                                                   *)
(*                                                                         *)
(* Nothing here is one transaction: an event is committed by the module    *)
(* that owns it, and the process goes on with a list of tasks, its agenda, *)
(* which is lost when it dies.  A step is a task: a statement, or a        *)
(* transaction, with the reads before it.                                  *)
EXTENDS Integers, Sequences, FiniteSets, SequencesExt

CONSTANTS
  Runners,      \* hourly runs, one per worker process
  Requests,     \* requests and webhooks handled at the same time
  Workspaces,
  Companies,    \* of the platform's CRM
  Contracts,
  CompanyOf,    \* CompanyOf[c]: the company of the contract's sales order
  Invoices,
  ContractOf,   \* ContractOf[i]: the contract of the sales order billed
  Deliveries,   \* the invoices of the order that do not name the contract
  Postpaid,     \* Postpaid[c]: features of the postpaid items of c
  Prepaid,      \* Prepaid[c]: features of its prepaid items
  Free,         \* features of the free product
  FirstLink,    \* FirstLink[k]: the workspace linked to k at first
  Begun,        \* the contracts that exist at first
  Plans,        \* bound: what may happen in one behaviour
  Nobody        \* no workspace; the source of the free plan

Processes == Runners \cup Requests
Features == Free \cup UNION {Postpaid[c] \cup Prepaid[c] : c \in Contracts}
Keys == (Contracts \cup {Nobody}) \X Features
Statuses == {"active", "suspended", "disabled", "archived"}

ASSUME AccessAssumption ==
  /\ Runners \cap Requests = {}
  /\ IsFiniteSet(Workspaces) /\ IsFiniteSet(Contracts)
  /\ CompanyOf \in [Contracts -> Companies]
  /\ ContractOf \in [Invoices -> Contracts]
  /\ Deliveries \subseteq Invoices
  /\ Free # {}
  /\ Workspaces \cap Contracts = {}
  /\ Nobody \notin Workspaces \cup Contracts
  /\ FirstLink \in [Companies -> Workspaces \cup {Nobody}]
  /\ \A j, k \in Companies : FirstLink[j] = FirstLink[k] => j = k \/ FirstLink[j] = Nobody
  /\ Begun \subseteq Contracts
  /\ \A c \in Begun : Postpaid[c] = {}
  /\ Plans \subseteq [active : SUBSET Processes, late : SUBSET Invoices, pays : SUBSET Invoices,
                      starts : SUBSET Contracts, ends : SUBSET Contracts,
                      links : Nat, admin : Nat, faults : Nat]

VARIABLES
  status,   \* organizations.status
  marker,   \* metadata billing_suspended
  rows,     \* organization_entitlements: workspace -> <<source, feature>> -> state
  link,     \* crm_companies.tenant_organization_id
  contract, \* none, active or ended (or cancelled)
  invoice,  \* open, late (overdue past the grace) or paid
  agenda,   \* the tasks each process still has to do
  count,    \* changes of the status that billing made, and notices of them
  doubt,    \* contracts and workspaces whose last sync failed or was disturbed
  left      \* [active, late, pays, starts, ends, links, admin, faults]

vars == <<status, marker, rows, link, contract, invoice, agenda, count, doubt, left>>
data == <<status, marker, rows, link, contract, invoice>>

Init ==
  /\ status = [w \in Workspaces |-> "active"]
  /\ marker = [w \in Workspaces |-> FALSE]
  /\ rows = [w \in Workspaces |-> [k \in Keys |->
               IF k[1] = Nobody /\ k[2] \in Free THEN "active" ELSE "none"]]
  /\ link = FirstLink
  /\ contract = [c \in Contracts |-> IF c \in Begun THEN "active" ELSE "none"]
  /\ invoice = [i \in Invoices |-> "open"]
  /\ agenda = [p \in Processes |-> <<>>]
  /\ count = [w \in Workspaces |-> [closed |-> 0, toldClosed |-> 0, opened |-> 0, toldOpened |-> 0]]
  /\ doubt = {}
  /\ left \in Plans

-----------------------------------------------------------------------------
Idle(p) == p \in left.active /\ agenda[p] = <<>>

At(p, do) == agenda[p] # <<>> /\ Head(agenda[p]).do = do

Task(p) == Head(agenda[p])

(* The task in hand is replaced by tasks, which come first.                *)
Then(p, tasks) == agenda' = [agenda EXCEPT ![p] = tasks \o Tail(@)]

SyncTasks == {"sync", "revoke", "others", "default", "list", "write", "clear"}

Syncing(p) == \E n \in 1..Len(agenda[p]) : agenda[p][n].do \in SyncTasks

Alone(p) == \A q \in Processes \ {p} : ~Syncing(q)

Everything == Contracts \cup Workspaces

(* The tasks; those of a sync name its contract.                           *)
Tasks ==
  [do : {"sync"}, con : Contracts]
    \cup [do : {"revoke", "others", "default", "clear"}, con : Contracts, ws : Workspaces]
    \cup [do : {"list"}, con : Contracts, ws : Workspaces,
          source : Contracts \cup {Nobody}, grants : SUBSET Features]
    \cup [do : {"write"}, con : Contracts, ws : Workspaces,
          source : Contracts \cup {Nobody}, new : SUBSET Features, old : SUBSET Features]
    \cup [do : {"settled"}, inv : Invoices]
    \cup [do : {"owed", "reopen", "check", "mark", "unmark"}, ws : Workspaces]
    \cup [do : {"change"}, ws : Workspaces, from : Statuses, to : Statuses,
          by : {"admin", "billing"}]
    \cup [do : {"notify"}, ws : Workspaces, closed : BOOLEAN]

(* An event in the middle of another's sync puts all in doubt.             *)
EventBy(p) == doubt' = IF Alone(p) THEN doubt ELSE Everything

(* What a task is about.                                                   *)
Subjects(task) ==
  IF task.do \notin SyncTasks THEN {}
  ELSE {task.con} \cup (IF task.do = "sync" THEN {} ELSE {task.ws})

-----------------------------------------------------------------------------
(* Events of the billing modules, whose listeners run after the commit in  *)
(* the process that committed, and of the CRM                              *)

Sync(c) == [do |-> "sync", con |-> c]

GoLate(i) ==
  /\ i \in left.late
  /\ invoice[i] = "open"
  /\ invoice' = [invoice EXCEPT ![i] = "late"]
  /\ UNCHANGED <<status, marker, rows, link, contract, agenda, count, doubt, left>>

(* InvoicePaid: the contract's access, then the workspace's status.        *)
InvoicePaid(p, i) ==
  /\ Idle(p)
  /\ i \in left.pays
  /\ contract[ContractOf[i]] # "none"
  /\ invoice[i] # "paid"
  /\ invoice' = [invoice EXCEPT ![i] = "paid"]
  /\ agenda' = [agenda EXCEPT ![p] =
       (IF i \in Deliveries THEN <<>> ELSE <<Sync(ContractOf[i])>>)
         \o <<[do |-> "settled", inv |-> i]>>]
  /\ EventBy(p)
  /\ UNCHANGED <<status, marker, rows, link, contract, count, left>>

ContractCreated(p, c) ==
  /\ Idle(p)
  /\ c \in left.starts
  /\ contract[c] = "none"
  /\ contract' = [contract EXCEPT ![c] = "active"]
  /\ agenda' = [agenda EXCEPT ![p] = <<Sync(c)>>]
  /\ EventBy(p)
  /\ UNCHANGED <<status, marker, rows, link, invoice, count, left>>

ContractEnded(p, c) ==
  /\ Idle(p)
  /\ c \in left.ends
  /\ contract[c] = "active"
  /\ contract' = [contract EXCEPT ![c] = "ended"]
  /\ agenda' = [agenda EXCEPT ![p] = <<Sync(c)>>]
  /\ EventBy(p)
  /\ UNCHANGED <<status, marker, rows, link, invoice, count, left>>

ContractsOf(k) == {c \in Contracts : CompanyOf[c] = k /\ contract[c] # "none"}

Revoke(c, w) == [do |-> "revoke", con |-> c, ws |-> w]

(* OnWorkspaceLinkChanged: contract after contract leaves the old          *)
(* workspace and comes to the new one.                                     *)
MoveContracts(order, old, new) ==
  IF new = Nobody THEN [n \in 1..Len(order) |-> Revoke(order[n], old)]
  ELSE IF old = Nobody THEN [n \in 1..Len(order) |-> Sync(order[n])]
  ELSE [n \in 1..2 * Len(order) |->
          LET c == order[(n + 1) \div 2] IN IF n % 2 = 1 THEN Revoke(c, old) ELSE Sync(c)]

(* Mutant: no unique index. *)
LinkableTwice(k) == {Nobody} \cup {w \in Workspaces : status[w] # "archived"}

(* The unique index, and FindWorkspace, which finds no archived one.       *)
(* SetWorkspaceLink takes the read of the previous link and the update as  *)
(* one step: two changes of one company's link do not read the same one.   *)
Linkable(k) ==
  {Nobody} \cup {w \in Workspaces : /\ status[w] # "archived"
                                  /\ \A j \in Companies \ {k} : link[j] # w}

SetWorkspaceLink(p, k, w) ==
  /\ Idle(p)
  /\ left.links > 0
  /\ w \in Linkable(k) \ {link[k]}
  /\ link' = [link EXCEPT ![k] = w]
  /\ left' = [left EXCEPT !.links = @ - 1]
  /\ \E order \in SetToSeqs(ContractsOf(k)) :
       agenda' = [agenda EXCEPT ![p] = MoveContracts(order, link[k], w)]
  /\ EventBy(p)
  /\ UNCHANGED <<status, marker, rows, contract, invoice, count>>

-----------------------------------------------------------------------------
(* Features *)

Paid(c) == \E i \in Invoices \ Deliveries : ContractOf[i] = c /\ invoice[i] = "paid"

Wanted(c) == Postpaid[c] \cup (IF Paid(c) THEN Prepaid[c] ELSE {})

(* What the tasks that p begins will set right, if nothing disturbs them.  *)
SetsRight(p, subjects) == doubt' = IF Alone(p) THEN doubt \ subjects ELSE doubt

(* SyncContract, which reads the contract and its payment, the order and   *)
(* the company before it writes.                                           *)
SyncContract(p) ==
  /\ At(p, "sync")
  /\ LET c == Task(p).con
         w == link[CompanyOf[c]]
     IN CASE w # Nobody /\ contract[c] = "ended" ->
               /\ Then(p, <<Revoke(c, w)>>)
               /\ SetsRight(p, {c})
          [] w # Nobody /\ contract[c] # "ended" /\ Wanted(c) # {} ->
               /\ Then(p, <<[do |-> "list", con |-> c, ws |-> w, source |-> c, grants |-> Wanted(c)]>>)
               /\ SetsRight(p, {c, w})
          [] OTHER -> Then(p, <<>>) /\ UNCHANGED doubt
  /\ UNCHANGED <<data, count, left>>

Active(w, s) == {f \in Features : rows[w][<<s, f>>] = "active"}

HasContract(w) == \E c \in Contracts : Active(w, c) # {}

Expire(w, s, fs) ==
  rows' = [rows EXCEPT ![w] = [k \in Keys |->
    IF k[1] = s /\ k[2] \in fs /\ @[k] = "active" THEN "expired" ELSE @[k]]]

(* Mutant: the default goes before the contract is there. *)
ListAndClear(p) ==
  /\ At(p, "list")
  /\ LET t == Task(p)
         have == Active(t.ws, t.source)
     IN /\ Then(p, <<[do |-> "write", con |-> t.con, ws |-> t.ws, source |-> t.source,
                      new |-> t.grants \ have, old |-> have \ t.grants]>>)
        /\ Expire(t.ws, Nobody, Features)
  /\ UNCHANGED <<status, marker, link, contract, invoice, count, doubt, left>>

(* Mutant: what another contract gives is taken for granted. *)
ListOfAnyContract(p) ==
  /\ At(p, "list")
  /\ LET t == Task(p)
         have == IF t.source = Nobody THEN Active(t.ws, Nobody)
                 ELSE UNION {Active(t.ws, c) : c \in Contracts}
     IN Then(p, <<[do |-> "write", con |-> t.con, ws |-> t.ws, source |-> t.source,
                   new |-> t.grants \ have, old |-> Active(t.ws, t.source) \ t.grants]>>)
  /\ UNCHANGED <<data, count, doubt, left>>

(* sync lists what the source gives, then writes row after row.            *)
ListActive(p) ==
  /\ At(p, "list")
  /\ LET t == Task(p)
         have == Active(t.ws, t.source)
     IN Then(p, <<[do |-> "write", con |-> t.con, ws |-> t.ws, source |-> t.source,
                   new |-> t.grants \ have, old |-> have \ t.grants]>>)
  /\ UNCHANGED <<data, count, doubt, left>>

(* Upsert finds the row of the source, whatever became of it, or makes     *)
(* one, but not for an archived organisation.                              *)
Upsert(p, f) ==
  /\ At(p, "write")
  /\ LET t == Task(p)
         key == <<t.source, f>>
     IN /\ f \in t.new
        /\ IF rows[t.ws][key] = "none" /\ status[t.ws] = "archived"
             THEN /\ Then(p, <<>>)
                  /\ doubt' = doubt \cup Subjects(t)
                  /\ UNCHANGED rows
             ELSE /\ rows' = [rows EXCEPT ![t.ws][key] = "active"]
                  /\ Then(p, <<[t EXCEPT !.new = @ \ {f}]>>)
                  /\ UNCHANGED doubt
  /\ UNCHANGED <<status, marker, link, contract, invoice, count, left>>

ExpireByID(p, f) ==
  /\ At(p, "write")
  /\ LET t == Task(p) IN
       /\ t.new = {} /\ f \in t.old
       /\ Expire(t.ws, t.source, {f})
       /\ Then(p, <<[t EXCEPT !.old = @ \ {f}]>>)
  /\ UNCHANGED <<status, marker, link, contract, invoice, count, doubt, left>>

(* GrantContract goes on with the free plan; GrantDefault is through.      *)
Written(p) ==
  /\ At(p, "write")
  /\ LET t == Task(p) IN
       /\ t.new = {} /\ t.old = {}
       /\ Then(p, IF t.source = Nobody THEN <<>>
                  ELSE <<[do |-> "clear", con |-> t.con, ws |-> t.ws]>>)
  /\ UNCHANGED <<data, count, doubt, left>>

ExpireDefault(p) ==
  /\ At(p, "clear")
  /\ Expire(Task(p).ws, Nobody, Features)
  /\ Then(p, <<>>)
  /\ UNCHANGED <<status, marker, link, contract, invoice, count, doubt, left>>

RevokeContract(p) ==
  /\ At(p, "revoke")
  /\ LET t == Task(p) IN
       /\ Expire(t.ws, t.con, Features)
       /\ Then(p, <<[do |-> "others", con |-> t.con, ws |-> t.ws]>>)
  /\ UNCHANGED <<status, marker, link, contract, invoice, count, doubt, left>>

(* With no other contract the workspace goes back to the free plan ...     *)
RestoreDefault(p) ==
  /\ At(p, "others")
  /\ LET t == Task(p) IN
       Then(p, IF HasContract(t.ws) THEN <<>>
               ELSE <<[do |-> "default", con |-> t.con, ws |-> t.ws]>>)
  /\ UNCHANGED <<data, count, doubt, left>>

(* ... and GrantDefault looks again.                                       *)
GrantDefault(p) ==
  /\ At(p, "default")
  /\ LET t == Task(p) IN
       IF HasContract(t.ws)
         THEN Then(p, <<>>) /\ UNCHANGED doubt
         ELSE /\ Then(p, <<[do |-> "list", con |-> t.con, ws |-> t.ws,
                            source |-> Nobody, grants |-> Free]>>)
              /\ SetsRight(p, {t.ws})
  /\ UNCHANGED <<data, count, left>>

-----------------------------------------------------------------------------
(* The status of an organisation *)

CanTransition(from, to) ==
  \/ from = "active" /\ to \in {"suspended", "disabled", "archived"}
  \/ from = "suspended" /\ to \in {"active", "disabled", "archived"}
  \/ from = "disabled" /\ to \in {"active", "archived"}

Change(w, from, to, by) == [do |-> "change", ws |-> w, from |-> from, to |-> to, by |-> by]

(* PlatformService.ChangeStatus: a member of the platform's staff.         *)
SetStatus(p, w, to) ==
  /\ Idle(p)
  /\ left.admin > 0
  /\ CanTransition(status[w], to)
  /\ left' = [left EXCEPT !.admin = @ - 1]
  /\ agenda' = [agenda EXCEPT ![p] = <<Change(w, status[w], to, "admin")>>]
  /\ UNCHANGED <<data, count, doubt>>

(* Billing goes on with the marker.                                        *)
AfterChange(t) ==
  IF t.by = "admin" THEN <<>>
  ELSE <<[do |-> IF t.to = "suspended" THEN "mark" ELSE "unmark", ws |-> t.ws]>>

Counted(t) ==
  CASE t.by = "billing" /\ t.to = "suspended" /\ status[t.ws] # "suspended" ->
         [count EXCEPT ![t.ws].closed = @ + 1]
    [] t.by = "billing" /\ t.to = "active" /\ status[t.ws] # "active" ->
         [count EXCEPT ![t.ws].opened = @ + 1]
    [] OTHER -> count

(* Mutant: the status that was read is not compared. *)
ChangeAnyStatus(p) ==
  /\ At(p, "change")
  /\ LET t == Task(p) IN
       /\ status' = [status EXCEPT ![t.ws] = t.to]
       /\ count' = Counted(t)
       /\ Then(p, AfterChange(t))
  /\ UNCHANGED <<marker, rows, link, contract, invoice, doubt, left>>

(* LifecycleRepository.ChangeStatus, which compares the status it locks    *)
(* with the one that was read; an error otherwise.                         *)
ChangeStatus(p) ==
  /\ At(p, "change")
  /\ LET t == Task(p) IN
       IF status[t.ws] = t.from
         THEN /\ status' = [status EXCEPT ![t.ws] = t.to]
              /\ count' = Counted(t)
              /\ Then(p, AfterChange(t))
         ELSE /\ Then(p, <<>>)
              /\ UNCHANGED <<status, count>>
  /\ UNCHANGED <<marker, rows, link, contract, invoice, doubt, left>>

(* The metadata is written after the status has changed; an archived       *)
(* organisation has no row to update.                                      *)
WriteMarker(p) ==
  /\ At(p, "mark") \/ At(p, "unmark")
  /\ LET t == Task(p)
         close == t.do = "mark"
     IN IF status[t.ws] = "archived"
          THEN Then(p, <<>>) /\ UNCHANGED marker
          ELSE /\ marker' = [marker EXCEPT ![t.ws] = close]
               /\ Then(p, <<[do |-> "notify", ws |-> t.ws, closed |-> close]>>)
  /\ UNCHANGED <<status, rows, link, contract, invoice, count, doubt, left>>

(* WorkspaceSuspended and WorkspaceReactivated, to the owners.             *)
Notify(p) ==
  /\ At(p, "notify")
  /\ LET t == Task(p) IN
       count' = IF t.closed THEN [count EXCEPT ![t.ws].toldClosed = @ + 1]
                ELSE [count EXCEPT ![t.ws].toldOpened = @ + 1]
  /\ Then(p, <<>>)
  /\ UNCHANGED <<data, doubt, left>>

-----------------------------------------------------------------------------
(* SuspendOverdue and ReactivateIfSettled *)

WorkspaceOf(i) == link[CompanyOf[ContractOf[i]]]

Overdue(w) == \E i \in Invoices : invoice[i] = "late" /\ WorkspaceOf(i) = w

(* The list of workspaces is read once, before the first is looked at.     *)
SuspendOverdue(r) ==
  /\ Idle(r)
  /\ \E order \in SetToSeqs({w \in Workspaces : Overdue(w)}) :
       agenda' = [agenda EXCEPT ![r] =
         [n \in 1..Len(order) |-> [do |-> "check", ws |-> order[n]]]]
  /\ UNCHANGED <<data, count, doubt, left>>

(* Mutant: the run ends at a workspace it has nothing to do for. *)
CheckOrStop(r) ==
  /\ At(r, "check")
  /\ LET w == Task(r).ws IN
       IF status[w] = "active"
         THEN Then(r, <<Change(w, "active", "suspended", "billing")>>)
         ELSE agenda' = [agenda EXCEPT ![r] = <<>>]
  /\ UNCHANGED <<data, count, doubt, left>>

(* A workspace that is gone or not active is passed over.                  *)
CheckWorkspace(r) ==
  /\ At(r, "check")
  /\ LET w == Task(r).ws IN
       Then(r, IF status[w] = "active"
                 THEN <<Change(w, "active", "suspended", "billing")>> ELSE <<>>)
  /\ UNCHANGED <<data, count, doubt, left>>

(* Only what billing has suspended is a case for a payment ...             *)
FindSettled(p) ==
  /\ At(p, "settled")
  /\ LET w == WorkspaceOf(Task(p).inv) IN
       Then(p, IF w # Nobody /\ status[w] = "suspended" /\ marker[w]
                 THEN <<[do |-> "owed", ws |-> w]>> ELSE <<>>)
  /\ UNCHANGED <<data, count, doubt, left>>

(* ... and only when nothing else is overdue past the grace.               *)
CheckOwed(p) ==
  /\ At(p, "owed")
  /\ LET w == Task(p).ws IN
       Then(p, IF Overdue(w) THEN <<>> ELSE <<[do |-> "reopen", ws |-> w]>>)
  /\ UNCHANGED <<data, count, doubt, left>>

(* ReactivateFromBilling reads the organisation once more.                 *)
Reactivate(p) ==
  /\ At(p, "reopen")
  /\ LET w == Task(p).ws IN
       Then(p, IF CanTransition(status[w], "active")
                 THEN <<Change(w, status[w], "active", "billing")>> ELSE <<>>)
  /\ UNCHANGED <<data, count, doubt, left>>

-----------------------------------------------------------------------------
(* A statement fails: the error is logged or ends the call, and the        *)
(* process goes on with its next task.                                     *)
StatementFails(p) ==
  /\ left.faults > 0
  /\ agenda[p] # <<>>
  /\ left' = [left EXCEPT !.faults = @ - 1]
  /\ doubt' = doubt \cup Subjects(Task(p))
  /\ Then(p, <<>>)
  /\ UNCHANGED <<data, count>>

Crash(p) ==
  /\ left.faults > 0
  /\ agenda[p] # <<>>
  /\ left' = [left EXCEPT !.faults = @ - 1]
  /\ doubt' = doubt \cup UNION {Subjects(agenda[p][n]) : n \in 1..Len(agenda[p])}
  /\ agenda' = [agenda EXCEPT ![p] = <<>>]
  /\ UNCHANGED <<data, count>>

SyncStep(p) ==
  \/ SyncContract(p) \/ ListActive(p)
  \/ \E f \in Features : Upsert(p, f) \/ ExpireByID(p, f)
  \/ Written(p) \/ ExpireDefault(p)
  \/ RevokeContract(p) \/ RestoreDefault(p) \/ GrantDefault(p)

StatusStep(p) == ChangeStatus(p) \/ WriteMarker(p) \/ Notify(p)

RunnerStep(r) == SuspendOverdue(r) \/ CheckWorkspace(r) \/ StatusStep(r)

RequestStep(p) ==
  SyncStep(p) \/ FindSettled(p) \/ CheckOwed(p) \/ Reactivate(p) \/ StatusStep(p)

Event(p) ==
  \/ \E i \in Invoices : InvoicePaid(p, i)
  \/ \E c \in Contracts : ContractCreated(p, c) \/ ContractEnded(p, c)
  \/ \E k \in Companies, w \in Workspaces \cup {Nobody} : SetWorkspaceLink(p, k, w)
  \/ \E w \in Workspaces, to \in Statuses : SetStatus(p, w, to)

Next ==
  \/ \E i \in Invoices : GoLate(i)
  \/ \E r \in Runners : RunnerStep(r)
  \/ \E p \in Requests : Event(p) \/ RequestStep(p)
  \/ \E p \in Processes : StatementFails(p) \/ Crash(p)

(* The worker's ticker starts run after run and a run goes on to its end;  *)
(* requests may never come.                                                *)
Fairness == \A r \in Runners : WF_vars(RunnerStep(r))

Safety == Init /\ [][Next]_vars
Spec == Safety /\ Fairness

-----------------------------------------------------------------------------
(* Types; a workspace is linked to one company, and only a workspace that  *)
(* billing has suspended was ever marked.                                  *)
TypeOK ==
  /\ status \in [Workspaces -> Statuses]
  /\ marker \in [Workspaces -> BOOLEAN]
  /\ rows \in [Workspaces -> [Keys -> {"none", "active", "expired"}]]
  /\ link \in [Companies -> Workspaces \cup {Nobody}]
  /\ contract \in [Contracts -> {"none", "active", "ended"}]
  /\ invoice \in [Invoices -> {"open", "late", "paid"}]
  /\ agenda \in [Processes -> Seq(Tasks)]
  /\ count \in [Workspaces -> [closed : Nat, toldClosed : Nat, opened : Nat, toldOpened : Nat]]
  /\ doubt \subseteq Everything
  /\ left \in [active : SUBSET Processes, late : SUBSET Invoices, pays : SUBSET Invoices,
               starts : SUBSET Contracts, ends : SUBSET Contracts,
               links : Nat, admin : Nat, faults : Nat]
  /\ \A j, k \in Companies : link[j] = link[k] => j = k \/ link[j] = Nobody
  /\ \A w \in Workspaces : marker[w] => count[w].closed > 0

(* The comments at SuspendOverdue: runs that overlap, of two workers, tell *)
(* the owners of one suspension once, and so do two payments of its        *)
(* reactivation, since the change compares the status that was read.       *)
OneNoticePerChange ==
  \A w \in Workspaces :
    /\ count[w].toldClosed <= count[w].closed
    /\ count[w].toldOpened <= count[w].opened

(* A workspace with an invoice overdue past the grace does not stay        *)
(* active, whatever fails and whichever workspace of the same run is gone, *)
(* suspended by hand or cannot be read.                                    *)
OverdueIsSuspended ==
  \A w \in Workspaces : (Overdue(w) /\ status[w] = "active") ~>
                        ~(Overdue(w) /\ status[w] = "active")

HasAccess(w) == \E s \in Contracts \cup {Nobody} : Active(w, s) # {}

(* The order of the writes: payments, new contracts, failures and crashes  *)
(* in the middle of them never leave a workspace without features; only    *)
(* where a contract was revoked, as it had ended or moved, may the last    *)
(* one go, by that revocation or by a grant that overlapped with it.       *)
KeepsAccess ==
  [][\A w \in Workspaces :
       HasAccess(w) /\ ~HasAccess(w)' =>
         \E c \in Contracts, f \in Features : rows'[w][<<c, f>>] = "expired"]_vars

(* Repeated calls finish what failed in the middle: after a sync that      *)
(* nothing disturbed, a contract gives its workspace what it should, and   *)
(* the free plan is there exactly when no contract gives anything.  A sync *)
(* that overlaps with another promises nothing, for its lists of rows may  *)
(* be stale; nor does the property look at rows of a contract that are     *)
(* left on a workspace its company is no longer linked to.                 *)
SyncedIsRight ==
  LET busy == UNION {UNION {Subjects(agenda[p][n]) : n \in DOMAIN agenda[p]} : p \in Processes}
  IN /\ \A c \in Contracts \ (doubt \cup busy) :
          LET w == link[CompanyOf[c]] IN
          w # Nobody /\ contract[c] # "none" =>
            Active(w, c) = IF contract[c] = "ended" THEN {} ELSE Wanted(c)
     /\ \A w \in Workspaces \ (doubt \cup busy) :
          Active(w, Nobody) = IF HasContract(w) THEN {} ELSE Free
=============================================================================
