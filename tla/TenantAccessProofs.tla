------------------------- MODULE TenantAccessProofs -------------------------
(* Theorems about TenantAccess.tla, for all sets of workspaces, contracts, *)
(* invoices and processes and every plan.                                  *)
EXTENDS TenantAccess, FiniteSetTheorems, TLAPS

-----------------------------------------------------------------------------
(* Tasks and agendas                                                       *)

(* What a task carries follows from what it does.                          *)
LEMMA Kinds ==
  ASSUME NEW t \in Tasks
  PROVE  /\ t.do \in SyncTasks => t.con \in Contracts
         /\ t.do \in SyncTasks \ {"sync"} => t.ws \in Workspaces
         /\ t.do = "sync" => t = Sync(t.con)
         /\ t.do = "list" =>
              t \in [do : {"list"}, con : Contracts, ws : Workspaces,
                     source : Contracts \cup {Nobody}, grants : SUBSET Features]
         /\ t.do = "write" =>
              t \in [do : {"write"}, con : Contracts, ws : Workspaces,
                     source : Contracts \cup {Nobody}, new : SUBSET Features,
                     old : SUBSET Features]
         /\ t.do = "settled" => t.inv \in Invoices
         /\ t.do \in {"owed", "reopen", "check", "mark", "unmark", "change", "notify"} =>
              t.ws \in Workspaces
         /\ t.do = "change" => t.to \in Statuses /\ t.from \in Statuses /\ t.by \in {"admin", "billing"}
         /\ t.do = "notify" => t.closed \in BOOLEAN
<1>1. t.do \in SyncTasks => t.con \in Contracts
  BY DEF Tasks, SyncTasks
<1>2. t.do \in SyncTasks \ {"sync"} => t.ws \in Workspaces
  BY DEF Tasks, SyncTasks
<1>3. t.do = "sync" => t = Sync(t.con)
  BY DEF Tasks, Sync
<1>4. t.do = "list" => t \in [do : {"list"}, con : Contracts, ws : Workspaces,
                     source : Contracts \cup {Nobody}, grants : SUBSET Features]
  BY DEF Tasks
<1>5. t.do = "write" => t \in [do : {"write"}, con : Contracts, ws : Workspaces,
                     source : Contracts \cup {Nobody}, new : SUBSET Features,
                     old : SUBSET Features]
  BY DEF Tasks
<1>6. t.do = "settled" => t.inv \in Invoices
  BY DEF Tasks
<1>7. t.do \in {"owed", "reopen", "check", "mark", "unmark", "change", "notify"} => t.ws \in Workspaces
  BY DEF Tasks
<1>8. t.do = "change" => t.to \in Statuses /\ t.from \in Statuses /\ t.by \in {"admin", "billing"}
  BY DEF Tasks
<1>9. t.do = "notify" => t.closed \in BOOLEAN
  BY DEF Tasks
<1> QED BY <1>1, <1>2, <1>3, <1>4, <1>5, <1>6, <1>7, <1>8, <1>9

(* The next task is taken up.                                              *)
LEMMA NextTask ==
  ASSUME NEW p \in Processes, agenda \in [Processes -> Seq(Tasks)], agenda[p] # <<>>
  PROVE  /\ Task(p) \in Tasks
         /\ Len(agenda[p]) \in Nat \ {0}
         /\ Task(p) = agenda[p][1]
         /\ Tail(agenda[p]) \in Seq(Tasks)
         /\ Len(Tail(agenda[p])) = Len(agenda[p]) - 1
         /\ \A n \in DOMAIN Tail(agenda[p]) :
              n + 1 \in DOMAIN agenda[p] /\ Tail(agenda[p])[n] = agenda[p][n + 1]
         /\ DOMAIN agenda[p] = 1..Len(agenda[p])
<1>1. agenda[p] \in Seq(Tasks)
  OBVIOUS
<1> QED BY <1>1 DEF Task

LEMMA ThenNothing ==
  ASSUME NEW p \in Processes, agenda \in [Processes -> Seq(Tasks)], agenda[p] # <<>>,
         Then(p, <<>>)
  PROVE  agenda' = [agenda EXCEPT ![p] = Tail(agenda[p])]
<1>1. <<>> \o Tail(agenda[p]) = Tail(agenda[p])
  BY NextTask
<1> QED BY <1>1 DEF Then

LEMMA ThenOne ==
  ASSUME NEW p \in Processes, agenda \in [Processes -> Seq(Tasks)], agenda[p] # <<>>,
         NEW t \in Tasks, Then(p, <<t>>)
  PROVE  \E s \in Seq(Tasks) :
           /\ agenda' = [agenda EXCEPT ![p] = s]
           /\ Len(s) = Len(agenda[p])
           /\ s[1] = t
           /\ \A n \in 2..Len(s) : s[n] = agenda[p][n]
<1> DEFINE r == Tail(agenda[p])
<1>1. r \in Seq(Tasks) /\ Len(r) = Len(agenda[p]) - 1 /\ Len(agenda[p]) \in Nat \ {0}
  BY NextTask
<1>2. \A n \in 1..Len(r) : r[n] = agenda[p][n + 1]
  BY NextTask
<1> HIDE DEF r
<1> DEFINE s == <<t>> \o r
<1>3. s \in Seq(Tasks) /\ Len(s) = Len(agenda[p]) /\ s[1] = t
  BY <1>1
<1>4. \A n \in 2..Len(s) : s[n] = r[n - 1]
  BY <1>1
<1>5. \A n \in 2..Len(s) : s[n] = agenda[p][n]
  BY <1>1, <1>2, <1>3, <1>4
<1>6. agenda' = [agenda EXCEPT ![p] = s]
  BY DEF Then, r
<1> QED BY <1>3, <1>5, <1>6

-----------------------------------------------------------------------------
(* Types                                                                   *)

Records ==
  /\ status \in [Workspaces -> Statuses]
  /\ marker \in [Workspaces -> BOOLEAN]
  /\ rows \in [Workspaces -> [Keys -> {"none", "active", "expired"}]]
  /\ link \in [Companies -> Workspaces \cup {Nobody}]
  /\ contract \in [Contracts -> {"none", "active", "ended"}]
  /\ invoice \in [Invoices -> {"open", "late", "paid"}]
  /\ count \in [Workspaces -> [closed : Nat, toldClosed : Nat, opened : Nat, toldOpened : Nat]]
  /\ doubt \subseteq Everything
  /\ left \in [active : SUBSET Processes, late : SUBSET Invoices, pays : SUBSET Invoices,
               starts : SUBSET Contracts, ends : SUBSET Contracts,
               links : Nat, admin : Nat, faults : Nat]

Agendas == agenda \in [Processes -> Seq(Tasks)]

Typed == Records /\ Agendas

(* The task in hand is done, or leads to one other.                        *)
GoesOn(p) ==
  /\ agenda[p] # <<>>
  /\ Then(p, <<>>) \/ \E t \in Tasks : Then(p, <<t>>)

LEMMA GoesOnTyped ==
  ASSUME NEW p \in Processes, Agendas, GoesOn(p)
  PROVE  Agendas'
<1>1. CASE Then(p, <<>>)
  <2>1. Tail(agenda[p]) \in Seq(Tasks)
    BY NextTask DEF Agendas, GoesOn
  <2> QED BY <1>1, <2>1, ThenNothing DEF Agendas, GoesOn
<1>2. CASE \E t \in Tasks : Then(p, <<t>>)
  BY <1>2, ThenOne DEF Agendas, GoesOn
<1> QED BY <1>1, <1>2 DEF GoesOn

LEMMA FeatureSets ==
  ASSUME NEW c \in Contracts
  PROVE  Wanted(c) \subseteq Features
<1>1. Postpaid[c] \cup Prepaid[c] \subseteq Features
  BY Zenon DEF Features
<1> QED BY <1>1 DEF Wanted

LEMMA Companied ==
  ASSUME Records, NEW c \in Contracts
  PROVE  CompanyOf[c] \in Companies /\ link[CompanyOf[c]] \in Workspaces \cup {Nobody}
BY AccessAssumption DEF Records

(* What a task says of itself: what it grants and expires, and the change  *)
(* of a status it was made for.                                            *)
Sound(t) ==
  /\ t.do = "list" =>
       /\ t.source \in {t.con, Nobody}
       /\ t.grants # {}
       /\ t.source = Nobody => t.grants = Free
  /\ t.do = "write" =>
       /\ t.source \in {t.con, Nobody}
       /\ t.new \cap t.old = {}
       /\ t.source = Nobody => t.new \subseteq Free /\ t.old = {}
  /\ t.do = "change" /\ t.by = "billing" =>
       \/ t.from = "active" /\ t.to = "suspended"
       \/ t.from # "active" /\ t.to = "active"

(* Rows of the free plan are of features of the free product.              *)
DefaultIsFree == \A w \in Workspaces : Active(w, Nobody) \subseteq Free

(* A step of a sync, whose tasks are about one contract.                   *)
Syncs(p) ==
  /\ agenda[p] # <<>>
  /\ Task(p).do \in SyncTasks
  /\ \/ Then(p, <<>>)
     \/ \E t \in Tasks :
          /\ t.do \in SyncTasks /\ t.con = Task(p).con
          /\ Sound(Task(p)) /\ DefaultIsFree => Sound(t)
          /\ Then(p, <<t>>)

LEMMA SyncsGoesOn ==
  ASSUME NEW p, Syncs(p)
  PROVE  GoesOn(p)
<1>1. Then(p, <<>>) \/ \E t \in Tasks : Then(p, <<t>>)
  BY Zenon DEF Syncs
<1> QED BY <1>1 DEF Syncs, GoesOn

LEMMA SyncIsOneContracts ==
  ASSUME NEW p \in Processes, Typed, SyncStep(p)
  PROVE  Syncs(p)
<1> USE DEF Typed, Agendas
<1>n. agenda[p] # <<>> => Task(p) \in Tasks
  BY NextTask
<1>1. CASE SyncContract(p)
  <2> DEFINE t == Task(p)
             c == t.con
             w == link[CompanyOf[c]]
             u == [do |-> "list", con |-> c, ws |-> w, source |-> c, grants |-> Wanted(c)]
  <2>1. /\ agenda[p] # <<>> /\ t.do = "sync"
        /\ \/ Then(p, <<Revoke(c, w)>>) /\ w # Nobody
           \/ Then(p, <<u>>) /\ w # Nobody /\ Wanted(c) # {}
           \/ Then(p, <<>>)
    BY <1>1 DEF SyncContract, At, Task
  <2>2. c \in Contracts /\ t.do \in SyncTasks
    BY <2>1, <1>n, Kinds DEF SyncTasks
  <2>3. w \in Workspaces \cup {Nobody} /\ Wanted(c) \subseteq Features
    BY <2>2, Companied, FeatureSets
  <2>4. w # Nobody =>
          /\ Revoke(c, w) \in Tasks /\ Revoke(c, w).con = c
          /\ Revoke(c, w).do \in SyncTasks /\ Sound(Revoke(c, w))
    BY <2>2, <2>3 DEF Revoke, Tasks, SyncTasks, Sound
  <2>5. w # Nobody /\ Wanted(c) # {} =>
          u \in Tasks /\ u.con = c /\ u.do \in SyncTasks /\ Sound(u)
    BY <2>2, <2>3, AccessAssumption DEF Tasks, SyncTasks, Sound
  <2> HIDE DEF u, w, t
  <2> QED BY <2>1, <2>2, <2>4, <2>5 DEF Syncs, t
<1>2. CASE ListActive(p)
  <2> DEFINE t == Task(p)
             have == Active(t.ws, t.source)
             u == [do |-> "write", con |-> t.con, ws |-> t.ws, source |-> t.source,
                   new |-> t.grants \ have, old |-> have \ t.grants]
  <2>1. agenda[p] # <<>> /\ t.do = "list" /\ Then(p, <<u>>)
    BY <1>2 DEF ListActive, At, Task
  <2>2. t \in [do : {"list"}, con : Contracts, ws : Workspaces,
                     source : Contracts \cup {Nobody}, grants : SUBSET Features]
    BY <2>1, <1>n, Kinds
  <2>3. have \subseteq Features
    BY DEF Active
  <2>4. u \in Tasks /\ u.do \in SyncTasks /\ u.con = t.con
    BY <2>2, <2>3 DEF Tasks, SyncTasks
  <2>5. Sound(t) /\ DefaultIsFree => Sound(u)
    <3>1. DefaultIsFree /\ t.source = Nobody => have \subseteq Free
      BY <2>2 DEF DefaultIsFree
    <3> QED BY <2>1, <2>2, <3>1 DEF Sound
  <2>6. t.do \in SyncTasks
    BY <2>1 DEF SyncTasks
  <2> HIDE DEF t, u
  <2> QED BY <2>1, <2>4, <2>5, <2>6 DEF Syncs, t
<1>3. ASSUME NEW f \in Features, Upsert(p, f) PROVE Syncs(p)
  <2> DEFINE t == Task(p)
             u == [t EXCEPT !.new = @ \ {f}]
  <2>1. agenda[p] # <<>> /\ t.do = "write" /\ (Then(p, <<>>) \/ Then(p, <<u>>))
    BY <1>3 DEF Upsert, At, Task
  <2>2. t \in [do : {"write"}, con : Contracts, ws : Workspaces,
               source : Contracts \cup {Nobody}, new : SUBSET Features, old : SUBSET Features]
    BY <2>1, <1>n, Kinds
  <2>4. u \in Tasks /\ u.do \in SyncTasks /\ u.con = t.con
    BY <2>2 DEF Tasks, SyncTasks
  <2>5. Sound(t) => Sound(u)
    BY <2>1, <2>2 DEF Sound
  <2>6. t.do \in SyncTasks
    BY <2>1 DEF SyncTasks
  <2> HIDE DEF t, u
  <2> QED BY <2>1, <2>4, <2>5, <2>6 DEF Syncs, t
<1>4. ASSUME NEW f \in Features, ExpireByID(p, f) PROVE Syncs(p)
  <2> DEFINE t == Task(p)
             u == [t EXCEPT !.old = @ \ {f}]
  <2>1. agenda[p] # <<>> /\ t.do = "write" /\ Then(p, <<u>>)
    BY <1>4 DEF ExpireByID, At, Task
  <2>2. t \in [do : {"write"}, con : Contracts, ws : Workspaces,
               source : Contracts \cup {Nobody}, new : SUBSET Features, old : SUBSET Features]
    BY <2>1, <1>n, Kinds
  <2>4. u \in Tasks /\ u.do \in SyncTasks /\ u.con = t.con
    BY <2>2 DEF Tasks, SyncTasks
  <2>5. Sound(t) => Sound(u)
    BY <2>1, <2>2 DEF Sound
  <2>6. t.do \in SyncTasks
    BY <2>1 DEF SyncTasks
  <2> HIDE DEF t, u
  <2> QED BY <2>1, <2>4, <2>5, <2>6 DEF Syncs, t
<1>5. CASE Written(p)
  <2> DEFINE t == Task(p)
             u == [do |-> "clear", con |-> t.con, ws |-> t.ws]
  <2>1. agenda[p] # <<>> /\ t.do = "write" /\ (Then(p, <<>>) \/ Then(p, <<u>>))
    BY <1>5 DEF Written, At, Task
  <2>2. t.con \in Contracts /\ t.ws \in Workspaces
    BY <2>1, <1>n, Kinds DEF SyncTasks
  <2>4. u \in Tasks /\ u.do \in SyncTasks /\ u.con = t.con
    BY <2>2 DEF Tasks, SyncTasks
  <2>5. Sound(t) => Sound(u)
    BY <2>1, <2>2 DEF Sound
  <2>6. t.do \in SyncTasks
    BY <2>1 DEF SyncTasks
  <2> HIDE DEF t, u
  <2> QED BY <2>1, <2>4, <2>5, <2>6 DEF Syncs, t
<1>6. CASE ExpireDefault(p)
  BY <1>6 DEF ExpireDefault, At, Task, Syncs, SyncTasks
<1>7. CASE RevokeContract(p)
  <2> DEFINE t == Task(p)
             u == [do |-> "others", con |-> t.con, ws |-> t.ws]
  <2>1. agenda[p] # <<>> /\ t.do = "revoke" /\ Then(p, <<u>>)
    BY <1>7 DEF RevokeContract, At, Task
  <2>2. t.con \in Contracts /\ t.ws \in Workspaces
    BY <2>1, <1>n, Kinds DEF SyncTasks
  <2>4. u \in Tasks /\ u.do \in SyncTasks /\ u.con = t.con
    BY <2>2 DEF Tasks, SyncTasks
  <2>5. Sound(t) => Sound(u)
    BY <2>1, <2>2 DEF Sound
  <2>6. t.do \in SyncTasks
    BY <2>1 DEF SyncTasks
  <2> HIDE DEF t, u
  <2> QED BY <2>1, <2>4, <2>5, <2>6 DEF Syncs, t
<1>8. CASE RestoreDefault(p)
  <2> DEFINE t == Task(p)
             u == [do |-> "default", con |-> t.con, ws |-> t.ws]
  <2>1. agenda[p] # <<>> /\ t.do = "others" /\ (Then(p, <<>>) \/ Then(p, <<u>>))
    BY <1>8 DEF RestoreDefault, At, Task
  <2>2. t.con \in Contracts /\ t.ws \in Workspaces
    BY <2>1, <1>n, Kinds DEF SyncTasks
  <2>4. u \in Tasks /\ u.do \in SyncTasks /\ u.con = t.con
    BY <2>2 DEF Tasks, SyncTasks
  <2>5. Sound(t) => Sound(u)
    BY <2>1, <2>2 DEF Sound
  <2>6. t.do \in SyncTasks
    BY <2>1 DEF SyncTasks
  <2> HIDE DEF t, u
  <2> QED BY <2>1, <2>4, <2>5, <2>6 DEF Syncs, t
<1>9. CASE GrantDefault(p)
  <2> DEFINE t == Task(p)
             u == [do |-> "list", con |-> t.con, ws |-> t.ws, source |-> Nobody, grants |-> Free]
  <2>1. agenda[p] # <<>> /\ t.do = "default" /\ (Then(p, <<>>) \/ Then(p, <<u>>))
    BY <1>9 DEF GrantDefault, At, Task
  <2>2. t.con \in Contracts /\ t.ws \in Workspaces
    BY <2>1, <1>n, Kinds DEF SyncTasks
  <2>3. Free \subseteq Features
    BY DEF Features
  <2>4. u \in Tasks /\ u.do \in SyncTasks /\ u.con = t.con
    BY <2>2, <2>3 DEF Tasks, SyncTasks
  <2>5. Sound(t) => Sound(u)
    BY <2>1, <2>2, <2>3, AccessAssumption DEF Sound
  <2>6. t.do \in SyncTasks
    BY <2>1 DEF SyncTasks
  <2> HIDE DEF t, u
  <2> QED BY <2>1, <2>4, <2>5, <2>6 DEF Syncs, t
<1> QED BY <1>1, <1>2, <1>3, <1>4, <1>5, <1>6, <1>7, <1>8, <1>9 DEF SyncStep

(* A step of a task that is no part of a sync. *)
Calm(p) ==
  /\ agenda[p] # <<>>
  /\ Task(p).do \notin SyncTasks
  /\ \/ Then(p, <<>>)
     \/ \E t \in Tasks : t.do \notin SyncTasks /\ Sound(t) /\ Then(p, <<t>>)
  /\ UNCHANGED <<rows, link, contract, invoice, doubt>>

LEMMA CalmGoesOn ==
  ASSUME NEW p, Calm(p)
  PROVE  GoesOn(p)
BY Zenon DEF Calm, GoesOn

LEMMA StatusIsCalm ==
  ASSUME NEW p \in Processes, Typed,
         \/ StatusStep(p) \/ CheckWorkspace(p) \/ FindSettled(p) \/ CheckOwed(p)
         \/ Reactivate(p)
  PROVE  Calm(p)
<1> USE DEF Typed, Agendas
<1>n. agenda[p] # <<>> => Task(p) \in Tasks
  BY NextTask
<1>1. CASE ChangeStatus(p)
  <2> DEFINE t == Task(p)
             u == [do |-> IF t.to = "suspended" THEN "mark" ELSE "unmark", ws |-> t.ws]
  <2>1. agenda[p] # <<>> /\ t.do = "change" /\ (Then(p, <<>>) \/ Then(p, AfterChange(t)))
        /\ UNCHANGED <<rows, link, contract, invoice, doubt>>
    BY <1>1 DEF ChangeStatus, At, Task
  <2>2. t.ws \in Workspaces
    BY <2>1, <1>n, Kinds
  <2>3. AfterChange(t) = <<>> \/ AfterChange(t) = <<u>>
    BY DEF AfterChange
  <2>4. u.do \in {"mark", "unmark"} /\ u \in Tasks
    BY <2>2 DEF Tasks
  <2>5. u.do \notin SyncTasks /\ Sound(u)
    BY <2>4 DEF SyncTasks, Sound
  <2>6. Then(p, <<>>) \/ Then(p, <<u>>)
    BY <2>1, <2>3
  <2>7. t.do \notin SyncTasks
    BY <2>1 DEF SyncTasks
  <2> HIDE DEF u, t
  <2> QED BY <2>1, <2>4, <2>5, <2>6, <2>7 DEF Calm, t
<1>2. CASE WriteMarker(p)
  <2> DEFINE t == Task(p)
             u == [do |-> "notify", ws |-> t.ws, closed |-> t.do = "mark"]
  <2>1. agenda[p] # <<>> /\ t.do \in {"mark", "unmark"} /\ (Then(p, <<>>) \/ Then(p, <<u>>))
        /\ UNCHANGED <<rows, link, contract, invoice, doubt>>
    BY <1>2 DEF WriteMarker, At, Task
  <2>2. t.ws \in Workspaces
    BY <2>1, <1>n, Kinds
  <2>4. u.do \notin SyncTasks /\ u \in Tasks /\ Sound(u)
    BY <2>2 DEF Tasks, SyncTasks, Sound
  <2>7. t.do \notin SyncTasks
    BY <2>1 DEF SyncTasks
  <2> HIDE DEF u, t
  <2> QED BY <2>1, <2>4, <2>7 DEF Calm, t
<1>3. CASE Notify(p)
  BY <1>3 DEF Notify, At, Task, Calm, data, SyncTasks
<1>4. CASE CheckWorkspace(p)
  <2> DEFINE t == Task(p)
             u == Change(t.ws, "active", "suspended", "billing")
  <2>1. agenda[p] # <<>> /\ t.do = "check" /\ (Then(p, <<>>) \/ Then(p, <<u>>))
        /\ UNCHANGED <<rows, link, contract, invoice, doubt>>
    BY <1>4 DEF CheckWorkspace, At, Task, data
  <2>2. t.ws \in Workspaces
    BY <2>1, <1>n, Kinds
  <2>4. u.do \notin SyncTasks /\ u \in Tasks /\ Sound(u)
    BY <2>2 DEF Tasks, SyncTasks, Sound, Change, Statuses
  <2>7. t.do \notin SyncTasks
    BY <2>1 DEF SyncTasks
  <2> HIDE DEF u, t
  <2> QED BY <2>1, <2>4, <2>7 DEF Calm, t
<1>5. CASE FindSettled(p)
  <2> DEFINE t == Task(p)
             w == WorkspaceOf(t.inv)
             u == [do |-> "owed", ws |-> w]
  <2>1. agenda[p] # <<>> /\ t.do = "settled" /\ (Then(p, <<>>) \/ (w # Nobody /\ Then(p, <<u>>)))
        /\ UNCHANGED <<rows, link, contract, invoice, doubt>>
    BY <1>5 DEF FindSettled, At, Task, data
  <2>2. w \in Workspaces \cup {Nobody}
    BY <2>1, <1>n, Kinds, Companied, AccessAssumption DEF WorkspaceOf
  <2>4. w # Nobody => u.do \notin SyncTasks /\ u \in Tasks /\ Sound(u)
    BY <2>2 DEF Tasks, SyncTasks, Sound
  <2>7. t.do \notin SyncTasks
    BY <2>1 DEF SyncTasks
  <2> HIDE DEF u, t
  <2> QED BY <2>1, <2>4, <2>7 DEF Calm, t
<1>6. CASE CheckOwed(p)
  <2> DEFINE t == Task(p)
             u == [do |-> "reopen", ws |-> t.ws]
  <2>1. agenda[p] # <<>> /\ t.do = "owed" /\ (Then(p, <<>>) \/ Then(p, <<u>>))
        /\ UNCHANGED <<rows, link, contract, invoice, doubt>>
    BY <1>6 DEF CheckOwed, At, Task, data
  <2>2. t.ws \in Workspaces
    BY <2>1, <1>n, Kinds
  <2>4. u.do \notin SyncTasks /\ u \in Tasks /\ Sound(u)
    BY <2>2 DEF Tasks, SyncTasks, Sound
  <2>7. t.do \notin SyncTasks
    BY <2>1 DEF SyncTasks
  <2> HIDE DEF u, t
  <2> QED BY <2>1, <2>4, <2>7 DEF Calm, t
<1>7. CASE Reactivate(p)
  <2> DEFINE t == Task(p)
             u == Change(t.ws, status[t.ws], "active", "billing")
  <2>1. agenda[p] # <<>> /\ t.do = "reopen"
        /\ (Then(p, <<>>) \/ (CanTransition(status[t.ws], "active") /\ Then(p, <<u>>)))
        /\ UNCHANGED <<rows, link, contract, invoice, doubt>>
    BY <1>7 DEF Reactivate, At, Task, data
  <2>2. t.ws \in Workspaces /\ status[t.ws] \in Statuses
    BY <2>1, <1>n, Kinds DEF Records
  <2>4. CanTransition(status[t.ws], "active") => u.do \notin SyncTasks /\ u \in Tasks /\ Sound(u)
    BY <2>2 DEF Tasks, SyncTasks, Sound, Change, Statuses, CanTransition
  <2>7. t.do \notin SyncTasks
    BY <2>1 DEF SyncTasks
  <2> HIDE DEF u, t
  <2> QED BY <2>1, <2>4, <2>7 DEF Calm, t
<1> QED BY <1>1, <1>2, <1>3, <1>4, <1>5, <1>6, <1>7 DEF StatusStep

(* What waits behind the task in hand are whole calls, and the call that   *)
(* revokes a contract comes before those that grant it again.              *)
Waiting == {"sync", "revoke", "settled", "check"}

Ordered(s) ==
  \A n \in DOMAIN s : \A m \in 1..(n - 1) :
    /\ s[n].do \in Waiting
    /\ s[n].do = "revoke" /\ s[m].do \in SyncTasks => s[m].con # s[n].con

(* Every member of a set has its place.                                    *)
LEMMA Listed ==
  ASSUME NEW S, IsFiniteSet(S), NEW order \in SetToSeqs(S)
  PROVE  /\ order \in Seq(S)
         /\ \A m, n \in DOMAIN order : order[m] = order[n] => m = n
         /\ \A x \in S : \E n \in DOMAIN order : order[n] = x
<1> DEFINE D == 1..Cardinality(S)
<1>1. /\ order \in [D -> S]
      /\ \A m, n \in D : m # n => order[m] # order[n]
  BY DEF SetToSeqs
<1>2. Cardinality(S) \in Nat
  BY FS_CardinalityType
<1>3. order \in Seq(S)
  BY <1>1, <1>2
<1>4. order \in Injection(D, S)
  BY <1>1 DEF Injection, IsInjective
<1>5. Cardinality(D) = Cardinality(S)
  <2>1. Cardinality(1..Cardinality(S)) = IF 1 > Cardinality(S) THEN 0 ELSE Cardinality(S) - 1 + 1
    BY <1>2, FS_Interval
  <2> QED BY <1>2, <2>1
<1> HIDE DEF D
<1>6. order \in Surjection(D, S)
  BY <1>4, <1>5, FS_Injection
<1>7. \A x \in S : \E n \in D : order[n] = x
  BY <1>6 DEF Surjection
<1>8. DOMAIN order = D
  BY <1>1
<1> QED BY <1>1, <1>3, <1>7, <1>8

LEMMA SyncIsTask ==
  ASSUME NEW c \in Contracts
  PROVE  Sync(c) \in Tasks /\ Sync(c).do = "sync" /\ Sync(c).con = c
BY DEF Sync, Tasks

LEMMA RevokeIsTask ==
  ASSUME NEW c \in Contracts, NEW w \in Workspaces
  PROVE  /\ Revoke(c, w) \in Tasks /\ Revoke(c, w).do = "revoke"
         /\ Revoke(c, w).con = c /\ Revoke(c, w).ws = w
BY DEF Revoke, Tasks

(* The tasks of a company whose workspace changes.                         *)
Moved(s, order, old, new) ==
  /\ \A n \in DOMAIN s :
       /\ s[n].do \in {"sync", "revoke"}
       /\ s[n].do = "revoke" =>
            s[n].ws = old /\ \E m \in DOMAIN order : s[n].con = order[m]
  /\ new # Nobody =>
       \A m \in DOMAIN order : \E n \in DOMAIN s : s[n] = Sync(order[m])

LEMMA Moves ==
  ASSUME NEW order \in Seq(Contracts),
         \A m, n \in DOMAIN order : order[m] = order[n] => m = n,
         NEW old \in Workspaces \cup {Nobody}, NEW new \in Workspaces \cup {Nobody},
         old # new,
         NEW s, s = MoveContracts(order, old, new)
  PROVE  /\ s \in Seq(Tasks)
         /\ Ordered(s)
         /\ Moved(s, order, old, new)
<1> DEFINE l == Len(order)
<1>0. l \in Nat /\ DOMAIN order = 1..l /\ \A m \in 1..l : order[m] \in Contracts
  OBVIOUS
<1> HIDE DEF l
<1>1. CASE new = Nobody
  <2>1. old \in Workspaces
    BY <1>1
  <2>2. s = [n \in 1..l |-> Revoke(order[n], old)]
    BY <1>1 DEF MoveContracts, l
  <2>3. \A n \in 1..l : s[n] = Revoke(order[n], old) /\ s[n] \in Tasks
                        /\ s[n].do = "revoke" /\ s[n].con = order[n] /\ s[n].ws = old
    BY <2>1, <2>2, <1>0, RevokeIsTask
  <2>4. s \in Seq(Tasks) /\ DOMAIN s = 1..l
    BY <2>2, <2>3, <1>0
  <2>5. Ordered(s)
    BY <2>3, <2>4, <1>0 DEF Ordered, Waiting
  <2> QED BY <1>0, <1>1, <2>3, <2>4, <2>5 DEF Moved
<1>2. CASE new # Nobody /\ old = Nobody
  <2>2. s = [n \in 1..l |-> Sync(order[n])]
    BY <1>2 DEF MoveContracts, l
  <2>3. \A n \in 1..l : s[n] = Sync(order[n]) /\ s[n] \in Tasks /\ s[n].do = "sync"
    BY <2>2, <1>0, SyncIsTask
  <2>4. s \in Seq(Tasks) /\ DOMAIN s = 1..l
    BY <2>2, <2>3, <1>0
  <2>5. Ordered(s)
    BY <2>3, <2>4, <1>0 DEF Ordered, Waiting
  <2> QED BY <1>0, <2>3, <2>4, <2>5 DEF Moved
<1>3. CASE new # Nobody /\ old # Nobody
  <2>1. old \in Workspaces
    BY <1>3
  <2>2. s = [n \in 1..2 * l |-> IF n % 2 = 1 THEN Revoke(order[(n + 1) \div 2], old)
                                ELSE Sync(order[(n + 1) \div 2])]
    BY <1>3 DEF MoveContracts, l
  <2>3. \A n \in 1..2 * l : (n + 1) \div 2 \in 1..l
    BY <1>0
  <2>4. \A n \in 1..2 * l :
          /\ s[n] \in Tasks
          /\ s[n].con = order[(n + 1) \div 2]
          /\ n % 2 = 1 => s[n].do = "revoke" /\ s[n].ws = old
          /\ n % 2 # 1 => s[n].do = "sync" /\ s[n] = Sync(order[(n + 1) \div 2])
    <3> SUFFICES ASSUME NEW n \in 1..2 * l
                 PROVE  /\ s[n] \in Tasks
                        /\ s[n].con = order[(n + 1) \div 2]
                        /\ n % 2 = 1 => s[n].do = "revoke" /\ s[n].ws = old
                        /\ n % 2 # 1 => s[n].do = "sync" /\ s[n] = Sync(order[(n + 1) \div 2])
      OBVIOUS
    <3>1. order[(n + 1) \div 2] \in Contracts
      BY <2>3, <1>0
    <3>2. CASE n % 2 = 1
      <4>1. s[n] = Revoke(order[(n + 1) \div 2], old)
        BY <3>2, <2>2
      <4> QED BY <4>1, <3>1, <3>2, <2>1, RevokeIsTask
    <3>3. CASE n % 2 # 1
      <4>1. s[n] = Sync(order[(n + 1) \div 2])
        BY <3>3, <2>2
      <4> QED BY <4>1, <3>1, <3>3, SyncIsTask
    <3> QED BY <3>2, <3>3
  <2>5. DOMAIN s = 1..2 * l /\ 2 * l \in Nat
    BY <2>2, <1>0
  <2>6. s \in Seq(Tasks)
    BY <2>2, <2>4, <2>5
  <2>7. Ordered(s)
    <3> SUFFICES ASSUME NEW n \in 1..2 * l, NEW m \in 1..(n - 1)
                 PROVE  /\ s[n].do \in Waiting
                        /\ s[n].do = "revoke" /\ s[m].do \in SyncTasks => s[m].con # s[n].con
      BY <2>5 DEF Ordered
    <3>1. s[n].do \in Waiting
      BY <2>4 DEF Waiting
    <3>2. ASSUME s[n].do = "revoke", s[m].con = s[n].con PROVE FALSE
      <4>1. n % 2 = 1
        BY <2>4, <3>2
      <4>2. m \in 1..2 * l
        BY <1>0
      <4>3. order[(n + 1) \div 2] = order[(m + 1) \div 2]
        BY <3>2, <4>2, <2>4
      <4>4. (n + 1) \div 2 = (m + 1) \div 2
        BY <4>2, <4>3, <2>3, <1>0
      <4> QED BY <4>1, <4>4, <1>0
    <3> QED BY <3>1, <3>2
  <2>8. ASSUME NEW m \in 1..l PROVE \E n \in 1..2 * l : s[n] = Sync(order[m])
    <3>1. 2 * m \in 1..2 * l /\ (2 * m) % 2 # 1 /\ (2 * m + 1) \div 2 = m
      BY <1>0
    <3> QED BY <3>1, <2>4
  <2>9. \A n \in DOMAIN s :
          /\ s[n].do \in {"sync", "revoke"}
          /\ s[n].do = "revoke" => s[n].ws = old /\ \E m \in 1..l : s[n].con = order[m]
    BY <2>3, <2>4, <2>5
  <2> QED BY <2>5, <2>6, <2>7, <2>8, <2>9, <1>0 DEF Moved
<1> QED BY <1>1, <1>2, <1>3

(* An idle process takes up a call, with all its tasks.                    *)
Starts(p) ==
  /\ agenda[p] = <<>>
  /\ \E s \in Seq(Tasks) :
       /\ agenda' = [agenda EXCEPT ![p] = s]
       /\ Ordered(s)
       /\ \A n \in DOMAIN s : Sound(s[n]) /\ s[n].do \in Waiting \cup {"change"}

LEMMA StartsOne ==
  ASSUME NEW p \in Processes, agenda[p] = <<>>, NEW t \in Tasks, Sound(t),
         t.do \in Waiting \cup {"change"},
         agenda' = [agenda EXCEPT ![p] = <<t>>]
  PROVE  Starts(p)
<1> DEFINE s == <<t>>
<1>1. s \in Seq(Tasks) /\ DOMAIN s = 1..1 /\ s[1] = t
  OBVIOUS
<1>2. agenda' = [agenda EXCEPT ![p] = s]
  OBVIOUS
<1> HIDE DEF s
<1>3. Ordered(s)
  BY <1>1 DEF Ordered
<1>4. \A n \in DOMAIN s : Sound(s[n]) /\ s[n].do \in Waiting \cup {"change"}
  BY <1>1
<1> QED BY <1>1, <1>2, <1>3, <1>4 DEF Starts

LEMMA SyncStarts ==
  ASSUME NEW p \in Processes, agenda[p] = <<>>, NEW c \in Contracts,
         agenda' = [agenda EXCEPT ![p] = <<Sync(c)>>]
  PROVE  Starts(p)
<1>1. Sync(c) \in Tasks /\ Sound(Sync(c)) /\ Sync(c).do \in Waiting
  BY SyncIsTask DEF Sound, Waiting
<1> QED BY <1>1, StartsOne

LEMMA PaymentStarts ==
  ASSUME NEW p \in Processes, NEW i \in Invoices, InvoicePaid(p, i)
  PROVE  Starts(p)
<1> DEFINE t == [do |-> "settled", inv |-> i]
           c == ContractOf[i]
<1>1. t \in Tasks /\ Sound(t) /\ t.do = "settled" /\ t.do \in Waiting
  BY DEF Tasks, Sound, Waiting
<1>2. Sync(c) \in Tasks /\ Sound(Sync(c)) /\ Sync(c).do = "sync" /\ Sync(c).do \in Waiting
  BY SyncIsTask, AccessAssumption DEF Sound, Waiting
<1>3. agenda[p] = <<>>
  BY DEF InvoicePaid, Idle
<1> HIDE DEF t, c
<1>4. CASE i \in Deliveries
  <2>1. <<>> \o <<t>> = <<t>>
    OBVIOUS
  <2>2. agenda' = [agenda EXCEPT ![p] = <<t>>]
    BY <2>1, <1>4 DEF InvoicePaid, t
  <2> QED BY <2>2, <1>1, <1>3, StartsOne
<1>5. CASE i \notin Deliveries
  <2> DEFINE s == <<Sync(c)>> \o <<t>>
  <2>2. agenda' = [agenda EXCEPT ![p] = s]
    BY <1>5 DEF InvoicePaid, t, c
  <2>3. s \in Seq(Tasks) /\ DOMAIN s = 1..2 /\ s[1] = Sync(c) /\ s[2] = t
    BY <1>1, <1>2
  <2> HIDE DEF s
  <2>4. Ordered(s)
    <3> SUFFICES ASSUME NEW n \in 1..2, NEW m \in 1..(n - 1)
                 PROVE  s[n].do \in Waiting /\ s[n].do # "revoke"
      BY <2>3 DEF Ordered
    <3>1. n = 2
      OBVIOUS
    <3> QED BY <3>1, <2>3, <1>1 DEF Waiting
  <2>5. \A n \in DOMAIN s : Sound(s[n]) /\ s[n].do \in Waiting
    BY <2>3, <1>1, <1>2
  <2> QED BY <1>3, <2>2, <2>3, <2>4, <2>5 DEF Starts
<1> QED BY <1>4, <1>5

LEMMA CompanysContracts ==
  ASSUME NEW k, NEW order \in SetToSeqs(ContractsOf(k))
  PROVE  /\ order \in Seq(Contracts)
         /\ \A m, n \in DOMAIN order : order[m] = order[n] => m = n
         /\ \A c \in ContractsOf(k) : \E n \in DOMAIN order : order[n] = c
<1>1. IsFiniteSet(ContractsOf(k)) /\ ContractsOf(k) \subseteq Contracts
  BY AccessAssumption, FS_Subset DEF ContractsOf
<1>2. /\ order \in Seq(ContractsOf(k))
      /\ \A m, n \in DOMAIN order : order[m] = order[n] => m = n
      /\ \A c \in ContractsOf(k) : \E n \in DOMAIN order : order[n] = c
  BY <1>1, Listed
<1> QED BY <1>1, <1>2

LEMMA LinkStarts ==
  ASSUME NEW p \in Processes, Typed, NEW k \in Companies, NEW w \in Workspaces \cup {Nobody},
         SetWorkspaceLink(p, k, w)
  PROVE  Starts(p)
<1>1. agenda[p] = <<>> /\ w # link[k] /\ link[k] \in Workspaces \cup {Nobody}
  BY DEF SetWorkspaceLink, Idle, Typed, Records
<1>2. PICK order \in SetToSeqs(ContractsOf(k)) :
        agenda' = [agenda EXCEPT ![p] = MoveContracts(order, link[k], w)]
  BY DEF SetWorkspaceLink
<1>3. /\ order \in Seq(Contracts)
      /\ \A m, n \in DOMAIN order : order[m] = order[n] => m = n
  BY CompanysContracts
<1>4. PICK s, old : old = link[k] /\ s = MoveContracts(order, old, w)
  OBVIOUS
<1>5. s \in Seq(Tasks) /\ Ordered(s) /\ Moved(s, order, old, w)
  BY <1>1, <1>3, <1>4, Moves
<1>6. \A n \in DOMAIN s : Sound(s[n]) /\ s[n].do \in Waiting
  BY <1>5 DEF Sound, Waiting, Moved
<1> QED BY <1>1, <1>2, <1>4, <1>5, <1>6 DEF Starts

LEMMA StatusStarts ==
  ASSUME NEW p \in Processes, Typed, NEW w \in Workspaces, NEW to \in Statuses,
         SetStatus(p, w, to)
  PROVE  Starts(p)
<1> DEFINE t == Change(w, status[w], to, "admin")
<1>1. t \in Tasks /\ Sound(t) /\ t.do = "change"
  BY DEF Tasks, Sound, Change, Typed, Records
<1>2. agenda[p] = <<>> /\ agenda' = [agenda EXCEPT ![p] = <<t>>]
  BY DEF SetStatus, Idle
<1> HIDE DEF t
<1> QED BY <1>1, <1>2, StartsOne

LEMMA RunStarts ==
  ASSUME NEW p \in Processes, SuspendOverdue(p)
  PROVE  Starts(p)
<1> DEFINE S == {w \in Workspaces : Overdue(w)}
<1>1. IsFiniteSet(S) /\ S \subseteq Workspaces
  BY AccessAssumption, FS_Subset
<1>2. agenda[p] = <<>>
  BY DEF SuspendOverdue, Idle
<1>3. PICK order \in SetToSeqs(S) :
        agenda' = [agenda EXCEPT ![p] =
          [n \in 1..Len(order) |-> [do |-> "check", ws |-> order[n]]]]
  BY DEF SuspendOverdue
<1>4. order \in Seq(S)
  BY <1>1, Listed
<1> HIDE DEF S
<1> DEFINE s == [n \in 1..Len(order) |-> [do |-> "check", ws |-> order[n]]]
<1>5. \A n \in 1..Len(order) : s[n] \in Tasks /\ s[n].do = "check" /\ Sound(s[n])
                                /\ s[n].do \in Waiting
  BY <1>1, <1>4 DEF Tasks, Sound, Waiting
<1>6. s \in Seq(Tasks) /\ DOMAIN s = 1..Len(order) /\ Len(order) \in Nat
  BY <1>4, <1>5
<1>7. Ordered(s)
  BY <1>5, <1>6 DEF Ordered, Waiting
<1> QED BY <1>2, <1>3, <1>5, <1>6, <1>7 DEF Starts

LEMMA EventStarts ==
  ASSUME NEW p \in Processes, Typed, Event(p)
  PROVE  Starts(p)
<1>1. ASSUME NEW c \in Contracts, ContractCreated(p, c) \/ ContractEnded(p, c)
      PROVE  Starts(p)
  BY <1>1, SyncStarts DEF ContractCreated, ContractEnded, Idle
<1> QED BY <1>1, PaymentStarts, LinkStarts, StatusStarts DEF Event

LEMMA StartsTyped ==
  ASSUME NEW p \in Processes, Agendas, Starts(p)
  PROVE  Agendas'
BY DEF Starts, Agendas

LEMMA AgendasStep ==
  ASSUME Typed, [Next]_vars
  PROVE  Agendas'
<1>1. ASSUME NEW r \in Runners, RunnerStep(r) PROVE Agendas'
  <2>1. r \in Processes
    BY DEF Processes
  <2>2. Starts(r) \/ GoesOn(r)
    BY <1>1, <2>1, RunStarts, StatusIsCalm, CalmGoesOn DEF RunnerStep
  <2> QED BY <2>1, <2>2, StartsTyped, GoesOnTyped DEF Typed
<1>2. ASSUME NEW p \in Requests, Event(p) \/ RequestStep(p) PROVE Agendas'
  <2>1. p \in Processes
    BY DEF Processes
  <2>2. Starts(p) \/ GoesOn(p)
    BY <1>2, <2>1, EventStarts, SyncIsOneContracts, SyncsGoesOn, StatusIsCalm, CalmGoesOn DEF RequestStep
  <2> QED BY <2>1, <2>2, StartsTyped, GoesOnTyped DEF Typed
<1>3. ASSUME NEW p \in Processes, StatementFails(p) PROVE Agendas'
  <2>1. GoesOn(p)
    BY <1>3 DEF StatementFails, GoesOn
  <2> QED BY <2>1, GoesOnTyped DEF Typed
<1>4. ASSUME NEW p \in Processes, Crash(p) PROVE Agendas'
  BY <1>4 DEF Crash, Typed, Agendas
<1>5. ASSUME NEW i \in Invoices, GoLate(i) PROVE Agendas'
  BY <1>5 DEF GoLate, Typed, Agendas
<1>6. CASE UNCHANGED vars
  BY <1>6 DEF vars, Typed, Agendas
<1> QED BY <1>1, <1>2, <1>3, <1>4, <1>5, <1>6 DEF Next

LEMMA TaskSubjects ==
  ASSUME NEW t \in Tasks
  PROVE  Subjects(t) \subseteq Everything
BY Kinds DEF Subjects, Everything, SyncTasks

LEMMA DoubtsOf ==
  ASSUME Typed, NEW p \in Processes, agenda[p] # <<>>
  PROVE  /\ Subjects(Task(p)) \subseteq Everything
         /\ UNION {Subjects(agenda[p][n]) : n \in 1..Len(agenda[p])} \subseteq Everything
<1>1. agenda[p] \in Seq(Tasks)
  BY DEF Typed, Agendas
<1>2. \A n \in 1..Len(agenda[p]) : Subjects(agenda[p][n]) \subseteq Everything
  BY <1>1, TaskSubjects
<1>3. Subjects(Task(p)) \subseteq Everything
  BY NextTask, TaskSubjects DEF Typed, Agendas
<1>4. UNION {Subjects(agenda[p][n]) : n \in 1..Len(agenda[p])} \subseteq Everything
  BY <1>2, Zenon
<1> QED BY <1>3, <1>4

LEMMA Expiry ==
  ASSUME NEW w, NEW s, NEW fs, Records, Expire(w, s, fs)
  PROVE  rows' \in [Workspaces -> [Keys -> {"none", "active", "expired"}]]
<1> DEFINE States == {"none", "active", "expired"}
           new == [k \in Keys |->
                     IF k[1] = s /\ k[2] \in fs /\ rows[w][k] = "active" THEN "expired"
                     ELSE rows[w][k]]
<1>1. rows \in [Workspaces -> [Keys -> States]]
  BY DEF Records
<1>2. rows' = [rows EXCEPT ![w] = new]
  BY DEF Expire
<1>3. w \in Workspaces => new \in [Keys -> States]
  BY <1>1
<1> HIDE DEF new
<1> QED BY <1>1, <1>2, <1>3

LEMMA CountedTyped ==
  ASSUME NEW t, Records
  PROVE  Counted(t) \in [Workspaces ->
           [closed : Nat, toldClosed : Nat, opened : Nat, toldOpened : Nat]]
<1> DEFINE Counts == [closed : Nat, toldClosed : Nat, opened : Nat, toldOpened : Nat]
<1>1. count \in [Workspaces -> Counts]
  BY DEF Records
<1>2. \A w \in Workspaces :
        /\ [count[w] EXCEPT !.closed = @ + 1] \in Counts
        /\ [count[w] EXCEPT !.opened = @ + 1] \in Counts
  BY <1>1
<1> HIDE DEF Counts
<1>3. /\ [count EXCEPT ![t.ws].closed = @ + 1] \in [Workspaces -> Counts]
      /\ [count EXCEPT ![t.ws].opened = @ + 1] \in [Workspaces -> Counts]
  BY <1>1, <1>2
<1> QED BY <1>1, <1>3 DEF Counted, Counts

LEMMA RecordsStep ==
  ASSUME Typed, [Next]_vars
  PROVE  Records'
<1> USE DEF Typed
<1>n. \A p \in Processes : agenda[p] # <<>> => Task(p) \in Tasks
  BY NextTask DEF Agendas
<1>1. ASSUME NEW p \in Processes, NEW i \in Invoices, InvoicePaid(p, i) PROVE Records'
  BY <1>1 DEF InvoicePaid, EventBy, Records, Everything
<1>2. ASSUME NEW p \in Processes, NEW c \in Contracts, ContractCreated(p, c) \/ ContractEnded(p, c)
      PROVE Records'
  BY <1>2 DEF ContractCreated, ContractEnded, EventBy, Records, Everything
<1>3. ASSUME NEW p \in Processes, NEW k \in Companies, NEW w \in Workspaces \cup {Nobody},
             SetWorkspaceLink(p, k, w)
      PROVE Records'
  <2>1. left.links - 1 \in Nat
    BY <1>3 DEF SetWorkspaceLink, Records
  <2>2. left' = [left EXCEPT !.links = left.links - 1] /\ link' = [link EXCEPT ![k] = w]
        /\ EventBy(p) /\ UNCHANGED <<status, marker, rows, contract, invoice, count>>
    BY <1>3 DEF SetWorkspaceLink
  <2> QED BY <2>1, <2>2 DEF EventBy, Records, Everything
<1>4. ASSUME NEW p \in Processes, NEW w \in Workspaces, NEW to \in Statuses, SetStatus(p, w, to)
      PROVE Records'
  <2>1. left.admin - 1 \in Nat
    BY <1>4 DEF SetStatus, Records
  <2>2. left' = [left EXCEPT !.admin = left.admin - 1] /\ UNCHANGED <<data, count, doubt>>
    BY <1>4 DEF SetStatus
  <2> QED BY <2>1, <2>2 DEF data, Records
<1>5. ASSUME NEW p \in Processes, SyncContract(p) \/ GrantDefault(p) PROVE Records'
  BY <1>5 DEF SyncContract, GrantDefault, SetsRight, data, Records
<1>6. ASSUME NEW p \in Processes, ListActive(p) \/ Written(p) \/ RestoreDefault(p) PROVE Records'
  BY <1>6 DEF ListActive, Written, RestoreDefault, data, Records
<1>7. ASSUME NEW p \in Processes, NEW f \in Features, Upsert(p, f) PROVE Records'
  <2>1. agenda[p] # <<>> /\ Task(p).do = "write"
    BY <1>7 DEF Upsert, At, Task
  <2>2. Subjects(Task(p)) \subseteq Everything
    BY <2>1, DoubtsOf
  <2>3. UNCHANGED <<status, marker, link, contract, invoice, count, left>>
        /\ (doubt' = doubt \/ doubt' = doubt \cup Subjects(Task(p)))
    BY <1>7 DEF Upsert
  <2>4. PICK w, k : rows' = rows \/ rows' = [rows EXCEPT ![w][k] = "active"]
    BY <1>7 DEF Upsert
  <2>5. rows \in [Workspaces -> [Keys -> {"none", "active", "expired"}]]
    BY DEF Records
  <2>6. rows' \in [Workspaces -> [Keys -> {"none", "active", "expired"}]]
    BY <2>4, <2>5
  <2> QED BY <2>2, <2>3, <2>6 DEF Records
<1>8. ASSUME NEW p \in Processes, NEW f \in Features, ExpireByID(p, f) PROVE Records'
  <2>1. rows' \in [Workspaces -> [Keys -> {"none", "active", "expired"}]]
    BY <1>8, Expiry DEF ExpireByID
  <2> QED BY <1>8, <2>1 DEF ExpireByID, Records
<1>9. ASSUME NEW p \in Processes, ExpireDefault(p) \/ RevokeContract(p) PROVE Records'
  <2>1. rows' \in [Workspaces -> [Keys -> {"none", "active", "expired"}]]
    BY <1>9, Expiry DEF ExpireDefault, RevokeContract
  <2> QED BY <1>9, <2>1 DEF ExpireDefault, RevokeContract, Records
<1>10. ASSUME NEW p \in Processes, ChangeStatus(p) PROVE Records'
  <2>1. Task(p).do = "change" /\ agenda[p] # <<>>
    BY <1>10 DEF ChangeStatus, At, Task
  <2>2. Task(p).to \in Statuses
    BY <2>1, <1>n, Kinds
  <2>3. \/ status' = [status EXCEPT ![Task(p).ws] = Task(p).to] /\ count' = Counted(Task(p))
        \/ UNCHANGED <<status, count>>
    BY <1>10 DEF ChangeStatus
  <2>4. UNCHANGED <<marker, rows, link, contract, invoice, doubt, left>>
    BY <1>10 DEF ChangeStatus
  <2>5. count' \in [Workspaces -> [closed : Nat, toldClosed : Nat, opened : Nat, toldOpened : Nat]]
    BY <2>3, CountedTyped DEF Records
  <2>6. status' \in [Workspaces -> Statuses]
    BY <2>2, <2>3 DEF Records
  <2> QED BY <2>4, <2>5, <2>6 DEF Records
<1>11. ASSUME NEW p \in Processes, WriteMarker(p) PROVE Records'
  BY <1>11 DEF WriteMarker, Records
<1>12. ASSUME NEW p \in Processes, Notify(p) PROVE Records'
  <2> DEFINE t == Task(p)
             Counts == [closed : Nat, toldClosed : Nat, opened : Nat, toldOpened : Nat]
  <2>1. count \in [Workspaces -> Counts]
    BY DEF Records
  <2>2. \A w \in Workspaces :
          /\ [count[w] EXCEPT !.toldClosed = @ + 1] \in Counts
          /\ [count[w] EXCEPT !.toldOpened = @ + 1] \in Counts
    BY <2>1
  <2> HIDE DEF Counts
  <2>3. /\ [count EXCEPT ![t.ws].toldClosed = @ + 1] \in [Workspaces -> Counts]
        /\ [count EXCEPT ![t.ws].toldOpened = @ + 1] \in [Workspaces -> Counts]
    BY <2>1, <2>2
  <2>4. count' \in [Workspaces -> Counts] /\ UNCHANGED <<data, doubt, left>>
    BY <1>12, <2>3 DEF Notify
  <2> QED BY <2>4 DEF data, Records, Counts
<1>13. ASSUME NEW p \in Processes,
              \/ SuspendOverdue(p) \/ CheckWorkspace(p) \/ FindSettled(p) \/ CheckOwed(p)
              \/ Reactivate(p)
       PROVE Records'
  BY <1>13 DEF SuspendOverdue, CheckWorkspace, FindSettled, CheckOwed, Reactivate, data, Records
<1>14. ASSUME NEW p \in Processes, StatementFails(p) \/ Crash(p) PROVE Records'
  <2>1. left.faults - 1 \in Nat /\ left' = [left EXCEPT !.faults = left.faults - 1]
    BY <1>14 DEF StatementFails, Crash, Records
  <2>2. agenda[p] # <<>> /\ UNCHANGED <<data, count>>
    BY <1>14 DEF StatementFails, Crash
  <2>3. doubt' \subseteq Everything
    BY <1>14, <2>2, DoubtsOf DEF StatementFails, Crash, Records
  <2> QED BY <2>1, <2>2, <2>3 DEF data, Records, Everything
<1>15. ASSUME NEW i \in Invoices, GoLate(i) PROVE Records'
  BY <1>15 DEF GoLate, Records
<1>16. CASE UNCHANGED vars
  BY <1>16 DEF vars, Records, Everything
<1>17. Runners \subseteq Processes /\ Requests \subseteq Processes
  BY DEF Processes
<1> QED
  BY <1>1, <1>2, <1>3, <1>4, <1>5, <1>6, <1>7, <1>8, <1>9, <1>10, <1>11, <1>12, <1>13, <1>14,
     <1>15, <1>16, <1>17
  DEF Next, RunnerStep, RequestStep, Event, SyncStep, StatusStep

LEMMA TypedStep == Typed /\ [Next]_vars => Typed'
BY AgendasStep, RecordsStep DEF Typed

LEMMA TypedInit == Init => Typed
<1> SUFFICES ASSUME Init PROVE Typed
  OBVIOUS
<1>1. agenda \in [Processes -> Seq(Tasks)]
  <2>1. <<>> \in Seq(Tasks)
    OBVIOUS
  <2> QED BY <2>1 DEF Init
<1>2. left \in [active : SUBSET Processes, late : SUBSET Invoices, pays : SUBSET Invoices,
                starts : SUBSET Contracts, ends : SUBSET Contracts,
                links : Nat, admin : Nat, faults : Nat]
  BY AccessAssumption DEF Init
<1>3. /\ status \in [Workspaces -> Statuses]
      /\ marker \in [Workspaces -> BOOLEAN]
      /\ rows \in [Workspaces -> [Keys -> {"none", "active", "expired"}]]
      /\ contract \in [Contracts -> {"none", "active", "ended"}]
      /\ invoice \in [Invoices -> {"open", "late", "paid"}]
      /\ doubt \subseteq Everything
  BY DEF Init, Statuses
<1>4. count \in [Workspaces -> [closed : Nat, toldClosed : Nat, opened : Nat, toldOpened : Nat]]
  BY DEF Init
<1>5. link \in [Companies -> Workspaces \cup {Nobody}]
  BY AccessAssumption DEF Init
<1> QED BY <1>1, <1>2, <1>3, <1>4, <1>5 DEF Typed, Agendas, Records

-----------------------------------------------------------------------------
(* Agendas stay in order, and tasks sound                                  *)

LEMMA Steps ==
  ASSUME Typed, [Next]_vars
  PROVE  \/ \E p \in Processes : Starts(p) /\ (Event(p) \/ SuspendOverdue(p))
         \/ \E p \in Processes : Syncs(p) /\ SyncStep(p)
         \/ \E p \in Processes :
              Calm(p) /\ (StatusStep(p) \/ CheckWorkspace(p) \/ FindSettled(p)
                          \/ CheckOwed(p) \/ Reactivate(p))
         \/ \E p \in Processes : StatementFails(p) \/ Crash(p)
         \/ \E i \in Invoices : GoLate(i)
         \/ UNCHANGED vars
<1>1. Runners \subseteq Processes /\ Requests \subseteq Processes
  BY DEF Processes
<1>2. ASSUME NEW r \in Runners, RunnerStep(r)
      PROVE  \/ Starts(r) /\ SuspendOverdue(r)
             \/ Calm(r) /\ (StatusStep(r) \/ CheckWorkspace(r))
  BY <1>1, <1>2, RunStarts, StatusIsCalm DEF RunnerStep
<1>3. ASSUME NEW p \in Requests, RequestStep(p)
      PROVE  \/ Syncs(p) /\ SyncStep(p)
             \/ Calm(p) /\ (StatusStep(p) \/ FindSettled(p) \/ CheckOwed(p) \/ Reactivate(p))
  BY <1>1, <1>3, SyncIsOneContracts, StatusIsCalm DEF RequestStep
<1>4. ASSUME NEW p \in Requests, Event(p)
      PROVE  Starts(p)
  BY <1>1, <1>4, EventStarts
<1> QED BY <1>1, <1>2, <1>3, <1>4 DEF Next

LEMMA OrderedTail ==
  ASSUME NEW s \in Seq(Tasks), s # <<>>, Ordered(s)
  PROVE  Ordered(Tail(s))
<1> DEFINE r == Tail(s)
<1>1. DOMAIN r = 1..(Len(s) - 1) /\ Len(s) \in Nat /\ DOMAIN s = 1..Len(s)
  OBVIOUS
<1>2. \A n \in 1..(Len(s) - 1) : r[n] = s[n + 1]
  OBVIOUS
<1> HIDE DEF r
<1> SUFFICES ASSUME NEW n \in DOMAIN r, NEW m \in 1..(n - 1)
             PROVE  /\ r[n].do \in Waiting
                    /\ r[n].do = "revoke" /\ r[m].do \in SyncTasks => r[m].con # r[n].con
  BY DEF Ordered, r
<1>3. n \in 1..(Len(s) - 1) /\ m \in 1..(Len(s) - 1)
  BY <1>1
<1>4. r[n] = s[n + 1] /\ r[m] = s[m + 1] /\ n + 1 \in DOMAIN s /\ m + 1 \in 1..(n + 1 - 1)
  BY <1>1, <1>2, <1>3
<1>5. PICK a, b : a = n + 1 /\ b = m + 1
  OBVIOUS
<1>6. a \in DOMAIN s /\ b \in 1..(a - 1)
  BY <1>4, <1>5
<1>7. s[a].do \in Waiting /\ (s[a].do = "revoke" /\ s[b].do \in SyncTasks => s[b].con # s[a].con)
  BY <1>6 DEF Ordered
<1> QED BY <1>4, <1>5, <1>7

LEMMA OrderedNext ==
  ASSUME NEW s \in Seq(Tasks), Ordered(s), NEW r \in Seq(Tasks), Len(r) = Len(s),
         \A n \in 2..Len(r) : r[n] = s[n],
         r[1].do \in SyncTasks => s[1].do \in SyncTasks /\ r[1].con = s[1].con
  PROVE  Ordered(r)
<1> SUFFICES ASSUME NEW n \in DOMAIN r, NEW m \in 1..(n - 1)
             PROVE  /\ r[n].do \in Waiting
                    /\ r[n].do = "revoke" /\ r[m].do \in SyncTasks => r[m].con # r[n].con
  BY DEF Ordered
<1>1. n \in 2..Len(r) /\ n \in DOMAIN s
  OBVIOUS
<1>2. r[n] = s[n] /\ (m = 1 \/ r[m] = s[m])
  BY <1>1
<1>3. /\ s[n].do \in Waiting
      /\ s[n].do = "revoke" /\ s[m].do \in SyncTasks => s[m].con # s[n].con
  BY <1>1 DEF Ordered
<1> QED BY <1>2, <1>3

InOrder == \A p \in Processes : Ordered(agenda[p])

LEMMA InOrderStep ==
  ASSUME Typed, InOrder, [Next]_vars
  PROVE  InOrder'
<1> SUFFICES ASSUME NEW q \in Processes
             PROVE  Ordered(agenda'[q])
  BY DEF InOrder
<1> USE DEF Typed, Agendas
<1>o. Ordered(agenda[q])
  BY DEF InOrder
<1>t. agenda[q] \in Seq(Tasks)
  OBVIOUS
<1>1. ASSUME NEW p \in Processes, Starts(p) PROVE Ordered(agenda'[q])
  BY <1>1, <1>o DEF Starts
<1>2. ASSUME NEW p \in Processes, agenda[p] # <<>>, Then(p, <<>>) PROVE Ordered(agenda'[q])
  <2>1. agenda' = [agenda EXCEPT ![p] = Tail(agenda[p])]
    BY <1>2, ThenNothing
  <2> QED BY <1>2, <2>1, <1>o, <1>t, OrderedTail
<1>3. ASSUME NEW p \in Processes, agenda[p] # <<>>, NEW t \in Tasks, Then(p, <<t>>),
             t.do \in SyncTasks => Task(p).do \in SyncTasks /\ t.con = Task(p).con
      PROVE  Ordered(agenda'[q])
  <2>1. PICK s \in Seq(Tasks) :
           /\ agenda' = [agenda EXCEPT ![p] = s]
           /\ Len(s) = Len(agenda[p])
           /\ s[1] = t
           /\ \A n \in 2..Len(s) : s[n] = agenda[p][n]
    BY <1>3, ThenOne
  <2>2. Task(p) = agenda[p][1]
    BY <1>3, NextTask
  <2>3. q = p => Ordered(s)
    BY <1>3, <2>1, <2>2, <1>o, <1>t, OrderedNext
  <2>4. agenda'[q] = IF q = p THEN s ELSE agenda[q]
    BY <2>1
  <2> QED BY <2>3, <2>4, <1>o
<1>4. ASSUME NEW p \in Processes, Syncs(p) PROVE Ordered(agenda'[q])
  BY <1>2, <1>3, <1>4 DEF Syncs
<1>5. ASSUME NEW p \in Processes, Calm(p) PROVE Ordered(agenda'[q])
  BY <1>2, <1>3, <1>5 DEF Calm
<1>6. ASSUME NEW p \in Processes, StatementFails(p) PROVE Ordered(agenda'[q])
  BY <1>2, <1>6 DEF StatementFails
<1>7. ASSUME NEW p \in Processes, Crash(p) PROVE Ordered(agenda'[q])
  <2>1. agenda' = [agenda EXCEPT ![p] = <<>>]
    BY <1>7 DEF Crash
  <2>2. Ordered(<<>>)
    BY DEF Ordered
  <2> QED BY <2>1, <2>2, <1>o
<1>8. ASSUME UNCHANGED agenda PROVE Ordered(agenda'[q])
  BY <1>8, <1>o
<1> QED BY <1>1, <1>4, <1>5, <1>6, <1>7, <1>8, Steps DEF GoLate, vars

(* What a process has to do, the task in hand and those that wait.         *)
Todo(p) == {agenda[p][n] : n \in DOMAIN agenda[p]}
Rest(p) == {agenda[p][n] : n \in 2..Len(agenda[p])}

LEMMA InHandAndRest ==
  ASSUME Typed, NEW p \in Processes, agenda[p] # <<>>
  PROVE  Todo(p) = {Task(p)} \cup Rest(p)
<1>1. agenda[p] \in Seq(Tasks) /\ Task(p) = agenda[p][1] /\ Len(agenda[p]) \in Nat \ {0}
  BY NextTask DEF Typed, Agendas
<1>2. DOMAIN agenda[p] = {1} \cup 2..Len(agenda[p])
  BY <1>1
<1> QED BY <1>1, <1>2 DEF Todo, Rest

LEMMA TodoTyped ==
  ASSUME Typed, NEW p \in Processes
  PROVE  Todo(p) \subseteq Tasks
BY DEF Todo, Typed, Agendas

LEMMA RestWaits ==
  ASSUME Typed, InOrder, NEW p \in Processes, agenda[p] # <<>>, NEW u \in Rest(p)
  PROVE  /\ u \in Tasks
         /\ u.do \in Waiting
         /\ u.do = "revoke" /\ Task(p).do \in SyncTasks => u.con # Task(p).con
<1>1. agenda[p] \in Seq(Tasks) /\ Task(p) = agenda[p][1] /\ Len(agenda[p]) \in Nat \ {0}
  BY NextTask DEF Typed, Agendas
<1>2. PICK n \in 2..Len(agenda[p]) : u = agenda[p][n]
  BY DEF Rest
<1>3. n \in DOMAIN agenda[p] /\ 1 \in 1..(n - 1)
  BY <1>1, <1>2
<1>4. u \in Tasks
  BY <1>1, <1>2
<1>5. Ordered(agenda[p])
  BY DEF InOrder
<1> QED BY <1>1, <1>2, <1>3, <1>4, <1>5 DEF Ordered

(* The lists of tasks after a step.                                        *)
LEMMA OthersTodo ==
  ASSUME Agendas, NEW p \in Processes, NEW s, agenda' = [agenda EXCEPT ![p] = s]
  PROVE  /\ \A q \in Processes \ {p} : agenda'[q] = agenda[q] /\ Todo(q)' = Todo(q)
         /\ agenda'[p] = s
         /\ Todo(p)' = {s[n] : n \in DOMAIN s}
<1>1. agenda'[p] = s /\ \A q \in Processes \ {p} : agenda'[q] = agenda[q]
  BY DEF Agendas
<1>2. ASSUME NEW q \in Processes \ {p} PROVE Todo(q)' = Todo(q)
  BY <1>1 DEF Todo
<1>3. Todo(p)' = {s[n] : n \in DOMAIN s}
  BY <1>1 DEF Todo
<1> QED BY <1>1, <1>2, <1>3

LEMMA TodoAfterNothing ==
  ASSUME Typed, NEW p \in Processes, agenda[p] # <<>>, Then(p, <<>>)
  PROVE  /\ Todo(p)' = Rest(p)
         /\ \A q \in Processes \ {p} : agenda'[q] = agenda[q] /\ Todo(q)' = Todo(q)
<1> DEFINE s == Tail(agenda[p])
<1>1. agenda' = [agenda EXCEPT ![p] = s]
  BY ThenNothing DEF Typed, Agendas
<1>2. agenda[p] \in Seq(Tasks) /\ Len(agenda[p]) \in Nat \ {0}
  BY NextTask DEF Typed, Agendas
<1>3. DOMAIN s = 1..(Len(agenda[p]) - 1) /\ \A n \in DOMAIN s : s[n] = agenda[p][n + 1]
  BY <1>2
<1> HIDE DEF s
<1>4. {s[n] : n \in DOMAIN s} = Rest(p)
  <2>1. ASSUME NEW n \in DOMAIN s PROVE s[n] \in Rest(p)
    BY <1>2, <1>3 DEF Rest
  <2>2. ASSUME NEW n \in 2..Len(agenda[p]) PROVE \E m \in DOMAIN s : s[m] = agenda[p][n]
    <3>1. n - 1 \in DOMAIN s /\ n - 1 + 1 = n
      BY <1>2, <1>3
    <3> QED BY <1>3, <3>1
  <2> QED BY <2>1, <2>2 DEF Rest
<1> QED BY <1>1, <1>4, OthersTodo DEF Typed

LEMMA TodoAfterOne ==
  ASSUME Typed, NEW p \in Processes, agenda[p] # <<>>, NEW t \in Tasks, Then(p, <<t>>)
  PROVE  /\ Todo(p)' = {t} \cup Rest(p)
         /\ Rest(p)' = Rest(p)
         /\ agenda'[p] # <<>> /\ Task(p)' = t
         /\ \A q \in Processes \ {p} : agenda'[q] = agenda[q] /\ Todo(q)' = Todo(q)
<1>1. PICK s \in Seq(Tasks) :
           /\ agenda' = [agenda EXCEPT ![p] = s]
           /\ Len(s) = Len(agenda[p])
           /\ s[1] = t
           /\ \A n \in 2..Len(s) : s[n] = agenda[p][n]
  BY ThenOne DEF Typed, Agendas
<1>2. Len(agenda[p]) \in Nat \ {0}
  BY NextTask DEF Typed, Agendas
<1>a. DOMAIN s = 1..Len(agenda[p])
  BY <1>1
<1>3. DOMAIN s = {1} \cup 2..Len(agenda[p])
  BY <1>2, <1>a
<1>4. {s[n] : n \in DOMAIN s} = {t} \cup Rest(p)
  BY <1>1, <1>3 DEF Rest
<1>5. agenda'[p] = s
  BY <1>1, OthersTodo DEF Typed
<1>6. s # <<>> /\ Head(s) = t
  BY <1>1, <1>2
<1>7. Rest(p)' = {s[n] : n \in 2..Len(s)}
  BY <1>5 DEF Rest
<1>8. Rest(p)' = Rest(p)
  BY <1>1, <1>7 DEF Rest
<1>9. Task(p)' = t
  BY <1>5, <1>6 DEF Task
<1>10. /\ \A q \in Processes \ {p} : agenda'[q] = agenda[q] /\ Todo(q)' = Todo(q)
       /\ Todo(p)' = {s[n] : n \in DOMAIN s}
  BY <1>1, OthersTodo DEF Typed
<1> QED BY <1>4, <1>5, <1>6, <1>8, <1>9, <1>10

AreSound == \A p \in Processes : \A t \in Todo(p) : Sound(t)

LEMMA StartsTodo ==
  ASSUME Typed, NEW p \in Processes, Starts(p)
  PROVE  /\ \A t \in Todo(p)' : Sound(t) /\ t.do \in Waiting \cup {"change"}
         /\ Todo(p) = {}
         /\ \A q \in Processes \ {p} : agenda'[q] = agenda[q] /\ Todo(q)' = Todo(q)
<1>1. PICK s \in Seq(Tasks) :
       /\ agenda' = [agenda EXCEPT ![p] = s]
       /\ \A n \in DOMAIN s : Sound(s[n]) /\ s[n].do \in Waiting \cup {"change"}
  BY DEF Starts
<1>2. /\ Todo(p)' = {s[n] : n \in DOMAIN s}
      /\ \A q \in Processes \ {p} : agenda'[q] = agenda[q] /\ Todo(q)' = Todo(q)
  BY <1>1, OthersTodo DEF Typed
<1>3. Todo(p) = {}
  BY DEF Starts, Todo
<1> QED BY <1>1, <1>2, <1>3

LEMMA AreSoundStep ==
  ASSUME Typed, InOrder, AreSound, DefaultIsFree, [Next]_vars
  PROVE  AreSound'
<1> SUFFICES ASSUME NEW q \in Processes, NEW u \in Todo(q)'
             PROVE  Sound(u)
  BY DEF AreSound
<1>o. \A t \in Todo(q) : Sound(t)
  BY DEF AreSound
<1>r. ASSUME NEW p \in Processes, agenda[p] # <<>>
      PROVE  /\ Sound(Task(p))
             /\ \A t \in Rest(p) : Sound(t)
  BY <1>r, InHandAndRest DEF AreSound
<1>1. ASSUME NEW p \in Processes, Starts(p) PROVE Sound(u)
  BY <1>1, <1>o, StartsTodo
<1>2. ASSUME NEW p \in Processes, agenda[p] # <<>>, Then(p, <<>>) PROVE Sound(u)
  BY <1>2, <1>o, <1>r, TodoAfterNothing
<1>3. ASSUME NEW p \in Processes, agenda[p] # <<>>, NEW t \in Tasks, Sound(t), Then(p, <<t>>)
      PROVE  Sound(u)
  BY <1>3, <1>o, <1>r, TodoAfterOne
<1>4. ASSUME NEW p \in Processes, Syncs(p) PROVE Sound(u)
  BY <1>2, <1>3, <1>4, <1>r DEF Syncs
<1>5. ASSUME NEW p \in Processes, Calm(p) PROVE Sound(u)
  BY <1>2, <1>3, <1>5 DEF Calm
<1>6. ASSUME NEW p \in Processes, StatementFails(p) PROVE Sound(u)
  BY <1>2, <1>6 DEF StatementFails
<1>7. ASSUME NEW p \in Processes, Crash(p) PROVE Sound(u)
  <2>1. /\ Todo(p)' = {<<>>[n] : n \in DOMAIN <<>>}
        /\ \A r \in Processes \ {p} : Todo(r)' = Todo(r)
    BY <1>7, OthersTodo DEF Crash, Typed
  <2>2. Todo(p)' = {}
    BY <2>1
  <2> QED BY <2>1, <2>2, <1>o
<1>8. ASSUME UNCHANGED agenda PROVE Sound(u)
  BY <1>8, <1>o DEF Todo
<1> QED BY <1>1, <1>4, <1>5, <1>6, <1>7, <1>8, Steps DEF GoLate, vars

-----------------------------------------------------------------------------
(* The tasks of syncs, of all the processes                                *)

Chores == {t \in UNION {Todo(p) : p \in Processes} : t.do \in SyncTasks}

Queue(p) == {t \in Rest(p) : t.do \in SyncTasks}

LEMMA ChoresAre ==
  ASSUME NEW t
  PROVE  t \in Chores <=> t.do \in SyncTasks /\ \E p \in Processes : t \in Todo(p)
BY DEF Chores

LEMMA ChoresTyped ==
  ASSUME Typed, NEW t \in Chores
  PROVE  t \in Tasks /\ t.do \in SyncTasks /\ t.con \in Contracts
BY ChoresAre, TodoTyped, Kinds

LEMMA SyncingIs ==
  ASSUME Agendas, NEW p \in Processes
  PROVE  Syncing(p) <=> \E t \in Todo(p) : t.do \in SyncTasks
<1>1. agenda[p] \in Seq(Tasks)
  BY DEF Agendas
<1>2. DOMAIN agenda[p] = 1..Len(agenda[p])
  BY <1>1
<1> QED BY <1>2 DEF Syncing, Todo

LEMMA QueueWaits ==
  ASSUME Typed, InOrder, NEW p \in Processes, agenda[p] # <<>>, Task(p).do \in SyncTasks,
         NEW u \in Queue(p)
  PROVE  /\ u \in Tasks
         /\ u.do \in {"sync", "revoke"}
         /\ u.con \in Contracts
         /\ u.do = "revoke" => u.con # Task(p).con
<1>1. u \in Rest(p) /\ u.do \in SyncTasks
  BY DEF Queue
<1>2. u \in Tasks /\ u.do \in Waiting /\ (u.do = "revoke" => u.con # Task(p).con)
  BY <1>1, RestWaits
<1>3. u.do \in {"sync", "revoke"}
  BY <1>1, <1>2 DEF Waiting, SyncTasks
<1> QED BY <1>1, <1>2, <1>3, Kinds

(* With nobody else at it, the tasks of syncs are those of p.              *)
LEMMA AloneChores ==
  ASSUME Typed, NEW p \in Processes, Alone(p)
  PROVE  Chores = {t \in Todo(p) : t.do \in SyncTasks}
<1>1. ASSUME NEW t \in Chores PROVE t \in Todo(p)
  <2>1. PICK q \in Processes : t \in Todo(q) /\ t.do \in SyncTasks
    BY ChoresAre
  <2>2. Syncing(q)
    BY <2>1, SyncingIs DEF Typed
  <2> QED BY <2>1, <2>2 DEF Alone
<1> QED BY <1>1, ChoresAre

LEMMA AloneInHand ==
  ASSUME Typed, NEW p \in Processes, Alone(p), agenda[p] # <<>>, Task(p).do \in SyncTasks
  PROVE  Chores = {Task(p)} \cup Queue(p)
BY AloneChores, InHandAndRest DEF Queue

LEMMA ChoresAfterOne ==
  ASSUME Typed, InOrder, NEW p \in Processes, agenda[p] # <<>>, NEW t \in Tasks,
         t.do \in SyncTasks, Then(p, <<t>>)
  PROVE  /\ Chores' \subseteq Chores \cup {t}
         /\ Alone(p) => Chores' = {t} \cup Queue(p)
         /\ \A q \in Processes \ {p} : Syncing(q)' <=> Syncing(q)
<1>1. /\ Todo(p)' = {t} \cup Rest(p)
      /\ \A q \in Processes \ {p} : agenda'[q] = agenda[q] /\ Todo(q)' = Todo(q)
  BY TodoAfterOne
<1>2. Rest(p) \subseteq Todo(p)
  BY InHandAndRest
<1>3. ASSUME NEW u \in Chores' PROVE u \in Chores \cup {t}
  <2>1. PICK q \in Processes : u \in Todo(q)' /\ u.do \in SyncTasks
    BY <1>3 DEF Chores
  <2>2. u = t \/ u \in Todo(q)
    BY <1>1, <1>2, <2>1
  <2> QED BY <2>1, <2>2, ChoresAre
<1>4. ASSUME Alone(p) PROVE Chores' = {t} \cup Queue(p)
  <2>1. ASSUME NEW u \in Chores' PROVE u \in {t} \cup Queue(p)
    <3>1. PICK q \in Processes : u \in Todo(q)' /\ u.do \in SyncTasks
      BY <2>1 DEF Chores
    <3>2. q # p => Syncing(q)
      BY <1>1, <3>1, SyncingIs DEF Typed
    <3>3. q = p
      BY <1>4, <3>2 DEF Alone
    <3> QED BY <1>1, <3>1, <3>3 DEF Queue
  <2>2. ASSUME NEW u \in {t} \cup Queue(p) PROVE u \in Chores'
    BY <1>1 DEF Chores, Queue
  <2> QED BY <2>1, <2>2
<1>5. ASSUME NEW q \in Processes \ {p} PROVE Syncing(q)' <=> Syncing(q)
  BY <1>1 DEF Syncing
<1> QED BY <1>3, <1>4, <1>5

LEMMA ChoresAfterNothing ==
  ASSUME Typed, InOrder, NEW p \in Processes, agenda[p] # <<>>, Then(p, <<>>)
  PROVE  /\ Chores' \subseteq Chores
         /\ Alone(p) => Chores' = Queue(p)
         /\ \A q \in Processes \ {p} : Syncing(q)' <=> Syncing(q)
<1>1. /\ Todo(p)' = Rest(p)
      /\ \A q \in Processes \ {p} : agenda'[q] = agenda[q] /\ Todo(q)' = Todo(q)
  BY TodoAfterNothing
<1>2. Rest(p) \subseteq Todo(p)
  BY InHandAndRest
<1>3. ASSUME NEW u \in Chores' PROVE u \in Chores
  <2>1. PICK q \in Processes : u \in Todo(q)' /\ u.do \in SyncTasks
    BY <1>3 DEF Chores
  <2>2. u \in Todo(q)
    BY <1>1, <1>2, <2>1
  <2> QED BY <2>1, <2>2, ChoresAre
<1>4. ASSUME Alone(p) PROVE Chores' = Queue(p)
  <2>1. ASSUME NEW u \in Chores' PROVE u \in Queue(p)
    <3>1. PICK q \in Processes : u \in Todo(q)' /\ u.do \in SyncTasks
      BY <2>1 DEF Chores
    <3>2. q # p => Syncing(q)
      BY <1>1, <3>1, SyncingIs DEF Typed
    <3>3. q = p
      BY <1>4, <3>2 DEF Alone
    <3> QED BY <1>1, <3>1, <3>3 DEF Queue
  <2>2. ASSUME NEW u \in Queue(p) PROVE u \in Chores'
    BY <1>1 DEF Chores, Queue
  <2> QED BY <2>1, <2>2
<1>5. ASSUME NEW q \in Processes \ {p} PROVE Syncing(q)' <=> Syncing(q)
  BY <1>1 DEF Syncing
<1> QED BY <1>3, <1>4, <1>5

(* Steps of other tasks leave them alone.                                  *)
LEMMA SameTodo ==
  ASSUME Typed, Agendas', NEW p \in Processes,
         \A q \in Processes \ {p} : agenda'[q] = agenda[q] /\ Todo(q)' = Todo(q),
         \A t : t.do \in SyncTasks => (t \in Todo(p)' <=> t \in Todo(p))
  PROVE  /\ Chores' = Chores
         /\ \A q \in Processes : Syncing(q)' <=> Syncing(q)
<1>1. \A t : t.do \in SyncTasks => \A q \in Processes : (t \in Todo(q)' <=> t \in Todo(q))
  OBVIOUS
<1>2. Chores' = Chores
  BY <1>1 DEF Chores
<1>3. ASSUME NEW q \in Processes PROVE Syncing(q)' <=> Syncing(q)
  <2>1. Syncing(q) <=> \E t \in Todo(q) : t.do \in SyncTasks
    BY SyncingIs DEF Typed
  <2>2. Syncing(q)' <=> \E t \in Todo(q)' : t.do \in SyncTasks
    <3>1. agenda'[q] \in Seq(Tasks)
      BY DEF Agendas
    <3>2. DOMAIN agenda'[q] = 1..Len(agenda'[q])
      BY <3>1
    <3> QED BY <3>2 DEF Syncing, Todo
  <2> QED BY <1>1, <2>1, <2>2
<1> QED BY <1>2, <1>3

LEMMA CalmChores ==
  ASSUME Typed, NEW p \in Processes, Calm(p)
  PROVE  /\ Chores' = Chores
         /\ \A q \in Processes : Syncing(q)' <=> Syncing(q)
<1>0. Agendas'
  BY CalmGoesOn, GoesOnTyped DEF Typed
<1>1. agenda[p] # <<>> /\ Task(p).do \notin SyncTasks
  BY DEF Calm
<1>2. Todo(p) = {Task(p)} \cup Rest(p)
  BY <1>1, InHandAndRest
<1>3. CASE Then(p, <<>>)
  <2>1. /\ Todo(p)' = Rest(p)
        /\ \A q \in Processes \ {p} : agenda'[q] = agenda[q] /\ Todo(q)' = Todo(q)
    BY <1>1, <1>3, TodoAfterNothing
  <2>2. \A t : t.do \in SyncTasks => (t \in Todo(p)' <=> t \in Todo(p))
    BY <2>1, <1>1, <1>2
  <2> QED BY <1>0, <2>1, <2>2, SameTodo
<1>4. ASSUME NEW u \in Tasks, u.do \notin SyncTasks, Then(p, <<u>>)
      PROVE  /\ Chores' = Chores
             /\ \A q \in Processes : Syncing(q)' <=> Syncing(q)
  <2>1. /\ Todo(p)' = {u} \cup Rest(p)
        /\ \A q \in Processes \ {p} : agenda'[q] = agenda[q] /\ Todo(q)' = Todo(q)
    BY <1>1, <1>4, TodoAfterOne
  <2>2. \A t : t.do \in SyncTasks => (t \in Todo(p)' <=> t \in Todo(p))
    BY <2>1, <1>1, <1>2, <1>4
  <2> QED BY <1>0, <2>1, <2>2, SameTodo
<1> QED BY <1>3, <1>4 DEF Calm

-----------------------------------------------------------------------------
(* Rows                                                                    *)

Sources == Contracts \cup {Nobody}

HasRow(w, c) == \E f \in Features : rows[w][<<c, f>>] # "none"

LEMMA Expired ==
  ASSUME Records, NEW w \in Workspaces, NEW s \in Sources, NEW fs \in SUBSET Features,
         Expire(w, s, fs)
  PROVE  /\ \A v \in Workspaces, x \in Sources :
              Active(v, x)' = IF v = w /\ x = s THEN Active(v, x) \ fs ELSE Active(v, x)
         /\ \A v \in Workspaces, x \in Sources : HasRow(v, x) => HasRow(v, x)'
         /\ \A f \in fs : rows[w][<<s, f>>] = "active" => rows'[w][<<s, f>>] = "expired"
<1>1. ASSUME NEW v \in Workspaces, NEW x \in Sources, NEW f \in Features
      PROVE  rows'[v][<<x, f>>] =
               IF v = w /\ x = s /\ f \in fs /\ rows[v][<<x, f>>] = "active" THEN "expired"
               ELSE rows[v][<<x, f>>]
  <2>1. <<x, f>> \in Keys /\ <<x, f>>[1] = x /\ <<x, f>>[2] = f
    BY DEF Keys, Sources
  <2> DEFINE new == [k \in Keys |->
                       IF k[1] = s /\ k[2] \in fs /\ rows[w][k] = "active" THEN "expired"
                       ELSE rows[w][k]]
  <2>2. rows' = [rows EXCEPT ![w] = new]
    BY DEF Expire
  <2>3. v = w => rows'[v] = new
    BY <2>2 DEF Records
  <2>4. v # w => rows'[v] = rows[v]
    BY <2>2 DEF Records
  <2>5. new[<<x, f>>] = IF x = s /\ f \in fs /\ rows[w][<<x, f>>] = "active" THEN "expired"
                        ELSE rows[w][<<x, f>>]
    BY <2>1
  <2> HIDE DEF new
  <2> QED BY <2>3, <2>4, <2>5
<1>2. ASSUME NEW v \in Workspaces, NEW x \in Sources
      PROVE  /\ Active(v, x)' = IF v = w /\ x = s THEN Active(v, x) \ fs ELSE Active(v, x)
             /\ HasRow(v, x) => HasRow(v, x)'
  BY <1>1 DEF Active, HasRow
<1>3. \A f \in fs : rows[w][<<s, f>>] = "active" => rows'[w][<<s, f>>] = "expired"
  BY <1>1
<1> QED BY <1>2, <1>3

Activate(w, s, f) == rows' = [rows EXCEPT ![w][<<s, f>>] = "active"]

LEMMA MadeActive ==
  ASSUME Records, NEW w \in Workspaces, NEW s \in Sources, NEW f \in Features,
         Activate(w, s, f)
  PROVE  /\ \A v \in Workspaces, x \in Sources :
              Active(v, x)' = IF v = w /\ x = s THEN Active(v, x) \cup {f} ELSE Active(v, x)
         /\ \A v \in Workspaces, x \in Sources :
              HasRow(v, x) \/ (v = w /\ x = s) => HasRow(v, x)'
<1>1. ASSUME NEW v \in Workspaces, NEW x \in Sources, NEW g \in Features
      PROVE  rows'[v][<<x, g>>] =
               IF v = w /\ x = s /\ g = f THEN "active" ELSE rows[v][<<x, g>>]
  <2>1. <<x, g>> \in Keys /\ <<s, f>> \in Keys
    BY DEF Keys, Sources
  <2>2. v # w => rows'[v] = rows[v]
    BY DEF Records, Activate
  <2>3. rows'[w] = [rows[w] EXCEPT ![<<s, f>>] = "active"]
    BY DEF Records, Activate
  <2>4. rows[w] \in [Keys -> {"none", "active", "expired"}]
    BY DEF Records
  <2>5. <<x, g>> = <<s, f>> <=> x = s /\ g = f
    OBVIOUS
  <2> QED BY <2>1, <2>2, <2>3, <2>4, <2>5
<1>2. ASSUME NEW v \in Workspaces, NEW x \in Sources
      PROVE  /\ Active(v, x)' = IF v = w /\ x = s THEN Active(v, x) \cup {f} ELSE Active(v, x)
             /\ HasRow(v, x) \/ (v = w /\ x = s) => HasRow(v, x)'
  BY <1>1 DEF Active, HasRow
<1> QED BY <1>2

LEMMA SameRows ==
  ASSUME UNCHANGED rows
  PROVE  /\ \A v, x : Active(v, x)' = Active(v, x)
         /\ \A v, x : HasRow(v, x) => HasRow(v, x)'
         /\ \A v : HasContract(v)' <=> HasContract(v)
BY DEF Active, HasRow, HasContract

LEMMA ActiveHasRow ==
  ASSUME NEW w, NEW s, Active(w, s) # {}
  PROVE  HasRow(w, s)
BY DEF Active, HasRow

LEMMA TaskInHand ==
  ASSUME Typed, AreSound, NEW p \in Processes, NEW do, At(p, do)
  PROVE  /\ agenda[p] # <<>> /\ Task(p).do = do
         /\ Task(p) \in Tasks /\ Sound(Task(p))
         /\ do \in SyncTasks => Task(p) \in Chores /\ Task(p).con \in Contracts
         /\ do \in SyncTasks \ {"sync"} => Task(p).ws \in Workspaces
<1>1. agenda[p] # <<>> /\ Task(p).do = do
  BY DEF At, Task
<1>2. Task(p) \in Tasks
  BY <1>1, NextTask DEF Typed, Agendas
<1>3. Task(p) \in Todo(p)
  BY <1>1, InHandAndRest
<1> QED BY <1>1, <1>2, <1>3, Kinds, ChoresAre DEF AreSound

LEMMA WriteInHand ==
  ASSUME Typed, AreSound, NEW p \in Processes, At(p, "write") \/ At(p, "list")
  PROVE  /\ agenda[p] # <<>>
         /\ Task(p).ws \in Workspaces /\ Task(p).con \in Contracts
         /\ Task(p).source \in Sources
         /\ Task(p).source = Task(p).con \/ Task(p).source = Nobody
         /\ At(p, "list") => Task(p).do = "list" /\ Task(p).grants \subseteq Features
         /\ At(p, "write") =>
              /\ Task(p).do = "write"
              /\ Task(p).new \subseteq Features /\ Task(p).old \subseteq Features
              /\ Task(p) \in [do : {"write"}, con : Contracts, ws : Workspaces,
                              source : Contracts \cup {Nobody}, new : SUBSET Features,
                              old : SUBSET Features]
<1> DEFINE t == Task(p)
<1>1. CASE At(p, "write")
  <2>1. t.do = "write" /\ t \in Tasks /\ Sound(t) /\ agenda[p] # <<>>
    BY <1>1, TaskInHand
  <2>2. t \in [do : {"write"}, con : Contracts, ws : Workspaces,
               source : Contracts \cup {Nobody}, new : SUBSET Features, old : SUBSET Features]
    BY <2>1, Kinds
  <2>3. At(p, "list") => FALSE
    BY <2>1 DEF At, Task
  <2>4. t.source \in {t.con, Nobody}
    BY <2>1 DEF Sound
  <2> QED BY <2>1, <2>2, <2>3, <2>4 DEF Sources
<1>2. CASE At(p, "list")
  <2>1. t.do = "list" /\ t \in Tasks /\ Sound(t) /\ agenda[p] # <<>>
    BY <1>2, TaskInHand
  <2>2. t \in [do : {"list"}, con : Contracts, ws : Workspaces,
               source : Contracts \cup {Nobody}, grants : SUBSET Features]
    BY <2>1, Kinds
  <2>3. At(p, "write") => FALSE
    BY <2>1 DEF At, Task
  <2>4. t.source \in {t.con, Nobody}
    BY <2>1 DEF Sound
  <2> QED BY <2>1, <2>2, <2>3, <2>4 DEF Sources
<1> QED BY <1>1, <1>2

(* Upsert either gives up, in doubt, or makes one row active.              *)
LEMMA Upserts ==
  ASSUME Typed, AreSound, NEW p \in Processes, NEW f \in Features, Upsert(p, f)
  PROVE  LET t == Task(p) IN
         /\ At(p, "write") /\ f \in t.new
         /\ UNCHANGED <<link, contract, invoice>>
         /\ \/ /\ Then(p, <<>>) /\ UNCHANGED rows
               /\ doubt' = doubt \cup {t.con, t.ws}
            \/ /\ Activate(t.ws, t.source, f)
               /\ Then(p, <<[t EXCEPT !.new = t.new \ {f}]>>)
               /\ UNCHANGED doubt
<1>1. At(p, "write")
  BY DEF Upsert
<1>2. Task(p).do = "write"
  BY <1>1 DEF At, Task
<1>3. Subjects(Task(p)) = {Task(p).con, Task(p).ws}
  BY <1>2 DEF Subjects, SyncTasks
<1> QED BY <1>1, <1>3 DEF Upsert, Activate

(* The statement that expires one of the rows that are not due.            *)
LEMMA Expires ==
  ASSUME Typed, AreSound, NEW p \in Processes, NEW f \in Features, ExpireByID(p, f)
  PROVE  LET t == Task(p) IN
         /\ At(p, "write") /\ t.new = {} /\ f \in t.old
         /\ UNCHANGED <<link, contract, invoice, doubt>>
         /\ Expire(t.ws, t.source, {f})
         /\ Then(p, <<[t EXCEPT !.old = t.old \ {f}]>>)
BY DEF ExpireByID

(* No row of a source goes away, and only features of the free product are *)
(* given by the free plan.                                                 *)
LEMMA RowsStay ==
  ASSUME Typed, AreSound, [Next]_vars
  PROVE  /\ \A v \in Workspaces, x \in Sources : HasRow(v, x) => HasRow(v, x)'
         /\ DefaultIsFree => DefaultIsFree'
<1> DEFINE Goal == /\ \A v \in Workspaces, x \in Sources : HasRow(v, x) => HasRow(v, x)'
                   /\ DefaultIsFree => DefaultIsFree'
<1>r. Records
  BY DEF Typed
<1>n. Nobody \in Sources
  BY DEF Sources
<1>0. ASSUME UNCHANGED rows PROVE Goal
  BY <1>0, SameRows DEF DefaultIsFree
<1>x. ASSUME NEW w \in Workspaces, NEW s \in Sources, NEW fs \in SUBSET Features,
             Expire(w, s, fs)
      PROVE  Goal
  <2>1. /\ \A v \in Workspaces, x \in Sources :
             Active(v, x)' = IF v = w /\ x = s THEN Active(v, x) \ fs ELSE Active(v, x)
        /\ \A v \in Workspaces, x \in Sources : HasRow(v, x) => HasRow(v, x)'
    BY <1>r, <1>x, Expired
  <2> QED BY <2>1, <1>n DEF DefaultIsFree
<1>1. ASSUME NEW p \in Processes, NEW f \in Features, Upsert(p, f) PROVE Goal
  <2> DEFINE t == Task(p)
  <2>1. /\ At(p, "write") /\ f \in t.new
        /\ \/ UNCHANGED rows
           \/ Activate(t.ws, t.source, f)
    BY <1>1, Upserts
  <2>2. t.ws \in Workspaces /\ t.source \in Sources
    BY <2>1, WriteInHand
  <2>3. t.source = Nobody => f \in Free
    BY <2>1, TaskInHand DEF Sound
  <2>4. CASE Activate(t.ws, t.source, f)
    <3>1. PICK w \in Workspaces, s \in Sources : w = t.ws /\ s = t.source
      BY <2>2
    <3>2. Activate(w, s, f)
      BY <2>4, <3>1
    <3>3. /\ \A v \in Workspaces, x \in Sources :
               Active(v, x)' = IF v = w /\ x = s THEN Active(v, x) \cup {f} ELSE Active(v, x)
          /\ \A v \in Workspaces, x \in Sources : HasRow(v, x) => HasRow(v, x)'
      BY <1>r, <3>2, MadeActive
    <3> QED BY <3>1, <3>3, <2>3, <1>n DEF DefaultIsFree
  <2> QED BY <2>1, <2>4, <1>0
<1>2. ASSUME NEW p \in Processes, NEW f \in Features, ExpireByID(p, f) PROVE Goal
  <2>1. At(p, "write") /\ Expire(Task(p).ws, Task(p).source, {f})
    BY <1>2, Expires
  <2>2. Task(p).ws \in Workspaces /\ Task(p).source \in Sources
    BY <2>1, WriteInHand
  <2>3. {f} \in SUBSET Features
    OBVIOUS
  <2> QED BY <2>1, <2>2, <2>3, <1>x
<1>3. ASSUME NEW p \in Processes, ExpireDefault(p) PROVE Goal
  <2>1. At(p, "clear") /\ Expire(Task(p).ws, Nobody, Features)
    BY <1>3 DEF ExpireDefault
  <2>2. Task(p).ws \in Workspaces
    BY <2>1, TaskInHand DEF SyncTasks
  <2> QED BY <2>1, <2>2, <1>n, <1>x
<1>4. ASSUME NEW p \in Processes, RevokeContract(p) PROVE Goal
  <2>1. At(p, "revoke") /\ Expire(Task(p).ws, Task(p).con, Features)
    BY <1>4 DEF RevokeContract
  <2>2. Task(p).ws \in Workspaces /\ Task(p).con \in Sources
    BY <2>1, TaskInHand DEF SyncTasks, Sources
  <2> QED BY <2>1, <2>2, <1>x
<1>5. ASSUME NEW p \in Processes,
             \/ SyncContract(p) \/ ListActive(p) \/ Written(p) \/ RestoreDefault(p)
             \/ GrantDefault(p)
      PROVE  UNCHANGED rows
  BY <1>5 DEF SyncContract, ListActive, Written, RestoreDefault, GrantDefault, data
<1>6. ASSUME NEW p \in Processes, Event(p) \/ SuspendOverdue(p) PROVE UNCHANGED rows
  BY <1>6 DEF Event, SuspendOverdue, InvoicePaid, ContractCreated, ContractEnded,
              SetWorkspaceLink, SetStatus, data
<1>7. ASSUME NEW p \in Processes, StatementFails(p) \/ Crash(p) PROVE UNCHANGED rows
  BY <1>7 DEF StatementFails, Crash, data
<1>8. ASSUME NEW p \in Processes, SyncStep(p) PROVE Goal
  BY <1>8, <1>0, <1>1, <1>2, <1>3, <1>4, <1>5 DEF SyncStep
<1> QED BY <1>0, <1>6, <1>7, <1>8, Steps DEF Calm, GoLate, vars

(* A grant under way has something to grant, or a row of it is there.      *)
Granted(t) ==
  /\ t.do = "write" /\ t.source # Nobody => t.new # {} \/ HasRow(t.ws, t.source)
  /\ t.do = "clear" => HasRow(t.ws, t.con)

GrantsHaveRows == \A t \in Chores : Granted(t)

(* What follows when chores go on or fall away.                            *)
LEMMA ChoresKeepRows ==
  ASSUME Typed, AreSound, GrantsHaveRows, [Next]_vars, NEW u \in Chores
  PROVE  Granted(u)'
<1>1. Granted(u)
  BY DEF GrantsHaveRows
<1>2. u \in Tasks
  BY ChoresTyped
<1>3. u.do = "write" => u.ws \in Workspaces /\ u.source \in Sources
  BY <1>2, Kinds DEF Sources
<1>4. u.do = "clear" => u.ws \in Workspaces /\ u.con \in Sources
  BY <1>2, Kinds DEF Sources, SyncTasks
<1>5. \A v \in Workspaces, x \in Sources : HasRow(v, x) => HasRow(v, x)'
  BY RowsStay
<1> QED BY <1>1, <1>3, <1>4, <1>5 DEF Granted

LEMMA GrantsHaveRowsStep ==
  ASSUME Typed, InOrder, AreSound, GrantsHaveRows, [Next]_vars
  PROVE  GrantsHaveRows'
<1> SUFFICES ASSUME NEW u \in Chores' PROVE Granted(u)'
  BY DEF GrantsHaveRows
<1>k. u \in Chores => Granted(u)'
  BY ChoresKeepRows
<1>r. \A v \in Workspaces, x \in Sources : HasRow(v, x) => HasRow(v, x)'
  BY RowsStay
<1>n. ASSUME NEW p \in Processes, agenda[p] # <<>>, Then(p, <<>>) PROVE Granted(u)'
  BY <1>n, <1>k, ChoresAfterNothing
<1>o. ASSUME NEW p \in Processes, agenda[p] # <<>>, NEW t \in Tasks, t.do \in SyncTasks,
             Granted(t)', Then(p, <<t>>)
      PROVE  Granted(u)'
  BY <1>o, <1>k, ChoresAfterOne
<1>1. ASSUME NEW p \in Processes, ListActive(p) PROVE Granted(u)'
  <2>1. At(p, "list") /\ agenda[p] # <<>>
    BY <1>1 DEF ListActive, At
  <2>2. PICK t : t = Task(p)
    OBVIOUS
  <2>3. /\ t.ws \in Workspaces /\ t.con \in Contracts /\ t.source \in Sources
        /\ t.grants \subseteq Features /\ t.do = "list"
    BY <2>1, <2>2, WriteInHand
  <2>4. t.grants # {}
    BY <2>1, <2>2, TaskInHand DEF Sound
  <2> DEFINE have == Active(t.ws, t.source)
  <2>5. PICK w : w = [do |-> "write", con |-> t.con, ws |-> t.ws, source |-> t.source,
                      new |-> t.grants \ have, old |-> have \ t.grants]
    OBVIOUS
  <2>6. Then(p, <<w>>) /\ UNCHANGED rows
    BY <1>1, <2>2, <2>5 DEF ListActive, data
  <2>7. w \in Tasks /\ w.do \in SyncTasks
    <3>1. have \subseteq Features
      BY DEF Active
    <3> QED BY <2>3, <2>5, <3>1 DEF Tasks, SyncTasks, Sources
  <2>8. Granted(w)
    <3>1. w.new = {} => HasRow(w.ws, w.source)
      <4>1. w.new = {} => have # {}
        BY <2>4, <2>5
      <4> QED BY <4>1, <2>5, ActiveHasRow
    <3> QED BY <2>5, <3>1 DEF Granted
  <2>9. Granted(w)'
    BY <2>6, <2>8, SameRows DEF Granted
  <2> QED BY <2>1, <2>6, <2>7, <2>9, <1>o
<1>2. ASSUME NEW p \in Processes, NEW f \in Features, Upsert(p, f) PROVE Granted(u)'
  <2>1. PICK t : t = Task(p)
    OBVIOUS
  <2>2. At(p, "write") /\ (Then(p, <<>>) \/ (Activate(t.ws, t.source, f)
                             /\ Then(p, <<[t EXCEPT !.new = t.new \ {f}]>>)))
    BY <1>2, <2>1, Upserts
  <2>3. /\ agenda[p] # <<>> /\ t.do = "write"
        /\ t \in [do : {"write"}, con : Contracts, ws : Workspaces,
                  source : Contracts \cup {Nobody}, new : SUBSET Features, old : SUBSET Features]
    BY <2>1, <2>2, WriteInHand
  <2>4. CASE Activate(t.ws, t.source, f) /\ Then(p, <<[t EXCEPT !.new = t.new \ {f}]>>)
    <3>1. PICK w : w = [t EXCEPT !.new = t.new \ {f}]
      OBVIOUS
    <3>2. w \in Tasks /\ w.do = "write" /\ w.do \in SyncTasks /\ w.ws = t.ws /\ w.source = t.source
      BY <2>3, <3>1 DEF Tasks, SyncTasks
    <3>3. HasRow(w.ws, w.source)'
      <4>1. t.ws \in Workspaces /\ t.source \in Sources /\ Records
        BY <2>3 DEF Sources, Typed
      <4>2. \A v \in Workspaces, x \in Sources :
              HasRow(v, x) \/ (v = t.ws /\ x = t.source) => HasRow(v, x)'
        BY <4>1, <2>4, MadeActive
      <4> QED BY <3>2, <4>1, <4>2
    <3>4. Granted(w)'
      BY <3>2, <3>3 DEF Granted
    <3> QED BY <2>3, <2>4, <3>1, <3>2, <3>4, <1>o
  <2> QED BY <2>2, <2>3, <2>4, <1>n
<1>3. ASSUME NEW p \in Processes, NEW f \in Features, ExpireByID(p, f) PROVE Granted(u)'
  <2>1. PICK t : t = Task(p)
    OBVIOUS
  <2>2. At(p, "write") /\ t.new = {} /\ Then(p, <<[t EXCEPT !.old = t.old \ {f}]>>)
    BY <1>3, <2>1, Expires
  <2>3. /\ agenda[p] # <<>> /\ t.do = "write"
        /\ t \in [do : {"write"}, con : Contracts, ws : Workspaces,
                  source : Contracts \cup {Nobody}, new : SUBSET Features, old : SUBSET Features]
    BY <2>1, <2>2, WriteInHand
  <2>4. t \in Chores
    BY <2>1, <2>2, TaskInHand DEF SyncTasks
  <2>5. PICK w : w = [t EXCEPT !.old = t.old \ {f}]
    OBVIOUS
  <2>6. w \in Tasks /\ w.do = "write" /\ w.do \in SyncTasks /\ w.ws = t.ws
        /\ w.source = t.source /\ w.new = t.new
    BY <2>3, <2>5 DEF Tasks, SyncTasks
  <2>7. Granted(t)'
    BY <2>4, ChoresKeepRows
  <2>8. Granted(w)'
    BY <2>3, <2>6, <2>7 DEF Granted
  <2> QED BY <2>2, <2>3, <2>5, <2>6, <2>8, <1>o
<1>4. ASSUME NEW p \in Processes, Written(p) PROVE Granted(u)'
  <2>1. PICK t : t = Task(p)
    OBVIOUS
  <2>2. /\ At(p, "write") /\ t.new = {} /\ UNCHANGED rows
        /\ \/ Then(p, <<>>)
           \/ t.source # Nobody /\ Then(p, <<[do |-> "clear", con |-> t.con, ws |-> t.ws]>>)
    BY <1>4, <2>1 DEF Written, data
  <2>3. /\ agenda[p] # <<>> /\ t.do = "write" /\ t.ws \in Workspaces /\ t.con \in Contracts
        /\ t.source = t.con \/ t.source = Nobody
    BY <2>1, <2>2, WriteInHand
  <2>4. Granted(t)
    BY <2>1, <2>2, TaskInHand DEF SyncTasks, GrantsHaveRows
  <2>5. CASE t.source # Nobody /\ Then(p, <<[do |-> "clear", con |-> t.con, ws |-> t.ws]>>)
    <3>1. PICK w : w = [do |-> "clear", con |-> t.con, ws |-> t.ws]
      OBVIOUS
    <3>2. w \in Tasks /\ w.do = "clear" /\ w.do \in SyncTasks /\ w.ws = t.ws /\ w.con = t.con
      BY <2>3, <3>1 DEF Tasks, SyncTasks
    <3>3. HasRow(t.ws, t.con)
      BY <2>2, <2>3, <2>4, <2>5 DEF Granted
    <3>4. Granted(w)'
      BY <2>2, <3>2, <3>3, SameRows DEF Granted
    <3> QED BY <2>3, <2>5, <3>1, <3>2, <3>4, <1>o
  <2> QED BY <2>2, <2>3, <2>5, <1>n
<1>5. ASSUME NEW t, t.do \in SyncTasks \ {"write", "clear"} PROVE Granted(t)'
  BY <1>5 DEF Granted
<1>6. ASSUME NEW p \in Processes, RevokeContract(p) PROVE Granted(u)'
  <2>1. PICK t : t = [do |-> "others", con |-> Task(p).con, ws |-> Task(p).ws]
    OBVIOUS
  <2>2. Then(p, <<t>>) /\ At(p, "revoke")
    BY <1>6, <2>1 DEF RevokeContract
  <2>3. t \in Tasks /\ t.do \in SyncTasks \ {"write", "clear"} /\ agenda[p] # <<>>
    BY <2>1, <2>2, TaskInHand DEF Tasks, SyncTasks
  <2> QED BY <2>2, <2>3, <1>5, <1>o
<1>7. ASSUME NEW p \in Processes, RestoreDefault(p) PROVE Granted(u)'
  <2>1. PICK t : t = [do |-> "default", con |-> Task(p).con, ws |-> Task(p).ws]
    OBVIOUS
  <2>2. (Then(p, <<t>>) \/ Then(p, <<>>)) /\ At(p, "others")
    BY <1>7, <2>1 DEF RestoreDefault
  <2>3. t \in Tasks /\ t.do \in SyncTasks \ {"write", "clear"} /\ agenda[p] # <<>>
    BY <2>1, <2>2, TaskInHand DEF Tasks, SyncTasks
  <2> QED BY <2>2, <2>3, <1>5, <1>o, <1>n
<1>8. ASSUME NEW p \in Processes, GrantDefault(p) PROVE Granted(u)'
  <2>1. PICK t : t = [do |-> "list", con |-> Task(p).con, ws |-> Task(p).ws,
                      source |-> Nobody, grants |-> Free]
    OBVIOUS
  <2>2. (Then(p, <<t>>) \/ Then(p, <<>>)) /\ At(p, "default")
    BY <1>8, <2>1 DEF GrantDefault
  <2>3. t \in Tasks /\ t.do \in SyncTasks \ {"write", "clear"} /\ agenda[p] # <<>>
    <3>1. Free \subseteq Features
      BY DEF Features
    <3> QED BY <2>1, <2>2, <3>1, TaskInHand DEF Tasks, SyncTasks
  <2> QED BY <2>2, <2>3, <1>5, <1>o, <1>n
<1>9. ASSUME NEW p \in Processes, SyncContract(p) PROVE Granted(u)'
  <2>1. PICK c, w : c = Task(p).con /\ w = link[CompanyOf[c]]
    OBVIOUS
  <2>2. PICK t : t = [do |-> "list", con |-> c, ws |-> w, source |-> c, grants |-> Wanted(c)]
    OBVIOUS
  <2>3. /\ At(p, "sync")
        /\ \/ w # Nobody /\ Then(p, <<Revoke(c, w)>>)
           \/ w # Nobody /\ Then(p, <<t>>)
           \/ Then(p, <<>>)
    BY <1>9, <2>1, <2>2 DEF SyncContract
  <2>4. c \in Contracts /\ agenda[p] # <<>>
    BY <2>1, <2>3, TaskInHand DEF SyncTasks
  <2>5. w \in Workspaces \cup {Nobody} /\ Wanted(c) \subseteq Features
    BY <2>1, <2>4, Companied, FeatureSets DEF Typed
  <2>6. w # Nobody => t \in Tasks /\ t.do \in SyncTasks \ {"write", "clear"}
    BY <2>2, <2>4, <2>5 DEF Tasks, SyncTasks
  <2>7. w # Nobody =>
          Revoke(c, w) \in Tasks /\ Revoke(c, w).do \in SyncTasks \ {"write", "clear"}
    BY <2>4, <2>5, RevokeIsTask DEF SyncTasks
  <2> QED BY <2>3, <2>4, <2>6, <2>7, <1>5, <1>o, <1>n
<1>10. ASSUME NEW p \in Processes, ExpireDefault(p) PROVE Granted(u)'
  BY <1>10, <1>n DEF ExpireDefault, At
<1>11. ASSUME NEW p \in Processes, Starts(p) PROVE Granted(u)'
  <2>1. PICK q \in Processes : u \in Todo(q)' /\ u.do \in SyncTasks
    BY DEF Chores
  <2>2. CASE q = p
    <3>1. u.do \in Waiting \cup {"change"}
      BY <1>11, <2>1, <2>2, StartsTodo
    <3>2. u.do \in SyncTasks \ {"write", "clear"}
      BY <2>1, <3>1 DEF Waiting, SyncTasks
    <3> QED BY <3>2, <1>5
  <2>3. CASE q # p
    BY <1>11, <2>1, <2>3, <1>k, StartsTodo, ChoresAre
  <2> QED BY <2>2, <2>3
<1>12. ASSUME NEW p \in Processes, Calm(p) PROVE Granted(u)'
  BY <1>12, <1>k, CalmChores
<1>13. ASSUME NEW p \in Processes, StatementFails(p) PROVE Granted(u)'
  BY <1>13, <1>n DEF StatementFails
<1>14. ASSUME NEW p \in Processes, Crash(p) PROVE Granted(u)'
  <2>1. PICK q \in Processes : u \in Todo(q)' /\ u.do \in SyncTasks
    BY DEF Chores
  <2>2. /\ Todo(p)' = {<<>>[n] : n \in DOMAIN <<>>}
        /\ \A r \in Processes \ {p} : Todo(r)' = Todo(r)
    BY <1>14, OthersTodo DEF Crash, Typed
  <2>3. Todo(p)' = {}
    BY <2>2
  <2> QED BY <2>1, <2>2, <2>3, <1>k, ChoresAre
<1>15. ASSUME UNCHANGED agenda PROVE Granted(u)'
  BY <1>15, <1>k DEF Chores, Todo
<1>16. ASSUME NEW p \in Processes, SyncStep(p) PROVE Granted(u)'
  BY <1>16, <1>1, <1>2, <1>3, <1>4, <1>6, <1>7, <1>8, <1>9, <1>10 DEF SyncStep
<1> QED BY <1>11, <1>12, <1>13, <1>14, <1>15, <1>16, Steps DEF GoLate, vars

-----------------------------------------------------------------------------
(* A workspace keeps its access                                            *)

AccessInv == Typed /\ InOrder /\ AreSound /\ DefaultIsFree /\ GrantsHaveRows

LEMMA AccessLost ==
  ASSUME AccessInv, [Next]_vars, NEW v \in Workspaces, HasAccess(v), ~HasAccess(v)'
  PROVE  \E c \in Contracts, f \in Features : rows'[v][<<c, f>>] = "expired"
<1> DEFINE Goal == \E c \in Contracts, f \in Features : rows'[v][<<c, f>>] = "expired"
<1> USE DEF AccessInv
<1>r. Records
  BY DEF Typed
<1>n. Nobody \in Sources /\ Contracts \subseteq Sources
  BY DEF Sources
<1>a. PICK s \in Sources : Active(v, s) # {}
  BY DEF HasAccess, Sources
<1>b. \A x \in Sources : Active(v, x)' = {}
  BY DEF HasAccess, Sources
<1>0. ASSUME UNCHANGED rows PROVE Goal
  <2>1. Active(v, s)' = Active(v, s)
    BY <1>0, SameRows
  <2> QED BY <2>1, <1>a, <1>b
<1>1. ASSUME NEW p \in Processes, NEW f \in Features, Upsert(p, f) PROVE Goal
  <2>1. PICK t : t = Task(p)
    OBVIOUS
  <2>2. At(p, "write") /\ (UNCHANGED rows \/ Activate(t.ws, t.source, f))
    BY <1>1, <2>1, Upserts
  <2>3. t.ws \in Workspaces /\ t.source \in Sources
    BY <2>1, <2>2, WriteInHand
  <2>4. CASE Activate(t.ws, t.source, f)
    <3>1. \A w \in Workspaces, x \in Sources :
            Active(w, x)' = IF w = t.ws /\ x = t.source THEN Active(w, x) \cup {f} ELSE Active(w, x)
      BY <1>r, <2>3, <2>4, MadeActive
    <3> QED BY <3>1, <1>a, <1>b
  <2> QED BY <2>2, <2>4, <1>0
<1>2. ASSUME NEW p \in Processes, NEW f \in Features, ExpireByID(p, f) PROVE Goal
  <2>1. PICK t : t = Task(p)
    OBVIOUS
  <2>2. At(p, "write") /\ f \in t.old /\ Expire(t.ws, t.source, {f})
    BY <1>2, <2>1, Expires
  <2>3. t.ws \in Workspaces /\ t.source \in Sources /\ Sound(t) /\ t.do = "write"
    BY <2>1, <2>2, WriteInHand, TaskInHand
  <2>4. t.source \in Contracts
    BY <2>2, <2>3 DEF Sound, Sources
  <2>5. /\ \A w \in Workspaces, x \in Sources :
             Active(w, x)' = IF w = t.ws /\ x = t.source THEN Active(w, x) \ {f} ELSE Active(w, x)
        /\ \A g \in {f} : rows[t.ws][<<t.source, g>>] = "active" => rows'[t.ws][<<t.source, g>>] = "expired"
    BY <1>r, <2>2, <2>3, Expired
  <2>6. v = t.ws /\ f \in Active(v, t.source)
    BY <2>5, <1>a, <1>b
  <2>7. rows'[v][<<t.source, f>>] = "expired"
    BY <2>5, <2>6 DEF Active
  <2> QED BY <2>4, <2>7
<1>3. ASSUME NEW p \in Processes, ExpireDefault(p) PROVE Goal
  <2>1. PICK t : t = Task(p)
    OBVIOUS
  <2>2. At(p, "clear") /\ Expire(t.ws, Nobody, Features)
    BY <1>3, <2>1 DEF ExpireDefault
  <2>3. t.ws \in Workspaces /\ t.con \in Contracts /\ t \in Chores /\ t.do = "clear"
    BY <2>1, <2>2, TaskInHand DEF SyncTasks
  <2>4. HasRow(t.ws, t.con)
    BY <2>3 DEF GrantsHaveRows, Granted
  <2>5. /\ \A w \in Workspaces, x \in Sources :
             Active(w, x)' = IF w = t.ws /\ x = Nobody THEN Active(w, x) \ Features ELSE Active(w, x)
        /\ \A w \in Workspaces, x \in Sources : HasRow(w, x) => HasRow(w, x)'
    BY <1>r, <1>n, <2>2, <2>3, Expired
  <2>6. v = t.ws
    BY <2>5, <1>a, <1>b
  <2>7. HasRow(v, t.con)' /\ Active(v, t.con)' = {}
    BY <2>3, <2>4, <2>5, <2>6, <1>b, <1>n
  <2>8. PICK f \in Features : rows'[v][<<t.con, f>>] # "none"
    BY <2>7 DEF HasRow
  <2>9. rows'[v][<<t.con, f>>] # "active"
    BY <2>7 DEF Active
  <2>10. rows' \in [Workspaces -> [Keys -> {"none", "active", "expired"}]]
    BY RecordsStep DEF Records
  <2>11. <<t.con, f>> \in Keys
    BY <2>3 DEF Keys
  <2> QED BY <2>3, <2>8, <2>9, <2>10, <2>11
<1>4. ASSUME NEW p \in Processes, RevokeContract(p) PROVE Goal
  <2>1. PICK t : t = Task(p)
    OBVIOUS
  <2>2. At(p, "revoke") /\ Expire(t.ws, t.con, Features)
    BY <1>4, <2>1 DEF RevokeContract
  <2>3. t.ws \in Workspaces /\ t.con \in Contracts /\ t.con \in Sources
    BY <2>1, <2>2, <1>n, TaskInHand DEF SyncTasks
  <2>5. /\ \A w \in Workspaces, x \in Sources :
             Active(w, x)' = IF w = t.ws /\ x = t.con THEN Active(w, x) \ Features ELSE Active(w, x)
        /\ \A g \in Features : rows[t.ws][<<t.con, g>>] = "active" => rows'[t.ws][<<t.con, g>>] = "expired"
    BY <1>r, <2>2, <2>3, Expired
  <2>6. v = t.ws /\ s = t.con
    BY <2>5, <1>a, <1>b
  <2>7. PICK f \in Features : rows[v][<<s, f>>] = "active"
    BY <1>a DEF Active
  <2>8. rows'[v][<<s, f>>] = "expired"
    BY <2>5, <2>6, <2>7
  <2> QED BY <2>3, <2>6, <2>8
<1>5. ASSUME NEW p \in Processes,
             \/ SyncContract(p) \/ ListActive(p) \/ Written(p) \/ RestoreDefault(p)
             \/ GrantDefault(p)
      PROVE  UNCHANGED rows
  BY <1>5 DEF SyncContract, ListActive, Written, RestoreDefault, GrantDefault, data
<1>6. ASSUME NEW p \in Processes, Event(p) \/ SuspendOverdue(p) PROVE UNCHANGED rows
  BY <1>6 DEF Event, SuspendOverdue, InvoicePaid, ContractCreated, ContractEnded,
              SetWorkspaceLink, SetStatus, data
<1>7. ASSUME NEW p \in Processes, StatementFails(p) \/ Crash(p) PROVE UNCHANGED rows
  BY <1>7 DEF StatementFails, Crash, data
<1>8. ASSUME NEW p \in Processes, SyncStep(p) PROVE Goal
  BY <1>8, <1>0, <1>1, <1>2, <1>3, <1>4, <1>5 DEF SyncStep
<1> QED BY <1>0, <1>6, <1>7, <1>8, Steps DEF Calm, GoLate, vars

LEMMA AccessInit == Init => AccessInv
<1> SUFFICES ASSUME Init PROVE AccessInv
  OBVIOUS
<1>1. Typed
  BY TypedInit
<1>2. \A p \in Processes : agenda[p] = <<>> /\ Todo(p) = {}
  BY DEF Init, Todo
<1>3. Chores = {}
  BY <1>2 DEF Chores
<1>4. DefaultIsFree
  <2> SUFFICES ASSUME NEW w \in Workspaces, NEW f \in Active(w, Nobody) PROVE f \in Free
    BY DEF DefaultIsFree
  <2>1. f \in Features /\ rows[w][<<Nobody, f>>] = "active"
    BY DEF Active
  <2>2. <<Nobody, f>> \in Keys
    BY <2>1 DEF Keys
  <2>3. rows[w] = [k \in Keys |-> IF k[1] = Nobody /\ k[2] \in Free THEN "active" ELSE "none"]
    BY DEF Init
  <2> QED BY <2>1, <2>2, <2>3
<1>5. InOrder
  BY <1>2 DEF InOrder, Ordered
<1> QED BY <1>1, <1>2, <1>3, <1>4, <1>5 DEF AccessInv, AreSound, GrantsHaveRows

LEMMA AccessStep == AccessInv /\ [Next]_vars => AccessInv'
BY TypedStep, InOrderStep, AreSoundStep, RowsStay, GrantsHaveRowsStep DEF AccessInv

LEMMA AccessInvariant == Spec => []AccessInv
BY AccessInit, AccessStep, PTL DEF Spec, Safety

(* The order of the writes of a grant and of a revocation: payments, new   *)
(* contracts, failures and crashes in the middle of them never leave a     *)
(* workspace without features; a row of a contract must have expired.      *)
THEOREM AccessIsKept == Spec => KeepsAccess
<1>1. AccessInv /\ [Next]_vars =>
        [\A w \in Workspaces :
           HasAccess(w) /\ ~HasAccess(w)' =>
             \E c \in Contracts, f \in Features : rows'[w][<<c, f>>] = "expired"]_vars
  BY AccessLost
<1> QED BY <1>1, AccessInvariant, PTL DEF Spec, Safety, KeepsAccess

-----------------------------------------------------------------------------
(* A sync that nothing disturbed leaves what is right                      *)

(* Two syncs at a time put all in doubt, until one is left.                *)
OneAtATime ==
  \A p, q \in Processes : p # q /\ Syncing(p) /\ Syncing(q) => doubt = Everything

(* A contract never gives more than it should: what is due only grows.     *)
AskedFor(t) ==
  /\ t.do = "list" /\ t.source # Nobody => t.grants \subseteq Wanted(t.source)
  /\ t.do = "write" /\ t.source # Nobody => t.new \subseteq Wanted(t.source)

OnlyWanted ==
  /\ \A w \in Workspaces, c \in Contracts : Active(w, c) \subseteq Wanted(c)
  /\ \A t \in Chores : AskedFor(t)

Granting(t, c) == t.do \in {"list", "write"} /\ t.source = c

(* A grant under way is of what the contract should give, to its           *)
(* workspace; a revocation is of a contract that has ended or moved.       *)
Due(t) ==
  /\ \A c \in Contracts \ doubt : Granting(t, c) =>
       /\ t.ws = link[CompanyOf[c]]
       /\ contract[c] # "ended"
       /\ t.do = "list" => t.grants = Wanted(c)
       /\ t.do = "write" => t.new = Wanted(c) \ Active(t.ws, c) /\ t.old \cap Wanted(c) = {}
  /\ t.do = "revoke" /\ t.con \notin doubt =>
       t.ws # link[CompanyOf[t.con]] \/ contract[t.con] = "ended"

Pending(t, c) ==
  \/ t.do = "sync" /\ t.con = c
  \/ Granting(t, c)
  \/ t.do = "revoke" /\ t.con = c /\ t.ws = link[CompanyOf[c]]

Right(c) ==
  LET w == link[CompanyOf[c]] IN
  w # Nobody /\ contract[c] # "none" =>
    Active(w, c) = IF contract[c] = "ended" THEN {} ELSE Wanted(c)

InHand == {"others", "default", "list", "write", "clear"}

(* The free plan of w will be right when the task is through.              *)
Leads(t, w) ==
  /\ t.do = "others" => (HasContract(w) => Active(w, Nobody) = {})
  /\ t.do = "default" => ~HasContract(w)
  /\ t.do = "list" /\ t.source = Nobody => ~HasContract(w)
  /\ t.do = "write" /\ t.source = Nobody =>
       ~HasContract(w) /\ t.new = Free \ Active(w, Nobody)
  /\ t.do = "write" /\ t.source # Nobody => (Active(w, t.source) \ t.old) \cup t.new # {}
  /\ t.do = "clear" => HasContract(w)

FreeIsRight(w) == Active(w, Nobody) = IF HasContract(w) THEN {} ELSE Free

GoesWell(t) == Due(t) /\ (t.do \in InHand /\ t.ws \notin doubt => Leads(t, t.ws))

ContractsAreRight ==
  \A c \in Contracts \ doubt : Right(c) \/ \E t \in Chores : Pending(t, c)

WorkspacesAreRight ==
  \A w \in Workspaces \ doubt :
    FreeIsRight(w) \/ \E t \in Chores : t.do \in InHand /\ t.ws = w

Undisturbed ==
  /\ \A t \in Chores : GoesWell(t)
  /\ ContractsAreRight
  /\ WorkspacesAreRight

SyncInv == OneAtATime /\ OnlyWanted /\ Undisturbed

LEMMA SameWanted ==
  ASSUME UNCHANGED invoice
  PROVE  \A c : Wanted(c)' = Wanted(c)
BY DEF Wanted, Paid

LEMMA Apart ==
  /\ \A c \in Contracts : c # Nobody /\ c \notin Workspaces
  /\ \A w \in Workspaces : w # Nobody /\ w \notin Contracts
BY AccessAssumption

(* Nothing is claimed of what is in doubt.                                 *)
LEMMA AllInDoubt ==
  ASSUME Agendas', doubt' = Everything
  PROVE  Undisturbed'
<1>1. Contracts \subseteq doubt' /\ Workspaces \subseteq doubt'
  BY DEF Everything
<1>2. ASSUME NEW t \in Chores' PROVE GoesWell(t)'
  <2>1. PICK q \in Processes : t \in Todo(q)' /\ t.do \in SyncTasks
    BY <1>2 DEF Chores
  <2>2. t \in Tasks
    BY <2>1 DEF Todo, Agendas
  <2>3. t.con \in Contracts
    BY <2>1, <2>2, Kinds
  <2>4. t.do \in InHand => t.ws \in Workspaces
    BY <2>2, Kinds DEF InHand, SyncTasks
  <2>5. Due(t)'
    BY <1>1, <2>3 DEF Due
  <2> QED BY <1>1, <2>4, <2>5 DEF GoesWell
<1>3. ContractsAreRight'
  BY <1>1 DEF ContractsAreRight
<1>4. WorkspacesAreRight'
  BY <1>1 DEF WorkspacesAreRight
<1> QED BY <1>2, <1>3, <1>4 DEF Undisturbed

(* Tasks that are dropped leave their subjects in doubt.                   *)
LEMMA Dropped ==
  ASSUME Typed, AreSound, Undisturbed,
         UNCHANGED <<rows, link, contract>>, \A c \in Contracts : Wanted(c)' = Wanted(c),
         doubt \subseteq doubt', Chores' \subseteq Chores,
         \A t \in Chores : t \notin Chores' => Subjects(t) \subseteq doubt'
  PROVE  Undisturbed'
<1>1. /\ \A v, x : Active(v, x)' = Active(v, x)
      /\ \A v : HasContract(v)' <=> HasContract(v)
  BY SameRows
<1>2. ASSUME NEW t \in Chores' PROVE GoesWell(t)'
  <2>1. GoesWell(t)
    BY <1>2 DEF Undisturbed
  <2>2. Due(t)'
    BY <1>1, <2>1 DEF GoesWell, Due
  <2>3. t.do \in InHand /\ t.ws \notin doubt' => Leads(t, t.ws)'
    BY <1>1, <2>1 DEF GoesWell, Leads
  <2> QED BY <2>2, <2>3 DEF GoesWell
<1>3. ASSUME NEW c \in Contracts \ doubt'
      PROVE  Right(c)' \/ \E t \in Chores' : Pending(t, c)'
  <2>1. c \notin doubt
    OBVIOUS
  <2>2. CASE Right(c)
    BY <1>1, <2>2 DEF Right
  <2>3. CASE \E t \in Chores : Pending(t, c)
    <3>1. PICK t \in Chores : Pending(t, c)
      BY <2>3
    <3>2. t.do \in SyncTasks /\ t \in Tasks
      BY ChoresTyped
    <3>3. Sound(t)
      BY ChoresAre DEF AreSound
    <3>4. t.con = c
      BY <3>1, <3>3, Apart DEF Pending, Granting, Sound
    <3>5. c \in Subjects(t)
      BY <3>2, <3>4 DEF Subjects
    <3>6. t \in Chores'
      BY <3>5
    <3> QED BY <3>1, <3>6 DEF Pending, Granting
  <2> QED BY <2>1, <2>2, <2>3 DEF Undisturbed, ContractsAreRight
<1>4. ASSUME NEW w \in Workspaces \ doubt'
      PROVE  FreeIsRight(w)' \/ \E t \in Chores' : t.do \in InHand /\ t.ws = w
  <2>1. w \notin doubt
    OBVIOUS
  <2>2. CASE FreeIsRight(w)
    BY <1>1, <2>2 DEF FreeIsRight
  <2>3. ASSUME NEW t \in Chores, t.do \in InHand, t.ws = w PROVE t \in Chores'
    <3>1. t.do \in SyncTasks /\ t.do # "sync"
      BY <2>3 DEF InHand, SyncTasks
    <3>2. w \in Subjects(t)
      BY <2>3, <3>1 DEF Subjects
    <3> QED BY <3>2
  <2> QED BY <2>1, <2>2, <2>3 DEF Undisturbed, WorkspacesAreRight
<1> QED BY <1>2, <1>3, <1>4 DEF Undisturbed, ContractsAreRight, WorkspacesAreRight

(* What a process that is alone at it knows as it takes up its task.       *)
LEMMA Before ==
  ASSUME Typed, InOrder, AreSound, Undisturbed,
         NEW p \in Processes, Alone(p), agenda[p] # <<>>, Task(p).do \in SyncTasks
  PROVE  /\ GoesWell(Task(p))
         /\ \A c \in Contracts \ doubt :
              Right(c) \/ Pending(Task(p), c) \/ \E x \in Queue(p) : Pending(x, c)
         /\ \A w \in Workspaces \ doubt :
              FreeIsRight(w) \/ (Task(p).do \in InHand /\ Task(p).ws = w)
<1>1. Chores = {Task(p)} \cup Queue(p)
  BY AloneInHand
<1>2. \A x \in Queue(p) : x.do \notin InHand
  BY QueueWaits DEF InHand
<1> QED BY <1>1, <1>2 DEF Undisturbed, ContractsAreRight, WorkspacesAreRight

SyncAssumed == Typed /\ InOrder /\ AreSound /\ DefaultIsFree /\ OnlyWanted /\ Undisturbed

(* A process that is alone at it has a task of contract c and workspace w  *)
(* in hand, and writes no rows but theirs.                                 *)
StepOf(p, c, w) ==
  /\ Alone(p) /\ agenda[p] # <<>> /\ Task(p).do \in SyncTasks
  /\ Task(p).con = c
  /\ Task(p).do \in InHand => Task(p).ws = w
  /\ UNCHANGED <<link, contract, invoice>>
  /\ doubt \subseteq doubt' \cup {c, w}
  /\ \A d \in Contracts \ {c}, v \in Workspaces : Active(v, d)' = Active(v, d)
  /\ \A v \in Workspaces \ {w}, x \in Sources : Active(v, x)' = Active(v, x)

(* It leaves the tasks of U, which will do for c and w.                    *)
Leaves(p, U, c, w) ==
  /\ Chores' = U \cup Queue(p)
  /\ \A u \in U : GoesWell(u)'
  /\ c \notin doubt' =>
       Right(c)' \/ (\E u \in U : Pending(u, c)') \/ \E x \in Queue(p) : Pending(x, c)
  /\ w \in Workspaces \ doubt' =>
       FreeIsRight(w)' \/ \E u \in U : u.do \in InHand /\ u.ws = w

LEMMA TaskStep ==
  ASSUME SyncAssumed, NEW p \in Processes, NEW c, NEW w \in Workspaces \cup {Nobody},
         NEW U, StepOf(p, c, w), Leaves(p, U, c, w)
  PROVE  Undisturbed'
<1> USE DEF SyncAssumed, StepOf, Leaves
<1>0. \A d : Wanted(d)' = Wanted(d)
  BY SameWanted
<1>1. ASSUME NEW x \in Queue(p)
      PROVE  GoesWell(x)' /\ \A d : Pending(x, d) => Pending(x, d)'
  <2>1. /\ x.do \in {"sync", "revoke"} /\ x.con \in Contracts
        /\ x.do = "revoke" => x.con # c
    BY QueueWaits
  <2>2. x \in Chores
    BY AloneInHand
  <2>3. GoesWell(x)
    BY <2>2 DEF Undisturbed
  <2>4. x.do = "revoke" /\ x.con \notin doubt' => x.con \notin doubt
    BY <2>1, Apart
  <2>5. Due(x)'
    BY <2>1, <2>3, <2>4 DEF GoesWell, Due, Granting
  <2>6. GoesWell(x)'
    BY <2>1, <2>5 DEF GoesWell, InHand
  <2>7. \A d : Pending(x, d) => Pending(x, d)'
    BY DEF Pending, Granting
  <2> QED BY <2>6, <2>7
<1>2. ASSUME NEW d \in Contracts \ doubt'
      PROVE  Right(d)' \/ \E t \in Chores' : Pending(t, d)'
  <2>1. CASE d = c
    BY <1>1, <2>1
  <2>2. CASE d # c
    <3>1. d \notin doubt
      BY <2>2, Apart
    <3>2. ~Pending(Task(p), d)
      <4>1. Task(p) \in Chores /\ Task(p).do \in SyncTasks
        BY AloneInHand
      <4>2. Sound(Task(p))
        BY <4>1, ChoresAre DEF AreSound
      <4> QED BY <2>2, <4>2, Apart DEF Pending, Granting, Sound
    <3>3. Right(d) \/ \E x \in Queue(p) : Pending(x, d)
      BY <3>1, <3>2, Before
    <3>4. CASE Right(d)
      <4>1. CompanyOf[d] \in Companies /\ link[CompanyOf[d]] \in Workspaces \cup {Nobody}
        BY Companied DEF Typed
      <4>2. PICK v : v = link[CompanyOf[d]]
        OBVIOUS
      <4>3. v \in Workspaces => Active(v, d)' = Active(v, d)
        BY <2>2
      <4>4. v \in Workspaces \cup {Nobody} /\ link'[CompanyOf[d]] = v
        BY <4>1, <4>2
      <4> QED BY <3>4, <4>2, <4>3, <4>4, <1>0 DEF Right
    <3> QED BY <1>1, <3>3, <3>4
  <2> QED BY <2>1, <2>2
<1>3. ASSUME NEW v \in Workspaces \ doubt'
      PROVE  FreeIsRight(v)' \/ \E t \in Chores' : t.do \in InHand /\ t.ws = v
  <2>1. CASE v = w
    BY <2>1
  <2>2. CASE v # w
    <3>1. c \in Contracts
      <4>1. Task(p) \in Chores
        BY AloneInHand
      <4> QED BY <4>1, ChoresTyped
    <3>2. v \notin doubt
      BY <2>2, <3>1, Apart
    <3>3. FreeIsRight(v)
      BY <2>2, <3>2, Before
    <3>4. \A x \in Sources : Active(v, x)' = Active(v, x)
      BY <2>2
    <3>5. HasContract(v)' <=> HasContract(v)
      BY <3>4 DEF HasContract, Sources
    <3> QED BY <3>3, <3>4, <3>5 DEF FreeIsRight, Sources
  <2> QED BY <2>1, <2>2
<1>4. \A t \in Chores' : GoesWell(t)'
  BY <1>1
<1> QED BY <1>2, <1>3, <1>4 DEF Undisturbed, ContractsAreRight, WorkspacesAreRight

LEMMA SyncContractStep ==
  ASSUME SyncAssumed, NEW p \in Processes, Alone(p), SyncContract(p)
  PROVE  Undisturbed'
<1> USE DEF SyncAssumed
<1>1. PICK c, w : c = Task(p).con /\ w = link[CompanyOf[c]]
  OBVIOUS
<1>2. PICK l : l = [do |-> "list", con |-> c, ws |-> w, source |-> c, grants |-> Wanted(c)]
  OBVIOUS
<1>3. /\ At(p, "sync")
      /\ \/ /\ w # Nobody /\ contract[c] = "ended"
            /\ Then(p, <<Revoke(c, w)>>) /\ doubt' = doubt \ {c}
         \/ /\ w # Nobody /\ contract[c] # "ended" /\ Wanted(c) # {}
            /\ Then(p, <<l>>) /\ doubt' = doubt \ {c, w}
         \/ /\ w = Nobody \/ (contract[c] # "ended" /\ Wanted(c) = {})
            /\ Then(p, <<>>) /\ doubt' = doubt
      /\ UNCHANGED <<rows, link, contract, invoice>>
  BY <1>1, <1>2 DEF SyncContract, SetsRight, data
<1>4. c \in Contracts /\ agenda[p] # <<>> /\ Task(p).do = "sync"
  BY <1>1, <1>3, TaskInHand DEF SyncTasks
<1>5. Task(p).do \in SyncTasks /\ Task(p).do \notin InHand
  BY <1>4 DEF SyncTasks, InHand
<1>6. w \in Workspaces \cup {Nobody} /\ Wanted(c) \subseteq Features
  BY <1>1, <1>4, Companied, FeatureSets DEF Typed
<1>7. /\ \A v, x : Active(v, x)' = Active(v, x)
      /\ \A v : HasContract(v)' <=> HasContract(v)
  BY <1>3, SameRows
<1>8. \A d : Wanted(d)' = Wanted(d)
  BY <1>3, SameWanted
<1>9. w \in Workspaces \ doubt => FreeIsRight(w)'
  BY <1>4, <1>5, <1>7, Before DEF FreeIsRight
<1>10. CASE w # Nobody /\ contract[c] = "ended" /\ Then(p, <<Revoke(c, w)>>) /\ doubt' = doubt \ {c}
  <2>1. PICK u : u = Revoke(c, w)
    OBVIOUS
  <2>2. u \in Tasks /\ u.do = "revoke" /\ u.do \in SyncTasks /\ u.con = c /\ u.ws = w
    BY <1>4, <1>6, <1>10, <2>1, RevokeIsTask DEF SyncTasks
  <2>3. Chores' = {u} \cup Queue(p)
    BY <1>4, <1>10, <2>1, <2>2, ChoresAfterOne
  <2>4. GoesWell(u)'
    BY <1>3, <1>10, <2>2 DEF GoesWell, Due, Granting, InHand
  <2>5. Pending(u, c)'
    BY <1>1, <1>3, <2>2 DEF Pending
  <2>6. w \in Workspaces \ doubt' => FreeIsRight(w)'
    BY <1>4, <1>9, <1>10, Apart
  <2>7. doubt \subseteq doubt' \cup {c, w}
    BY <1>10
  <2>8. StepOf(p, c, w)
    BY <1>1, <1>3, <1>4, <1>5, <1>7, <2>7 DEF StepOf
  <2>9. Leaves(p, {u}, c, w)
    BY <2>3, <2>4, <2>5, <2>6 DEF Leaves
  <2> QED BY <1>6, <2>8, <2>9, TaskStep
<1>11. CASE /\ w # Nobody /\ contract[c] # "ended" /\ Wanted(c) # {}
            /\ Then(p, <<l>>) /\ doubt' = doubt \ {c, w}
  <2>2. l \in Tasks /\ l.do = "list" /\ l.do \in SyncTasks /\ l.con = c /\ l.ws = w /\ l.source = c
        /\ l.grants = Wanted(c)
    BY <1>2, <1>4, <1>6, <1>11 DEF Tasks, SyncTasks
  <2>3. Chores' = {l} \cup Queue(p)
    BY <1>4, <1>11, <2>2, ChoresAfterOne
  <2>4. GoesWell(l)'
    <3>1. Due(l)'
      BY <1>1, <1>3, <1>8, <1>11, <2>2 DEF Due, Granting
    <3>2. Leads(l, l.ws)'
      BY <1>4, <2>2, Apart DEF Leads
    <3> QED BY <3>1, <3>2 DEF GoesWell
  <2>5. Pending(l, c)'
    BY <2>2 DEF Pending, Granting
  <2>6. l.do \in InHand /\ l.ws = w
    BY <2>2 DEF InHand
  <2>7. doubt \subseteq doubt' \cup {c, w}
    BY <1>11
  <2>8. StepOf(p, c, w)
    BY <1>1, <1>3, <1>4, <1>5, <1>7, <2>7 DEF StepOf
  <2>9. Leaves(p, {l}, c, w)
    BY <2>3, <2>4, <2>5, <2>6 DEF Leaves
  <2> QED BY <1>6, <2>8, <2>9, TaskStep
<1>12. CASE /\ w = Nobody \/ (contract[c] # "ended" /\ Wanted(c) = {})
            /\ Then(p, <<>>) /\ doubt' = doubt
  <2>1. Chores' = {} \cup Queue(p)
    BY <1>4, <1>12, ChoresAfterNothing
  <2>2. Right(c)'
    <3>1. CASE w = Nobody
      BY <1>1, <1>3, <3>1 DEF Right
    <3>2. CASE w # Nobody
      <4>1. Active(w, c) = {}
        BY <1>4, <1>6, <1>12, <3>2 DEF OnlyWanted
      <4>2. link'[CompanyOf[c]] = w /\ contract'[c] # "ended" /\ Wanted(c)' = {}
        BY <1>1, <1>3, <1>8, <1>12, <3>2
      <4>3. Active(w, c)' = {}
        BY <1>7, <4>1
      <4> QED BY <4>2, <4>3 DEF Right
    <3> QED BY <3>1, <3>2
  <2>3. doubt \subseteq doubt' \cup {c, w}
    BY <1>12
  <2>4. StepOf(p, c, w)
    BY <1>1, <1>3, <1>4, <1>5, <1>7, <2>3 DEF StepOf
  <2>5. Leaves(p, {}, c, w)
    BY <1>9, <1>12, <2>1, <2>2 DEF Leaves
  <2> QED BY <1>6, <2>4, <2>5, TaskStep
<1> QED BY <1>3, <1>10, <1>11, <1>12

LEMMA ListActiveStep ==
  ASSUME SyncAssumed, NEW p \in Processes, Alone(p), ListActive(p)
  PROVE  Undisturbed'
<1> USE DEF SyncAssumed
<1>1. PICK t : t = Task(p)
  OBVIOUS
<1>2. PICK have : have = Active(t.ws, t.source)
  OBVIOUS
<1>3. PICK u : u = [do |-> "write", con |-> t.con, ws |-> t.ws, source |-> t.source,
                    new |-> t.grants \ have, old |-> have \ t.grants]
  OBVIOUS
<1>4. /\ At(p, "list") /\ Then(p, <<u>>)
      /\ UNCHANGED <<rows, link, contract, invoice, doubt>>
  BY <1>1, <1>2, <1>3 DEF ListActive, data
<1>5. /\ agenda[p] # <<>> /\ t.ws \in Workspaces /\ t.con \in Contracts
      /\ t.source \in Sources /\ (t.source = t.con \/ t.source = Nobody)
      /\ t.do = "list" /\ t.grants \subseteq Features
  BY <1>1, <1>4, WriteInHand
<1>6. t.source = Nobody => t.grants = Free
  BY <1>1, <1>4, TaskInHand DEF Sound
<1>7. t.grants # {}
  BY <1>1, <1>4, TaskInHand DEF Sound
<1>8. t.do \in SyncTasks /\ t.do \in InHand
  BY <1>5 DEF SyncTasks, InHand
<1>9. /\ u \in Tasks /\ u.do \in SyncTasks /\ u.do = "write" /\ u.con = t.con /\ u.ws = t.ws
      /\ u.source = t.source /\ u.new = t.grants \ have /\ u.old = have \ t.grants
  <2>1. have \subseteq Features
    BY <1>2 DEF Active
  <2> QED BY <1>3, <1>5, <2>1 DEF Tasks, SyncTasks, Sources
<1>10. Chores' = {u} \cup Queue(p)
  BY <1>4, <1>5, <1>9, ChoresAfterOne
<1>11. /\ \A v, x : Active(v, x)' = Active(v, x)
       /\ \A v : HasContract(v)' <=> HasContract(v)
  BY <1>4, SameRows
<1>12. \A d : Wanted(d)' = Wanted(d)
  BY <1>4, SameWanted
<1>13. GoesWell(t)
  BY <1>1, <1>5, <1>8, Before
<1>14. GoesWell(u)'
  <2>1. Due(u)'
    <3> SUFFICES ASSUME NEW d \in Contracts \ doubt, t.source = d
                 PROVE  /\ u.ws = link[CompanyOf[d]] /\ contract[d] # "ended"
                        /\ u.new = Wanted(d) \ Active(u.ws, d) /\ u.old \cap Wanted(d) = {}
      BY <1>4, <1>9, <1>11, <1>12 DEF Due, Granting
    <3>1. t.ws = link[CompanyOf[d]] /\ contract[d] # "ended" /\ t.grants = Wanted(d)
      BY <1>5, <1>13 DEF GoesWell, Due, Granting
    <3> QED BY <1>2, <1>9, <3>1
  <2>2. t.ws \notin doubt => Leads(u, u.ws)'
    <3>1. u.source # Nobody => (Active(u.ws, u.source) \ u.old) \cup u.new # {}
      BY <1>2, <1>7, <1>9
    <3>2. ASSUME t.ws \notin doubt, u.source = Nobody
          PROVE  ~HasContract(u.ws) /\ u.new = Free \ Active(u.ws, Nobody)
      BY <1>2, <1>5, <1>6, <1>8, <1>9, <1>13, <3>2 DEF GoesWell, Leads
    <3> QED BY <1>9, <1>11, <3>1, <3>2 DEF Leads
  <2> QED BY <1>4, <1>9, <2>1, <2>2 DEF GoesWell
<1>15. t.con \notin doubt =>
         Right(t.con)' \/ Pending(u, t.con)' \/ \E x \in Queue(p) : Pending(x, t.con)
  <2>1. ASSUME t.con \notin doubt, Pending(t, t.con) PROVE Pending(u, t.con)'
    BY <1>5, <1>9, <2>1 DEF Pending, Granting
  <2>2. Right(t.con) => Right(t.con)'
    BY <1>4, <1>11, <1>12 DEF Right
  <2> QED BY <1>1, <1>5, <1>8, <2>1, <2>2, Before
<1>16. u.do \in InHand
  BY <1>9 DEF InHand
<1>17. StepOf(p, t.con, t.ws)
  BY <1>1, <1>4, <1>5, <1>8, <1>11 DEF StepOf
<1>18. Leaves(p, {u}, t.con, t.ws)
  BY <1>4, <1>9, <1>10, <1>14, <1>15, <1>16 DEF Leaves
<1> QED BY <1>5, <1>17, <1>18, TaskStep

LEMMA RightStays ==
  ASSUME Typed, NEW c \in Contracts, UNCHANGED <<link, contract, invoice>>,
         NEW v, v = link[CompanyOf[c]],
         v \in Workspaces => Active(v, c)' = Active(v, c)
  PROVE  Right(c) => Right(c)'
<1>1. Wanted(c)' = Wanted(c)
  BY SameWanted
<1>2. v \in Workspaces \cup {Nobody} /\ link'[CompanyOf[c]] = v
  BY Companied DEF Typed
<1> QED BY <1>1, <1>2 DEF Right

LEMMA UpsertStep ==
  ASSUME SyncAssumed, NEW p \in Processes, Alone(p), NEW f \in Features, Upsert(p, f)
  PROVE  Undisturbed'
<1> USE DEF SyncAssumed
<1>1. PICK t : t = Task(p)
  OBVIOUS
<1>2. PICK c, w, s : c = t.con /\ w = t.ws /\ s = t.source
  OBVIOUS
<1>3. PICK u : u = [t EXCEPT !.new = t.new \ {f}]
  OBVIOUS
<1>4. /\ At(p, "write") /\ f \in t.new
      /\ UNCHANGED <<link, contract, invoice>>
      /\ \/ /\ Then(p, <<>>) /\ UNCHANGED rows
            /\ doubt' = doubt \cup {c, w}
         \/ Activate(w, s, f) /\ Then(p, <<u>>) /\ UNCHANGED doubt
  BY <1>1, <1>2, <1>3, Upserts
<1>5. /\ agenda[p] # <<>> /\ w \in Workspaces /\ c \in Contracts /\ s \in Sources
      /\ s = c \/ s = Nobody
      /\ t.do = "write"
      /\ t \in [do : {"write"}, con : Contracts, ws : Workspaces,
                source : Contracts \cup {Nobody}, new : SUBSET Features, old : SUBSET Features]
  BY <1>1, <1>2, <1>4, WriteInHand
<1>6. t.do \in SyncTasks /\ t.do \in InHand
  BY <1>5 DEF SyncTasks, InHand
<1>7. Sound(t) /\ t.new \cap t.old = {}
  BY <1>1, <1>4, <1>5, TaskInHand DEF Sound
<1>8. GoesWell(t)
  BY <1>1, <1>5, <1>6, Before
<1>9. CASE Then(p, <<>>) /\ UNCHANGED rows /\ doubt' = doubt \cup {c, w}
  <2>1. Chores' = {} \cup Queue(p)
    BY <1>1, <1>5, <1>6, <1>9, ChoresAfterNothing
  <2>2. StepOf(p, c, w)
    BY <1>1, <1>2, <1>4, <1>5, <1>6, <1>9, SameRows DEF StepOf
  <2>3. Leaves(p, {}, c, w)
    BY <1>9, <2>1 DEF Leaves
  <2> QED BY <1>5, <2>2, <2>3, TaskStep
<1>10. CASE Activate(w, s, f) /\ Then(p, <<u>>) /\ UNCHANGED doubt
  <2>1. /\ u \in [do : {"write"}, con : Contracts, ws : Workspaces,
                  source : Contracts \cup {Nobody}, new : SUBSET Features, old : SUBSET Features]
        /\ u.do = "write" /\ u.con = c /\ u.ws = w /\ u.source = s
        /\ u.new = t.new \ {f} /\ u.old = t.old
    BY <1>2, <1>3, <1>5
  <2>2. u \in Tasks /\ u.do \in SyncTasks /\ u.do \in InHand
    BY <2>1 DEF Tasks, SyncTasks, InHand
  <2>3. Chores' = {u} \cup Queue(p)
    BY <1>1, <1>5, <1>6, <1>10, <2>2, ChoresAfterOne
  <2>4. \A v \in Workspaces, x \in Sources :
          Active(v, x)' = IF v = w /\ x = s THEN Active(v, x) \cup {f} ELSE Active(v, x)
    BY <1>5, <1>10, MadeActive DEF Typed
  <2>5. StepOf(p, c, w)
    <3>1. \A d \in Contracts \ {c}, v \in Workspaces : Active(v, d)' = Active(v, d)
      BY <1>5, <2>4, Apart DEF Sources
    <3>2. \A v \in Workspaces \ {w}, x \in Sources : Active(v, x)' = Active(v, x)
      BY <2>4
    <3> QED BY <1>1, <1>2, <1>4, <1>5, <1>6, <1>10, <3>1, <3>2 DEF StepOf
  <2>6. \A d : Wanted(d)' = Wanted(d)
    BY <1>4, SameWanted
  <2>7. Due(u)'
    <3> SUFFICES ASSUME NEW d \in Contracts \ doubt, s = d
                 PROVE  /\ w = link[CompanyOf[d]] /\ contract[d] # "ended"
                        /\ u.new = Wanted(d) \ Active(w, d)' /\ u.old \cap Wanted(d) = {}
      BY <1>4, <1>10, <2>1, <2>6 DEF Due, Granting
    <3>1. /\ w = link[CompanyOf[d]] /\ contract[d] # "ended"
          /\ t.new = Wanted(d) \ Active(w, d) /\ t.old \cap Wanted(d) = {}
      BY <1>2, <1>5, <1>8 DEF GoesWell, Due, Granting
    <3>2. Active(w, d)' = Active(w, d) \cup {f}
      BY <1>5, <2>4
    <3> QED BY <2>1, <3>1, <3>2
  <2>8. w \notin doubt => Leads(u, w)'
    <3>1. ASSUME s # Nobody PROVE (Active(w, s)' \ u.old) \cup u.new # {}
      BY <1>4, <1>5, <1>7, <2>1, <2>4
    <3>2. ASSUME w \notin doubt, s = Nobody
          PROVE  ~HasContract(w)' /\ u.new = Free \ Active(w, Nobody)'
      <4>1. ~HasContract(w) /\ t.new = Free \ Active(w, Nobody)
        BY <1>2, <1>5, <1>6, <1>8, <3>2 DEF GoesWell, Leads
      <4>2. Active(w, Nobody)' = Active(w, Nobody) \cup {f}
        BY <1>5, <2>4, <3>2
      <4>3. \A d \in Contracts : Active(w, d)' = Active(w, d)
        BY <1>5, <2>4, <3>2, Apart DEF Sources
      <4> QED BY <2>1, <4>1, <4>2, <4>3 DEF HasContract
    <3> QED BY <2>1, <3>1, <3>2 DEF Leads
  <2>9. GoesWell(u)'
    BY <1>10, <2>1, <2>7, <2>8 DEF GoesWell
  <2>10. c \notin doubt => Right(c)' \/ Pending(u, c)' \/ \E x \in Queue(p) : Pending(x, c)
    <3>1. CASE s = c
      BY <2>1, <3>1 DEF Pending, Granting
    <3>2. CASE s = Nobody
      <4>1. ~Pending(t, c)
        BY <1>2, <1>5, <3>2, Apart DEF Pending, Granting
      <4>2. Right(c) => Right(c)'
        <5>1. PICK v : v = link[CompanyOf[c]]
          OBVIOUS
        <5>2. v \in Workspaces => Active(v, c)' = Active(v, c)
          BY <1>5, <2>4, <3>2, Apart DEF Sources
        <5> QED BY <1>4, <1>5, <5>1, <5>2, RightStays
      <4> QED BY <1>1, <1>5, <1>6, <4>1, <4>2, Before
    <3> QED BY <1>5, <3>1, <3>2
  <2>11. Leaves(p, {u}, c, w)
    BY <1>10, <2>1, <2>2, <2>3, <2>9, <2>10 DEF Leaves
  <2> QED BY <1>5, <2>5, <2>11, TaskStep
<1> QED BY <1>4, <1>9, <1>10

LEMMA ExpireByIDStep ==
  ASSUME SyncAssumed, NEW p \in Processes, Alone(p), NEW f \in Features, ExpireByID(p, f)
  PROVE  Undisturbed'
<1> USE DEF SyncAssumed
<1>1. PICK t : t = Task(p)
  OBVIOUS
<1>2. PICK c, w : c = t.con /\ w = t.ws
  OBVIOUS
<1>3. PICK u : u = [t EXCEPT !.old = t.old \ {f}]
  OBVIOUS
<1>4. /\ At(p, "write") /\ t.new = {} /\ f \in t.old
      /\ UNCHANGED <<link, contract, invoice, doubt>>
      /\ Expire(w, t.source, {f})
      /\ Then(p, <<u>>)
  BY <1>1, <1>2, <1>3, Expires
<1>5. /\ agenda[p] # <<>> /\ w \in Workspaces /\ c \in Contracts
      /\ t.do = "write"
      /\ t \in [do : {"write"}, con : Contracts, ws : Workspaces,
                source : Contracts \cup {Nobody}, new : SUBSET Features, old : SUBSET Features]
  BY <1>1, <1>2, <1>4, WriteInHand
<1>6. t.do \in SyncTasks /\ t.do \in InHand
  BY <1>5 DEF SyncTasks, InHand
<1>7. t.source = c /\ c \in Sources /\ c # Nobody
  BY <1>1, <1>2, <1>4, <1>5, TaskInHand, Apart DEF Sound, Sources
<1>8. GoesWell(t)
  BY <1>1, <1>5, <1>6, Before
<1>9. /\ u \in [do : {"write"}, con : Contracts, ws : Workspaces,
                source : Contracts \cup {Nobody}, new : SUBSET Features, old : SUBSET Features]
      /\ u.do = "write" /\ u.con = c /\ u.ws = w /\ u.source = c
      /\ u.new = {} /\ u.old = t.old \ {f}
  BY <1>2, <1>3, <1>4, <1>5, <1>7
<1>10. u \in Tasks /\ u.do \in SyncTasks /\ u.do \in InHand
  BY <1>9 DEF Tasks, SyncTasks, InHand
<1>11. Chores' = {u} \cup Queue(p)
  BY <1>1, <1>4, <1>5, <1>6, <1>10, ChoresAfterOne
<1>12. \A v \in Workspaces, x \in Sources :
         Active(v, x)' = IF v = w /\ x = c THEN Active(v, x) \ {f} ELSE Active(v, x)
  <2>1. {f} \in SUBSET Features
    OBVIOUS
  <2> QED BY <1>4, <1>5, <1>7, <2>1, Expired DEF Typed
<1>13. StepOf(p, c, w)
  <2>1. \A d \in Contracts \ {c}, v \in Workspaces : Active(v, d)' = Active(v, d)
    BY <1>12 DEF Sources
  <2>2. \A v \in Workspaces \ {w}, x \in Sources : Active(v, x)' = Active(v, x)
    BY <1>12
  <2> QED BY <1>1, <1>2, <1>4, <1>5, <1>6, <2>1, <2>2 DEF StepOf
<1>14. \A d : Wanted(d)' = Wanted(d)
  BY <1>4, SameWanted
<1>15. Active(w, c)' = Active(w, c) \ {f}
  BY <1>5, <1>7, <1>12
<1>16. Due(u)'
  <2> SUFFICES ASSUME c \notin doubt
               PROVE  /\ w = link[CompanyOf[c]] /\ contract[c] # "ended"
                      /\ {} = Wanted(c) \ Active(w, c)' /\ u.old \cap Wanted(c) = {}
    BY <1>4, <1>9, <1>14 DEF Due, Granting
  <2>1. /\ w = link[CompanyOf[c]] /\ contract[c] # "ended"
        /\ {} = Wanted(c) \ Active(w, c) /\ t.old \cap Wanted(c) = {}
    BY <1>2, <1>4, <1>5, <1>7, <1>8 DEF GoesWell, Due, Granting
  <2> QED BY <1>4, <1>9, <1>15, <2>1
<1>17. w \notin doubt => Leads(u, w)'
  <2> SUFFICES ASSUME w \notin doubt
               PROVE  (Active(w, c)' \ u.old) \cup {} # {}
    BY <1>7, <1>9 DEF Leads
  <2>1. (Active(w, c) \ t.old) \cup {} # {}
    BY <1>2, <1>4, <1>5, <1>6, <1>7, <1>8 DEF GoesWell, Leads
  <2> QED BY <1>4, <1>9, <1>15, <2>1
<1>18. GoesWell(u)'
  BY <1>4, <1>9, <1>16, <1>17 DEF GoesWell
<1>19. Pending(u, c)'
  BY <1>9 DEF Pending, Granting
<1>20. Leaves(p, {u}, c, w)
  BY <1>9, <1>10, <1>11, <1>18, <1>19 DEF Leaves
<1> QED BY <1>5, <1>13, <1>20, TaskStep

LEMMA WrittenStep ==
  ASSUME SyncAssumed, NEW p \in Processes, Alone(p), Written(p)
  PROVE  Undisturbed'
<1> USE DEF SyncAssumed
<1>1. PICK t : t = Task(p)
  OBVIOUS
<1>2. PICK c, w : c = t.con /\ w = t.ws
  OBVIOUS
<1>3. PICK u : u = [do |-> "clear", con |-> c, ws |-> w]
  OBVIOUS
<1>4. /\ At(p, "write") /\ t.new = {} /\ t.old = {}
      /\ Then(p, IF t.source = Nobody THEN <<>> ELSE <<u>>)
      /\ UNCHANGED <<rows, link, contract, invoice, doubt>>
  BY <1>1, <1>2, <1>3 DEF Written, data
<1>5. /\ agenda[p] # <<>> /\ w \in Workspaces /\ c \in Contracts
      /\ t.source = c \/ t.source = Nobody
      /\ t.do = "write"
  BY <1>1, <1>2, <1>4, WriteInHand
<1>6. t.do \in SyncTasks /\ t.do \in InHand
  BY <1>5 DEF SyncTasks, InHand
<1>7. GoesWell(t)
  BY <1>1, <1>5, <1>6, Before
<1>8. /\ \A v, x : Active(v, x)' = Active(v, x)
      /\ \A v : HasContract(v)' <=> HasContract(v)
  BY <1>4, SameRows
<1>9. StepOf(p, c, w)
  BY <1>1, <1>2, <1>4, <1>5, <1>6, <1>8 DEF StepOf
<1>10. CASE t.source = Nobody
  <2>1. Chores' = {} \cup Queue(p)
    BY <1>1, <1>4, <1>5, <1>6, <1>10, ChoresAfterNothing
  <2>2. ~Pending(t, c)
    BY <1>5, <1>10, Apart DEF Pending, Granting
  <2>3. c \notin doubt => Right(c)' \/ \E x \in Queue(p) : Pending(x, c)
    <3>1. Right(c) => Right(c)'
      BY <1>4, <1>5, <1>8, RightStays
    <3> QED BY <1>1, <1>5, <1>6, <2>2, <3>1, Before
  <2>4. w \notin doubt => FreeIsRight(w)'
    <3> SUFFICES ASSUME w \notin doubt PROVE FreeIsRight(w)'
      OBVIOUS
    <3>1. ~HasContract(w) /\ {} = Free \ Active(w, Nobody)
      BY <1>2, <1>4, <1>5, <1>6, <1>7, <1>10 DEF GoesWell, Leads
    <3>2. Active(w, Nobody) \subseteq Free
      BY <1>5 DEF DefaultIsFree
    <3>3. Active(w, Nobody) = Free
      BY <3>1, <3>2
    <3> QED BY <1>8, <3>1, <3>3 DEF FreeIsRight
  <2>5. Leaves(p, {}, c, w)
    BY <1>4, <2>1, <2>3, <2>4 DEF Leaves
  <2> QED BY <1>5, <1>9, <2>5, TaskStep
<1>11. CASE t.source = c /\ c # Nobody
  <2>1. /\ u \in Tasks /\ u.do = "clear" /\ u.do \in SyncTasks /\ u.do \in InHand
        /\ u.con = c /\ u.ws = w
    BY <1>3, <1>5 DEF Tasks, SyncTasks, InHand
  <2>2. Then(p, <<u>>)
    BY <1>4, <1>11
  <2>3. Chores' = {u} \cup Queue(p)
    BY <1>1, <1>5, <1>6, <2>1, <2>2, ChoresAfterOne
  <2>4. GoesWell(u)'
    <3>1. Due(u)'
      BY <2>1 DEF Due, Granting
    <3>2. ASSUME w \notin doubt PROVE HasContract(w)'
      <4>1. (Active(w, c) \ {}) \cup {} # {}
        BY <1>2, <1>4, <1>5, <1>6, <1>7, <1>11, <3>2 DEF GoesWell, Leads
      <4> QED BY <1>5, <1>8, <4>1 DEF HasContract
    <3> QED BY <1>4, <2>1, <3>1, <3>2 DEF GoesWell, Leads
  <2>5. c \notin doubt => Right(c)'
    <3> SUFFICES ASSUME c \notin doubt PROVE Right(c)'
      OBVIOUS
    <3>1. /\ w = link[CompanyOf[c]] /\ contract[c] # "ended"
          /\ {} = Wanted(c) \ Active(w, c)
      BY <1>2, <1>4, <1>5, <1>7, <1>11 DEF GoesWell, Due, Granting
    <3>2. Active(w, c) = Wanted(c)
      BY <1>5, <3>1 DEF OnlyWanted
    <3>3. Right(c)
      BY <3>1, <3>2 DEF Right
    <3> QED BY <1>4, <1>5, <1>8, <3>3, RightStays
  <2>6. Leaves(p, {u}, c, w)
    BY <1>4, <2>1, <2>3, <2>4, <2>5 DEF Leaves
  <2> QED BY <1>5, <1>9, <2>6, TaskStep
<1> QED BY <1>5, <1>10, <1>11, Apart

LEMMA ExpireDefaultStep ==
  ASSUME SyncAssumed, NEW p \in Processes, Alone(p), ExpireDefault(p)
  PROVE  Undisturbed'
<1> USE DEF SyncAssumed
<1>1. PICK t : t = Task(p)
  OBVIOUS
<1>2. PICK c, w : c = t.con /\ w = t.ws
  OBVIOUS
<1>3. /\ At(p, "clear") /\ Then(p, <<>>)
      /\ Expire(w, Nobody, Features)
      /\ UNCHANGED <<link, contract, invoice, doubt>>
  BY <1>1, <1>2 DEF ExpireDefault
<1>4. agenda[p] # <<>> /\ w \in Workspaces /\ c \in Contracts /\ t.do = "clear"
  BY <1>1, <1>2, <1>3, TaskInHand DEF SyncTasks
<1>5. t.do \in SyncTasks /\ t.do \in InHand
  BY <1>4 DEF SyncTasks, InHand
<1>6. \A v \in Workspaces, x \in Sources :
        Active(v, x)' = IF v = w /\ x = Nobody THEN Active(v, x) \ Features ELSE Active(v, x)
  <2>1. Features \in SUBSET Features /\ Nobody \in Sources
    BY DEF Sources
  <2> QED BY <1>3, <1>4, <2>1, Expired DEF Typed
<1>7. \A v \in Workspaces, d \in Contracts : Active(v, d)' = Active(v, d)
  BY <1>6, Apart DEF Sources
<1>8. StepOf(p, c, w)
  <2>1. \A v \in Workspaces \ {w}, x \in Sources : Active(v, x)' = Active(v, x)
    BY <1>6
  <2> QED BY <1>1, <1>2, <1>3, <1>4, <1>5, <1>7, <2>1 DEF StepOf
<1>9. Chores' = {} \cup Queue(p)
  BY <1>1, <1>3, <1>4, <1>5, ChoresAfterNothing
<1>10. c \notin doubt => Right(c)' \/ \E x \in Queue(p) : Pending(x, c)
  <2>1. Right(c) => Right(c)'
    BY <1>3, <1>4, <1>7, RightStays
  <2>2. ~Pending(t, c)
    BY <1>4 DEF Pending, Granting
  <2> QED BY <1>1, <1>4, <1>5, <2>1, <2>2, Before
<1>11. w \notin doubt => FreeIsRight(w)'
  <2> SUFFICES ASSUME w \notin doubt PROVE FreeIsRight(w)'
    OBVIOUS
  <2>1. HasContract(w)
    BY <1>1, <1>2, <1>4, <1>5, Before DEF GoesWell, Leads
  <2>2. HasContract(w)'
    BY <1>4, <1>7, <2>1 DEF HasContract
  <2>3. Active(w, Nobody)' = Active(w, Nobody) \ Features
    BY <1>4, <1>6 DEF Sources
  <2>4. Active(w, Nobody)' = {}
    BY <2>3 DEF Active
  <2> QED BY <2>2, <2>4 DEF FreeIsRight
<1>12. Leaves(p, {}, c, w)
  BY <1>3, <1>9, <1>10, <1>11 DEF Leaves
<1> QED BY <1>4, <1>8, <1>12, TaskStep

LEMMA RevokeContractStep ==
  ASSUME SyncAssumed, NEW p \in Processes, Alone(p), RevokeContract(p)
  PROVE  Undisturbed'
<1> USE DEF SyncAssumed
<1>1. PICK t : t = Task(p)
  OBVIOUS
<1>2. PICK c, w : c = t.con /\ w = t.ws
  OBVIOUS
<1>3. PICK u : u = [do |-> "others", con |-> c, ws |-> w]
  OBVIOUS
<1>4. /\ At(p, "revoke") /\ Then(p, <<u>>)
      /\ Expire(w, c, Features)
      /\ UNCHANGED <<link, contract, invoice, doubt>>
  BY <1>1, <1>2, <1>3 DEF RevokeContract
<1>5. agenda[p] # <<>> /\ w \in Workspaces /\ c \in Contracts /\ t.do = "revoke"
  BY <1>1, <1>2, <1>4, TaskInHand DEF SyncTasks
<1>6. t.do \in SyncTasks /\ t.do \notin InHand /\ c \in Sources /\ Nobody \in Sources
      /\ c # Nobody
  BY <1>5, Apart DEF SyncTasks, InHand, Sources
<1>7. \A v \in Workspaces, x \in Sources :
        Active(v, x)' = IF v = w /\ x = c THEN Active(v, x) \ Features ELSE Active(v, x)
  <2>1. Features \in SUBSET Features
    OBVIOUS
  <2> QED BY <1>4, <1>5, <1>6, <2>1, Expired DEF Typed
<1>8. StepOf(p, c, w)
  <2>1. \A d \in Contracts \ {c}, v \in Workspaces : Active(v, d)' = Active(v, d)
    BY <1>7 DEF Sources
  <2>2. \A v \in Workspaces \ {w}, x \in Sources : Active(v, x)' = Active(v, x)
    BY <1>7
  <2> QED BY <1>1, <1>2, <1>4, <1>5, <1>6, <2>1, <2>2 DEF StepOf
<1>9. /\ u \in Tasks /\ u.do = "others" /\ u.do \in SyncTasks /\ u.do \in InHand
      /\ u.con = c /\ u.ws = w
  BY <1>3, <1>5 DEF Tasks, SyncTasks, InHand
<1>10. Chores' = {u} \cup Queue(p)
  BY <1>1, <1>4, <1>5, <1>6, <1>9, ChoresAfterOne
<1>11. GoesWell(u)'
  <2>1. Due(u)'
    BY <1>9 DEF Due, Granting
  <2>2. ASSUME w \notin doubt, HasContract(w)' PROVE Active(w, Nobody)' = {}
    <3>1. HasContract(w)
      <4>1. PICK d \in Contracts : Active(w, d)' # {}
        BY <2>2 DEF HasContract
      <4>2. Active(w, d) # {}
        BY <1>5, <1>7, <4>1 DEF Sources
      <4> QED BY <4>2 DEF HasContract
    <3>2. FreeIsRight(w)
      BY <1>1, <1>5, <1>6, <2>2, Before
    <3>3. Active(w, Nobody)' = Active(w, Nobody)
      BY <1>5, <1>6, <1>7
    <3> QED BY <3>1, <3>2, <3>3 DEF FreeIsRight
  <2> QED BY <1>4, <1>9, <2>1, <2>2 DEF GoesWell, Leads
<1>12. c \notin doubt => Right(c)' \/ \E x \in Queue(p) : Pending(x, c)
  <2> SUFFICES ASSUME c \notin doubt
               PROVE  Right(c)' \/ \E x \in Queue(p) : Pending(x, c)
    OBVIOUS
  <2>1. PICK v : v = link[CompanyOf[c]]
    OBVIOUS
  <2>2. CASE v = w
    <3>1. contract[c] = "ended"
      BY <1>1, <1>2, <1>5, <1>6, <2>1, <2>2, Before DEF GoesWell, Due
    <3>2. Active(w, c)' = Active(w, c) \ Features
      BY <1>5, <1>6, <1>7
    <3>3. Active(w, c)' = {}
      BY <3>2 DEF Active
    <3>4. link'[CompanyOf[c]] = w /\ contract'[c] = "ended"
      BY <1>4, <2>1, <2>2, <3>1
    <3> QED BY <3>3, <3>4 DEF Right
  <2>3. CASE v # w
    <3>1. v \in Workspaces => Active(v, c)' = Active(v, c)
      BY <1>6, <1>7, <2>3
    <3>2. Right(c) => Right(c)'
      BY <1>4, <1>5, <2>1, <3>1, RightStays
    <3>3. ~Pending(t, c)
      BY <1>2, <1>5, <2>1, <2>3 DEF Pending, Granting
    <3> QED BY <1>1, <1>5, <1>6, <3>2, <3>3, Before
  <2> QED BY <2>2, <2>3
<1>13. Leaves(p, {u}, c, w)
  BY <1>4, <1>9, <1>10, <1>11, <1>12 DEF Leaves
<1> QED BY <1>5, <1>8, <1>13, TaskStep

LEMMA RestoreDefaultStep ==
  ASSUME SyncAssumed, NEW p \in Processes, Alone(p), RestoreDefault(p)
  PROVE  Undisturbed'
<1> USE DEF SyncAssumed
<1>1. PICK t : t = Task(p)
  OBVIOUS
<1>2. PICK c, w : c = t.con /\ w = t.ws
  OBVIOUS
<1>3. PICK u : u = [do |-> "default", con |-> c, ws |-> w]
  OBVIOUS
<1>4. /\ At(p, "others") /\ Then(p, IF HasContract(w) THEN <<>> ELSE <<u>>)
      /\ UNCHANGED <<rows, link, contract, invoice, doubt>>
  BY <1>1, <1>2, <1>3 DEF RestoreDefault, data
<1>5. agenda[p] # <<>> /\ w \in Workspaces /\ c \in Contracts /\ t.do = "others"
  BY <1>1, <1>2, <1>4, TaskInHand DEF SyncTasks
<1>6. t.do \in SyncTasks /\ t.do \in InHand
  BY <1>5 DEF SyncTasks, InHand
<1>7. /\ \A v, x : Active(v, x)' = Active(v, x)
      /\ \A v : HasContract(v)' <=> HasContract(v)
  BY <1>4, SameRows
<1>8. StepOf(p, c, w)
  BY <1>1, <1>2, <1>4, <1>5, <1>6, <1>7 DEF StepOf
<1>9. c \notin doubt => Right(c)' \/ \E x \in Queue(p) : Pending(x, c)
  <2>1. Right(c) => Right(c)'
    BY <1>4, <1>5, <1>7, RightStays
  <2>2. ~Pending(t, c)
    BY <1>5 DEF Pending, Granting
  <2> QED BY <1>1, <1>5, <1>6, <2>1, <2>2, Before
<1>10. CASE HasContract(w)
  <2>1. Chores' = {} \cup Queue(p)
    BY <1>1, <1>4, <1>5, <1>6, <1>10, ChoresAfterNothing
  <2>2. w \notin doubt => Active(w, Nobody) = {}
    BY <1>1, <1>2, <1>5, <1>6, <1>10, Before DEF GoesWell, Leads
  <2>3. w \notin doubt => FreeIsRight(w)'
    BY <1>7, <1>10, <2>2 DEF FreeIsRight
  <2>4. Leaves(p, {}, c, w)
    BY <1>4, <1>9, <2>1, <2>3 DEF Leaves
  <2> QED BY <1>5, <1>8, <2>4, TaskStep
<1>11. CASE ~HasContract(w)
  <2>1. /\ u \in Tasks /\ u.do = "default" /\ u.do \in SyncTasks /\ u.do \in InHand
        /\ u.con = c /\ u.ws = w
    BY <1>3, <1>5 DEF Tasks, SyncTasks, InHand
  <2>2. Then(p, <<u>>)
    BY <1>4, <1>11
  <2>3. Chores' = {u} \cup Queue(p)
    BY <1>1, <1>5, <1>6, <2>1, <2>2, ChoresAfterOne
  <2>4. GoesWell(u)'
    BY <1>7, <1>11, <2>1 DEF GoesWell, Due, Granting, Leads
  <2>5. Leaves(p, {u}, c, w)
    BY <1>4, <1>9, <2>1, <2>3, <2>4 DEF Leaves
  <2> QED BY <1>5, <1>8, <2>5, TaskStep
<1> QED BY <1>10, <1>11

LEMMA GrantDefaultStep ==
  ASSUME SyncAssumed, NEW p \in Processes, Alone(p), GrantDefault(p)
  PROVE  Undisturbed'
<1> USE DEF SyncAssumed
<1>1. PICK t : t = Task(p)
  OBVIOUS
<1>2. PICK c, w : c = t.con /\ w = t.ws
  OBVIOUS
<1>3. PICK u : u = [do |-> "list", con |-> c, ws |-> w, source |-> Nobody, grants |-> Free]
  OBVIOUS
<1>4. /\ At(p, "default")
      /\ \/ HasContract(w) /\ Then(p, <<>>) /\ doubt' = doubt
         \/ ~HasContract(w) /\ Then(p, <<u>>) /\ doubt' = doubt \ {w}
      /\ UNCHANGED <<rows, link, contract, invoice>>
  BY <1>1, <1>2, <1>3 DEF GrantDefault, SetsRight, data
<1>5. agenda[p] # <<>> /\ w \in Workspaces /\ c \in Contracts /\ t.do = "default"
  BY <1>1, <1>2, <1>4, TaskInHand DEF SyncTasks
<1>6. t.do \in SyncTasks /\ t.do \in InHand
  BY <1>5 DEF SyncTasks, InHand
<1>7. /\ \A v, x : Active(v, x)' = Active(v, x)
      /\ \A v : HasContract(v)' <=> HasContract(v)
  BY <1>4, SameRows
<1>8. StepOf(p, c, w)
  BY <1>1, <1>2, <1>4, <1>5, <1>6, <1>7 DEF StepOf
<1>9. c \notin doubt => Right(c)' \/ \E x \in Queue(p) : Pending(x, c)
  <2>1. Right(c) => Right(c)'
    BY <1>4, <1>5, <1>7, RightStays
  <2>2. ~Pending(t, c)
    BY <1>5 DEF Pending, Granting
  <2> QED BY <1>1, <1>5, <1>6, <2>1, <2>2, Before
<1>10. CASE HasContract(w) /\ Then(p, <<>>) /\ doubt' = doubt
  <2>1. Chores' = {} \cup Queue(p)
    BY <1>1, <1>5, <1>6, <1>10, ChoresAfterNothing
  <2>2. w \in doubt
    BY <1>1, <1>2, <1>5, <1>6, <1>10, Before DEF GoesWell, Leads
  <2>4. Leaves(p, {}, c, w)
    BY <1>9, <1>10, <2>1, <2>2 DEF Leaves
  <2> QED BY <1>5, <1>8, <2>4, TaskStep
<1>11. CASE ~HasContract(w) /\ Then(p, <<u>>) /\ doubt' = doubt \ {w}
  <2>1. /\ u \in Tasks /\ u.do = "list" /\ u.do \in SyncTasks /\ u.do \in InHand
        /\ u.con = c /\ u.ws = w /\ u.source = Nobody
    <3>1. Free \subseteq Features
      BY DEF Features
    <3> QED BY <1>3, <1>5, <3>1 DEF Tasks, SyncTasks, InHand
  <2>3. Chores' = {u} \cup Queue(p)
    BY <1>1, <1>5, <1>6, <1>11, <2>1, ChoresAfterOne
  <2>4. GoesWell(u)'
    <3>1. Due(u)'
      BY <2>1, Apart DEF Due, Granting
    <3> QED BY <1>7, <1>11, <2>1, <3>1 DEF GoesWell, Leads
  <2>5. c \notin doubt' => c \notin doubt
    BY <1>5, <1>11, Apart
  <2>6. Leaves(p, {u}, c, w)
    BY <1>9, <2>1, <2>3, <2>4, <2>5 DEF Leaves
  <2> QED BY <1>5, <1>8, <2>6, TaskStep
<1> QED BY <1>4, <1>10, <1>11

-----------------------------------------------------------------------------
(* Events begin syncs, and failures end them                               *)

(* With nobody at a sync, a process takes up a call.                       *)
LEMMA FreshChores ==
  ASSUME Typed, NEW p \in Processes, Alone(p), Starts(p)
  PROVE  /\ Chores = {}
         /\ Chores' = {t \in Todo(p)' : t.do \in SyncTasks}
<1>1. /\ \A t \in Todo(p)' : Sound(t) /\ t.do \in Waiting \cup {"change"}
      /\ Todo(p) = {}
      /\ \A q \in Processes \ {p} : agenda'[q] = agenda[q] /\ Todo(q)' = Todo(q)
  BY StartsTodo
<1>2. Chores = {}
  BY <1>1, AloneChores
<1>3. \A q \in Processes \ {p} : \A t \in Todo(q) : t.do \notin SyncTasks
  BY SyncingIs DEF Alone, Typed
<1>4. ASSUME NEW t PROVE t \in Chores' <=> t \in Todo(p)' /\ t.do \in SyncTasks
  BY <1>1, <1>3 DEF Chores
<1> QED BY <1>2, <1>4

LEMMA NoChores ==
  ASSUME Undisturbed, Chores = {}
  PROVE  /\ \A c \in Contracts \ doubt : Right(c)
         /\ \A w \in Workspaces \ doubt : FreeIsRight(w)
BY DEF Undisturbed, ContractsAreRight, WorkspacesAreRight

(* The tasks that make it right again after an event.                      *)
LEMMA EventStep ==
  ASSUME SyncAssumed, NEW p \in Processes, Alone(p), Starts(p),
         UNCHANGED <<rows, doubt>>,
         \A t \in Todo(p)' : t.do \in {"sync", "revoke", "settled"},
         \A t \in Todo(p)' : t.do = "revoke" =>
           t.ws # link'[CompanyOf[t.con]] \/ contract'[t.con] = "ended",
         \A c \in Contracts : (Right(c) => Right(c)') \/ Sync(c) \in Todo(p)'
  PROVE  Undisturbed'
<1> USE DEF SyncAssumed
<1>1. Chores = {} /\ Chores' = {t \in Todo(p)' : t.do \in SyncTasks}
  BY FreshChores
<1>2. /\ \A c \in Contracts \ doubt : Right(c)
      /\ \A w \in Workspaces \ doubt : FreeIsRight(w)
  BY <1>1, NoChores
<1>3. ASSUME NEW t \in Chores' PROVE GoesWell(t)'
  BY <1>1, <1>3 DEF GoesWell, Due, Granting, InHand, SyncTasks
<1>4. ASSUME NEW c \in Contracts \ doubt'
      PROVE  Right(c)' \/ \E t \in Chores' : Pending(t, c)'
  <2>1. CASE Sync(c) \in Todo(p)'
    <3>1. Sync(c).do = "sync" /\ Sync(c).con = c /\ Sync(c).do \in SyncTasks
      BY SyncIsTask DEF SyncTasks
    <3>2. PICK t : t = Sync(c)
      OBVIOUS
    <3>3. Pending(t, c)' /\ t \in Chores'
      BY <1>1, <2>1, <3>1, <3>2 DEF Pending
    <3> QED BY <3>3
  <2>2. CASE Sync(c) \notin Todo(p)'
    BY <1>2, <2>2
  <2> QED BY <2>1, <2>2
<1>5. ASSUME NEW w \in Workspaces \ doubt' PROVE FreeIsRight(w)'
  BY <1>2, SameRows DEF FreeIsRight
<1> QED BY <1>3, <1>4, <1>5 DEF Undisturbed, ContractsAreRight, WorkspacesAreRight

LEMMA TodoIs ==
  ASSUME Typed, NEW p \in Processes, NEW s, agenda' = [agenda EXCEPT ![p] = s]
  PROVE  Todo(p)' = {s[n] : n \in DOMAIN s}
<1>1. agenda'[p] = s
  BY DEF Typed, Agendas
<1> QED BY <1>1 DEF Todo

LEMMA InvoicePaidStep ==
  ASSUME SyncAssumed, NEW p \in Processes, Alone(p), NEW i \in Invoices, InvoicePaid(p, i)
  PROVE  Undisturbed'
<1> USE DEF SyncAssumed
<1> DEFINE a == ContractOf[i]
           t == [do |-> "settled", inv |-> i]
           s == (IF i \in Deliveries THEN <<>> ELSE <<Sync(a)>>) \o <<t>>
<1>1. /\ invoice' = [invoice EXCEPT ![i] = "paid"]
      /\ agenda' = [agenda EXCEPT ![p] = s]
      /\ doubt' = doubt
      /\ UNCHANGED <<rows, link, contract>>
  BY DEF InvoicePaid, EventBy
<1>2. a \in Contracts /\ Sync(a) \in Tasks /\ Sync(a).do = "sync" /\ t.do = "settled"
  BY SyncIsTask, AccessAssumption
<1>3. /\ \A n \in DOMAIN s : s[n] \in {Sync(a), t}
      /\ i \notin Deliveries => s[1] = Sync(a) /\ 1 \in DOMAIN s
  OBVIOUS
<1>s. PICK r : r = s
  OBVIOUS
<1> HIDE DEF a, t, s
<1>4. Todo(p)' = {s[n] : n \in DOMAIN s}
  <2>1. agenda' = [agenda EXCEPT ![p] = r]
    BY <1>1, <1>s
  <2>2. Todo(p)' = {r[n] : n \in DOMAIN r}
    BY <2>1, TodoIs
  <2> QED BY <2>2, <1>s
<1>5. \A u \in Todo(p)' : u.do \in {"sync", "settled"}
  BY <1>2, <1>3, <1>4
<1>6. i \notin Deliveries => Sync(a) \in Todo(p)'
  BY <1>3, <1>4
<1>7. ASSUME NEW c \in Contracts, c # a \/ i \in Deliveries
      PROVE  Right(c) => Right(c)'
  <2>1. \A j \in Invoices \ Deliveries : ContractOf[j] = c => invoice'[j] = invoice[j]
    BY <1>1, <1>7 DEF Records, Typed, a
  <2>2. Wanted(c)' = Wanted(c)
    BY <2>1 DEF Wanted, Paid
  <2>3. \A v, x : Active(v, x)' = Active(v, x)
    BY <1>1, SameRows
  <2> QED BY <1>1, <2>2, <2>3 DEF Right
<1>8. \A c \in Contracts : (Right(c) => Right(c)') \/ Sync(c) \in Todo(p)'
  BY <1>6, <1>7
<1>9. Starts(p)
  BY PaymentStarts
<1> QED BY <1>1, <1>5, <1>8, <1>9, EventStep

LEMMA ContractBegunOrEnded ==
  ASSUME SyncAssumed, NEW p \in Processes, Alone(p), NEW c \in Contracts,
         ContractCreated(p, c) \/ ContractEnded(p, c)
  PROVE  Undisturbed'
<1> USE DEF SyncAssumed
<1>1. /\ agenda[p] = <<>> /\ agenda' = [agenda EXCEPT ![p] = <<Sync(c)>>]
      /\ \A d \in Contracts \ {c} : contract'[d] = contract[d]
      /\ doubt' = doubt
      /\ UNCHANGED <<rows, link, invoice>>
  BY DEF ContractCreated, ContractEnded, Idle, EventBy, Typed, Records
<1>2. PICK s : s = <<Sync(c)>>
  OBVIOUS
<1>3. DOMAIN s = {1} /\ s[1] = Sync(c)
  BY <1>2
<1>4. Todo(p)' = {s[n] : n \in DOMAIN s}
  <2>1. agenda' = [agenda EXCEPT ![p] = s]
    BY <1>1, <1>2
  <2> QED BY <2>1, TodoIs
<1>5. Todo(p)' = {Sync(c)} /\ Sync(c).do = "sync"
  BY <1>3, <1>4, SyncIsTask
<1>6. Starts(p)
  BY <1>1, SyncStarts
<1>7. ASSUME NEW d \in Contracts \ {c} PROVE Right(d) => Right(d)'
  <2>1. Wanted(d)' = Wanted(d)
    BY <1>1, SameWanted
  <2>2. \A v, x : Active(v, x)' = Active(v, x)
    BY <1>1, SameRows
  <2> QED BY <1>1, <2>1, <2>2 DEF Right
<1>8. \A d \in Contracts : (Right(d) => Right(d)') \/ Sync(d) \in Todo(p)'
  BY <1>5, <1>7
<1> QED BY <1>1, <1>5, <1>6, <1>8, EventStep

LEMMA LinkStep ==
  ASSUME SyncAssumed, NEW p \in Processes, Alone(p), NEW k \in Companies,
         NEW w \in Workspaces \cup {Nobody}, SetWorkspaceLink(p, k, w)
  PROVE  Undisturbed'
<1> USE DEF SyncAssumed
<1>1. PICK old : old = link[k]
  OBVIOUS
<1>2. /\ old \in Workspaces \cup {Nobody} /\ old # w
      /\ link' = [link EXCEPT ![k] = w]
      /\ doubt' = doubt
      /\ UNCHANGED <<rows, contract, invoice>>
  BY <1>1 DEF SetWorkspaceLink, EventBy, Typed, Records
<1>3. PICK order \in SetToSeqs(ContractsOf(k)) :
        agenda' = [agenda EXCEPT ![p] = MoveContracts(order, old, w)]
  BY <1>1 DEF SetWorkspaceLink
<1>4. /\ order \in Seq(Contracts)
      /\ \A m, n \in DOMAIN order : order[m] = order[n] => m = n
      /\ \A c \in ContractsOf(k) : \E n \in DOMAIN order : order[n] = c
  BY CompanysContracts
<1>5. \A n \in DOMAIN order : order[n] \in ContractsOf(k)
  <2>1. IsFiniteSet(ContractsOf(k))
    BY AccessAssumption, FS_Subset DEF ContractsOf
  <2>2. order \in Seq(ContractsOf(k))
    BY <2>1, Listed
  <2> QED BY <2>2
<1>6. PICK s : s = MoveContracts(order, old, w)
  OBVIOUS
<1>7. /\ \A n \in DOMAIN s :
           /\ s[n].do \in {"sync", "revoke"}
           /\ s[n].do = "revoke" =>
                s[n].ws = old /\ \E m \in DOMAIN order : s[n].con = order[m]
      /\ w # Nobody =>
           \A m \in DOMAIN order : \E n \in DOMAIN s : s[n] = Sync(order[m])
  <2>1. order \in Seq(Contracts) /\ \A m, n \in DOMAIN order : order[m] = order[n] => m = n
    BY <1>4
  <2>2. old \in Workspaces \cup {Nobody} /\ old # w
    BY <1>2
  <2>3. Moved(s, order, old, w)
    BY <1>6, <2>1, <2>2, Moves
  <2> QED BY <2>3 DEF Moved
<1>8. Todo(p)' = {s[n] : n \in DOMAIN s}
  <2>1. agenda' = [agenda EXCEPT ![p] = s]
    BY <1>3, <1>6
  <2> QED BY <2>1, TodoIs
<1>9. \A d \in Contracts : link'[CompanyOf[d]] = IF CompanyOf[d] = k THEN w ELSE link[CompanyOf[d]]
  BY <1>2, Companied DEF Typed, Records
<1>10. ASSUME NEW t \in Todo(p)', t.do = "revoke"
       PROVE  t.ws # link'[CompanyOf[t.con]]
  <2>1. t.ws = old /\ t.con \in ContractsOf(k)
    BY <1>5, <1>7, <1>8, <1>10
  <2>2. t.con \in Contracts /\ CompanyOf[t.con] = k
    BY <2>1 DEF ContractsOf
  <2> QED BY <1>2, <1>9, <2>1, <2>2
<1>11. ASSUME NEW c \in Contracts PROVE (Right(c) => Right(c)') \/ Sync(c) \in Todo(p)'
  <2>0. /\ \A v, x : Active(v, x)' = Active(v, x)
        /\ Wanted(c)' = Wanted(c)
    BY <1>2, SameRows, SameWanted
  <2>1. CASE CompanyOf[c] # k \/ contract[c] = "none" \/ w = Nobody
    BY <1>2, <1>9, <2>0, <2>1 DEF Right
  <2>2. CASE CompanyOf[c] = k /\ contract[c] # "none" /\ w # Nobody
    <3>1. c \in ContractsOf(k)
      BY <2>2 DEF ContractsOf
    <3>2. PICK m \in DOMAIN order : order[m] = c
      BY <1>4, <3>1
    <3>3. PICK n \in DOMAIN s : s[n] = Sync(order[m])
      BY <1>7, <2>2
    <3>4. Sync(c) \in Todo(p)'
      BY <1>8, <3>2, <3>3
    <3> QED BY <3>4
  <2> QED BY <2>1, <2>2
<1>12. Starts(p)
  BY LinkStarts
<1>13. \A t \in Todo(p)' : t.do \in {"sync", "revoke", "settled"}
  BY <1>7, <1>8
<1> QED BY <1>2, <1>10, <1>11, <1>12, <1>13, EventStep

(* A failure, or a crash, drops tasks and doubts what they are about.      *)
LEMMA FailureDrops ==
  ASSUME Typed, InOrder, NEW p \in Processes, StatementFails(p) \/ Crash(p)
  PROVE  /\ UNCHANGED <<rows, link, contract, invoice>>
         /\ doubt \subseteq doubt'
         /\ Chores' \subseteq Chores
         /\ \A t \in Chores : t \notin Chores' => Subjects(t) \subseteq doubt'
         /\ \A q \in Processes : Syncing(q)' => Syncing(q)
<1>1. /\ UNCHANGED <<rows, link, contract, invoice>>
      /\ doubt \subseteq doubt'
      /\ agenda[p] # <<>>
  BY DEF StatementFails, Crash, data
<1>2. /\ \A q \in Processes \ {p} : agenda'[q] = agenda[q] /\ Todo(q)' = Todo(q)
      /\ Todo(p)' \subseteq Todo(p)
      /\ \A t \in Todo(p) : t \notin Todo(p)' => Subjects(t) \subseteq doubt'
  <2>1. CASE StatementFails(p)
    <3>1. Then(p, <<>>) /\ doubt' = doubt \cup Subjects(Task(p))
      BY <2>1 DEF StatementFails
    <3>2. Todo(p) = {Task(p)} \cup Rest(p)
      BY <1>1, InHandAndRest
    <3> QED BY <1>1, <3>1, <3>2, TodoAfterNothing
  <2>2. CASE Crash(p)
    <3>1. agenda' = [agenda EXCEPT ![p] = <<>>]
      BY <2>2 DEF Crash
    <3>2. /\ \A q \in Processes \ {p} : agenda'[q] = agenda[q] /\ Todo(q)' = Todo(q)
          /\ agenda'[p] = <<>>
      BY <3>1, OthersTodo DEF Typed
    <3>3. Todo(p)' = {}
      BY <3>2 DEF Todo
    <3>4. doubt' = doubt \cup UNION {Subjects(agenda[p][n]) : n \in 1..Len(agenda[p])}
      BY <2>2 DEF Crash
    <3>5. agenda[p] \in Seq(Tasks)
      BY DEF Typed, Agendas
    <3>6. ASSUME NEW t \in Todo(p) PROVE Subjects(t) \subseteq doubt'
      <4>1. PICK n \in 1..Len(agenda[p]) : t = agenda[p][n]
        BY <3>5 DEF Todo
      <4>2. Subjects(agenda[p][n]) \in {Subjects(agenda[p][m]) : m \in 1..Len(agenda[p])}
        OBVIOUS
      <4> QED BY <3>4, <4>1, <4>2
    <3> QED BY <3>2, <3>3, <3>6
  <2> QED BY <2>1, <2>2
<1>3. Chores' \subseteq Chores
  BY <1>2 DEF Chores
<1>4. ASSUME NEW t \in Chores, t \notin Chores' PROVE Subjects(t) \subseteq doubt'
  <2>1. PICK q \in Processes : t \in Todo(q) /\ t.do \in SyncTasks
    BY ChoresAre
  <2>2. t \notin Todo(q)'
    BY <1>4, <2>1 DEF Chores
  <2> QED BY <1>2, <2>1, <2>2
<1>5. ASSUME NEW q \in Processes, Syncing(q)' PROVE Syncing(q)
  <2>1. Agendas'
    BY AgendasStep DEF Next
  <2>2. \E t \in Todo(q)' : t.do \in SyncTasks
    <3>1. agenda'[q] \in Seq(Tasks)
      BY <2>1 DEF Agendas
    <3>2. DOMAIN agenda'[q] = 1..Len(agenda'[q])
      BY <3>1
    <3> QED BY <1>5, <3>2 DEF Syncing, Todo
  <2> QED BY <1>2, <2>2, SyncingIs DEF Typed
<1> QED BY <1>1, <1>3, <1>4, <1>5

(* Steps of a sync in the middle of another's clear no doubt.              *)
LEMMA SyncDoubts ==
  ASSUME Typed, AreSound, NEW p \in Processes, SyncStep(p)
  PROVE  /\ UNCHANGED <<link, contract, invoice>>
         /\ ~Alone(p) => doubt \subseteq doubt'
<1>1. ASSUME NEW f \in Features, Upsert(p, f)
      PROVE  UNCHANGED <<link, contract, invoice>> /\ doubt \subseteq doubt'
  BY <1>1 DEF Upsert
<1>2. CASE SyncContract(p)
  BY <1>2 DEF SyncContract, SetsRight, data
<1>3. CASE GrantDefault(p)
  BY <1>3 DEF GrantDefault, SetsRight, data
<1>4. CASE \/ ListActive(p) \/ Written(p) \/ ExpireDefault(p) \/ RevokeContract(p)
           \/ RestoreDefault(p) \/ \E f \in Features : ExpireByID(p, f)
  BY <1>4 DEF ListActive, Written, ExpireDefault, RevokeContract, RestoreDefault, ExpireByID, data
<1> QED BY <1>1, <1>2, <1>3, <1>4 DEF SyncStep

LEMMA SyncStepUndisturbed ==
  ASSUME SyncAssumed, OneAtATime, Typed', NEW p \in Processes, Syncs(p), SyncStep(p)
  PROVE  Undisturbed'
<1>1. CASE Alone(p)
  BY <1>1, SyncContractStep, ListActiveStep, UpsertStep, ExpireByIDStep, WrittenStep,
     ExpireDefaultStep, RevokeContractStep, RestoreDefaultStep, GrantDefaultStep DEF SyncStep
<1>2. CASE ~Alone(p)
  <2>1. PICK q \in Processes \ {p} : Syncing(q)
    BY <1>2 DEF Alone
  <2>2. Syncing(p)
    <3>1. agenda[p] # <<>> /\ Task(p).do \in SyncTasks
      BY DEF Syncs
    <3>2. Task(p) \in Todo(p)
      BY <3>1, InHandAndRest DEF SyncAssumed
    <3> QED BY <3>1, <3>2, SyncingIs DEF SyncAssumed, Typed
  <2>3. doubt = Everything
    BY <2>1, <2>2 DEF OneAtATime
  <2>4. doubt \subseteq doubt'
    BY <1>2, SyncDoubts DEF SyncAssumed
  <2>5. doubt' \subseteq Everything /\ Agendas'
    BY DEF Typed, Records
  <2>6. doubt' = Everything
    BY <2>3, <2>4, <2>5
  <2> QED BY <2>5, <2>6, AllInDoubt
<1> QED BY <1>1, <1>2

(* A call that is no sync.                                                 *)
LEMMA OtherStarts ==
  ASSUME Typed, Typed', NEW p \in Processes, Starts(p),
         SuspendOverdue(p) \/ \E w \in Workspaces, to \in Statuses : SetStatus(p, w, to)
  PROVE  /\ UNCHANGED <<rows, link, contract, invoice, doubt>>
         /\ Chores' = Chores
         /\ \A q \in Processes : Syncing(q)' <=> Syncing(q)
<1>1. UNCHANGED <<rows, link, contract, invoice, doubt>>
  BY DEF SuspendOverdue, SetStatus, data
<1>2. /\ Todo(p) = {}
      /\ \A q \in Processes \ {p} : agenda'[q] = agenda[q] /\ Todo(q)' = Todo(q)
  BY StartsTodo
<1>3. ASSUME NEW t \in Todo(p)' PROVE t.do \notin SyncTasks
  <2>1. CASE SuspendOverdue(p)
    <3> DEFINE S == {w \in Workspaces : Overdue(w)}
    <3>1. PICK order \in SetToSeqs(S) :
            agenda' = [agenda EXCEPT ![p] =
              [n \in 1..Len(order) |-> [do |-> "check", ws |-> order[n]]]]
      BY <2>1 DEF SuspendOverdue
    <3>2. PICK s : s = [n \in 1..Len(order) |-> [do |-> "check", ws |-> order[n]]]
      OBVIOUS
    <3>3. Todo(p)' = {s[n] : n \in DOMAIN s}
      <4>1. agenda' = [agenda EXCEPT ![p] = s]
        BY <3>1, <3>2
      <4> QED BY <4>1, TodoIs
    <3>4. t.do = "check"
      BY <1>3, <3>2, <3>3
    <3> QED BY <3>4 DEF SyncTasks
  <2>2. ASSUME NEW w \in Workspaces, NEW to \in Statuses, SetStatus(p, w, to)
        PROVE  t.do \notin SyncTasks
    <3>1. PICK s : s = <<Change(w, status[w], to, "admin")>>
      OBVIOUS
    <3>2. Todo(p)' = {s[n] : n \in DOMAIN s}
      <4>1. agenda' = [agenda EXCEPT ![p] = s]
        BY <2>2, <3>1 DEF SetStatus
      <4> QED BY <4>1, TodoIs
    <3>3. t.do = "change"
      BY <1>3, <3>1, <3>2 DEF Change
    <3> QED BY <3>3 DEF SyncTasks
  <2> QED BY <2>1, <2>2
<1>4. \A t : t.do \in SyncTasks => (t \in Todo(p)' <=> t \in Todo(p))
  BY <1>2, <1>3
<1> QED BY <1>1, <1>2, <1>4, SameTodo DEF Typed

(* An event that a sync answers.                                           *)
Calls(p) ==
  \/ \E i \in Invoices : InvoicePaid(p, i)
  \/ \E c \in Contracts : ContractCreated(p, c) \/ ContractEnded(p, c)
  \/ \E k \in Companies, w \in Workspaces \cup {Nobody} : SetWorkspaceLink(p, k, w)

LEMMA CallsDoubt ==
  ASSUME NEW p, Calls(p)
  PROVE  EventBy(p) /\ UNCHANGED rows
BY DEF Calls, InvoicePaid, ContractCreated, ContractEnded, SetWorkspaceLink

LEMMA QuietStep ==
  ASSUME Typed, NEW p \in Processes, Calm(p)
  PROVE  /\ UNCHANGED <<rows, link, contract, invoice, doubt>>
         /\ Chores' = Chores
         /\ \A q \in Processes : Syncing(q)' <=> Syncing(q)
BY CalmChores DEF Calm

LEMMA LateStep ==
  ASSUME Typed, NEW i \in Invoices, GoLate(i)
  PROVE  /\ UNCHANGED <<rows, link, contract, doubt, agenda>>
         /\ \A c \in Contracts : Wanted(c)' = Wanted(c)
         /\ Chores' = Chores
         /\ \A q \in Processes : Syncing(q)' <=> Syncing(q)
<1>1. /\ UNCHANGED <<rows, link, contract, doubt, agenda>>
      /\ invoice[i] = "open" /\ invoice' = [invoice EXCEPT ![i] = "late"]
  BY DEF GoLate
<1>2. \A j \in Invoices : invoice'[j] = "paid" <=> invoice[j] = "paid"
  BY <1>1 DEF Typed, Records
<1>3. \A c \in Contracts : Wanted(c)' = Wanted(c)
  BY <1>2 DEF Wanted, Paid
<1>4. Chores' = Chores /\ \A q \in Processes : Syncing(q)' <=> Syncing(q)
  BY <1>1 DEF Chores, Todo, Syncing
<1> QED BY <1>1, <1>3, <1>4

LEMMA UndisturbedStep ==
  ASSUME AccessInv, SyncInv, [Next]_vars
  PROVE  Undisturbed'
<1>1. Typed /\ InOrder /\ AreSound /\ Undisturbed /\ OneAtATime /\ SyncAssumed
  BY DEF AccessInv, SyncInv, SyncAssumed
<1>2. Typed'
  BY <1>1, TypedStep
<1>3. ASSUME UNCHANGED <<rows, link, contract>>, \A c \in Contracts : Wanted(c)' = Wanted(c),
             doubt \subseteq doubt', Chores' \subseteq Chores,
             \A t \in Chores : t \notin Chores' => Subjects(t) \subseteq doubt'
      PROVE  Undisturbed'
  BY <1>1, <1>3, Dropped
<1>4. ASSUME UNCHANGED <<rows, link, contract, doubt>>,
             \A c \in Contracts : Wanted(c)' = Wanted(c), Chores' = Chores
      PROVE  Undisturbed'
  BY <1>3, <1>4
<1>5. ASSUME NEW p \in Processes, Starts(p), Calls(p) PROVE Undisturbed'
  <2>1. CASE Alone(p)
    BY <1>1, <1>5, <2>1, InvoicePaidStep, ContractBegunOrEnded, LinkStep DEF Calls
  <2>2. CASE ~Alone(p)
    <3>1. doubt' = Everything
      BY <1>5, <2>2, CallsDoubt DEF EventBy
    <3> QED BY <1>2, <3>1, AllInDoubt DEF Typed
  <2> QED BY <2>1, <2>2
<1>6. ASSUME NEW p \in Processes, Starts(p),
             SuspendOverdue(p) \/ \E w \in Workspaces, to \in Statuses : SetStatus(p, w, to)
      PROVE  Undisturbed'
  BY <1>1, <1>2, <1>4, <1>6, OtherStarts, SameWanted
<1>7. ASSUME NEW p \in Processes, Syncs(p), SyncStep(p) PROVE Undisturbed'
  BY <1>1, <1>2, <1>7, SyncStepUndisturbed
<1>8. ASSUME NEW p \in Processes, Calm(p) PROVE Undisturbed'
  BY <1>1, <1>4, <1>8, QuietStep, SameWanted
<1>9. ASSUME NEW p \in Processes, StatementFails(p) \/ Crash(p) PROVE Undisturbed'
  BY <1>1, <1>3, <1>9, FailureDrops, SameWanted
<1>10. ASSUME NEW i \in Invoices, GoLate(i) PROVE Undisturbed'
  BY <1>1, <1>4, <1>10, LateStep
<1>11. CASE UNCHANGED vars
  <2>1. Chores' = Chores
    BY <1>11 DEF vars, Chores, Todo
  <2> QED BY <1>4, <1>11, <2>1, SameWanted DEF vars
<1>12. \A p : Event(p) => Calls(p) \/ \E w \in Workspaces, to \in Statuses : SetStatus(p, w, to)
  BY DEF Event, Calls
<1> QED BY <1>1, <1>5, <1>6, <1>7, <1>8, <1>9, <1>10, <1>11, <1>12, Steps

LEMMA SyncsOthers ==
  ASSUME Typed, InOrder, NEW p \in Processes, Syncs(p)
  PROVE  \A q \in Processes \ {p} : Syncing(q)' <=> Syncing(q)
BY ChoresAfterOne, ChoresAfterNothing DEF Syncs

LEMMA OneAtATimeStep ==
  ASSUME Typed, InOrder, AreSound, OneAtATime, [Next]_vars
  PROVE  OneAtATime'
<1>2. Typed'
  BY TypedStep
<1>3. doubt' \subseteq Everything
  BY <1>2 DEF Typed, Records
<1> SUFFICES ASSUME NEW q \in Processes, NEW r \in Processes, q # r,
                    Syncing(q)', Syncing(r)'
             PROVE  Everything \subseteq doubt'
  BY <1>3 DEF OneAtATime
<1>4. ASSUME \A x \in Processes : Syncing(x)' => Syncing(x), doubt \subseteq doubt'
      PROVE  Everything \subseteq doubt'
  BY <1>4 DEF OneAtATime
<1>5. ASSUME NEW p \in Processes, Starts(p), Calls(p) PROVE Everything \subseteq doubt'
  <2>1. \A x \in Processes \ {p} : Syncing(x)' <=> Syncing(x)
    BY <1>5, StartsTodo DEF Syncing
  <2>2. ~Alone(p)
    BY <2>1 DEF Alone
  <2> QED BY <1>5, <2>2, CallsDoubt DEF EventBy
<1>6. ASSUME NEW p \in Processes, Starts(p),
             SuspendOverdue(p) \/ \E w \in Workspaces, to \in Statuses : SetStatus(p, w, to)
      PROVE  Everything \subseteq doubt'
  BY <1>2, <1>4, <1>6, OtherStarts
<1>7. ASSUME NEW p \in Processes, Syncs(p), SyncStep(p) PROVE Everything \subseteq doubt'
  <2>1. \A x \in Processes \ {p} : Syncing(x)' <=> Syncing(x)
    BY <1>7, SyncsOthers
  <2>2. Syncing(p)
    <3>1. agenda[p] # <<>> /\ Task(p).do \in SyncTasks
      BY <1>7 DEF Syncs
    <3>2. Task(p) \in Todo(p)
      BY <3>1, InHandAndRest
    <3> QED BY <3>1, <3>2, SyncingIs DEF Typed
  <2>3. Syncing(q) /\ Syncing(r)
    BY <2>1, <2>2
  <2>4. ~Alone(p)
    BY <2>3 DEF Alone
  <2>5. doubt \subseteq doubt'
    BY <1>7, <2>4, SyncDoubts
  <2> QED BY <2>3, <2>5 DEF OneAtATime
<1>8. ASSUME NEW p \in Processes, Calm(p) PROVE Everything \subseteq doubt'
  BY <1>4, <1>8, QuietStep
<1>9. ASSUME NEW p \in Processes, StatementFails(p) \/ Crash(p) PROVE Everything \subseteq doubt'
  BY <1>4, <1>9, FailureDrops
<1>10. ASSUME NEW i \in Invoices, GoLate(i) PROVE Everything \subseteq doubt'
  BY <1>4, <1>10, LateStep
<1>11. CASE UNCHANGED vars
  <2>1. \A x \in Processes : Syncing(x)' <=> Syncing(x)
    BY <1>11 DEF vars, Syncing
  <2> QED BY <1>4, <1>11, <2>1 DEF vars
<1>12. \A p : Event(p) => Calls(p) \/ \E w \in Workspaces, to \in Statuses : SetStatus(p, w, to)
  BY DEF Event, Calls
<1> QED BY <1>5, <1>6, <1>7, <1>8, <1>9, <1>10, <1>11, <1>12, Steps

LEMMA WantedGrows ==
  ASSUME Typed, AreSound, [Next]_vars, NEW c
  PROVE  Wanted(c) \subseteq Wanted(c)'
<1>1. ASSUME NEW j \in Invoices, invoice[j] = "paid" PROVE invoice'[j] = "paid"
  <2>1. ASSUME NEW p \in Processes, Event(p) \/ SuspendOverdue(p) PROVE invoice'[j] = "paid"
    BY <1>1, <2>1 DEF Event, SuspendOverdue, InvoicePaid, ContractCreated, ContractEnded,
                      SetWorkspaceLink, SetStatus, data, Typed, Records
  <2>2. ASSUME NEW p \in Processes, SyncStep(p) PROVE UNCHANGED invoice
    BY <2>2, SyncDoubts
  <2>3. ASSUME NEW p \in Processes, StatementFails(p) \/ Crash(p) PROVE UNCHANGED invoice
    BY <2>3 DEF StatementFails, Crash, data
  <2>4. ASSUME NEW i \in Invoices, GoLate(i) PROVE invoice'[j] = "paid"
    BY <1>1, <2>4 DEF GoLate, Typed, Records
  <2> QED BY <1>1, <2>1, <2>2, <2>3, <2>4, Steps DEF Calm, vars
<1> QED BY <1>1 DEF Wanted, Paid

LEMMA SyncGivesWanted ==
  ASSUME Typed, InOrder, AreSound, OnlyWanted, NEW p \in Processes, Syncs(p), SyncStep(p)
  PROVE  OnlyWanted'
<1>0. UNCHANGED invoice
  BY SyncDoubts
<1>1. \A d : Wanted(d)' = Wanted(d)
  BY <1>0, SameWanted
<1>2. PICK t : t = Task(p)
  OBVIOUS
<1>3. agenda[p] # <<>> /\ t.do \in SyncTasks /\ t \in Chores /\ AskedFor(t)
  <2>1. agenda[p] # <<>> /\ t.do \in SyncTasks
    BY <1>2 DEF Syncs
  <2>2. t \in Todo(p)
    BY <1>2, <2>1, InHandAndRest
  <2>3. t \in Chores
    BY <2>1, <2>2, ChoresAre
  <2> QED BY <2>1, <2>3 DEF OnlyWanted
<1>a. ASSUME \A w \in Workspaces, c \in Contracts : Active(w, c)' \subseteq Wanted(c),
             \A x \in Chores' : AskedFor(x)
      PROVE  OnlyWanted'
  BY <1>1, <1>a DEF OnlyWanted, AskedFor
<1>b. ASSUME \A w \in Workspaces, c \in Contracts : Active(w, c)' \subseteq Wanted(c),
             Then(p, <<>>)
      PROVE  OnlyWanted'
  <2>1. \A x \in Chores' : AskedFor(x)
    BY <1>3, <1>b, ChoresAfterNothing DEF OnlyWanted
  <2> QED BY <1>a, <1>b, <2>1
<1>c. ASSUME \A w \in Workspaces, c \in Contracts : Active(w, c)' \subseteq Wanted(c),
             NEW u \in Tasks, u.do \in SyncTasks, AskedFor(u), Then(p, <<u>>)
      PROVE  OnlyWanted'
  <2>1. Chores' \subseteq Chores \cup {u}
    BY <1>3, <1>c, ChoresAfterOne
  <2>2. \A x \in Chores' : AskedFor(x)
    BY <1>c, <2>1 DEF OnlyWanted
  <2> QED BY <1>a, <1>c, <2>2
<1>d. ASSUME UNCHANGED rows
      PROVE  \A w \in Workspaces, c \in Contracts : Active(w, c)' \subseteq Wanted(c)
  BY <1>d, SameRows DEF OnlyWanted
<1>e. ASSUME NEW w \in Workspaces, NEW s \in Sources, NEW fs \in SUBSET Features, Expire(w, s, fs)
      PROVE  \A v \in Workspaces, c \in Contracts : Active(v, c)' \subseteq Wanted(c)
  <2>1. \A v \in Workspaces, x \in Sources :
          Active(v, x)' = IF v = w /\ x = s THEN Active(v, x) \ fs ELSE Active(v, x)
    BY <1>e, Expired DEF Typed
  <2> QED BY <2>1 DEF OnlyWanted, Sources
<1>4. CASE SyncContract(p)
  <2>1. PICK c, w : c = t.con /\ w = link[CompanyOf[c]]
    OBVIOUS
  <2>2. PICK l : l = [do |-> "list", con |-> c, ws |-> w, source |-> c, grants |-> Wanted(c)]
    OBVIOUS
  <2>3. /\ At(p, "sync") /\ UNCHANGED rows
        /\ \/ w # Nobody /\ Then(p, <<Revoke(c, w)>>)
           \/ w # Nobody /\ Then(p, <<l>>)
           \/ Then(p, <<>>)
    BY <1>2, <1>4, <2>1, <2>2 DEF SyncContract, data
  <2>4. c \in Contracts /\ w \in Workspaces \cup {Nobody} /\ Wanted(c) \subseteq Features
    BY <1>3, <2>1, ChoresTyped, Companied, FeatureSets DEF Typed
  <2>5. w # Nobody => l \in Tasks /\ l.do \in SyncTasks /\ AskedFor(l)
    BY <2>2, <2>4 DEF Tasks, SyncTasks, AskedFor
  <2>6. w # Nobody => Revoke(c, w) \in Tasks /\ Revoke(c, w).do \in SyncTasks /\ AskedFor(Revoke(c, w))
    BY <2>4, RevokeIsTask DEF SyncTasks, AskedFor
  <2> QED BY <1>b, <1>c, <1>d, <2>3, <2>5, <2>6
<1>5. CASE ListActive(p)
  <2>1. PICK have : have = Active(t.ws, t.source)
    OBVIOUS
  <2>2. PICK u : u = [do |-> "write", con |-> t.con, ws |-> t.ws, source |-> t.source,
                      new |-> t.grants \ have, old |-> have \ t.grants]
    OBVIOUS
  <2>3. At(p, "list") /\ Then(p, <<u>>) /\ UNCHANGED rows
    BY <1>2, <1>5, <2>1, <2>2 DEF ListActive, data
  <2>4. /\ t.ws \in Workspaces /\ t.con \in Contracts /\ t.source \in Sources
        /\ t.do = "list" /\ t.grants \subseteq Features
    BY <1>2, <2>3, WriteInHand
  <2>5. u \in Tasks /\ u.do \in SyncTasks /\ u.do = "write" /\ u.source = t.source
        /\ u.new \subseteq t.grants
    <3>1. have \subseteq Features
      BY <2>1 DEF Active
    <3> QED BY <2>2, <2>4, <3>1 DEF Tasks, SyncTasks, Sources
  <2>6. AskedFor(u)
    BY <1>3, <2>4, <2>5 DEF AskedFor
  <2> QED BY <1>c, <1>d, <2>3, <2>5, <2>6
<1>6. ASSUME NEW f \in Features, Upsert(p, f) PROVE OnlyWanted'
  <2>1. PICK u : u = [t EXCEPT !.new = t.new \ {f}]
    OBVIOUS
  <2>2. /\ At(p, "write") /\ f \in t.new
        /\ \/ Then(p, <<>>) /\ UNCHANGED rows
           \/ Activate(t.ws, t.source, f) /\ Then(p, <<u>>)
    BY <1>2, <1>6, <2>1, Upserts
  <2>3. /\ t.ws \in Workspaces /\ t.source \in Sources /\ t.do = "write"
        /\ t \in [do : {"write"}, con : Contracts, ws : Workspaces,
                  source : Contracts \cup {Nobody}, new : SUBSET Features, old : SUBSET Features]
    BY <1>2, <2>2, WriteInHand
  <2>4. /\ u \in [do : {"write"}, con : Contracts, ws : Workspaces,
                  source : Contracts \cup {Nobody}, new : SUBSET Features, old : SUBSET Features]
        /\ u.do = "write" /\ u.source = t.source /\ u.new \subseteq t.new
    BY <2>1, <2>3
  <2>5. u \in Tasks /\ u.do \in SyncTasks /\ AskedFor(u)
    BY <1>3, <2>3, <2>4 DEF Tasks, SyncTasks, AskedFor
  <2>6. ASSUME Activate(t.ws, t.source, f)
        PROVE  \A w \in Workspaces, c \in Contracts : Active(w, c)' \subseteq Wanted(c)
    <3>1. PICK v, s : v = t.ws /\ s = t.source
      OBVIOUS
    <3>2. \A w \in Workspaces, x \in Sources :
            Active(w, x)' = IF w = v /\ x = s THEN Active(w, x) \cup {f} ELSE Active(w, x)
      BY <2>3, <2>6, <3>1, MadeActive DEF Typed
    <3>3. s # Nobody => f \in Wanted(s)
      BY <1>3, <2>2, <2>3, <3>1 DEF AskedFor
    <3> QED BY <3>2, <3>3, Apart DEF OnlyWanted, Sources
  <2> QED BY <1>b, <1>c, <1>d, <2>2, <2>5, <2>6
<1>7. ASSUME NEW f \in Features, ExpireByID(p, f) PROVE OnlyWanted'
  <2>1. PICK u : u = [t EXCEPT !.old = t.old \ {f}]
    OBVIOUS
  <2>2. At(p, "write") /\ Expire(t.ws, t.source, {f}) /\ Then(p, <<u>>)
    BY <1>2, <1>7, <2>1, Expires
  <2>3. /\ t.ws \in Workspaces /\ t.source \in Sources /\ t.do = "write"
        /\ t \in [do : {"write"}, con : Contracts, ws : Workspaces,
                  source : Contracts \cup {Nobody}, new : SUBSET Features, old : SUBSET Features]
    BY <1>2, <2>2, WriteInHand
  <2>4. /\ u \in [do : {"write"}, con : Contracts, ws : Workspaces,
                  source : Contracts \cup {Nobody}, new : SUBSET Features, old : SUBSET Features]
        /\ u.do = "write" /\ u.source = t.source /\ u.new = t.new
    BY <2>1, <2>3
  <2>5. u \in Tasks /\ u.do \in SyncTasks /\ AskedFor(u)
    BY <1>3, <2>3, <2>4 DEF Tasks, SyncTasks, AskedFor
  <2>6. {f} \in SUBSET Features
    OBVIOUS
  <2> QED BY <1>c, <1>e, <2>2, <2>3, <2>5, <2>6
<1>8. CASE Written(p)
  <2>1. PICK u : u = [do |-> "clear", con |-> t.con, ws |-> t.ws]
    OBVIOUS
  <2>2. At(p, "write") /\ UNCHANGED rows /\ (Then(p, <<>>) \/ Then(p, <<u>>))
    BY <1>2, <1>8, <2>1 DEF Written, data
  <2>3. t.ws \in Workspaces /\ t.con \in Contracts
    BY <1>2, <2>2, WriteInHand
  <2>4. u \in Tasks /\ u.do \in SyncTasks /\ AskedFor(u)
    BY <2>1, <2>3 DEF Tasks, SyncTasks, AskedFor
  <2> QED BY <1>b, <1>c, <1>d, <2>2, <2>4
<1>9. CASE ExpireDefault(p)
  <2>1. At(p, "clear") /\ Expire(t.ws, Nobody, Features) /\ Then(p, <<>>)
    BY <1>2, <1>9 DEF ExpireDefault
  <2>2. t.ws \in Workspaces /\ Nobody \in Sources /\ Features \in SUBSET Features
    BY <1>2, <2>1, TaskInHand DEF SyncTasks, Sources
  <2> QED BY <1>b, <1>e, <2>1, <2>2
<1>10. CASE RevokeContract(p)
  <2>1. PICK u : u = [do |-> "others", con |-> t.con, ws |-> t.ws]
    OBVIOUS
  <2>2. At(p, "revoke") /\ Expire(t.ws, t.con, Features) /\ Then(p, <<u>>)
    BY <1>2, <1>10, <2>1 DEF RevokeContract
  <2>3. t.ws \in Workspaces /\ t.con \in Contracts /\ t.con \in Sources
        /\ Features \in SUBSET Features
    BY <1>2, <2>2, TaskInHand DEF SyncTasks, Sources
  <2>4. u \in Tasks /\ u.do \in SyncTasks /\ AskedFor(u)
    BY <2>1, <2>3 DEF Tasks, SyncTasks, AskedFor
  <2> QED BY <1>c, <1>e, <2>2, <2>3, <2>4
<1>11. CASE RestoreDefault(p)
  <2>1. PICK u : u = [do |-> "default", con |-> t.con, ws |-> t.ws]
    OBVIOUS
  <2>2. At(p, "others") /\ UNCHANGED rows /\ (Then(p, <<>>) \/ Then(p, <<u>>))
    BY <1>2, <1>11, <2>1 DEF RestoreDefault, data
  <2>3. t.ws \in Workspaces /\ t.con \in Contracts
    BY <1>2, <2>2, TaskInHand DEF SyncTasks
  <2>4. u \in Tasks /\ u.do \in SyncTasks /\ AskedFor(u)
    BY <2>1, <2>3 DEF Tasks, SyncTasks, AskedFor
  <2> QED BY <1>b, <1>c, <1>d, <2>2, <2>4
<1>12. CASE GrantDefault(p)
  <2>1. PICK u : u = [do |-> "list", con |-> t.con, ws |-> t.ws, source |-> Nobody, grants |-> Free]
    OBVIOUS
  <2>2. At(p, "default") /\ UNCHANGED rows /\ (Then(p, <<>>) \/ Then(p, <<u>>))
    BY <1>2, <1>12, <2>1 DEF GrantDefault, data
  <2>3. t.ws \in Workspaces /\ t.con \in Contracts /\ Free \subseteq Features
    BY <1>2, <2>2, TaskInHand DEF SyncTasks, Features
  <2>4. u \in Tasks /\ u.do \in SyncTasks /\ AskedFor(u)
    BY <2>1, <2>3 DEF Tasks, SyncTasks, AskedFor
  <2> QED BY <1>b, <1>c, <1>d, <2>2, <2>4
<1> QED BY <1>4, <1>5, <1>6, <1>7, <1>8, <1>9, <1>10, <1>11, <1>12 DEF SyncStep

LEMMA OnlyWantedStep ==
  ASSUME Typed, InOrder, AreSound, OnlyWanted, [Next]_vars
  PROVE  OnlyWanted'
<1>1. \A c : Wanted(c) \subseteq Wanted(c)'
  BY WantedGrows
<1>2. Typed'
  BY TypedStep
<1>3. ASSUME UNCHANGED rows, \A t \in Chores' : t \in Chores \/ t.do \in Waiting
      PROVE  OnlyWanted'
  <2>1. ASSUME NEW w \in Workspaces, NEW c \in Contracts
        PROVE  Active(w, c)' \subseteq Wanted(c)'
    <3>1. Active(w, c)' = Active(w, c)
      BY <1>3, SameRows
    <3> QED BY <1>1, <3>1 DEF OnlyWanted
  <2>2. ASSUME NEW t \in Chores' PROVE AskedFor(t)'
    <3>1. AskedFor(t)
      BY <1>3, <2>2 DEF OnlyWanted, AskedFor, Waiting
    <3>2. t.source # Nobody => Wanted(t.source) \subseteq Wanted(t.source)'
      BY <1>1
    <3> QED BY <3>1, <3>2 DEF AskedFor
  <2> QED BY <2>1, <2>2 DEF OnlyWanted
<1>4. ASSUME NEW p \in Processes, Starts(p), Calls(p) PROVE OnlyWanted'
  <2>1. /\ \A t \in Todo(p)' : t.do \in Waiting \cup {"change"}
        /\ \A q \in Processes \ {p} : Todo(q)' = Todo(q)
    BY <1>4, StartsTodo
  <2>2. ASSUME NEW t \in Chores' PROVE t \in Chores \/ t.do \in Waiting
    <3>1. PICK q \in Processes : t \in Todo(q)' /\ t.do \in SyncTasks
      BY <2>2 DEF Chores
    <3> QED BY <2>1, <3>1, ChoresAre DEF SyncTasks
  <2> QED BY <1>3, <1>4, <2>2, CallsDoubt
<1>5. ASSUME NEW p \in Processes, Starts(p),
             SuspendOverdue(p) \/ \E w \in Workspaces, to \in Statuses : SetStatus(p, w, to)
      PROVE  OnlyWanted'
  BY <1>2, <1>3, <1>5, OtherStarts
<1>6. ASSUME NEW p \in Processes, Syncs(p), SyncStep(p) PROVE OnlyWanted'
  BY <1>6, SyncGivesWanted
<1>7. ASSUME NEW p \in Processes, Calm(p) PROVE OnlyWanted'
  BY <1>3, <1>7, QuietStep
<1>8. ASSUME NEW p \in Processes, StatementFails(p) \/ Crash(p) PROVE OnlyWanted'
  BY <1>3, <1>8, FailureDrops
<1>9. ASSUME NEW i \in Invoices, GoLate(i) PROVE OnlyWanted'
  BY <1>3, <1>9, LateStep
<1>10. CASE UNCHANGED vars
  <2>1. Chores' = Chores
    BY <1>10 DEF vars, Chores, Todo
  <2> QED BY <1>3, <1>10, <2>1 DEF vars
<1>11. \A p : Event(p) => Calls(p) \/ \E w \in Workspaces, to \in Statuses : SetStatus(p, w, to)
  BY DEF Event, Calls
<1> QED BY <1>4, <1>5, <1>6, <1>7, <1>8, <1>9, <1>10, <1>11, Steps

LEMMA SyncInit == Init => SyncInv
<1> SUFFICES ASSUME Init PROVE SyncInv
  OBVIOUS
<1>1. \A p \in Processes : agenda[p] = <<>> /\ Todo(p) = {} /\ ~Syncing(p)
  BY DEF Init, Todo, Syncing
<1>2. Chores = {}
  BY <1>1 DEF Chores
<1>3. ASSUME NEW w \in Workspaces, NEW s \in Sources, NEW f \in Features
      PROVE  rows[w][<<s, f>>] = IF s = Nobody /\ f \in Free THEN "active" ELSE "none"
  <2>1. <<s, f>> \in Keys /\ <<s, f>>[1] = s /\ <<s, f>>[2] = f
    BY DEF Keys, Sources
  <2>2. rows[w] = [k \in Keys |-> IF k[1] = Nobody /\ k[2] \in Free THEN "active" ELSE "none"]
    BY DEF Init
  <2> QED BY <2>1, <2>2
<1>4. ASSUME NEW w \in Workspaces PROVE Active(w, Nobody) = Free
  <2>1. Free \subseteq Features /\ Nobody \in Sources
    BY DEF Features, Sources
  <2> QED BY <1>3, <2>1 DEF Active
<1>5. ASSUME NEW w \in Workspaces, NEW c \in Contracts PROVE Active(w, c) = {}
  BY <1>3, Apart DEF Active, Sources
<1>6. OneAtATime
  BY <1>1 DEF OneAtATime
<1>7. OnlyWanted
  BY <1>2, <1>5 DEF OnlyWanted
<1>8. ASSUME NEW c \in Contracts PROVE Right(c)
  <2> SUFFICES ASSUME NEW w, w = link[CompanyOf[c]], w # Nobody, contract[c] # "none"
               PROVE  Active(w, c) = IF contract[c] = "ended" THEN {} ELSE Wanted(c)
    BY DEF Right
  <2>1. c \in Begun /\ contract[c] = "active"
    BY DEF Init
  <2>2. ~Paid(c)
    BY DEF Paid, Init
  <2>3. Wanted(c) = {}
    BY <2>1, <2>2, AccessAssumption DEF Wanted
  <2>4. w \in Workspaces
    BY TypedInit, Companied DEF Typed
  <2> QED BY <1>5, <2>1, <2>3, <2>4
<1>9. ASSUME NEW w \in Workspaces PROVE FreeIsRight(w)
  BY <1>4, <1>5 DEF FreeIsRight, HasContract
<1>10. Undisturbed
  BY <1>2, <1>8, <1>9 DEF Undisturbed, ContractsAreRight, WorkspacesAreRight
<1> QED BY <1>6, <1>7, <1>10 DEF SyncInv

LEMMA SyncStepInv == AccessInv /\ SyncInv /\ [Next]_vars => SyncInv'
BY UndisturbedStep, OneAtATimeStep, OnlyWantedStep DEF AccessInv, SyncInv

LEMMA SyncInvariant == Spec => [](AccessInv /\ SyncInv)
BY AccessInit, AccessStep, SyncInit, SyncStepInv, PTL DEF Spec, Safety

(* SyncContract, GrantContract and RevokeContract: whatever was in the way *)
(* of an earlier sync, a contract whose last sync nothing disturbed gives  *)
(* its workspace what it should, and the free plan is there exactly when   *)
(* no contract gives anything.                                             *)
THEOREM SyncsSetRight == Spec => []SyncedIsRight
<1>1. AccessInv /\ SyncInv => SyncedIsRight
  <2> SUFFICES ASSUME AccessInv, SyncInv PROVE SyncedIsRight
    OBVIOUS
  <2> DEFINE busy == UNION {UNION {Subjects(agenda[p][n]) : n \in DOMAIN agenda[p]} : p \in Processes}
  <2>1. ASSUME NEW t \in Chores, NEW x \in Subjects(t) PROVE x \in busy
    <3>1. PICK p \in Processes : t \in Todo(p)
      BY ChoresAre
    <3>2. PICK n \in DOMAIN agenda[p] : t = agenda[p][n]
      BY <3>1 DEF Todo
    <3>3. x \in UNION {Subjects(agenda[p][m]) : m \in DOMAIN agenda[p]}
      BY <3>2, <2>1, Zenon
    <3> QED BY <3>3, Zenon
  <2>2. \A t \in Chores : t \in Tasks /\ t.do \in SyncTasks /\ Sound(t)
    BY ChoresTyped, ChoresAre DEF AccessInv, AreSound
  <2>3. ASSUME NEW t \in Chores, NEW c \in Contracts, Pending(t, c) PROVE c \in busy
    <3>1. t.con = c
      BY <2>2, <2>3, Apart DEF Pending, Granting, Sound
    <3>2. c \in Subjects(t)
      BY <2>2, <3>1 DEF Subjects
    <3> QED BY <2>1, <3>2
  <2>4. ASSUME NEW t \in Chores, NEW w \in Workspaces, t.do \in InHand, t.ws = w PROVE w \in busy
    <3>1. w \in Subjects(t)
      BY <2>2, <2>4 DEF Subjects, InHand
    <3> QED BY <2>1, <3>1
  <2> HIDE DEF busy
  <2>5. ASSUME NEW c \in Contracts \ (doubt \cup busy) PROVE Right(c)
    BY <2>3, <2>5 DEF SyncInv, Undisturbed, ContractsAreRight
  <2>6. ASSUME NEW w \in Workspaces \ (doubt \cup busy) PROVE FreeIsRight(w)
    BY <2>4, <2>6 DEF SyncInv, Undisturbed, WorkspacesAreRight
  <2> QED BY <2>5, <2>6 DEF SyncedIsRight, busy, Right, FreeIsRight
<1> QED BY <1>1, SyncInvariant, PTL

-----------------------------------------------------------------------------
(* One notice for each change of the status that billing makes             *)

(* A change is under way to be told from the marker on.                    *)
Tells(t, w, closed) ==
  /\ t.ws = w
  /\ \/ t.do = IF closed THEN "mark" ELSE "unmark"
     \/ t.do = "notify" /\ t.closed = closed

Telling(w, closed) == {p \in Processes : agenda[p] # <<>> /\ Tells(Task(p), w, closed)}

Made(w, closed) == IF closed THEN count[w].closed ELSE count[w].opened
Told(w, closed) == IF closed THEN count[w].toldClosed ELSE count[w].toldOpened

NoticeInv ==
  \A w \in Workspaces, closed \in BOOLEAN :
    /\ IsFiniteSet(Telling(w, closed))
    /\ Told(w, closed) + Cardinality(Telling(w, closed)) <= Made(w, closed)

LEMMA Fewer ==
  ASSUME NEW S, IsFiniteSet(S), NEW T, T \subseteq S
  PROVE  /\ IsFiniteSet(T) /\ Cardinality(T) \in Nat /\ Cardinality(S) \in Nat
         /\ Cardinality(T) <= Cardinality(S)
BY FS_Subset, FS_CardinalityType

LEMMA OneMore ==
  ASSUME NEW S, IsFiniteSet(S), NEW p, NEW T, T \subseteq S \cup {p}
  PROVE  /\ IsFiniteSet(T) /\ Cardinality(T) \in Nat /\ Cardinality(S) \in Nat
         /\ Cardinality(T) <= Cardinality(S) + 1
<1>1. /\ IsFiniteSet(S \cup {p})
      /\ Cardinality(S \cup {p}) = IF p \in S THEN Cardinality(S) ELSE Cardinality(S) + 1
  BY FS_AddElement
<1>2. /\ IsFiniteSet(T) /\ Cardinality(T) \in Nat
      /\ Cardinality(T) <= Cardinality(S \cup {p})
  BY <1>1, Fewer
<1>3. Cardinality(S) \in Nat
  BY FS_CardinalityType
<1> QED BY <1>1, <1>2, <1>3

LEMMA OneLess ==
  ASSUME NEW S, IsFiniteSet(S), NEW p \in S, NEW T, T \subseteq S \ {p}
  PROVE  /\ IsFiniteSet(T) /\ Cardinality(T) \in Nat /\ Cardinality(S) \in Nat
         /\ Cardinality(T) + 1 <= Cardinality(S)
<1>1. IsFiniteSet(S \ {p}) /\ Cardinality(S \ {p}) = Cardinality(S) - 1
  BY FS_RemoveElement
<1> QED BY <1>1, Fewer, FS_CardinalityType

(* p has nothing to tell as it goes on.                                    *)
Hushed(p) ==
  /\ \A q \in Processes \ {p} : agenda'[q] = agenda[q]
  /\ agenda'[p] # <<>> => Task(p)'.do \notin {"mark", "unmark", "notify"}

LEMMA HushedAfterNothing ==
  ASSUME Typed, InOrder, NEW p \in Processes, agenda[p] # <<>>, Then(p, <<>>)
  PROVE  Hushed(p)
<1>1. /\ Todo(p)' = Rest(p)
      /\ \A q \in Processes \ {p} : agenda'[q] = agenda[q]
  BY TodoAfterNothing
<1>2. Agendas'
  BY GoesOnTyped DEF GoesOn, Typed
<1>3. ASSUME agenda'[p] # <<>> PROVE Task(p)' \in Todo(p)'
  <2>1. agenda'[p] \in Seq(Tasks) /\ Task(p)' = agenda'[p][1] /\ 1 \in DOMAIN agenda'[p]
    BY <1>2, <1>3 DEF Agendas, Task
  <2> QED BY <2>1 DEF Todo
<1> QED BY <1>1, <1>3, RestWaits DEF Hushed, Waiting

LEMMA HushedAfterOne ==
  ASSUME Typed, NEW p \in Processes, agenda[p] # <<>>, NEW u \in Tasks,
         u.do \notin {"mark", "unmark", "notify"}, Then(p, <<u>>)
  PROVE  Hushed(p)
BY TodoAfterOne DEF Hushed

LEMMA HushedStart ==
  ASSUME Typed, NEW p \in Processes, Starts(p)
  PROVE  Hushed(p)
<1>1. PICK s \in Seq(Tasks) :
       /\ agenda' = [agenda EXCEPT ![p] = s]
       /\ \A n \in DOMAIN s : s[n].do \in Waiting \cup {"change"}
  BY DEF Starts
<1>2. agenda'[p] = s /\ \A q \in Processes \ {p} : agenda'[q] = agenda[q]
  BY <1>1 DEF Typed, Agendas
<1>3. s # <<>> => Head(s) = s[1] /\ 1 \in DOMAIN s
  OBVIOUS
<1> QED BY <1>1, <1>2, <1>3 DEF Hushed, Task, Waiting

LEMMA HushedCalm ==
  ASSUME Typed, InOrder, NEW p \in Processes,
         CheckWorkspace(p) \/ FindSettled(p) \/ CheckOwed(p) \/ Reactivate(p)
  PROVE  Hushed(p) /\ UNCHANGED <<link, marker, count>>
<1> USE DEF Typed, Agendas
<1>0. UNCHANGED <<link, marker, count>> /\ agenda[p] # <<>>
  BY DEF CheckWorkspace, FindSettled, CheckOwed, Reactivate, data, At
<1>1. Task(p) \in Tasks
  BY <1>0, NextTask
<1>2. CASE CheckWorkspace(p)
  <2>1. PICK u : u = Change(Task(p).ws, "active", "suspended", "billing")
    OBVIOUS
  <2>2. Then(p, <<>>) \/ Then(p, <<u>>)
    BY <1>2, <2>1 DEF CheckWorkspace
  <2>3. Task(p).ws \in Workspaces
    BY <1>1, <1>2, Kinds DEF CheckWorkspace, At, Task
  <2>4. u \in Tasks /\ u.do = "change"
    BY <2>1, <2>3 DEF Change, Tasks, Statuses
  <2> QED BY <1>0, <2>2, <2>4, HushedAfterNothing, HushedAfterOne
<1>3. CASE FindSettled(p)
  <2>1. PICK w : w = WorkspaceOf(Task(p).inv)
    OBVIOUS
  <2>2. PICK u : u = [do |-> "owed", ws |-> w]
    OBVIOUS
  <2>3. Then(p, <<>>) \/ (w # Nobody /\ Then(p, <<u>>))
    BY <1>3, <2>1, <2>2 DEF FindSettled
  <2>4. Task(p).inv \in Invoices
    BY <1>1, <1>3, Kinds DEF FindSettled, At, Task
  <2>5. w \in Workspaces \cup {Nobody}
    BY <2>1, <2>4, Companied, AccessAssumption DEF WorkspaceOf
  <2>6. w # Nobody => u \in Tasks /\ u.do = "owed"
    BY <2>2, <2>5 DEF Tasks
  <2> QED BY <1>0, <2>3, <2>6, HushedAfterNothing, HushedAfterOne
<1>4. CASE CheckOwed(p)
  <2>2. PICK u : u = [do |-> "reopen", ws |-> Task(p).ws]
    OBVIOUS
  <2>3. Then(p, <<>>) \/ Then(p, <<u>>)
    BY <1>4, <2>2 DEF CheckOwed
  <2>4. Task(p).ws \in Workspaces
    BY <1>1, <1>4, Kinds DEF CheckOwed, At, Task
  <2>6. u \in Tasks /\ u.do = "reopen"
    BY <2>2, <2>4 DEF Tasks
  <2> QED BY <1>0, <2>3, <2>6, HushedAfterNothing, HushedAfterOne
<1>5. CASE Reactivate(p)
  <2>1. PICK w : w = Task(p).ws
    OBVIOUS
  <2>2. PICK u : u = Change(w, status[w], "active", "billing")
    OBVIOUS
  <2>3. Then(p, <<>>) \/ Then(p, <<u>>)
    BY <1>5, <2>1, <2>2 DEF Reactivate
  <2>4. w \in Workspaces
    BY <1>1, <1>5, <2>1, Kinds DEF Reactivate, At, Task
  <2>5. status[w] \in Statuses
    BY <2>4 DEF Records
  <2>6. u \in Tasks /\ u.do = "change"
    BY <2>2, <2>4, <2>5 DEF Change, Tasks, Statuses
  <2> QED BY <1>0, <2>3, <2>6, HushedAfterNothing, HushedAfterOne
<1> QED BY <1>0, <1>2, <1>3, <1>4, <1>5

(* Who goes on or stops without telling leaves the counts balanced.        *)
LEMMA HushedTelling ==
  ASSUME NEW p \in Processes, Hushed(p), NEW w, NEW closed \in BOOLEAN
  PROVE  Telling(w, closed)' \subseteq Telling(w, closed) \ {p}
<1> SUFFICES ASSUME NEW q \in Telling(w, closed)' PROVE q \in Telling(w, closed) \ {p}
  OBVIOUS
<1>1. q \in Processes /\ agenda'[q] # <<>> /\ Tells(Task(q)', w, closed)
  BY DEF Telling
<1>2. q # p
  BY <1>1 DEF Hushed, Tells
<1>3. agenda'[q] = agenda[q]
  BY <1>1, <1>2 DEF Hushed
<1> QED BY <1>1, <1>2, <1>3 DEF Telling, Task

LEMMA HushedNotices ==
  ASSUME Typed, NoticeInv, NEW p \in Processes, Hushed(p), UNCHANGED count
  PROVE  NoticeInv'
<1> SUFFICES ASSUME NEW w \in Workspaces, NEW closed \in BOOLEAN
             PROVE  /\ IsFiniteSet(Telling(w, closed)')
                    /\ Told(w, closed)' + Cardinality(Telling(w, closed)') <= Made(w, closed)'
  BY DEF NoticeInv
<1>1. Telling(w, closed)' \subseteq Telling(w, closed)
  BY HushedTelling
<1>2. /\ IsFiniteSet(Telling(w, closed))
      /\ Told(w, closed) + Cardinality(Telling(w, closed)) <= Made(w, closed)
  BY DEF NoticeInv
<1>3. /\ IsFiniteSet(Telling(w, closed)') /\ Cardinality(Telling(w, closed)') \in Nat
      /\ Cardinality(Telling(w, closed)) \in Nat
      /\ Cardinality(Telling(w, closed)') <= Cardinality(Telling(w, closed))
  BY <1>1, <1>2, Fewer
<1>4. Told(w, closed) \in Nat /\ Made(w, closed) \in Nat
  BY DEF Told, Made, Typed, Records
<1>5. Told(w, closed)' = Told(w, closed) /\ Made(w, closed)' = Made(w, closed)
  BY DEF Told, Made
<1> QED BY <1>2, <1>3, <1>4, <1>5

(* ChangeStatus, where billing begins to tell or nobody has anything to.   *)
LEMMA ChangeCounts ==
  ASSUME Typed, InOrder, AreSound, NEW p \in Processes, ChangeStatus(p)
  PROVE  \/ Hushed(p) /\ UNCHANGED <<link, marker, count>>
         \/ \E w \in Workspaces, closed \in BOOLEAN :
              /\ count' = IF closed THEN [count EXCEPT ![w].closed = @ + 1]
                          ELSE [count EXCEPT ![w].opened = @ + 1]
              /\ \A q \in Processes \ {p} : agenda'[q] = agenda[q]
              /\ Task(p)' = [do |-> IF closed THEN "mark" ELSE "unmark", ws |-> w]
              /\ UNCHANGED <<link, marker>>
<1>1. PICK t : t = Task(p)
  OBVIOUS
<1>2. /\ agenda[p] # <<>> /\ t.do = "change" /\ t \in Tasks /\ Sound(t)
      /\ UNCHANGED <<link, marker>>
  BY <1>1, TaskInHand DEF ChangeStatus
<1>3. t.ws \in Workspaces /\ t.by \in {"admin", "billing"}
  BY <1>2, Kinds
<1>4. CASE Then(p, <<>>) /\ UNCHANGED count
  BY <1>2, <1>4, HushedAfterNothing
<1>5. CASE status[t.ws] = t.from /\ count' = Counted(t) /\ Then(p, AfterChange(t))
  <2>1. CASE t.by = "admin"
    <3>1. Then(p, <<>>) /\ UNCHANGED count
      BY <1>5, <2>1 DEF AfterChange, Counted
    <3> QED BY <1>4, <3>1
  <2>2. CASE t.by = "billing"
    <3>1. PICK w, closed : w = t.ws /\ closed = (t.to = "suspended")
      OBVIOUS
    <3>2. PICK u : u = [do |-> IF closed THEN "mark" ELSE "unmark", ws |-> w]
      OBVIOUS
    <3>3. \/ t.from = "active" /\ t.to = "suspended"
          \/ t.from # "active" /\ t.to = "active"
      BY <1>2, <2>2 DEF Sound
    <3>4. count' = IF closed THEN [count EXCEPT ![w].closed = @ + 1]
                   ELSE [count EXCEPT ![w].opened = @ + 1]
      BY <1>5, <2>2, <3>1, <3>3 DEF Counted
    <3>5. Then(p, <<u>>)
      BY <1>5, <2>2, <3>1, <3>2 DEF AfterChange
    <3>6. u \in Tasks
      BY <1>3, <3>1, <3>2 DEF Tasks
    <3>7. /\ \A q \in Processes \ {p} : agenda'[q] = agenda[q]
          /\ Task(p)' = u
      BY <1>2, <3>5, <3>6, TodoAfterOne
    <3> QED BY <1>2, <1>3, <3>1, <3>2, <3>4, <3>7
  <2> QED BY <1>3, <2>1, <2>2
<1> QED BY <1>1, <1>4, <1>5 DEF ChangeStatus

LEMMA MarkerWritten ==
  ASSUME Typed, InOrder, AreSound, NEW p \in Processes, WriteMarker(p)
  PROVE  /\ UNCHANGED <<link, count>>
         /\ \/ Hushed(p) /\ UNCHANGED marker
            \/ \E w \in Workspaces, closed \in BOOLEAN :
                 /\ agenda[p] # <<>> /\ Tells(Task(p), w, closed)
                 /\ marker' = [marker EXCEPT ![w] = closed]
                 /\ \A q \in Processes \ {p} : agenda'[q] = agenda[q]
                 /\ Task(p)' = [do |-> "notify", ws |-> w, closed |-> closed]
<1>1. PICK t : t = Task(p)
  OBVIOUS
<1>2. /\ agenda[p] # <<>> /\ t.do \in {"mark", "unmark"} /\ t \in Tasks
      /\ UNCHANGED <<link, count>>
  BY <1>1, TaskInHand DEF WriteMarker
<1>3. PICK w, closed : w = t.ws /\ closed = (t.do = "mark")
  OBVIOUS
<1>4. w \in Workspaces /\ closed \in BOOLEAN /\ Tells(t, w, closed)
  BY <1>2, <1>3, Kinds DEF Tells
<1>5. PICK u : u = [do |-> "notify", ws |-> w, closed |-> closed]
  OBVIOUS
<1>6. \/ Then(p, <<>>) /\ UNCHANGED marker
      \/ Then(p, <<u>>) /\ marker' = [marker EXCEPT ![w] = closed]
  BY <1>1, <1>3, <1>5 DEF WriteMarker
<1>7. u \in Tasks
  BY <1>4, <1>5 DEF Tasks
<1>8. Then(p, <<u>>) => Task(p)' = u /\ \A q \in Processes \ {p} : agenda'[q] = agenda[q]
  BY <1>2, <1>7, TodoAfterOne
<1> QED BY <1>1, <1>2, <1>4, <1>5, <1>6, <1>8, HushedAfterNothing

LEMMA NoticeStep ==
  ASSUME Typed, InOrder, AreSound, NoticeInv, [Next]_vars
  PROVE  NoticeInv'
<1> USE DEF Typed
<1>1. ASSUME NEW p \in Processes, ChangeStatus(p) PROVE NoticeInv'
  <2>1. CASE Hushed(p) /\ UNCHANGED count
    BY <2>1, HushedNotices
  <2>2. ASSUME NEW w \in Workspaces, NEW closed \in BOOLEAN,
               count' = IF closed THEN [count EXCEPT ![w].closed = @ + 1]
                        ELSE [count EXCEPT ![w].opened = @ + 1],
               \A q \in Processes \ {p} : agenda'[q] = agenda[q],
               Task(p)' = [do |-> IF closed THEN "mark" ELSE "unmark", ws |-> w]
        PROVE  NoticeInv'
    <3> SUFFICES ASSUME NEW v \in Workspaces, NEW b \in BOOLEAN
                 PROVE  /\ IsFiniteSet(Telling(v, b)')
                        /\ Told(v, b)' + Cardinality(Telling(v, b)') <= Made(v, b)'
      BY DEF NoticeInv
    <3>1. /\ IsFiniteSet(Telling(v, b))
          /\ Told(v, b) + Cardinality(Telling(v, b)) <= Made(v, b)
      BY DEF NoticeInv
    <3>2. Told(v, b) \in Nat /\ Made(v, b) \in Nat
      BY DEF Told, Made, Records
    <3>3. /\ Told(v, b)' = Told(v, b)
          /\ Made(v, b)' = IF v = w /\ b = closed THEN Made(v, b) + 1 ELSE Made(v, b)
      BY <2>2 DEF Told, Made, Records
    <3>4. Telling(v, b)' \subseteq Telling(v, b) \cup {p}
      BY <2>2 DEF Telling, Task
    <3>5. ~(v = w /\ b = closed) => Telling(v, b)' \subseteq Telling(v, b)
      BY <2>2 DEF Telling, Task, Tells
    <3>6. CASE v = w /\ b = closed
      <4>1. /\ IsFiniteSet(Telling(v, b)') /\ Cardinality(Telling(v, b)') \in Nat
            /\ Cardinality(Telling(v, b)) \in Nat
            /\ Cardinality(Telling(v, b)') <= Cardinality(Telling(v, b)) + 1
        BY <3>1, <3>4, OneMore
      <4> QED BY <3>1, <3>2, <3>3, <3>6, <4>1
    <3>7. CASE ~(v = w /\ b = closed)
      <4>1. /\ IsFiniteSet(Telling(v, b)') /\ Cardinality(Telling(v, b)') \in Nat
            /\ Cardinality(Telling(v, b)) \in Nat
            /\ Cardinality(Telling(v, b)') <= Cardinality(Telling(v, b))
        BY <3>1, <3>5, <3>7, Fewer
      <4> QED BY <3>1, <3>2, <3>3, <3>7, <4>1
    <3> QED BY <3>6, <3>7
  <2> QED BY <1>1, <2>1, <2>2, ChangeCounts
<1>2. ASSUME NEW p \in Processes, WriteMarker(p) PROVE NoticeInv'
  <2>1. UNCHANGED count
    BY <1>2, MarkerWritten
  <2>2. CASE Hushed(p)
    BY <2>1, <2>2, HushedNotices
  <2>3. ASSUME NEW w \in Workspaces, NEW closed \in BOOLEAN,
               agenda[p] # <<>>, Tells(Task(p), w, closed),
               \A q \in Processes \ {p} : agenda'[q] = agenda[q],
               Task(p)' = [do |-> "notify", ws |-> w, closed |-> closed]
        PROVE  NoticeInv'
    <3> SUFFICES ASSUME NEW v \in Workspaces, NEW b \in BOOLEAN
                 PROVE  /\ IsFiniteSet(Telling(v, b)')
                        /\ Told(v, b)' + Cardinality(Telling(v, b)') <= Made(v, b)'
      BY DEF NoticeInv
    <3>1. /\ IsFiniteSet(Telling(v, b))
          /\ Told(v, b) + Cardinality(Telling(v, b)) <= Made(v, b)
      BY DEF NoticeInv
    <3>2. Told(v, b) \in Nat /\ Made(v, b) \in Nat
      BY DEF Told, Made, Records
    <3>3. Told(v, b)' = Told(v, b) /\ Made(v, b)' = Made(v, b)
      BY <2>1 DEF Told, Made
    <3>4. Telling(v, b)' \subseteq Telling(v, b)
      <4> SUFFICES ASSUME NEW q \in Telling(v, b)' PROVE q \in Telling(v, b)
        OBVIOUS
      <4>1. CASE q = p
        <5>1. v = w /\ b = closed
          BY <2>3, <4>1 DEF Telling, Tells
        <5> QED BY <2>3, <4>1, <5>1 DEF Telling
      <4>2. CASE q # p
        BY <2>3, <4>2 DEF Telling, Task
      <4> QED BY <4>1, <4>2
    <3>5. /\ IsFiniteSet(Telling(v, b)') /\ Cardinality(Telling(v, b)') \in Nat
          /\ Cardinality(Telling(v, b)) \in Nat
          /\ Cardinality(Telling(v, b)') <= Cardinality(Telling(v, b))
      BY <3>1, <3>4, Fewer
    <3> QED BY <3>1, <3>2, <3>3, <3>5
  <2> QED BY <1>2, <2>2, <2>3, MarkerWritten
<1>3. ASSUME NEW p \in Processes, Notify(p) PROVE NoticeInv'
  <2>1. PICK t : t = Task(p)
    OBVIOUS
  <2>2. PICK w, closed : w = t.ws /\ closed = t.closed
    OBVIOUS
  <2>3. /\ agenda[p] # <<>> /\ t.do = "notify" /\ t \in Tasks
        /\ Then(p, <<>>)
        /\ count' = IF closed THEN [count EXCEPT ![w].toldClosed = @ + 1]
                    ELSE [count EXCEPT ![w].toldOpened = @ + 1]
    BY <1>3, <2>1, <2>2, TaskInHand DEF Notify
  <2>4. w \in Workspaces /\ closed \in BOOLEAN
    BY <2>2, <2>3, Kinds
  <2>5. Hushed(p)
    BY <2>3, HushedAfterNothing
  <2>6. p \in Telling(w, closed)
    BY <2>1, <2>2, <2>3 DEF Telling, Tells
  <2> SUFFICES ASSUME NEW v \in Workspaces, NEW b \in BOOLEAN
               PROVE  /\ IsFiniteSet(Telling(v, b)')
                      /\ Told(v, b)' + Cardinality(Telling(v, b)') <= Made(v, b)'
    BY DEF NoticeInv
  <2>7. /\ IsFiniteSet(Telling(v, b))
        /\ Told(v, b) + Cardinality(Telling(v, b)) <= Made(v, b)
    BY DEF NoticeInv
  <2>8. Told(v, b) \in Nat /\ Made(v, b) \in Nat
    BY DEF Told, Made, Records
  <2>9. /\ Told(v, b)' = IF v = w /\ b = closed THEN Told(v, b) + 1 ELSE Told(v, b)
        /\ Made(v, b)' = Made(v, b)
    BY <2>3, <2>4 DEF Told, Made, Records
  <2>10. Telling(v, b)' \subseteq Telling(v, b) \ {p}
    BY <2>5, HushedTelling
  <2>11. CASE v = w /\ b = closed
    <3>1. /\ IsFiniteSet(Telling(v, b)') /\ Cardinality(Telling(v, b)') \in Nat
          /\ Cardinality(Telling(v, b)) \in Nat
          /\ Cardinality(Telling(v, b)') + 1 <= Cardinality(Telling(v, b))
      BY <2>6, <2>7, <2>10, <2>11, OneLess
    <3> QED BY <2>7, <2>8, <2>9, <2>11, <3>1
  <2>12. CASE ~(v = w /\ b = closed)
    <3>1. /\ IsFiniteSet(Telling(v, b)') /\ Cardinality(Telling(v, b)') \in Nat
          /\ Cardinality(Telling(v, b)) \in Nat
          /\ Cardinality(Telling(v, b)') <= Cardinality(Telling(v, b))
      BY <2>7, <2>10, Fewer
    <3> QED BY <2>7, <2>8, <2>9, <2>12, <3>1
  <2> QED BY <2>11, <2>12
<1>4. ASSUME NEW p \in Processes, Starts(p), Event(p) \/ SuspendOverdue(p) PROVE NoticeInv'
  <2>1. UNCHANGED count
    BY <1>4 DEF Event, SuspendOverdue, InvoicePaid, ContractCreated, ContractEnded,
                SetWorkspaceLink, SetStatus
  <2> QED BY <1>4, <2>1, HushedStart, HushedNotices
<1>5. ASSUME NEW p \in Processes, Syncs(p), SyncStep(p) PROVE NoticeInv'
  <2>1. UNCHANGED count
    BY <1>5 DEF SyncStep, SyncContract, ListActive, Upsert, ExpireByID, Written, ExpireDefault,
                RevokeContract, RestoreDefault, GrantDefault
  <2>2. Hushed(p)
    <3>1. \A u : u.do \in SyncTasks => u.do \notin {"mark", "unmark", "notify"}
      BY DEF SyncTasks
    <3> QED BY <1>5, <3>1, HushedAfterNothing, HushedAfterOne DEF Syncs
  <2> QED BY <2>1, <2>2, HushedNotices
<1>6. ASSUME NEW p \in Processes,
             CheckWorkspace(p) \/ FindSettled(p) \/ CheckOwed(p) \/ Reactivate(p)
      PROVE  NoticeInv'
  BY <1>6, HushedCalm, HushedNotices
<1>7. ASSUME NEW p \in Processes, StatementFails(p) PROVE NoticeInv'
  BY <1>7, HushedAfterNothing, HushedNotices DEF StatementFails
<1>8. ASSUME NEW p \in Processes, Crash(p) PROVE NoticeInv'
  <2>1. agenda' = [agenda EXCEPT ![p] = <<>>] /\ UNCHANGED count
    BY <1>8 DEF Crash
  <2>2. Hushed(p)
    BY <2>1 DEF Hushed, Agendas
  <2> QED BY <2>1, <2>2, HushedNotices
<1>9. ASSUME UNCHANGED <<agenda, count>> PROVE NoticeInv'
  BY <1>9 DEF NoticeInv, Telling, Task, Told, Made
<1> QED BY <1>1, <1>2, <1>3, <1>4, <1>5, <1>6, <1>7, <1>8, <1>9, Steps
        DEF StatusStep, GoLate, vars

NoticeAssumed == Typed /\ InOrder /\ AreSound /\ DefaultIsFree /\ NoticeInv

LEMMA NoticeInit == Init => NoticeAssumed
<1> SUFFICES ASSUME Init PROVE NoticeAssumed
  OBVIOUS
<1>1. AccessInv
  BY AccessInit
<1>2. ASSUME NEW w \in Workspaces, NEW closed \in BOOLEAN
      PROVE  /\ Telling(w, closed) = {}
             /\ Told(w, closed) = 0 /\ Made(w, closed) = 0
  BY <1>2 DEF Telling, Told, Made, Init
<1>3. NoticeInv
  BY <1>2, FS_EmptySet DEF NoticeInv
<1> QED BY <1>1, <1>3 DEF AccessInv, NoticeAssumed

LEMMA NoticeAssumedStep == NoticeAssumed /\ [Next]_vars => NoticeAssumed'
BY TypedStep, InOrderStep, AreSoundStep, RowsStay, NoticeStep DEF NoticeAssumed

LEMMA NoticeInvariant == Spec => []NoticeAssumed
BY NoticeInit, NoticeAssumedStep, PTL DEF Spec, Safety

(* LifecycleRepository.ChangeStatus compares the status it locks with the  *)
(* one that was read: of two runs, or two payments, that found the same    *)
(* status one changes it, and tells the owners once.                       *)
THEOREM OneNoticePerStatus == Spec => []OneNoticePerChange
<1>1. NoticeAssumed => OneNoticePerChange
  <2> SUFFICES ASSUME NoticeAssumed, NEW w \in Workspaces
               PROVE  /\ count[w].toldClosed <= count[w].closed
                      /\ count[w].toldOpened <= count[w].opened
    BY DEF OneNoticePerChange
  <2>1. ASSUME NEW closed \in BOOLEAN PROVE Told(w, closed) <= Made(w, closed)
    <3>1. /\ IsFiniteSet(Telling(w, closed))
          /\ Told(w, closed) + Cardinality(Telling(w, closed)) <= Made(w, closed)
      BY DEF NoticeAssumed, NoticeInv
    <3>2. Cardinality(Telling(w, closed)) \in Nat
      BY <3>1, FS_CardinalityType
    <3>3. Told(w, closed) \in Nat /\ Made(w, closed) \in Nat
      BY DEF Told, Made, NoticeAssumed, Typed, Records
    <3> QED BY <3>1, <3>2, <3>3
  <2>2. Told(w, TRUE) <= Made(w, TRUE) /\ Told(w, FALSE) <= Made(w, FALSE)
    BY <2>1
  <2> QED BY <2>2 DEF Told, Made
<1> QED BY <1>1, NoticeInvariant, PTL

(* A workspace is linked to one company.                                   *)
Linked == \A j, k \in Companies : link[j] = link[k] => j = k \/ link[j] = Nobody

(* Only a workspace that billing has suspended is marked.                  *)
Marked == \A w \in Workspaces : marker[w] => count[w].closed > 0

LEMMA LinkedStep ==
  ASSUME Typed, AreSound, Linked, [Next]_vars
  PROVE  Linked'
<1>1. ASSUME NEW p \in Processes, NEW k \in Companies, NEW w \in Workspaces \cup {Nobody},
             SetWorkspaceLink(p, k, w)
      PROVE  Linked'
  <2>1. /\ link' = [link EXCEPT ![k] = w]
        /\ w = Nobody \/ \A j \in Companies \ {k} : link[j] # w
    BY <1>1 DEF SetWorkspaceLink, Linkable
  <2> QED BY <2>1 DEF Linked, Typed, Records
<1>2. ASSUME UNCHANGED link PROVE Linked'
  BY <1>2 DEF Linked
<1>3. ASSUME NEW p \in Processes, Event(p) \/ SuspendOverdue(p) PROVE Linked'
  BY <1>1, <1>2, <1>3 DEF Event, SuspendOverdue, InvoicePaid, ContractCreated, ContractEnded,
                          SetStatus, data
<1>4. ASSUME NEW p \in Processes, SyncStep(p) PROVE Linked'
  BY <1>2, <1>4, SyncDoubts
<1>5. ASSUME NEW p \in Processes, StatementFails(p) \/ Crash(p) PROVE Linked'
  BY <1>2, <1>5 DEF StatementFails, Crash, data
<1> QED BY <1>2, <1>3, <1>4, <1>5, Steps DEF Calm, GoLate, vars

LEMMA MarkedStep ==
  ASSUME NoticeAssumed, Marked, [Next]_vars
  PROVE  Marked'
<1> USE DEF NoticeAssumed
<1>0. ASSUME UNCHANGED <<marker, count>> PROVE Marked'
  BY <1>0 DEF Marked
<1>1. ASSUME NEW p \in Processes, ChangeStatus(p) PROVE Marked'
  <2>1. ASSUME NEW w \in Workspaces, NEW closed \in BOOLEAN, UNCHANGED marker,
               count' = IF closed THEN [count EXCEPT ![w].closed = @ + 1]
                        ELSE [count EXCEPT ![w].opened = @ + 1]
        PROVE  Marked'
    <3>1. \A v \in Workspaces : count[v].closed \in Nat /\ count'[v].closed >= count[v].closed
      BY <2>1 DEF Typed, Records
    <3>2. \A v \in Workspaces : count'[v].closed \in Nat
      BY <2>1 DEF Typed, Records
    <3> QED BY <2>1, <3>1, <3>2 DEF Marked
  <2> QED BY <1>0, <1>1, <2>1, ChangeCounts
<1>2. ASSUME NEW p \in Processes, WriteMarker(p) PROVE Marked'
  <2>1. UNCHANGED count
    BY <1>2, MarkerWritten
  <2>2. ASSUME NEW w \in Workspaces, NEW closed \in BOOLEAN, agenda[p] # <<>>,
               Tells(Task(p), w, closed), marker' = [marker EXCEPT ![w] = closed]
        PROVE  Marked'
    <3>1. p \in Telling(w, closed)
      BY <2>2 DEF Telling
    <3>2. /\ IsFiniteSet(Telling(w, closed))
          /\ Told(w, closed) + Cardinality(Telling(w, closed)) <= Made(w, closed)
      BY DEF NoticeInv
    <3>3. /\ Cardinality({}) \in Nat
          /\ Cardinality(Telling(w, closed)) \in Nat
          /\ Cardinality({}) + 1 <= Cardinality(Telling(w, closed))
      BY <3>1, <3>2, OneLess
    <3>4. Told(w, closed) \in Nat /\ Made(w, closed) \in Nat
      BY DEF Told, Made, Typed, Records
    <3>5. Made(w, closed) > 0
      BY <3>2, <3>3, <3>4
    <3>6. closed => count[w].closed > 0
      BY <3>5 DEF Made
    <3>7. \A v \in Workspaces : marker'[v] = IF v = w THEN closed ELSE marker[v]
      BY <2>2 DEF Typed, Records
    <3> QED BY <2>1, <3>6, <3>7 DEF Marked
  <2> QED BY <1>0, <1>2, <2>1, <2>2, MarkerWritten
<1>3. ASSUME NEW p \in Processes, Notify(p) PROVE Marked'
  <2>1. PICK w, told : /\ w = Task(p).ws
                       /\ count' = IF told THEN [count EXCEPT ![w].toldClosed = @ + 1]
                                   ELSE [count EXCEPT ![w].toldOpened = @ + 1]
    BY <1>3 DEF Notify
  <2>2. UNCHANGED marker
    BY <1>3 DEF Notify, data
  <2>3. \A v \in Workspaces : count'[v].closed = count[v].closed
    BY <2>1 DEF Typed, Records
  <2> QED BY <2>2, <2>3 DEF Marked
<1>4. ASSUME NEW p \in Processes, Event(p) \/ SuspendOverdue(p) PROVE Marked'
  BY <1>0, <1>4 DEF Event, SuspendOverdue, InvoicePaid, ContractCreated, ContractEnded,
                    SetWorkspaceLink, SetStatus, data
<1>5. ASSUME NEW p \in Processes, SyncStep(p) PROVE UNCHANGED <<marker, count>>
  BY <1>5 DEF SyncStep, SyncContract, ListActive, Upsert, ExpireByID, Written, ExpireDefault,
              RevokeContract, RestoreDefault, GrantDefault, data
<1>6. ASSUME NEW p \in Processes,
             CheckWorkspace(p) \/ FindSettled(p) \/ CheckOwed(p) \/ Reactivate(p)
      PROVE  Marked'
  BY <1>0, <1>6, HushedCalm
<1>7. ASSUME NEW p \in Processes, StatementFails(p) \/ Crash(p) PROVE Marked'
  BY <1>0, <1>7 DEF StatementFails, Crash, data
<1> QED BY <1>0, <1>1, <1>2, <1>3, <1>4, <1>5, <1>6, <1>7, Steps
        DEF StatusStep, GoLate, vars

(* The unique index of the link, and the marker that follows the change.   *)
THEOREM AccessTypes == Spec => []TypeOK
<1>1. Init => Linked /\ Marked
  BY AccessAssumption DEF Init, Linked, Marked
<1>2. NoticeAssumed /\ Linked /\ Marked /\ [Next]_vars => (Linked /\ Marked)'
  BY LinkedStep, MarkedStep DEF NoticeAssumed
<1>3. NoticeAssumed /\ Linked /\ Marked => TypeOK
  BY DEF NoticeAssumed, Typed, Records, Agendas, Linked, Marked, TypeOK
<1> QED BY <1>1, <1>2, <1>3, NoticeInvariant, PTL DEF Spec, Safety

=============================================================================
