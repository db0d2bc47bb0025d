---------------------------- MODULE WhatsAppChat ----------------------------
(* One WhatsApp session of an organisation and one chat of it: the webhook *)
(* events WAHA posts, the workers that claim them with leases, the staff   *)
(* who write and retry messages and start, stop or delete the session, and *)
(* the reconciler that reads the session's status from WAHA.  Sessions and *)
(* chats are independent of each other.                                    *)
(*                                                                         *)
(* A process's frame says where it is between two transactions or calls;   *)
(* a step is one transaction or one call with the reads before it.         *)
EXTENDS Integers, Sequences, FiniteSets

CONSTANTS
  Workers,      \* inbound processors, one per worker process
  Reconcilers,  \* status reconcilers, one per worker process
  Staff,        \* requests of members in progress at the same time
  Inbound,      \* WAHA ids of messages of the contact
  Phone,        \* WAHA ids of messages the owner sends on the phone
  Api,          \* WAHA ids of messages sent for the application
  Drafts,       \* rows that Send and SendDocument make
  Documents,    \* the drafts with a file, which is not kept
  Statuses,     \* the session statuses that occur
  FirstAcks,    \* acks that the message events of outgoing messages carry
  Acks,         \* acks that WAHA sends later
  KnownPhone,   \* whether the CRM has a lead or contact of the number
  MaxAttempts,
  MaxChanges,   \* bound: changes of the session's status at WAHA
  Plans,        \* bound: what the environment may do in one behaviour
  None          \* the WAHA id of a message not sent

WahaIds == Inbound \cup Phone \cup Api
Disconnected == {"FAILED", "STOPPED", "SCAN_QR_CODE"}
Processes == Workers \cup Reconcilers \cup Staff

(* The events of a message have two ids, "message" and "message.any".  Of  *)
(* a message sent through the API there is one event, which names the      *)
(* source (copy 1) or, with some engines, does not.                        *)
MessageEvents(x) ==
  [kind : {"message"}, id : {x}, copy : {1, 2},
   ack : IF x \in Inbound THEN {4} ELSE FirstAcks]
AckEvents(x) == [kind : {"ack"}, id : {x}, ack : Acks]
StatusEvents == [kind : {"status"}, nr : 1..MaxChanges, status : Statuses]
Names ==
  (UNION {MessageEvents(x) \cup AckEvents(x) : x \in WahaIds}) \cup StatusEvents

ASSUME ChatAssumption ==
  /\ Workers \cap Reconcilers = {}
  /\ Workers \cap Staff = {}
  /\ Reconcilers \cap Staff = {}
  /\ Inbound \cap Phone = {}
  /\ Inbound \cap Api = {}
  /\ Phone \cap Api = {}
  /\ WahaIds \cap Drafts = {}
  /\ Documents \subseteq Drafts
  /\ Statuses \subseteq {"WORKING", "STARTING"} \cup Disconnected
  /\ "WORKING" \in Statuses
  /\ FirstAcks \subseteq -1..4
  /\ Acks \subseteq -1..4
  /\ KnownPhone \in BOOLEAN
  /\ MaxAttempts \in Nat \ {0}
  /\ MaxChanges \in Nat
  /\ Plans \subseteq
       [active : SUBSET Processes, ids : SUBSET (WahaIds \cup Drafts),
        hooks : SUBSET Names, changes : 0..MaxChanges, faults : Nat]
  /\ None \notin WahaIds

VARIABLES
  waha,        \* [status, used, sent]: its session, the ids it has used,
               \* and the webhooks it has sent that have not arrived
  event,       \* wa_webhook_events: name -> [attempts, due, done]
  session,     \* wa_sessions: [status, deleted]
  conv,        \* wa_conversations: [exists, linked, unread, day]
  msg,         \* wa_messages, in the order in which the rows were made
  crm,         \* [leads, activities] made in the CRM
  proc,        \* what each process is doing
  notices,     \* notices of a disconnect to the owners
  drops,       \* times the stored status left WORKING
  left         \* [active, hooks, ids, changes, faults]: the processes that take
               \* part, the webhooks that arrive, and what may still happen

vars == <<waha, event, session, conv, msg, crm, proc, notices, drops, left>>

Idle ==
  [at |-> "idle", todo |-> {}, event |-> None, status |-> None, linked |-> FALSE,
   row |-> 0, from |-> None, id |-> None]

Init ==
  /\ waha = [status |-> "WORKING", used |-> {}, sent |-> {}]
  /\ event = <<>>
  /\ session = [status |-> "WORKING", deleted |-> FALSE]
  /\ conv = [exists |-> FALSE, linked |-> FALSE, unread |-> 0, day |-> FALSE]
  /\ msg = <<>>
  /\ crm = [leads |-> 0, activities |-> 0]
  /\ proc = [p \in Processes |-> Idle]
  /\ notices = 0
  /\ drops = 0
  /\ left \in Plans

-----------------------------------------------------------------------------
(* f with the value v at k. *)
Put(f, k, v) == [x \in DOMAIN f \cup {k} |-> IF x = k THEN v ELSE f[x]]

Free(p) == p \in left.active /\ proc[p].at = "idle"

Goto(p, frame) == proc' = [proc EXCEPT ![p] = frame]

(* messageStatusRank; failed stands outside of the order. *)
Rank(s) ==
  CASE s = "pending" -> 0 [] s = "sent" -> 1 [] s = "delivered" -> 2 [] s = "read" -> 3
    [] OTHER -> -1

CanTransitionTo(s, next) ==
  /\ s # next
  /\ \/ s = "failed" /\ next = "pending"
     \/ s = "pending" /\ next = "failed"
     \/ s # "failed" /\ next # "failed" /\ Rank(next) > Rank(s)

StatusFromAck(a) ==
  CASE a = -1 -> "failed" [] a = 0 -> "pending" [] a = 1 -> "sent"
    [] a = 2 -> "delivered" [] OTHER -> "read"

(* A row that was deleted keeps its place in msg: no id is used again. *)
Rows == {r \in DOMAIN msg : msg[r].status # "deleted"}

(* The row of the unique index on the WAHA id. *)
RowsOf(x) == {r \in DOMAIN msg : msg[r].waha = x}

(* Mutant: any change to a disconnected status, whatever was stored. *)
IsDisconnectNow(previous, current) == current \in Disconnected

IsDisconnect(previous, current) ==
  previous = "WORKING" /\ current \in Disconnected

-----------------------------------------------------------------------------
(* WAHA, which posts its webhooks with retries until it gives up: one may  *)
(* arrive late, after a later one, or never.                               *)

(* The contact or the owner, on the phone, writes in the chat. *)
WriteOnPhone(x) ==
  /\ x \in left.ids \cap (Inbound \cup Phone)
  /\ waha.status = "WORKING"
  /\ \E a \in {n.ack : n \in MessageEvents(x)} :
       waha' = [waha EXCEPT
         !.used = @ \cup {x},
         !.sent = @ \cup {n \in MessageEvents(x) : n.ack = a}
                    \cup (IF x \in Phone THEN AckEvents(x) ELSE {})]
  /\ left' = [left EXCEPT !.ids = @ \ {x}]
  /\ UNCHANGED <<event, session, conv, msg, crm, proc, notices, drops>>

SetWahaStatus(st) ==
  /\ left.changes > 0
  /\ waha.status \notin {st, "gone"}
  /\ left' = [left EXCEPT !.changes = @ - 1]
  /\ waha' = [waha EXCEPT
       !.status = st,
       !.sent = @ \cup {[kind |-> "status", nr |-> left.changes, status |-> st]}]

(* The phone loses its link, is paired again, or WAHA restarts. *)
WahaChanges ==
  /\ \E st \in Statuses : SetWahaStatus(st)
  /\ UNCHANGED <<event, session, conv, msg, crm, proc, notices, drops>>

(* Receive: a webhook that was stored before changes nothing, and one of a *)
(* deleted session is acknowledged and forgotten.                          *)
Receive(n) ==
  /\ n \in waha.sent \cap left.hooks
  /\ waha' = [waha EXCEPT !.sent = @ \ {n}]
  /\ IF session.deleted
       THEN UNCHANGED event
       ELSE event' = Put(event, n, [attempts |-> 0, due |-> TRUE, done |-> FALSE])
  /\ UNCHANGED <<session, conv, msg, crm, proc, notices, drops, left>>

-----------------------------------------------------------------------------
(* The inbound processor *)

(* Mutant: as if a claim were for good. *)
WaitForBackoff(n) ==
  /\ n \in DOMAIN event
  /\ ~event[n].due /\ ~event[n].done
  /\ event[n].attempts = 0
  /\ event' = [event EXCEPT ![n].due = TRUE]
  /\ UNCHANGED <<waha, session, conv, msg, crm, proc, notices, drops, left>>

(* The lease of a claim, or the backoff of a failure, is over; a lease may *)
(* run out while its worker is still busy with the batch.                  *)
WaitIsOver(n) ==
  /\ n \in DOMAIN event
  /\ ~event[n].due /\ ~event[n].done
  /\ event' = [event EXCEPT ![n].due = TRUE]
  /\ UNCHANGED <<waha, session, conv, msg, crm, proc, notices, drops, left>>

Due == {n \in DOMAIN event :
          event[n].due /\ ~event[n].done /\ event[n].attempts < MaxAttempts}

ClaimDue(w) ==
  /\ Free(w)
  /\ Due # {}
  /\ event' = [n \in DOMAIN event |->
       IF n \in Due THEN [event[n] EXCEPT !.attempts = @ + 1, !.due = FALSE]
       ELSE event[n]]
  /\ Goto(w, [Idle EXCEPT !.at = "batch", !.todo = Due])
  /\ UNCHANGED <<waha, session, conv, msg, crm, notices, drops, left>>

(* The next event of the batch when the one in progress is answered. *)
NextOf(p) ==
  IF p \in Workers /\ proc[p].todo # {}
    THEN [Idle EXCEPT !.at = "batch", !.todo = proc[p].todo]
    ELSE Idle

(* Where a frame goes when its handler has returned: a worker marks its    *)
(* event, a request of staff is answered.                                  *)
Returned(p) ==
  IF p \in Workers
    THEN [Idle EXCEPT !.at = "mark", !.todo = proc[p].todo, !.event = proc[p].event]
    ELSE Idle

(* The day's activity comes first when the conversation has an entity.     *)
WithActivity(p) ==
  IF proc[p].linked THEN [Returned(p) EXCEPT !.at = "activity"] ELSE Returned(p)

Handle(w, n, at) ==
  [Idle EXCEPT !.at = at, !.todo = proc[w].todo \ {n}, !.event = n]

(* process, up to its first write: the session, then what the event is     *)
(* about.  An event of a deleted session, one of a message that was sent   *)
(* through the API, an ack of an unknown message and one that brings       *)
(* nothing new are done with.                                              *)
Begin(w, n) ==
  /\ proc[w].at = "batch"
  /\ n \in proc[w].todo
  /\ Goto(w,
       IF session.deleted THEN Handle(w, n, "mark")
       ELSE CASE n.kind = "status" ->
                   [Handle(w, n, "observed") EXCEPT !.status = n.status]
              [] n.kind = "message" /\ n.id \in Api /\ n.copy = 1 ->
                   Handle(w, n, "mark")
              [] n.kind = "message" /\ ~(n.id \in Api /\ n.copy = 1) ->
                   IF conv.exists
                     THEN [Handle(w, n, "record") EXCEPT !.linked = conv.linked]
                     ELSE Handle(w, n, "match")
              [] n.kind = "ack" ->
                   IF \E r \in RowsOf(n.id) :
                        CanTransitionTo(msg[r].status, StatusFromAck(n.ack))
                     THEN LET r == CHOOSE r \in RowsOf(n.id) : TRUE IN
                          [Handle(w, n, "ack") EXCEPT !.row = r, !.from = msg[r].status]
                     ELSE Handle(w, n, "mark"))
  /\ UNCHANGED <<waha, event, session, conv, msg, crm, notices, drops, left>>

(* conversationFor on a new number: the CRM's match, else a lead, unless   *)
(* the quota of leads is full.                                             *)
MatchPhone(w) ==
  /\ proc[w].at = "match"
  /\ Goto(w, IF KnownPhone \/ crm.leads > 0
               THEN [proc[w] EXCEPT !.at = "create", !.linked = TRUE]
               ELSE [proc[w] EXCEPT !.at = "lead"])
  /\ UNCHANGED <<waha, event, session, conv, msg, crm, notices, drops, left>>

CreateLead(w) ==
  /\ proc[w].at = "lead"
  /\ \E room \in BOOLEAN :
       /\ crm' = [crm EXCEPT !.leads = @ + (IF room THEN 1 ELSE 0)]
       /\ Goto(w, [proc[w] EXCEPT !.at = "create", !.linked = room])
  /\ UNCHANGED <<waha, event, session, conv, msg, notices, drops, left>>

(* The conversation after an INSERT that does nothing on a conflict.       *)
Opened(linked) ==
  IF conv.exists THEN conv ELSE [conv EXCEPT !.exists = TRUE, !.linked = linked]

CreateConversation(w) ==
  /\ proc[w].at = "create"
  /\ conv' = Opened(proc[w].linked)
  /\ Goto(w, [proc[w] EXCEPT !.at = "record", !.linked = Opened(@).linked])
  /\ UNCHANGED <<waha, event, session, msg, crm, notices, drops, left>>

(* The row a message event makes.                                          *)
RowOf(n) ==
  [of |-> n.id, waha |-> n.id, out |-> n.id \notin Inbound,
   status |-> IF n.id \in Inbound THEN "delivered" ELSE StatusFromAck(n.ack),
   unseen |-> n.id \in Inbound]

(* Mutant: the counter is raised also when the row was there. *)
RecordAndCount(w) ==
  /\ proc[w].at = "record"
  /\ LET n == proc[w].event IN
       /\ conv' = [conv EXCEPT !.unread = @ + (IF n.id \in Inbound THEN 1 ELSE 0)]
       /\ msg' = IF RowsOf(n.id) = {} THEN Append(msg, RowOf(n)) ELSE msg
       /\ Goto(w, WithActivity(w))
  /\ UNCHANGED <<waha, event, session, crm, notices, drops, left>>

(* Mutant: no index on the WAHA id. *)
RecordAgain(w) ==
  /\ proc[w].at = "record"
  /\ LET n == proc[w].event IN
       /\ msg' = Append(msg, RowOf(n))
       /\ conv' = [conv EXCEPT !.unread = @ + (IF n.id \in Inbound THEN 1 ELSE 0)]
       /\ Goto(w, WithActivity(w))
  /\ UNCHANGED <<waha, event, session, crm, notices, drops, left>>

(* RecordMessage: the row, the counter and the preview in one transaction, *)
(* nothing when the index has the message.                                 *)
RecordMessage(w) ==
  /\ proc[w].at = "record"
  /\ LET n == proc[w].event IN
       IF RowsOf(n.id) = {}
         THEN /\ msg' = Append(msg, RowOf(n))
              /\ conv' = [conv EXCEPT !.unread = @ + (IF n.id \in Inbound THEN 1 ELSE 0)]
              /\ Goto(w, WithActivity(w))
         ELSE /\ UNCHANGED <<msg, conv>>
              /\ Goto(w, Returned(w))
  /\ UNCHANGED <<waha, event, session, crm, notices, drops, left>>

(* claimAndRecordDailyActivity: the day first, in its own transaction.     *)
ClaimActivityDay(p) ==
  /\ proc[p].at = "activity"
  /\ conv' = [conv EXCEPT !.day = TRUE]
  /\ Goto(p, IF conv.day THEN Returned(p) ELSE [proc[p] EXCEPT !.at = "crm"])
  /\ UNCHANGED <<waha, event, session, msg, crm, notices, drops, left>>

RecordActivity(p) ==
  /\ proc[p].at = "crm"
  /\ crm' = [crm EXCEPT !.activities = @ + 1]
  /\ Goto(p, Returned(p))
  /\ UNCHANGED <<waha, event, session, conv, msg, notices, drops, left>>

(* Mutant: the status is set whatever it is by now. *)
SetAnyStatus(w) ==
  /\ proc[w].at = "ack"
  /\ LET r == proc[w].row IN
       msg' = IF r \in Rows
                THEN [msg EXCEPT ![r].status = StatusFromAck(proc[w].event.ack)] ELSE msg
  /\ Goto(w, Returned(w))
  /\ UNCHANGED <<waha, event, session, conv, crm, notices, drops, left>>

(* SetMessageStatus, which does nothing when the row is gone or has        *)
(* another status by now; the ack is done with all the same.               *)
SetMessageStatus(w) ==
  /\ proc[w].at = "ack"
  /\ LET r == proc[w].row IN
       msg' = IF msg[r].status = proc[w].from
                THEN [msg EXCEPT ![r].status = StatusFromAck(proc[w].event.ack)] ELSE msg
  /\ Goto(w, Returned(w))
  /\ UNCHANGED <<waha, event, session, conv, crm, notices, drops, left>>

MarkProcessed(w) ==
  /\ proc[w].at = "mark"
  /\ event' = [event EXCEPT ![proc[w].event].done = TRUE]
  /\ Goto(w, NextOf(w))
  /\ UNCHANGED <<waha, session, conv, msg, crm, notices, drops, left>>

Handling == {"observed", "match", "lead", "create", "record", "ack"}

(* Mutant: every error is taken for a permanent one. *)
DropFailed(w) ==
  /\ event' = [event EXCEPT ![proc[w].event].done = TRUE]
  /\ Goto(w, NextOf(w))

(* MarkFailed, whoever has the event by now. *)
MarkFailed(w) ==
  /\ event' = [event EXCEPT ![proc[w].event].due = FALSE]
  /\ Goto(w, NextOf(w))

(* A statement of the handler, or the CRM, returns an error. *)
HandlerFails(w) ==
  /\ left.faults > 0
  /\ proc[w].at \in Handling
  /\ left' = [left EXCEPT !.faults = @ - 1]
  /\ MarkFailed(w)
  /\ UNCHANGED <<waha, session, conv, msg, crm, notices, drops>>

-----------------------------------------------------------------------------
(* The session *)

(* UpdateStatus, in a transaction that has the row locked; gone rows have  *)
(* no status.                                                              *)
Store(st) ==
  /\ session' = [session EXCEPT !.status = st]
  /\ drops' = drops + (IF session.status = "WORKING" /\ st # "WORKING" THEN 1 ELSE 0)

(* Mutant: only sessions that are taken for connected are looked at. *)
GetWorkingSession(p) ==
  /\ Free(p)
  /\ ~session.deleted
  /\ session.status = "WORKING"
  /\ waha.status # "gone"
  /\ Goto(p, [Idle EXCEPT !.at = "observed", !.status = waha.status])
  /\ UNCHANGED <<waha, event, session, conv, msg, crm, notices, drops, left>>

(* Reconcile: GetSession, which fails when WAHA no longer has the session. *)
GetSession(p) ==
  /\ Free(p)
  /\ ~session.deleted
  /\ waha.status # "gone"
  /\ Goto(p, [Idle EXCEPT !.at = "observed", !.status = waha.status])
  /\ UNCHANGED <<waha, event, session, conv, msg, crm, notices, drops, left>>

(* ApplyObservedStatus, for a webhook and for the reconciler.              *)
ApplyObservedStatus(p) ==
  /\ proc[p].at = "observed"
  /\ ~session.deleted
  /\ Store(proc[p].status)
  /\ Goto(p, IF IsDisconnect(session.status, proc[p].status)
               THEN [Returned(p) EXCEPT !.at = "notify"] ELSE Returned(p))
  /\ UNCHANGED <<waha, event, conv, msg, crm, notices, left>>

(* The session was deleted since it was read: an error, which a worker     *)
(* retries and the reconciler logs.                                        *)
ObservedTooLate(p) ==
  /\ proc[p].at = "observed"
  /\ session.deleted
  /\ IF p \in Workers THEN MarkFailed(p) ELSE Goto(p, Idle) /\ UNCHANGED event
  /\ UNCHANGED <<waha, session, conv, msg, crm, notices, drops, left>>

(* NotifyDisconnected, after the status is stored; its error is logged.    *)
NotifyDisconnected(p) ==
  /\ proc[p].at = "notify"
  /\ notices' = notices + 1
  /\ Goto(p, Returned(p))
  /\ UNCHANGED <<waha, event, session, conv, msg, crm, drops, left>>

(* Start, Stop and Logout by a member: WAHA first, which also posts its    *)
(* webhook, then applyProviderInfo.                                        *)
ProviderAction(s) ==
  /\ Free(s)
  /\ ~session.deleted
  /\ \E st \in Statuses \ {"WORKING"} :
       /\ SetWahaStatus(st)
       /\ Goto(s, [Idle EXCEPT !.at = "apply", !.status = st])
  /\ UNCHANGED <<event, session, conv, msg, crm, notices, drops>>

ApplyProviderInfo(s) ==
  /\ proc[s].at = "apply"
  /\ IF session.deleted THEN UNCHANGED <<session, drops>> ELSE Store(proc[s].status)
  /\ Goto(s, Idle)
  /\ UNCHANGED <<waha, event, conv, msg, crm, notices, left>>

(* Delete: on WAHA, then the row and its entry of the directory.           *)
DeleteRemote(s) ==
  /\ Free(s)
  /\ ~session.deleted
  /\ left.changes > 0
  /\ left' = [left EXCEPT !.changes = 0]
  /\ waha' = [waha EXCEPT !.status = "gone"]
  /\ Goto(s, [Idle EXCEPT !.at = "delete"])
  /\ UNCHANGED <<event, session, conv, msg, crm, notices, drops>>

SoftDelete(s) ==
  /\ proc[s].at = "delete"
  /\ session' = [session EXCEPT !.deleted = TRUE]
  /\ Goto(s, Idle)
  /\ UNCHANGED <<waha, event, conv, msg, crm, notices, drops, left>>

-----------------------------------------------------------------------------
(* The conversation, for members *)

(* Start: opens the chat of a lead or contact, or links one that has no    *)
(* entity yet; only a chat it opened gets the day's activity.              *)
Start(s) ==
  /\ Free(s)
  /\ session.status = "WORKING" /\ ~session.deleted
  /\ ~conv.linked
  /\ conv' = [Opened(TRUE) EXCEPT !.linked = TRUE]
  /\ Goto(s, IF conv.exists THEN Idle ELSE [Idle EXCEPT !.at = "activity"])
  /\ UNCHANGED <<waha, event, session, msg, crm, notices, drops, left>>

MarkRead(s) ==
  /\ Free(s)
  /\ conv.unread > 0
  /\ conv' = [conv EXCEPT !.unread = 0]
  /\ msg' = [r \in DOMAIN msg |-> [msg[r] EXCEPT !.unseen = FALSE]]
  /\ UNCHANGED <<waha, event, session, crm, proc, notices, drops, left>>

(* readySession *)
Ready == conv.exists /\ session.status = "WORKING" /\ ~session.deleted

Deliver(s, r) ==
  Goto(s, [Idle EXCEPT !.at = "send", !.row = r, !.linked = conv.linked])

(* Send and SendDocument store the message before they send it. *)
Send(s, d) ==
  /\ Free(s)
  /\ Ready
  /\ d \in left.ids
  /\ msg' = Append(msg, [of |-> d, waha |-> None, out |-> TRUE,
                         status |-> "pending", unseen |-> FALSE])
  /\ left' = [left EXCEPT !.ids = @ \ {d}]
  /\ Deliver(s, Len(msg) + 1)
  /\ UNCHANGED <<waha, event, session, conv, crm, notices, drops>>

(* Retry, whose update asks for the failed status it has read.             *)
Retry(s, r) ==
  /\ Free(s)
  /\ Ready
  /\ msg[r].of \notin Documents
  /\ msg[r].out /\ msg[r].status = "failed"
  /\ msg' = [msg EXCEPT ![r].status = "pending"]
  /\ Deliver(s, r)
  /\ UNCHANGED <<waha, event, session, conv, crm, notices, drops, left>>

(* WAHA sends the message under a new id, and will post the message's      *)
(* events and acks.  Its answer may be lost.                               *)
WahaAccepts(s) ==
  /\ proc[s].at = "send"
  /\ waha.status = "WORKING"
  /\ \E x \in left.ids \cap Api : \E n \in MessageEvents(x) :
       /\ waha' = [waha EXCEPT
            !.used = @ \cup {x}, !.sent = @ \cup {n} \cup AckEvents(x)]
       /\ \/ /\ Goto(s, [proc[s] EXCEPT !.at = "accepted", !.id = x])
             /\ left' = [left EXCEPT !.ids = @ \ {x}]
          \/ /\ left.faults > 0
             /\ Goto(s, [Idle EXCEPT !.at = "refused", !.row = proc[s].row])
             /\ left' = [left EXCEPT !.ids = @ \ {x}, !.faults = @ - 1]
  /\ UNCHANGED <<event, session, conv, msg, crm, notices, drops>>

(* WAHA has no such session, or cannot send at the moment. *)
WahaRefuses(s) ==
  /\ proc[s].at = "send"
  /\ Goto(s, [Idle EXCEPT !.at = "refused", !.row = proc[s].row])
  /\ UNCHANGED <<waha, event, session, conv, msg, crm, notices, drops, left>>

(* A row that is gone, as a copy that another request has replaced, is an  *)
(* error here and below.                                                   *)
MarkMessageFailed(s) ==
  /\ proc[s].at = "refused"
  /\ msg' = IF proc[s].row \in Rows
              THEN [msg EXCEPT ![proc[s].row].status = "failed"] ELSE msg
  /\ Goto(s, Idle)
  /\ UNCHANGED <<waha, event, session, conv, crm, notices, drops, left>>

SentStatus(s) == IF s \in {"pending", "failed"} THEN "sent" ELSE s

(* The row r takes the id x, and a copy goes.                              *)
Confirm(r, x) ==
  msg' = [q \in DOMAIN msg |->
            CASE q = r -> [msg[q] EXCEPT !.waha = x, !.status = SentStatus(@)]
              [] q \in RowsOf(x) \ {r} -> [msg[q] EXCEPT !.waha = None, !.status = "deleted"]
              [] OTHER -> msg[q]]

(* MarkMessageSent, when an event has stored a copy of the message: the    *)
(* DELETE locks the copy until the commit.                                 *)
ReplaceCopy(s) ==
  /\ proc[s].at = "accepted"
  /\ proc[s].row \in Rows /\ RowsOf(proc[s].id) # {}
  /\ Confirm(proc[s].row, proc[s].id)
  /\ Goto(s, WithActivity(s))
  /\ UNCHANGED <<waha, event, session, conv, crm, notices, drops, left>>

(* MarkMessageSent, when its DELETE finds no row or no copy of it ...      *)
FindNoCopy(s) ==
  /\ proc[s].at = "accepted"
  /\ proc[s].row \notin Rows \/ RowsOf(proc[s].id) = {}
  /\ Goto(s, [proc[s] EXCEPT !.at = "update"])
  /\ UNCHANGED <<waha, event, session, conv, msg, crm, notices, drops, left>>

(* ... and the UPDATE that follows, which finds no row either or breaks    *)
(* the unique index when a copy has been stored since: the transaction is  *)
(* lost.                                                                   *)
UpdateSent(s) ==
  /\ proc[s].at = "update"
  /\ IF proc[s].row \in Rows /\ RowsOf(proc[s].id) = {}
       THEN /\ Confirm(proc[s].row, proc[s].id)
            /\ Goto(s, WithActivity(s))
       ELSE /\ Goto(s, Idle)
            /\ UNCHANGED msg
  /\ UNCHANGED <<waha, event, session, conv, crm, notices, drops, left>>

(* A process dies between two steps: its transaction is rolled back, its   *)
(* batch waits for the leases to run out.                                  *)
Crash(p) ==
  /\ left.faults > 0
  /\ proc[p].at # "idle"
  /\ left' = [left EXCEPT !.faults = @ - 1]
  /\ Goto(p, Idle)
  /\ UNCHANGED <<waha, event, session, conv, msg, crm, notices, drops>>

-----------------------------------------------------------------------------
WorkerStep(w) ==
  \/ ClaimDue(w)
  \/ \E n \in Names : Begin(w, n)
  \/ MatchPhone(w) \/ CreateLead(w) \/ CreateConversation(w) \/ RecordMessage(w)
  \/ SetMessageStatus(w) \/ MarkProcessed(w)

ObserverStep(p) ==
  ApplyObservedStatus(p) \/ ObservedTooLate(p) \/ NotifyDisconnected(p)

ActivityStep(p) == ClaimActivityDay(p) \/ RecordActivity(p)

StaffStep(s) ==
  \/ ApplyProviderInfo(s) \/ SoftDelete(s)
  \/ WahaAccepts(s) \/ WahaRefuses(s) \/ MarkMessageFailed(s)
  \/ ReplaceCopy(s) \/ FindNoCopy(s) \/ UpdateSent(s)

StaffRequest(s) ==
  \/ ProviderAction(s) \/ DeleteRemote(s) \/ Start(s) \/ MarkRead(s)
  \/ \E d \in Drafts : Send(s, d)
  \/ \E r \in DOMAIN msg : Retry(s, r)

Next ==
  \/ \E x \in WahaIds : WriteOnPhone(x)
  \/ WahaChanges
  \/ \E n \in Names : Receive(n) \/ WaitIsOver(n)
  \/ \E w \in Workers : WorkerStep(w) \/ HandlerFails(w)
  \/ \E r \in Reconcilers : GetSession(r)
  \/ \E p \in Workers \cup Reconcilers : ObserverStep(p)
  \/ \E p \in Workers \cup Staff : ActivityStep(p)
  \/ \E s \in Staff : StaffStep(s) \/ StaffRequest(s)
  \/ \E p \in Processes : Crash(p)

(* Each job of a worker process runs every few seconds and goes on until   *)
(* it is done, and time passes.  Members and WAHA need not do anything.    *)
Fairness ==
  /\ \A w \in Workers : WF_vars(WorkerStep(w) \/ ObserverStep(w) \/ ActivityStep(w))
  /\ \A r \in Reconcilers : WF_vars(GetSession(r) \/ ObserverStep(r))
  /\ WF_vars(\E n \in Names : WaitIsOver(n))

Safety == Init /\ [][Next]_vars
Spec == Safety /\ Fairness

-----------------------------------------------------------------------------
MessageStatuses == {"pending", "sent", "delivered", "read", "failed"}
MessageRow ==
  [of : WahaIds \cup Drafts, waha : WahaIds \cup {None}, out : BOOLEAN,
   status : MessageStatuses \cup {"deleted"}, unseen : BOOLEAN]

Working == {"batch", "match", "lead", "create", "record", "ack", "mark"}
Sending == {"send", "refused", "accepted", "update"}
Frames ==
  Working \cup Sending \cup
    {"idle", "activity", "crm", "observed", "notify", "apply", "delete"}
Frame ==
  [at : Frames, todo : SUBSET Names, event : Names \cup {None},
   status : Statuses \cup {None}, linked : BOOLEAN, row : Nat,
   from : MessageStatuses \cup {None}, id : WahaIds \cup {None}]

(* The events, rows and ids that the frame f of p works on are there.      *)
FrameOK(p, f) ==
  /\ f.todo \subseteq DOMAIN event
  /\ f.at \in Working => p \in Workers
  /\ f.at \in Sending \cup {"apply", "delete"} => p \in Staff
  /\ p \in Workers /\ f.at \notin {"idle", "batch"} => f.event \in DOMAIN event
  /\ f.at \in {"match", "lead", "create", "record"} =>
       f.event.kind = "message" /\ ~(f.event.id \in Api /\ f.event.copy = 1)
  /\ f.at = "ack" => f.event.kind = "ack" /\ f.from \in MessageStatuses
  /\ f.at \in {"observed", "apply"} => f.status \in Statuses
  /\ f.at \in Sending \cup {"ack"} => f.row \in DOMAIN msg
  /\ f.at \in {"accepted", "update"} => f.id \in Api

(* Types; what frames work on is there, and the index holds: no WAHA id    *)
(* has two rows.                                                           *)
TypeOK ==
  /\ waha.status \in Statuses \cup {"gone"}
  /\ waha.used \subseteq WahaIds
  /\ waha.sent \subseteq Names
  /\ DOMAIN event \subseteq Names
  /\ event \in [DOMAIN event -> [attempts : 0..MaxAttempts, due : BOOLEAN, done : BOOLEAN]]
  /\ session \in [status : Statuses, deleted : BOOLEAN]
  /\ conv \in [exists : BOOLEAN, linked : BOOLEAN, unread : Nat, day : BOOLEAN]
  /\ msg \in Seq(MessageRow)
  /\ \A r, q \in DOMAIN msg : msg[r].waha # None /\ msg[r].waha = msg[q].waha => r = q
  /\ \A r \in DOMAIN msg : msg[r].status = "deleted" => msg[r].waha = None
  /\ crm \in [leads : Nat, activities : Nat]
  /\ proc \in [Processes -> Frame]
  /\ \A p \in Processes : FrameOK(p, proc[p])
  /\ notices \in Nat /\ drops \in Nat
  /\ left \in [active : SUBSET Processes, ids : SUBSET (WahaIds \cup Drafts),
               hooks : SUBSET Names, changes : 0..MaxChanges, faults : Nat]

(* The unread badge counts each message of the contact once, and the       *)
(* timeline has one activity of the day, although an event comes twice, is *)
(* handled by two workers when a lease runs out, or again after a crash.   *)
CountedOnce ==
  /\ conv.unread = Cardinality({r \in Rows : msg[r].unseen})
  /\ crm.activities <= 1

(* An event of a message leaves the queue only with the message stored,    *)
(* whichever worker marks it and whatever failed before: a row that was    *)
(* made of it, which may have been sent again since under another id, or   *)
(* the application's own row, which took the place of that one.  The plans *)
(* of the run and the theorem leave out an error ack (-1) that comes late: *)
(* with one, a message is retried twice at once and the second             *)
(* confirmation overwrites the only trace of the first send.               *)
Recorded(x) == \E r \in Rows : msg[r].of = x \/ msg[r].waha = x

ProcessedIsRecorded ==
  \A n \in DOMAIN event :
    n.kind = "message" /\ ~(n.id \in Api /\ n.copy = 1) /\ event[n].done =>
      Recorded(n.id) \/ session.deleted

(* CanTransitionTo's comment: acks arrive out of order and two workers     *)
(* apply them at once, but delivery progress never moves backwards; only a *)
(* send that failed takes a message out of the order.                      *)
ProgressNeverMovesBack ==
  [][\A r \in DOMAIN msg :
       msg[r].status \in {"sent", "delivered", "read"} =>
         \/ msg'[r].status \in {"failed", "deleted"}
         \/ Rank(msg'[r].status) >= Rank(msg[r].status)]_vars

(* One disconnect, seen by a webhook, a repeat of it and the reconciler,   *)
(* is one notice at most: the status before the update decides, under its  *)
(* lock.                                                                   *)
NoticePerDisconnect == notices <= drops

(* Every webhook that was stored is handled, or has used its attempts, in  *)
(* the end, although workers die and fail: leases give events back.        *)
EventsAreDecided ==
  <>[](\A n \in DOMAIN event : event[n].done \/ event[n].attempts = MaxAttempts)

(* Whatever webhooks are late, lost or out of order, the stored status is  *)
(* WAHA's in the end: the reconciler puts right what an old event broke.   *)
StatusConverges ==
  <>[](session.deleted \/ waha.status = "gone" \/ session.status = waha.status)
=============================================================================
