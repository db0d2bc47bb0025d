------------------------- MODULE NotificationDelivery ------------------------
(***************************************************************************)
(* Delivery of notifications: the outbox of events, the worker that turns  *)
(* each into a notification log and sends it, its second job that sends    *)
(* due logs again, and staff who retry or cancel a log.                    *)
(*                                                                         *)
(*   internal/core/notification                                            *)
(*     consumer/outbox_worker.go                RunOnce, consumeOutboxEvent *)
(*     consumer/notification_event_consumer.go  Consume                    *)
(*     service/notification_service.go          SendByTemplate, RetryDue,  *)
(*                                              Retry, Cancel, dispatchLog *)
(*     repository/outbox_repository.go          the events                 *)
(*     repository/notification_log_repository.go the logs                  *)
(*   cmd/worker/main.go                         runBatch                   *)
(*                                                                         *)
(* A process is a worker or a request of staff.  It takes one step per     *)
(* statement, so others run in between and it may die there.  Every rule   *)
(* names the e-mail channel, which every process can send on.              *)
(***************************************************************************)
EXTENDS Integers, Sequences, FiniteSets

CONSTANTS
  Events,       \* events that other modules publish
  Unruled,      \* those of a type no rule is for
  Muted,        \* those whose recipient has turned the notification off
  Workers,      \* worker processes
  Clerks,       \* concurrent requests of staff
  MaxAttempts,  \* max_attempts, of events and of logs
  Batch,        \* NOTIFICATION_WORKER_BATCH_SIZE
  NoEvent,      \* stands for the event of a log that is sent again
  MaxLogs,      \* bound: logs
  MaxFaults     \* bound: crashes, failed statements and lost answers

ASSUME EventsAssumption ==
  Unruled \subseteq Events /\ Muted \subseteq Events /\ NoEvent \notin Events
ASSUME AttemptsAssumption == MaxAttempts \in Nat \ {0} /\ Batch \in Nat \ {0}
ASSUME ProcessAssumption == Workers \cap Clerks = {}
ASSUME DeliveryBounds == MaxLogs \in Nat /\ MaxFaults \in Nat

VARIABLES
  event,   \* event[e]: its row of the outbox; waiting until next_retry_at
  log,     \* the notification logs; how often the provider took each, and
           \* how often of these the process got an error
  proc,    \* proc[p]: where process p is, and what it has read
  faults   \* faults so far

vars == <<event, log, proc, faults>>

Processes == Workers \cup Clerks
Idle == [at |-> "idle"]

Init ==
  /\ event = [e \in Events |-> [status |-> "none", attempts |-> 0, waiting |-> FALSE]]
  /\ log = <<>>
  /\ proc = [p \in Processes |-> Idle]
  /\ faults = 0

Step(p, next) == proc' = [proc EXCEPT ![p] = next]
Goto(p, label) == proc' = [proc EXCEPT ![p].at = label]

(* A query's LIMIT.                                                        *)
Limited(S) ==
  {T \in SUBSET S : Cardinality(T) = IF Cardinality(S) < Batch THEN Cardinality(S) ELSE Batch}

-----------------------------------------------------------------------------
(* The outbox *)

(* Enqueue: an id that is there already is left alone.                     *)
Publish(e) ==
  /\ event[e].status = "none"
  /\ event' = [event EXCEPT ![e].status = "pending"]
  /\ UNCHANGED <<log, proc, faults>>

DueEvents ==
  {e \in Events : /\ event[e].status \in {"pending", "failed"}
                  /\ event[e].attempts < MaxAttempts /\ ~event[e].waiting}

(* ClaimPending, with FOR UPDATE SKIP LOCKED.                              *)
Claim(w) ==
  \E S \in Limited(DueEvents) :
    /\ proc[w].at = "idle"
    /\ event' = [e \in Events |->
         IF e \in S THEN [event[e] EXCEPT !.status = "processing"] ELSE event[e]]
    /\ Step(w, [at |-> "batch", claimed |-> {<<e, event[e].attempts>> : e \in S},
                retry |-> {}, event |-> NoEvent, tries |-> 0, log |-> 0, attempts |-> 0])
    /\ UNCHANGED <<log, faults>>

(* Consume: the next of the claimed events.                                *)
Take(w, c, label, l) ==
  Step(w, [proc[w] EXCEPT !.at = label, !.claimed = @ \ {c}, !.event = c[1],
                          !.tries = c[2], !.log = l, !.attempts = 0])

ConsumeIgnored(w) ==
  /\ proc[w].at = "batch"
  /\ \E c \in proc[w].claimed : c[1] \in Unruled /\ Take(w, c, "succeed", 0)
  /\ UNCHANGED <<event, log, faults>>

(* The organisation is not active, there is no usable template, or it      *)
(* cannot be rendered: no log.                                             *)
ConsumeRefused(w) ==
  /\ proc[w].at = "batch"
  /\ \E c \in proc[w].claimed : Take(w, c, "fail", 0)
  /\ UNCHANGED <<event, log, faults>>

(* SendByTemplate, CreatePending: a new log, whatever logs the event has.  *)
CreateLog(w) ==
  /\ proc[w].at = "batch"
  /\ Len(log) < MaxLogs
  /\ \E c \in proc[w].claimed :
       /\ c[1] \notin Unruled
       /\ log' = Append(log, [event |-> c[1], status |-> "pending", attempts |-> 0,
                              waiting |-> FALSE, taken |-> 0, unanswered |-> 0])
       /\ Take(w, c, "created", Len(log) + 1)
  /\ UNCHANGED <<event, faults>>

(* The preference is looked at when the log is there.  Turned off: the log *)
(* is cancelled, unless somebody has taken it in the meantime.             *)
CancelPending(l) ==
  log' = [log EXCEPT ![l].status = IF @ = "pending" THEN "cancelled" ELSE @]

PreferenceOff(w) ==
  /\ proc[w].at = "created"
  /\ proc[w].event \in Muted
  /\ CancelPending(proc[w].log)
  /\ Goto(w, IF log[proc[w].log].status = "pending" THEN "succeed" ELSE "fail")
  /\ UNCHANGED <<event, faults>>

PreferenceOn(w) ==
  /\ proc[w].at = "created"
  /\ proc[w].event \notin Muted
  /\ Goto(w, "dispatch")
  /\ UNCHANGED <<event, log, faults>>

-----------------------------------------------------------------------------
(* dispatchLog: for a new log, for one that is due again, and for staff *)

(* Only an event that was consumed is marked; the other two go on with     *)
(* their list, which staff do not have.  Mutant: they mark one as well.    *)
MarkAlways(p, label) == Goto(p, label)

After(p, label) == Goto(p, IF proc[p].event = NoEvent THEN "retry" ELSE label)

(* Mutant: MarkProcessing does not look at the status.                     *)
AlwaysFree(l) == TRUE

Free(l) == log[l].status \in {"pending", "failed", "dead"}

MarkProcessing(p) ==
  /\ proc[p].at = "dispatch"
  /\ Free(proc[p].log)
  /\ log' = [log EXCEPT ![proc[p].log].status = "processing"]
  /\ Goto(p, "send")
  /\ UNCHANGED <<event, faults>>

(* No row to update: an error.                                             *)
MarkProcessingLost(p) ==
  /\ proc[p].at = "dispatch"
  /\ ~Free(proc[p].log)
  /\ After(p, "fail")
  /\ UNCHANGED <<event, log, faults>>

Send(p) ==
  /\ proc[p].at = "send"
  /\ log' = [log EXCEPT ![proc[p].log].taken = @ + 1]
  /\ Goto(p, "sent")
  /\ UNCHANGED <<event, faults>>

(* An error before the provider has taken the message.                     *)
SendFails(p) ==
  /\ proc[p].at = "send"
  /\ Goto(p, "failed")
  /\ UNCHANGED <<event, log, faults>>

(* An error when it has: the answer to the message, or to QUIT, is lost.   *)
Unanswered(row) == [row EXCEPT !.taken = @ + 1, !.unanswered = @ + 1]

SendUnanswered(p) ==
  /\ proc[p].at = "send"
  /\ faults < MaxFaults
  /\ faults' = faults + 1
  /\ log' = [log EXCEPT ![proc[p].log] = Unanswered(@)]
  /\ Goto(p, "failed")
  /\ UNCHANGED event

Sent(l) == [log EXCEPT ![l].status = "sent"]

MarkSent(p) ==
  /\ proc[p].at = "sent"
  /\ log' = Sent(proc[p].log)
  /\ After(p, "succeed")
  /\ UNCHANGED <<event, faults>>

(* MarkFailed and MarkDead, by the attempts the process has read.          *)
FailedLog(row, read) ==
  IF read + 1 >= MaxAttempts
    THEN [row EXCEPT !.status = "dead", !.attempts = MaxAttempts, !.waiting = FALSE]
  ELSE IF row.status \in {"pending", "processing", "failed"}
    THEN [row EXCEPT !.status = "failed", !.waiting = TRUE,
                     !.attempts = IF @ < MaxAttempts THEN @ + 1 ELSE @]
  ELSE row

MarkFailed(p) ==
  /\ proc[p].at = "failed"
  /\ log' = [log EXCEPT ![proc[p].log] = FailedLog(@, proc[p].attempts)]
  /\ After(p, "fail")
  /\ UNCHANGED <<event, faults>>

-----------------------------------------------------------------------------
(* What becomes of the event *)

(* Mutant: every event a worker is through with has succeeded.             *)
SucceedAlways(w) ==
  /\ proc[w].at \in {"succeed", "fail"}
  /\ event' = [event EXCEPT ![proc[w].event].status = "succeeded"]
  /\ Step(w, [proc[w] EXCEPT !.at = "batch", !.event = NoEvent, !.log = 0])
  /\ UNCHANGED <<log, faults>>

Succeed(w) ==
  /\ proc[w].at = "succeed"
  /\ event' = [event EXCEPT ![proc[w].event].status = "succeeded"]
  /\ Step(w, [proc[w] EXCEPT !.at = "batch", !.event = NoEvent, !.log = 0])
  /\ UNCHANGED <<log, faults>>

(* failOutboxEvent.  Mutant: the last attempt is not counted.              *)
OneAttemptMore(row, read) ==
  IF read >= MaxAttempts
    THEN [row EXCEPT !.status = "dead", !.attempts = MaxAttempts, !.waiting = FALSE]
  ELSE IF row.status = "processing"
    THEN [row EXCEPT !.status = "failed", !.waiting = TRUE,
                     !.attempts = IF @ < MaxAttempts THEN @ + 1 ELSE @]
  ELSE row

FailedEvent(row, read) ==
  IF read + 1 >= MaxAttempts
    THEN [row EXCEPT !.status = "dead", !.attempts = MaxAttempts, !.waiting = FALSE]
  ELSE IF row.status = "processing"
    THEN [row EXCEPT !.status = "failed", !.waiting = TRUE,
                     !.attempts = IF @ < MaxAttempts THEN @ + 1 ELSE @]
  ELSE row

Fail(w) ==
  /\ proc[w].at = "fail"
  /\ event' = [event EXCEPT ![proc[w].event] = FailedEvent(@, proc[w].tries)]
  /\ Step(w, [proc[w] EXCEPT !.at = "batch", !.event = NoEvent, !.log = 0])
  /\ UNCHANGED <<log, faults>>

-----------------------------------------------------------------------------
(* RetryDue, when the events are done, and staff *)

Retryable ==
  {l \in 1..Len(log) : /\ log[l].status \in {"pending", "failed"}
                       /\ log[l].attempts < MaxAttempts /\ ~log[l].waiting}

(* FindRetryable: a plain query, nothing is claimed.                       *)
FindRetryable(w) ==
  /\ proc[w].at = "batch"
  /\ proc[w].claimed = {}
  /\ \E S \in Limited(Retryable) :
       Step(w, [proc[w] EXCEPT !.at = "retry",
                               !.retry = {<<l, log[l].attempts>> : l \in S}])
  /\ UNCHANGED <<event, log, faults>>

RetryNext(p) ==
  /\ proc[p].at = "retry"
  /\ \E d \in proc[p].retry :
       Step(p, [proc[p] EXCEPT !.at = "dispatch", !.retry = @ \ {d},
                               !.log = d[1], !.attempts = d[2]])
  /\ UNCHANGED <<event, log, faults>>

RetryDone(p) ==
  /\ proc[p].at = "retry"
  /\ proc[p].retry = {}
  /\ Step(p, Idle)
  /\ UNCHANGED <<event, log, faults>>

(* Retry: a failed or dead log, at once.                                   *)
RetryByStaff(c, l) ==
  /\ proc[c].at = "idle"
  /\ log[l].status \in {"failed", "dead"}
  /\ Step(c, [at |-> "dispatch", claimed |-> {}, retry |-> {}, event |-> NoEvent,
              tries |-> 0, log |-> l, attempts |-> log[l].attempts])
  /\ UNCHANGED <<event, log, faults>>

(* Cancel: what MarkCancelled finds pending.                               *)
CancelByStaff(l) ==
  /\ log[l].status = "pending"
  /\ CancelPending(l)
  /\ UNCHANGED <<event, proc, faults>>

-----------------------------------------------------------------------------
(* next_retry_at is a minute later. *)
EventWaits(e) ==
  /\ event[e].waiting
  /\ event' = [event EXCEPT ![e].waiting = FALSE]
  /\ UNCHANGED <<log, proc, faults>>

LogWaits(l) ==
  /\ log[l].waiting
  /\ log' = [log EXCEPT ![l].waiting = FALSE]
  /\ UNCHANGED <<event, proc, faults>>

(* A statement fails, or the read that follows MarkSent: an error.         *)
StatementFails(p) ==
  /\ proc[p].at \in {"created", "dispatch", "sent", "failed"}
  /\ faults < MaxFaults
  /\ faults' = faults + 1
  /\ \/ UNCHANGED log
     \/ proc[p].at = "sent" /\ log' = Sent(proc[p].log)
  /\ After(p, "fail")
  /\ UNCHANGED event

(* The process dies, or an event cannot be marked and RunOnce returns.     *)
Crash(p) ==
  /\ proc[p].at # "idle"
  /\ faults < MaxFaults
  /\ faults' = faults + 1
  /\ Step(p, Idle)
  /\ UNCHANGED <<event, log>>

-----------------------------------------------------------------------------
DispatchStep(p) ==
  \/ MarkProcessing(p) \/ MarkProcessingLost(p)
  \/ Send(p) \/ SendFails(p) \/ MarkSent(p) \/ MarkFailed(p)
  \/ RetryNext(p) \/ RetryDone(p)

FaultStep(p) == SendUnanswered(p) \/ StatementFails(p) \/ Crash(p)

WorkerStep(w) ==
  \/ Claim(w) \/ ConsumeIgnored(w) \/ ConsumeRefused(w) \/ CreateLog(w)
  \/ PreferenceOff(w) \/ PreferenceOn(w)
  \/ Succeed(w) \/ Fail(w) \/ FindRetryable(w)

Next ==
  \/ \E e \in Events : Publish(e) \/ EventWaits(e)
  \/ \E w \in Workers : WorkerStep(w)
  \/ \E p \in Processes : DispatchStep(p) \/ FaultStep(p)
  \/ \E l \in 1..Len(log) : LogWaits(l) \/ CancelByStaff(l)
  \/ \E c \in Clerks, l \in 1..Len(log) : RetryByStaff(c, l)

(* The worker's ticker starts batch after batch and a batch goes on unless *)
(* the worker dies; minutes pass.                                          *)
Fairness ==
  /\ \A w \in Workers : WF_vars(WorkerStep(w) \/ DispatchStep(w))
  /\ \A e \in Events : WF_vars(EventWaits(e))

Safety == Init /\ [][Next]_vars
Spec == Safety /\ Fairness

-----------------------------------------------------------------------------
EventRow ==
  [status : {"none", "pending", "processing", "succeeded", "failed", "dead"},
   attempts : 0..MaxAttempts, waiting : BOOLEAN]
LogRow ==
  [event : Events,
   status : {"pending", "processing", "sent", "failed", "cancelled", "dead"},
   attempts : 0..MaxAttempts, waiting : BOOLEAN, taken : Nat, unanswered : Nat]
BusyProcess ==
  [at : {"batch", "created", "dispatch", "send", "sent", "failed", "succeed", "fail", "retry"},
   claimed : SUBSET (Events \X (0..MaxAttempts)),
   retry : SUBSET ((1..MaxLogs) \X (0..MaxAttempts)),
   event : Events \cup {NoEvent}, tries : 0..MaxAttempts,
   log : 0..MaxLogs, attempts : 0..MaxAttempts]

Sending(p) == proc[p].at \in {"send", "sent", "failed"}

(* Types, and the logs that processes point at exist.                      *)
TypeOK ==
  /\ event \in [Events -> EventRow]
  /\ log \in Seq(LogRow)
  /\ Len(log) <= MaxLogs
  /\ proc \in [Processes -> {Idle} \cup BusyProcess]
  /\ \A p \in Processes : proc[p].at # "idle" =>
       /\ proc[p].log <= Len(log)
       /\ Sending(p) \/ proc[p].at \in {"created", "dispatch"} => proc[p].log > 0
       /\ \A d \in proc[p].retry : d[1] <= Len(log)
       /\ proc[p].at \in {"created", "succeed", "fail"} => proc[p].event # NoEvent
  /\ faults \in Nat

(* The events a worker still has to do, with the one it is at.             *)
Holds(w) ==
  IF proc[w].at = "idle" THEN {}
  ELSE {c[1] : c \in proc[w].claimed} \cup ({proc[w].event} \ {NoEvent})

(* SKIP LOCKED and the status: no event is worked on by two workers, and   *)
(* none that a worker holds is finished or due.                            *)
ClaimedByOne ==
  \A w \in Workers :
    /\ \A v \in Workers \ {w} : Holds(w) \cap Holds(v) = {}
    /\ \A e \in Holds(w) : event[e].status = "processing"

(* MarkProcessing's condition: a log goes out a second time only after an  *)
(* attempt that ended in an error although the provider had taken it,      *)
(* though nothing claims the logs that RetryDue and staff send, and though *)
(* processes die between Send and MarkSent.  A log that can be sent again  *)
(* has gone out in no other way.                                           *)
OnlyUnansweredSentAgain ==
  \A l \in 1..Len(log) :
    /\ log[l].taken <= 1 + log[l].unanswered
    /\ log[l].status \in {"pending", "failed", "dead", "cancelled"} =>
         log[l].taken = log[l].unanswered

(* Sent and cancelled are final: a log that staff cancelled is not sent by *)
(* a worker that had read it before.                                       *)
SentAndCancelledAreFinal ==
  [][\A l \in 1..Len(log) :
       log[l].status \in {"sent", "cancelled"} =>
         log'[l].status = log[l].status /\ log'[l].taken = log[l].taken]_vars

(* An event leaves the outbox as succeeded only when a message of it was   *)
(* sent, or cancelled because the recipient does not want it.              *)
SucceededIsDelivered ==
  \A e \in Events \ Unruled :
    event[e].status = "succeeded" =>
      \E l \in 1..Len(log) :
        log[l].event = e /\ log[l].status \in (IF e \in Muted THEN {"cancelled"} ELSE {"sent"})

(* While no worker dies, every published event succeeds or is dead in the  *)
(* end, whatever the provider and staff do.                                *)
EventIsDecided ==
  \A e \in Events :
    event[e].status = "pending" ~> event[e].status \in {"succeeded", "dead"}

(* reference-notification.md:1053: the consumer is idempotent by event id, *)
(* so an event is one message.                                             *)
OneMessagePerEvent ==
  \A l, m \in 1..Len(log) :
    log[l].event = log[m].event /\ log[l].taken > 0 /\ log[m].taken > 0 => l = m
=============================================================================
