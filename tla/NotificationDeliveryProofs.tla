--------------------- MODULE NotificationDeliveryProofs ---------------------
(* The safety of notification delivery, for any number of events, workers, *)
(* requests of staff, logs and faults.                                     *)
EXTENDS NotificationDelivery, SequenceTheorems, TLAPS

-----------------------------------------------------------------------------
(* Types *)

EventsTyped == event \in [Events -> EventRow]
LogsTyped == log \in Seq(LogRow) /\ Len(log) <= MaxLogs

(* What the type invariant says of one process, when there are n logs.     *)
FrameOK(f, n) ==
  /\ f \in {Idle} \cup BusyProcess
  /\ f.at # "idle" =>
       /\ f.log <= n
       /\ f.at \in {"send", "sent", "failed", "created", "dispatch"} => f.log > 0
       /\ \A d \in f.retry : d[1] <= n
       /\ f.at \in {"created", "succeed", "fail"} => f.event # NoEvent

ProcessesTyped ==
  /\ proc \in [Processes -> {Idle} \cup BusyProcess]
  /\ \A p \in Processes : FrameOK(proc[p], Len(log))

LEMMA TypesAreParts ==
  TypeOK <=> EventsTyped /\ LogsTyped /\ ProcessesTyped /\ faults \in Nat
<1>1. ProcessesTyped <=>
        /\ proc \in [Processes -> {Idle} \cup BusyProcess]
        /\ \A p \in Processes : proc[p].at # "idle" =>
             /\ proc[p].log <= Len(log)
             /\ Sending(p) \/ proc[p].at \in {"created", "dispatch"} => proc[p].log > 0
             /\ \A d \in proc[p].retry : d[1] <= Len(log)
             /\ proc[p].at \in {"created", "succeed", "fail"} => proc[p].event # NoEvent
  BY DEF ProcessesTyped, FrameOK, Sending
<1> QED BY <1>1 DEF TypeOK, EventsTyped, LogsTyped

LEMMA TypesNext ==
  ASSUME EventsTyped', LogsTyped', ProcessesTyped', faults' \in Nat
  PROVE  TypeOK'
<1>1. \A p \in Processes : (proc[p].at # "idle")' =>
        /\ (proc[p].log <= Len(log))'
        /\ (Sending(p) \/ proc[p].at \in {"created", "dispatch"} => proc[p].log > 0)'
        /\ (\A d \in proc[p].retry : d[1] <= Len(log))'
        /\ (proc[p].at \in {"created", "succeed", "fail"} => proc[p].event # NoEvent)'
  BY DEF ProcessesTyped, FrameOK, Sending
<1> QED BY <1>1 DEF TypeOK, EventsTyped, LogsTyped, ProcessesTyped

(* A process that is not idle has the fields of one at work.               *)
LEMMA BusyFields ==
  ASSUME TypeOK, NEW p \in Processes, proc[p].at # "idle"
  PROVE  /\ proc[p] \in BusyProcess
         /\ FrameOK(proc[p], Len(log))
         /\ Len(log) \in Nat
<1>1. proc[p] \in {Idle} \cup BusyProcess /\ FrameOK(proc[p], Len(log))
  BY TypesAreParts DEF ProcessesTyped
<1>2. Len(log) \in Nat
  BY TypesAreParts DEF LogsTyped
<1> QED BY <1>1, <1>2 DEF Idle

(* One process moves, and no log goes.                                     *)
LEMMA FrameStep ==
  ASSUME TypeOK, NEW p \in Processes, NEW f,
         proc' = [proc EXCEPT ![p] = f],
         Len(log') \in Nat, Len(log) <= Len(log'),
         FrameOK(f, Len(log'))
  PROVE  /\ ProcessesTyped'
         /\ proc'[p] = f
         /\ \A q \in Processes \ {p} : proc'[q] = proc[q]
<1>1. ProcessesTyped /\ Len(log) \in Nat
  BY TypesAreParts DEF LogsTyped
<1>2. /\ proc' \in [Processes -> {Idle} \cup BusyProcess]
      /\ proc'[p] = f
      /\ \A q \in Processes \ {p} : proc'[q] = proc[q]
  BY <1>1 DEF ProcessesTyped, FrameOK
<1>3. ASSUME NEW q \in Processes \ {p}
      PROVE  FrameOK(proc[q], Len(log'))
  <2>1. FrameOK(proc[q], Len(log))
    BY <1>1 DEF ProcessesTyped
  <2>2. CASE proc[q].at = "idle"
    BY <2>1, <2>2 DEF FrameOK
  <2>3. CASE proc[q].at # "idle"
    <3>1. proc[q] \in BusyProcess
      BY <2>1, <2>3 DEF FrameOK, Idle
    <3>2. proc[q].log \in Nat /\ \A d \in proc[q].retry : d[1] \in Nat
      BY <3>1 DEF BusyProcess
    <3>3. proc[q].log <= Len(log')
      BY <1>1, <2>1, <2>3, <3>2 DEF FrameOK
    <3>4. \A d \in proc[q].retry : d[1] <= Len(log')
      BY <1>1, <2>1, <2>3, <3>2 DEF FrameOK
    <3> QED BY <2>1, <2>3, <3>3, <3>4 DEF FrameOK
  <2> QED BY <2>2, <2>3
<1>4. \A q \in Processes : FrameOK(proc'[q], Len(log'))
  BY <1>2, <1>3
<1> QED BY <1>2, <1>4 DEF ProcessesTyped

(* A change of one row of the logs.                                        *)
LEMMA LogUpdate ==
  ASSUME LogsTyped, NEW l \in 1..Len(log), NEW r \in LogRow,
         log' = [log EXCEPT ![l] = r]
  PROVE  /\ LogsTyped'
         /\ Len(log) \in Nat /\ Len(log') = Len(log)
         /\ log'[l] = r
         /\ \A k \in 1..Len(log) \ {l} : log'[k] = log[k]
BY ExceptSeq DEF LogsTyped

LEMMA LogAppend ==
  ASSUME LogsTyped, NEW r \in LogRow, log' = Append(log, r), Len(log) < MaxLogs
  PROVE  /\ LogsTyped'
         /\ Len(log) \in Nat /\ Len(log') = Len(log) + 1
         /\ log'[Len(log) + 1] = r
         /\ \A k \in 1..Len(log) : log'[k] = log[k]
<1>1. /\ log' \in Seq(LogRow)
      /\ Len(log') = Len(log) + 1
      /\ log'[Len(log) + 1] = r
      /\ \A k \in 1..Len(log) : log'[k] = log[k]
  BY AppendProperties DEF LogsTyped
<1>2. Len(log) \in Nat /\ MaxLogs \in Nat
  BY DeliveryBounds DEF LogsTyped
<1> QED BY <1>1, <1>2 DEF LogsTyped


(* Process p moves and keeps its event, its log and its claims.            *)
Moves(p, label) ==
  /\ proc'[p] \in BusyProcess /\ proc'[p].at = label
  /\ proc'[p].claimed = proc[p].claimed /\ proc'[p].event = proc[p].event
  /\ proc'[p].log = proc[p].log
Others(p) == \A q \in Processes \ {p} : proc'[q] = proc[q]

Labels == {"batch", "created", "dispatch", "send", "sent", "failed", "succeed",
           "fail", "retry"}

(* A process moves to another label and keeps what it has read.            *)
LEMMA GotoStep ==
  ASSUME TypeOK, NEW p \in Processes, proc[p].at # "idle", NEW label \in Labels,
         Goto(p, label),
         label \in {"send", "sent", "failed", "created", "dispatch"} => proc[p].log > 0,
         label \in {"created", "succeed", "fail"} => proc[p].event # NoEvent,
         Len(log') = Len(log)
  PROVE  /\ ProcessesTyped'
         /\ proc'[p] = [proc[p] EXCEPT !.at = label]
         /\ \A q \in Processes \ {p} : proc'[q] = proc[q]
<1> DEFINE f == [proc[p] EXCEPT !.at = label]
<1>1. proc[p] \in BusyProcess /\ FrameOK(proc[p], Len(log)) /\ Len(log) \in Nat
  BY BusyFields
<1>2. f \in BusyProcess /\ f.at = label /\ f.log = proc[p].log
      /\ f.retry = proc[p].retry /\ f.event = proc[p].event
  BY <1>1 DEF BusyProcess, Labels
<1>3. FrameOK(f, Len(log'))
  BY <1>1, <1>2 DEF FrameOK
<1>4. proc' = [proc EXCEPT ![p] = f]
  BY DEF Goto
<1>5. Len(log') \in Nat /\ Len(log) <= Len(log')
  BY <1>1
<1> HIDE DEF f
<1>6. /\ ProcessesTyped' /\ proc'[p] = f
      /\ \A q \in Processes \ {p} : proc'[q] = proc[q]
  BY <1>3, <1>4, <1>5, FrameStep
<1> QED BY <1>6 DEF f

(* After a log that belongs to no event the process goes on with its list. *)
LEMMA AfterStep ==
  ASSUME TypeOK, NEW p \in Processes, proc[p].at # "idle",
         NEW label \in {"succeed", "fail"}, After(p, label), Len(log') = Len(log)
  PROVE  /\ ProcessesTyped'
         /\ \/ proc[p].event = NoEvent /\ proc'[p] = [proc[p] EXCEPT !.at = "retry"]
            \/ proc[p].event # NoEvent /\ proc'[p] = [proc[p] EXCEPT !.at = label]
         /\ \A q \in Processes \ {p} : proc'[q] = proc[q]
<1>1. CASE proc[p].event = NoEvent
  <2>1. Goto(p, "retry")
    BY <1>1 DEF After
  <2> QED BY <1>1, <2>1, GotoStep DEF Labels
<1>2. CASE proc[p].event # NoEvent
  <2>1. Goto(p, label)
    BY <1>2 DEF After
  <2> QED BY <1>2, <2>1, GotoStep DEF Labels
<1> QED BY <1>1, <1>2

(* The fields of a worker that has taken event c[1].                       *)
Takes(w, c, label, l) ==
  /\ proc'[w] \in BusyProcess /\ proc'[w].at = label
  /\ proc'[w].claimed = proc[w].claimed \ {c} /\ proc'[w].event = c[1]
  /\ proc'[w].log = l

(* A worker takes an event: with a new log, or with none.                  *)
LEMMA TakeStep ==
  ASSUME TypeOK, NEW w \in Processes, proc[w].at = "batch", NEW c \in proc[w].claimed,
         NEW label \in {"succeed", "fail", "created"}, NEW l \in 0..MaxLogs,
         Take(w, c, label, l),
         label = "created" => l > 0,
         Len(log') \in Nat, Len(log) <= Len(log'), l <= Len(log')
  PROVE  ProcessesTyped' /\ Takes(w, c, label, l) /\ Others(w)
<1> DEFINE f == [proc[w] EXCEPT !.at = label, !.claimed = @ \ {c}, !.event = c[1],
                               !.tries = c[2], !.log = l, !.attempts = 0]
<1>1. proc[w] \in BusyProcess /\ FrameOK(proc[w], Len(log)) /\ Len(log) \in Nat
  BY BusyFields
<1>2. c[1] \in Events /\ c[2] \in 0..MaxAttempts /\ c[1] # NoEvent
      /\ 0 \in 0..MaxAttempts
  BY <1>1, EventsAssumption, AttemptsAssumption DEF BusyProcess
<1>3. f \in BusyProcess /\ f.at = label /\ f.log = l
      /\ f.retry = proc[w].retry /\ f.event = c[1]
      /\ f.claimed = proc[w].claimed \ {c}
  BY <1>1, <1>2 DEF BusyProcess
<1>4. \A d \in f.retry : d[1] <= Len(log')
  <2>1. \A d \in proc[w].retry : d[1] \in Nat /\ d[1] <= Len(log)
    BY <1>1 DEF BusyProcess, FrameOK
  <2> QED BY <1>1, <1>3, <2>1
<1>5. FrameOK(f, Len(log'))
  BY <1>2, <1>3, <1>4 DEF FrameOK
<1>6. proc' = [proc EXCEPT ![w] = f]
  BY DEF Take, Step
<1> HIDE DEF f
<1>7. /\ ProcessesTyped' /\ proc'[w] = f
      /\ \A q \in Processes \ {w} : proc'[q] = proc[q]
  BY <1>1, <1>5, <1>6, FrameStep
<1> QED BY <1>3, <1>7 DEF Takes, Others

(* A worker is through with its event.                                     *)
LEMMA EventDoneStep ==
  ASSUME TypeOK, NEW w \in Processes, proc[w].at # "idle",
         Step(w, [proc[w] EXCEPT !.at = "batch", !.event = NoEvent, !.log = 0]),
         log' = log
  PROVE  /\ ProcessesTyped'
         /\ proc'[w] = [proc[w] EXCEPT !.at = "batch", !.event = NoEvent, !.log = 0]
         /\ \A q \in Processes \ {w} : proc'[q] = proc[q]
<1> DEFINE f == [proc[w] EXCEPT !.at = "batch", !.event = NoEvent, !.log = 0]
<1>1. proc[w] \in BusyProcess /\ FrameOK(proc[w], Len(log)) /\ Len(log) \in Nat
  BY BusyFields
<1>2. 0 \in 0..MaxLogs
  BY DeliveryBounds
<1>3. /\ f \in BusyProcess /\ f.at = "batch" /\ f.log = 0
      /\ f.retry = proc[w].retry
      /\ FrameOK(f, Len(log'))
  <2>1. f \in BusyProcess
    BY <1>1, <1>2 DEF BusyProcess
  <2>2. f.at = "batch" /\ f.log = 0 /\ f.retry = proc[w].retry
    BY <1>1 DEF BusyProcess
  <2> QED BY <1>1, <2>1, <2>2 DEF FrameOK
<1>4. proc' = [proc EXCEPT ![w] = f]
  BY DEF Step
<1>5. Len(log') \in Nat /\ Len(log) <= Len(log')
  BY <1>1
<1> HIDE DEF f
<1>6. /\ ProcessesTyped' /\ proc'[w] = f
      /\ \A q \in Processes \ {w} : proc'[q] = proc[q]
  BY <1>3, <1>4, <1>5, FrameStep
<1> QED BY <1>6 DEF f


(* What a failed attempt makes of the row of a log, or of an event.        *)
LEMMA FailedRows ==
  /\ \A row \in LogRow, read \in Nat :
       /\ FailedLog(row, read) \in LogRow
       /\ FailedLog(row, read).event = row.event
       /\ FailedLog(row, read).taken = row.taken
       /\ FailedLog(row, read).unanswered = row.unanswered
       /\ row.status = "processing" => FailedLog(row, read).status \in {"failed", "dead"}
  /\ \A row \in EventRow, read \in Nat :
       /\ FailedEvent(row, read) \in EventRow
       /\ FailedEvent(row, read).status = "succeeded" => row.status = "succeeded"
<1>1. MaxAttempts \in Nat /\ MaxAttempts \in 0..MaxAttempts
  BY AttemptsAssumption
<1>2. ASSUME NEW row \in LogRow, NEW read \in Nat
      PROVE  /\ FailedLog(row, read) \in LogRow
             /\ FailedLog(row, read).event = row.event
             /\ FailedLog(row, read).taken = row.taken
             /\ FailedLog(row, read).unanswered = row.unanswered
             /\ row.status = "processing" =>
                  FailedLog(row, read).status \in {"failed", "dead"}
  <2>1. CASE read + 1 >= MaxAttempts
    BY <1>1, <2>1 DEF FailedLog, LogRow
  <2>2. CASE ~(read + 1 >= MaxAttempts) /\ row.status \in {"pending", "processing", "failed"}
    <3>1. FailedLog(row, read) =
            [row EXCEPT !.status = "failed", !.waiting = TRUE,
                        !.attempts = IF @ < MaxAttempts THEN @ + 1 ELSE @]
      BY <2>2 DEF FailedLog
    <3>2. (IF row.attempts < MaxAttempts THEN row.attempts + 1 ELSE row.attempts)
            \in 0..MaxAttempts
      BY <1>1 DEF LogRow
    <3> QED BY <3>1, <3>2 DEF LogRow
  <2>3. CASE ~(read + 1 >= MaxAttempts) /\ row.status \notin {"pending", "processing", "failed"}
    BY <2>3 DEF FailedLog
  <2> QED BY <2>1, <2>2, <2>3
<1>3. ASSUME NEW row \in EventRow, NEW read \in Nat
      PROVE  /\ FailedEvent(row, read) \in EventRow
             /\ FailedEvent(row, read).status = "succeeded" => row.status = "succeeded"
  <2>1. CASE read + 1 >= MaxAttempts
    BY <1>1, <2>1 DEF FailedEvent, EventRow
  <2>2. CASE ~(read + 1 >= MaxAttempts) /\ row.status = "processing"
    <3>1. FailedEvent(row, read) =
            [row EXCEPT !.status = "failed", !.waiting = TRUE,
                        !.attempts = IF @ < MaxAttempts THEN @ + 1 ELSE @]
      BY <2>2 DEF FailedEvent
    <3>2. (IF row.attempts < MaxAttempts THEN row.attempts + 1 ELSE row.attempts)
            \in 0..MaxAttempts
      BY <1>1 DEF EventRow
    <3> QED BY <3>1, <3>2 DEF EventRow
  <2>3. CASE ~(read + 1 >= MaxAttempts) /\ row.status # "processing"
    BY <2>3 DEF FailedEvent
  <2> QED BY <2>1, <2>2, <2>3
<1> QED BY <1>2, <1>3

(* The rows of the logs that a process writes to.                          *)
LEMMA RowOfProcess ==
  ASSUME TypeOK, NEW p \in Processes,
         proc[p].at \in {"send", "sent", "failed", "created", "dispatch"}
  PROVE  /\ proc[p].log \in 1..Len(log) /\ Len(log) \in Nat
         /\ log[proc[p].log] \in LogRow
         /\ proc[p] \in BusyProcess /\ FrameOK(proc[p], Len(log))
         /\ LogsTyped
<1>1. proc[p].at # "idle"
  OBVIOUS
<1>2. proc[p] \in BusyProcess /\ FrameOK(proc[p], Len(log)) /\ Len(log) \in Nat
  BY <1>1, BusyFields
<1>3. proc[p].log \in 1..Len(log)
  BY <1>1, <1>2 DEF BusyProcess, FrameOK
<1>4. LogsTyped
  BY TypesAreParts
<1>5. log[proc[p].log] \in LogRow
  BY <1>3, <1>4, ElementOfSeq DEF LogsTyped
<1> QED BY <1>2, <1>3, <1>4, <1>5

(* What the statements of dispatchLog do to a log.                         *)
LEMMA DispatchWrites ==
  ASSUME TypeOK, NEW p \in Processes,
         \/ MarkProcessing(p) \/ Send(p) \/ SendUnanswered(p)
         \/ MarkSent(p) \/ MarkFailed(p)
         \/ proc[p].at = "sent" /\ log' = Sent(proc[p].log)
  PROVE  LET l == proc[p].log IN
         /\ LogsTyped' /\ Len(log') = Len(log)
         /\ \A k \in 1..Len(log) \ {l} : log'[k] = log[k]
         /\ log'[l].event = log[l].event
         /\ Send(p) => log'[l] = [log[l] EXCEPT !.taken = @ + 1]
         /\ SendUnanswered(p) => log'[l] = Unanswered(log[l])
         /\ MarkProcessing(p) => log'[l] = [log[l] EXCEPT !.status = "processing"]
         /\ MarkFailed(p) => log'[l] = FailedLog(log[l], proc[p].attempts)
         /\ ~(MarkProcessing(p) \/ Send(p) \/ SendUnanswered(p) \/ MarkFailed(p)) =>
              log'[l] = [log[l] EXCEPT !.status = "sent"]
<1> DEFINE l == proc[p].log
<1>1. proc[p].at \in {"send", "sent", "failed", "dispatch"}
  BY DEF MarkProcessing, Send, SendUnanswered, MarkSent, MarkFailed
<1>2. l \in 1..Len(log) /\ log[l] \in LogRow /\ LogsTyped /\ proc[p] \in BusyProcess
      /\ faults \in Nat
  BY <1>1, RowOfProcess, TypesAreParts
<1> HIDE DEF l
<1>3. CASE MarkProcessing(p)
  <2> DEFINE r == [log[l] EXCEPT !.status = "processing"]
  <2>1. log' = [log EXCEPT ![l] = r] /\ r \in LogRow /\ r.event = log[l].event
        /\ ~Send(p) /\ ~SendUnanswered(p) /\ ~MarkFailed(p)
    BY <1>2, <1>3 DEF MarkProcessing, Send, SendUnanswered, MarkFailed, LogRow, l
  <2> HIDE DEF r
  <2>2. LogsTyped' /\ Len(log') = Len(log) /\ log'[l] = r
        /\ \A k \in 1..Len(log) \ {l} : log'[k] = log[k]
    BY <1>2, <2>1, LogUpdate
  <2> QED BY <1>3, <2>1, <2>2 DEF l, r
<1>4. CASE Send(p)
  <2> DEFINE r == [log[l] EXCEPT !.taken = @ + 1]
  <2>1. log' = [log EXCEPT ![l] = r] /\ r \in LogRow /\ r.event = log[l].event
        /\ ~MarkProcessing(p) /\ ~SendUnanswered(p) /\ ~MarkFailed(p)
    <3>1. log' = [log EXCEPT ![l] = r] /\ r \in LogRow /\ r.event = log[l].event
      BY <1>2, <1>4 DEF Send, LogRow, l
    <3>2. proc[p].at = "send" /\ faults' = faults
      BY <1>4 DEF Send
    <3>3. ~MarkProcessing(p) /\ ~SendUnanswered(p) /\ ~MarkFailed(p)
      BY <1>2, <3>2 DEF MarkProcessing, SendUnanswered, MarkFailed
    <3> QED BY <3>1, <3>3
  <2> HIDE DEF r
  <2>2. LogsTyped' /\ Len(log') = Len(log) /\ log'[l] = r
        /\ \A k \in 1..Len(log) \ {l} : log'[k] = log[k]
    BY <1>2, <2>1, LogUpdate
  <2> QED BY <1>4, <2>1, <2>2 DEF l, r
<1>5. CASE MarkFailed(p)
  <2> DEFINE r == FailedLog(log[l], proc[p].attempts)
  <2>1. log' = [log EXCEPT ![l] = r] /\ ~MarkProcessing(p) /\ ~Send(p) /\ ~SendUnanswered(p)
    BY <1>2, <1>5 DEF MarkProcessing, Send, SendUnanswered, MarkFailed, l
  <2>2. proc[p].attempts \in Nat
    BY <1>2 DEF BusyProcess
  <2>3. r \in LogRow /\ r.event = log[l].event
    BY <1>2, <2>2, FailedRows
  <2> HIDE DEF r
  <2>4. LogsTyped' /\ Len(log') = Len(log) /\ log'[l] = r
        /\ \A k \in 1..Len(log) \ {l} : log'[k] = log[k]
    BY <1>2, <2>1, <2>3, LogUpdate
  <2> QED BY <1>5, <2>1, <2>3, <2>4 DEF l, r
<1>6. CASE proc[p].at = "sent" /\ log' = Sent(l)
  <2> DEFINE r == [log[l] EXCEPT !.status = "sent"]
  <2>1. log' = [log EXCEPT ![l] = r] /\ r \in LogRow /\ r.event = log[l].event
        /\ ~MarkProcessing(p) /\ ~Send(p) /\ ~SendUnanswered(p) /\ ~MarkFailed(p)
    BY <1>2, <1>6 DEF MarkProcessing, Send, SendUnanswered, MarkFailed, Sent, LogRow
  <2> HIDE DEF r
  <2>2. LogsTyped' /\ Len(log') = Len(log) /\ log'[l] = r
        /\ \A k \in 1..Len(log) \ {l} : log'[k] = log[k]
    BY <1>2, <2>1, LogUpdate
  <2> QED BY <2>1, <2>2 DEF l, r
<1>7. CASE SendUnanswered(p)
  <2> DEFINE r == Unanswered(log[l])
  <2>1. log' = [log EXCEPT ![l] = r] /\ r \in LogRow /\ r.event = log[l].event
        /\ ~MarkProcessing(p) /\ ~Send(p) /\ ~MarkFailed(p)
    <3>1. log' = [log EXCEPT ![l] = r]
      BY <1>7 DEF SendUnanswered, l
    <3>2. r \in LogRow /\ r.event = log[l].event
      <4>1. log[l].taken + 1 \in Nat /\ log[l].unanswered + 1 \in Nat
        BY <1>2 DEF LogRow
      <4> QED BY <1>2, <4>1 DEF LogRow, Unanswered
    <3>3. proc[p].at = "send" /\ faults' = faults + 1
      BY <1>7 DEF SendUnanswered
    <3>4. ~MarkProcessing(p) /\ ~Send(p) /\ ~MarkFailed(p)
      BY <1>2, <3>3 DEF MarkProcessing, Send, MarkFailed
    <3> QED BY <3>1, <3>2, <3>4
  <2> HIDE DEF r
  <2>2. LogsTyped' /\ Len(log') = Len(log) /\ log'[l] = r
        /\ \A k \in 1..Len(log) \ {l} : log'[k] = log[k]
    BY <1>2, <2>1, LogUpdate
  <2> QED BY <1>7, <2>1, <2>2 DEF l, r
<1> QED BY <1>3, <1>4, <1>5, <1>6, <1>7 DEF MarkSent, l

(* Cancel and the end of a wait touch no more than the status of a pending *)
(* log and its waiting.                                                    *)
LEMMA OtherWrites ==
  ASSUME LogsTyped, NEW l \in 1..Len(log),
         CancelPending(l) \/ LogWaits(l)
  PROVE  /\ LogsTyped' /\ Len(log') = Len(log)
         /\ \A k \in 1..Len(log) :
              /\ log'[k].event = log[k].event
              /\ log'[k].taken = log[k].taken
              /\ log'[k].unanswered = log[k].unanswered
              /\ \/ log'[k].status = log[k].status
                 \/ k = l /\ log[k].status = "pending" /\ log'[k].status = "cancelled"
         /\ CancelPending(l) /\ log[l].status = "pending" => log'[l].status = "cancelled"
<1>1. log[l] \in LogRow
  BY ElementOfSeq DEF LogsTyped
<1>2. CASE CancelPending(l)
  <2> DEFINE r == [log[l] EXCEPT !.status = IF @ = "pending" THEN "cancelled" ELSE @]
  <2>1. log' = [log EXCEPT ![l] = r] /\ r \in LogRow
    BY <1>1, <1>2 DEF CancelPending, LogRow
  <2>2. /\ r.event = log[l].event /\ r.taken = log[l].taken
        /\ r.unanswered = log[l].unanswered
        /\ \/ r.status = log[l].status /\ log[l].status # "pending"
           \/ log[l].status = "pending" /\ r.status = "cancelled"
    BY <1>1 DEF LogRow
  <2> HIDE DEF r
  <2>3. LogsTyped' /\ Len(log') = Len(log) /\ log'[l] = r
        /\ \A k \in 1..Len(log) \ {l} : log'[k] = log[k]
    BY <2>1, LogUpdate
  <2> QED BY <2>2, <2>3
<1>3. CASE LogWaits(l) /\ ~CancelPending(l)
  <2> DEFINE r == [log[l] EXCEPT !.waiting = FALSE]
  <2>1. log' = [log EXCEPT ![l] = r] /\ r \in LogRow
    BY <1>1, <1>3 DEF LogWaits, LogRow
  <2>2. /\ r.event = log[l].event /\ r.taken = log[l].taken
        /\ r.unanswered = log[l].unanswered /\ r.status = log[l].status
    BY <1>1 DEF LogRow
  <2> HIDE DEF r
  <2>3. LogsTyped' /\ Len(log') = Len(log) /\ log'[l] = r
        /\ \A k \in 1..Len(log) \ {l} : log'[k] = log[k]
    BY <2>1, LogUpdate
  <2> QED BY <1>3, <2>2, <2>3
<1> QED BY <1>2, <1>3

(* What a statement of a process does to the events.                       *)
LEMMA EventWrites ==
  ASSUME TypeOK, NEW e \in Events, NEW r \in EventRow,
         event' = [event EXCEPT ![e] = r]
  PROVE  /\ EventsTyped'
         /\ event'[e] = r
         /\ \A d \in Events \ {e} : event'[d] = event[d]
BY DEF TypeOK, EventsTyped

(* A claim: every event is left alone or taken.                            *)
LEMMA ClaimWrites ==
  ASSUME TypeOK, NEW w \in Processes, Claim(w)
  PROVE  \E S \in SUBSET DueEvents :
           /\ EventsTyped' /\ ProcessesTyped'
           /\ proc'[w] = [at |-> "batch", claimed |-> {<<e, event[e].attempts>> : e \in S},
                          retry |-> {}, event |-> NoEvent, tries |-> 0, log |-> 0,
                          attempts |-> 0]
           /\ \A q \in Processes \ {w} : proc'[q] = proc[q]
           /\ \A e \in S : event'[e].status = "processing"
           /\ \A e \in Events \ S : event'[e] = event[e]
           /\ UNCHANGED <<log, faults>>
<1>1. PICK S \in Limited(DueEvents) :
        /\ event' = [e \in Events |->
             IF e \in S THEN [event[e] EXCEPT !.status = "processing"] ELSE event[e]]
        /\ Step(w, [at |-> "batch", claimed |-> {<<e, event[e].attempts>> : e \in S},
                    retry |-> {}, event |-> NoEvent, tries |-> 0, log |-> 0,
                    attempts |-> 0])
        /\ UNCHANGED <<log, faults>>
  BY DEF Claim
<1> DEFINE f == [at |-> "batch", claimed |-> {<<e, event[e].attempts>> : e \in S},
                 retry |-> {}, event |-> NoEvent, tries |-> 0, log |-> 0, attempts |-> 0]
<1>2. S \subseteq DueEvents /\ S \subseteq Events
  BY DEF Limited, DueEvents
<1>3. event \in [Events -> EventRow] /\ Len(log) \in Nat
  BY TypesAreParts DEF EventsTyped, LogsTyped
<1>4. EventsTyped' /\ (\A e \in S : event'[e].status = "processing")
      /\ (\A e \in Events \ S : event'[e] = event[e])
  BY <1>1, <1>2, <1>3 DEF EventsTyped, EventRow
<1>5. {<<e, event[e].attempts>> : e \in S} \in SUBSET (Events \X (0..MaxAttempts))
  BY <1>2, <1>3 DEF EventRow
<1>6. 0 \in 0..MaxAttempts /\ 0 \in 0..MaxLogs
  BY AttemptsAssumption, DeliveryBounds
<1>7. f \in BusyProcess /\ f.at = "batch" /\ f.log = 0 /\ f.retry = {}
  BY <1>5, <1>6 DEF BusyProcess
<1>8. FrameOK(f, Len(log'))
  BY <1>1, <1>3, <1>7 DEF FrameOK
<1>9. proc' = [proc EXCEPT ![w] = f] /\ Len(log') \in Nat /\ Len(log) <= Len(log')
  BY <1>1, <1>3 DEF Step
<1> HIDE DEF f
<1>10. /\ ProcessesTyped' /\ proc'[w] = f
       /\ \A q \in Processes \ {w} : proc'[q] = proc[q]
  BY <1>8, <1>9, FrameStep
<1> QED BY <1>1, <1>2, <1>4, <1>10 DEF f

(* The steps that only move a process: to its list of logs, to the next    *)
(* log of it, out of it, staff's request, and a crash.                     *)
LEMMA ListSteps ==
  ASSUME TypeOK, NEW p \in Processes,
         \/ FindRetryable(p) \/ RetryNext(p) \/ RetryDone(p) \/ Crash(p)
         \/ \E l \in 1..Len(log) : RetryByStaff(p, l)
  PROVE  /\ ProcessesTyped'
         /\ \/ proc'[p] = Idle
            \/ /\ proc'[p] \in BusyProcess
               /\ proc'[p].claimed = {} \/ RetryNext(p)
               /\ \/ FindRetryable(p) /\ proc'[p].at = "retry"
                     /\ proc'[p].event = proc[p].event
                  \/ proc'[p].at = "dispatch" /\ proc'[p].event = NoEvent
                     /\ ~RetryNext(p)
                  \/ RetryNext(p) /\ proc'[p].at = "dispatch"
                     /\ proc'[p].event = proc[p].event
                     /\ proc'[p].claimed = proc[p].claimed
         /\ \A q \in Processes \ {p} : proc'[q] = proc[q]
         /\ UNCHANGED <<event, log>> /\ faults' \in Nat
<1> USE DEF Step
<1>1. UNCHANGED <<event, log>> /\ faults' \in Nat /\ Len(log) \in Nat
      /\ Len(log') \in Nat /\ Len(log) <= Len(log')
  <2>1. Len(log) \in Nat /\ faults \in Nat
    BY TypesAreParts DEF LogsTyped
  <2>2. event' = event /\ log' = log /\ (faults' = faults \/ faults' = faults + 1)
    BY DEF FindRetryable, RetryNext, RetryDone, Crash, RetryByStaff
  <2> QED BY <2>1, <2>2
<1>2. CASE proc' = [proc EXCEPT ![p] = Idle]
  <2>1. FrameOK(Idle, Len(log'))
    BY DEF FrameOK, Idle
  <2> QED BY <1>1, <1>2, <2>1, FrameStep
<1>3. CASE RetryDone(p) \/ Crash(p)
  BY <1>2, <1>3 DEF RetryDone, Crash
<1>4. CASE FindRetryable(p)
  <2>1. PICK S \in Limited(Retryable) :
          proc' = [proc EXCEPT ![p] =
                     [proc[p] EXCEPT !.at = "retry",
                                     !.retry = {<<l, log[l].attempts>> : l \in S}]]
    BY <1>4 DEF FindRetryable
  <2> DEFINE R == {<<l, log[l].attempts>> : l \in S}
             f == [proc[p] EXCEPT !.at = "retry", !.retry = R]
  <2>2. proc[p].at # "idle" /\ proc[p].claimed = {}
    BY <1>4 DEF FindRetryable
  <2>3. proc[p] \in BusyProcess /\ FrameOK(proc[p], Len(log))
    BY <2>2, BusyFields
  <2>4. S \subseteq 1..Len(log) /\ log \in Seq(LogRow) /\ Len(log) <= MaxLogs
    BY TypesAreParts DEF Limited, Retryable, LogsTyped
  <2>5. \A l \in S : l \in 1..MaxLogs /\ log[l].attempts \in 0..MaxAttempts
    <3>1. \A l \in S : log[l] \in LogRow
      BY <2>4, ElementOfSeq
    <3> QED BY <1>1, <2>4, <3>1, DeliveryBounds DEF LogRow
  <2>6. R \in SUBSET ((1..MaxLogs) \X (0..MaxAttempts)) /\ \A d \in R : d[1] <= Len(log)
    BY <1>1, <2>4, <2>5
  <2> HIDE DEF R
  <2>7. f \in BusyProcess /\ f.at = "retry" /\ f.retry = R /\ f.event = proc[p].event
        /\ f.log = proc[p].log /\ f.claimed = {}
    BY <2>2, <2>3, <2>6 DEF BusyProcess
  <2>8. FrameOK(f, Len(log'))
    BY <1>1, <2>2, <2>3, <2>6, <2>7 DEF FrameOK
  <2>9. proc' = [proc EXCEPT ![p] = f]
    BY <2>1 DEF R
  <2> HIDE DEF f
  <2> QED BY <1>1, <1>4, <2>7, <2>8, <2>9, FrameStep
<1>5. CASE RetryNext(p)
  <2>1. PICK d \in proc[p].retry :
          proc' = [proc EXCEPT ![p] =
                     [proc[p] EXCEPT !.at = "dispatch", !.retry = @ \ {d},
                                     !.log = d[1], !.attempts = d[2]]]
    BY <1>5 DEF RetryNext
  <2> DEFINE f == [proc[p] EXCEPT !.at = "dispatch", !.retry = @ \ {d},
                                  !.log = d[1], !.attempts = d[2]]
  <2>2. proc[p].at # "idle"
    BY <1>5 DEF RetryNext
  <2>3. proc[p] \in BusyProcess /\ FrameOK(proc[p], Len(log))
    BY <2>2, BusyFields
  <2>4. d[1] \in 1..MaxLogs /\ d[2] \in 0..MaxAttempts /\ d[1] <= Len(log)
    BY <2>2, <2>3 DEF BusyProcess, FrameOK
  <2>5. f \in BusyProcess /\ f.at = "dispatch" /\ f.retry \subseteq proc[p].retry
        /\ f.log = d[1] /\ f.event = proc[p].event /\ f.claimed = proc[p].claimed
    <3>1. d[1] \in 0..MaxLogs
      BY <2>4
    <3> QED BY <2>3, <2>4, <3>1 DEF BusyProcess
  <2>6. FrameOK(f, Len(log'))
    BY <1>1, <2>2, <2>3, <2>4, <2>5 DEF FrameOK
  <2>7. proc' = [proc EXCEPT ![p] = f]
    BY <2>1
  <2> HIDE DEF f
  <2> QED BY <1>1, <1>5, <2>5, <2>6, <2>7, FrameStep
<1>6. CASE \E l \in 1..Len(log) : RetryByStaff(p, l)
  <2>1. PICK l \in 1..Len(log) : RetryByStaff(p, l)
    BY <1>6
  <2> DEFINE f == [at |-> "dispatch", claimed |-> {}, retry |-> {}, event |-> NoEvent,
                   tries |-> 0, log |-> l, attempts |-> log[l].attempts]
  <2>2. log[l] \in LogRow /\ l \in 0..MaxLogs /\ l > 0
    <3>1. log \in Seq(LogRow) /\ Len(log) <= MaxLogs
      BY TypesAreParts DEF LogsTyped
    <3> QED BY <1>1, <3>1, ElementOfSeq, DeliveryBounds
  <2>3. f \in BusyProcess /\ f.at = "dispatch" /\ f.retry = {} /\ f.log = l
        /\ f.event = NoEvent /\ f.claimed = {}
    BY <2>2, AttemptsAssumption DEF BusyProcess, LogRow
  <2>4. FrameOK(f, Len(log'))
    BY <1>1, <2>2, <2>3 DEF FrameOK
  <2>5. proc' = [proc EXCEPT ![p] = f] /\ ~RetryNext(p)
    BY <2>1 DEF RetryByStaff, RetryNext
  <2> HIDE DEF f
  <2> QED BY <1>1, <2>3, <2>4, <2>5, FrameStep
<1> QED BY <1>3, <1>4, <1>5, <1>6

-----------------------------------------------------------------------------
(* The steps, by what they leave of the processes, logs and events *)

LEMMA MovesOfGoto ==
  ASSUME NEW p \in Processes, proc[p] \in BusyProcess, NEW label \in Labels,
         proc'[p] = [proc[p] EXCEPT !.at = label]
  PROVE  Moves(p, label)
BY DEF Moves, BusyProcess, Labels

LEMMA EventSteps ==
  ASSUME TypeOK, NEW e \in Events, Publish(e) \/ EventWaits(e)
  PROVE  /\ TypeOK' /\ UNCHANGED <<log, proc>>
         /\ \A d \in Events :
              \/ event'[d].status = event[d].status
              \/ event[d].status = "none" /\ event'[d].status = "pending"
<1>1. EventsTyped /\ LogsTyped /\ ProcessesTyped /\ faults \in Nat
  BY TypesAreParts
<1>2. UNCHANGED <<log, proc, faults>>
  BY DEF Publish, EventWaits
<1>3. LogsTyped' /\ ProcessesTyped' /\ faults' \in Nat
  BY <1>1, <1>2 DEF LogsTyped, ProcessesTyped, FrameOK
<1>4. PICK r \in EventRow :
        /\ event' = [event EXCEPT ![e] = r]
        /\ \/ r.status = event[e].status
           \/ event[e].status = "none" /\ r.status = "pending"
  <2>1. event[e] \in EventRow
    BY <1>1 DEF EventsTyped
  <2>2. CASE Publish(e)
    <3> DEFINE s == [event[e] EXCEPT !.status = "pending"]
    <3>1. s \in EventRow /\ s.status = "pending" /\ event' = [event EXCEPT ![e] = s]
          /\ event[e].status = "none"
      BY <2>1, <2>2 DEF Publish, EventRow
    <3> QED BY <3>1
  <2>3. CASE EventWaits(e)
    <3> DEFINE s == [event[e] EXCEPT !.waiting = FALSE]
    <3>1. s \in EventRow /\ s.status = event[e].status /\ event' = [event EXCEPT ![e] = s]
      BY <2>1, <2>3 DEF EventWaits, EventRow
    <3> QED BY <3>1
  <2> QED BY <2>2, <2>3
<1>5. EventsTyped' /\ event'[e] = r /\ \A d \in Events \ {e} : event'[d] = event[d]
  BY <1>4, EventWrites
<1> QED BY <1>2, <1>3, <1>4, <1>5, TypesNext

LEMMA ConsumeSteps ==
  ASSUME TypeOK, NEW w \in Processes,
         ConsumeIgnored(w) \/ ConsumeRefused(w) \/ CreateLog(w)
  PROVE  /\ TypeOK' /\ UNCHANGED event /\ Others(w)
         /\ proc[w].at = "batch" /\ proc[w] \in BusyProcess
         /\ \E c \in proc[w].claimed :
              \/ log' = log /\ Takes(w, c, "fail", 0)
              \/ log' = log /\ Takes(w, c, "succeed", 0) /\ c[1] \in Unruled
              \/ /\ Takes(w, c, "created", Len(log) + 1)
                 /\ Len(log) \in Nat /\ Len(log') = Len(log) + 1
                 /\ log'[Len(log) + 1] = [event |-> c[1], status |-> "pending",
                      attempts |-> 0, waiting |-> FALSE, taken |-> 0, unanswered |-> 0]
                 /\ \A k \in 1..Len(log) : log'[k] = log[k]
<1>1. EventsTyped /\ LogsTyped /\ ProcessesTyped /\ faults \in Nat
      /\ Len(log) \in Nat /\ MaxLogs \in Nat
  BY TypesAreParts, DeliveryBounds DEF LogsTyped
<1>2. proc[w].at = "batch" /\ UNCHANGED <<event, faults>>
  BY DEF ConsumeIgnored, ConsumeRefused, CreateLog
<1>3. proc[w] \in BusyProcess
  BY <1>2, BusyFields
<1>4. EventsTyped' /\ faults' \in Nat
  BY <1>1, <1>2 DEF EventsTyped
<1>6. CASE ConsumeIgnored(w) \/ ConsumeRefused(w)
  <2>1. PICK c \in proc[w].claimed, label \in {"succeed", "fail"} :
          /\ Take(w, c, label, 0) /\ log' = log
          /\ label = "succeed" => c[1] \in Unruled
    BY <1>6 DEF ConsumeIgnored, ConsumeRefused
  <2>2. 0 \in 0..MaxLogs
    BY <1>1
  <2>3. ProcessesTyped' /\ Takes(w, c, label, 0) /\ Others(w)
    BY <1>1, <1>2, <2>1, <2>2, TakeStep
  <2>4. LogsTyped'
    BY <1>1, <2>1 DEF LogsTyped
  <2> QED BY <1>2, <1>3, <1>4, <2>1, <2>3, <2>4, TypesNext
<1>7. CASE CreateLog(w)
  <2>1. PICK c \in proc[w].claimed :
          /\ log' = Append(log, [event |-> c[1], status |-> "pending", attempts |-> 0,
                                 waiting |-> FALSE, taken |-> 0, unanswered |-> 0])
          /\ Take(w, c, "created", Len(log) + 1)
          /\ Len(log) < MaxLogs
    BY <1>7 DEF CreateLog
  <2> DEFINE r == [event |-> c[1], status |-> "pending", attempts |-> 0,
                   waiting |-> FALSE, taken |-> 0, unanswered |-> 0]
  <2>2. r \in LogRow
    BY <1>3, AttemptsAssumption DEF BusyProcess, LogRow
  <2>3. log' = Append(log, r)
    BY <2>1
  <2>4. /\ LogsTyped' /\ Len(log') = Len(log) + 1 /\ log'[Len(log) + 1] = r
        /\ \A k \in 1..Len(log) : log'[k] = log[k]
    <3> HIDE DEF r
    <3> QED BY <1>1, <2>1, <2>2, <2>3, LogAppend
  <2>5. Len(log) + 1 \in 0..MaxLogs /\ Len(log) + 1 > 0 /\ Len(log') \in Nat
        /\ Len(log) <= Len(log') /\ Len(log) + 1 <= Len(log')
    BY <1>1, <2>1, <2>4
  <2>6. ProcessesTyped' /\ Takes(w, c, "created", Len(log) + 1) /\ Others(w)
    BY <1>2, <2>1, <2>5, TakeStep
  <2> QED BY <1>1, <1>2, <1>3, <1>4, <2>4, <2>6, TypesNext
<1> QED BY <1>6, <1>7

(* The preference: the log is cancelled, was taken by staff or goes on.    *)
LEMMA PreferenceSteps ==
  ASSUME TypeOK, NEW w \in Processes, PreferenceOff(w) \/ PreferenceOn(w)
  PROVE  /\ TypeOK' /\ UNCHANGED event /\ Others(w)
         /\ proc[w].at = "created" /\ proc[w].log \in 1..Len(log)
         /\ proc[w] \in BusyProcess
         /\ \/ log' = log /\ Moves(w, "dispatch") /\ proc[w].event \notin Muted
            \/ CancelPending(proc[w].log) /\ Moves(w, "fail")
            \/ /\ CancelPending(proc[w].log) /\ Moves(w, "succeed")
               /\ log[proc[w].log].status = "pending" /\ proc[w].event \in Muted
<1>1. EventsTyped /\ LogsTyped /\ ProcessesTyped /\ faults \in Nat
  BY TypesAreParts
<1>2. proc[w].at = "created" /\ UNCHANGED <<event, faults>>
  BY DEF PreferenceOff, PreferenceOn
<1>3. proc[w] \in BusyProcess /\ proc[w].log \in 1..Len(log) /\ Len(log) \in Nat
      /\ FrameOK(proc[w], Len(log))
  BY <1>2, RowOfProcess
<1>4. EventsTyped' /\ faults' \in Nat
  BY <1>1, <1>2 DEF EventsTyped
<1>5. ASSUME NEW label \in {"dispatch", "succeed", "fail"}, Goto(w, label),
             Len(log') = Len(log)
      PROVE  ProcessesTyped' /\ Moves(w, label) /\ Others(w)
  <2>1. proc[w].log > 0 /\ proc[w].event # NoEvent /\ proc[w].at # "idle"
    BY <1>2, <1>3 DEF FrameOK
  <2>2. label \in Labels
    BY DEF Labels
  <2> QED BY <1>3, <1>5, <2>1, <2>2, GotoStep, MovesOfGoto DEF Others
<1>6. CASE PreferenceOn(w)
  <2>1. log' = log /\ Goto(w, "dispatch") /\ proc[w].event \notin Muted
    BY <1>6 DEF PreferenceOn
  <2>2. LogsTyped' /\ Len(log') = Len(log)
    BY <1>1, <2>1 DEF LogsTyped
  <2> QED BY <1>2, <1>3, <1>4, <1>5, <2>1, <2>2, TypesNext
<1>7. CASE PreferenceOff(w)
  <2>1. LogsTyped' /\ Len(log') = Len(log) /\ CancelPending(proc[w].log)
    BY <1>1, <1>3, <1>7, OtherWrites DEF PreferenceOff
  <2>2. CASE log[proc[w].log].status = "pending"
    <3>1. Goto(w, "succeed") /\ proc[w].event \in Muted
      BY <1>7, <2>2 DEF PreferenceOff
    <3> QED BY <1>2, <1>3, <1>4, <1>5, <2>1, <2>2, <3>1, TypesNext
  <2>3. CASE log[proc[w].log].status # "pending"
    <3>1. Goto(w, "fail")
      BY <1>7, <2>3 DEF PreferenceOff
    <3> QED BY <1>2, <1>3, <1>4, <1>5, <2>1, <3>1, TypesNext
  <2> QED BY <2>2, <2>3
<1> QED BY <1>6, <1>7

(* The end of an event.                                                    *)
LEMMA DoneSteps ==
  ASSUME TypeOK, NEW w \in Processes, Succeed(w) \/ Fail(w)
  PROVE  /\ TypeOK' /\ UNCHANGED log /\ Others(w)
         /\ proc[w] \in BusyProcess /\ proc[w].event \in Events
         /\ proc'[w] \in BusyProcess /\ proc'[w].at = "batch"
         /\ proc'[w].claimed = proc[w].claimed /\ proc'[w].event = NoEvent
         /\ \A e \in Events \ {proc[w].event} : event'[e] = event[e]
         /\ \/ Succeed(w) /\ proc[w].at = "succeed"
            \/ event'[proc[w].event].status = "succeeded" =>
                 event[proc[w].event].status = "succeeded"
<1> DEFINE e == proc[w].event
<1>1. EventsTyped /\ LogsTyped /\ ProcessesTyped /\ faults \in Nat
  BY TypesAreParts
<1>2. /\ proc[w].at \in {"succeed", "fail"} /\ log' = log /\ faults' = faults
      /\ Step(w, [proc[w] EXCEPT !.at = "batch", !.event = NoEvent, !.log = 0])
  BY DEF Succeed, Fail
<1>3. proc[w] \in BusyProcess /\ FrameOK(proc[w], Len(log)) /\ proc[w].at # "idle"
  BY <1>2, BusyFields
<1>4. e \in Events /\ event[e] \in EventRow /\ proc[w].tries \in Nat
  BY <1>1, <1>2, <1>3, AttemptsAssumption DEF BusyProcess, FrameOK, EventsTyped
<1>5. /\ ProcessesTyped' /\ Others(w)
      /\ proc'[w] = [proc[w] EXCEPT !.at = "batch", !.event = NoEvent, !.log = 0]
  BY <1>2, <1>3, EventDoneStep DEF Others
<1>6. /\ proc'[w] \in BusyProcess /\ proc'[w].at = "batch"
      /\ proc'[w].claimed = proc[w].claimed /\ proc'[w].event = NoEvent
  <2>1. 0 \in 0..MaxLogs
    BY DeliveryBounds
  <2> QED BY <1>3, <1>5, <2>1 DEF BusyProcess
<1>7. LogsTyped' /\ faults' \in Nat
  BY <1>1, <1>2 DEF LogsTyped
<1> HIDE DEF e
<1>8. PICK r \in EventRow :
        /\ event' = [event EXCEPT ![e] = r]
        /\ \/ Succeed(w) /\ proc[w].at = "succeed"
           \/ r.status = "succeeded" => event[e].status = "succeeded"
  <2>1. CASE Succeed(w)
    <3> DEFINE s == [event[e] EXCEPT !.status = "succeeded"]
    <3>1. s \in EventRow /\ event' = [event EXCEPT ![e] = s] /\ proc[w].at = "succeed"
      BY <1>4, <2>1 DEF Succeed, EventRow, e
    <3> QED BY <2>1, <3>1
  <2>2. CASE Fail(w)
    <3> DEFINE s == FailedEvent(event[e], proc[w].tries)
    <3>1. event' = [event EXCEPT ![e] = s]
      BY <2>2 DEF Fail, e
    <3>2. s \in EventRow /\ (s.status = "succeeded" => event[e].status = "succeeded")
      BY <1>4, FailedRows
    <3> HIDE DEF s
    <3> QED BY <3>1, <3>2
  <2> QED BY <2>1, <2>2
<1>9. EventsTyped' /\ event'[e] = r /\ \A d \in Events \ {e} : event'[d] = event[d]
  BY <1>4, <1>8, EventWrites
<1>10. TypeOK'
  BY <1>5, <1>7, <1>9, TypesNext
<1> QED BY <1>2, <1>3, <1>4, <1>5, <1>6, <1>8, <1>9, <1>10 DEF e

(* A process at a log: what it writes, and where it goes.  An event that   *)
(* was consumed goes on as succeeded only from a log that was sent.        *)
WritesLog(p, row) ==
  /\ proc[p].log \in 1..Len(log) /\ Len(log') = Len(log)
  /\ \A k \in 1..Len(log) \ {proc[p].log} : log'[k] = log[k]
  /\ log'[proc[p].log] = row

LEMMA DispatchSteps ==
  ASSUME TypeOK, NEW p \in Processes,
         \/ MarkProcessing(p) \/ MarkProcessingLost(p) \/ Send(p) \/ SendFails(p)
         \/ SendUnanswered(p) \/ MarkSent(p) \/ MarkFailed(p) \/ StatementFails(p)
  PROVE  LET row == log[proc[p].log] IN
         /\ TypeOK' /\ UNCHANGED event /\ Others(p)
         /\ proc[p] \in BusyProcess /\ proc[p].log \in 1..Len(log)
         /\ row \in LogRow /\ proc[p].attempts \in Nat
         /\ \/ /\ MarkProcessing(p) /\ Moves(p, "send")
               /\ WritesLog(p, [row EXCEPT !.status = "processing"])
            \/ Send(p) /\ Moves(p, "sent") /\ WritesLog(p, [row EXCEPT !.taken = @ + 1])
            \/ SendFails(p) /\ Moves(p, "failed") /\ log' = log
            \/ /\ SendUnanswered(p) /\ Moves(p, "failed")
               /\ WritesLog(p, Unanswered(row))
            \/ /\ proc[p].at = "failed"
               /\ (Moves(p, "retry") /\ proc[p].event = NoEvent) \/ Moves(p, "fail")
               /\ WritesLog(p, FailedLog(row, proc[p].attempts))
            \/ /\ proc[p].at = "sent"
               /\ \/ Moves(p, "retry") /\ proc[p].event = NoEvent
                  \/ Moves(p, "fail") \/ Moves(p, "succeed")
               /\ WritesLog(p, [row EXCEPT !.status = "sent"])
            \/ /\ log' = log
               /\ (Moves(p, "retry") /\ proc[p].event = NoEvent) \/ Moves(p, "fail")
<1> DEFINE row == log[proc[p].log]
<1>1. EventsTyped /\ LogsTyped /\ ProcessesTyped /\ faults \in Nat
  BY TypesAreParts
<1>2. /\ proc[p].at \in {"created", "dispatch", "send", "sent", "failed"}
      /\ event' = event /\ (faults' = faults \/ faults' = faults + 1)
  BY DEF MarkProcessing, MarkProcessingLost, Send, SendFails, SendUnanswered, MarkSent, MarkFailed,
         StatementFails
<1>3. /\ proc[p] \in BusyProcess /\ proc[p].log \in 1..Len(log) /\ Len(log) \in Nat
      /\ row \in LogRow /\ proc[p].log > 0 /\ proc[p].at # "idle"
      /\ proc[p].attempts \in Nat
  <2>1. proc[p] \in BusyProcess /\ proc[p].log \in 1..Len(log) /\ Len(log) \in Nat
        /\ row \in LogRow
    BY <1>2, RowOfProcess
  <2> QED BY <1>2, <2>1, AttemptsAssumption DEF BusyProcess
<1>4. EventsTyped' /\ faults' \in Nat
  BY <1>1, <1>2 DEF EventsTyped
<1> HIDE DEF row
<1>5. ASSUME NEW label \in {"send", "sent", "failed"}, Goto(p, label),
             Len(log') = Len(log)
      PROVE  ProcessesTyped' /\ Moves(p, label) /\ Others(p)
  <2>1. label \in Labels
    BY DEF Labels
  <2> QED BY <1>3, <1>5, <2>1, GotoStep, MovesOfGoto DEF Others
<1>6. ASSUME NEW label \in {"succeed", "fail"}, After(p, label), Len(log') = Len(log)
      PROVE  /\ ProcessesTyped' /\ Others(p)
             /\ (Moves(p, "retry") /\ proc[p].event = NoEvent) \/ Moves(p, label)
  <2>1. /\ ProcessesTyped' /\ Others(p)
        /\ \/ proc[p].event = NoEvent /\ proc'[p] = [proc[p] EXCEPT !.at = "retry"]
           \/ proc[p].event # NoEvent /\ proc'[p] = [proc[p] EXCEPT !.at = label]
    BY <1>3, <1>6, AfterStep DEF Others
  <2>2. label \in Labels /\ "retry" \in Labels
    BY DEF Labels
  <2> QED BY <1>3, <2>1, <2>2, MovesOfGoto
<1>7. CASE MarkProcessing(p) \/ Send(p)
  <2>1. CASE MarkProcessing(p)
    <3>1. LogsTyped' /\ WritesLog(p, [row EXCEPT !.status = "processing"])
      BY <1>3, <2>1, DispatchWrites DEF WritesLog, row
    <3>2. ProcessesTyped' /\ Moves(p, "send") /\ Others(p)
      BY <1>5, <2>1, <3>1 DEF MarkProcessing, WritesLog
    <3> QED BY <1>2, <1>3, <1>4, <2>1, <3>1, <3>2, TypesNext DEF row
  <2>2. CASE Send(p)
    <3>1. LogsTyped' /\ WritesLog(p, [row EXCEPT !.taken = @ + 1])
      BY <1>3, <2>2, DispatchWrites DEF WritesLog, row
    <3>2. ProcessesTyped' /\ Moves(p, "sent") /\ Others(p)
      BY <1>5, <2>2, <3>1 DEF Send, WritesLog
    <3> QED BY <1>2, <1>3, <1>4, <2>2, <3>1, <3>2, TypesNext DEF row
  <2> QED BY <1>7, <2>1, <2>2
<1>8. CASE SendFails(p)
  <2>1. log' = log /\ Goto(p, "failed")
    BY <1>8 DEF SendFails
  <2>2. LogsTyped'
    BY <1>1, <2>1 DEF LogsTyped
  <2>3. ProcessesTyped' /\ Moves(p, "failed") /\ Others(p)
    BY <1>5, <2>1
  <2> QED BY <1>2, <1>3, <1>4, <1>8, <2>1, <2>2, <2>3, TypesNext DEF row
<1>12. CASE SendUnanswered(p)
  <2>1. LogsTyped' /\ WritesLog(p, Unanswered(row))
    BY <1>3, <1>12, DispatchWrites DEF WritesLog, row
  <2>2. ProcessesTyped' /\ Moves(p, "failed") /\ Others(p)
    BY <1>5, <1>12, <2>1 DEF SendUnanswered, WritesLog
  <2> QED BY <1>2, <1>3, <1>4, <1>12, <2>1, <2>2, TypesNext DEF row
<1>9. CASE MarkFailed(p)
  <2>1. LogsTyped' /\ WritesLog(p, FailedLog(row, proc[p].attempts))
    BY <1>3, <1>9, DispatchWrites DEF WritesLog, row
  <2>2. /\ ProcessesTyped' /\ Others(p) /\ proc[p].at = "failed"
        /\ (Moves(p, "retry") /\ proc[p].event = NoEvent) \/ Moves(p, "fail")
    BY <1>6, <1>9, <2>1 DEF MarkFailed, WritesLog
  <2> QED BY <1>2, <1>3, <1>4, <2>1, <2>2, TypesNext DEF row
<1>10. CASE MarkSent(p) \/ (StatementFails(p) /\ log' # log)
  <2>1. PICK label \in {"succeed", "fail"} :
          After(p, label) /\ proc[p].at = "sent" /\ log' = Sent(proc[p].log)
    BY <1>10 DEF MarkSent, StatementFails
  <2>2. ~MarkProcessing(p) /\ ~Send(p) /\ ~SendUnanswered(p) /\ ~MarkFailed(p)
    BY <2>1 DEF MarkProcessing, Send, SendUnanswered, MarkFailed
  <2>3. LogsTyped' /\ WritesLog(p, [row EXCEPT !.status = "sent"])
    BY <1>3, <2>1, <2>2, DispatchWrites DEF WritesLog, row
  <2>4. /\ ProcessesTyped' /\ Others(p)
        /\ (Moves(p, "retry") /\ proc[p].event = NoEvent) \/ Moves(p, label)
    BY <1>6, <2>1, <2>3 DEF WritesLog
  <2> QED BY <1>2, <1>3, <1>4, <2>1, <2>3, <2>4, TypesNext DEF row
<1>11. CASE MarkProcessingLost(p) \/ (StatementFails(p) /\ log' = log)
  <2>1. log' = log /\ After(p, "fail")
    BY <1>11 DEF MarkProcessingLost, StatementFails
  <2>2. LogsTyped'
    BY <1>1, <2>1 DEF LogsTyped
  <2>3. /\ ProcessesTyped' /\ Others(p)
        /\ (Moves(p, "retry") /\ proc[p].event = NoEvent) \/ Moves(p, "fail")
    BY <1>6, <2>1
  <2> QED BY <1>2, <1>3, <1>4, <2>1, <2>2, <2>3, TypesNext DEF row
<1> QED BY <1>7, <1>8, <1>9, <1>10, <1>11, <1>12

(* Cancel and the end of a wait.                                           *)
LEMMA LogSteps ==
  ASSUME TypeOK, NEW l \in 1..Len(log), LogWaits(l) \/ CancelByStaff(l)
  PROVE  /\ TypeOK' /\ UNCHANGED <<event, proc>> /\ Len(log') = Len(log)
         /\ CancelPending(l) \/ LogWaits(l)
<1>1. EventsTyped /\ LogsTyped /\ ProcessesTyped /\ faults \in Nat
  BY TypesAreParts
<1>2. UNCHANGED <<event, proc, faults>> /\ (CancelPending(l) \/ LogWaits(l))
  BY DEF LogWaits, CancelByStaff
<1>3. LogsTyped' /\ Len(log') = Len(log)
  BY <1>1, <1>2, OtherWrites
<1>4. EventsTyped' /\ ProcessesTyped' /\ faults' \in Nat
  BY <1>1, <1>2, <1>3 DEF EventsTyped, ProcessesTyped, FrameOK
<1> QED BY <1>2, <1>3, <1>4, TypesNext

-----------------------------------------------------------------------------
LEMMA WorkersAndClerks == Workers \subseteq Processes /\ Clerks \subseteq Processes
BY DEF Processes

LEMMA InitTypes == Init => TypeOK
<1> SUFFICES ASSUME Init PROVE TypeOK
  OBVIOUS
<1>1. event \in [Events -> EventRow] /\ faults \in Nat
  BY AttemptsAssumption DEF Init, EventRow
<1>2. log \in Seq(LogRow) /\ Len(log) = 0 /\ Len(log) <= MaxLogs
  BY DeliveryBounds DEF Init
<1>3. proc \in [Processes -> {Idle} \cup BusyProcess]
      /\ \A p \in Processes : proc[p].at = "idle"
  BY DEF Init, Idle
<1> QED BY <1>1, <1>2, <1>3 DEF TypeOK

(* Every step keeps the types, and the logs that processes point at.       *)
LEMMA TypeStep == TypeOK /\ [Next]_vars => TypeOK'
<1> SUFFICES ASSUME TypeOK, [Next]_vars PROVE TypeOK'
  OBVIOUS
<1>1. EventsTyped /\ LogsTyped
  BY TypesAreParts
<1>2. ASSUME NEW p \in Processes,
             \/ FindRetryable(p) \/ RetryNext(p) \/ RetryDone(p) \/ Crash(p)
             \/ \E l \in 1..Len(log) : RetryByStaff(p, l)
      PROVE  TypeOK'
  <2>1. ProcessesTyped' /\ UNCHANGED <<event, log>> /\ faults' \in Nat
    BY <1>2, ListSteps
  <2> QED BY <1>1, <2>1, TypesNext DEF EventsTyped, LogsTyped
<1>3. ASSUME NEW w \in Workers, WorkerStep(w) PROVE TypeOK'
  <2>1. w \in Processes
    BY WorkersAndClerks
  <2>2. CASE Claim(w)
    <3>1. EventsTyped' /\ ProcessesTyped' /\ UNCHANGED <<log, faults>>
      BY <2>1, <2>2, ClaimWrites
    <3>2. LogsTyped' /\ faults' \in Nat
      BY <1>1, <3>1 DEF LogsTyped, TypeOK
    <3> QED BY <3>1, <3>2, TypesNext
  <2>3. CASE ConsumeIgnored(w) \/ ConsumeRefused(w) \/ CreateLog(w)
    BY <2>1, <2>3, ConsumeSteps
  <2>4. CASE PreferenceOff(w) \/ PreferenceOn(w)
    BY <2>1, <2>4, PreferenceSteps
  <2>5. CASE Succeed(w) \/ Fail(w)
    BY <2>1, <2>5, DoneSteps
  <2> QED BY <1>2, <1>3, <2>1, <2>2, <2>3, <2>4, <2>5 DEF WorkerStep
<1>4. ASSUME NEW p \in Processes, DispatchStep(p) \/ FaultStep(p)
      PROVE  TypeOK'
  <2>1. CASE RetryNext(p) \/ RetryDone(p) \/ Crash(p)
    BY <1>2, <2>1
  <2>2. CASE ~(RetryNext(p) \/ RetryDone(p) \/ Crash(p))
    BY <1>4, <2>2, DispatchSteps DEF DispatchStep, FaultStep
  <2> QED BY <2>1, <2>2
<1>5. CASE UNCHANGED vars
  BY <1>5 DEF vars, TypeOK, Sending
<1>6. CASE Next
  BY <1>2, <1>3, <1>4, <1>6, EventSteps, LogSteps, WorkersAndClerks DEF Next
<1> QED BY <1>5, <1>6

(* Rows, logs and processes keep their shape, and no process points at a   *)
(* log that is not there.                                                  *)
THEOREM DeliveryTypes == Spec => []TypeOK
BY InitTypes, TypeStep, PTL DEF Spec, Safety

-----------------------------------------------------------------------------
(* A log is sent twice only when an answer was lost *)

(* A process between MarkProcessing and what follows has its log to itself, *)
(* and the provider has it once more when that process has seen it succeed. *)
SenderOK(p) ==
  Sending(p) =>
    /\ log[proc[p].log].status = "processing"
    /\ log[proc[p].log].taken =
      log[proc[p].log].unanswered + (IF proc[p].at = "sent" THEN 1 ELSE 0)

SendInv ==
  /\ \A p \in Processes : SenderOK(p)
  /\ \A p, q \in Processes :
       p # q /\ Sending(p) /\ Sending(q) => proc[p].log # proc[q].log
  /\ OnlyUnansweredSentAgain

LogsKept ==
  /\ Len(log) <= Len(log')
  /\ \A l \in 1..Len(log) :
       /\ log'[l].event = log[l].event
       /\ log[l].status \in {"sent", "cancelled"} =>
            log'[l].status = log[l].status /\ log'[l].taken = log[l].taken

(* The steps that no sender takes.                                         *)
QuietLogs ==
  /\ Len(log) \in Nat /\ Len(log') \in Nat /\ Len(log) <= Len(log')
  /\ \A k \in 1..Len(log) :
       /\ log'[k].event = log[k].event
       /\ log'[k].taken = log[k].taken
       /\ log'[k].unanswered = log[k].unanswered
       /\ \/ log'[k].status = log[k].status
          \/ log[k].status = "pending" /\ log'[k].status = "cancelled"
  /\ \A k \in 1..Len(log') :
       \/ k \in 1..Len(log)
       \/ log'[k].status = "pending" /\ log'[k].taken = 0 /\ log'[k].unanswered = 0

QuietProcesses ==
  \A p \in Processes :
    Sending(p)' => /\ Sending(p) /\ proc'[p].log = proc[p].log
                   /\ (proc'[p].at = "sent") <=> proc[p].at = "sent"

LEMMA QuietStep ==
  ASSUME TypeOK, SendInv, QuietLogs, QuietProcesses
  PROVE  SendInv' /\ LogsKept
<1>1. ASSUME NEW p \in Processes, Sending(p)' PROVE SenderOK(p)'
  <2>1. Sending(p) /\ proc'[p].log = proc[p].log
        /\ (proc'[p].at = "sent" <=> proc[p].at = "sent")
    BY <1>1 DEF QuietProcesses
  <2>2. proc[p].log \in 1..Len(log)
    BY <2>1, RowOfProcess DEF Sending
  <2>3. log[proc[p].log].status = "processing"
        /\ log[proc[p].log].taken =
      log[proc[p].log].unanswered + (IF proc[p].at = "sent" THEN 1 ELSE 0)
    BY <2>1 DEF SendInv, SenderOK
  <2>4. log'[proc[p].log].status = "processing"
        /\ log'[proc[p].log].taken = log[proc[p].log].taken
        /\ log'[proc[p].log].unanswered = log[proc[p].log].unanswered
    BY <2>2, <2>3 DEF QuietLogs
  <2> QED BY <2>1, <2>3, <2>4 DEF SenderOK
<1>2. ASSUME NEW p \in Processes, NEW q \in Processes, p # q, Sending(p)', Sending(q)'
      PROVE  proc'[p].log # proc'[q].log
  BY <1>2 DEF SendInv, QuietProcesses
<1>3. OnlyUnansweredSentAgain'
  <2>1. ASSUME NEW k \in 1..Len(log')
        PROVE  /\ log'[k].taken <= 1 + log'[k].unanswered
               /\ log'[k].status \in {"pending", "failed", "dead", "cancelled"} =>
                    log'[k].taken = log'[k].unanswered
    <3>1. CASE k \in 1..Len(log)
      BY <3>1 DEF SendInv, OnlyUnansweredSentAgain, QuietLogs
    <3>2. CASE k \notin 1..Len(log)
      BY <3>2 DEF QuietLogs
    <3> QED BY <3>1, <3>2
  <2> QED BY <2>1 DEF OnlyUnansweredSentAgain
<1>4. LogsKept
  BY DEF LogsKept, QuietLogs
<1>5. (\A p \in Processes : SenderOK(p))'
  BY <1>1 DEF SenderOK
<1> QED BY <1>2, <1>3, <1>4, <1>5 DEF SendInv

(* A process writes to its own log, which is no other sender's.            *)
LEMMA WriterStep ==
  ASSUME TypeOK, SendInv, NEW p \in Processes, Others(p), NEW row,
         WritesLog(p, row),
         row.event = log[proc[p].log].event,
         log[proc[p].log].status \notin {"sent", "cancelled"},
         \A q \in Processes \ {p} : Sending(q) => proc[q].log # proc[p].log,
         proc'[p].log = proc[p].log,
         Sending(p)' => /\ row.status = "processing"
                        /\ row.taken =
                             row.unanswered + (IF proc'[p].at = "sent" THEN 1 ELSE 0),
         row.taken <= 1 + row.unanswered, row.unanswered \in Nat,
         row.status \in {"pending", "failed", "dead", "cancelled"} => row.taken = row.unanswered
  PROVE  SendInv' /\ LogsKept
<1> DEFINE l == proc[p].log
<1>1. l \in 1..Len(log) /\ Len(log') = Len(log) /\ log'[l] = row
      /\ (\A k \in 1..Len(log) \ {l} : log'[k] = log[k]) /\ Len(log) \in Nat
  BY TypesAreParts DEF WritesLog, LogsTyped
<1>2. ASSUME NEW q \in Processes, Sending(q)' PROVE SenderOK(q)'
  <2>1. CASE q = p
    BY <1>1, <1>2, <2>1 DEF SenderOK
  <2>2. CASE q # p
    <3>1. proc'[q] = proc[q] /\ Sending(q)
      BY <1>2, <2>2 DEF Others, Sending
    <3>2. proc[q].log \in 1..Len(log)
      BY <3>1, RowOfProcess DEF Sending
    <3>3. log'[proc[q].log] = log[proc[q].log]
      BY <1>1, <2>2, <3>1, <3>2
    <3>4. SenderOK(q)
      BY DEF SendInv
    <3> QED BY <3>1, <3>3, <3>4 DEF SenderOK
  <2> QED BY <2>1, <2>2
<1>3. ASSUME NEW q \in Processes, NEW r \in Processes, q # r, Sending(q)', Sending(r)'
      PROVE  proc'[q].log # proc'[r].log
  BY <1>3 DEF SendInv, Others, Sending
<1>4. OnlyUnansweredSentAgain'
  BY <1>1 DEF OnlyUnansweredSentAgain, SendInv
<1>5. LogsKept
  BY <1>1 DEF LogsKept
<1>6. (\A q \in Processes : SenderOK(q))'
  BY <1>2 DEF SenderOK
<1> QED BY <1>3, <1>4, <1>5, <1>6 DEF SendInv

LEMMA DispatchKeepsSends ==
  ASSUME TypeOK, SendInv, NEW p \in Processes,
         \/ MarkProcessing(p) \/ MarkProcessingLost(p) \/ Send(p) \/ SendFails(p)
         \/ SendUnanswered(p) \/ MarkSent(p) \/ MarkFailed(p) \/ StatementFails(p)
  PROVE  SendInv' /\ LogsKept
<1> DEFINE row == log[proc[p].log]
<1>1. /\ Others(p) /\ proc[p].log \in 1..Len(log) /\ row \in LogRow
      /\ proc[p] \in BusyProcess /\ proc[p].attempts \in Nat /\ Len(log) \in Nat
  <2>1. Len(log) \in Nat
    BY TypesAreParts DEF LogsTyped
  <2> QED BY <2>1, DispatchSteps
<1>2. /\ row.status \in {"pending", "failed", "dead", "cancelled"} => row.taken = row.unanswered
      /\ row.taken <= 1 + row.unanswered
  BY <1>1 DEF SendInv, OnlyUnansweredSentAgain, LogRow
<1>3. Sending(p) =>
        /\ row.status = "processing"
        /\ row.taken =
             row.unanswered + (IF proc[p].at = "sent" THEN 1 ELSE 0)
        /\ \A q \in Processes \ {p} : Sending(q) => proc[q].log # proc[p].log
  BY DEF SendInv, SenderOK
<1>4. row.status # "processing" =>
        \A q \in Processes \ {p} : Sending(q) => proc[q].log # proc[p].log
  BY DEF SendInv, SenderOK
<1> HIDE DEF row
<1>5. CASE MarkProcessing(p) /\ Moves(p, "send")
           /\ WritesLog(p, [row EXCEPT !.status = "processing"])
  <2> DEFINE r == [row EXCEPT !.status = "processing"]
  <2>1. row.status \in {"pending", "failed", "dead"}
    BY <1>5 DEF MarkProcessing, Free, row
  <2>2. r.status = "processing" /\ r.taken = r.unanswered /\ r.event = row.event
        /\ r.taken <= 1 + r.unanswered /\ r.unanswered \in Nat
    BY <1>1, <1>2, <2>1 DEF LogRow
  <2>3. proc'[p].log = proc[p].log /\ proc'[p].at = "send" /\ WritesLog(p, r)
    BY <1>5 DEF Moves
  <2> HIDE DEF r
  <2> QED BY <1>1, <1>4, <2>1, <2>2, <2>3, WriterStep DEF row
<1>6. CASE Send(p) /\ Moves(p, "sent") /\ WritesLog(p, [row EXCEPT !.taken = @ + 1])
  <2> DEFINE r == [row EXCEPT !.taken = @ + 1]
  <2>1. Sending(p) /\ proc[p].at = "send"
    BY <1>6 DEF Send, Sending
  <2>2. r.status = "processing" /\ r.taken = r.unanswered + 1 /\ r.event = row.event
        /\ r.unanswered \in Nat
    BY <1>1, <1>3, <2>1 DEF LogRow
  <2>3. proc'[p].log = proc[p].log /\ proc'[p].at = "sent" /\ WritesLog(p, r)
    BY <1>6 DEF Moves
  <2> HIDE DEF r
  <2> QED BY <1>1, <1>3, <2>1, <2>2, <2>3, WriterStep DEF row
<1>10. CASE SendUnanswered(p) /\ Moves(p, "failed") /\ WritesLog(p, Unanswered(row))
  <2> DEFINE r == Unanswered(row)
  <2>1. Sending(p) /\ proc[p].at = "send"
    BY <1>10 DEF SendUnanswered, Sending
  <2>2. r.status = "processing" /\ r.taken = r.unanswered /\ r.event = row.event
        /\ r.taken <= 1 + r.unanswered /\ r.unanswered \in Nat
    BY <1>1, <1>3, <2>1 DEF LogRow, Unanswered
  <2>3. proc'[p].log = proc[p].log /\ proc'[p].at = "failed" /\ WritesLog(p, r)
    BY <1>10 DEF Moves
  <2> HIDE DEF r
  <2> QED BY <1>1, <1>3, <2>1, <2>2, <2>3, WriterStep DEF row
<1>7. CASE /\ proc[p].at = "failed"
           /\ Moves(p, "retry") \/ Moves(p, "fail")
           /\ WritesLog(p, FailedLog(row, proc[p].attempts))
  <2> DEFINE r == FailedLog(row, proc[p].attempts)
  <2>1. Sending(p) /\ proc[p].at # "sent"
    BY <1>7 DEF Sending
  <2>2. r.status \in {"failed", "dead"} /\ r.taken = r.unanswered /\ r.event = row.event
        /\ r.taken <= 1 + r.unanswered /\ r.unanswered \in Nat
    <3>1. /\ r.status \in {"failed", "dead"} /\ r.event = row.event
          /\ r.taken = row.taken /\ r.unanswered = row.unanswered
      BY <1>1, <1>3, <2>1, FailedRows
    <3>2. row.unanswered \in Nat
      BY <1>1 DEF LogRow
    <3> QED BY <1>3, <2>1, <3>1, <3>2
  <2>3. proc'[p].log = proc[p].log /\ ~Sending(p)' /\ WritesLog(p, r)
    BY <1>7 DEF Moves, Sending
  <2> HIDE DEF r
  <2> QED BY <1>1, <1>3, <2>1, <2>2, <2>3, WriterStep DEF row
<1>8. CASE /\ proc[p].at = "sent"
           /\ Moves(p, "retry") \/ Moves(p, "fail") \/ Moves(p, "succeed")
           /\ WritesLog(p, [row EXCEPT !.status = "sent"])
  <2> DEFINE r == [row EXCEPT !.status = "sent"]
  <2>1. Sending(p)
    BY <1>8 DEF Sending
  <2>2. r.status = "sent" /\ r.taken <= 1 + r.unanswered /\ r.event = row.event
        /\ r.unanswered \in Nat
    BY <1>1, <1>2 DEF LogRow
  <2>3. proc'[p].log = proc[p].log /\ ~Sending(p)' /\ WritesLog(p, r)
    BY <1>8 DEF Moves, Sending
  <2> HIDE DEF r
  <2> QED BY <1>1, <1>2, <1>3, <2>1, <2>2, <2>3, WriterStep DEF row
<1>9. CASE /\ log' = log
           /\ \/ SendFails(p) /\ Moves(p, "failed")
              \/ Moves(p, "retry") \/ Moves(p, "fail")
  <2>1. QuietLogs
    BY <1>1, <1>9 DEF QuietLogs
  <2>2. QuietProcesses
    BY <1>1, <1>9 DEF QuietProcesses, Others, Moves, SendFails, Sending
  <2> QED BY <2>1, <2>2, QuietStep
<1> QED BY <1>5, <1>6, <1>7, <1>8, <1>9, <1>10, DispatchSteps DEF row

LEMMA InitSends == Init => SendInv
BY DEF Init, SendInv, SenderOK, OnlyUnansweredSentAgain, Sending, Idle

LEMMA SendStep == TypeOK /\ SendInv /\ [Next]_vars => SendInv' /\ LogsKept
<1> SUFFICES ASSUME TypeOK, SendInv, [Next]_vars PROVE SendInv' /\ LogsKept
  OBVIOUS
<1>1. LogsTyped /\ Len(log) \in Nat
  BY TypesAreParts DEF LogsTyped
<1>2. ASSUME UNCHANGED log PROVE QuietLogs
  BY <1>1, <1>2 DEF QuietLogs
<1>3. ASSUME NEW p \in Processes, Others(p), ~Sending(p)' PROVE QuietProcesses
  BY <1>3 DEF QuietProcesses, Others, Sending
<1>4. ASSUME NEW l \in 1..Len(log), CancelPending(l) \/ LogWaits(l) PROVE QuietLogs
  <2>1. Len(log') = Len(log)
        /\ \A k \in 1..Len(log) :
              /\ log'[k].event = log[k].event
              /\ log'[k].taken = log[k].taken
              /\ log'[k].unanswered = log[k].unanswered
              /\ \/ log'[k].status = log[k].status
                 \/ log[k].status = "pending" /\ log'[k].status = "cancelled"
    BY <1>1, <1>4, OtherWrites
  <2> QED BY <1>1, <2>1 DEF QuietLogs
<1>5. CASE UNCHANGED <<log, proc>>
  <2>1. QuietProcesses
    BY <1>5 DEF QuietProcesses, Sending
  <2> QED BY <1>2, <1>5, <2>1, QuietStep
<1>6. ASSUME NEW p \in Processes,
             \/ FindRetryable(p) \/ RetryNext(p) \/ RetryDone(p) \/ Crash(p)
             \/ \E l \in 1..Len(log) : RetryByStaff(p, l)
      PROVE  SendInv' /\ LogsKept
  <2>1. UNCHANGED log /\ Others(p) /\ ~Sending(p)'
    <3>1. UNCHANGED log /\ Others(p) /\ (proc'[p] = Idle \/ proc'[p].at \in {"retry", "dispatch"})
      BY <1>6, ListSteps DEF Others
    <3> QED BY <3>1 DEF Sending, Idle
  <2> QED BY <1>2, <1>3, <2>1, QuietStep
<1>7. ASSUME NEW w \in Workers, WorkerStep(w) PROVE SendInv' /\ LogsKept
  <2>1. w \in Processes
    BY WorkersAndClerks
  <2>2. CASE Claim(w)
    <3>1. PICK S \in SUBSET DueEvents :
            /\ UNCHANGED log /\ Others(w)
            /\ proc'[w] = [at |-> "batch", claimed |-> {<<e, event[e].attempts>> : e \in S},
                           retry |-> {}, event |-> NoEvent, tries |-> 0, log |-> 0,
                           attempts |-> 0]
      BY <2>1, <2>2, ClaimWrites DEF Others
    <3>2. ~Sending(w)'
      BY <3>1 DEF Sending
    <3> QED BY <1>2, <1>3, <2>1, <3>1, <3>2, QuietStep
  <2>3. CASE ConsumeIgnored(w) \/ ConsumeRefused(w) \/ CreateLog(w)
    <3>1. PICK c \in proc[w].claimed :
              \/ log' = log /\ Takes(w, c, "fail", 0)
              \/ log' = log /\ Takes(w, c, "succeed", 0)
              \/ /\ Takes(w, c, "created", Len(log) + 1) /\ Len(log') = Len(log) + 1
                 /\ log'[Len(log) + 1] = [event |-> c[1], status |-> "pending",
                      attempts |-> 0, waiting |-> FALSE, taken |-> 0, unanswered |-> 0]
                 /\ \A k \in 1..Len(log) : log'[k] = log[k]
      BY <2>1, <2>3, ConsumeSteps
    <3>2. QuietLogs
      BY <1>1, <3>1 DEF QuietLogs
    <3>3. Others(w) /\ ~Sending(w)'
      BY <2>1, <2>3, <3>1, ConsumeSteps DEF Takes, Sending
    <3> QED BY <1>3, <2>1, <3>2, <3>3, QuietStep
  <2>4. CASE PreferenceOff(w) \/ PreferenceOn(w)
    <3>1. /\ Others(w) /\ proc[w].log \in 1..Len(log)
          /\ log' = log \/ CancelPending(proc[w].log)
          /\ Moves(w, "dispatch") \/ Moves(w, "fail") \/ Moves(w, "succeed")
      BY <2>1, <2>4, PreferenceSteps
    <3>2. ~Sending(w)'
      BY <3>1 DEF Moves, Sending
    <3> QED BY <1>2, <1>3, <1>4, <2>1, <3>1, <3>2, QuietStep
  <2>5. CASE Succeed(w) \/ Fail(w)
    <3>1. UNCHANGED log /\ Others(w) /\ proc'[w].at = "batch"
      BY <2>1, <2>5, DoneSteps
    <3>2. ~Sending(w)'
      BY <3>1 DEF Sending
    <3> QED BY <1>2, <1>3, <2>1, <3>1, <3>2, QuietStep
  <2> QED BY <1>6, <1>7, <2>1, <2>2, <2>3, <2>4, <2>5 DEF WorkerStep
<1>8. ASSUME NEW p \in Processes, DispatchStep(p) \/ FaultStep(p)
      PROVE  SendInv' /\ LogsKept
  <2>1. CASE RetryNext(p) \/ RetryDone(p) \/ Crash(p)
    BY <1>6, <2>1
  <2>2. CASE ~(RetryNext(p) \/ RetryDone(p) \/ Crash(p))
    BY <1>8, <2>2, DispatchKeepsSends DEF DispatchStep, FaultStep
  <2> QED BY <2>1, <2>2
<1>9. ASSUME NEW l \in 1..Len(log), LogWaits(l) \/ CancelByStaff(l)
      PROVE  SendInv' /\ LogsKept
  <2>1. UNCHANGED proc /\ (CancelPending(l) \/ LogWaits(l))
    BY <1>9, LogSteps
  <2>2. QuietProcesses
    BY <2>1 DEF QuietProcesses, Sending
  <2> QED BY <1>4, <2>1, <2>2, QuietStep
<1>10. CASE UNCHANGED vars
  BY <1>5, <1>10 DEF vars
<1>11. CASE Next
  BY <1>5, <1>6, <1>7, <1>8, <1>9, <1>11, EventSteps, WorkersAndClerks DEF Next
<1> QED BY <1>10, <1>11

(* MarkProcessing's condition is enough: the provider takes a log at most  *)
(* once more than it has taken it without an answer, however many workers, *)
(* staff, crashes and failed statements.                                   *)
THEOREM OnlyUnansweredAreSentAgain == Spec => []OnlyUnansweredSentAgain
<1>1. TypeOK /\ SendInv /\ [Next]_vars => TypeOK' /\ SendInv'
  BY TypeStep, SendStep
<1>2. Init => TypeOK /\ SendInv
  BY InitTypes, InitSends
<1>3. SendInv => OnlyUnansweredSentAgain
  BY DEF SendInv
<1> QED BY <1>1, <1>2, <1>3, PTL DEF Spec, Safety

(* A log that was sent or cancelled stays as it is, and is not sent again. *)
THEOREM FinalLogsStay == Spec => SentAndCancelledAreFinal
<1>1. TypeOK /\ SendInv /\ [Next]_vars => TypeOK' /\ SendInv'
  BY TypeStep, SendStep
<1>2. Init => TypeOK /\ SendInv
  BY InitTypes, InitSends
<1>3. TypeOK /\ SendInv /\ [Next]_vars =>
        [\A l \in 1..Len(log) :
           log[l].status \in {"sent", "cancelled"} =>
             log'[l].status = log[l].status /\ log'[l].taken = log[l].taken]_vars
  BY SendStep DEF LogsKept
<1> QED BY <1>1, <1>2, <1>3, PTL DEF Spec, Safety, SentAndCancelledAreFinal

-----------------------------------------------------------------------------
(* An event that succeeded was delivered *)

Delivered(e) ==
  \E l \in 1..Len(log) :
    log[l].event = e /\ log[l].status \in (IF e \in Muted THEN {"cancelled"} ELSE {"sent"})

(* The log that a worker has made for an event is of that event, the       *)
(* recipient was asked before it is sent, and the worker is through with   *)
(* the event as succeeded only when such a log is sent or cancelled.       *)
LinkOK(p) ==
  /\ proc[p].at \in {"batch", "retry"} => proc[p].event = NoEvent
  /\ proc[p].at \in {"created", "dispatch", "send", "sent", "failed"}
       /\ proc[p].event # NoEvent => log[proc[p].log].event = proc[p].event
  /\ proc[p].at \in {"dispatch", "send", "sent", "failed"} => proc[p].event \notin Muted
  /\ proc[p].at = "succeed" /\ proc[p].event \notin Unruled => Delivered(proc[p].event)

LinkInv == (\A p \in Processes : LinkOK(p)) /\ SucceededIsDelivered

(* No step but Succeed makes an event a succeeded one.                     *)
EventsEarned ==
  \A e \in Events :
    event'[e].status = "succeeded" =>
      event[e].status = "succeeded" \/ e \in Unruled \/ Delivered(e)

LEMMA DeliveredStays ==
  ASSUME LogsKept, LogsTyped, LogsTyped', NEW e, Delivered(e)
  PROVE  Delivered(e)'
<1>1. Len(log) \in Nat /\ Len(log') \in Nat
  BY DEF LogsTyped
<1> QED BY <1>1 DEF Delivered, LogsKept

LEMMA LinkOthers ==
  ASSUME TypeOK, TypeOK', LogsKept, NEW q \in Processes, LinkOK(q), proc'[q] = proc[q]
  PROVE  LinkOK(q)'
<1>1. LogsTyped /\ LogsTyped'
  BY DEF TypeOK, LogsTyped
<1>2. ASSUME proc[q].at \in {"created", "dispatch", "send", "sent", "failed"}
      PROVE  log'[proc[q].log].event = log[proc[q].log].event
  <2>1. proc[q].log \in 1..Len(log)
    BY <1>2, RowOfProcess
  <2> QED BY <2>1 DEF LogsKept
<1>3. ASSUME proc[q].at = "succeed", proc[q].event \notin Unruled
      PROVE  Delivered(proc[q].event)'
  BY <1>1, <1>3, DeliveredStays DEF LinkOK
<1>4. proc[q].at = "succeed" /\ proc[q].event \notin Unruled =>
        \E l \in 1..Len(log') :
          log'[l].event = proc[q].event
          /\ log'[l].status \in (IF proc[q].event \in Muted THEN {"cancelled"} ELSE {"sent"})
  BY <1>3 DEF Delivered
<1> QED BY <1>2, <1>4 DEF LinkOK, Delivered

LEMMA LinkMove ==
  ASSUME TypeOK, TypeOK', LogsKept, LinkInv, EventsEarned,
         NEW p \in Processes, Others(p), LinkOK(p)'
  PROVE  LinkInv'
<1>1. \A q \in Processes : LinkOK(q)'
  BY LinkOthers DEF LinkInv, Others
<1>2. ASSUME NEW e \in Events \ Unruled, event'[e].status = "succeeded"
      PROVE  Delivered(e)'
  <2>1. Delivered(e)
    BY <1>2 DEF EventsEarned, LinkInv, SucceededIsDelivered, Delivered
  <2> QED BY <2>1, DeliveredStays DEF TypeOK, LogsTyped
<1>3. SucceededIsDelivered'
  BY <1>2 DEF SucceededIsDelivered, Delivered
<1> QED BY <1>1, <1>3 DEF LinkInv

LEMMA LinkStill ==
  ASSUME TypeOK, TypeOK', LogsKept, LinkInv, EventsEarned, UNCHANGED proc
  PROVE  LinkInv'
<1>1. \A q \in Processes : LinkOK(q)'
  BY LinkOthers DEF LinkInv
<1>2. ASSUME NEW e \in Events \ Unruled, event'[e].status = "succeeded"
      PROVE  Delivered(e)'
  <2>1. Delivered(e)
    BY <1>2 DEF EventsEarned, LinkInv, SucceededIsDelivered, Delivered
  <2> QED BY <2>1, DeliveredStays DEF TypeOK, LogsTyped
<1>3. SucceededIsDelivered'
  BY <1>2 DEF SucceededIsDelivered, Delivered
<1> QED BY <1>1, <1>3 DEF LinkInv

(* What a move of a process leaves of its link.                            *)
LEMMA LinkOfMove ==
  ASSUME TypeOK, TypeOK', LogsKept, NEW p \in Processes, LinkOK(p),
         NEW label \in {"dispatch", "send", "sent", "failed", "retry", "fail"},
         Moves(p, label),
         proc[p].at \in {"created", "dispatch", "send", "sent", "failed"},
         label = "retry" => proc[p].event = NoEvent,
         proc[p].at = "created" => label = "fail" \/ proc[p].event \notin Muted
  PROVE  LinkOK(p)'
<1>1. log'[proc[p].log].event = log[proc[p].log].event
  <2>1. proc[p].log \in 1..Len(log)
    BY RowOfProcess
  <2> QED BY <2>1 DEF LogsKept
<1> QED BY <1>1 DEF LinkOK, Moves

LEMMA DispatchKeepsLinks ==
  ASSUME TypeOK, SendInv, LogsKept, LinkInv, NEW p \in Processes,
         \/ MarkProcessing(p) \/ MarkProcessingLost(p) \/ Send(p) \/ SendFails(p)
         \/ SendUnanswered(p) \/ MarkSent(p) \/ MarkFailed(p) \/ StatementFails(p)
  PROVE  LinkInv'
<1> DEFINE l == proc[p].log
           row == log[l]
<1>1. /\ TypeOK' /\ UNCHANGED event /\ Others(p) /\ l \in 1..Len(log) /\ row \in LogRow
  BY DispatchSteps
<1>2. EventsEarned
  BY <1>1 DEF EventsEarned
<1>3. LinkOK(p)
  BY DEF LinkInv
<1>4. proc[p].at \in {"created", "dispatch", "send", "sent", "failed"}
  BY DEF MarkProcessing, MarkProcessingLost, Send, SendFails, SendUnanswered, MarkSent, MarkFailed,
         StatementFails
<1>5. CASE proc[p].at = "sent" /\ Moves(p, "succeed")
           /\ WritesLog(p, [row EXCEPT !.status = "sent"])
  <2>1. /\ proc[p].event \notin Muted
        /\ proc[p].event # NoEvent => row.event = proc[p].event
    BY <1>3, <1>5 DEF LinkOK
  <2>2. proc'[p].event = proc[p].event /\ proc'[p].at = "succeed" /\ proc[p].event # NoEvent
    <3>1. proc'[p].event = proc[p].event /\ proc'[p].at = "succeed"
      BY <1>5 DEF Moves
    <3>2. proc'[p].event # NoEvent
      BY <1>1, <3>1 DEF TypeOK
    <3> QED BY <3>1, <3>2
  <2>3. log'[l].event = proc[p].event /\ log'[l].status = "sent" /\ l \in 1..Len(log')
    BY <1>1, <1>5, <2>1, <2>2 DEF WritesLog, LogRow
  <2>4. Delivered(proc[p].event)'
    BY <2>1, <2>2, <2>3 DEF Delivered
  <2>5. LinkOK(p)'
    BY <2>2, <2>4 DEF LinkOK, Delivered
  <2> QED BY <1>1, <1>2, <2>5, LinkMove
<1>6. CASE \E label \in {"send", "sent", "failed", "retry", "fail"} :
             /\ Moves(p, label)
             /\ label = "retry" => proc[p].event = NoEvent
             /\ proc[p].at = "created" => label = "fail" \/ proc[p].event = NoEvent
  <2>1. PICK label \in {"send", "sent", "failed", "retry", "fail"} :
             /\ Moves(p, label)
             /\ label = "retry" => proc[p].event = NoEvent
             /\ proc[p].at = "created" => label = "fail" \/ proc[p].event = NoEvent
    BY <1>6
  <2>2. LinkOK(p)'
    BY <1>1, <1>3, <1>4, <2>1, LinkOfMove, EventsAssumption
  <2> QED BY <1>1, <1>2, <2>2, LinkMove
<1>7. \/ Moves(p, "send") /\ proc[p].at = "dispatch"
      \/ Moves(p, "sent") /\ proc[p].at = "send"
      \/ Moves(p, "failed") /\ proc[p].at = "send"
      \/ Moves(p, "retry") /\ proc[p].event = NoEvent
      \/ Moves(p, "fail")
      \/ /\ proc[p].at = "sent" /\ Moves(p, "succeed")
         /\ WritesLog(p, [row EXCEPT !.status = "sent"])
  BY DispatchSteps DEF MarkProcessing, Send, SendFails, SendUnanswered
<1> QED BY <1>5, <1>6, <1>7

LEMMA InitLinks == Init => LinkInv
BY DEF Init, LinkInv, LinkOK, SucceededIsDelivered, Idle

LEMMA LinkStep ==
  ASSUME TypeOK, TypeOK', SendInv, LogsKept, LinkInv, [Next]_vars
  PROVE  LinkInv'
<1>1. ASSUME UNCHANGED event PROVE EventsEarned
  BY <1>1 DEF EventsEarned
<1>2. ASSUME NEW p \in Processes,
             \/ FindRetryable(p) \/ RetryNext(p) \/ RetryDone(p) \/ Crash(p)
             \/ \E l \in 1..Len(log) : RetryByStaff(p, l)
      PROVE  LinkInv'
  <2>1. /\ UNCHANGED event /\ Others(p)
        /\ \/ proc'[p] = Idle
           \/ proc'[p].at = "retry" /\ proc'[p].event = proc[p].event /\ FindRetryable(p)
           \/ proc'[p].at = "dispatch" /\ proc'[p].event = NoEvent
           \/ proc'[p].at = "dispatch" /\ proc'[p].event = proc[p].event /\ RetryNext(p)
    BY <1>2, ListSteps DEF Others
  <2>2. \/ proc'[p] = Idle
        \/ proc'[p].at \in {"retry", "dispatch"} /\ proc'[p].event = NoEvent
    <3>1. LinkOK(p)
      BY DEF LinkInv
    <3>2. FindRetryable(p) \/ RetryNext(p) => proc[p].at \in {"batch", "retry"}
      BY DEF FindRetryable, RetryNext
    <3> QED BY <2>1, <3>1, <3>2 DEF LinkOK
  <2>3. LinkOK(p)'
    BY <2>2, EventsAssumption DEF LinkOK, Idle
  <2> QED BY <1>1, <2>1, <2>3, LinkMove
<1>3. ASSUME NEW w \in Workers, WorkerStep(w) PROVE LinkInv'
  <2>1. w \in Processes /\ LinkOK(w)
    BY WorkersAndClerks DEF LinkInv
  <2>2. CASE Claim(w)
    <3>1. PICK S \in SUBSET DueEvents :
            /\ Others(w)
            /\ proc'[w] = [at |-> "batch", claimed |-> {<<e, event[e].attempts>> : e \in S},
                           retry |-> {}, event |-> NoEvent, tries |-> 0, log |-> 0,
                           attempts |-> 0]
            /\ \A e \in S : event'[e].status = "processing"
            /\ \A e \in Events \ S : event'[e] = event[e]
      BY <2>1, <2>2, ClaimWrites DEF Others
    <3>2. EventsEarned
      BY <3>1 DEF EventsEarned
    <3>3. proc'[w].at = "batch" /\ proc'[w].event = NoEvent
      BY <3>1
    <3>4. LinkOK(w)'
      BY <3>3 DEF LinkOK
    <3> QED BY <2>1, <3>1, <3>2, <3>4, LinkMove
  <2>3. CASE ConsumeIgnored(w) \/ ConsumeRefused(w) \/ CreateLog(w)
    <3>1. PICK c \in proc[w].claimed :
              \/ log' = log /\ Takes(w, c, "fail", 0)
              \/ log' = log /\ Takes(w, c, "succeed", 0) /\ c[1] \in Unruled
              \/ /\ Takes(w, c, "created", Len(log) + 1)
                 /\ log'[Len(log) + 1] = [event |-> c[1], status |-> "pending",
                      attempts |-> 0, waiting |-> FALSE, taken |-> 0, unanswered |-> 0]
      BY <2>1, <2>3, ConsumeSteps
    <3>2. LinkOK(w)'
      BY <3>1 DEF Takes, LinkOK
    <3>3. Others(w) /\ UNCHANGED event
      BY <2>1, <2>3, ConsumeSteps
    <3> QED BY <1>1, <2>1, <3>2, <3>3, LinkMove
  <2>4. CASE PreferenceOff(w) \/ PreferenceOn(w)
    <3>1. Others(w) /\ UNCHANGED event /\ proc[w].at = "created"
          /\ proc[w].log \in 1..Len(log)
      BY <2>1, <2>4, PreferenceSteps
    <3>2. CASE \/ Moves(w, "dispatch") /\ proc[w].event \notin Muted
               \/ Moves(w, "fail")
      <4>1. LinkOK(w)'
        BY <2>1, <3>1, <3>2, LinkOfMove
      <4> QED BY <1>1, <2>1, <3>1, <4>1, LinkMove
    <3>3. CASE /\ CancelPending(proc[w].log) /\ Moves(w, "succeed")
               /\ log[proc[w].log].status = "pending" /\ proc[w].event \in Muted
      <4> DEFINE l == proc[w].log
      <4>1. proc[w].event # NoEvent
        BY <3>3, EventsAssumption
      <4>2. log[l].event = proc[w].event
        BY <2>1, <3>1, <4>1 DEF LinkOK
      <4>3. log'[l].event = log[l].event /\ log'[l].status = "cancelled"
            /\ l \in 1..Len(log')
        <5>1. LogsTyped
          BY TypesAreParts
        <5> QED BY <3>1, <3>3, <5>1, OtherWrites
      <4>4. proc'[w].event = proc[w].event /\ proc'[w].at = "succeed"
        BY <3>3 DEF Moves
      <4>5. Delivered(proc[w].event)'
        BY <3>3, <4>2, <4>3, <4>4 DEF Delivered
      <4>6. LinkOK(w)'
        BY <4>4, <4>5 DEF LinkOK, Delivered
      <4> QED BY <1>1, <2>1, <3>1, <4>6, LinkMove
    <3> QED BY <2>1, <2>4, <3>2, <3>3, PreferenceSteps
  <2>5. CASE Succeed(w) \/ Fail(w)
    <3>1. /\ Others(w) /\ proc'[w].at = "batch" /\ proc'[w].event = NoEvent
          /\ \A e \in Events \ {proc[w].event} : event'[e] = event[e]
          /\ \/ proc[w].at = "succeed"
             \/ event'[proc[w].event].status = "succeeded" =>
                  event[proc[w].event].status = "succeeded"
      BY <2>1, <2>5, DoneSteps
    <3>2. EventsEarned
      BY <2>1, <3>1 DEF EventsEarned, LinkOK
    <3>3. LinkOK(w)'
      BY <3>1 DEF LinkOK
    <3> QED BY <2>1, <3>1, <3>2, <3>3, LinkMove
  <2> QED BY <1>2, <1>3, <2>1, <2>2, <2>3, <2>4, <2>5 DEF WorkerStep
<1>4. ASSUME NEW p \in Processes, DispatchStep(p) \/ FaultStep(p)
      PROVE  LinkInv'
  <2>1. CASE RetryNext(p) \/ RetryDone(p) \/ Crash(p)
    BY <1>2, <2>1
  <2>2. CASE ~(RetryNext(p) \/ RetryDone(p) \/ Crash(p))
    BY <1>4, <2>2, DispatchKeepsLinks DEF DispatchStep, FaultStep
  <2> QED BY <2>1, <2>2
<1>5. ASSUME NEW l \in 1..Len(log), LogWaits(l) \/ CancelByStaff(l) PROVE LinkInv'
  <2>1. UNCHANGED <<event, proc>>
    BY <1>5, LogSteps
  <2> QED BY <1>1, <2>1, LinkStill
<1>6. ASSUME NEW e \in Events, Publish(e) \/ EventWaits(e) PROVE LinkInv'
  <2>1. UNCHANGED proc /\ EventsEarned
    BY <1>6, EventSteps DEF EventsEarned
  <2> QED BY <2>1, LinkStill
<1>7. CASE UNCHANGED vars
  BY <1>1, <1>7, LinkStill DEF vars
<1>8. CASE Next
  BY <1>2, <1>3, <1>4, <1>5, <1>6, <1>8, WorkersAndClerks DEF Next
<1> QED BY <1>7, <1>8

(* An event leaves the outbox as succeeded only with a message sent, or    *)
(* cancelled because the recipient does not want it, whatever staff retry  *)
(* or cancel and whoever dies on the way.                                  *)
THEOREM SucceededEventsAreDelivered == Spec => []SucceededIsDelivered
<1>1. TypeOK /\ SendInv /\ LinkInv /\ [Next]_vars => TypeOK' /\ SendInv' /\ LinkInv'
  BY TypeStep, SendStep, LinkStep
<1>2. Init => TypeOK /\ SendInv /\ LinkInv
  BY InitTypes, InitSends, InitLinks
<1>3. LinkInv => SucceededIsDelivered
  BY DEF LinkInv
<1> QED BY <1>1, <1>2, <1>3, PTL DEF Spec, Safety

-----------------------------------------------------------------------------
(* No event is worked on by two workers *)

(* A worker has claimed an event once, and not the one it is at.           *)
Once(w) ==
  proc[w].at # "idle" =>
    /\ \A c, d \in proc[w].claimed : c[1] = d[1] => c = d
    /\ \A c \in proc[w].claimed : c[1] # proc[w].event

ClaimInv == ClaimedByOne /\ \A w \in Workers : Once(w)

(* A step after which nobody holds more.                                   *)
LEMMA HoldsLess ==
  ASSUME ClaimInv,
         \A w \in Workers :
           /\ (Holds(w))' \subseteq Holds(w)
           /\ Once(w)'
           /\ \A e \in (Holds(w))' : event[e].status = "processing" =>
                                     event'[e].status = "processing"
  PROVE  ClaimInv'
<1>1. ASSUME NEW w \in Workers
      PROVE  /\ \A v \in Workers \ {w} : (Holds(w))' \cap (Holds(v))' = {}
             /\ \A e \in (Holds(w))' : event'[e].status = "processing"
  <2>1. \A v \in Workers \ {w} : Holds(w) \cap Holds(v) = {}
    BY DEF ClaimInv, ClaimedByOne
  <2>2. \A e \in Holds(w) : event[e].status = "processing"
    BY DEF ClaimInv, ClaimedByOne
  <2>3. /\ (Holds(w))' \subseteq Holds(w)
        /\ \A e \in (Holds(w))' : event[e].status = "processing" =>
                                  event'[e].status = "processing"
    OBVIOUS
  <2>4. \A v \in Workers : (Holds(v))' \subseteq Holds(v)
    OBVIOUS
  <2>5. \A v \in Workers \ {w} : (Holds(w))' \cap (Holds(v))' = {}
    BY <2>1, <2>3, <2>4
  <2>6. \A e \in (Holds(w))' : event'[e].status = "processing"
    BY <2>2, <2>3
  <2> QED BY <2>5, <2>6
<1>2. ClaimedByOne'
  BY <1>1 DEF ClaimedByOne
<1> QED BY <1>2 DEF ClaimInv

(* Only process p moves, and the events it does not hold stay.             *)
LEMMA MoverHoldsLess ==
  ASSUME ClaimInv, NEW p \in Processes, Others(p),
         p \in Workers => (Holds(p))' \subseteq Holds(p) /\ Once(p)',
         \A w \in Workers : \A e \in (Holds(w))' :
           event[e].status = "processing" => event'[e].status = "processing"
  PROVE  ClaimInv'
<1>1. ASSUME NEW w \in Workers PROVE (Holds(w))' \subseteq Holds(w) /\ Once(w)'
  <2>1. w \in Processes
    BY WorkersAndClerks
  <2>2. CASE w = p
    BY <2>2
  <2>3. CASE w # p
    <3>1. proc'[w] = proc[w]
      BY <2>1, <2>3 DEF Others
    <3>2. (Holds(w))' = Holds(w)
      BY <3>1 DEF Holds
    <3>3. Once(w)
      BY DEF ClaimInv
    <3> QED BY <3>1, <3>2, <3>3 DEF Once
  <2> QED BY <2>2, <2>3
<1> QED BY <1>1, HoldsLess

LEMMA InitClaims == Init => ClaimInv
BY WorkersAndClerks DEF Init, ClaimInv, ClaimedByOne, Holds, Once, Idle

LEMMA ClaimKeepsClaims ==
  ASSUME TypeOK, ClaimInv, NEW w \in Workers, Claim(w)
  PROVE  ClaimInv'
<1>1. w \in Processes
  BY WorkersAndClerks
<1>2. PICK S \in SUBSET DueEvents :
        /\ Others(w)
        /\ proc'[w] = [at |-> "batch", claimed |-> {<<e, event[e].attempts>> : e \in S},
                       retry |-> {}, event |-> NoEvent, tries |-> 0, log |-> 0,
                       attempts |-> 0]
        /\ \A e \in S : event'[e].status = "processing"
        /\ \A e \in Events \ S : event'[e] = event[e]
  BY <1>1, ClaimWrites DEF Others
<1>3. S \subseteq Events /\ (\A e \in S : event[e].status # "processing")
      /\ NoEvent \notin S
  BY EventsAssumption DEF DueEvents
<1>4. (Holds(w))' = S /\ Once(w)'
  <2>1. /\ proc'[w].at = "batch" /\ proc'[w].event = NoEvent
        /\ proc'[w].claimed = {<<e, event[e].attempts>> : e \in S}
    BY <1>2
  <2>2. {c[1] : c \in proc'[w].claimed} = S
    <3>1. ASSUME NEW e \in S PROVE \E c \in proc'[w].claimed : c[1] = e
      <4>1. <<e, event[e].attempts>> \in proc'[w].claimed
        BY <2>1
      <4> QED BY <4>1
    <3>2. ASSUME NEW c \in proc'[w].claimed PROVE c[1] \in S
      <4>1. PICK e \in S : c = <<e, event[e].attempts>>
        BY <2>1
      <4> QED BY <4>1
    <3> QED BY <3>1, <3>2
  <2>3. (Holds(w))' = S
    BY <2>1, <2>2 DEF Holds
  <2>4. Once(w)'
    BY <1>3, <2>1 DEF Once
  <2> QED BY <2>3, <2>4
<1>5. ASSUME NEW v \in Workers \ {w}
      PROVE  /\ (Holds(v))' = Holds(v) /\ Once(v)'
             /\ S \cap Holds(v) = {}
             /\ \A e \in Holds(v) : event'[e].status = "processing"
  <2>1. proc'[v] = proc[v]
    BY <1>2, WorkersAndClerks DEF Others
  <2>2. (Holds(v))' = Holds(v) /\ Once(v)'
    BY <2>1 DEF Holds, Once, ClaimInv
  <2>3. \A e \in Holds(v) : event[e].status = "processing"
    BY DEF ClaimInv, ClaimedByOne
  <2>4. Holds(v) \subseteq Events
    <3>1. CASE proc[v].at = "idle"
      BY <3>1 DEF Holds
    <3>2. CASE proc[v].at # "idle"
      <4>1. proc[v] \in BusyProcess
        BY <3>2, BusyFields, WorkersAndClerks
      <4> QED BY <4>1 DEF Holds, BusyProcess
    <3> QED BY <3>1, <3>2
  <2> QED BY <1>2, <1>3, <2>2, <2>3, <2>4
<1>6. ClaimedByOne'
  <2>1. ASSUME NEW u \in Workers, NEW v \in Workers \ {u}
        PROVE  (Holds(u))' \cap (Holds(v))' = {}
    <3>1. CASE u = w
      BY <1>4, <1>5, <3>1
    <3>2. CASE v = w
      BY <1>4, <1>5, <3>2
    <3>3. CASE u # w /\ v # w
      BY <1>5, <3>3 DEF ClaimInv, ClaimedByOne
    <3> QED BY <3>1, <3>2, <3>3
  <2>2. ASSUME NEW u \in Workers, NEW e \in (Holds(u))'
        PROVE  event'[e].status = "processing"
    <3>1. CASE u = w
      BY <1>2, <1>4, <2>2, <3>1
    <3>2. CASE u # w
      BY <1>5, <2>2, <3>2
    <3> QED BY <3>1, <3>2
  <2> QED BY <2>1, <2>2 DEF ClaimedByOne
<1> QED BY <1>4, <1>5, <1>6 DEF ClaimInv

(* The steps of a process that leave the events alone.                     *)
LEMMA EventsAloneKeepClaims ==
  ASSUME ClaimInv, NEW p \in Processes, Others(p), UNCHANGED event,
         p \in Workers =>
           \/ proc'[p].at = "idle"
           \/ /\ proc[p].at # "idle"
              /\ proc'[p].claimed = proc[p].claimed /\ proc'[p].event = proc[p].event
           \/ /\ proc[p].at # "idle"
              /\ \E c \in proc[p].claimed :
                   proc'[p].claimed = proc[p].claimed \ {c} /\ proc'[p].event = c[1]
  PROVE  ClaimInv'
<1>1. ASSUME p \in Workers PROVE (Holds(p))' \subseteq Holds(p) /\ Once(p)'
  <2>1. Once(p)
    BY <1>1 DEF ClaimInv
  <2>2. CASE proc'[p].at = "idle"
    BY <2>2 DEF Holds, Once
  <2>3. CASE /\ proc[p].at # "idle"
             /\ proc'[p].claimed = proc[p].claimed /\ proc'[p].event = proc[p].event
    BY <2>1, <2>3 DEF Holds, Once
  <2>4. CASE /\ proc[p].at # "idle"
             /\ \E c \in proc[p].claimed :
                  proc'[p].claimed = proc[p].claimed \ {c} /\ proc'[p].event = c[1]
    BY <2>1, <2>4 DEF Holds, Once
  <2> QED BY <1>1, <2>2, <2>3, <2>4
<1> QED BY <1>1, MoverHoldsLess

LEMMA ClaimStep ==
  ASSUME TypeOK, ClaimInv, [Next]_vars
  PROVE  ClaimInv'
<1>1. CASE UNCHANGED proc /\ \A e \in Events : event[e].status = "processing" =>
                                              event'[e].status = "processing"
  <2>1. ASSUME NEW w \in Workers
        PROVE  (Holds(w))' = Holds(w) /\ Holds(w) \subseteq Events /\ Once(w)'
    <3>1. (Holds(w))' = Holds(w) /\ Once(w)'
      BY <1>1 DEF Holds, Once, ClaimInv
    <3>2. CASE proc[w].at = "idle"
      BY <3>1, <3>2 DEF Holds
    <3>3. CASE proc[w].at # "idle"
      <4>1. proc[w] \in BusyProcess
        BY <3>3, BusyFields, WorkersAndClerks
      <4>2. Holds(w) \subseteq Events
        BY <4>1 DEF Holds, BusyProcess
      <4> QED BY <3>1, <4>2
    <3> QED BY <3>2, <3>3
  <2> QED BY <1>1, <2>1, HoldsLess
<1>2. ASSUME NEW p \in Processes,
             \/ FindRetryable(p) \/ RetryNext(p) \/ RetryDone(p) \/ Crash(p)
             \/ \E l \in 1..Len(log) : p \in Clerks /\ RetryByStaff(p, l)
      PROVE  ClaimInv'
  <2>1. UNCHANGED event /\ Others(p)
    BY <1>2, ListSteps DEF Others
  <2>2. ASSUME p \in Workers
        PROVE  \/ proc'[p].at = "idle"
               \/ /\ proc[p].at # "idle"
                  /\ proc'[p].claimed = proc[p].claimed /\ proc'[p].event = proc[p].event
    <3>1. FindRetryable(p) \/ RetryNext(p) \/ RetryDone(p) \/ Crash(p)
      BY <1>2, <2>2, ProcessAssumption
    <3>2. CASE RetryDone(p) \/ Crash(p)
      BY <3>2 DEF RetryDone, Crash, Step, Idle, TypeOK
    <3>3. CASE FindRetryable(p) \/ RetryNext(p)
      <4>1. proc[p].at # "idle" /\ (FindRetryable(p) => proc[p].claimed = {})
            /\ (RetryNext(p) => proc[p].at = "retry") /\ (FindRetryable(p) => proc[p].at = "batch")
        BY <3>3 DEF FindRetryable, RetryNext
      <4>2. proc[p] \in BusyProcess
        BY <4>1, BusyFields
      <4>3. proc'[p].claimed = proc[p].claimed /\ proc'[p].event = proc[p].event
        <5>1. CASE FindRetryable(p)
          BY <4>2, <5>1 DEF FindRetryable, Step, TypeOK, BusyProcess
        <5>2. CASE RetryNext(p)
          BY <4>2, <5>2 DEF RetryNext, Step, TypeOK, BusyProcess
        <5> QED BY <3>3, <5>1, <5>2
      <4> QED BY <4>1, <4>3
    <3> QED BY <3>1, <3>2, <3>3
  <2> QED BY <2>1, <2>2, EventsAloneKeepClaims
<1>3. ASSUME NEW w \in Workers, WorkerStep(w) PROVE ClaimInv'
  <2>1. w \in Processes
    BY WorkersAndClerks
  <2>2. CASE ConsumeIgnored(w) \/ ConsumeRefused(w) \/ CreateLog(w)
    <3>1. /\ UNCHANGED event /\ Others(w) /\ proc[w].at = "batch"
          /\ \E c \in proc[w].claimed :
               proc'[w].claimed = proc[w].claimed \ {c} /\ proc'[w].event = c[1]
      BY <2>1, <2>2, ConsumeSteps DEF Takes
    <3> QED BY <2>1, <3>1, EventsAloneKeepClaims
  <2>3. CASE PreferenceOff(w) \/ PreferenceOn(w)
    <3>1. /\ UNCHANGED event /\ Others(w) /\ proc[w].at = "created"
          /\ proc'[w].claimed = proc[w].claimed /\ proc'[w].event = proc[w].event
      BY <2>1, <2>3, PreferenceSteps DEF Moves
    <3> QED BY <2>1, <3>1, EventsAloneKeepClaims
  <2>4. CASE Succeed(w) \/ Fail(w)
    <3>1. /\ Others(w) /\ proc'[w].at = "batch"
          /\ proc'[w].claimed = proc[w].claimed /\ proc'[w].event = NoEvent
          /\ proc[w].event \in Events /\ proc[w].at # "idle"
          /\ \A e \in Events \ {proc[w].event} : event'[e] = event[e]
      BY <2>1, <2>4, DoneSteps DEF Succeed, Fail
    <3>2. proc[w] \in BusyProcess /\ Once(w)
      BY <2>1, <3>1, BusyFields DEF ClaimInv
    <3>3. /\ (Holds(w))' \subseteq Holds(w) /\ Once(w)'
          /\ proc[w].event \notin (Holds(w))' /\ proc[w].event \in Holds(w)
      BY <3>1, <3>2, EventsAssumption DEF Holds, Once, BusyProcess
    <3>4. ASSUME NEW v \in Workers, NEW e \in (Holds(v))'
          PROVE  event[e].status = "processing" => event'[e].status = "processing"
      <4>1. CASE v = w
        <5>1. e \in Events /\ e # proc[w].event
          BY <3>1, <3>2, <3>3, <3>4, <4>1 DEF Holds, BusyProcess
        <5> QED BY <3>1, <5>1
      <4>2. CASE v # w
        <5>1. (Holds(v))' = Holds(v) /\ v \in Processes
          BY <3>1, <4>2, WorkersAndClerks DEF Others, Holds
        <5>2. e # proc[w].event
          BY <3>3, <3>4, <4>2, <5>1 DEF ClaimInv, ClaimedByOne
        <5>3. e \in Events
          <6>1. proc[v].at # "idle"
            BY <3>4, <5>1 DEF Holds
          <6>2. proc[v] \in BusyProcess
            BY <5>1, <6>1, BusyFields
          <6> QED BY <3>4, <5>1, <6>2 DEF Holds, BusyProcess
        <5> QED BY <3>1, <5>2, <5>3
      <4> QED BY <4>1, <4>2
    <3> QED BY <2>1, <3>1, <3>3, <3>4, MoverHoldsLess
  <2> QED BY <1>2, <1>3, <2>1, <2>2, <2>3, <2>4, ClaimKeepsClaims DEF WorkerStep
<1>4. ASSUME NEW p \in Processes, DispatchStep(p) \/ FaultStep(p)
      PROVE  ClaimInv'
  <2>1. CASE RetryNext(p) \/ RetryDone(p) \/ Crash(p)
    BY <1>2, <2>1
  <2>2. CASE ~(RetryNext(p) \/ RetryDone(p) \/ Crash(p))
    <3>1. \/ MarkProcessing(p) \/ MarkProcessingLost(p) \/ Send(p) \/ SendFails(p)
          \/ SendUnanswered(p) \/ MarkSent(p) \/ MarkFailed(p) \/ StatementFails(p)
      BY <1>4, <2>2 DEF DispatchStep, FaultStep
    <3>2. proc[p].at # "idle"
      BY <3>1 DEF MarkProcessing, MarkProcessingLost, Send, SendFails, SendUnanswered, MarkSent,
                  MarkFailed, StatementFails
    <3>3. /\ UNCHANGED event /\ Others(p)
          /\ proc'[p].claimed = proc[p].claimed /\ proc'[p].event = proc[p].event
      BY <3>1, DispatchSteps DEF Moves
    <3> QED BY <3>2, <3>3, EventsAloneKeepClaims
  <2> QED BY <2>1, <2>2
<1>5. ASSUME NEW l \in 1..Len(log), LogWaits(l) \/ CancelByStaff(l) PROVE ClaimInv'
  BY <1>1, <1>5, LogSteps
<1>6. ASSUME NEW e \in Events, Publish(e) \/ EventWaits(e) PROVE ClaimInv'
  BY <1>1, <1>6, EventSteps
<1>7. CASE UNCHANGED vars
  BY <1>1, <1>7 DEF vars
<1>8. CASE Next
  BY <1>2, <1>3, <1>4, <1>5, <1>6, <1>8, WorkersAndClerks DEF Next
<1> QED BY <1>7, <1>8

(* FOR UPDATE SKIP LOCKED and the status: no event is worked on by two     *)
(* workers, and none that a worker holds is finished or due.               *)
THEOREM EventsAreClaimedByOne == Spec => []ClaimedByOne
<1>1. TypeOK /\ ClaimInv /\ [Next]_vars => TypeOK' /\ ClaimInv'
  BY TypeStep, ClaimStep
<1>2. Init => TypeOK /\ ClaimInv
  BY InitTypes, InitClaims
<1>3. ClaimInv => ClaimedByOne
  BY DEF ClaimInv
<1> QED BY <1>1, <1>2, <1>3, PTL DEF Spec, Safety

=============================================================================
