------------------------- MODULE WhatsAppChatProofs -------------------------
(* The safety of one WhatsApp chat, for any number of workers, reconcilers *)
(* and members, of messages, webhooks and faults.                          *)
EXTENDS WhatsAppChat, FiniteSetTheorems, TLAPS

USE DEF Working, Sending, Frames

(* What an event of each kind carries. *)
LEMMA NameKinds ==
  ASSUME NEW n \in Names
  PROVE  /\ n.kind \in {"message", "ack", "status"}
         /\ n.kind = "message" => n.id \in WahaIds /\ n.ack \in -1..4
         /\ n.kind = "ack" => n.id \in WahaIds /\ n.ack \in -1..4
         /\ n.kind = "status" => n.status \in Statuses
<1>1. ASSUME NEW x \in WahaIds, n \in MessageEvents(x)
      PROVE  n.kind = "message" /\ n.id \in WahaIds /\ n.ack \in -1..4
  <2>1. n.ack \in FirstAcks \cup {4} /\ n.kind = "message" /\ n.id = x
    BY <1>1 DEF MessageEvents
  <2>2. FirstAcks \cup {4} \subseteq -1..4
    BY ChatAssumption
  <2> QED BY <2>1, <2>2, Zenon
<1>2. ASSUME NEW x \in WahaIds, n \in AckEvents(x)
      PROVE  n.kind = "ack" /\ n.id \in WahaIds /\ n.ack \in -1..4
  <2>1. Acks \subseteq -1..4
    BY ChatAssumption
  <2> QED BY <1>2, <2>1 DEF AckEvents
<1>3. ASSUME n \in StatusEvents PROVE n.kind = "status" /\ n.status \in Statuses
  BY <1>3 DEF StatusEvents
<1>4. \/ \E x \in WahaIds : n \in MessageEvents(x)
      \/ \E x \in WahaIds : n \in AckEvents(x)
      \/ n \in StatusEvents
  BY Zenon DEF Names
<1> QED
  BY <1>1, <1>2, <1>3, <1>4

LEMMA NamesOf ==
  ASSUME NEW x \in WahaIds
  PROVE  MessageEvents(x) \subseteq Names /\ AckEvents(x) \subseteq Names
BY Zenon DEF Names

LEMMA NamesOfStatus == StatusEvents \subseteq Names
BY DEF Names

LEMMA IdleTyped == Idle \in Frame /\ \A p \in Processes : FrameOK(p, Idle)
BY DEF Idle, Frame, FrameOK

-----------------------------------------------------------------------------
(* Types *)

EnvOK ==
  /\ waha.status \in Statuses \cup {"gone"}
  /\ waha.used \subseteq WahaIds
  /\ waha.sent \subseteq Names
  /\ left \in [active : SUBSET Processes, ids : SUBSET (WahaIds \cup Drafts),
               hooks : SUBSET Names, changes : 0..MaxChanges, faults : Nat]

EventOK ==
  /\ DOMAIN event \subseteq Names
  /\ event \in [DOMAIN event -> [attempts : 0..MaxAttempts, due : BOOLEAN, done : BOOLEAN]]

MsgOK ==
  /\ msg \in Seq(MessageRow)
  /\ \A r, q \in DOMAIN msg : msg[r].waha # None /\ msg[r].waha = msg[q].waha => r = q
  /\ \A r \in DOMAIN msg : msg[r].status = "deleted" => msg[r].waha = None

ProcOK ==
  /\ proc \in [Processes -> Frame]
  /\ \A p \in Processes : FrameOK(p, proc[p])

CountsOK ==
  /\ session \in [status : Statuses, deleted : BOOLEAN]
  /\ conv \in [exists : BOOLEAN, linked : BOOLEAN, unread : Nat, day : BOOLEAN]
  /\ crm \in [leads : Nat, activities : Nat]
  /\ notices \in Nat /\ drops \in Nat

LEMMA TypeParts ==
  /\ TypeOK <=> EnvOK /\ EventOK /\ MsgOK /\ ProcOK /\ CountsOK
  /\ EnvOK' /\ EventOK' /\ MsgOK' /\ ProcOK' /\ CountsOK' => TypeOK'
BY DEF TypeOK, EnvOK, EventOK, MsgOK, ProcOK, CountsOK

(* No event and no row is forgotten. *)
Grows == DOMAIN event \subseteq DOMAIN event' /\ DOMAIN msg \subseteq DOMAIN msg'

(* A process that goes on to another frame. *)
LEMMA Moves ==
  ASSUME ProcOK, NEW p \in Processes, NEW f \in Frame, Goto(p, f)
  PROVE  /\ proc' \in [Processes -> Frame]
         /\ proc'[p] = f
         /\ \A q \in Processes \ {p} : proc'[q] = proc[q]
BY DEF ProcOK, Goto

LEMMA GoesOn ==
  ASSUME ProcOK, NEW p \in Processes, NEW f \in Frame, FrameOK(p, f), Goto(p, f), Grows
  PROVE  ProcOK'
<1>1. /\ proc' \in [Processes -> Frame]
      /\ proc'[p] = f
      /\ \A q \in Processes \ {p} : proc'[q] = proc[q]
  BY Moves
<1>2. ASSUME NEW q \in Processes, NEW g, FrameOK(q, g), g = proc'[q]
      PROVE  FrameOK(q, proc[q])'
  BY <1>2 DEF FrameOK, Grows
<1>3. FrameOK(p, proc[p])'
  BY <1>1, <1>2
<1>4. ASSUME NEW q \in Processes \ {p} PROVE FrameOK(q, proc[q])'
  BY <1>1, <1>2 DEF ProcOK
<1> QED
  BY <1>1, <1>3, <1>4 DEF ProcOK

LEMMA StaysPut == ProcOK /\ UNCHANGED proc /\ Grows => ProcOK'
BY DEF ProcOK, FrameOK, Grows

(* What the frame of a process says. *)
LEMMA FrameFacts ==
  ASSUME ProcOK, NEW p \in Processes
  PROVE  proc[p] \in Frame /\ FrameOK(p, proc[p])
BY DEF ProcOK

LEMMA ReturnedTyped ==
  ASSUME ProcOK, NEW p \in Processes, proc[p].at \notin {"idle", "batch"}
  PROVE  /\ Returned(p) \in Frame /\ FrameOK(p, Returned(p))
         /\ Returned(p).at = IF p \in Workers THEN "mark" ELSE "idle"
         /\ p \in Workers => Returned(p).event = proc[p].event
<1>1. proc[p] \in Frame /\ FrameOK(p, proc[p])
  BY FrameFacts
<1>2. CASE p \in Workers
  BY <1>1, <1>2 DEF Returned, Idle, Frame, FrameOK
<1>3. CASE p \notin Workers
  BY <1>3, IdleTyped DEF Returned, Idle
<1> QED
  BY <1>2, <1>3

(* The activity follows only for workers and members. *)
LEMMA WithActivityTyped ==
  ASSUME ProcOK, NEW p \in Processes, proc[p].at \notin {"idle", "batch"}
  PROVE  /\ WithActivity(p) \in Frame /\ FrameOK(p, WithActivity(p))
         /\ WithActivity(p).at \in {"activity", "mark", "idle"}
         /\ p \in Workers => WithActivity(p).event = proc[p].event
<1>1. /\ Returned(p) \in Frame /\ FrameOK(p, Returned(p))
      /\ Returned(p).at = IF p \in Workers THEN "mark" ELSE "idle"
      /\ p \in Workers => Returned(p).event = proc[p].event
  BY ReturnedTyped
<1> QED
  BY <1>1 DEF WithActivity, Frame, FrameOK

LEMMA NextOfTyped ==
  ASSUME ProcOK, NEW p \in Processes
  PROVE  /\ NextOf(p) \in Frame /\ FrameOK(p, NextOf(p))
         /\ NextOf(p).at \in {"batch", "idle"}
<1>1. proc[p] \in Frame /\ FrameOK(p, proc[p])
  BY FrameFacts
<1> QED
  BY <1>1, IdleTyped DEF NextOf, Idle, Frame, FrameOK

(* Updates of one event. *)
LEMMA EventUpdate ==
  ASSUME EventOK, NEW n \in DOMAIN event, NEW b \in BOOLEAN,
         \/ event' = [event EXCEPT ![n].due = b]
         \/ event' = [event EXCEPT ![n].done = b]
  PROVE  EventOK' /\ DOMAIN event' = DOMAIN event
<1> DEFINE E == [attempts : 0..MaxAttempts, due : BOOLEAN, done : BOOLEAN]
<1>1. event[n] \in E /\ event \in [DOMAIN event -> E]
  BY DEF EventOK
<1>2. [event[n] EXCEPT !.due = b] \in E /\ [event[n] EXCEPT !.done = b] \in E
  BY <1>1
<1>3. \E e \in E : event' = [event EXCEPT ![n] = e]
  BY <1>1, <1>2
<1> HIDE DEF E
<1>4. DOMAIN event' = DOMAIN event /\ event' \in [DOMAIN event -> E]
  BY <1>1, <1>3
<1> QED
  BY <1>4 DEF EventOK, E

(* The status of one row. *)
LEMMA StatusUpdate ==
  ASSUME MsgOK, NEW r \in DOMAIN msg, NEW st \in MessageStatuses,
         msg' = [msg EXCEPT ![r].status = st]
  PROVE  /\ MsgOK' /\ DOMAIN msg' = DOMAIN msg
         /\ msg'[r] = [msg[r] EXCEPT !.status = st]
         /\ \A q \in DOMAIN msg \ {r} : msg'[q] = msg[q]
         /\ \A q \in DOMAIN msg :
              /\ msg'[q].of = msg[q].of
              /\ msg'[q].waha = msg[q].waha
              /\ msg'[q].out = msg[q].out
              /\ msg'[q].unseen = msg[q].unseen
              /\ msg'[q].status = IF q = r THEN st ELSE msg[q].status
<1>1. msg \in Seq(MessageRow) /\ msg[r] \in MessageRow
  BY DEF MsgOK
<1>2. [msg[r] EXCEPT !.status = st] \in MessageRow
  BY <1>1 DEF MessageRow
<1>3. /\ msg' \in Seq(MessageRow) /\ DOMAIN msg' = DOMAIN msg
      /\ msg'[r] = [msg[r] EXCEPT !.status = st]
      /\ \A q \in DOMAIN msg \ {r} : msg'[q] = msg[q]
  BY <1>1, <1>2
<1>4. \A q \in DOMAIN msg : msg[q] \in MessageRow
  BY <1>1
<1>5. \A q \in DOMAIN msg :
        /\ msg'[q].of = msg[q].of
        /\ msg'[q].waha = msg[q].waha
        /\ msg'[q].out = msg[q].out
        /\ msg'[q].unseen = msg[q].unseen
        /\ msg'[q].status = IF q = r THEN st ELSE msg[q].status
  BY <1>3, <1>4 DEF MessageRow
<1> QED
  BY <1>3, <1>5 DEF MsgOK, MessageStatuses

(* A new row, of a message that the index has not. *)
LEMMA RowAdded ==
  ASSUME MsgOK, NEW m \in MessageRow, m.waha = None \/ RowsOf(m.waha) = {},
         m.status # "deleted",
         msg' = Append(msg, m)
  PROVE  /\ MsgOK'
         /\ DOMAIN msg' = DOMAIN msg \cup {Len(msg) + 1}
         /\ Len(msg) + 1 \notin DOMAIN msg
         /\ msg'[Len(msg) + 1] = m
         /\ \A q \in DOMAIN msg : msg'[q] = msg[q]
<1>1. msg \in Seq(MessageRow)
  BY DEF MsgOK
<1>2. /\ msg' \in Seq(MessageRow)
      /\ DOMAIN msg' = DOMAIN msg \cup {Len(msg) + 1}
      /\ Len(msg) + 1 \notin DOMAIN msg
      /\ msg'[Len(msg) + 1] = m
      /\ \A q \in DOMAIN msg : msg'[q] = msg[q]
  BY <1>1
<1>3. \A q \in DOMAIN msg : m.waha # None => msg[q].waha # m.waha
  BY DEF RowsOf
<1> QED
  BY <1>2, <1>3 DEF MsgOK

(* Rows that are rewritten in place. *)
LEMMA RowsRewritten ==
  ASSUME msg \in Seq(MessageRow), msg' = [r \in DOMAIN msg |-> msg'[r]],
         \A r \in DOMAIN msg : msg'[r] \in MessageRow
  PROVE  msg' \in Seq(MessageRow) /\ DOMAIN msg' = DOMAIN msg
<1>1. DOMAIN msg = 1..Len(msg) /\ Len(msg) \in Nat
  OBVIOUS
<1>2. msg' \in [1..Len(msg) -> MessageRow]
  BY <1>1
<1> QED
  BY <1>1, <1>2

(* MarkMessageSent: the row has the id, and no other row has. *)
LEMMA RowConfirmed ==
  ASSUME MsgOK, NEW r \in Rows, NEW x \in WahaIds, Confirm(r, x)
  PROVE  /\ MsgOK' /\ DOMAIN msg' = DOMAIN msg
         /\ \A q \in DOMAIN msg :
              /\ msg'[q].of = msg[q].of
              /\ msg'[q].out = msg[q].out
              /\ msg'[q].unseen = msg[q].unseen
         /\ msg'[r].waha = x /\ msg'[r].status = SentStatus(msg[r].status)
         /\ \A q \in RowsOf(x) \ {r} : msg'[q].waha = None /\ msg'[q].status = "deleted"
         /\ \A q \in DOMAIN msg \ (RowsOf(x) \cup {r}) : msg'[q] = msg[q]
<1>1. msg \in Seq(MessageRow) /\ \A q \in DOMAIN msg : msg[q] \in MessageRow
  BY DEF MsgOK
<1>2. r \in DOMAIN msg
  BY DEF Rows
<1> DEFINE Sent(m) == [m EXCEPT !.waha = x, !.status = SentStatus(@)]
           Gone(m) == [m EXCEPT !.waha = None, !.status = "deleted"]
<1>3. \A m \in MessageRow :
        /\ Sent(m) \in MessageRow /\ Gone(m) \in MessageRow
        /\ Sent(m).of = m.of /\ Sent(m).out = m.out /\ Sent(m).unseen = m.unseen
        /\ Sent(m).waha = x /\ Sent(m).status = SentStatus(m.status)
        /\ Gone(m).of = m.of /\ Gone(m).out = m.out /\ Gone(m).unseen = m.unseen
        /\ Gone(m).waha = None /\ Gone(m).status = "deleted"
  BY DEF MessageRow, MessageStatuses, SentStatus
<1>4. msg' = [q \in DOMAIN msg |->
                CASE q = r -> Sent(msg[q])
                  [] q \in RowsOf(x) \ {r} -> Gone(msg[q])
                  [] OTHER -> msg[q]]
  BY DEF Confirm
<1> HIDE DEF Sent, Gone
<1>5. /\ DOMAIN msg' = DOMAIN msg
      /\ msg'[r] = Sent(msg[r])
      /\ \A q \in RowsOf(x) \ {r} : msg'[q] = Gone(msg[q])
      /\ \A q \in DOMAIN msg \ (RowsOf(x) \cup {r}) : msg'[q] = msg[q]
  BY <1>2, <1>4 DEF RowsOf
<1>6. \A q \in DOMAIN msg : \/ msg'[q] = Sent(msg[q]) /\ q = r
                            \/ msg'[q] = Gone(msg[q]) /\ q # r /\ q \in RowsOf(x)
                            \/ msg'[q] = msg[q] /\ q # r /\ msg[q].waha # x
  BY <1>5 DEF RowsOf
<1>7. \A q \in DOMAIN msg :
        /\ msg'[q] \in MessageRow /\ msg'[q].of = msg[q].of
        /\ msg'[q].out = msg[q].out /\ msg'[q].unseen = msg[q].unseen
  BY <1>1, <1>3, <1>6
<1>8. msg' = [q \in DOMAIN msg |-> msg'[q]]
  BY <1>4
<1>9. msg' \in Seq(MessageRow)
  BY <1>1, <1>7, <1>8, RowsRewritten
<1>10. \A q, t \in DOMAIN msg : msg'[q].waha # None /\ msg'[q].waha = msg'[t].waha => q = t
  <2> SUFFICES ASSUME NEW q \in DOMAIN msg, NEW t \in DOMAIN msg,
                      msg'[q].waha # None, msg'[q].waha = msg'[t].waha
               PROVE  q = t
    OBVIOUS
  <2>1. \A u \in DOMAIN msg :
          \/ u = r /\ msg'[u].waha = x
          \/ msg'[u].waha = None
          \/ msg'[u].waha = msg[u].waha /\ msg[u].waha # x
    BY <1>1, <1>3, <1>6
  <2> QED BY <2>1 DEF MsgOK
<1>11. \A q \in DOMAIN msg : msg'[q].status = "deleted" => msg'[q].waha = None
  <2>1. msg'[r].status # "deleted"
    BY <1>1, <1>2, <1>3, <1>5 DEF Rows, SentStatus
  <2> QED BY <1>1, <1>3, <1>6, <2>1 DEF MsgOK
<1>12. RowsOf(x) \subseteq DOMAIN msg
  BY DEF RowsOf
<1> QED
  BY <1>1, <1>2, <1>3, <1>5, <1>7, <1>9, <1>10, <1>11, <1>12 DEF MsgOK

(* MarkRead: nothing but the marks of the badge. *)
LEMMA RowsSeen ==
  ASSUME MsgOK, msg' = [r \in DOMAIN msg |-> [msg[r] EXCEPT !.unseen = FALSE]]
  PROVE  /\ MsgOK' /\ DOMAIN msg' = DOMAIN msg
         /\ \A q \in DOMAIN msg :
              /\ msg'[q].of = msg[q].of
              /\ msg'[q].waha = msg[q].waha
              /\ msg'[q].out = msg[q].out
              /\ msg'[q].status = msg[q].status
              /\ msg'[q].unseen = FALSE
<1>1. msg \in Seq(MessageRow) /\ \A q \in DOMAIN msg : msg[q] \in MessageRow
  BY DEF MsgOK
<1>2. \A q \in DOMAIN msg :
        /\ msg'[q] \in MessageRow
        /\ msg'[q].of = msg[q].of
        /\ msg'[q].waha = msg[q].waha
        /\ msg'[q].out = msg[q].out
        /\ msg'[q].status = msg[q].status
        /\ msg'[q].unseen = FALSE
  BY <1>1 DEF MessageRow
<1>3. msg' = [q \in DOMAIN msg |-> msg'[q]]
  OBVIOUS
<1>4. msg' \in Seq(MessageRow) /\ DOMAIN msg' = DOMAIN msg
  BY <1>1, <1>2, <1>3, RowsRewritten
<1> QED
  BY <1>2, <1>4 DEF MsgOK

LEMMA StatusFromAckTyped == \A a : StatusFromAck(a) \in MessageStatuses
BY DEF StatusFromAck, MessageStatuses

(* Nothing moves but the environment, the conversation or the CRM.         *)
LEMMA SameParts ==
  /\ EnvOK /\ UNCHANGED <<waha, left>> => EnvOK'
  /\ EventOK /\ UNCHANGED event => EventOK'
  /\ MsgOK /\ UNCHANGED msg => MsgOK'
  /\ CountsOK /\ UNCHANGED <<session, conv, crm, notices, drops>> => CountsOK'
BY DEF EnvOK, EventOK, MsgOK, CountsOK

LEMMA WahaStatusTyped ==
  ASSUME EnvOK, NEW st \in Statuses, SetWahaStatus(st)
  PROVE  EnvOK'
<1>1. left.changes \in 1..MaxChanges
  BY DEF SetWahaStatus, EnvOK
<1>2. [kind |-> "status", nr |-> left.changes, status |-> st] \in Names
  BY <1>1, NamesOfStatus DEF StatusEvents
<1>3. left' \in [active : SUBSET Processes, ids : SUBSET (WahaIds \cup Drafts),
                 hooks : SUBSET Names, changes : 0..MaxChanges, faults : Nat]
  <2>1. left.changes - 1 \in 0..MaxChanges
    BY <1>1, ChatAssumption
  <2> QED BY <1>1, <2>1 DEF SetWahaStatus, EnvOK
<1>4. waha'.status = st /\ waha'.used = waha.used /\ waha'.sent \subseteq Names
  BY <1>2 DEF SetWahaStatus, EnvOK
<1> QED BY <1>3, <1>4 DEF EnvOK

(* WAHA and time. *)
LEMMA EnvironmentTypes ==
  ASSUME TypeOK,
         \/ \E x \in WahaIds : WriteOnPhone(x)
         \/ WahaChanges
         \/ \E n \in Names : Receive(n) \/ WaitIsOver(n)
  PROVE  TypeOK'
<1>t. EnvOK /\ EventOK /\ MsgOK /\ ProcOK /\ CountsOK
  BY TypeParts
<1>1. ASSUME NEW x \in WahaIds, WriteOnPhone(x) PROVE TypeOK'
  <2>1. MessageEvents(x) \subseteq Names /\ AckEvents(x) \subseteq Names
    BY NamesOf
  <2>2. waha'.status = waha.status /\ waha'.used \subseteq WahaIds /\ waha'.sent \subseteq Names
    <3>1. PICK a : waha' = [waha EXCEPT
                      !.used = @ \cup {x},
                      !.sent = @ \cup {n \in MessageEvents(x) : n.ack = a}
                                 \cup (IF x \in Phone THEN AckEvents(x) ELSE {})]
      BY <1>1 DEF WriteOnPhone
    <3> QED BY <1>t, <2>1, <3>1 DEF EnvOK
  <2>3. left' \in [active : SUBSET Processes, ids : SUBSET (WahaIds \cup Drafts),
                   hooks : SUBSET Names, changes : 0..MaxChanges, faults : Nat]
    BY <1>1, <1>t DEF WriteOnPhone, EnvOK
  <2>4. EnvOK'
    BY <1>t, <2>2, <2>3 DEF EnvOK
  <2>5. EventOK' /\ MsgOK' /\ CountsOK' /\ ProcOK'
    BY <1>1, <1>t, SameParts, StaysPut DEF WriteOnPhone, Grows
  <2> QED BY <2>4, <2>5, TypeParts
<1>3. ASSUME WahaChanges PROVE TypeOK'
  <2>1. EventOK' /\ MsgOK' /\ CountsOK' /\ ProcOK'
    BY <1>3, <1>t, SameParts, StaysPut DEF WahaChanges, Grows
  <2> QED BY <1>t, <1>3, <2>1, WahaStatusTyped, TypeParts DEF WahaChanges
<1>4. ASSUME NEW n \in Names, Receive(n) PROVE TypeOK'
  <2>1. EnvOK'
    BY <1>4, <1>t DEF Receive, EnvOK
  <2>2. EventOK' /\ DOMAIN event \subseteq DOMAIN event'
    <3>1. CASE UNCHANGED event
      BY <3>1, <1>t, SameParts
    <3>2. CASE event' = Put(event, n, [attempts |-> 0, due |-> TRUE, done |-> FALSE])
      <4>1. 0 \in 0..MaxAttempts
        BY ChatAssumption
      <4> QED BY <3>2, <4>1, <1>t DEF Put, EventOK
    <3> QED BY <1>4, <3>1, <3>2 DEF Receive
  <2>3. MsgOK' /\ CountsOK' /\ ProcOK'
    BY <1>4, <1>t, <2>2, SameParts, StaysPut DEF Receive, Grows
  <2> QED BY <2>1, <2>2, <2>3, TypeParts
<1>5. ASSUME NEW n \in Names, WaitIsOver(n) PROVE TypeOK'
  <2>1. EventOK' /\ DOMAIN event' = DOMAIN event
    BY <1>5, <1>t, EventUpdate DEF WaitIsOver
  <2>2. EnvOK' /\ MsgOK' /\ CountsOK' /\ ProcOK'
    BY <1>5, <1>t, <2>1, SameParts, StaysPut DEF WaitIsOver, Grows
  <2> QED BY <2>1, <2>2, TypeParts
<1> QED BY <1>1, <1>3, <1>4, <1>5

(* The frame of a worker that takes an event of its batch. *)
LEMMA HandleTyped ==
  ASSUME EventOK, ProcOK, NEW w \in Workers, NEW n \in proc[w].todo, NEW at \in Frames
  PROVE  /\ Handle(w, n, at) \in Frame
         /\ Handle(w, n, at).at = at
         /\ Handle(w, n, at).todo \subseteq DOMAIN event
         /\ Handle(w, n, at).event = n /\ n \in DOMAIN event
         /\ FrameOK(w, Handle(w, n, "mark"))
<1>1. proc[w] \in Frame /\ FrameOK(w, proc[w])
  BY FrameFacts DEF Processes
<1>2. n \in DOMAIN event /\ n \in Names /\ proc[w].todo \subseteq DOMAIN event
  BY <1>1 DEF FrameOK, EventOK
<1>3. Handle(w, n, at) \in Frame
  BY <1>1, <1>2 DEF Handle, Idle, Frame
<1>4. /\ Handle(w, n, at).at = at
      /\ Handle(w, n, at).todo \subseteq DOMAIN event
      /\ Handle(w, n, at).event = n
  BY <1>2 DEF Handle, Idle
<1>5. FrameOK(w, Handle(w, n, "mark"))
  BY <1>1, <1>2 DEF Handle, Idle, FrameOK
<1> QED
  BY <1>2, <1>3, <1>4, <1>5

(* Begin hands the event to the handler of its kind. *)
LEMMA BeginTyped ==
  ASSUME EventOK, MsgOK, ProcOK, CountsOK, NEW w \in Workers, NEW n, Begin(w, n)
  PROVE  ProcOK'
<1>a. w \in Processes
  BY DEF Processes
<1>1. proc[w] \in Frame /\ FrameOK(w, proc[w]) /\ n \in proc[w].todo
  BY <1>a, FrameFacts DEF Begin
<1>2. n \in DOMAIN event /\ n \in Names
  BY <1>1 DEF FrameOK, EventOK
<1>3. PICK f : Goto(w, f) /\ f \in Frame /\ FrameOK(w, f)
  <2> DEFINE H(at) == Handle(w, n, at)
  <2>h. \A at \in Frames :
          /\ H(at) \in Frame /\ H(at).at = at /\ H(at).event = n
          /\ H(at).todo \subseteq DOMAIN event
    BY <1>1, HandleTyped
  <2>m. H("mark") \in Frame /\ FrameOK(w, H("mark"))
    BY <1>1, <2>h, HandleTyped
  <2>1. CASE session.deleted
    BY <2>1, <2>m DEF Begin
  <2>2. CASE ~session.deleted /\ n.kind = "status"
    <3>1. n.status \in Statuses
      BY <1>2, <2>2, NameKinds
    <3> DEFINE f == [H("observed") EXCEPT !.status = n.status]
    <3>2. f \in Frame /\ FrameOK(w, f)
      BY <1>1, <1>2, <2>h, <3>1 DEF Frame, FrameOK
    <3>3. Goto(w, f)
      BY <2>2 DEF Begin
    <3> QED BY <3>2, <3>3
  <2>3. CASE ~session.deleted /\ n.kind = "message" /\ n.id \in Api /\ n.copy = 1
    BY <2>3, <2>m DEF Begin
  <2>4. CASE ~session.deleted /\ n.kind = "message" /\ ~(n.id \in Api /\ n.copy = 1)
    <3> DEFINE f == IF conv.exists THEN [H("record") EXCEPT !.linked = conv.linked]
                    ELSE H("match")
    <3>2. f \in Frame /\ FrameOK(w, f)
      BY <1>1, <1>2, <2>h, <2>4 DEF Frame, FrameOK, CountsOK
    <3>3. Goto(w, f)
      BY <2>4 DEF Begin
    <3> QED BY <3>2, <3>3
  <2>5. CASE ~session.deleted /\ n.kind = "ack"
    <3>1. CASE \E r \in RowsOf(n.id) : CanTransitionTo(msg[r].status, StatusFromAck(n.ack))
      <4> DEFINE r == CHOOSE r \in RowsOf(n.id) : TRUE
                 f == [H("ack") EXCEPT !.row = r, !.from = msg[r].status]
      <4>1. r \in DOMAIN msg /\ msg[r].waha = n.id
        BY <3>1 DEF RowsOf
      <4>2. r \in Nat /\ msg[r] \in MessageRow
        BY <4>1 DEF MsgOK
      <4>3. PICK q \in DOMAIN msg :
              msg[q].waha = n.id /\ CanTransitionTo(msg[q].status, StatusFromAck(n.ack))
        BY <3>1 DEF RowsOf
      <4>4. n.id # None
        BY <1>2, <2>5, NameKinds, ChatAssumption
      <4>5. q = r
        BY <4>1, <4>3, <4>4 DEF MsgOK
      <4>6. msg[r].status \in MessageStatuses
        BY <4>1, <4>2, <4>4 DEF MsgOK, MessageRow
      <4> HIDE DEF r
      <4>7. f \in Frame /\ FrameOK(w, f)
        BY <1>1, <1>2, <2>h, <2>5, <4>1, <4>2, <4>6 DEF Frame, FrameOK
      <4>8. Goto(w, f)
        BY <2>5, <3>1 DEF Begin, r
      <4> QED BY <4>7, <4>8
    <3>2. CASE ~\E r \in RowsOf(n.id) : CanTransitionTo(msg[r].status, StatusFromAck(n.ack))
      BY <2>5, <2>m, <3>2 DEF Begin
    <3> QED BY <3>1, <3>2
  <2> QED BY <1>2, <2>1, <2>2, <2>3, <2>4, <2>5, NameKinds
<1>4. Grows
  BY DEF Begin, Grows
<1> QED
  BY <1>a, <1>3, <1>4, GoesOn

(* The index has no row of a message that is recorded. *)
LEMMA RecordKeepsRows ==
  ASSUME TypeOK, NEW w \in Workers, RecordMessage(w)
  PROVE  /\ MsgOK' /\ DOMAIN msg \subseteq DOMAIN msg'
         /\ \/ msg' = msg
            \/ /\ msg' = Append(msg, RowOf(proc[w].event))
               /\ RowsOf(proc[w].event.id) = {}
               /\ RowOf(proc[w].event) \in MessageRow
               /\ proc[w].event.id \in WahaIds
<1>t. EventOK /\ MsgOK /\ ProcOK
  BY TypeParts
<1> DEFINE n == proc[w].event
<1>1. n \in Names /\ n.kind = "message"
  BY <1>t, FrameFacts DEF RecordMessage, FrameOK, EventOK, Processes
<1>2. n.id \in WahaIds
  BY <1>1, NameKinds
<1>3. RowOf(n) \in MessageRow /\ RowOf(n).waha = n.id /\ RowOf(n).status # "deleted"
  <2>1. StatusFromAck(n.ack) \in MessageStatuses
    BY StatusFromAckTyped
  <2> QED BY <1>2, <2>1 DEF RowOf, MessageRow, MessageStatuses
<1> HIDE DEF n
<1>4. CASE RowsOf(n.id) = {}
  <2>1. msg' = Append(msg, RowOf(n))
    BY <1>4 DEF RecordMessage, n
  <2>2. MsgOK' /\ DOMAIN msg \subseteq DOMAIN msg'
    BY <1>t, <1>3, <1>4, <2>1, RowAdded
  <2> QED BY <1>2, <1>3, <1>4, <2>1, <2>2 DEF n
<1>5. CASE RowsOf(n.id) # {}
  BY <1>t, <1>5, SameParts DEF RecordMessage, n
<1> QED BY <1>4, <1>5

LEMMA WorkerTypes ==
  ASSUME TypeOK, NEW w \in Workers, WorkerStep(w) \/ HandlerFails(w)
  PROVE  TypeOK'
<1>t. EnvOK /\ EventOK /\ MsgOK /\ ProcOK /\ CountsOK
  BY TypeParts
<1>p. w \in Processes
  BY DEF Processes
<1>f. proc[w] \in Frame /\ FrameOK(w, proc[w])
  BY <1>t, <1>p, FrameFacts
<1>1. CASE ClaimDue(w)
  <2> DEFINE f == [Idle EXCEPT !.at = "batch", !.todo = Due]
  <2>1. Due \subseteq DOMAIN event /\ Due \subseteq Names
    BY <1>t DEF Due, EventOK
  <2>2. f \in Frame /\ FrameOK(w, f)
    BY <2>1 DEF Idle, Frame, FrameOK
  <2>3. EventOK' /\ DOMAIN event' = DOMAIN event
    <3> DEFINE E == [attempts : 0..MaxAttempts, due : BOOLEAN, done : BOOLEAN]
    <3>1. ASSUME NEW n \in Due
          PROVE  [event[n] EXCEPT !.attempts = @ + 1, !.due = FALSE] \in E
      <4>1. event[n] \in E /\ event[n].attempts < MaxAttempts
        BY <1>t DEF Due, EventOK
      <4>2. event[n].attempts + 1 \in 0..MaxAttempts
        BY <4>1, ChatAssumption
      <4> QED BY <4>1, <4>2
    <3>2. event' = [n \in DOMAIN event |->
             IF n \in Due THEN [event[n] EXCEPT !.attempts = @ + 1, !.due = FALSE]
             ELSE event[n]]
      BY <1>1 DEF ClaimDue
    <3>3. \A n \in DOMAIN event : event'[n] \in E
      BY <1>t, <3>1, <3>2 DEF EventOK
    <3> HIDE DEF E
    <3>4. event' \in [DOMAIN event -> E] /\ DOMAIN event' = DOMAIN event
      BY <3>2, <3>3
    <3> QED BY <1>t, <3>4 DEF EventOK, E
  <2>4. ProcOK'
    BY <1>1, <1>t, <1>p, <2>2, <2>3, GoesOn DEF ClaimDue, Grows
  <2>5. EnvOK' /\ MsgOK' /\ CountsOK'
    BY <1>1, <1>t, SameParts DEF ClaimDue
  <2> QED BY <2>3, <2>4, <2>5, TypeParts
<1>2. ASSUME NEW n \in Names, Begin(w, n) PROVE TypeOK'
  <2>1. EnvOK' /\ EventOK' /\ MsgOK' /\ CountsOK'
    BY <1>2, <1>t, SameParts DEF Begin
  <2> QED BY <1>2, <1>t, <2>1, BeginTyped, TypeParts
<1>3. CASE MatchPhone(w)
  <2>1. PICK f \in {[proc[w] EXCEPT !.at = "create", !.linked = TRUE],
                    [proc[w] EXCEPT !.at = "lead"]} : Goto(w, f)
    BY <1>3 DEF MatchPhone
  <2>2. f \in Frame /\ FrameOK(w, f)
    BY <1>3, <1>f DEF MatchPhone, Frame, FrameOK
  <2>3. EnvOK' /\ EventOK' /\ MsgOK' /\ CountsOK' /\ Grows
    BY <1>3, <1>t, SameParts DEF MatchPhone, Grows
  <2> QED BY <1>t, <1>p, <2>1, <2>2, <2>3, GoesOn, TypeParts
<1>4. CASE CreateLead(w)
  <2>1. PICK room \in BOOLEAN :
          /\ crm' = [crm EXCEPT !.leads = @ + (IF room THEN 1 ELSE 0)]
          /\ Goto(w, [proc[w] EXCEPT !.at = "create", !.linked = room])
    BY <1>4 DEF CreateLead
  <2> DEFINE f == [proc[w] EXCEPT !.at = "create", !.linked = room]
  <2>2. f \in Frame /\ FrameOK(w, f)
    BY <1>4, <1>f DEF CreateLead, Frame, FrameOK
  <2>3. EnvOK' /\ EventOK' /\ MsgOK' /\ Grows
    BY <1>4, <1>t, SameParts DEF CreateLead, Grows
  <2>4. CountsOK'
    BY <1>4, <1>t, <2>1 DEF CreateLead, CountsOK
  <2> QED BY <1>t, <1>p, <2>1, <2>2, <2>3, <2>4, GoesOn, TypeParts
<1>5. CASE CreateConversation(w)
  <2> DEFINE linked == Opened(proc[w].linked).linked
             f == [proc[w] EXCEPT !.at = "record", !.linked = linked]
  <2>1. /\ Opened(proc[w].linked) \in
             [exists : BOOLEAN, linked : BOOLEAN, unread : Nat, day : BOOLEAN]
        /\ linked \in BOOLEAN
    BY <1>t, <1>f DEF Opened, CountsOK, Frame
  <2>2. Goto(w, f)
    BY <1>5, <1>f DEF CreateConversation, Frame
  <2> HIDE DEF linked
  <2>3. f \in Frame /\ FrameOK(w, f)
    BY <1>5, <1>f, <2>1 DEF CreateConversation, Frame, FrameOK
  <2>4. EnvOK' /\ EventOK' /\ MsgOK' /\ Grows
    BY <1>5, <1>t, SameParts DEF CreateConversation, Grows
  <2>5. CountsOK'
    BY <1>5, <1>t, <2>1 DEF CreateConversation, CountsOK
  <2> QED BY <1>t, <1>p, <2>2, <2>3, <2>4, <2>5, GoesOn, TypeParts
<1>6. CASE RecordMessage(w)
  <2>1. MsgOK' /\ DOMAIN msg \subseteq DOMAIN msg'
    BY <1>6, RecordKeepsRows
  <2>2. PICK f \in {WithActivity(w), Returned(w)} : Goto(w, f)
    BY <1>6 DEF RecordMessage
  <2>3. f \in Frame /\ FrameOK(w, f)
    BY <1>6, <1>t, <1>p, ReturnedTyped, WithActivityTyped DEF RecordMessage
  <2>4. EnvOK' /\ EventOK' /\ Grows
    BY <1>6, <1>t, <2>1, SameParts DEF RecordMessage, Grows
  <2>5. CountsOK'
    <3>1. \/ conv' = conv
          \/ \E k \in {0, 1} : conv' = [conv EXCEPT !.unread = @ + k]
      BY <1>6 DEF RecordMessage
    <3>2. conv' \in [exists : BOOLEAN, linked : BOOLEAN, unread : Nat, day : BOOLEAN]
      BY <1>t, <3>1 DEF CountsOK
    <3> QED BY <1>6, <1>t, <3>2 DEF RecordMessage, CountsOK
  <2> QED BY <1>t, <1>p, <2>1, <2>2, <2>3, <2>4, <2>5, GoesOn, TypeParts
<1>7. CASE SetMessageStatus(w)
  <2>1. proc[w].row \in DOMAIN msg
    BY <1>7, <1>f DEF SetMessageStatus, FrameOK
  <2>2. MsgOK' /\ DOMAIN msg' = DOMAIN msg
    BY <1>7, <1>t, <2>1, StatusUpdate, StatusFromAckTyped, SameParts DEF SetMessageStatus
  <2>3. Returned(w) \in Frame /\ FrameOK(w, Returned(w)) /\ Goto(w, Returned(w))
    BY <1>7, <1>t, <1>p, ReturnedTyped DEF SetMessageStatus
  <2>4. EnvOK' /\ EventOK' /\ CountsOK' /\ Grows
    BY <1>7, <1>t, <2>2, SameParts DEF SetMessageStatus, Grows
  <2> QED BY <1>t, <1>p, <2>2, <2>3, <2>4, GoesOn, TypeParts
<1>8. CASE MarkProcessed(w) \/ HandlerFails(w)
  <2>1. proc[w].event \in DOMAIN event
    BY <1>8, <1>f DEF MarkProcessed, HandlerFails, Handling, FrameOK
  <2>2. EventOK' /\ DOMAIN event' = DOMAIN event
    BY <1>8, <1>t, <2>1, EventUpdate DEF MarkProcessed, HandlerFails, MarkFailed
  <2>3. NextOf(w) \in Frame /\ FrameOK(w, NextOf(w)) /\ Goto(w, NextOf(w))
    BY <1>8, <1>t, <1>p, NextOfTyped DEF MarkProcessed, HandlerFails, MarkFailed
  <2>4. MsgOK' /\ CountsOK' /\ Grows
    BY <1>8, <1>t, <2>2, SameParts DEF MarkProcessed, HandlerFails, Grows
  <2>5. EnvOK'
    BY <1>8, <1>t DEF MarkProcessed, HandlerFails, EnvOK
  <2> QED BY <1>t, <1>p, <2>2, <2>3, <2>4, <2>5, GoesOn, TypeParts
<1> QED BY <1>1, <1>2, <1>3, <1>4, <1>5, <1>6, <1>7, <1>8 DEF WorkerStep

LEMMA ObserverTypes ==
  ASSUME TypeOK, NEW p \in Workers \cup Reconcilers,
         (p \in Reconcilers /\ GetSession(p)) \/ ObserverStep(p)
  PROVE  TypeOK'
<1>t. EnvOK /\ EventOK /\ MsgOK /\ ProcOK /\ CountsOK
  BY TypeParts
<1>p. p \in Processes
  BY DEF Processes
<1>f. proc[p] \in Frame /\ FrameOK(p, proc[p])
  BY <1>t, <1>p, FrameFacts
<1>1. CASE p \in Reconcilers /\ GetSession(p)
  <2> DEFINE f == [Idle EXCEPT !.at = "observed", !.status = waha.status]
  <2>1. waha.status \in Statuses /\ p \notin Workers
    BY <1>1, <1>t, ChatAssumption DEF GetSession, EnvOK
  <2>2. f \in Frame /\ FrameOK(p, f)
    BY <2>1 DEF Idle, Frame, FrameOK
  <2>3. EnvOK' /\ EventOK' /\ MsgOK' /\ CountsOK' /\ Grows /\ Goto(p, f)
    BY <1>1, <1>t, SameParts DEF GetSession, Grows
  <2> QED BY <1>t, <1>p, <2>2, <2>3, GoesOn, TypeParts
<1>2. CASE ApplyObservedStatus(p)
  <2> DEFINE f == IF IsDisconnect(session.status, proc[p].status)
                    THEN [Returned(p) EXCEPT !.at = "notify"] ELSE Returned(p)
  <2>1. Returned(p) \in Frame /\ FrameOK(p, Returned(p))
        /\ (p \in Workers => Returned(p).event = proc[p].event)
    BY <1>2, <1>t, <1>p, ReturnedTyped DEF ApplyObservedStatus
  <2>2. f \in Frame /\ FrameOK(p, f)
    BY <1>2, <1>f, <2>1 DEF ApplyObservedStatus, Frame, FrameOK
  <2>3. EnvOK' /\ EventOK' /\ MsgOK' /\ Grows /\ Goto(p, f)
    BY <1>2, <1>t, SameParts DEF ApplyObservedStatus, Grows
  <2>4. CountsOK'
    <3>1. proc[p].status \in Statuses
      BY <1>2, <1>f DEF ApplyObservedStatus, FrameOK
    <3> QED BY <1>2, <1>t, <3>1 DEF ApplyObservedStatus, Store, CountsOK
  <2> QED BY <1>t, <1>p, <2>2, <2>3, <2>4, GoesOn, TypeParts
<1>3. CASE ObservedTooLate(p)
  <2>1. CASE p \in Workers
    <3>1. proc[p].event \in DOMAIN event
      BY <1>3, <2>1, <1>f DEF ObservedTooLate, FrameOK
    <3>2. EventOK' /\ DOMAIN event' = DOMAIN event
      BY <1>3, <1>t, <2>1, <3>1, EventUpdate DEF ObservedTooLate, MarkFailed
    <3>3. NextOf(p) \in Frame /\ FrameOK(p, NextOf(p)) /\ Goto(p, NextOf(p))
      BY <1>3, <1>t, <1>p, <2>1, NextOfTyped DEF ObservedTooLate, MarkFailed
    <3>4. EnvOK' /\ MsgOK' /\ CountsOK' /\ Grows
      BY <1>3, <1>t, <3>2, SameParts DEF ObservedTooLate, Grows
    <3> QED BY <1>t, <1>p, <3>2, <3>3, <3>4, GoesOn, TypeParts
  <2>2. CASE p \notin Workers
    <3>1. EnvOK' /\ EventOK' /\ MsgOK' /\ CountsOK' /\ Grows /\ Goto(p, Idle)
      BY <1>3, <1>t, <2>2, SameParts DEF ObservedTooLate, Grows
    <3> QED BY <1>t, <1>p, <3>1, IdleTyped, GoesOn, TypeParts
  <2> QED BY <2>1, <2>2
<1>4. CASE NotifyDisconnected(p)
  <2>1. Returned(p) \in Frame /\ FrameOK(p, Returned(p)) /\ Goto(p, Returned(p))
    BY <1>4, <1>t, <1>p, ReturnedTyped DEF NotifyDisconnected
  <2>2. EnvOK' /\ EventOK' /\ MsgOK' /\ Grows
    BY <1>4, <1>t, SameParts DEF NotifyDisconnected, Grows
  <2>3. CountsOK'
    BY <1>4, <1>t DEF NotifyDisconnected, CountsOK
  <2> QED BY <1>t, <1>p, <2>1, <2>2, <2>3, GoesOn, TypeParts
<1> QED BY <1>1, <1>2, <1>3, <1>4 DEF ObserverStep

LEMMA ActivityTypes ==
  ASSUME TypeOK, NEW p \in Workers \cup Staff, ActivityStep(p)
  PROVE  TypeOK'
<1>t. EnvOK /\ EventOK /\ MsgOK /\ ProcOK /\ CountsOK
  BY TypeParts
<1>p. p \in Processes
  BY DEF Processes
<1>f. proc[p] \in Frame /\ FrameOK(p, proc[p])
  BY <1>t, <1>p, FrameFacts
<1>1. Returned(p) \in Frame /\ FrameOK(p, Returned(p))
  BY <1>t, <1>p, ReturnedTyped DEF ActivityStep, ClaimActivityDay, RecordActivity
<1>2. PICK f \in {Returned(p), [proc[p] EXCEPT !.at = "crm"]} :
        Goto(p, f) /\ (f = Returned(p) \/ proc[p].at = "activity")
  BY DEF ActivityStep, ClaimActivityDay, RecordActivity
<1>3. f \in Frame /\ FrameOK(p, f)
  BY <1>f, <1>1, <1>2 DEF Frame, FrameOK
<1>4. EnvOK' /\ EventOK' /\ MsgOK' /\ Grows
  BY <1>t, SameParts DEF ActivityStep, ClaimActivityDay, RecordActivity, Grows
<1>5. CountsOK'
  <2>1. CASE ClaimActivityDay(p)
    BY <1>t, <2>1 DEF ClaimActivityDay, CountsOK
  <2>2. CASE RecordActivity(p)
    BY <1>t, <2>2 DEF RecordActivity, CountsOK
  <2> QED BY <2>1, <2>2 DEF ActivityStep
<1> QED BY <1>t, <1>p, <1>2, <1>3, <1>4, <1>5, GoesOn, TypeParts

LEMMA StaffTypes ==
  ASSUME TypeOK, NEW s \in Staff, StaffStep(s)
  PROVE  TypeOK'
<1>t. EnvOK /\ EventOK /\ MsgOK /\ ProcOK /\ CountsOK
  BY TypeParts
<1>p. s \in Processes /\ s \notin Workers
  BY ChatAssumption DEF Processes
<1>f. proc[s] \in Frame /\ FrameOK(s, proc[s])
  BY <1>t, <1>p, FrameFacts
<1>i. Idle \in Frame /\ FrameOK(s, Idle)
  BY <1>p, IdleTyped
<1>1. CASE ApplyProviderInfo(s)
  <2>1. EnvOK' /\ EventOK' /\ MsgOK' /\ Grows /\ Goto(s, Idle)
    BY <1>1, <1>t, SameParts DEF ApplyProviderInfo, Grows
  <2>2. CountsOK'
    <3>1. proc[s].status \in Statuses
      BY <1>1, <1>f DEF ApplyProviderInfo, FrameOK
    <3> QED BY <1>1, <1>t, <3>1 DEF ApplyProviderInfo, Store, CountsOK
  <2> QED BY <1>t, <1>p, <1>i, <2>1, <2>2, GoesOn, TypeParts
<1>2. CASE SoftDelete(s)
  <2>1. EnvOK' /\ EventOK' /\ MsgOK' /\ Grows /\ Goto(s, Idle)
    BY <1>2, <1>t, SameParts DEF SoftDelete, Grows
  <2>2. CountsOK'
    BY <1>2, <1>t DEF SoftDelete, CountsOK
  <2> QED BY <1>t, <1>p, <1>i, <2>1, <2>2, GoesOn, TypeParts
<1>3. CASE WahaAccepts(s)
  <2>1. PICK x \in left.ids \cap Api : \E n \in MessageEvents(x) :
          /\ waha' = [waha EXCEPT !.used = @ \cup {x}, !.sent = @ \cup {n} \cup AckEvents(x)]
          /\ \/ /\ Goto(s, [proc[s] EXCEPT !.at = "accepted", !.id = x])
                /\ left' = [left EXCEPT !.ids = @ \ {x}]
             \/ /\ left.faults > 0
                /\ Goto(s, [Idle EXCEPT !.at = "refused", !.row = proc[s].row])
                /\ left' = [left EXCEPT !.ids = @ \ {x}, !.faults = @ - 1]
    BY <1>3 DEF WahaAccepts
  <2>2. x \in WahaIds /\ MessageEvents(x) \subseteq Names /\ AckEvents(x) \subseteq Names
    BY NamesOf DEF WahaIds
  <2>3. EnvOK'
    <3>1. waha'.status = waha.status /\ waha'.used \subseteq WahaIds /\ waha'.sent \subseteq Names
      BY <1>t, <2>1, <2>2 DEF EnvOK
    <3>2. left' \in [active : SUBSET Processes, ids : SUBSET (WahaIds \cup Drafts),
                     hooks : SUBSET Names, changes : 0..MaxChanges, faults : Nat]
      <4>1. CASE left' = [left EXCEPT !.ids = @ \ {x}]
        BY <1>t, <4>1 DEF EnvOK
      <4>2. CASE left.faults > 0 /\ left' = [left EXCEPT !.ids = @ \ {x}, !.faults = @ - 1]
        <5>1. left.faults - 1 \in Nat
          BY <1>t, <4>2 DEF EnvOK
        <5> QED BY <1>t, <4>2, <5>1 DEF EnvOK
      <4> QED BY <2>1, <4>1, <4>2
    <3> QED BY <1>t, <3>1, <3>2 DEF EnvOK
  <2>4. PICK f \in {[proc[s] EXCEPT !.at = "accepted", !.id = x],
                    [Idle EXCEPT !.at = "refused", !.row = proc[s].row]} : Goto(s, f)
    BY <2>1
  <2>5. f \in Frame /\ FrameOK(s, f)
    <3>1. proc[s].at = "send" /\ x \in Api
      BY <1>3 DEF WahaAccepts
    <3>2. CASE f = [proc[s] EXCEPT !.at = "accepted", !.id = x]
      BY <1>p, <1>f, <2>2, <3>1, <3>2 DEF Frame, FrameOK
    <3>3. CASE f = [Idle EXCEPT !.at = "refused", !.row = proc[s].row]
      BY <1>p, <1>f, <3>1, <3>3 DEF Frame, FrameOK, Idle
    <3> QED BY <2>4, <3>2, <3>3
  <2>6. EventOK' /\ MsgOK' /\ CountsOK' /\ Grows
    BY <1>3, <1>t, SameParts DEF WahaAccepts, Grows
  <2> QED BY <1>t, <1>p, <2>3, <2>4, <2>5, <2>6, GoesOn, TypeParts
<1>4. CASE WahaRefuses(s)
  <2> DEFINE f == [Idle EXCEPT !.at = "refused", !.row = proc[s].row]
  <2>1. f \in Frame /\ FrameOK(s, f)
    BY <1>4, <1>p, <1>f DEF WahaRefuses, Frame, FrameOK, Idle
  <2>2. EnvOK' /\ EventOK' /\ MsgOK' /\ CountsOK' /\ Grows /\ Goto(s, f)
    BY <1>4, <1>t, SameParts DEF WahaRefuses, Grows
  <2> QED BY <1>t, <1>p, <2>1, <2>2, GoesOn, TypeParts
<1>5. CASE MarkMessageFailed(s)
  <2>1. MsgOK' /\ DOMAIN msg' = DOMAIN msg
    <3>1. "failed" \in MessageStatuses /\ (proc[s].row \in Rows => proc[s].row \in DOMAIN msg)
      BY DEF MessageStatuses, Rows
    <3> QED BY <1>5, <1>t, <3>1, StatusUpdate, SameParts DEF MarkMessageFailed
  <2>2. EnvOK' /\ EventOK' /\ CountsOK' /\ Grows /\ Goto(s, Idle)
    BY <1>5, <1>t, <2>1, SameParts DEF MarkMessageFailed, Grows
  <2> QED BY <1>t, <1>p, <1>i, <2>1, <2>2, GoesOn, TypeParts
<1>6. CASE ReplaceCopy(s) \/ UpdateSent(s)
  <2>1. proc[s].id \in WahaIds
    BY <1>6, <1>f DEF ReplaceCopy, UpdateSent, FrameOK, WahaIds
  <2>2. MsgOK' /\ DOMAIN msg' = DOMAIN msg
    BY <1>6, <1>t, <2>1, RowConfirmed, SameParts DEF ReplaceCopy, UpdateSent
  <2>3. PICK f \in {WithActivity(s), Idle} : Goto(s, f)
    BY <1>6 DEF ReplaceCopy, UpdateSent
  <2>4. f \in Frame /\ FrameOK(s, f)
    BY <1>6, <1>t, <1>p, <1>i, WithActivityTyped DEF ReplaceCopy, UpdateSent
  <2>5. EnvOK' /\ EventOK' /\ CountsOK' /\ Grows
    BY <1>6, <1>t, <2>2, SameParts DEF ReplaceCopy, UpdateSent, Grows
  <2> QED BY <1>t, <1>p, <2>2, <2>3, <2>4, <2>5, GoesOn, TypeParts
<1>7. CASE FindNoCopy(s)
  <2> DEFINE f == [proc[s] EXCEPT !.at = "update"]
  <2>1. f \in Frame /\ FrameOK(s, f)
    BY <1>7, <1>f DEF FindNoCopy, Frame, FrameOK
  <2>2. EnvOK' /\ EventOK' /\ MsgOK' /\ CountsOK' /\ Grows /\ Goto(s, f)
    BY <1>7, <1>t, SameParts DEF FindNoCopy, Grows
  <2> QED BY <1>t, <1>p, <2>1, <2>2, GoesOn, TypeParts
<1> QED BY <1>1, <1>2, <1>3, <1>4, <1>5, <1>6, <1>7 DEF StaffStep

LEMMA RequestTypes ==
  ASSUME TypeOK, NEW s \in Staff, StaffRequest(s)
  PROVE  TypeOK'
<1>t. EnvOK /\ EventOK /\ MsgOK /\ ProcOK /\ CountsOK
  BY TypeParts
<1>p. s \in Processes /\ s \notin Workers
  BY ChatAssumption DEF Processes
<1>f. proc[s] \in Frame /\ FrameOK(s, proc[s])
  BY <1>t, <1>p, FrameFacts
<1>i. Idle \in Frame /\ FrameOK(s, Idle)
  BY <1>p, IdleTyped
<1>1. CASE ProviderAction(s)
  <2>1. PICK st \in Statuses : SetWahaStatus(st) /\ Goto(s, [Idle EXCEPT !.at = "apply", !.status = st])
    BY <1>1 DEF ProviderAction
  <2> DEFINE f == [Idle EXCEPT !.at = "apply", !.status = st]
  <2>2. f \in Frame /\ FrameOK(s, f)
    BY <1>p DEF Idle, Frame, FrameOK
  <2>3. EventOK' /\ MsgOK' /\ CountsOK' /\ Grows
    BY <1>1, <1>t, SameParts DEF ProviderAction, Grows
  <2>4. EnvOK'
    BY <1>t, <2>1, WahaStatusTyped
  <2> QED BY <1>t, <1>p, <2>1, <2>2, <2>3, <2>4, GoesOn, TypeParts
<1>2. CASE DeleteRemote(s)
  <2> DEFINE f == [Idle EXCEPT !.at = "delete"]
  <2>1. f \in Frame /\ FrameOK(s, f)
    BY <1>p DEF Idle, Frame, FrameOK
  <2>2. EventOK' /\ MsgOK' /\ CountsOK' /\ Grows /\ Goto(s, f)
    BY <1>2, <1>t, SameParts DEF DeleteRemote, Grows
  <2>3. EnvOK'
    BY <1>2, <1>t, ChatAssumption DEF DeleteRemote, EnvOK
  <2> QED BY <1>t, <1>p, <2>1, <2>2, <2>3, GoesOn, TypeParts
<1>3. CASE Start(s)
  <2> DEFINE f == IF conv.exists THEN Idle ELSE [Idle EXCEPT !.at = "activity"]
  <2>1. f \in Frame /\ FrameOK(s, f)
    BY <1>p DEF Idle, Frame, FrameOK
  <2>2. EnvOK' /\ EventOK' /\ MsgOK' /\ Grows /\ Goto(s, f)
    BY <1>3, <1>t, SameParts DEF Start, Grows
  <2>3. CountsOK'
    BY <1>3, <1>t DEF Start, Opened, CountsOK
  <2> QED BY <1>t, <1>p, <2>1, <2>2, <2>3, GoesOn, TypeParts
<1>4. CASE MarkRead(s)
  <2>1. MsgOK' /\ DOMAIN msg' = DOMAIN msg
    BY <1>4, <1>t, RowsSeen DEF MarkRead
  <2>2. EnvOK' /\ EventOK' /\ Grows /\ ProcOK'
    BY <1>4, <1>t, <2>1, SameParts, StaysPut DEF MarkRead, Grows
  <2>3. CountsOK'
    BY <1>4, <1>t DEF MarkRead, CountsOK
  <2> QED BY <2>1, <2>2, <2>3, TypeParts
<1>5. ASSUME NEW d \in Drafts, Send(s, d) PROVE TypeOK'
  <2> DEFINE m == [of |-> d, waha |-> None, out |-> TRUE,
                   status |-> "pending", unseen |-> FALSE]
             r == Len(msg) + 1
             f == [Idle EXCEPT !.at = "send", !.row = r, !.linked = conv.linked]
  <2>1. m \in MessageRow /\ m.waha = None /\ m.status # "deleted"
    BY DEF MessageRow, MessageStatuses
  <2>2. msg' = Append(msg, m)
    BY <1>5 DEF Send
  <2> HIDE DEF m
  <2>3. MsgOK' /\ DOMAIN msg' = DOMAIN msg \cup {r}
    BY <1>t, <2>1, <2>2, RowAdded
  <2>4. f \in Frame
    <3>1. conv.linked \in BOOLEAN /\ r \in Nat
      BY <1>t DEF CountsOK, MsgOK
    <3> HIDE DEF r
    <3> QED BY <3>1 DEF Idle, Frame
  <2>5. Goto(s, f)
    BY <1>5 DEF Send, Deliver
  <2>6. /\ proc' \in [Processes -> Frame] /\ proc'[s] = f
        /\ \A q \in Processes \ {s} : proc'[q] = proc[q]
    BY <1>t, <1>p, <2>4, <2>5, Moves
  <2>7. f.at = "send" /\ f.row = r /\ f.todo = {}
    BY DEF Idle
  <2> HIDE DEF f, r
  <2>8. UNCHANGED event
    BY <1>5 DEF Send
  <2>9. FrameOK(s, proc[s])'
    BY <1>p, <2>3, <2>6, <2>7, <2>8 DEF FrameOK
  <2>10. ASSUME NEW q \in Processes \ {s} PROVE FrameOK(q, proc[q])'
    BY <1>t, <2>3, <2>6, <2>8 DEF FrameOK, ProcOK
  <2>11. EventOK' /\ CountsOK'
    BY <1>5, <1>t, SameParts DEF Send
  <2>12. EnvOK'
    BY <1>5, <1>t DEF Send, EnvOK
  <2>13. ProcOK'
    BY <2>6, <2>9, <2>10 DEF ProcOK
  <2> QED BY <2>3, <2>11, <2>12, <2>13, TypeParts
<1>6. ASSUME NEW r \in DOMAIN msg, Retry(s, r) PROVE TypeOK'
  <2> DEFINE f == [Idle EXCEPT !.at = "send", !.row = r, !.linked = conv.linked]
  <2>1. MsgOK' /\ DOMAIN msg' = DOMAIN msg
    BY <1>6, <1>t, StatusUpdate DEF Retry, MessageStatuses
  <2>2. f \in Frame /\ FrameOK(s, f)
    <3>1. conv.linked \in BOOLEAN /\ r \in Nat
      BY <1>t DEF CountsOK, MsgOK
    <3> QED BY <1>p, <3>1 DEF Idle, Frame, FrameOK
  <2>3. EnvOK' /\ EventOK' /\ CountsOK' /\ Grows /\ Goto(s, f)
    BY <1>6, <1>t, <2>1, SameParts DEF Retry, Deliver, Grows
  <2> QED BY <1>t, <1>p, <2>1, <2>2, <2>3, GoesOn, TypeParts
<1> QED BY <1>1, <1>2, <1>3, <1>4, <1>5, <1>6 DEF StaffRequest

LEMMA TypeStep == TypeOK /\ [Next]_vars => TypeOK'
<1> SUFFICES ASSUME TypeOK, [Next]_vars PROVE TypeOK'
  OBVIOUS
<1>1. ASSUME NEW p \in Processes, Crash(p) PROVE TypeOK'
  <2>t. EnvOK /\ EventOK /\ MsgOK /\ ProcOK /\ CountsOK
    BY TypeParts
  <2>1. EventOK' /\ MsgOK' /\ CountsOK' /\ Grows /\ Goto(p, Idle)
    BY <1>1, <2>t, SameParts DEF Crash, Grows
  <2>2. EnvOK'
    BY <1>1, <2>t DEF Crash, EnvOK
  <2> QED BY <2>t, <2>1, <2>2, IdleTyped, GoesOn, TypeParts
<1>2. CASE UNCHANGED vars
  BY <1>2 DEF vars, TypeOK, FrameOK
<1> QED
  BY <1>1, <1>2, EnvironmentTypes, WorkerTypes, ObserverTypes, ActivityTypes,
     StaffTypes, RequestTypes DEF Next

LEMMA InitTypes == Init => TypeOK
<1> SUFFICES ASSUME Init PROVE TypeOK
  OBVIOUS
<1>1. left \in [active : SUBSET Processes, ids : SUBSET (WahaIds \cup Drafts),
                hooks : SUBSET Names, changes : 0..MaxChanges, faults : Nat]
  BY ChatAssumption DEF Init
<1> QED
  BY <1>1, IdleTyped, ChatAssumption DEF Init, TypeOK

(* Every process works on events, rows and ids that are there, and no WAHA *)
(* id has two rows, whoever stores, replaces and sends messages together.  *)
THEOREM ChatTypes == Spec => []TypeOK
<1> QED BY InitTypes, TypeStep, PTL DEF Spec, Safety
-----------------------------------------------------------------------------
(* Who writes what, and where processes go *)

NoticeWriter == \E p \in Workers \cup Reconcilers : NotifyDisconnected(p)

SessionWriter ==
  \/ \E p \in Workers \cup Reconcilers : ApplyObservedStatus(p)
  \/ \E s \in Staff : ApplyProviderInfo(s) \/ SoftDelete(s)

ConversationWriter ==
  \/ \E w \in Workers : CreateConversation(w) \/ RecordMessage(w)
  \/ \E p \in Workers \cup Staff : ClaimActivityDay(p)
  \/ \E s \in Staff : Start(s) \/ MarkRead(s)

CrmWriter ==
  \/ \E w \in Workers : CreateLead(w)
  \/ \E p \in Workers \cup Staff : RecordActivity(p)

RowWriter ==
  \/ \E w \in Workers : RecordMessage(w) \/ SetMessageStatus(w)
  \/ \E s \in Staff :
       \/ MarkMessageFailed(s) \/ ReplaceCopy(s) \/ UpdateSent(s) \/ MarkRead(s)
       \/ \E d \in Drafts : Send(s, d)
       \/ \E r \in DOMAIN msg : Retry(s, r)

IdWriter ==
  \/ \E x \in WahaIds : WriteOnPhone(x)
  \/ \E s \in Staff : WahaAccepts(s) \/ \E d \in Drafts : Send(s, d)

EventWriter ==
  \/ \E n \in Names : Receive(n) \/ WaitIsOver(n)
  \/ \E w \in Workers : ClaimDue(w) \/ MarkProcessed(w) \/ HandlerFails(w)
  \/ \E p \in Workers \cup Reconcilers : ObservedTooLate(p)

(* Each variable has few writers. *)
LEMMA Writers ==
  ASSUME TypeOK, [Next]_vars
  PROVE  /\ UNCHANGED notices \/ NoticeWriter
         /\ UNCHANGED <<session, drops>> \/ SessionWriter
         /\ UNCHANGED conv \/ ConversationWriter
         /\ UNCHANGED crm \/ CrmWriter
         /\ UNCHANGED msg \/ RowWriter
         /\ left'.ids = left.ids \/ IdWriter
         /\ UNCHANGED event \/ EventWriter
<1>1. CASE \E x \in WahaIds : WriteOnPhone(x)
  BY <1>1 DEF WriteOnPhone, IdWriter
<1>2. CASE WahaChanges
  BY <1>2 DEF WahaChanges, SetWahaStatus
<1>3. CASE \E n \in Names : Receive(n) \/ WaitIsOver(n)
  BY <1>3 DEF Receive, WaitIsOver, EventWriter
<1>4. ASSUME NEW w \in Workers, WorkerStep(w) \/ HandlerFails(w)
      PROVE  /\ UNCHANGED <<notices, session, drops>>
             /\ UNCHANGED conv \/ ConversationWriter
             /\ UNCHANGED crm \/ CrmWriter
             /\ UNCHANGED msg \/ RowWriter
             /\ left'.ids = left.ids
             /\ UNCHANGED event \/ EventWriter
  <2>1. ASSUME NEW n \in Names, Begin(w, n)
        PROVE  UNCHANGED <<waha, event, session, conv, msg, crm, notices, drops, left>>
    BY <2>1 DEF Begin
  <2>2. CASE ClaimDue(w)
    BY <2>2 DEF ClaimDue, EventWriter
  <2>3. CASE MatchPhone(w) \/ CreateLead(w) \/ CreateConversation(w)
    BY <2>3 DEF MatchPhone, CreateLead, CreateConversation, CrmWriter, ConversationWriter
  <2>4. CASE RecordMessage(w) \/ SetMessageStatus(w)
    <3>1. ConversationWriter \/ SetMessageStatus(w)
      BY <2>4 DEF ConversationWriter
    <3>2. RowWriter
      BY <2>4 DEF RowWriter
    <3>3. UNCHANGED <<event, session, crm, notices, drops, left>>
      BY <2>4 DEF RecordMessage, SetMessageStatus
    <3>4. SetMessageStatus(w) => UNCHANGED conv
      BY DEF SetMessageStatus
    <3> QED BY <3>1, <3>2, <3>3, <3>4
  <2>5. CASE MarkProcessed(w) \/ HandlerFails(w)
    <3>1. EventWriter
      BY <2>5 DEF EventWriter
    <3>2. left'.ids = left.ids
      BY <2>5 DEF MarkProcessed, HandlerFails, TypeOK
    <3>3. UNCHANGED <<session, conv, msg, crm, notices, drops>>
      BY <2>5 DEF MarkProcessed, HandlerFails
    <3> QED BY <3>1, <3>2, <3>3
  <2> QED BY <1>4, <2>1, <2>2, <2>3, <2>4, <2>5 DEF WorkerStep
<1>5. CASE \E r \in Reconcilers : GetSession(r)
  BY <1>5 DEF GetSession
<1>6. CASE \E p \in Workers \cup Reconcilers : ObserverStep(p)
  BY <1>6 DEF ObserverStep, ApplyObservedStatus, ObservedTooLate, NotifyDisconnected,
              SessionWriter, NoticeWriter, EventWriter
<1>7. CASE \E p \in Workers \cup Staff : ActivityStep(p)
  BY <1>7 DEF ActivityStep, ClaimActivityDay, RecordActivity, ConversationWriter, CrmWriter
<1>8. ASSUME NEW s \in Staff, StaffStep(s)
      PROVE  /\ UNCHANGED <<notices, conv, crm, event>>
             /\ UNCHANGED <<session, drops>> \/ SessionWriter
             /\ UNCHANGED msg \/ RowWriter
             /\ left'.ids = left.ids \/ IdWriter
  <2>1. CASE ApplyProviderInfo(s) \/ SoftDelete(s)
    BY <2>1 DEF ApplyProviderInfo, SoftDelete, SessionWriter
  <2>2. CASE WahaAccepts(s) \/ WahaRefuses(s) \/ FindNoCopy(s)
    BY <2>2 DEF WahaAccepts, WahaRefuses, FindNoCopy, IdWriter
  <2>3. CASE MarkMessageFailed(s) \/ ReplaceCopy(s) \/ UpdateSent(s)
    BY <2>3 DEF MarkMessageFailed, ReplaceCopy, UpdateSent, RowWriter
  <2> QED BY <1>8, <2>1, <2>2, <2>3 DEF StaffStep
<1>9. ASSUME NEW s \in Staff, StaffRequest(s)
      PROVE  /\ UNCHANGED <<notices, session, drops, crm, event>>
             /\ UNCHANGED conv \/ ConversationWriter
             /\ UNCHANGED msg \/ RowWriter
             /\ left'.ids = left.ids \/ IdWriter
  <2>1. CASE ProviderAction(s) \/ DeleteRemote(s)
    <3>1. left'.ids = left.ids
      BY <2>1 DEF ProviderAction, DeleteRemote, SetWahaStatus, TypeOK
    <3>2. UNCHANGED <<event, session, conv, msg, crm, notices, drops>>
      BY <2>1 DEF ProviderAction, DeleteRemote
    <3> QED BY <3>1, <3>2
  <2>2. CASE Start(s) \/ MarkRead(s)
    BY <2>2 DEF Start, MarkRead, ConversationWriter, RowWriter
  <2>3. CASE \/ \E d \in Drafts : Send(s, d)
             \/ \E r \in DOMAIN msg : Retry(s, r)
    <3>1. RowWriter
      BY <2>3 DEF RowWriter
    <3>2. CASE \E d \in Drafts : Send(s, d)
      BY <3>1, <3>2 DEF Send, IdWriter
    <3>3. CASE \E r \in DOMAIN msg : Retry(s, r)
      BY <3>1, <3>3 DEF Retry
    <3> QED BY <2>3, <3>2, <3>3
  <2> QED BY <1>9, <2>1, <2>2, <2>3 DEF StaffRequest
<1>10. CASE \E p \in Processes : Crash(p)
  BY <1>10 DEF Crash
<1>11. CASE UNCHANGED vars
  BY <1>11 DEF vars
<1> QED
  BY <1>1, <1>2, <1>3, <1>4, <1>5, <1>6, <1>7, <1>8, <1>9, <1>10, <1>11 DEF Next

(* A message event, other than the one that names the API as its source.   *)
Message(n) == n.kind = "message" /\ ~(n.id \in Api /\ n.copy = 1)

(* A worker's event has been handled, up to its activity and its mark, or  *)
(* it was not about a message.                                             *)
Handled == {"activity", "crm", "mark", "observed", "notify"}

(* What the frame of p, when it changes, has come from. *)
Goes(p) ==
  LET f == proc'[p] IN
  /\ f.at = "notify" =>
       ApplyObservedStatus(p) /\ IsDisconnect(session.status, proc[p].status)
  /\ f.at = "crm" => ClaimActivityDay(p) /\ ~conv.day
  /\ f.at = "ack" => CanTransitionTo(f.from, StatusFromAck(f.event.ack))
  /\ p \in Workers /\ f.at \in Handled /\ Message(f.event) /\ ~session.deleted =>
       f.event = proc[p].event /\ (proc[p].at \in Handled \/ RecordMessage(p))
  /\ f.at = "send" => (\E d \in Drafts : Send(p, d)) \/ Retry(p, f.row)
  /\ f.at \in {"refused", "accepted", "update"} =>
       proc[p].at \in Sending /\ f.row = proc[p].row /\ UNCHANGED msg
  /\ f.at = "accepted" => f.id \in left.ids \ left'.ids
  /\ f.at = "update" => proc[p].at = "accepted" /\ f.id = proc[p].id

Moved(p) == (\A q \in Processes \ {p} : proc'[q] = proc[q]) /\ Goes(p)

LEMMA NextFrame ==
  ASSUME ProcOK, NEW p \in Processes, NEW f, Goto(p, f)
  PROVE  proc'[p] = f /\ \A q \in Processes \ {p} : proc'[q] = proc[q]
BY DEF ProcOK, Goto

(* Most steps lead to a frame of which nothing is asked. *)
LEMMA QuietMove ==
  ASSUME ProcOK, NEW p \in Processes, NEW f, Goto(p, f),
         f.at \in {"idle", "batch", "match", "lead", "create", "record", "apply", "delete"}
  PROVE  Moved(p)
BY NextFrame DEF Moved, Goes, Handled

LEMMA ReturnedMoves ==
  ASSUME ProcOK, NEW p \in Processes, Goto(p, Returned(p)),
         proc[p].at \notin {"idle", "batch"},
         p \in Workers => proc[p].at \in Handled \/ RecordMessage(p) \/ ~Message(proc[p].event)
  PROVE  Moved(p)
<1>1. /\ Returned(p).at = IF p \in Workers THEN "mark" ELSE "idle"
      /\ p \in Workers => Returned(p).event = proc[p].event
  BY ReturnedTyped
<1>2. proc'[p] = Returned(p) /\ \A q \in Processes \ {p} : proc'[q] = proc[q]
  BY NextFrame
<1> QED
  BY <1>1, <1>2 DEF Moved, Goes, Handled

LEMMA WithActivityMoves ==
  ASSUME ProcOK, NEW p \in Processes, Goto(p, WithActivity(p)),
         proc[p].at \notin {"idle", "batch"}, p \in Workers => RecordMessage(p)
  PROVE  Moved(p)
<1>1. /\ WithActivity(p).at \in {"activity", "mark", "idle"}
      /\ p \in Workers => WithActivity(p).event = proc[p].event
  BY WithActivityTyped
<1>2. proc'[p] = WithActivity(p) /\ \A q \in Processes \ {p} : proc'[q] = proc[q]
  BY NextFrame
<1> QED
  BY <1>1, <1>2 DEF Moved, Goes, Handled

LEMMA BeginMoves ==
  ASSUME TypeOK, NEW w \in Workers, NEW n \in Names, Begin(w, n)
  PROVE  Moved(w)
<1>t. EventOK /\ MsgOK /\ ProcOK
  BY TypeParts
<1>p. w \in Processes /\ n \in proc[w].todo
  BY DEF Processes, Begin
<1> DEFINE H(at) == Handle(w, n, at)
<1>h. \A at \in Frames : H(at) \in Frame /\ H(at).at = at /\ H(at).event = n
  BY <1>t, <1>p, HandleTyped
<1>m. ASSUME session.deleted \/ ~Message(n), Goto(w, H("mark")) PROVE Moved(w)
  <2>1. proc'[w] = H("mark") /\ \A q \in Processes \ {w} : proc'[q] = proc[q]
    BY <1>t, <1>p, <1>m, NextFrame
  <2>2. H("mark").at = "mark" /\ H("mark").event = n
    BY <1>h
  <2> HIDE DEF H
  <2> QED BY <1>m, <2>1, <2>2 DEF Moved, Goes
<1>1. CASE session.deleted
  BY <1>1, <1>m DEF Begin
<1>2. CASE ~session.deleted /\ n.kind = "status"
  <2> DEFINE f == [H("observed") EXCEPT !.status = n.status]
  <2>1. Goto(w, f)
    BY <1>2 DEF Begin
  <2>2. f.at = "observed" /\ f.event = n /\ ~Message(n)
    BY <1>2, <1>h DEF Frame, Message
  <2> HIDE DEF f, H
  <2>3. proc'[w] = f /\ \A q \in Processes \ {w} : proc'[q] = proc[q]
    BY <1>t, <1>p, <2>1, NextFrame
  <2> QED BY <2>2, <2>3 DEF Moved, Goes
<1>3. CASE ~session.deleted /\ n.kind = "message" /\ n.id \in Api /\ n.copy = 1
  BY <1>3, <1>m DEF Begin, Message
<1>4. CASE ~session.deleted /\ n.kind = "message" /\ ~(n.id \in Api /\ n.copy = 1)
  <2> DEFINE f == IF conv.exists THEN [H("record") EXCEPT !.linked = conv.linked]
                  ELSE H("match")
  <2>1. Goto(w, f)
    BY <1>4 DEF Begin
  <2>2. f.at \in {"record", "match"}
    BY <1>h DEF Frame
  <2> HIDE DEF f
  <2> QED BY <1>t, <1>p, <2>1, <2>2, QuietMove
<1>5. CASE ~session.deleted /\ n.kind = "ack"
  <2>1. CASE \E r \in RowsOf(n.id) : CanTransitionTo(msg[r].status, StatusFromAck(n.ack))
    <3> DEFINE r == CHOOSE r \in RowsOf(n.id) : TRUE
               f == [H("ack") EXCEPT !.row = r, !.from = msg[r].status]
    <3>1. Goto(w, f)
      BY <1>5, <2>1 DEF Begin
    <3>2. PICK q \in DOMAIN msg :
            msg[q].waha = n.id /\ CanTransitionTo(msg[q].status, StatusFromAck(n.ack))
      BY <2>1 DEF RowsOf
    <3>3. r \in DOMAIN msg /\ msg[r].waha = n.id /\ n.id # None
      BY <1>5, <2>1, NameKinds, ChatAssumption DEF RowsOf
    <3>4. q = r
      BY <1>t, <3>2, <3>3 DEF MsgOK
    <3> HIDE DEF r
    <3>5. f.at = "ack" /\ f.event = n /\ f.from = msg[r].status
      BY <1>h DEF Frame
    <3> HIDE DEF f, H
    <3>6. proc'[w] = f /\ \A t \in Processes \ {w} : proc'[t] = proc[t]
      BY <1>t, <1>p, <3>1, NextFrame
    <3> QED BY <3>2, <3>4, <3>5, <3>6 DEF Moved, Goes, Handled
  <2>2. CASE ~\E r \in RowsOf(n.id) : CanTransitionTo(msg[r].status, StatusFromAck(n.ack))
    BY <1>5, <1>m, <2>2 DEF Begin, Message
  <2> QED BY <2>1, <2>2
<1> QED
  BY <1>1, <1>2, <1>3, <1>4, <1>5, NameKinds

(* One process at a time moves, and none goes where it has no business. *)
LEMMA FrameSteps ==
  ASSUME TypeOK, [Next]_vars
  PROVE  UNCHANGED proc \/ \E p \in Processes : Moved(p)
<1>t. EnvOK /\ MsgOK /\ ProcOK
  BY TypeParts
<1>i. Idle.at = "idle"
  BY DEF Idle
<1>1. CASE \/ \E x \in WahaIds : WriteOnPhone(x)
           \/ WahaChanges
           \/ \E n \in Names : Receive(n) \/ WaitIsOver(n)
  BY <1>1 DEF WriteOnPhone, WahaChanges, Receive, WaitIsOver
<1>2. ASSUME NEW w \in Workers, WorkerStep(w) \/ HandlerFails(w) PROVE Moved(w)
  <2>p. w \in Processes
    BY DEF Processes
  <2>f. proc[w] \in Frame /\ FrameOK(w, proc[w])
    BY <1>t, <2>p, FrameFacts
  <2>1. CASE ClaimDue(w)
    <3>1. [Idle EXCEPT !.at = "batch", !.todo = Due].at = "batch"
      BY DEF Idle
    <3> QED BY <1>t, <2>p, <2>1, <3>1, QuietMove DEF ClaimDue
  <2>2. ASSUME NEW n \in Names, Begin(w, n) PROVE Moved(w)
    BY <2>2, BeginMoves
  <2>3. CASE MatchPhone(w) \/ CreateLead(w) \/ CreateConversation(w)
    <3> DEFINE To(at, linked) == [proc[w] EXCEPT !.at = at, !.linked = linked]
    <3>1. /\ \A at, linked : To(at, linked).at = at
          /\ [proc[w] EXCEPT !.at = "lead"].at = "lead"
      BY <2>f DEF Frame
    <3>2. \/ \E at \in {"create", "record"} : \E linked : Goto(w, To(at, linked))
          \/ Goto(w, [proc[w] EXCEPT !.at = "lead"])
      BY <2>3 DEF MatchPhone, CreateLead, CreateConversation
    <3> HIDE DEF To
    <3> QED BY <1>t, <2>p, <3>1, <3>2, QuietMove
  <2>4. CASE RecordMessage(w)
    <3>1. proc[w].at = "record" /\ (Goto(w, WithActivity(w)) \/ Goto(w, Returned(w)))
      BY <2>4 DEF RecordMessage
    <3> QED BY <1>t, <2>p, <2>4, <3>1, WithActivityMoves, ReturnedMoves
  <2>5. CASE SetMessageStatus(w)
    <3>1. proc[w].at = "ack" /\ Goto(w, Returned(w)) /\ ~Message(proc[w].event)
      BY <2>5, <2>f DEF SetMessageStatus, FrameOK, Message
    <3> QED BY <1>t, <2>p, <3>1, ReturnedMoves
  <2>6. CASE MarkProcessed(w) \/ HandlerFails(w)
    <3>1. Goto(w, NextOf(w)) /\ NextOf(w).at \in {"batch", "idle"}
      BY <1>t, <2>p, <2>6, NextOfTyped DEF MarkProcessed, HandlerFails, MarkFailed
    <3> QED BY <1>t, <2>p, <3>1, QuietMove
  <2> QED BY <1>2, <2>1, <2>2, <2>3, <2>4, <2>5, <2>6 DEF WorkerStep
<1>3. ASSUME NEW p \in Workers \cup Reconcilers,
             (p \in Reconcilers /\ GetSession(p)) \/ ObserverStep(p)
      PROVE  Moved(p)
  <2>p. p \in Processes
    BY DEF Processes
  <2>1. CASE p \in Reconcilers /\ GetSession(p)
    <3> DEFINE f == [Idle EXCEPT !.at = "observed", !.status = waha.status]
    <3>1. p \notin Workers /\ Goto(p, f) /\ f.at = "observed"
      BY <2>1, ChatAssumption DEF GetSession, Idle
    <3> HIDE DEF f
    <3>2. proc'[p] = f /\ \A q \in Processes \ {p} : proc'[q] = proc[q]
      BY <1>t, <2>p, <3>1, NextFrame
    <3> QED BY <3>1, <3>2 DEF Moved, Goes
  <2>2. CASE ApplyObservedStatus(p)
    <3>1. proc[p].at = "observed"
      BY <2>2 DEF ApplyObservedStatus
    <3>2. CASE ~IsDisconnect(session.status, proc[p].status)
      <4>1. Goto(p, Returned(p))
        BY <2>2, <3>2 DEF ApplyObservedStatus
      <4> QED BY <1>t, <2>p, <3>1, <4>1, ReturnedMoves DEF Handled
    <3>3. CASE IsDisconnect(session.status, proc[p].status)
      <4> DEFINE f == [Returned(p) EXCEPT !.at = "notify"]
      <4>1. Goto(p, f)
        BY <2>2, <3>3 DEF ApplyObservedStatus
      <4>2. Returned(p) \in Frame /\ (p \in Workers => Returned(p).event = proc[p].event)
        BY <1>t, <2>p, <3>1, ReturnedTyped
      <4>3. f.at = "notify" /\ f.event = Returned(p).event
        BY <4>2 DEF Frame
      <4> HIDE DEF f
      <4>4. proc'[p] = f /\ \A q \in Processes \ {p} : proc'[q] = proc[q]
        BY <1>t, <2>p, <4>1, NextFrame
      <4> QED BY <2>2, <3>1, <3>3, <4>2, <4>3, <4>4 DEF Moved, Goes, Handled
    <3> QED BY <3>2, <3>3
  <2>3. CASE ObservedTooLate(p)
    <3>1. PICK f : Goto(p, f) /\ f.at \in {"batch", "idle"}
      BY <1>t, <1>i, <2>p, <2>3, NextOfTyped DEF ObservedTooLate, MarkFailed
    <3> QED BY <1>t, <2>p, <3>1, QuietMove
  <2>4. CASE NotifyDisconnected(p)
    <3>1. proc[p].at = "notify" /\ Goto(p, Returned(p))
      BY <2>4 DEF NotifyDisconnected
    <3> QED BY <1>t, <2>p, <3>1, ReturnedMoves DEF Handled
  <2> QED BY <1>3, <2>1, <2>2, <2>3, <2>4 DEF ObserverStep
<1>4. ASSUME NEW p \in Workers \cup Staff, ActivityStep(p) PROVE Moved(p)
  <2>p. p \in Processes /\ proc[p] \in Frame
    BY <1>t, FrameFacts DEF Processes
  <2>1. CASE proc[p].at \in {"activity", "crm"} /\ Goto(p, Returned(p))
    BY <1>t, <2>p, <2>1, ReturnedMoves DEF Handled
  <2>2. CASE ClaimActivityDay(p) /\ ~conv.day
    <3> DEFINE f == [proc[p] EXCEPT !.at = "crm"]
    <3>1. Goto(p, f) /\ proc[p].at = "activity"
      BY <2>2 DEF ClaimActivityDay
    <3>2. f.at = "crm" /\ f.event = proc[p].event
      BY <2>p DEF Frame
    <3> HIDE DEF f
    <3>3. proc'[p] = f /\ \A q \in Processes \ {p} : proc'[q] = proc[q]
      BY <1>t, <2>p, <3>1, NextFrame
    <3> QED BY <2>2, <3>1, <3>2, <3>3 DEF Moved, Goes, Handled
  <2> QED BY <1>4, <2>1, <2>2 DEF ActivityStep, ClaimActivityDay, RecordActivity
<1>5. ASSUME NEW s \in Staff, StaffStep(s) PROVE Moved(s)
  <2>p. s \in Processes /\ s \notin Workers /\ proc[s] \in Frame
    BY <1>t, FrameFacts, ChatAssumption DEF Processes
  <2>1. CASE Goto(s, Idle)
    BY <1>t, <1>i, <2>p, <2>1, QuietMove
  <2>2. CASE proc[s].at \in Sending /\ Goto(s, WithActivity(s))
    BY <1>t, <2>p, <2>2, WithActivityMoves
  <2>3. CASE /\ proc[s].at = "send" /\ UNCHANGED msg
             /\ Goto(s, [Idle EXCEPT !.at = "refused", !.row = proc[s].row])
    <3> DEFINE f == [Idle EXCEPT !.at = "refused", !.row = proc[s].row]
    <3>1. Goto(s, f) /\ f.at = "refused" /\ f.row = proc[s].row
      BY <2>3 DEF Idle
    <3> HIDE DEF f
    <3>2. proc'[s] = f /\ \A q \in Processes \ {s} : proc'[q] = proc[q]
      BY <1>t, <2>p, <3>1, NextFrame
    <3> QED BY <2>p, <2>3, <3>1, <3>2 DEF Moved, Goes
  <2>4. ASSUME NEW x \in left.ids, proc[s].at = "send", UNCHANGED msg,
               left' = [left EXCEPT !.ids = @ \ {x}],
               Goto(s, [proc[s] EXCEPT !.at = "accepted", !.id = x])
        PROVE  Moved(s)
    <3> DEFINE f == [proc[s] EXCEPT !.at = "accepted", !.id = x]
    <3>1. Goto(s, f) /\ f.at = "accepted" /\ f.row = proc[s].row /\ f.id = x
      BY <2>p, <2>4 DEF Frame
    <3>2. x \notin left'.ids
      BY <1>t, <2>4 DEF EnvOK
    <3> HIDE DEF f
    <3>3. proc'[s] = f /\ \A q \in Processes \ {s} : proc'[q] = proc[q]
      BY <1>t, <2>p, <3>1, NextFrame
    <3> QED BY <2>p, <2>4, <3>1, <3>2, <3>3 DEF Moved, Goes
  <2>5. CASE FindNoCopy(s)
    <3> DEFINE f == [proc[s] EXCEPT !.at = "update"]
    <3>1. /\ Goto(s, f) /\ proc[s].at = "accepted" /\ UNCHANGED msg
          /\ f.at = "update" /\ f.row = proc[s].row /\ f.id = proc[s].id
      BY <2>p, <2>5 DEF FindNoCopy, Frame
    <3> HIDE DEF f
    <3>2. proc'[s] = f /\ \A q \in Processes \ {s} : proc'[q] = proc[q]
      BY <1>t, <2>p, <3>1, NextFrame
    <3> QED BY <2>p, <3>1, <3>2 DEF Moved, Goes
  <2>6. CASE WahaAccepts(s)
    BY <2>3, <2>4, <2>6 DEF WahaAccepts
  <2>7. CASE ApplyProviderInfo(s) \/ SoftDelete(s) \/ MarkMessageFailed(s)
    BY <2>1, <2>7 DEF ApplyProviderInfo, SoftDelete, MarkMessageFailed
  <2>8. CASE WahaRefuses(s)
    BY <2>3, <2>8 DEF WahaRefuses
  <2>9. CASE ReplaceCopy(s) \/ UpdateSent(s)
    BY <2>1, <2>2, <2>9 DEF ReplaceCopy, UpdateSent
  <2> QED BY <1>5, <2>5, <2>6, <2>7, <2>8, <2>9 DEF StaffStep
<1>6. ASSUME NEW s \in Staff, StaffRequest(s) PROVE UNCHANGED proc \/ Moved(s)
  <2>p. s \in Processes /\ s \notin Workers
    BY ChatAssumption DEF Processes
  <2>1. ASSUME NEW r, Deliver(s, r), (\E d \in Drafts : Send(s, d)) \/ Retry(s, r)
        PROVE  Moved(s)
    <3> DEFINE f == [Idle EXCEPT !.at = "send", !.row = r, !.linked = conv.linked]
    <3>1. Goto(s, f) /\ f.at = "send" /\ f.row = r
      BY <2>1 DEF Deliver, Idle
    <3> HIDE DEF f
    <3>2. proc'[s] = f /\ \A q \in Processes \ {s} : proc'[q] = proc[q]
      BY <1>t, <2>p, <3>1, NextFrame
    <3> QED BY <2>p, <2>1, <3>1, <3>2 DEF Moved, Goes
  <2>2. ASSUME NEW d \in Drafts, Send(s, d) PROVE Moved(s)
    BY <2>1, <2>2 DEF Send
  <2>3. ASSUME NEW r \in DOMAIN msg, Retry(s, r) PROVE Moved(s)
    BY <2>1, <2>3 DEF Retry
  <2>4. CASE ProviderAction(s) \/ DeleteRemote(s)
    <3> DEFINE Apply(st) == [Idle EXCEPT !.at = "apply", !.status = st]
    <3>1. (\A st : Apply(st).at = "apply") /\ [Idle EXCEPT !.at = "delete"].at = "delete"
      BY DEF Idle
    <3>2. (\E st : Goto(s, Apply(st))) \/ Goto(s, [Idle EXCEPT !.at = "delete"])
      BY <2>4 DEF ProviderAction, DeleteRemote
    <3> HIDE DEF Apply
    <3> QED BY <1>t, <2>p, <3>1, <3>2, QuietMove
  <2>5. CASE Start(s)
    <3> DEFINE f == IF conv.exists THEN Idle ELSE [Idle EXCEPT !.at = "activity"]
    <3>1. Goto(s, f) /\ f.at \in {"idle", "activity"}
      BY <2>5 DEF Start, Idle
    <3> HIDE DEF f
    <3>2. proc'[s] = f /\ \A q \in Processes \ {s} : proc'[q] = proc[q]
      BY <1>t, <2>p, <3>1, NextFrame
    <3> QED BY <2>p, <3>1, <3>2 DEF Moved, Goes
  <2>6. CASE MarkRead(s)
    BY <2>6 DEF MarkRead
  <2> QED BY <1>6, <2>2, <2>3, <2>4, <2>5, <2>6 DEF StaffRequest
<1>7. ASSUME NEW p \in Processes, Crash(p) PROVE Moved(p)
  BY <1>t, <1>i, <1>7, QuietMove DEF Crash
<1>8. CASE UNCHANGED vars
  BY <1>8 DEF vars
<1> QED
  BY <1>1, <1>2, <1>3, <1>4, <1>5, <1>6, <1>7, <1>8 DEF Next, Processes

(* An ack, a failed send or a retry gives the row r the status st. *)
StatusStep(r, st) ==
  /\ msg' = [msg EXCEPT ![r].status = st]
  /\ msg[r].status # "deleted"
  /\ \/ \E w \in Workers :
          /\ SetMessageStatus(w) /\ proc[w].at = "ack"
          /\ msg[r].status = proc[w].from /\ st = StatusFromAck(proc[w].event.ack)
     \/ \E s \in Staff :
          MarkMessageFailed(s) /\ proc[s].at = "refused" /\ r = proc[s].row /\ st = "failed"
     \/ \E s \in Staff : Retry(s, r) /\ st = "pending"

(* A send is confirmed and its copy deleted. *)
ConfirmStep(s) ==
  /\ proc[s].at \in {"accepted", "update"} /\ proc'[s].at \notin Sending
  /\ proc[s].row \in Rows /\ proc[s].id \in Api
  /\ Confirm(proc[s].row, proc[s].id)
  /\ UNCHANGED <<conv, left>>

LEMMA RowSteps ==
  ASSUME TypeOK, [Next]_vars
  PROVE  \/ UNCHANGED msg
         \/ \E w \in Workers : RecordMessage(w) /\ RowsOf(proc[w].event.id) = {}
         \/ \E s \in Staff : \E d \in Drafts : Send(s, d)
         \/ \E r \in DOMAIN msg : \E st \in MessageStatuses : StatusStep(r, st)
         \/ \E s \in Staff : ConfirmStep(s)
         \/ \E s \in Staff : MarkRead(s)
<1>t. MsgOK /\ ProcOK
  BY TypeParts
<1>1. CASE \E w \in Workers : RecordMessage(w)
  <2>1. PICK w \in Workers : RecordMessage(w)
    BY <1>1
  <2> QED BY <2>1 DEF RecordMessage
<1>2. ASSUME NEW w \in Workers, SetMessageStatus(w)
      PROVE  UNCHANGED msg \/ \E r \in DOMAIN msg : \E st \in MessageStatuses : StatusStep(r, st)
  <2>1. PICK r : r = proc[w].row
    OBVIOUS
  <2>2. PICK st : st = StatusFromAck(proc[w].event.ack)
    OBVIOUS
  <2>3. r \in DOMAIN msg /\ st \in MessageStatuses /\ proc[w].from \in MessageStatuses
    BY <1>t, <1>2, <2>1, <2>2, StatusFromAckTyped, FrameFacts
       DEF SetMessageStatus, FrameOK, Processes
  <2>4. msg' = IF msg[r].status = proc[w].from THEN [msg EXCEPT ![r].status = st] ELSE msg
    BY <1>2, <2>1, <2>2 DEF SetMessageStatus
  <2>5. CASE msg[r].status = proc[w].from
    <3>1. proc[w].at = "ack" /\ msg[r].status # "deleted"
      BY <1>2, <2>3, <2>5 DEF SetMessageStatus, MessageStatuses
    <3>2. StatusStep(r, st)
      BY <1>2, <2>2, <2>4, <2>5, <3>1 DEF StatusStep
    <3> QED BY <2>3, <3>2
  <2> QED BY <2>4, <2>5
<1>3. ASSUME NEW s \in Staff, MarkMessageFailed(s)
      PROVE  UNCHANGED msg \/ \E r \in DOMAIN msg : \E st \in MessageStatuses : StatusStep(r, st)
  <2>1. PICK r : r = proc[s].row
    OBVIOUS
  <2>2. CASE r \in Rows
    <3>1. r \in DOMAIN msg /\ msg[r].status # "deleted" /\ "failed" \in MessageStatuses
      BY <2>2 DEF Rows, MessageStatuses
    <3>2. msg' = [msg EXCEPT ![r].status = "failed"] /\ proc[s].at = "refused"
      BY <1>3, <2>1, <2>2 DEF MarkMessageFailed
    <3>3. StatusStep(r, "failed")
      BY <1>3, <2>1, <3>1, <3>2 DEF StatusStep
    <3> QED BY <3>1, <3>3
  <2> QED BY <1>3, <2>1, <2>2 DEF MarkMessageFailed
<1>4. ASSUME NEW s \in Staff, NEW r \in DOMAIN msg, Retry(s, r)
      PROVE  \E q \in DOMAIN msg : \E st \in MessageStatuses : StatusStep(q, st)
  <2>1. msg[r].status = "failed" /\ msg' = [msg EXCEPT ![r].status = "pending"]
    BY <1>4 DEF Retry
  <2>2. StatusStep(r, "pending") /\ "pending" \in MessageStatuses
    BY <1>4, <2>1 DEF StatusStep, MessageStatuses
  <2> QED BY <2>2
<1>5. ASSUME NEW s \in Staff, ReplaceCopy(s) \/ UpdateSent(s)
      PROVE  UNCHANGED msg \/ ConfirmStep(s)
  <2>p. s \in Processes /\ s \notin Workers
    BY ChatAssumption DEF Processes
  <2>1. CASE UNCHANGED msg
    BY <2>1
  <2>2. CASE ~UNCHANGED msg
    <3>1. /\ proc[s].at \in {"accepted", "update"} /\ proc[s].row \in Rows
          /\ Confirm(proc[s].row, proc[s].id)
          /\ Goto(s, WithActivity(s)) /\ UNCHANGED <<conv, left>>
      BY <1>5, <2>2 DEF ReplaceCopy, UpdateSent
    <3>2. WithActivity(s).at \in {"activity", "mark", "idle"}
      BY <1>t, <2>p, <3>1, WithActivityTyped
    <3>3. proc'[s] = WithActivity(s)
      BY <1>t, <2>p, <3>1, NextFrame
    <3>4. proc[s].id \in Api
      BY <1>t, <2>p, <3>1, FrameFacts DEF FrameOK
    <3> QED BY <3>1, <3>2, <3>3, <3>4 DEF ConfirmStep
  <2> QED BY <2>1, <2>2
<1> QED
  BY <1>1, <1>2, <1>3, <1>4, <1>5, Writers DEF RowWriter

(* What the row of a draft is. *)
LEMMA DraftAdded ==
  ASSUME TypeOK, NEW s \in Staff, NEW d \in Drafts, Send(s, d)
  PROVE  /\ DOMAIN msg' = DOMAIN msg \cup {Len(msg) + 1}
         /\ Len(msg) + 1 \notin DOMAIN msg
         /\ msg'[Len(msg) + 1].of = d
         /\ msg'[Len(msg) + 1].waha = None
         /\ msg'[Len(msg) + 1].out
         /\ msg'[Len(msg) + 1].status = "pending"
         /\ ~msg'[Len(msg) + 1].unseen
         /\ \A q \in DOMAIN msg : msg'[q] = msg[q]
<1> DEFINE m == [of |-> d, waha |-> None, out |-> TRUE, status |-> "pending", unseen |-> FALSE]
<1>1. m \in MessageRow /\ m.waha = None /\ m.status # "deleted"
  BY DEF MessageRow, MessageStatuses
<1>2. msg' = Append(msg, m)
  BY DEF Send
<1> HIDE DEF m
<1>3. MsgOK
  BY TypeParts
<1> QED
  BY <1>1, <1>2, <1>3, RowAdded DEF m

(* What the row of a message event is. *)
LEMMA MessageAdded ==
  ASSUME TypeOK, NEW w \in Workers, RecordMessage(w), RowsOf(proc[w].event.id) = {}
  PROVE  /\ DOMAIN msg' = DOMAIN msg \cup {Len(msg) + 1}
         /\ Len(msg) + 1 \notin DOMAIN msg
         /\ msg'[Len(msg) + 1] = RowOf(proc[w].event)
         /\ \A q \in DOMAIN msg : msg'[q] = msg[q]
         /\ proc[w].event.id \in WahaIds
<1>1. MsgOK /\ ProcOK /\ EventOK
  BY TypeParts
<1>2. msg' = Append(msg, RowOf(proc[w].event))
  BY DEF RecordMessage
<1>3. proc[w].event \in Names /\ proc[w].event.kind = "message"
  BY <1>1, FrameFacts DEF RecordMessage, FrameOK, EventOK, Processes
<1>4. proc[w].event.id \in WahaIds
  BY <1>3, NameKinds
<1>5. /\ RowOf(proc[w].event) \in MessageRow
      /\ RowOf(proc[w].event).waha = proc[w].event.id
      /\ RowOf(proc[w].event).status # "deleted"
  <2>1. StatusFromAck(proc[w].event.ack) \in MessageStatuses
    BY StatusFromAckTyped
  <2> QED BY <1>4, <2>1 DEF RowOf, MessageRow, MessageStatuses
<1> QED
  BY <1>1, <1>2, <1>4, <1>5, RowAdded

(* What a row is of, and whether it is sent or received, stays. *)
LEMMA RowsKeepTheirs ==
  ASSUME TypeOK, [Next]_vars
  PROVE  /\ DOMAIN msg \subseteq DOMAIN msg'
         /\ \A r \in DOMAIN msg : msg'[r].of = msg[r].of /\ msg'[r].out = msg[r].out
<1>t. MsgOK
  BY TypeParts
<1>1. CASE \E w \in Workers : RecordMessage(w) /\ RowsOf(proc[w].event.id) = {}
  BY <1>1, MessageAdded
<1>2. CASE \E s \in Staff : \E d \in Drafts : Send(s, d)
  BY <1>2, DraftAdded
<1>3. CASE \E r \in DOMAIN msg : \E st \in MessageStatuses : StatusStep(r, st)
  BY <1>t, <1>3, StatusUpdate DEF StatusStep
<1>4. CASE \E s \in Staff : ConfirmStep(s)
  BY <1>t, <1>4, RowConfirmed DEF ConfirmStep, WahaIds
<1>5. CASE \E s \in Staff : MarkRead(s)
  BY <1>t, <1>5, RowsSeen DEF MarkRead
<1> QED
  BY <1>1, <1>2, <1>3, <1>4, <1>5, RowSteps

-----------------------------------------------------------------------------
(* Notices of a disconnect *)

(* The status has left WORKING, and the notice of that is still to come.   *)
Notifying == {p \in Processes : proc[p].at = "notify"}

(* Each notice, and each that is to come, has a drop of its own. *)
NoticeInv == IsFiniteSet(Notifying) /\ notices + Cardinality(Notifying) <= drops

LEMMA DropsGrow ==
  ASSUME TypeOK, [Next]_vars
  PROVE  drops \in Nat /\ drops' \in Nat /\ drops' >= drops
<1>1. drops \in Nat
  BY DEF TypeOK
<1>2. CASE UNCHANGED drops
  BY <1>1, <1>2
<1>3. CASE \E st : Store(st)
  BY <1>1, <1>3 DEF Store
<1>4. CASE \E s \in Staff : ApplyProviderInfo(s) \/ SoftDelete(s)
  BY <1>2, <1>3, <1>4 DEF ApplyProviderInfo, SoftDelete
<1> QED
  BY <1>2, <1>3, <1>4, Writers DEF SessionWriter, ApplyObservedStatus

LEMMA NoticeStep ==
  ASSUME TypeOK, NoticeInv, [Next]_vars
  PROVE  NoticeInv'
<1>t. ProcOK /\ notices \in Nat /\ drops \in Nat
  BY TypeParts DEF CountsOK
<1>d. drops' \in Nat /\ drops' >= drops
  BY DropsGrow
<1>c. IsFiniteSet(Notifying) /\ Cardinality(Notifying) \in Nat
  BY FS_CardinalityType DEF NoticeInv
<1>1. ASSUME NEW p \in Processes, NotifyDisconnected(p)
      PROVE  NoticeInv'
  <2>1. proc[p].at = "notify" /\ notices' = notices + 1 /\ Goto(p, Returned(p)) /\ UNCHANGED drops
    BY <1>1 DEF NotifyDisconnected
  <2>2. Returned(p).at # "notify"
    BY <1>t, <2>1, ReturnedTyped
  <2>3. proc'[p] = Returned(p) /\ \A q \in Processes \ {p} : proc'[q] = proc[q]
    BY <1>t, <2>1, NextFrame
  <2>4. Notifying' = Notifying \ {p} /\ p \in Notifying
    BY <2>1, <2>2, <2>3 DEF Notifying
  <2>5. IsFiniteSet(Notifying') /\ Cardinality(Notifying') = Cardinality(Notifying) - 1
    BY <1>c, <2>4, FS_RemoveElement
  <2> QED BY <1>t, <1>c, <2>1, <2>5 DEF NoticeInv
<1>2. ASSUME NEW p \in Processes, Moved(p), proc'[p].at = "notify", UNCHANGED notices
      PROVE  NoticeInv'
  <2>1. ApplyObservedStatus(p) /\ IsDisconnect(session.status, proc[p].status)
    BY <1>2 DEF Moved, Goes
  <2>2. drops' = drops + 1
    BY <2>1 DEF ApplyObservedStatus, Store, IsDisconnect, Disconnected
  <2>3. Notifying' = Notifying \cup {p} /\ p \notin Notifying
    BY <1>2, <2>1 DEF Notifying, Moved, ApplyObservedStatus
  <2>4. IsFiniteSet(Notifying') /\ Cardinality(Notifying') = Cardinality(Notifying) + 1
    BY <1>c, <2>3, FS_AddElement
  <2> QED BY <1>2, <1>t, <1>c, <2>2, <2>4 DEF NoticeInv
<1>3. ASSUME Notifying' \subseteq Notifying, UNCHANGED notices
      PROVE  NoticeInv'
  <2>1. /\ IsFiniteSet(Notifying') /\ Cardinality(Notifying') \in Nat
        /\ Cardinality(Notifying') <= Cardinality(Notifying)
    BY <1>3, <1>c, FS_Subset, FS_CardinalityType
  <2> QED BY <1>3, <1>t, <1>d, <1>c, <2>1 DEF NoticeInv
<1>4. ASSUME NEW p \in Processes, Moved(p), proc'[p].at # "notify"
      PROVE  Notifying' \subseteq Notifying
  BY <1>4 DEF Notifying, Moved
<1>5. UNCHANGED proc => Notifying' \subseteq Notifying
  BY DEF Notifying
<1>6. UNCHANGED notices \/ \E p \in Processes : NotifyDisconnected(p)
  BY Writers DEF NoticeWriter, Processes
<1> QED
  BY <1>1, <1>2, <1>3, <1>4, <1>5, <1>6, FrameSteps

(* One disconnect is at most one notice, however many webhooks and         *)
(* reconcilers see it: for any number of workers, and whatever the plan of *)
(* WAHA.                                                                   *)
THEOREM OneNoticePerDisconnect == Spec => []NoticePerDisconnect
<1>1. Init => NoticeInv
  <2> SUFFICES ASSUME Init PROVE NoticeInv
    OBVIOUS
  <2>1. Notifying = {}
    BY DEF Init, Notifying, Idle
  <2> QED BY <2>1, FS_EmptySet DEF Init, NoticeInv
<1>2. TypeOK /\ NoticeInv /\ [Next]_vars => NoticeInv'
  BY NoticeStep
<1>3. TypeOK /\ NoticeInv => NoticePerDisconnect
  <2> SUFFICES ASSUME TypeOK, NoticeInv PROVE notices <= drops
    BY DEF NoticePerDisconnect
  <2>1. notices \in Nat /\ drops \in Nat /\ Cardinality(Notifying) \in Nat
    BY FS_CardinalityType DEF TypeOK, NoticeInv
  <2> QED BY <2>1 DEF NoticeInv
<1> QED BY <1>1, <1>2, <1>3, InitTypes, TypeStep, PTL DEF Spec, Safety

-----------------------------------------------------------------------------
(* The unread badge and the day's activity *)

(* The day is claimed, and the activity is still to come. *)
Recording == {p \in Processes : proc[p].at = "crm"}

(* Only who claims the day makes its activity. *)
ActivityInv ==
  /\ IsFiniteSet(Recording)
  /\ crm.activities + Cardinality(Recording) <= IF conv.day THEN 1 ELSE 0

LEMMA ActivityStepKeeps ==
  ASSUME TypeOK, ActivityInv, [Next]_vars
  PROVE  ActivityInv'
<1>t. /\ ProcOK /\ crm \in [leads : Nat, activities : Nat]
      /\ conv \in [exists : BOOLEAN, linked : BOOLEAN, unread : Nat, day : BOOLEAN]
  BY TypeParts DEF CountsOK
<1>c. IsFiniteSet(Recording) /\ Cardinality(Recording) \in Nat
  BY FS_CardinalityType DEF ActivityInv
<1>1. ASSUME NEW p \in Processes, RecordActivity(p)
      PROVE  ActivityInv'
  <2>1. /\ proc[p].at = "crm" /\ Goto(p, Returned(p)) /\ UNCHANGED conv
        /\ crm' = [crm EXCEPT !.activities = @ + 1]
    BY <1>1 DEF RecordActivity
  <2>2. Returned(p).at # "crm"
    BY <1>t, <2>1, ReturnedTyped
  <2>3. proc'[p] = Returned(p) /\ \A q \in Processes \ {p} : proc'[q] = proc[q]
    BY <1>t, <2>1, NextFrame
  <2>4. Recording' = Recording \ {p} /\ p \in Recording
    BY <2>1, <2>2, <2>3 DEF Recording
  <2>5. IsFiniteSet(Recording') /\ Cardinality(Recording') = Cardinality(Recording) - 1
    BY <1>c, <2>4, FS_RemoveElement
  <2>6. crm'.activities = crm.activities + 1 /\ crm.activities \in Nat
    BY <1>t, <2>1
  <2> QED BY <1>c, <2>1, <2>5, <2>6 DEF ActivityInv
<1>2. ASSUME NEW p \in Processes, Moved(p), proc'[p].at = "crm",
             crm'.activities = crm.activities
      PROVE  ActivityInv'
  <2>1. ClaimActivityDay(p) /\ ~conv.day
    BY <1>2 DEF Moved, Goes
  <2>2. conv'.day /\ proc[p].at = "activity"
    BY <1>t, <2>1 DEF ClaimActivityDay
  <2>3. Recording' = Recording \cup {p} /\ p \notin Recording
    BY <1>2, <2>2 DEF Recording, Moved
  <2>4. IsFiniteSet(Recording') /\ Cardinality(Recording') = Cardinality(Recording) + 1
    BY <1>c, <2>3, FS_AddElement
  <2>5. crm.activities \in Nat
    BY <1>t
  <2> QED BY <1>2, <1>c, <2>1, <2>2, <2>4, <2>5 DEF ActivityInv
<1>3. conv.day => conv'.day
  <2>1. CASE UNCHANGED conv
    BY <2>1
  <2>2. CASE \E w \in Workers : CreateConversation(w)
    BY <1>t, <2>2 DEF CreateConversation, Opened
  <2>3. CASE \E w \in Workers : RecordMessage(w)
    BY <1>t, <2>3 DEF RecordMessage
  <2>4. CASE \E p \in Workers \cup Staff : ClaimActivityDay(p)
    BY <1>t, <2>4 DEF ClaimActivityDay
  <2>5. CASE \E s \in Staff : Start(s) \/ MarkRead(s)
    BY <1>t, <2>5 DEF Start, MarkRead, Opened
  <2> QED BY <2>1, <2>2, <2>3, <2>4, <2>5, Writers DEF ConversationWriter
<1>4. ASSUME Recording' \subseteq Recording, crm'.activities = crm.activities
      PROVE  ActivityInv'
  <2>1. /\ IsFiniteSet(Recording') /\ Cardinality(Recording') \in Nat
        /\ Cardinality(Recording') <= Cardinality(Recording)
    BY <1>4, <1>c, FS_Subset, FS_CardinalityType
  <2>2. crm.activities \in Nat
    BY <1>t
  <2> QED BY <1>4, <1>3, <1>c, <2>1, <2>2 DEF ActivityInv
<1>5. ASSUME NEW p \in Processes, Moved(p), proc'[p].at # "crm"
      PROVE  Recording' \subseteq Recording
  BY <1>5 DEF Recording, Moved
<1>6. UNCHANGED proc => Recording' \subseteq Recording
  BY DEF Recording
<1>7. crm'.activities = crm.activities \/ \E p \in Processes : RecordActivity(p)
  <2>1. CASE \E w \in Workers : CreateLead(w)
    BY <1>t, <2>1 DEF CreateLead
  <2> QED BY <2>1, Writers DEF CrmWriter, Processes
<1> QED
  BY <1>1, <1>2, <1>4, <1>5, <1>6, <1>7, FrameSteps

(* The messages of the contact that nobody has seen. *)
Unseen == {r \in Rows : msg[r].unseen}

(* A send takes place on a row of the application's or the phone's, so its *)
(* confirmation neither marks a message of the contact nor deletes one.    *)
UnseenAreReceived ==
  \A r \in DOMAIN msg : msg[r].unseen => msg[r].waha \in Inbound /\ ~msg[r].out
SendsGoOut == \A p \in Processes : proc[p].at \in Sending => msg[proc[p].row].out

BadgeInv ==
  /\ UnseenAreReceived
  /\ SendsGoOut
  /\ conv.unread = Cardinality(Unseen)

LEMMA UnseenFinite ==
  ASSUME TypeOK
  PROVE  IsFiniteSet(Unseen) /\ Cardinality(Unseen) \in Nat
<1>1. DOMAIN msg = 1..Len(msg) /\ Len(msg) \in Nat
  BY DEF TypeOK
<1>2. IsFiniteSet(DOMAIN msg)
  BY <1>1, FS_Interval
<1>3. Unseen \subseteq DOMAIN msg
  BY DEF Unseen, Rows
<1> QED
  BY <1>2, <1>3, FS_Subset, FS_CardinalityType

(* Where a send has its row. *)
LEMMA SentRow ==
  ASSUME TypeOK, NEW p \in Processes, NEW d \in Drafts, Send(p, d)
  PROVE  proc'[p].row = Len(msg) + 1 /\ Len(msg) + 1 \notin DOMAIN msg
<1>1. ProcOK /\ msg \in Seq(MessageRow)
  BY TypeParts DEF MsgOK
<1>2. Goto(p, [Idle EXCEPT !.at = "send", !.row = Len(msg) + 1, !.linked = conv.linked])
  BY DEF Send, Deliver
<1>3. proc'[p] = [Idle EXCEPT !.at = "send", !.row = Len(msg) + 1, !.linked = conv.linked]
  BY <1>1, <1>2, NextFrame
<1>4. [Idle EXCEPT !.at = "send", !.row = Len(msg) + 1, !.linked = conv.linked].row = Len(msg) + 1
  BY DEF Idle
<1> QED
  BY <1>1, <1>3, <1>4

LEMMA SendsStayOut ==
  ASSUME TypeOK, SendsGoOut, [Next]_vars
  PROVE  SendsGoOut'
<1>t. MsgOK /\ ProcOK
  BY TypeParts
<1>1. /\ DOMAIN msg \subseteq DOMAIN msg'
      /\ \A r \in DOMAIN msg : msg'[r].of = msg[r].of /\ msg'[r].out = msg[r].out
  BY RowsKeepTheirs
<1>2. \A q \in Processes : proc[q].at \in Sending => proc[q].row \in DOMAIN msg
  BY <1>t, FrameFacts DEF FrameOK
<1>3. ASSUME NEW p \in Processes, Goes(p), proc'[p].at \in Sending
      PROVE  msg'[proc'[p].row].out
  <2>1. ASSUME NEW d \in Drafts, Send(p, d) PROVE msg'[proc'[p].row].out
    <3>1. p \in Staff
      <4>1. TypeOK'
        BY TypeStep
      <4>2. FrameOK(p, proc[p])'
        BY <4>1 DEF TypeOK
      <4> QED BY <1>3, <4>2 DEF FrameOK
    <3>2. proc'[p].row = Len(msg) + 1
      BY <2>1, SentRow
    <3>3. msg'[Len(msg) + 1].out
      BY <2>1, <3>1, DraftAdded
    <3> QED BY <3>2, <3>3
  <2>2. ASSUME Retry(p, proc'[p].row) PROVE msg'[proc'[p].row].out
    <3>1. proc'[p].row \in DOMAIN msg
      BY <1>3, <2>2, TypeStep DEF Retry, TypeOK, FrameOK
    <3> QED BY <1>1, <2>2, <3>1 DEF Retry
  <2>3. CASE proc'[p].at # "send"
    BY <1>1, <1>2, <1>3, <2>3 DEF Goes, SendsGoOut
  <2> QED BY <1>3, <2>1, <2>2, <2>3 DEF Goes
<1>4. ASSUME NEW q \in Processes, proc'[q] = proc[q], proc'[q].at \in Sending
      PROVE  msg'[proc'[q].row].out
  BY <1>1, <1>2, <1>4 DEF SendsGoOut
<1> QED
  BY <1>3, <1>4, FrameSteps DEF SendsGoOut, Moved

LEMMA UnseenStayReceived ==
  ASSUME TypeOK, UnseenAreReceived, SendsGoOut, [Next]_vars
  PROVE  UnseenAreReceived'
<1>t. MsgOK /\ ProcOK
  BY TypeParts
<1>1. CASE \E w \in Workers : RecordMessage(w) /\ RowsOf(proc[w].event.id) = {}
  <2>1. PICK w \in Workers : RecordMessage(w) /\ RowsOf(proc[w].event.id) = {}
    BY <1>1
  <2>2. \A n : /\ RowOf(n).unseen => RowOf(n).waha \in Inbound
               /\ RowOf(n).unseen => ~RowOf(n).out
    BY DEF RowOf
  <2>3. ASSUME NEW q \in DOMAIN msg', msg'[q].unseen
        PROVE  msg'[q].waha \in Inbound /\ ~msg'[q].out
    <3>1. CASE q \in DOMAIN msg
      BY <2>1, <2>3, <3>1, MessageAdded DEF UnseenAreReceived
    <3>2. CASE q = Len(msg) + 1
      BY <2>1, <2>2, <2>3, <3>2, MessageAdded
    <3> QED BY <2>1, <3>1, <3>2, MessageAdded
  <2> QED BY <2>3 DEF UnseenAreReceived
<1>2. CASE \E s \in Staff : \E d \in Drafts : Send(s, d)
  <2>1. PICK s \in Staff, d \in Drafts : Send(s, d)
    BY <1>2
  <2>2. /\ DOMAIN msg' = DOMAIN msg \cup {Len(msg) + 1}
        /\ ~msg'[Len(msg) + 1].unseen
        /\ \A q \in DOMAIN msg : msg'[q] = msg[q]
    BY <2>1, DraftAdded
  <2> QED BY <2>2 DEF UnseenAreReceived
<1>3. CASE \E r \in DOMAIN msg : \E st \in MessageStatuses : StatusStep(r, st)
  BY <1>t, <1>3, StatusUpdate DEF StatusStep, UnseenAreReceived
<1>4. ASSUME NEW s \in Staff, ConfirmStep(s) PROVE UnseenAreReceived'
  <2>1. msg[proc[s].row].out /\ proc[s].row \in Rows /\ proc[s].id \in Api
    BY <1>4 DEF ConfirmStep, SendsGoOut, Processes
  <2>2. \A q \in RowsOf(proc[s].id) : ~msg[q].unseen
    BY <2>1, ChatAssumption DEF RowsOf, UnseenAreReceived
  <2> QED BY <1>t, <1>4, <2>1, <2>2, RowConfirmed
          DEF ConfirmStep, UnseenAreReceived, Rows, WahaIds
<1>5. CASE \E s \in Staff : MarkRead(s)
  BY <1>t, <1>5, RowsSeen DEF MarkRead, UnseenAreReceived
<1>6. CASE UNCHANGED msg
  BY <1>6 DEF UnseenAreReceived
<1> QED
  BY <1>1, <1>2, <1>3, <1>4, <1>5, <1>6, RowSteps

(* The counter moves with a new row of the contact's and with MarkRead.    *)
LEMMA UnreadKept ==
  ASSUME TypeOK, [Next]_vars,
         ~ \E w \in Workers : RecordMessage(w) /\ RowsOf(proc[w].event.id) = {},
         ~ \E s \in Staff : MarkRead(s)
  PROVE  conv'.unread = conv.unread
<1>t. conv \in [exists : BOOLEAN, linked : BOOLEAN, unread : Nat, day : BOOLEAN]
  BY DEF TypeOK
<1>1. CASE \E w \in Workers : CreateConversation(w)
  BY <1>t, <1>1 DEF CreateConversation, Opened
<1>2. CASE \E w \in Workers : RecordMessage(w)
  BY <1>t, <1>2 DEF RecordMessage
<1>3. CASE \E p \in Workers \cup Staff : ClaimActivityDay(p)
  BY <1>t, <1>3 DEF ClaimActivityDay
<1>4. CASE \E s \in Staff : Start(s)
  BY <1>t, <1>4 DEF Start, Opened
<1> QED
  BY <1>1, <1>2, <1>3, <1>4, Writers DEF ConversationWriter

LEMMA BadgeStep ==
  ASSUME TypeOK, BadgeInv, [Next]_vars
  PROVE  BadgeInv'
<1>t. /\ MsgOK /\ ProcOK
      /\ conv \in [exists : BOOLEAN, linked : BOOLEAN, unread : Nat, day : BOOLEAN]
  BY TypeParts DEF CountsOK
<1>i. UnseenAreReceived /\ SendsGoOut /\ conv.unread = Cardinality(Unseen)
  BY DEF BadgeInv
<1>k. UnseenAreReceived' /\ SendsGoOut'
  BY <1>i, UnseenStayReceived, SendsStayOut
<1>f. IsFiniteSet(Unseen) /\ Cardinality(Unseen) \in Nat
  BY UnseenFinite
<1> SUFFICES conv'.unread = Cardinality(Unseen)'
  BY <1>k DEF BadgeInv
<1>1. ASSUME NEW w \in Workers, RecordMessage(w), RowsOf(proc[w].event.id) = {}
      PROVE  conv'.unread = Cardinality(Unseen)'
  <2>1. conv'.unread = conv.unread + (IF proc[w].event.id \in Inbound THEN 1 ELSE 0)
    BY <1>t, <1>1 DEF RecordMessage
  <2>2. /\ DOMAIN msg' = DOMAIN msg \cup {Len(msg) + 1}
        /\ Len(msg) + 1 \notin DOMAIN msg
        /\ msg'[Len(msg) + 1] = RowOf(proc[w].event)
        /\ \A q \in DOMAIN msg : msg'[q] = msg[q]
    BY <1>1, MessageAdded
  <2>3. /\ RowOf(proc[w].event).unseen = (proc[w].event.id \in Inbound)
        /\ RowOf(proc[w].event).status # "deleted"
    <3>1. StatusFromAck(proc[w].event.ack) # "deleted"
      BY StatusFromAckTyped DEF MessageStatuses
    <3> QED BY <3>1 DEF RowOf
  <2>4. CASE proc[w].event.id \in Inbound
    <3>1. Unseen' = Unseen \cup {Len(msg) + 1} /\ Len(msg) + 1 \notin Unseen
      BY <2>2, <2>3, <2>4 DEF Unseen, Rows
    <3>2. Cardinality(Unseen') = Cardinality(Unseen) + 1
      BY <1>f, <3>1, FS_AddElement
    <3> QED BY <1>i, <2>1, <2>4, <3>2
  <2>5. CASE proc[w].event.id \notin Inbound
    <3>1. Unseen' = Unseen
      BY <2>2, <2>3, <2>5 DEF Unseen, Rows
    <3> QED BY <1>i, <1>f, <2>1, <2>5, <3>1
  <2> QED BY <2>4, <2>5
<1>2. ASSUME NEW s \in Staff, MarkRead(s)
      PROVE  conv'.unread = Cardinality(Unseen)'
  <2>1. conv'.unread = 0 /\ \A q \in DOMAIN msg' : msg'[q].unseen = FALSE
    BY <1>t, <1>2, RowsSeen DEF MarkRead
  <2>2. Unseen' = {}
    BY <2>1 DEF Unseen, Rows
  <2> QED BY <2>1, <2>2, FS_EmptySet
<1>3. CASE Unseen' = Unseen
  <2>1. CASE /\ ~ \E w \in Workers : RecordMessage(w) /\ RowsOf(proc[w].event.id) = {}
             /\ ~ \E s \in Staff : MarkRead(s)
    BY <1>i, <1>3, <2>1, UnreadKept
  <2> QED BY <1>1, <1>2, <2>1
<1>4. ASSUME NEW s \in Staff, NEW d \in Drafts, Send(s, d) PROVE Unseen' = Unseen
  <2>1. /\ DOMAIN msg' = DOMAIN msg \cup {Len(msg) + 1}
        /\ ~msg'[Len(msg) + 1].unseen
        /\ \A q \in DOMAIN msg : msg'[q] = msg[q]
    BY <1>4, DraftAdded
  <2> QED BY <2>1 DEF Unseen, Rows
<1>5. ASSUME NEW r \in DOMAIN msg, NEW st \in MessageStatuses, StatusStep(r, st)
      PROVE  Unseen' = Unseen
  <2>1. msg[r].status # "deleted" /\ st # "deleted"
    BY <1>5 DEF StatusStep, MessageStatuses
  <2> QED BY <1>t, <1>5, <2>1, StatusUpdate DEF StatusStep, Unseen, Rows
<1>6. ASSUME NEW s \in Staff, ConfirmStep(s) PROVE Unseen' = Unseen
  <2>1. msg[proc[s].row].out /\ proc[s].row \in Rows /\ proc[s].id \in Api
    BY <1>i, <1>6 DEF ConfirmStep, SendsGoOut, Processes
  <2>2. \A q \in RowsOf(proc[s].id) \cup {proc[s].row} : ~msg[q].unseen
    BY <1>i, <2>1, ChatAssumption DEF RowsOf, Rows, UnseenAreReceived
  <2>3. /\ DOMAIN msg' = DOMAIN msg
        /\ \A q \in DOMAIN msg : msg'[q].unseen = msg[q].unseen
        /\ \A q \in DOMAIN msg \ (RowsOf(proc[s].id) \cup {proc[s].row}) : msg'[q] = msg[q]
    BY <1>t, <1>6, <2>1, RowConfirmed DEF ConfirmStep, WahaIds
  <2> QED BY <2>2, <2>3 DEF Unseen, Rows
<1>7. CASE UNCHANGED msg
  BY <1>3, <1>7 DEF Unseen, Rows
<1> QED
  BY <1>1, <1>2, <1>3, <1>4, <1>5, <1>6, <1>7, RowSteps

(* The badge counts what the contact wrote and nobody has seen, once each, *)
(* and the timeline has at most one activity of the day.                   *)
THEOREM MessagesAreCountedOnce == Spec => []CountedOnce
<1>1. Init => ActivityInv /\ BadgeInv
  <2> SUFFICES ASSUME Init PROVE ActivityInv /\ BadgeInv
    OBVIOUS
  <2>1. Recording = {} /\ Unseen = {}
    BY DEF Init, Recording, Unseen, Rows, Idle
  <2>2. DOMAIN msg = {} /\ \A p \in Processes : proc[p].at \notin Sending
    BY DEF Init, Idle
  <2> QED BY <2>1, <2>2, FS_EmptySet
          DEF Init, ActivityInv, BadgeInv, UnseenAreReceived, SendsGoOut
<1>2. TypeOK /\ ActivityInv /\ BadgeInv /\ [Next]_vars => ActivityInv' /\ BadgeInv'
  BY ActivityStepKeeps, BadgeStep
<1>3. TypeOK /\ ActivityInv /\ BadgeInv => CountedOnce
  <2> SUFFICES ASSUME TypeOK, ActivityInv, BadgeInv PROVE CountedOnce
    OBVIOUS
  <2>1. crm.activities \in Nat /\ Cardinality(Recording) \in Nat
    BY FS_CardinalityType DEF TypeOK, ActivityInv
  <2>2. crm.activities <= 1
    BY <2>1 DEF ActivityInv
  <2> QED BY <2>2 DEF BadgeInv, Unseen, CountedOnce
<1> QED BY <1>1, <1>2, <1>3, InitTypes, TypeStep, PTL DEF Spec, Safety

-----------------------------------------------------------------------------
(* Delivery progress *)

(* An ack that is being applied goes forward from the status it has read.  *)
AcksGoForward ==
  \A p \in Processes : proc[p].at = "ack" =>
    CanTransitionTo(proc[p].from, StatusFromAck(proc[p].event.ack))

LEMMA AcksStep ==
  ASSUME TypeOK, AcksGoForward, [Next]_vars
  PROVE  AcksGoForward'
<1>1. ASSUME NEW p \in Processes, Goes(p), proc'[p].at = "ack"
      PROVE  CanTransitionTo(proc'[p].from, StatusFromAck(proc'[p].event.ack))
  BY <1>1 DEF Goes
<1>2. ASSUME NEW q \in Processes, proc'[q] = proc[q], proc'[q].at = "ack"
      PROVE  CanTransitionTo(proc'[q].from, StatusFromAck(proc'[q].event.ack))
  BY <1>2 DEF AcksGoForward
<1>3. ASSUME NEW q \in Processes, proc'[q].at = "ack"
      PROVE  CanTransitionTo(proc'[q].from, StatusFromAck(proc'[q].event.ack))
  BY <1>1, <1>2, <1>3, FrameSteps DEF Moved
<1> QED
  BY <1>3 DEF AcksGoForward, CanTransitionTo, StatusFromAck, Rank

Progress ==
  \A r \in DOMAIN msg :
    msg[r].status \in {"sent", "delivered", "read"} =>
      \/ msg'[r].status \in {"failed", "deleted"}
      \/ Rank(msg'[r].status) >= Rank(msg[r].status)

LEMMA ProgressStep ==
  ASSUME TypeOK, AcksGoForward, [Next]_vars
  PROVE  Progress
<1>t. MsgOK
  BY TypeParts
<1>r. \A st : Rank(st) \in Int
  BY DEF Rank
<1>s. ASSUME NEW r \in DOMAIN msg, msg'[r].status = msg[r].status
      PROVE  Rank(msg'[r].status) >= Rank(msg[r].status)
  BY <1>r, <1>s
<1>1. CASE \E w \in Workers : RecordMessage(w) /\ RowsOf(proc[w].event.id) = {}
  <2>1. \A q \in DOMAIN msg : msg'[q] = msg[q]
    BY <1>1, MessageAdded
  <2> QED BY <1>s, <2>1 DEF Progress
<1>2. CASE \E s \in Staff : \E d \in Drafts : Send(s, d)
  <2>1. PICK s \in Staff, d \in Drafts : Send(s, d)
    BY <1>2
  <2>2. \A q \in DOMAIN msg : msg'[q] = msg[q]
    BY <2>1, DraftAdded
  <2> QED BY <1>s, <2>2 DEF Progress
<1>3. ASSUME NEW r \in DOMAIN msg, NEW st \in MessageStatuses, StatusStep(r, st)
      PROVE  Progress
  <2>1. /\ msg'[r].status = st
        /\ \A q \in DOMAIN msg \ {r} : msg'[q].status = msg[q].status
    <3>1. msg' = [msg EXCEPT ![r].status = st]
      BY <1>3 DEF StatusStep
    <3>2. /\ msg'[r] = [msg[r] EXCEPT !.status = st]
          /\ \A q \in DOMAIN msg \ {r} : msg'[q] = msg[q]
      BY <1>t, <3>1, StatusUpdate
    <3>3. msg[r] \in MessageRow
      BY <1>t DEF MsgOK
    <3> QED BY <3>2, <3>3 DEF MessageRow
  <2>2. ASSUME msg[r].status \in {"sent", "delivered", "read"}, st # "failed"
        PROVE  Rank(st) >= Rank(msg[r].status)
    <3>1. PICK w \in Workers : /\ proc[w].at = "ack" /\ msg[r].status = proc[w].from
                               /\ st = StatusFromAck(proc[w].event.ack)
      BY <1>3, <2>2 DEF StatusStep, Retry
    <3>2. CanTransitionTo(msg[r].status, st)
      BY <3>1 DEF AcksGoForward, Processes
    <3> QED BY <1>r, <2>2, <3>2 DEF CanTransitionTo
  <2> QED BY <1>s, <2>1, <2>2 DEF Progress
<1>4. ASSUME NEW s \in Staff, ConfirmStep(s) PROVE Progress
  <2>1. /\ msg'[proc[s].row].status = SentStatus(msg[proc[s].row].status)
        /\ \A q \in RowsOf(proc[s].id) \ {proc[s].row} : msg'[q].status = "deleted"
        /\ \A q \in DOMAIN msg \ (RowsOf(proc[s].id) \cup {proc[s].row}) : msg'[q] = msg[q]
    BY <1>t, <1>4, RowConfirmed DEF ConfirmStep, WahaIds
  <2>2. \A st \in {"sent", "delivered", "read"} : SentStatus(st) = st
    BY DEF SentStatus
  <2> QED BY <1>s, <2>1, <2>2 DEF Progress
<1>5. CASE \E s \in Staff : MarkRead(s)
  <2>1. \A q \in DOMAIN msg : msg'[q].status = msg[q].status
    BY <1>t, <1>5, RowsSeen DEF MarkRead
  <2> QED BY <1>s, <2>1 DEF Progress
<1>6. CASE UNCHANGED msg
  BY <1>6, <1>s DEF Progress
<1> QED
  BY <1>1, <1>2, <1>3, <1>4, <1>5, <1>6, RowSteps

(* CanTransitionTo's promise, for any number of workers that apply acks in *)
(* any order: progress never moves back, unless a send fails or the row is *)
(* a copy that goes.                                                       *)
THEOREM AcksNeverMoveBack == Spec => ProgressNeverMovesBack
<1>1. Init => AcksGoForward
  BY DEF Init, AcksGoForward, Idle
<1>2. TypeOK /\ AcksGoForward /\ [Next]_vars => AcksGoForward'
  BY AcksStep
<1>3. TypeOK /\ AcksGoForward /\ [Next]_vars =>
        [\A r \in DOMAIN msg :
           msg[r].status \in {"sent", "delivered", "read"} =>
             \/ msg'[r].status \in {"failed", "deleted"}
             \/ Rank(msg'[r].status) >= Rank(msg[r].status)]_vars
  BY ProgressStep DEF Progress
<1> QED
  BY <1>1, <1>2, <1>3, InitTypes, TypeStep, PTL DEF Spec, Safety, ProgressNeverMovesBack

-----------------------------------------------------------------------------
(* Messages that are stored *)

(* Sends that WAHA has accepted and that are not confirmed. *)
Accepted == {p \in Processes : proc[p].at \in {"accepted", "update"}}

(* An id that WAHA may still give, or has given to a send in progress.     *)
Open(x) == x \in left.ids \/ \E p \in Accepted : proc[p].id = x

(* WAHA gives each send an id of its own, and until the send is confirmed  *)
(* the only row with that id is the copy that an event has made.           *)
IdsAreNew == \A p \in Accepted : proc[p].id \notin left.ids
IdsAreDistinct == \A p, q \in Accepted : proc[p].id = proc[q].id => p = q
CopiesAreOwn == \A r \in DOMAIN msg : msg[r].waha # None /\ Open(msg[r].waha) =>
                  msg[r].of = msg[r].waha
OthersAreOwn == \A r \in DOMAIN msg : msg[r].waha \notin Api \cup {None} =>
                  msg[r].of = msg[r].waha
(* Only copies of what the application sent are ever deleted. *)
DeletedAreCopies == \A r \in DOMAIN msg : msg[r].status = "deleted" => msg[r].of \in Api

CopyInv ==
  IdsAreNew /\ IdsAreDistinct /\ CopiesAreOwn /\ OthersAreOwn /\ DeletedAreCopies

LEMMA IdsAreUsedUp ==
  ASSUME TypeOK, [Next]_vars
  PROVE  left'.ids \subseteq left.ids
<1>t. EnvOK
  BY TypeParts
<1>1. CASE \E x \in WahaIds : WriteOnPhone(x)
  BY <1>t, <1>1 DEF WriteOnPhone, EnvOK
<1>2. CASE \E s \in Staff : WahaAccepts(s)
  <2>1. PICK x : \/ left' = [left EXCEPT !.ids = @ \ {x}]
                 \/ left' = [left EXCEPT !.ids = @ \ {x}, !.faults = @ - 1]
    BY <1>2 DEF WahaAccepts
  <2> QED BY <1>t, <2>1 DEF EnvOK
<1>3. CASE \E s \in Staff : \E d \in Drafts : Send(s, d)
  BY <1>t, <1>3 DEF Send, EnvOK
<1> QED
  BY <1>1, <1>2, <1>3, Writers DEF IdWriter

(* Who is among the accepted sends after a step. *)
LEMMA AcceptedSteps ==
  ASSUME TypeOK, [Next]_vars, NEW p \in Accepted'
  PROVE  \/ p \in Accepted /\ proc'[p].id = proc[p].id
         \/ /\ proc'[p].id \in left.ids \ left'.ids
            /\ \A q \in Processes \ {p} : proc'[q] = proc[q]
<1>1. p \in Processes /\ proc'[p].at \in {"accepted", "update"}
  BY DEF Accepted
<1>2. CASE proc'[p] = proc[p]
  BY <1>1, <1>2 DEF Accepted
<1>3. CASE Moved(p)
  BY <1>1, <1>3 DEF Moved, Goes, Accepted
<1> QED
  BY <1>1, <1>2, <1>3, FrameSteps DEF Moved

LEMMA OpenShrinks ==
  ASSUME TypeOK, [Next]_vars, NEW x, Open(x)'
  PROVE  Open(x)
<1>1. CASE x \in left'.ids
  BY <1>1, IdsAreUsedUp DEF Open
<1>2. ASSUME NEW p \in Accepted', proc'[p].id = x PROVE Open(x)
  BY <1>2, AcceptedSteps DEF Open
<1> QED
  BY <1>1, <1>2 DEF Open

LEMMA IdsStay ==
  ASSUME TypeOK, IdsAreNew, IdsAreDistinct, [Next]_vars
  PROVE  IdsAreNew' /\ IdsAreDistinct'
<1>1. ASSUME NEW p \in Accepted' PROVE proc'[p].id \notin left'.ids
  BY AcceptedSteps, IdsAreUsedUp DEF IdsAreNew
<1>2. ASSUME NEW p \in Accepted', NEW q \in Accepted', proc'[p].id = proc'[q].id, p # q
      PROVE  FALSE
  <2>1. p \in Processes /\ q \in Processes
    BY DEF Accepted
  <2>2. ASSUME NEW a \in Accepted', NEW b \in Accepted', a # b, proc'[a].id = proc'[b].id,
               proc'[a].id \in left.ids,
               \A c \in Processes \ {a} : proc'[c] = proc[c]
        PROVE  FALSE
    <3>1. b \in Accepted /\ proc'[b].id = proc[b].id
      BY <2>2 DEF Accepted
    <3> QED BY <2>2, <3>1 DEF IdsAreNew
  <2>3. CASE /\ p \in Accepted /\ proc'[p].id = proc[p].id
             /\ q \in Accepted /\ proc'[q].id = proc[q].id
    BY <1>2, <2>3 DEF IdsAreDistinct
  <2> QED BY <1>2, <2>2, <2>3, AcceptedSteps
<1> QED
  BY <1>1, <1>2 DEF IdsAreNew, IdsAreDistinct

(* The confirmed id is nobody's any more. *)
LEMMA ConfirmedIsClosed ==
  ASSUME TypeOK, IdsAreNew, IdsAreDistinct, [Next]_vars, NEW s \in Staff, ConfirmStep(s),
         NEW x, x = proc[s].id
  PROVE  Open(x) /\ ~Open(x)'
<1>s. s \in Processes /\ s \in Accepted /\ s \notin Accepted'
  BY DEF ConfirmStep, Accepted, Processes
<1>1. x \notin left'.ids
  BY <1>s, IdsAreUsedUp DEF IdsAreNew
<1>2. ASSUME NEW p \in Accepted', proc'[p].id = x PROVE FALSE
  <2>1. p \in Accepted /\ proc[p].id = x
    BY <1>s, <1>2, AcceptedSteps DEF IdsAreNew
  <2> QED BY <1>s, <1>2, <2>1 DEF IdsAreDistinct
<1> QED
  BY <1>s, <1>1, <1>2 DEF Open

(* A row whose id is closed, or is what the row is of. *)
RowFine(m, open) ==
  /\ m.waha # None /\ m.waha \in open => m.of = m.waha
  /\ m.waha \notin Api \cup {None} => m.of = m.waha
  /\ m.status = "deleted" => m.of \in Api

LEMMA RowsFine ==
  ASSUME NEW W, W = {x \in WahaIds : Open(x)},
         CopiesAreOwn, OthersAreOwn, DeletedAreCopies, NEW r \in DOMAIN msg
  PROVE  RowFine(msg[r], W)
<1>1. msg[r].waha \in W => Open(msg[r].waha)
  OBVIOUS
<1> QED
  BY <1>1 DEF CopiesAreOwn, OthersAreOwn, DeletedAreCopies, RowFine

LEMMA CopiesStay ==
  ASSUME TypeOK, CopyInv, [Next]_vars
  PROVE  CopiesAreOwn' /\ OthersAreOwn' /\ DeletedAreCopies'
<1>t. MsgOK
  BY TypeParts
<1>m. \A r \in DOMAIN msg' : msg'[r] \in MessageRow
  <2>1. TypeOK'
    BY TypeStep
  <2>2. msg' \in Seq(MessageRow)
    BY <2>1 DEF TypeOK
  <2> QED BY <2>2
<1>1. PICK V : V = {x \in WahaIds : Open(x)}
  OBVIOUS
<1>2. PICK W : W = {x \in WahaIds : Open(x)'}
  OBVIOUS
<1>3. W \subseteq V
  BY <1>1, <1>2, OpenShrinks
<1>4. \A r \in DOMAIN msg : RowFine(msg[r], V)
  BY <1>1, RowsFine DEF CopyInv
<1>5. \A r \in DOMAIN msg : RowFine(msg[r], W)
  BY <1>3, <1>4 DEF RowFine
<1>6. ASSUME \A r \in DOMAIN msg' : RowFine(msg'[r], W)
      PROVE  CopiesAreOwn' /\ OthersAreOwn' /\ DeletedAreCopies'
  <2>1. \A r \in DOMAIN msg' : msg'[r].waha \in WahaIds \cup {None}
    BY <1>m DEF MessageRow
  <2>2. ASSUME NEW r \in DOMAIN msg', msg'[r].waha # None, NEW x, x = msg'[r].waha, Open(x)'
        PROVE  msg'[r].of = x
    BY <1>2, <1>6, <2>1, <2>2 DEF RowFine
  <2>3. CopiesAreOwn'
    <3> SUFFICES ASSUME NEW r \in DOMAIN msg', msg'[r].waha # None, Open(msg[r].waha)'
                 PROVE  msg'[r].of = msg'[r].waha
      BY DEF CopiesAreOwn
    <3>1. PICK x : x = msg'[r].waha
      OBVIOUS
    <3>2. Open(x)'
      BY <3>1 DEF Open
    <3> QED BY <2>2, <3>1, <3>2
  <2>4. OthersAreOwn' /\ DeletedAreCopies'
    BY <1>6 DEF OthersAreOwn, DeletedAreCopies, RowFine
  <2> QED BY <2>3, <2>4
<1>7. ASSUME NEW w \in Workers, RecordMessage(w), RowsOf(proc[w].event.id) = {}
      PROVE  \A r \in DOMAIN msg' : RowFine(msg'[r], W)
  <2>1. RowFine(RowOf(proc[w].event), W)
    <3>1. StatusFromAck(proc[w].event.ack) # "deleted"
      BY StatusFromAckTyped DEF MessageStatuses
    <3> QED BY <3>1 DEF RowFine, RowOf
  <2> QED BY <1>5, <1>7, <2>1, MessageAdded
<1>8. ASSUME NEW s \in Staff, NEW d \in Drafts, Send(s, d)
      PROVE  \A r \in DOMAIN msg' : RowFine(msg'[r], W)
  <2>1. /\ DOMAIN msg' = DOMAIN msg \cup {Len(msg) + 1}
        /\ msg'[Len(msg) + 1].waha = None
        /\ msg'[Len(msg) + 1].status = "pending"
        /\ \A q \in DOMAIN msg : msg'[q] = msg[q]
    BY <1>8, DraftAdded
  <2> QED BY <1>5, <2>1 DEF RowFine
<1>9. ASSUME NEW r \in DOMAIN msg, NEW st \in MessageStatuses, StatusStep(r, st)
      PROVE  \A q \in DOMAIN msg' : RowFine(msg'[q], W)
  <2>1. msg' = [msg EXCEPT ![r].status = st] /\ st # "deleted"
    BY <1>9 DEF StatusStep, MessageStatuses
  <2>2. /\ DOMAIN msg' = DOMAIN msg
        /\ \A q \in DOMAIN msg :
             /\ msg'[q].of = msg[q].of
             /\ msg'[q].waha = msg[q].waha
             /\ msg'[q].status = IF q = r THEN st ELSE msg[q].status
    BY <1>t, <2>1, StatusUpdate
  <2> QED BY <1>5, <2>1, <2>2 DEF RowFine
<1>10. ASSUME NEW s \in Staff, ConfirmStep(s)
       PROVE  \A q \in DOMAIN msg' : RowFine(msg'[q], W)
  <2>1. PICK x : x = proc[s].id
    OBVIOUS
  <2>2. PICK r : r = proc[s].row
    OBVIOUS
  <2>3. x \in Api /\ x \in WahaIds /\ r \in Rows /\ r \in DOMAIN msg /\ Confirm(r, x)
    BY <1>10, <2>1, <2>2 DEF ConfirmStep, WahaIds, Rows
  <2>4. x \in V /\ x \notin W
    BY <1>1, <1>2, <1>10, <2>1, <2>3, ConfirmedIsClosed DEF CopyInv
  <2>5. /\ DOMAIN msg' = DOMAIN msg
        /\ \A q \in DOMAIN msg : msg'[q].of = msg[q].of
        /\ msg'[r].waha = x /\ msg'[r].status = SentStatus(msg[r].status)
        /\ \A q \in RowsOf(x) \ {r} : msg'[q].waha = None /\ msg'[q].status = "deleted"
        /\ \A q \in DOMAIN msg \ (RowsOf(x) \cup {r}) : msg'[q] = msg[q]
    BY <1>t, <2>3, RowConfirmed
  <2>6. SentStatus(msg[r].status) # "deleted"
    BY <2>3 DEF SentStatus, Rows
  <2>7. ASSUME NEW q \in RowsOf(x) \ {r} PROVE RowFine(msg'[q], W)
    <3>1. q \in DOMAIN msg /\ msg[q].waha = x /\ x # None
      BY <2>3, ChatAssumption DEF RowsOf
    <3>2. msg[q].of = x
      BY <1>4, <2>4, <3>1 DEF RowFine
    <3> QED BY <2>3, <2>5, <2>7, <3>1, <3>2 DEF RowFine
  <2>8. RowFine(msg'[r], W)
    BY <2>3, <2>4, <2>5, <2>6 DEF RowFine
  <2> QED BY <1>5, <2>5, <2>7, <2>8
<1>11. ASSUME NEW s \in Staff, MarkRead(s)
       PROVE  \A q \in DOMAIN msg' : RowFine(msg'[q], W)
  <2>1. /\ DOMAIN msg' = DOMAIN msg
        /\ \A q \in DOMAIN msg :
             /\ msg'[q].of = msg[q].of
             /\ msg'[q].waha = msg[q].waha
             /\ msg'[q].status = msg[q].status
    BY <1>t, <1>11, RowsSeen DEF MarkRead
  <2> QED BY <1>5, <2>1 DEF RowFine
<1>12. CASE UNCHANGED msg
  BY <1>5, <1>6, <1>12
<1> QED
  BY <1>6, <1>7, <1>8, <1>9, <1>10, <1>11, <1>12, RowSteps

LEMMA CopyStep ==
  ASSUME TypeOK, CopyInv, [Next]_vars
  PROVE  CopyInv'
BY IdsStay, CopiesStay DEF CopyInv

LEMMA CopyInit == Init => CopyInv
<1> SUFFICES ASSUME Init PROVE CopyInv
  OBVIOUS
<1>1. Accepted = {} /\ DOMAIN msg = {}
  BY DEF Init, Accepted, Idle
<1> QED
  BY <1>1 DEF CopyInv, IdsAreNew, IdsAreDistinct, CopiesAreOwn, OthersAreOwn, DeletedAreCopies

(* The row of a message that did not come from the application stays.      *)
LEMMA OthersStayRecorded ==
  ASSUME TypeOK, CopyInv, [Next]_vars, NEW x \in WahaIds \ Api, Recorded(x)
  PROVE  Recorded(x)'
<1>1. PICK r \in Rows : msg[r].of = x \/ msg[r].waha = x
  BY DEF Recorded
<1>2. r \in DOMAIN msg /\ x # None
  BY <1>1, ChatAssumption DEF Rows
<1>3. msg[r].of = x
  BY <1>1, <1>2 DEF CopyInv, OthersAreOwn
<1>4. r \in DOMAIN msg' /\ msg'[r].of = x
  BY <1>2, <1>3, RowsKeepTheirs
<1>5. msg'[r].status # "deleted"
  BY <1>4, CopiesStay DEF DeletedAreCopies
<1> QED
  BY <1>4, <1>5 DEF Recorded, Rows

(* The events of the messages X: what workers have handled, and what has   *)
(* left the queue, is stored.                                              *)
HandledAreStored(X) ==
  \A w \in Workers :
    proc[w].at \in Handled /\ Message(proc[w].event) /\ proc[w].event.id \in X =>
      Recorded(proc[w].event.id) \/ session.deleted

DoneAreStored(X) ==
  \A n \in DOMAIN event :
    Message(n) /\ n.id \in X /\ event[n].done => Recorded(n.id) \/ session.deleted

LEMMA DeletedStays ==
  ASSUME TypeOK, [Next]_vars, session.deleted
  PROVE  session'.deleted
<1>1. CASE \E st : Store(st)
  BY <1>1 DEF Store, TypeOK
<1>2. CASE \E s \in Staff : SoftDelete(s)
  BY <1>2 DEF SoftDelete, TypeOK
<1>3. CASE UNCHANGED session
  BY <1>3
<1> QED
  BY <1>1, <1>2, <1>3, Writers DEF SessionWriter, ApplyObservedStatus, ApplyProviderInfo

(* An event is done when the worker that has it marks it. *)
LEMMA DoneSteps ==
  ASSUME TypeOK, [Next]_vars, NEW n \in DOMAIN event', event'[n].done
  PROVE  \/ n \in DOMAIN event /\ event[n].done
         \/ \E w \in Workers : proc[w].at = "mark" /\ n = proc[w].event
<1>t. EventOK
  BY TypeParts
<1>e. \A m \in DOMAIN event :
        event[m] \in [attempts : 0..MaxAttempts, due : BOOLEAN, done : BOOLEAN]
  BY <1>t DEF EventOK
<1>1. CASE \E m : event' = Put(event, m, [attempts |-> 0, due |-> TRUE, done |-> FALSE])
  BY <1>1 DEF Put
<1>2. ASSUME NEW m, NEW b, event' = [event EXCEPT ![m].due = b]
      PROVE  n \in DOMAIN event /\ event[n].done
  BY <1>2, <1>e
<1>3. CASE \E w \in Workers : ClaimDue(w)
  <2>1. event' = [m \in DOMAIN event |->
          IF m \in Due THEN [event[m] EXCEPT !.attempts = @ + 1, !.due = FALSE]
          ELSE event[m]]
    BY <1>3 DEF ClaimDue
  <2> QED BY <2>1, <1>e
<1>4. ASSUME NEW w \in Workers, MarkProcessed(w)
      PROVE  \/ n \in DOMAIN event /\ event[n].done
             \/ proc[w].at = "mark" /\ n = proc[w].event
  <2>1. proc[w].at = "mark" /\ event' = [event EXCEPT ![proc[w].event].done = TRUE]
    BY <1>4 DEF MarkProcessed
  <2> QED BY <2>1, <1>e
<1>5. CASE \E m \in Names : Receive(m) \/ WaitIsOver(m)
  BY <1>1, <1>2, <1>5 DEF Receive, WaitIsOver
<1>6. CASE \E w \in Workers : HandlerFails(w)
  BY <1>2, <1>6 DEF HandlerFails, MarkFailed
<1>7. CASE \E p \in Workers \cup Reconcilers : ObservedTooLate(p)
  BY <1>2, <1>7 DEF ObservedTooLate, MarkFailed
<1> QED
  BY <1>3, <1>4, <1>5, <1>6, <1>7, Writers DEF EventWriter

(* The message that is recorded is stored, whoever has stored it. *)
LEMMA RecordStores ==
  ASSUME TypeOK, NEW w \in Workers, RecordMessage(w), NEW x, x = proc[w].event.id
  PROVE  Recorded(x)'
<1>1. MsgOK
  BY TypeParts
<1>2. CASE RowsOf(x) = {}
  <2>1. /\ DOMAIN msg' = DOMAIN msg \cup {Len(msg) + 1}
        /\ msg'[Len(msg) + 1] = RowOf(proc[w].event)
    BY <1>2, MessageAdded
  <2>2. RowOf(proc[w].event).of = x /\ RowOf(proc[w].event).status # "deleted"
    <3>1. StatusFromAck(proc[w].event.ack) # "deleted"
      BY StatusFromAckTyped DEF MessageStatuses
    <3> QED BY <3>1 DEF RowOf
  <2> QED BY <2>1, <2>2 DEF Recorded, Rows
<1>3. CASE RowsOf(x) # {}
  <2>1. msg' = msg
    BY <1>3 DEF RecordMessage
  <2>2. PICK r \in DOMAIN msg : msg[r].waha = x
    BY <1>3 DEF RowsOf
  <2>3. x # None
    <3>1. ProcOK /\ EventOK
      BY TypeParts
    <3>2. proc[w].event \in Names /\ proc[w].event.kind = "message"
      BY <3>1, FrameFacts DEF RecordMessage, FrameOK, EventOK, Processes
    <3> QED BY <3>2, NameKinds, ChatAssumption
  <2>4. msg[r].status # "deleted"
    BY <1>1, <2>2, <2>3 DEF MsgOK
  <2> QED BY <2>1, <2>2, <2>4 DEF Recorded, Rows
<1> QED BY <1>2, <1>3

LEMMA StoredStep ==
  ASSUME TypeOK, [Next]_vars, NEW X, HandledAreStored(X), DoneAreStored(X),
         \A x \in X : Recorded(x) => Recorded(x)'
  PROVE  HandledAreStored(X)' /\ DoneAreStored(X)'
<1>d. session.deleted => session'.deleted
  BY DeletedStays
<1>1. ASSUME NEW w \in Workers, proc'[w].at \in Handled, NEW n, n = proc'[w].event,
             Message(n), n.id \in X, ~session'.deleted
      PROVE  Recorded(n.id)'
  <2>w. w \in Processes
    BY DEF Processes
  <2>1. ASSUME proc[w].at \in Handled, proc[w].event = n PROVE Recorded(n.id)'
    BY <1>d, <1>1, <2>1 DEF HandledAreStored
  <2>2. CASE proc'[w] = proc[w]
    BY <1>1, <2>1, <2>2
  <2>3. CASE Goes(w)
    <3>1. n = proc[w].event /\ (proc[w].at \in Handled \/ RecordMessage(w))
      BY <1>d, <1>1, <2>3 DEF Goes
    <3> QED BY <2>1, <3>1, RecordStores
  <2> QED BY <2>w, <2>2, <2>3, FrameSteps DEF Moved
<1>2. ASSUME NEW n \in DOMAIN event', Message(n), n.id \in X, event'[n].done, ~session'.deleted
      PROVE  Recorded(n.id)'
  <2>1. CASE n \in DOMAIN event /\ event[n].done
    BY <1>d, <1>2, <2>1 DEF DoneAreStored
  <2>2. CASE \E w \in Workers : proc[w].at = "mark" /\ n = proc[w].event
    BY <1>d, <1>2, <2>2 DEF HandledAreStored, Handled
  <2> QED BY <1>2, <2>1, <2>2, DoneSteps
<1>3. HandledAreStored(X)'
  <2> SUFFICES ASSUME NEW w \in Workers, proc'[w].at \in Handled,
                      Message(proc[w].event)', proc'[w].event.id \in X, ~session'.deleted
               PROVE  Recorded(proc[w].event.id)'
    BY DEF HandledAreStored
  <2>1. PICK n : n = proc'[w].event
    OBVIOUS
  <2>2. Message(n)
    BY <2>1 DEF Message
  <2>3. Recorded(n.id)'
    BY <1>1, <2>1, <2>2
  <2> QED BY <2>1, <2>3 DEF Recorded
<1>4. DoneAreStored(X)'
  BY <1>2 DEF DoneAreStored, Message
<1> QED BY <1>3, <1>4

LEMMA StoredInit == \A X : Init => HandledAreStored(X) /\ DoneAreStored(X)
BY DEF Init, HandledAreStored, DoneAreStored, Handled, Idle, Processes

(* What the contact wrote, or the owner on the phone, leaves the queue     *)
(* only when it is stored, and stays stored: for any number of workers,    *)
(* faults and sends.                                                       *)
THEOREM PhoneMessagesAreRecorded == Spec => []DoneAreStored(WahaIds \ Api)
<1>1. Init => CopyInv /\ HandledAreStored(WahaIds \ Api) /\ DoneAreStored(WahaIds \ Api)
  BY CopyInit, StoredInit
<1>2. /\ TypeOK /\ CopyInv
      /\ HandledAreStored(WahaIds \ Api) /\ DoneAreStored(WahaIds \ Api)
      /\ [Next]_vars
      => CopyInv' /\ HandledAreStored(WahaIds \ Api)' /\ DoneAreStored(WahaIds \ Api)'
  <2> SUFFICES ASSUME TypeOK, CopyInv, HandledAreStored(WahaIds \ Api),
                      DoneAreStored(WahaIds \ Api), [Next]_vars
               PROVE  /\ CopyInv' /\ HandledAreStored(WahaIds \ Api)'
                      /\ DoneAreStored(WahaIds \ Api)'
    OBVIOUS
  <2>1. \A x \in WahaIds \ Api : Recorded(x) => Recorded(x)'
    BY OthersStayRecorded
  <2>2. CopyInv'
    BY CopyStep
  <2> QED BY <2>1, <2>2, StoredStep
<1> QED BY <1>1, <1>2, InitTypes, TypeStep, PTL DEF Spec, Safety

-----------------------------------------------------------------------------
(* The application's messages, when WAHA sends no late error *)

(* A row has one send at a time.  A row that has taken another id than its *)
(* own has been sent, and nobody sends it again; so an id that a row has   *)
(* taken is never overwritten.  Only an ack that makes a message failed    *)
(* whose send is in progress breaks this.                                  *)
OneSendPerRow ==
  \A p, q \in Processes :
    proc[p].at \in Sending /\ proc[q].at \in Sending /\ proc[p].row = proc[q].row => p = q
SendsAreNotFailed ==
  \A p \in Processes : proc[p].at \in Sending => msg[proc[p].row].status # "failed"
SentOnce ==
  \A r \in DOMAIN msg : msg[r].waha \notin {None, msg[r].of} =>
    /\ msg[r].status \notin {"failed", "pending"}
    /\ \A p \in Processes : proc[p].at \in Sending => proc[p].row # r

SendInv == OneSendPerRow /\ SendsAreNotFailed /\ SentOnce

(* What a step does to a row that is there. *)
LEMMA RowFates ==
  ASSUME TypeOK, [Next]_vars, NEW r \in DOMAIN msg
  PROVE  \/ msg'[r].waha = msg[r].waha /\ msg'[r].status = msg[r].status
         \/ /\ msg'[r].waha = msg[r].waha
            /\ StatusStep(r, msg'[r].status) /\ msg'[r].status \in MessageStatuses
         \/ \E s \in Staff : /\ ConfirmStep(s) /\ r = proc[s].row
                             /\ msg'[r].status = SentStatus(msg[r].status)
         \/ msg'[r].waha = None /\ msg'[r].status = "deleted"
<1>t. MsgOK
  BY TypeParts
<1>1. CASE \E w \in Workers : RecordMessage(w) /\ RowsOf(proc[w].event.id) = {}
  BY <1>1, MessageAdded
<1>2. ASSUME NEW s \in Staff, NEW d \in Drafts, Send(s, d)
      PROVE  msg'[r] = msg[r]
  BY <1>2, DraftAdded
<1>3. ASSUME NEW q \in DOMAIN msg, NEW st \in MessageStatuses, StatusStep(q, st)
      PROVE  /\ msg'[r].waha = msg[r].waha
             /\ \/ msg'[r].status = msg[r].status
                \/ StatusStep(r, msg'[r].status) /\ msg'[r].status \in MessageStatuses
  <2>1. msg' = [msg EXCEPT ![q].status = st]
    BY <1>3 DEF StatusStep
  <2>2. \A t \in DOMAIN msg :
          /\ msg'[t].waha = msg[t].waha
          /\ msg'[t].status = IF t = q THEN st ELSE msg[t].status
    BY <1>t, <2>1, StatusUpdate
  <2> QED BY <1>3, <2>2
<1>4. ASSUME NEW s \in Staff, ConfirmStep(s)
      PROVE  \/ msg'[r] = msg[r]
             \/ r = proc[s].row /\ msg'[r].status = SentStatus(msg[r].status)
             \/ msg'[r].waha = None /\ msg'[r].status = "deleted"
  BY <1>t, <1>4, RowConfirmed DEF ConfirmStep, WahaIds
<1>5. ASSUME NEW s \in Staff, MarkRead(s)
      PROVE  msg'[r].waha = msg[r].waha /\ msg'[r].status = msg[r].status
  BY <1>t, <1>5, RowsSeen DEF MarkRead
<1> QED
  BY <1>1, <1>2, <1>3, <1>4, <1>5, RowSteps

(* What a new row is. *)
LEMMA NewRows ==
  ASSUME TypeOK, [Next]_vars, NEW r \in DOMAIN msg' \ DOMAIN msg
  PROVE  msg'[r].waha \in {None, msg'[r].of}
<1>t. MsgOK
  BY TypeParts
<1>1. ASSUME NEW w \in Workers, RecordMessage(w), RowsOf(proc[w].event.id) = {}
      PROVE  msg'[r].waha = msg'[r].of
  <2>1. /\ DOMAIN msg' = DOMAIN msg \cup {Len(msg) + 1}
        /\ msg'[Len(msg) + 1] = RowOf(proc[w].event)
    BY <1>1, MessageAdded
  <2> QED BY <2>1 DEF RowOf
<1>2. ASSUME NEW s \in Staff, NEW d \in Drafts, Send(s, d)
      PROVE  msg'[r].waha = None
  <2>1. /\ DOMAIN msg' = DOMAIN msg \cup {Len(msg) + 1}
        /\ msg'[Len(msg) + 1].waha = None
    BY <1>2, DraftAdded
  <2> QED BY <2>1
<1>3. CASE \E q \in DOMAIN msg : \E st \in MessageStatuses : StatusStep(q, st)
  BY <1>t, <1>3, StatusUpdate DEF StatusStep
<1>4. CASE \E s \in Staff : ConfirmStep(s)
  BY <1>t, <1>4, RowConfirmed DEF ConfirmStep, WahaIds
<1>5. CASE \E s \in Staff : MarkRead(s)
  BY <1>t, <1>5, RowsSeen DEF MarkRead
<1> QED
  BY <1>1, <1>2, <1>3, <1>4, <1>5, RowSteps

(* Who sends after a step. *)
LEMMA SenderSteps ==
  ASSUME TypeOK, [Next]_vars, NEW p \in Processes, proc'[p].at \in Sending
  PROVE  \/ proc[p].at \in Sending /\ proc'[p].row = proc[p].row /\ proc[p].row \in DOMAIN msg
         \/ /\ \A q \in Processes \ {p} : proc'[q] = proc[q]
            /\ \/ /\ proc'[p].row = Len(msg) + 1
                  /\ Len(msg) + 1 \notin DOMAIN msg
                  /\ msg'[Len(msg) + 1].status = "pending"
               \/ /\ proc'[p].row \in DOMAIN msg
                  /\ msg[proc'[p].row].status = "failed"
                  /\ msg'[proc'[p].row].status = "pending"
<1>t. MsgOK /\ ProcOK
  BY TypeParts
<1>r. proc[p].at \in Sending => proc[p].row \in DOMAIN msg
  BY <1>t, FrameFacts DEF FrameOK
<1>p. p \in Staff
  <2>1. TypeOK'
    BY TypeStep
  <2>2. FrameOK(p, proc[p])'
    BY <2>1 DEF TypeOK
  <2> QED BY <2>2 DEF FrameOK
<1>1. ASSUME NEW d \in Drafts, Send(p, d)
      PROVE  /\ proc'[p].row = Len(msg) + 1
             /\ Len(msg) + 1 \notin DOMAIN msg
             /\ msg'[Len(msg) + 1].status = "pending"
  <2>1. proc'[p].row = Len(msg) + 1 /\ Len(msg) + 1 \notin DOMAIN msg
    BY <1>1, SentRow
  <2>2. msg'[Len(msg) + 1].status = "pending"
    BY <1>p, <1>1, DraftAdded
  <2> QED BY <2>1, <2>2
<1>2. ASSUME NEW r, r = proc'[p].row, Retry(p, r)
      PROVE  r \in DOMAIN msg /\ msg[r].status = "failed" /\ msg'[r].status = "pending"
  <2>1. msg[r].status = "failed" /\ msg' = [msg EXCEPT ![r].status = "pending"]
    BY <1>2 DEF Retry
  <2>2. r \in DOMAIN msg
    <3>1. TypeOK'
      BY TypeStep
    <3>2. FrameOK(p, proc[p])'
      BY <3>1 DEF TypeOK
    <3>3. r \in DOMAIN msg'
      BY <1>2, <3>2 DEF FrameOK
    <3> QED BY <2>1, <3>3
  <2>3. msg'[r].status = "pending"
    <3>1. "pending" \in MessageStatuses
      BY DEF MessageStatuses
    <3>2. \A q \in DOMAIN msg : msg'[q].status = IF q = r THEN "pending" ELSE msg[q].status
      BY <1>t, <2>1, <2>2, <3>1, StatusUpdate
    <3> QED BY <2>2, <3>2
  <2> QED BY <2>1, <2>2, <2>3
<1>3. CASE proc'[p] = proc[p]
  BY <1>r, <1>3
<1>4. CASE Moved(p)
  <2>1. CASE proc'[p].at # "send"
    BY <1>r, <1>4, <2>1 DEF Moved, Goes
  <2>2. CASE proc'[p].at = "send"
    BY <1>1, <1>2, <1>4, <2>2 DEF Moved, Goes
  <2> QED BY <2>1, <2>2
<1> QED
  BY <1>3, <1>4, FrameSteps DEF Moved

(* Without late errors an ack never makes a message failed. *)
LEMMA AcksDoNotFail ==
  ASSUME TypeOK, -1 \notin Acks, NEW w \in Workers, proc[w].at = "ack"
  PROVE  StatusFromAck(proc[w].event.ack) # "failed"
<1>1. ProcOK /\ EventOK
  BY TypeParts
<1>2. proc[w].event \in Names /\ proc[w].event.kind = "ack"
  BY <1>1, FrameFacts DEF FrameOK, EventOK, Processes
<1>3. \A n \in Names : n.kind = "ack" => n.ack \in Acks
  <2>1. ASSUME NEW x \in WahaIds, NEW n \in MessageEvents(x) PROVE n.kind # "ack"
    BY DEF MessageEvents
  <2>2. ASSUME NEW x \in WahaIds, NEW n \in AckEvents(x) PROVE n.ack \in Acks
    BY DEF AckEvents
  <2>3. ASSUME NEW n \in StatusEvents PROVE n.kind # "ack"
    BY DEF StatusEvents
  <2> QED BY <2>1, <2>2, <2>3 DEF Names
<1>4. proc[w].event.ack # -1
  BY <1>2, <1>3
<1> QED BY <1>4 DEF StatusFromAck

(* What becomes of the row of a send that goes on. *)
LEMMA SendsStayNotFailed ==
  ASSUME TypeOK, -1 \notin Acks, OneSendPerRow, SendsAreNotFailed, [Next]_vars,
         NEW p \in Processes, proc[p].at \in Sending, proc'[p].at \in Sending,
         NEW r \in DOMAIN msg, r = proc[p].row
  PROVE  msg'[r].status # "failed"
<1>1. msg[r].status # "failed"
  BY DEF SendsAreNotFailed
<1>2. ASSUME StatusStep(r, msg'[r].status) PROVE msg'[r].status # "failed"
  <2>1. ASSUME NEW w \in Workers, proc[w].at = "ack",
               msg'[r].status = StatusFromAck(proc[w].event.ack)
        PROVE  msg'[r].status # "failed"
    BY <2>1, AcksDoNotFail
  <2>2. ASSUME NEW s \in Staff, MarkMessageFailed(s), proc[s].at = "refused", r = proc[s].row
        PROVE  FALSE
    <3>1. s = p
      BY <2>2 DEF OneSendPerRow, Processes
    <3>2. proc'[p].at = "idle"
      <4>1. ProcOK
        BY TypeParts
      <4>2. Goto(p, Idle)
        BY <2>2, <3>1 DEF MarkMessageFailed
      <4>3. proc'[p] = Idle
        BY <4>1, <4>2, NextFrame
      <4> QED BY <4>3 DEF Idle
    <3> QED BY <3>2
  <2> QED BY <1>2, <2>1, <2>2 DEF StatusStep
<1>3. SentStatus(msg[r].status) # "failed"
  BY <1>1 DEF SentStatus
<1> QED BY <1>1, <1>2, <1>3, RowFates

LEMMA SendStep ==
  ASSUME TypeOK, -1 \notin Acks, AcksGoForward, SendInv, [Next]_vars
  PROVE  SendInv'
<1>i. OneSendPerRow /\ SendsAreNotFailed /\ SentOnce
  BY DEF SendInv
<1>1. ASSUME NEW p \in Processes, NEW q \in Processes, p # q,
             proc'[p].at \in Sending, proc'[q].at \in Sending, proc'[p].row = proc'[q].row
      PROVE  FALSE
  <2>1. ASSUME NEW a \in Processes, NEW b \in Processes, a # b,
               proc'[b].at \in Sending, proc'[a].row = proc'[b].row,
               \A c \in Processes \ {a} : proc'[c] = proc[c],
               \/ proc'[a].row = Len(msg) + 1 /\ Len(msg) + 1 \notin DOMAIN msg
               \/ msg[proc'[a].row].status = "failed"
        PROVE  FALSE
    <3>1. proc[b] = proc'[b]
      BY <2>1
    <3>2. proc[b].row \in DOMAIN msg
      BY <2>1, <3>1, TypeParts, FrameFacts DEF FrameOK
    <3> QED BY <1>i, <2>1, <3>1, <3>2 DEF SendsAreNotFailed
  <2>2. CASE /\ proc[p].at \in Sending /\ proc'[p].row = proc[p].row
             /\ proc[q].at \in Sending /\ proc'[q].row = proc[q].row
    BY <1>i, <1>1, <2>2 DEF OneSendPerRow
  <2> QED BY <1>1, <2>1, <2>2, SenderSteps
<1>2. ASSUME NEW p \in Processes, proc'[p].at \in Sending
      PROVE  msg'[proc'[p].row].status # "failed"
  <2>1. CASE proc[p].at \in Sending /\ proc'[p].row = proc[p].row /\ proc[p].row \in DOMAIN msg
    BY <1>i, <1>2, <2>1, SendsStayNotFailed
  <2> QED BY <1>2, <2>1, SenderSteps
<1>3. ASSUME NEW r \in DOMAIN msg', msg'[r].waha \notin {None, msg'[r].of}
      PROVE  /\ msg'[r].status \notin {"failed", "pending"}
             /\ \A p \in Processes : proc'[p].at \in Sending => proc'[p].row # r
  <2>1. r \in DOMAIN msg /\ msg'[r].of = msg[r].of
    BY <1>3, NewRows, RowsKeepTheirs
  <2>2. CASE msg'[r].waha = msg[r].waha
    <3>1. /\ msg[r].status \notin {"failed", "pending"}
          /\ \A p \in Processes : proc[p].at \in Sending => proc[p].row # r
      BY <1>i, <1>3, <2>1, <2>2 DEF SentOnce
    <3>2. ASSUME StatusStep(r, msg'[r].status) PROVE msg'[r].status \notin {"failed", "pending"}
      <4>1. ASSUME NEW w \in Workers, proc[w].at = "ack", msg[r].status = proc[w].from,
                   msg'[r].status = StatusFromAck(proc[w].event.ack)
            PROVE  msg'[r].status \notin {"failed", "pending"}
        <5>1. msg'[r].status # "failed"
          BY <4>1, AcksDoNotFail
        <5>2. CanTransitionTo(msg[r].status, msg'[r].status)
          BY <4>1 DEF AcksGoForward, Processes
        <5>3. msg[r].status \in MessageStatuses
          BY <4>1, TypeParts, FrameFacts DEF FrameOK, Processes
        <5> QED BY <3>1, <5>1, <5>2, <5>3 DEF CanTransitionTo, Rank, MessageStatuses
      <4>2. ASSUME NEW s \in Staff, proc[s].at = "refused", r = proc[s].row PROVE FALSE
        BY <3>1, <4>2 DEF Processes
      <4>3. ASSUME NEW s \in Staff, Retry(s, r) PROVE FALSE
        BY <3>1, <4>3 DEF Retry
      <4> QED BY <3>2, <4>1, <4>2, <4>3 DEF StatusStep
    <3>3. msg'[r].status \notin {"failed", "pending"}
      <4>1. ASSUME NEW s \in Staff, ConfirmStep(s), r = proc[s].row PROVE FALSE
        BY <3>1, <4>1 DEF ConfirmStep, Processes
      <4> QED BY <1>3, <2>1, <3>1, <3>2, <4>1, RowFates
    <3>4. ASSUME NEW p \in Processes, proc'[p].at \in Sending, proc'[p].row = r PROVE FALSE
      BY <2>1, <3>1, <3>4, SenderSteps
    <3> QED BY <3>3, <3>4
  <2>3. ASSUME NEW s \in Staff, ConfirmStep(s), r = proc[s].row,
               msg'[r].status = SentStatus(msg[r].status)
        PROVE  /\ msg'[r].status \notin {"failed", "pending"}
               /\ \A p \in Processes : proc'[p].at \in Sending => proc'[p].row # r
    <3>1. SentStatus(msg[r].status) \notin {"failed", "pending"}
      BY DEF SentStatus
    <3>s. s \in Processes /\ proc[s].at \in Sending /\ proc'[s].at \notin Sending
      BY <2>3 DEF ConfirmStep, Processes
    <3>2. ASSUME NEW p \in Processes, proc'[p].at \in Sending, proc'[p].row = r PROVE FALSE
      <4>1. proc[p].at \in Sending => proc[p].row # r
        BY <1>i, <2>3, <3>s, <3>2 DEF OneSendPerRow
      <4>2. msg[r].status # "failed"
        BY <1>i, <2>3, <3>s DEF SendsAreNotFailed
      <4> QED BY <2>1, <3>2, <4>1, <4>2, SenderSteps
    <3> QED BY <2>3, <3>1, <3>2
  <2> QED BY <1>3, <2>1, <2>2, <2>3, RowFates
<1> QED
  BY <1>1, <1>2, <1>3 DEF SendInv, OneSendPerRow, SendsAreNotFailed, SentOnce

(* A message that is stored stays so: its row, or the application's row    *)
(* that took its id.                                                       *)
LEMMA AllStayRecorded ==
  ASSUME TypeOK, CopyInv, SendInv, [Next]_vars, NEW x \in WahaIds, Recorded(x)
  PROVE  Recorded(x)'
<1>t. MsgOK
  BY TypeParts
<1>1. PICK r \in Rows : msg[r].of = x \/ msg[r].waha = x
  BY DEF Recorded
<1>2. /\ r \in DOMAIN msg /\ msg[r].status # "deleted" /\ x # None
      /\ r \in DOMAIN msg' /\ msg'[r].of = msg[r].of
  BY <1>1, RowsKeepTheirs, ChatAssumption DEF Rows
<1>3. ASSUME msg'[r].waha = msg[r].waha, msg'[r].status # "deleted" PROVE Recorded(x)'
  BY <1>1, <1>2, <1>3 DEF Recorded, Rows
<1>4. ASSUME NEW s \in Staff, ConfirmStep(s) PROVE Recorded(x)'
  <2>1. PICK y : y = proc[s].id
    OBVIOUS
  <2>2. PICK t : t = proc[s].row
    OBVIOUS
  <2>3. y \in Api /\ y \in WahaIds /\ t \in Rows /\ t \in DOMAIN msg /\ Confirm(t, y)
    BY <1>4, <2>1, <2>2 DEF ConfirmStep, WahaIds, Rows
  <2>4. /\ DOMAIN msg' = DOMAIN msg
        /\ msg'[t].waha = y /\ msg'[t].status = SentStatus(msg[t].status)
        /\ \A q \in DOMAIN msg \ (RowsOf(y) \cup {t}) : msg'[q] = msg[q]
    BY <1>t, <2>3, RowConfirmed
  <2>5. SentStatus(msg[t].status) # "deleted"
    BY <2>3 DEF SentStatus, Rows
  <2>6. CASE r = t
    <3>1. msg[r].of = x
      <4>1. msg[r].waha \in {None, msg[r].of}
        BY <1>2, <1>4, <2>2, <2>6 DEF SendInv, SentOnce, ConfirmStep, Processes
      <4> QED BY <1>1, <1>2, <4>1
    <3> QED BY <1>2, <2>4, <2>5, <2>6, <3>1 DEF Recorded, Rows
  <2>7. CASE r # t /\ r \in RowsOf(y)
    <3>1. msg[r].waha = y /\ y # None
      BY <2>3, <2>7, ChatAssumption DEF RowsOf
    <3>2. Open(y)
      BY <1>4, <2>1, ConfirmedIsClosed DEF CopyInv
    <3>3. msg[r].of = y
      BY <1>2, <3>1, <3>2 DEF CopyInv, CopiesAreOwn
    <3>4. x = y
      BY <1>1, <3>1, <3>3
    <3> QED BY <2>3, <2>4, <2>5, <3>4 DEF Recorded, Rows
  <2>8. CASE r # t /\ r \notin RowsOf(y)
    BY <1>2, <1>3, <2>4, <2>8
  <2> QED BY <2>6, <2>7, <2>8
<1>5. CASE ~ \E s \in Staff : ConfirmStep(s)
  <2>1. msg'[r].waha = msg[r].waha /\ msg'[r].status # "deleted"
    <3>1. CASE \E w \in Workers : RecordMessage(w) /\ RowsOf(proc[w].event.id) = {}
      BY <1>2, <3>1, MessageAdded
    <3>2. ASSUME NEW s \in Staff, NEW d \in Drafts, Send(s, d) PROVE msg'[r] = msg[r]
      BY <1>2, <3>2, DraftAdded
    <3>3. ASSUME NEW q \in DOMAIN msg, NEW st \in MessageStatuses, StatusStep(q, st)
          PROVE  msg'[r].waha = msg[r].waha /\ msg'[r].status \in {msg[r].status, st}
      <4>1. msg' = [msg EXCEPT ![q].status = st]
        BY <3>3 DEF StatusStep
      <4>2. \A u \in DOMAIN msg :
              /\ msg'[u].waha = msg[u].waha
              /\ msg'[u].status = IF u = q THEN st ELSE msg[u].status
        BY <1>t, <4>1, StatusUpdate
      <4> QED BY <1>2, <4>2
    <3>4. "deleted" \notin MessageStatuses
      BY DEF MessageStatuses
    <3>5. ASSUME NEW s \in Staff, MarkRead(s)
          PROVE  msg'[r].waha = msg[r].waha /\ msg'[r].status = msg[r].status
      BY <1>t, <1>2, <3>5, RowsSeen DEF MarkRead
    <3> QED BY <1>2, <1>5, <3>1, <3>2, <3>3, <3>4, <3>5, RowSteps
  <2> QED BY <1>3, <2>1
<1> QED BY <1>4, <1>5

(* No event of a message leaves the queue before the message is stored,    *)
(* for any number of workers, members, retries and faults, unless WAHA     *)
(* takes back with an error ack what it had accepted.                      *)
THEOREM MessagesAreRecorded ==
  ASSUME -1 \notin Acks
  PROVE  Spec => []ProcessedIsRecorded
<1> DEFINE Inv == /\ CopyInv /\ AcksGoForward /\ SendInv
                  /\ HandledAreStored(WahaIds) /\ DoneAreStored(WahaIds)
<1>1. Init => Inv
  <2>1. Init => AcksGoForward /\ SendInv
    BY DEF Init, AcksGoForward, SendInv, OneSendPerRow, SendsAreNotFailed, SentOnce, Idle
  <2> QED BY <2>1, CopyInit, StoredInit
<1>2. TypeOK /\ Inv /\ [Next]_vars => Inv'
  <2> SUFFICES ASSUME TypeOK, Inv, [Next]_vars PROVE Inv'
    OBVIOUS
  <2>1. \A x \in WahaIds : Recorded(x) => Recorded(x)'
    BY AllStayRecorded
  <2>2. HandledAreStored(WahaIds)' /\ DoneAreStored(WahaIds)'
    BY <2>1, StoredStep
  <2> QED BY <2>2, CopyStep, AcksStep, SendStep
<1>3. TypeOK /\ Inv => ProcessedIsRecorded
  <2> SUFFICES ASSUME TypeOK, Inv PROVE ProcessedIsRecorded
    OBVIOUS
  <2>1. \A n \in DOMAIN event : Message(n) => n.id \in WahaIds
    BY NameKinds DEF TypeOK, Message
  <2> QED BY <2>1 DEF ProcessedIsRecorded, DoneAreStored, Message
<1> QED BY <1>1, <1>2, <1>3, InitTypes, TypeStep, PTL DEF Spec, Safety
=============================================================================
