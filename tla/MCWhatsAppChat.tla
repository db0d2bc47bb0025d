--------------------------- MODULE MCWhatsAppChat ---------------------------
(* The behaviours are of the kinds that MCPlans lists, one process or      *)
(* webhook left out where it adds nothing to the case.                     *)
EXTENDS WhatsAppChat

CONSTANTS in, ph, out, d1, w1, w2, r1, s1

MCFirstAcks == {-1, 1}
MCAcks == {2, 3}

Plan(active, ids, hooks, changes, faults) ==
  [active |-> active, ids |-> ids, hooks |-> hooks, changes |-> changes, faults |-> faults]

Copies(x, k) == {n \in MessageEvents(x) : n.copy \in k}

MCPlans ==
  {\* a message of the contact, with two workers and a member
   Plan({w1, w2, s1}, {in}, Copies(in, {1, 2}), 0, 0),
   \* the same, with a crash or an error
   Plan({w1, w2}, {in}, Copies(in, {1, 2}), 0, 1),
   \* a message a member sends, its acks out of order, and a fault
   Plan({w1, w2, s1}, {out, d1}, AckEvents(out), 0, 1),
   \* an event that stores a copy of a message a member sends
   Plan({w1, s1}, {out, d1}, Copies(out, {1, 2}) \cup AckEvents(out), 0, 1),
   \* a message the owner sends on the phone, and perhaps a member again
   Plan({w1, s1}, {ph, out}, Copies(ph, {1}) \cup AckEvents(ph), 0, 0),
   \* changes of the session, with a crash or an error
   Plan({w1, r1}, {}, StatusEvents, 2, 1),
   \* changes of the session, by a member too
   Plan({w1, r1, s1}, {}, StatusEvents, 2, 0)}
=============================================================================
