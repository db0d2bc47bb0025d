----------------------- MODULE MCNotificationDelivery ------------------------
(* Few events, workers and requests of staff, all of them alike. *)
EXTENDS NotificationDelivery, TLC

Symmetry == Permutations(Workers) \cup Permutations(Clerks)
=============================================================================
