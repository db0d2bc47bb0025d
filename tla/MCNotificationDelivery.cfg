CONSTANTS
  Events = {e1}
  Unruled = {}
  Muted = {}
  Workers = {w1, w2}
  Clerks = {s1}
  MaxAttempts = 2
  Batch = 2
  NoEvent = NoEvent
  MaxLogs = 2
  MaxFaults = 1
SPECIFICATION Safety
INVARIANTS TypeOK OnlyUnansweredSentAgain SucceededIsDelivered
SYMMETRY Symmetry
CHECK_DEADLOCK FALSE
