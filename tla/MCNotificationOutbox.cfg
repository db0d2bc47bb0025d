CONSTANTS
  Events = {e1, e2}
  Unruled = {e2}
  Muted = {e1}
  Workers = {w1, w2}
  Clerks = {}
  MaxAttempts = 2
  Batch = 2
  NoEvent = NoEvent
  MaxLogs = 2
  MaxFaults = 0
SPECIFICATION Spec
PROPERTY EventIsDecided
CHECK_DEADLOCK FALSE
