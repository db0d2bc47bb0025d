CONSTANTS
  Events = {e1}
  Unruled = {}
  Muted = {}
  Workers = {w1}
  Clerks = {}
  MaxAttempts = 2
  Batch = 2
  NoEvent = NoEvent
  MaxLogs = 2
  MaxFaults = 0
SPECIFICATION Safety
INVARIANT OneMessagePerEvent
CHECK_DEADLOCK FALSE
