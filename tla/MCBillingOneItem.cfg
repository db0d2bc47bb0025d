CONSTANTS
  Items = {1}
  Prepaid = {1}
  PeriodStart <- OneItem
  LastIndex = 2
  LeadDays = {1}
  EndDates = {1, 2}
  NoEnd = NoEnd
  Runs = {w1, w2}
  Batch = 200
  MaxRounds = 2
  MaxDay = 3
  MaxFaults = 1
SPECIFICATION Spec
INVARIANTS TypeOK AdvancedIsBilled EndedIsBilled
PROPERTY DueIsBilled
CHECK_DEADLOCK FALSE
