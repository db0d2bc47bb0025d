CONSTANTS
  Items = {1, 2}
  Prepaid = {1, 2}
  PeriodStart <- SameFrequency
  LastIndex = 2
  LeadDays = {0}
  EndDates = {}
  NoEnd = NoEnd
  Runs = {w1, w2}
  Batch = 200
  MaxRounds = 3
  MaxDay = 4
  MaxFaults = 0
SPECIFICATION Safety
INVARIANT AdvancedIsBilled
CHECK_DEADLOCK FALSE
