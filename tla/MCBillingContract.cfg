CONSTANTS
  Items = {1, 2}
  Prepaid = {1}
  PeriodStart <- TwoFrequencies
  LastIndex = 1
  LeadDays = {0, 2}
  EndDates = {1}
  NoEnd = NoEnd
  Runs = {w1, w2}
  Batch = 200
  MaxRounds = 2
  MaxDay = 2
  MaxFaults = 0
SPECIFICATION Safety
INVARIANTS PeriodBilledOnce AnnouncedAtMostOnce
SYMMETRY Symmetry
CHECK_DEADLOCK FALSE
