CONSTANTS
  i1 = i1
  Invoices = {i1}
  Total <- MCTotal
  Rupiah = 2
  MaxSessions = 1
  Anonymous <- NoSessions
  Beneficiaries = {i1}
  Handlers = {h1, h2}
  Shoppers = {c1}
  Sources = {"webhook", "sync", "manual"}
  ManualAmounts = {1}
  MaxFaults = 0
SPECIFICATION Safety
INVARIANT RefundHasNoPayment
CHECK_DEADLOCK FALSE
