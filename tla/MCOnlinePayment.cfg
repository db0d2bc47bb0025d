CONSTANTS
  i1 = i1
  Invoices = {i1}
  Total <- MCTotal
  Rupiah = 2
  MaxSessions = 2
  Anonymous <- FirstSession
  Beneficiaries = {i1}
  Handlers = {h1, h2}
  Shoppers = {c1}
  Sources = {"webhook", "sync", "manual"}
  ManualAmounts = {2, 3}
  MaxFaults = 1
SPECIFICATION Safety
INVARIANTS TypeOK BalanceOK RefundedIsNotRecorded CreditIsRecordedAmount
  DokuPaymentSettles AckedIsAccounted NoticeAtMostOnce
PROPERTY PaymentsAreFinal
SYMMETRY Symmetry
CHECK_DEADLOCK FALSE
