CONSTANTS
  i1 = i1
  o1 = o1
  Orgs = {o1}
  Owner <- MCOwner
  Invoices = {i1}
  Total <- MCTotal
  Rupiah = 2
  MaxSessions = 2
  Anonymous <- NoSessions
  Beneficiaries = {i1}
  Handlers = {h1, h2}
  Shoppers = {c1}
  Sources = {"webhook", "manual"}
  ManualAmounts = {3}
  MaxFaults = 1
SPECIFICATION Spec
PROPERTIES KeepsCustody UsesLedger PaymentIsDecided 
CHECK_DEADLOCK FALSE
