CONSTANTS
  o1 = o1
  o2 = o2
  i1 = i1
  i2 = i2
  Orgs = {o1, o2}
  Invoices = {i1, i2}
  Owner <- MCOwner
  Refs = {r1, r2}
  Amounts = {1}
  Recorders = {q1}
  Clerks = {c1, c2}
  MaxAdjusted = 0
  None = None
SPECIFICATION Spec
INVARIANTS TypeOK RemainingNonNegative ReadBalanceIsLowerBound CollisionsAreReal PaidInMatchesEntries
PROPERTY RequestsAreAnswered
CHECK_DEADLOCK FALSE
