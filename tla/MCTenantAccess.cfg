CONSTANTS
  r1 = r1
  r2 = r2
  q1 = q1
  q2 = q2
  v1 = v1
  v2 = v2
  k1 = k1
  k2 = k2
  c1 = c1
  c2 = c2
  c3 = c3
  i1 = i1
  i2 = i2
  i3 = i3
  i4 = i4
  f1 = f1
  f2 = f2
  free = free
  Runners = {r1, r2}
  Requests = {q1, q2}
  Workspaces = {v1, v2}
  Companies = {k1, k2}
  Contracts = {c1, c2, c3}
  CompanyOf <- MCCompanyOf
  Invoices = {i1, i2, i3, i4}
  ContractOf <- MCContractOf
  Deliveries = {i3}
  Postpaid <- MCPostpaid
  Prepaid <- MCPrepaid
  Free = {free}
  FirstLink <- MCFirstLink
  Begun = {c2, c3}
  Plans <- MCPlans
  Nobody = Nobody
SPECIFICATION Spec
INVARIANTS TypeOK OneNoticePerChange SyncedIsRight
PROPERTIES OverdueIsSuspended KeepsAccess
CHECK_DEADLOCK FALSE
