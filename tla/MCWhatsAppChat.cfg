CONSTANTS
  in = in
  d1 = d1
  w1 = w1
  w2 = w2
  r1 = r1
  s1 = s1
  ph = ph
  out = out
  Workers = {w1, w2}
  Reconcilers = {r1}
  Staff = {s1}
  Inbound = {in}
  Phone = {ph}
  Api = {out}
  Drafts = {d1}
  Documents = {}
  Statuses = {"WORKING", "STARTING", "STOPPED"}
  FirstAcks <- MCFirstAcks
  Acks <- MCAcks
  KnownPhone = FALSE
  MaxAttempts = 2
  MaxChanges = 2
  Plans <- MCPlans
  None = None
SPECIFICATION Spec
INVARIANTS TypeOK CountedOnce ProcessedIsRecorded NoticePerDisconnect
PROPERTIES ProgressNeverMovesBack EventsAreDecided StatusConverges
CHECK_DEADLOCK FALSE
