CONSTANTS
  p1 = p1  p2 = p2  q1 = q1  q2 = q2  q3 = q3  c1 = c1
  None = None
  Projects = {p1, p2}
  Configured <- MCConfigured
  Requests = {q1, q2, q3}
  CallsOf <- MCCallsOf
  Commits = {c1}
  PageSize = 1
SPECIFICATION Spec
INVARIANTS RunsInv RetrySameSnapshot CancelConfirmed ListComplete
PROPERTIES SnapshotWhole ConfigNeverLost
