CONSTANTS
  None = None
  Keep = Keep
  Mixed = Mixed
  https = https
  ssh = ssh
  main = main
  next = next
  token = token
  KindOf <- KindOfCredential
  SchemeOf <- SchemeOfUrl
  Syncs = {s1, s2}
  Updates = {u1}
  Urls = {https, ssh}
  Branches = {main, next}
  Credentials = {token}
  NewRows <- MCNewRows
  Requests <- MCRequests
  Faults = {"fails", "killed"}
  MaxPushes = 1
SPECIFICATION Spec
SYMMETRY SyncSymmetry
CHECK_DEADLOCK FALSE
INVARIANTS RowInv GitUsesAssignedCredential SnapshotExact LoneTreeClean
PROPERTY LoneSyncsRecover
