CONSTANTS
  None = None
  Keep = Keep
  Mixed = Mixed
  https = https
  ssh = ssh
  main = main
  next = next
  token = token
  KindOf <- KindOfCredential
  SchemeOf <- SchemeOfUrl
  Syncs = {s1, s2}
  Updates = {u1}
  Urls = {https}
  Branches = {main, next}
  Credentials = {}
  NewRows <- BranchNewRows
  Requests <- BranchRequests
  Faults = {}
  MaxPushes = 0
SPECIFICATION Spec
CHECK_DEADLOCK FALSE
PROPERTY BranchIsCheckedOut
