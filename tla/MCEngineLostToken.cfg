CONSTANTS
  e1 = e1  e2 = e2  e3 = e3
  c1 = c1
  r1 = r1  r2 = r2 
  p1 = p1  p2 = p2
  None = None
  Projects = {p1}
  Runs = {r1}
  ProjectOf <- DuplicatesProjectOf
  Executions = {e1, e2, e3}
  GitExecutions = {}
  Cancels = {c1}
  RunOf <- DuplicatesRunOf
  NumStages = 2
  Enabled <- DuplicatesEnabled
  MaxConcurrency = 2
  Deletable = {}
  MaxDbErrors = 0
  MaxCrashes = 0
SPECIFICATION Spec
INVARIANT ExecutingRunIsCancellable
