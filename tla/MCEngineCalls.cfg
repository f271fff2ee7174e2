CONSTANTS
  e1 = e1  e2 = e2  e3 = e3
  c1 = c1
  r1 = r1  r2 = r2
  p1 = p1  p2 = p2
  None = None
  Projects = {p1, p2}
  Runs = {r1, r2}
  ProjectOf <- CallsProjectOf
  Executions = {e1, e2, e3}
  GitExecutions = {e3}
  Cancels = {c1}
  RunOf <- CallsRunOf
  NumStages = 2
  Enabled <- CallsEnabled
  MaxConcurrency = 1
  Deletable = {p1}
  MaxDbErrors = 0
  MaxCrashes = 0
SPECIFICATION FairSpec
INVARIANTS ProjectExclusive ConcurrencyBound
PROPERTIES StageResultIsFinal DuplicateNeverInterrupts ExecutionsReturn RunningRunSettles
