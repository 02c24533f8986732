\* One run, two executions that may execute it, and one fault.
CONSTANTS
  e1 = e1
  e2 = e2
  p1 = p1
  p2 = p2
  x1 = x1
  v1 = v1
  none = none
  NoExecutor = none
  Executors = {e1, e2}
  Deployers = {p1}
  Deleters = {x1}
  Readers = {v1}
  MaxDeployments = 1
  MaxRuns = 1
  MaxAttempts = 2
  MaxFaults = 1
SPECIFICATION DeploymentFairSpec
INVARIANTS AttemptsBounded
PROPERTIES EndedRunIsFinal ActiveRunEnds
\* Every request was served: nothing is left to do.
CHECK_DEADLOCK FALSE
