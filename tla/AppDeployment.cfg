\* Two deploy requests that race, and a deletion, over two runs and two deployments.
CONSTANTS
  e1 = e1
  e2 = e2
  p1 = p1
  p2 = p2
  x1 = x1
  v1 = v1
  none = none
  NoExecutor = none
  Executors = {e1}
  Deployers = {p1, p2}
  Deleters = {x1}
  Readers = {v1}
  MaxDeployments = 2
  MaxRuns = 2
  MaxAttempts = 2
  MaxFaults = 0
SPECIFICATION DeploymentSpec
INVARIANTS DeploymentTypeOK SuccessHasUrl
SYMMETRY Symmetry
\* Every request was served: nothing is left to do.
CHECK_DEADLOCK FALSE
