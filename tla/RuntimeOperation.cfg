\* One operation, one run, and a lost execution, the operation's own included.
CONSTANTS
  r1 = r1
  r2 = r2
  h1 = h1
  o1 = o1
  o2 = o2
  none = none
  sweeper = sweeper
  NoRun = none
  Sweeper = sweeper
  NoOperation = none
  Handlers = {h1}
  Runs = {r1}
  Operations = {o1}
  MaxFlipSeq = 0
  MaxCrashes = 1
SPECIFICATION OperationFairSpec
INVARIANTS OperationTypeOK FinalEventsTrue
PROPERTIES OperationGivesBack StrandedRunEnds FinalEventPersisted ProjectionRepaired
CHECK_DEADLOCK FALSE
