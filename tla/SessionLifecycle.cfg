\* Two requests of any kind that race with the dispatch of a run and its driver.
CONSTANTS
  r1 = r1
  r2 = r2
  h1 = h1
  o1 = o1
  o2 = o2
  none = none
  sweeper = sweeper
  NoRun = none
  Sweeper = sweeper
  NoOperation = none
  Handlers = {h1}
  MaxFlipSeq = 0
  Runs = {r1}
  Operations = {o1, o2}
  MaxCrashes = 0
  Kinds = {"archive", "unarchive", "delete"}
SPECIFICATION LifecycleSpec
INVARIANTS LifecycleTypeOK
PROPERTIES TerminatedIsFinal
SYMMETRY Symmetry
CHECK_DEADLOCK FALSE
