\* Two requests of any kind that race, one of which may be lost, on a session of two runs.
CONSTANTS
  r1 = r1
  r2 = r2
  h1 = h1
  o1 = o1
  o2 = o2
  none = none
  sweeper = sweeper
  NoRun = none
  Sweeper = sweeper
  NoOperation = none
  Handlers = {}
  MaxFlipSeq = 0
  Runs = {r1, r2}
  Operations = {o1, o2}
  MaxCrashes = 1
  Kinds = {"archive", "unarchive", "delete"}
SPECIFICATION LifecycleFairSpec
PROPERTIES DeletionCompletes
CHECK_DEADLOCK FALSE
