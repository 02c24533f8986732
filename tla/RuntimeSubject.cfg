CONSTANTS
  d1 = d1
  d2 = d2
  p1 = p1
  m1 = m1
  m2 = m2
  o1 = o1
  o2 = o2
  none = none
  theSession = theSession
  NoOwner = none
  TheSession = theSession
  Kinds = {"pet"}
  Dispatchers = {d1}
  Prewarmers = {p1}
  Maintainers = {m1}
  Operators = {o1}
  Faults = {"lost", "activation", "conversation", "stop", "checkpoint", "destroy"}
  MaxFaults = 1
  MaxWrites = 1
SPECIFICATION SubjectSpec
INVARIANTS SubjectTypeOK RecycleSparesRuns RecycleSavesFiles ActiveIsRestored ColdIsTornDown
CHECK_DEADLOCK FALSE
