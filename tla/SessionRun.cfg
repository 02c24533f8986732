\* Two runs one after the other, and two handlers and the sweep that race on them.
CONSTANTS
  r1 = r1
  r2 = r2
  h1 = h1
  h2 = h2
  none = none
  sweeper = sweeper
  NoRun = none
  Sweeper = sweeper
  Operations = {}
  NoOperation = none
  Runs = {r1, r2}
  Handlers = {h1, h2}
  MaxFlipSeq = 1
  MaxCrashes = 1
SPECIFICATION Spec
INVARIANTS TypeOK OneActiveRun SessionFollowsRun OneDispatcher FinalEventsTrue
PROPERTIES HydrationFailsOnlyUnclaimed TerminalIsFinal ImplementsLifecycle
SYMMETRY Symmetry
\* Both runs ended and their events were persisted: nothing is left to do.
CHECK_DEADLOCK FALSE
