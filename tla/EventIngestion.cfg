\* Four events, two of them updates of one tool call and the last the end of the run, over
\* two connections, and one fault.
CONSTANTS
  Final = 4
  Replays <- MCReplays
  MaxConnections = 2
  MaxFaults = 1
SPECIFICATION FairSpec
PROPERTIES ImplementsDriverLog EmittedIsStored
\* Everything was sent and answered: nothing is left to do.
CHECK_DEADLOCK FALSE
