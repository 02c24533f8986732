\* Two messages that name the command, two consumers, faults, and a reset.
CONSTANTS
  c1 = c1
  c2 = c2
  m1 = m1
  m2 = m2
  p1 = p1
  redriver = redriver
  none = none
  Consumers = {c1, c2}
  Producers = {p1, redriver}
  Redriver = redriver
  Messages = {m1, m2}
  NoMessage = none
  MaxRetries = 1
  MaxFaults = 2
  MaxResets = 1
SPECIFICATION CommandFairSpec
INVARIANTS CommandTypeOK QueuedIsDeliverable
PROPERTIES FencedWrites FaultlessCommandEnds
\* The command ended: nothing is left to do.
CHECK_DEADLOCK FALSE
