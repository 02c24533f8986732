\* One command, and an object that loses its memory once.
CONSTANTS
  c1 = c1
  c2 = c2
  none = none
  Commands = {c1}
  NoCommand = none
  MaxEvictions = 1
SPECIFICATION DriverFairSpec
PROPERTIES QueuedIsHanded GoneIsSettled
CHECK_DEADLOCK FALSE
