\* Two commands, one of which may be under way while the other is taken.
CONSTANTS
  c1 = c1
  c2 = c2
  none = none
  Commands = {c1, c2}
  NoCommand = none
  MaxEvictions = 1
SPECIFICATION DriverSpec
INVARIANTS DriverTypeOK HandedOnce ToldIsKept
SYMMETRY Symmetry
CHECK_DEADLOCK FALSE
