SPECIFICATION Spec
CONSTANTS
  Kinds = {"descriptors", "owners", "values"}
  Fds = {3, 4, 5, 6}
  Vars = {v1, v2}
  Blocks = {b1, b2}
  Handles = {1, 2, 3, 4}
  OwnerVars = {o1, o2}
  Interval = 2
  LastTime = 4
  CharBit = 2
  SunPathSize = 3
  LastTick = 15
  Second = 100
  WordSize = 1024
  nullopt = nullopt
  LogicError = LogicError
SYMMETRY Symmetry
INVARIANTS
  DescriptorsOwnedOnce
  DescriptorsPrepared
  OwnersEndActivities
  ValuesInvert
\* A sample has no successor, nor need a program at the bounds.
CHECK_DEADLOCK FALSE
