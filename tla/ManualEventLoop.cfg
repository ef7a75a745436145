SPECIFICATION Spec
CONSTANTS
  MaxTime = 2
  MaxTasks = 4
INVARIANTS
  TypeOK
PROPERTIES
  ImplementsContract
