SPECIFICATION Spec
CHECK_DEADLOCK FALSE
CONSTANTS
  Bytes = {0, 1}
  Zero = 0
  InitialCapacity = 3
  MaxCapacity = 5
  MaxChunk = 2
INVARIANTS
  TypeOK
PROPERTIES
  ImplementsByteQueue
