SPECIFICATION Spec
CONSTANTS
  Bytes = {0, 1}
  Zero = 0
  InitialCapacity = 3
  MaxCapacity = 5
  MaxChunk = 2
INVARIANTS
  WritesInCapacity
