SPECIFICATION Spec
CONSTANTS
  Chunk = {k1, k2}
  Slot = {s1, s2}
  Heap = Heap
  Null = Null
  NoError = NoError
INVARIANTS NeverFreesChunk
CHECK_DEADLOCK FALSE
