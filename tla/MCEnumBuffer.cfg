SPECIFICATION BufferSpec
CONSTANTS
  b1 = b1
  b2 = b2
  b3 = b3
  b4 = b4
  NULL = NULL
  Blocks <- MCBlocks
  FirstCap = 1
INVARIANTS
  EntriesOwnTheHeap
