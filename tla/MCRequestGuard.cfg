CONSTANTS
  MaxBytes = 3
  ChunkSize <- MCChunkSize
  MaxChunks = 3
  MaxParts = 2
SPECIFICATION Spec
INVARIANTS
  OneResponse
  CapIsTransparent
  OversizedIsAnswered
CHECK_DEADLOCK FALSE
