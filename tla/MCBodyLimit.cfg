CONSTANTS
  Null = Null
  Byte = {0, 1}
  Chunk <- MCChunk
  Declared <- MCDeclared
  Limit = 3
  MaxSent = 5
  MaxReceives = 2
CHECK_DEADLOCK FALSE
SPECIFICATION FairBody
INVARIANTS BufferBounded WholeBody RefusalsAreJust
PROPERTIES EveryRequestEnds
