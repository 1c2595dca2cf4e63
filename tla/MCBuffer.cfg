SPECIFICATION Spec
CONSTANTS
  Size = 3
  Byte = {0, 1}
  Zero = 0
  MaxChunk = 4
  MaxAmount = 5
  Chunks <- MCChunks
  Amounts <- MCAmounts
INVARIANT TypeOK
PROPERTY IsFifo
