CONSTANTS
  Byte = {z, a}
  Zero = z
  NoByte = none
  MaxSize = 4
  MaxData = 2
  MaxFaults = 1
  mChunkSize = 2
  ChunkHeaderSize = 2
  ReencryptChecks = FALSE
SPECIFICATION Spec
INVARIANT TruncateRecovers
CHECK_DEADLOCK FALSE
