CONSTANTS
  Byte = {z, a}
  Zero = z
  NoByte = none
  MaxSize = 4
  MaxData = 2
  MaxFaults = 1
  mChunkSize = 2
  ChunkHeaderSize = 2
  ReencryptChecks = FALSE
SPECIFICATION Spec
INVARIANTS TypeOK ReadsWhatWasWritten ReadsComplete SizeKnown Reopens
PROPERTY ImplementsPlainFile
CHECK_DEADLOCK FALSE
