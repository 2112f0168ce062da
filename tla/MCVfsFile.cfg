CONSTANTS
  Byte = {nul, lf, cr, a}
  Char = {lf, cr, a}
  Zero = nul
  LF = lf
  CR = cr
  NoByte = none
  MaxSize = 3
  MaxData = 2
  MaxFaults = 1
  MaxLen = 3
  BCTBX_VFS_PRINTF_PAGE_SIZE = 3
  BCTBX_VFS_GETLINE_PAGE_SIZE = 3
  Modes <- MCModes
SPECIFICATION Spec
INVARIANTS TypeOK CachedLinesAreFresh
PROPERTY ImplementsStream
CHECK_DEADLOCK FALSE
