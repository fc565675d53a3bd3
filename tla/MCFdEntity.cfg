SPECIFICATION Spec
CONSTANTS
  MaxSize = 3
  Cap = 6
  MaxRef = 2
  Zero = 0
  Byte = {0, 1, 2}
  Initial = 1
  SafeDisk = {TRUE}
  HeadersMayFail = TRUE
  Prefetch = 2
  MultipartSize = 2
  MinPart = 1
  MaxObject = 2
INVARIANTS TypeOK CopyIsWanted FlushedIsUploaded ReadsReturnWanted FlushCanSucceed
