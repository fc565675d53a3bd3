SPECIFICATION Spec
CONSTANTS
  MaxSize = 1
  Cap = 2
  MaxRef = 2
  Zero = 0
  Byte = {0, 1, 2}
  Initial = 1
  SafeDisk = {TRUE}
  HeadersMayFail = FALSE
  Prefetch = 2
  MultipartSize = 2
  MinPart = 1
  MaxObject = 2
INVARIANT ChangedFileIsModified
