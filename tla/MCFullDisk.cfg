SPECIFICATION InOrderSpec
CONSTANTS
  MaxSize = 4
  Cap = 8
  MaxRef = 2
  Zero = 0
  Byte = {0, 1, 2}
  Initial = 1
  SafeDisk = {FALSE}
  HeadersMayFail = FALSE
  Prefetch = 2
  MultipartSize = 2
  MinPart = 1
  MaxObject = 2
INVARIANT WrittenInOrderIsWhole
