SPECIFICATION CacheSpec
CONSTANTS
  MaxSize = 2
  Cap = 4
  MaxRef = 1
  Zero = 0
  Byte = {0, 1, 2}
  Written = 2
  Initial = 1
  SafeDisk = {TRUE}
  HeadersMayFail = FALSE
  Prefetch = 1
  MultipartSize = 2
  MinPart = 1
  MaxObject = 2
  DiskFills = TRUE
  MaxEvents = 1
INVARIANTS CacheTypeOK CachedIsObject
