SPECIFICATION Spec
CONSTANTS
  File <- SmallFile
  Dir <- SmallDir
  PageSize = 2
  NoCopyApi = {TRUE, FALSE}
  MaxVersion = 1
  MaxFaults = 1
INVARIANTS TypeOK FilesAreKept HandlesKeepObject ListIsComplete RenamedWhenZero RepeatedRenameWorks
PROPERTIES DirectoriesAreKept
CHECK_DEADLOCK FALSE
