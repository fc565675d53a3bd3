SPECIFICATION FairSpec
CONSTANTS
  Thread = {t1, t2}
  Path = {p, q}
  Handle = {h1, h2}
  Ent = {e1, e2}
  MaxLen = 0
  MaxObjects = 1
  SafeDisk = {TRUE}
  CacheDir = FALSE
  UnlinkMayFail = FALSE
  NoThread = NoThread
  NoPath = NoPath
  NoHandle = NoHandle
  NoEnt = NoEnt
INVARIANTS TypeOK ReferencesAddUp OneCopyPerPath HandleUsesItsCopy
PROPERTY EveryCallReturns
