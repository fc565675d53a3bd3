SPECIFICATION Spec
CONSTANTS
  Thread = {t1, t2}
  Name = {a, b}
  Fixed = {b}
  CacheSize = 1
  CacheNoObject = TRUE
  Expires = TRUE
  Failing = {a}
  MaxChanges = 2
  NoName = NoName
  NoEntry = NoEntry
INVARIANTS CachedIsCurrent OpenSeesCurrentObject SizeIsBounded
SYMMETRY Symmetry
