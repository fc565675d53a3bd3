SPECIFICATION Spec
CONSTANTS
  Value = {0, 1}
  ReadOnly = {0}
  Name = {a, b}
  NoCopyApi = {TRUE, FALSE}
  SafeDisk = {TRUE, FALSE}
  Calls <- MCCalls
  MaxChanges = 2
SYMMETRY NamesAreAlike
INVARIANTS TypeOK ChangesAreKept OpenFileAgrees
