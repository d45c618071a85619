\* The workspace manifest of one client, saved and read back.
CONSTANTS
  Kinds = {"workspace"}
  Names = {n1, n2}
  EntryIds = {i1, i2}
  WIds = {w1, w2}
  WVals = {v1, v2}
  MaxSize = 1
  MaxTime = 1
  MaxEntries = 2
  MaxVersion = 1
  Authors = {a1}
  Parents = {p1}
  None = None
  LoadError = LoadError
  TypeError = TypeError
SPECIFICATION Spec
INVARIANT ReloadRestoresSaved
