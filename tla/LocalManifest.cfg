\* One entry of a client, a file, folder or user manifest: two child names and
\* ids, two workspace ids with two values each, up to two entries, a clock
\* of two ticks; edits, sync acknowledgements, saves and restarts in any order.
CONSTANTS
  Kinds = {"file", "folder", "user"}
  Names = {n1, n2}
  EntryIds = {i1, i2}
  WIds = {w1, w2}
  WVals = {v1, v2}
  MaxSize = 1
  MaxTime = 1
  MaxEntries = 2
  MaxVersion = 1
  Authors = {a1}
  Parents = {p1}
  None = None
  LoadError = LoadError
  TypeError = TypeError
SPECIFICATION Spec
INVARIANT TypeOK
INVARIANT EvolveChildrenCorrect
INVARIANT EvolveWorkspacesCorrect
INVARIANT ReloadRestoresSaved
