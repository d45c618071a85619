\* update() under the UNIQUE schema: what a version conflict between two
\* writers leaves behind on the worker's shared connection.
CONSTANTS
  Users = {u1}
  Writers = {w1, w2}
  Blobs = {b1, b2}
  MaxVersion = 3
  MaxRows = 4
  UniqueVersion = TRUE
  None = None
SPECIFICATION Spec
INVARIANT DbErrorOnlyOnTakenVersion
