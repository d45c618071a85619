\* update() under the spec's schema: user_vlobs UNIQUE on (user_id, version).
\* Two writers racing over one user, three versions and two blobs: every
\* interleaving of the two COUNT/INSERT pairs, including the duplicate INSERT.
CONSTANTS
  Users = {u1}
  Writers = {w1, w2}
  Blobs = {b1, b2}
  MaxVersion = 3
  MaxRows = 4
  UniqueVersion = TRUE
  None = None
SPECIFICATION Spec
INVARIANT TypeOK
INVARIANT VersionsGapless
PROPERTY ImplementsVersionedStore
