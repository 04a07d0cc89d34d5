CONSTANTS
  ann = ann
  bob = bob
  t1 = t1
  h1 = h1
  h2 = h2
  NoUser = NoUser
  Unused = Unused
  Removed = Removed
  Same = Same
  NoCopy = NoCopy
  NoPatch = NoPatch
  User = {ann, bob}
  Owners = {bob}
  Task = {t1}
  Due = {t1}
  SeedRows <- MCSeedRows
  Bodies <- MCBodies
  Patches <- MCPatches
  Slot = {h1, h2}
  MaxEvents = 3
  MaxOverlaps = 1
  MaxDisorder = 1
SPECIFICATION Spec
SYMMETRY Symmetry
INVARIANTS TypeOK TrailChains DoneMatchesCompletion MergedEndsDone NoticesAreDistinct NoticesAreTrue
PROPERTY CancelledStays
