SPECIFICATION StoreSpec
CONSTANTS
  Checkpoint = {c1, c2}
  Putter = {p1, p2, p3}
  None = None
  RootAtStart = {FALSE}
  Faults <- EveryFault
  MaxPowerLosses = 1
SYMMETRY Symmetry
INVARIANTS
  PublishedWhole
  DurableStays
  NoLitter
PROPERTIES
  ImplementsArchive
  DamageFailsClosed
CHECK_DEADLOCK FALSE
