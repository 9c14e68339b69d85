CONSTANTS
  Tabs = {t1, t2}
  Entries = {1, 2}
  Media = {1}
  Retries = {r1}
  HasLocks = TRUE
  MaxTaps = 1
  MaxFaults = 1
  MaxStoreFaults = 1
  MaxRows = 4
SPECIFICATION Spec
SYMMETRY Symmetry
INVARIANTS TypeOK NoCaptureLost SyncedMeansWhole NoDoubleSync DuplicatesOnlyFromFailure
PROPERTIES GoneStaysGone ImplementsDelivery
