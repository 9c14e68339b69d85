CONSTANTS
  Tabs = {t1}
  Entries = {1}
  Media = {}
  Retries = {r1}
  HasLocks = TRUE
  MaxTaps = 1
  MaxFaults = 1
  MaxStoreFaults = 0
  MaxRows = 4
SPECIFICATION Spec
INVARIANT LiveView
