CONSTANTS
  Tabs = {t1}
  Entries = {1}
  Media = {}
  Retries = {r1}
  HasLocks = FALSE
  MaxTaps = 1
  MaxFaults = 0
  MaxStoreFaults = 0
  MaxRows = 4
SPECIFICATION Spec
INVARIANT OneItemPerCapture
