CONSTANTS
  Tabs = {t1, t2}
  Entries = {1}
  Media = {1}
  Retries = {r1}
  HasLocks = TRUE
  MaxTaps = 1
  MaxFaults = 1
  MaxStoreFaults = 1
  MaxRows = 4
SPECIFICATION FairSpec
PROPERTIES PassesTerminate RetriesAreServed EveryCaptureDelivered
