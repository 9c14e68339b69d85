CONSTANTS
  Tabs = {t1, t2}
  Calls = {c1}
  Abandoned = {}
  MaxPairs = 3
  MaxSignIns = 1
  MaxSignOuts = 0
  MaxFaults = 0
SPECIFICATION Spec
INVARIANT SingleUse
CHECK_DEADLOCK FALSE
