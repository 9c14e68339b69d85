CONSTANTS
  Tabs = {t1}
  Calls = {c1, c2}
  Abandoned = {a1}
  MaxPairs = 3
  MaxSignIns = 1
  MaxSignOuts = 1
  MaxFaults = 1
SPECIFICATION FairSpec
INVARIANT SingleUseUnlessGivenUp
PROPERTY CallsSettle
CHECK_DEADLOCK FALSE
