CONSTANTS
  Tabs = {t1, t2}
  Calls = {c1}
  Abandoned = {a1}
  MaxPairs = 3
  MaxSignIns = 1
  MaxSignOuts = 1
  MaxFaults = 1
SPECIFICATION Spec
SYMMETRY Symmetry
INVARIANTS TypeOK NeverStranded RotationConserves
CHECK_DEADLOCK FALSE
