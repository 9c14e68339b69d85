CONSTANTS
  Tabs = {t1, t2}
  Reqs = {q1, q2}
  MaxBegins = 2
  MaxEnabled = 2
  MaxChallenges = 1
  MaxSubmits = 2
  MaxFaults = 1
  Nobody = Nobody
SPECIFICATION Spec
SYMMETRY Symmetry
INVARIANTS TypeOK SecretCaptured QrCodeCurrent OneUse
PROPERTY BackupCodesStay
CHECK_DEADLOCK FALSE
