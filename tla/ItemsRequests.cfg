CONSTANTS
  l1 = l1
  l2 = l2
  Reqs = {q1, q2}
  MaxItems = 2
  Locs = {l1, l2}
  Tags = {x}
  Sizes = {1, 2}
  Limit = 1
  NewItems <- MCNewItems
  Filings <- MCFilings
  MaxRequests = 2
  MaxFaults = 1
  None = None
  Omit = Omit
SPECIFICATION Spec
SYMMETRY Symmetry
INVARIANTS TypeOK NothingOutOfSight SearchTruth StoragePaidFor FilesKept TagsAsAsked FavouriteParity
CHECK_DEADLOCK FALSE
