\* One tab, every page; see the bounds in each page's module.
CONSTANTS
  Locs = {l1, l2}
  None = none
  Note = note
  Photo = photo
  Optimistic = {"folder", "stamps"}
  MaxLoads = 3
  MaxSaves = 3
  MaxWords = 2
  MaxPhotos = 2
  MaxNotes = 2
  Queries = {a, b}
  MaxTyped = 4
  InboxItems = {i1}
  MaxReads = 3
  MaxFilings = 2
  Plans = {0, 1, 2}
  MaxRows = 3
  People = {p1, p2}
  TeamSeats = {3, 4}
  MaxActs = 3
SPECIFICATION Spec
INVARIANTS TypeOK ScreenTrue NoteSavedWhole NoteFolderFits DictatedOnce SearchSettled InboxTrue PlacesTrue
CHECK_DEADLOCK FALSE
