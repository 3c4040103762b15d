SPECIFICATION ReadsSpec
CONSTANTS
  p1 = p1  p2 = p2
  c1 = c1  c2 = c2
  x = x  y = y
  None = None
  ProviderId = {p1, p2}
  CatalogId = {c1, c2}
  Content = {x}
  Foreign = y
  MaxPages = 2
  Windows <- OneWindow
  MaxNow = 4
  PageSize = 1
INVARIANTS TypeOK ReadsAreWhole UndisturbedReadsSucceed FeedAllOrNothing ListsPlace ListsAgree WalkMissesNone
SYMMETRY Symmetry
CONSTRAINT ClockBound
