\* Fair runs without crashes and requests: two catalogs share a page.
CONSTANTS
  ProviderId = {p1}
  CatalogId = {c1, c2}
  FileId = {f1, f2}
  Content = {x1, x2}
  None = None
  Warning = {"broken"}
  MaxPages = 1
  SavepointCommits = TRUE
  CanonicalPaths = TRUE
SPECIFICATION QuietSpec
PROPERTIES ExpiredDeleted
