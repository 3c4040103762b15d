\* Fair runs with one provider: two catalogs of one page over two contents.
CONSTANTS
  ProviderId = {p1}
  CatalogId = {c1, c2}
  FileId = {f1, f2}
  Content = {x1, x2}
  None = None
  Warning = {"broken"}
  MaxPages = 1
  SavepointCommits = TRUE
  CanonicalPaths = TRUE
SPECIFICATION FairSpec
PROPERTIES OrphanFilesSwept
