\* The SQLite deployment, a canonical storage path, two providers.
CONSTANTS
  p1 = p1  p2 = p2
  c1 = c1  c2 = c2
  f1 = f1  f2 = f2
  x1 = x1  x2 = x2
  None = None
  ProviderId = {p1, p2}
  CatalogId = {c1, c2}
  FileId = {f1, f2}
  Content = {x1, x2}
  Warning = {"broken"}
  MaxPages = 2
  SavepointCommits = TRUE
  CanonicalPaths = TRUE
SPECIFICATION Spec
INVARIANTS TypeOK CatalogsComplete PagesServable OneFilePerContent
PROPERTIES CleanupEffective DeleteTakesOwn ImplementsService
SYMMETRY Symmetry
