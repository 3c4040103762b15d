\* All kinds of classes, catalogs of up to six images.
CONSTANTS
  NoPage = NoPage
  None = None
  MaxImages = 6
SPECIFICATION Spec
CHECK_DEADLOCK FALSE
INVARIANTS TypeOK PagesInOrder HealthyIsComplete NetworkErrorsSurface FirstRefusalTold NumberingAgrees
PROPERTY FetchEnds
