SPECIFICATION Spec
CONSTANTS
  LAST_PKMAP = 2
  HighPages = {p1, p2, p3, p4}
  NoPage = NoPage
  KM_TYPE_NR = 2
  MaxUsers = 2
INVARIANTS KeepsItsPage AtomicKeepsPage
PROPERTY SearchEnds
