CONSTANTS
  Actors = {operator, user, worker}
  Rights <- MCRights
  Ids = {i1, i2, i3}
  Keys = {k1}
  Texts = {said, fixed, found}
  External = {found}
  Embedded = {said, found}
  Asks <- MCAsks
  MaxVersion = 5
  None = None
SYMMETRY MCSymmetry
SPECIFICATION ServiceSpec
CHECK_DEADLOCK FALSE
INVARIANTS
  NoLostUpdate
  ContextIsReviewed
  QuarantineIsFinal
  TablesAgree
