SPECIFICATION RuntimeSpec
CONSTANTS
  Actors = {operator, worker, other}
  Rights <- MCRights
  Ids = {run, i1}
  Keys = {run, k2}
  Texts = {measured}
  External = {measured}
  Embedded = {}
  Asks <- MCAsks
  MaxVersion = 2
  None = None
  Runs = {run}
  Clients = {p1, p2}
  Operators = {operator}
  Observation = measured
  MaxCells = 2
  Tokenless = {"none"}
CHECK_DEADLOCK FALSE
INVARIANTS
  RuntimeTypeOK
  AskedOnce
  WorkIsPreserved
  StatusIsEarned
  ObservationIsBound
  AtMostOnce
  RetryIsAnswered
PROPERTY ForgottenStaysForgotten
