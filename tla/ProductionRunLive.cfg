SPECIFICATION FairSpec
CONSTANTS
  j1 = j1  j2 = j2  w1 = w1  w2 = w2  q1 = q1  p1 = p1
  None = None
  Jobs = {j1, j2}
  CreatedAt <- CreationOrder
  Workers = {w1}
  Routes = {q1}
  Publishers = {}
  LeaseTerm = 1
  MaxAttempts = 1
  RealMedia = FALSE
PROPERTIES
  CrashedLeaseRerun
CHECK_DEADLOCK FALSE
