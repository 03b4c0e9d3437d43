SPECIFICATION Spec
CONSTANTS
  t1 = t1  q1 = q1  q2 = q2  k1 = k1  k2 = k2  k3 = k3
  p1 = p1  i1 = i1  w1 = w1  w2 = w2  s1 = s1  s2 = s2
  None = None
  Rows = {q1, q2}
  Keys = {k1, k2, k3}
  RowOf <- RowOfKey
  Offers <- AnyOfFirst
  MaxLimit = 1
  Tasks = {t1}
  DispatchKeys = {k1, k2}
  TaskOf <- OneTask
  PermitKeys = {p1}
  IntentKeys = {i1}
  Workers = {w1, w2}
  Terms = {1, 2}
  Stamps = {s1, s2}
INVARIANTS
  WaitingIsAdmissible
SYMMETRY Interchangeable
