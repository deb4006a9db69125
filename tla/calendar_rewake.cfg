SPECIFICATION Spec
CONSTANTS
  c1 = c1  c2 = c2  dns = dns  judge = judge
  Call = {c1, c2}  Watch = {dns}  Continuation = {judge}
  Wake <- Once  None = None
  Rewake = TRUE
  MaxTime = 6  MaxCrashes = 0  ReplayLimit = 20
SYMMETRY CallSymmetry
CHECK_DEADLOCK FALSE
INVARIANTS RowIsProjection
