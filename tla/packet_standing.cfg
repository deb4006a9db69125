SPECIFICATION Spec
CONSTANTS
  s1 = s1  s2 = s2  p1 = p1  p2 = p2  c1 = c1  c2 = c2  a = a  b = b
  None = None  Other = Other
  Proc = {s1, s2}
  Packet = {p1, p2}
  Content = {c1}
  GrantId = {a}
  Revocable = {a}
  Grant <- StandingGrants
  Outcome = {"failed"}
  Window = 2
  MaxTime = 2
  MaxOthers = 0
  MaxCrashes = 0
  LatePosts = TRUE
SYMMETRY ProcSymmetry
INVARIANT BudgetHeld
CHECK_DEADLOCK FALSE
