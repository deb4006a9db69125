SPECIFICATION Spec
CONSTANTS
  s1 = s1  s2 = s2  p1 = p1  p2 = p2  c1 = c1  c2 = c2  a = a  b = b
  None = None  Other = Other
  Proc = {s1, s2}
  Packet = {p1}
  Content = {c1, c2}
  GrantId = {a, b}
  Revocable = {a, b}
  Grant <- EditedGrants
  Outcome = {"completed", "failed"}
  Window = 2
  MaxTime = 1
  MaxOthers = 1
  MaxCrashes = 1
  LatePosts = FALSE
SYMMETRY ProcSymmetry
INVARIANTS TypeOK ReceiptHonest
PROPERTIES RevocationStopsSpending ImplementsAuthorizedEffect
CHECK_DEADLOCK FALSE
