SPECIFICATION ReturnsSpec
CONSTANTS
  agent = agent  cli = cli  None = None  Other = Other
  p1 = p1  c1 = c1  a = a
  Proc = {s1, s2}
  Packet = {p1}
  Content = {c1}
  GrantId = {a}
  Revocable = {}
  Grant <- PlainGrant
  Outcome = {"failed"}
  Window = 2
  MaxTime = 0
  MaxOthers = 2
  MaxCrashes = 2
  LatePosts = FALSE
  Envelope = {1}  Kind <- OneSnapshot
  Agent = agent  Cli = {cli}
  MaxAttempts = 2  MaxWait = 2
  DeliveredTtl = 3  FailedTtl = 5  InboxTtl = 4
  MaxPasses = 2  MaxLosses = 1
INVARIANTS ReceiptOnce
PROPERTIES ReceiptReturned EventuallySettled
CHECK_DEADLOCK FALSE
