SPECIFICATION Spec
CONSTANTS
  agent = agent  cli = cli  None = None
  Envelope = {1}  Kind <- OneRefused
  Agent = agent  Cli = {}
  MaxAttempts = 3  MaxWait = 2
  DeliveredTtl = 3  FailedTtl = 5  InboxTtl = 4
  MaxPasses = 0  MaxCrashes = 0
CHECK_DEADLOCK FALSE
INVARIANTS RefusedNotDelivered
