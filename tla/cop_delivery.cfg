SPECIFICATION Spec
CONSTANTS
  agent = agent  cli = cli  None = None
  Envelope = {1, 2}  Kind <- HandledAndRefused
  Agent = agent  Cli = {cli}
  MaxAttempts = 2  MaxWait = 1
  DeliveredTtl = 1  FailedTtl = 1  InboxTtl = 1
  MaxPasses = 1  MaxCrashes = 1
CHECK_DEADLOCK FALSE
INVARIANTS TypeOK HandledAgainOnlyAfterLapse
