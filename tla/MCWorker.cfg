CONSTANTS
  MaxArgs = 2
  Threads = 2
  MaxOps = 1
  PipeCap = 1
  MaxRuns = 2
  MaxSignals = 2
SPECIFICATION Spec
INVARIANTS TypeOK Accounting QuietAfterReturn ErrorsExact OutcomeHonest ReplyMatchesRequest
PROPERTY ImplementsBatch
