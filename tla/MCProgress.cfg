CONSTANTS
  MaxArgs = 2
  Threads = 1
  MaxOps = 2
  PipeCap = 2
  MaxRuns = 1
  MaxSignals = 1
  Scripts = {s1, s2}
  Limits <- MixedLimits
  MaxCalls = 2
SPECIFICATION ProgressSpec
INVARIANTS SandboxesBounded WindowRespected RetryInWindow
PROPERTIES RunEnds RequestAnswered ThrottleEnds
