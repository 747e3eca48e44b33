SPECIFICATION PluginRuntimeSpec
CONSTANTS
  Traces = {t1}
  Workers = {w1, w2}
  Posts = {p1}
  LostAcks = FALSE
  Hashes <- MCHashes
  EmptyMap = empty
  Payloads = {empty, d1}
  Written = {d1}
  InvokeCounts <- MCTwoCounts
  Times <- MCTimes
  Null = Null
  SecondTicks = 1
  DefaultTTL = 2
  MaxTokens = 1
  Delays = {1}
  Timeouts = {2}
  Limit = 1
  LockFor = 3
  MaxClock = 3
  MaxFaults = 1
  MaxNotified = 4
  Prompt = TRUE
  Fast = {}
  Skew = 0
SYMMETRY SymmetryOfWorkers
INVARIANTS
  FirstStepAlone
  EveryFinishNotified
  StepReadsAcceptedCallback
  AcceptedNotTimedOut
  NotifiedPerStep
PROPERTIES
  ImplementsLifecycle
