SPECIFICATION SchedulerSpec
CONSTANTS
  Traces = {t1, t2}
  Workers = {w1, w2}
  Hashes <- MCHashes
  EmptyMap = empty
  Payloads = {empty}
  Written = {empty}
  InvokeCounts <- MCTwoCounts
  Times <- MCTimes
  Null = Null
  SecondTicks = 1
  DefaultTTL = 2
  MaxTokens = 0
  Delays = {1}
  Timeouts = {}
  Limit = 2
  LockFor = 3
  MaxClock = 5
  MaxFaults = 0
  MaxNotified = 1
  Prompt = TRUE
  Fast = {}
  Skew = 0
SYMMETRY SymmetryOfWorkers
INVARIANTS
  StepMutex
