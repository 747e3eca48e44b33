SPECIFICATION ProgressSpec
CONSTANTS
  Traces = {t1}
  Workers = {w1, w2}
  Hashes <- MCHashes
  EmptyMap = empty
  Payloads = {empty}
  Written = {empty}
  InvokeCounts <- MCThreeCounts
  Times <- MCTimes
  Null = Null
  SecondTicks = 1
  DefaultTTL = 2
  MaxTokens = 1
  Delays = {1}
  Timeouts = {2}
  Limit = 1
  LockFor = 3
  MaxClock = 0
  MaxFaults = 2
  MaxNotified = 1
  Prompt = TRUE
  Fast = {}
  Skew = 0
  Present = 1
INVARIANTS
  LeasedRowIsHeld
PROPERTIES
  EndIsReported
  ImplementsFairLifecycle
