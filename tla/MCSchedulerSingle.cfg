SPECIFICATION SchedulerSpec
CONSTANTS
  Traces = {t1}
  Workers = {w1, w2}
  Hashes <- MCHashes
  EmptyMap = empty
  Payloads = {empty, d1}
  Written = {d1}
  InvokeCounts <- MCThreeCounts
  Times <- MCTimes
  Null = Null
  SecondTicks = 1
  DefaultTTL = 2
  MaxTokens = 1
  Delays = {2}
  Timeouts = {2}
  Limit = 1
  LockFor = 4
  MaxClock = 5
  MaxFaults = 2
  MaxNotified = 1
  Prompt = TRUE
  Fast = {w2}
  Skew = 1
CHECK_DEADLOCK FALSE
INVARIANTS
  SchedulerTypeOK
  StepMutex
  LeaseCoversStep
  StepFollowsRow
  NotifiedIsFinal
PROPERTIES
  FinalRowFrozen
