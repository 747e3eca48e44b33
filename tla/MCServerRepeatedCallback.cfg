SPECIFICATION ServerSpec
CONSTANTS
  Traces = {t1}
  Workers = {w1}
  Posts = {p1, p2}
  LostAcks = TRUE
  Hashes <- MCHashes
  EmptyMap = empty
  Payloads = {empty, d1}
  InvokeCounts <- MCTwoCounts
  Times <- MCTimes
  Null = Null
  SecondTicks = 2
  DefaultTTL = 3
  MaxTokens = 2
  Written = {}
  Delays = {1}
  Timeouts = {0}
  MaxClock = 5
  MaxFaults = 0
  MaxNotified = 1
SYMMETRY SymmetryOfPosts
CHECK_DEADLOCK FALSE
PROPERTIES
  RepeatedCallbackAccepted
