SPECIFICATION StoreSpec
CONSTANTS
  Traces = {t1}
  Workers = {w1, w2}
  Hashes = {h1, h2}
  EmptyMap = empty
  Payloads = {empty, d1}
  InvokeCounts <- MCTwoCounts
  Times <- MCTimes
  Null = Null
INVARIANTS
  StoreTypeOK
  FinalStateFinished
  FinishedRowUnleased
  LeaseWellFormed
  TimedOutNeverReceived
PROPERTIES
  FinishedForever
  FirstCallbackWins
