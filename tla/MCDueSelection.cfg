SPECIFICATION DueSpec
CONSTANTS
  Traces = {t1, t2, t3}
  Workers = {w1}
  Hashes = {h1}
  EmptyMap = empty
  Payloads = {empty}
  InvokeCounts <- MCOneCount
  Times <- MCTimes
  Null = Null
SYMMETRY SymmetryOfTraces
INVARIANTS
  ClaimsOldestFirst
