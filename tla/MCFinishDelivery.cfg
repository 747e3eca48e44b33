SPECIFICATION DeliverySpec
CONSTANTS
  Notifiers = {n1, n2}
  MaxFailures = 3
  MayCrash = TRUE
CHECK_DEADLOCK FALSE
INVARIANTS
  AckedIsAccepted
  RepeatsHaveReason
  TwoFailuresSurvived
PROPERTIES
  EveryNotifierEnds
