SPECIFICATION FairSpec
CONSTANTS
  Dim <- MCDim
  Hidden <- MCHidden
  TimeDim = "time"
  Ordinate <- MCOrdinate
  Programs <- InstantPrograms
  Expression <- MCExpression
  Apply <- MCApply
  Broken <- MCBroken
  Collected = {"x"}
  MaxInstant = 4
  MaxDemands = 1
INVARIANTS
  AgesOrdered
PROPERTIES
  UsedIsKept
  EveryDemandAnswered
CHECK_DEADLOCK FALSE
