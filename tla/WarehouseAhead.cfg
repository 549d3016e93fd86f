SPECIFICATION Spec
CONSTANTS
  Dim <- MCDim
  Hidden <- MCHidden
  TimeDim = "time"
  Ordinate <- MCOrdinate
  Programs <- AheadPrograms
  Expression <- MCExpression
  Apply <- MCApply
  Broken <- MCBroken
  Collected = {}
  MaxInstant = 1
  MaxDemands = 2
INVARIANTS
  Transparent
CHECK_DEADLOCK FALSE
