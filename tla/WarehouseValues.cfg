SPECIFICATION Spec
CONSTANTS
  Dim <- MCDim
  Hidden <- MCHidden
  TimeDim = "time"
  Ordinate <- MCOrdinate
  Programs <- MCPrograms
  Expression <- MCExpression
  Apply <- MCApply
  Broken <- MCBroken
  Collected = {}
  MaxInstant = 1
  MaxDemands = 2
INVARIANTS
  TypeOK
  CalcToOverwrite
  LevelsAreNew
  Transparent
  EntriesSound
PROPERTIES
  CalcIsComputing
  ValuesStay
CHECK_DEADLOCK FALSE
