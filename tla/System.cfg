SPECIFICATION SpecSystem
CONSTANTS
  Name = {"x", "y"}
  HostObject = {"f", "g"}
  MaxUUID = 3
  LastTime = 6
  MaxLines = 6
  MaxSlots = 2
  TextName = {"x"}
  MaxTextUUID = 2
  Limits <- MCLimits
  Infinite <- MCInfinite
  Dim <- MCDim
  Ordinate <- MCOrdinate
  Variables <- MCVariables
  Priority = "priority"
  Time = "time"
INVARIANTS
  RegistryTypeOK
  UUIDsOwned
  OneOpen
  FirstWins
  PrintedIsDemanded
  DemandPutOnce
  ChoiceIsBest
  ChoiceIsKnown
PROPERTIES
  TextEnds
  EnumerationEnds
  DemandsEnd
CHECK_DEADLOCK FALSE
