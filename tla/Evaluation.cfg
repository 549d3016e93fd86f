SPECIFICATION SpecEvaluation
CONSTANTS
  Dim <- MCDim
  TimeDim <- MCTime
  Named <- MCNamed
  Ordinate <- MCOrdinate
  Plain <- MCPlain
  All = All
  MaxScopes = 5
  MaxPlainScopes = 3
  MaxCalls = 2
  MaxPerturb = 2
  MaxIndex = 1
  LastInstant = 1
  Clause = {"w1", "w2"}
  Declares <- MCDeclares
  PsiQ <- MCPsiQ
  TagQ <- MCTagQ
  FirstHidden <- MCFirst
  LastHidden <- MCLast
INVARIANTS
  ContextTypeOK
  ScopesNest
  InclusionDecided
  HiddenDimsKeep
PROPERTIES
  ImplementsScoping
CHECK_DEADLOCK FALSE
