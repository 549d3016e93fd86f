SPECIFICATION SpecStatic
CONSTANTS
  Texts <- MCTexts
  Declarations <- MCDecls
  Spoilt <- MCSpoilt
  Strays <- MCStrays
  Trees <- MCTrees
  Mentions <- MCMentions
  TypeVar <- MCTypeVar
  TypeOf <- MCTypeOf
  Inputs <- MCConstraints
  MaxConstraints = 5
  Programs <- MCPrograms
  HostType <- MCHostType
  HostGives <- MCHostGives
INVARIANTS
  SplitsAtOuter
  ReadsBack
  ResolvesLexically
  GroupsInOrder
  ClosureKept
  TypesSound
CHECK_DEADLOCK FALSE
