SPECIFICATION Spec
CONSTANTS
  UUID = {u1, u2}
  Operations = {"add", "del", "repl"}
  Interleaved = TRUE
  Texts = {"byvalue", "byname", "other", "malformed"}
  LinearSearchMaxSize = 2
  MaxTime = 3
  MaxDefinitions = 3
SYMMETRY SymmetricUUIDs
INVARIANTS
  TypeOK
  EvaluatorsTile
  SearchFinds
  EveryChangeRecorded
  OnlyParsedCompiled
PROPERTIES
  PastIsFixed
  FailedForGood
CHECK_DEADLOCK FALSE
