SPECIFICATION Spec
CONSTANTS
  UUID = {u1, u2}
  Operations = {"add", "repl"}
  Interleaved = FALSE
  Texts = {"byvalue"}
  LinearSearchMaxSize = 2
  MaxTime = 3
  MaxDefinitions = 3
SYMMETRY SymmetricUUIDs
INVARIANTS
  OpenIsLive
CHECK_DEADLOCK FALSE
