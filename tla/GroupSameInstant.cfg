SPECIFICATION Spec
CONSTANTS
  UUID = {u1, u2}
  Operations = {"add"}
  Interleaved = TRUE
  Texts = {"byvalue"}
  LinearSearchMaxSize = 2
  MaxTime = 3
  MaxDefinitions = 3
SYMMETRY SymmetricUUIDs
INVARIANTS
  AddedAreUsed
CHECK_DEADLOCK FALSE
