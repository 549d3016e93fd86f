SPECIFICATION Spec
CONSTANTS
  UUID = {u1, u2}
  Operations = {"add", "del"}
  Interleaved = FALSE
  Texts = {"byvalue"}
  LinearSearchMaxSize = 2
  MaxTime = 3
  MaxDefinitions = 3
SYMMETRY SymmetricUUIDs
INVARIANTS
  DeletedStaysOut
CHECK_DEADLOCK FALSE
