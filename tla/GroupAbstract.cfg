SPECIFICATION Spec
CONSTANTS
  UUID = {u1, u2, u3}
  Operations = {"add"}
  Interleaved = FALSE
  Texts = {"byvalue"}
  LinearSearchMaxSize = 2
  MaxTime = 3
  MaxDefinitions = 3
SYMMETRY SymmetricUUIDs
PROPERTIES
  ImplementsLog
CHECK_DEADLOCK FALSE
