SPECIFICATION Spec
CONSTANTS
  Bytes <- Boundaries
  MaxText = 4
  MaxChunk = 2
CHECK_DEADLOCK FALSE
INVARIANTS AcceptsWellFormed RejectsHopeless
