SPECIFICATION Spec
CONSTANTS
  Names = {1, 2, 3}
  Kinds = {"file"}
  MatchesDot = TRUE
INVARIANT
  RemovedForgotten
