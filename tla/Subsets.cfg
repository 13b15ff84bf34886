SPECIFICATION Spec
CONSTANTS
  NULL = NULL
  Component = {"home", "log", "day"}
  Principal = {"alice", "bob", "noon"}
  Inputs <- MCInputs
INVARIANTS
  AcceptedFramesAreSubsets
