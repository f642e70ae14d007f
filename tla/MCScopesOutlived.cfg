CONSTANTS
  NameOrder <- MCNameOrder
  Values <- MCValues
  Undefined <- MCUndefined
  Programs <- MCOutlived
  WithNames <- MCWithNames
  Written = {1}
  Passed = {2}
  Assignable = {"a", "b", "x"}
  Shared = {"r"}
  EvalNames = {"x"}
  MaxFrames = 3
  MaxEnvs = 4
  MaxArgs = 1
  MaxHeap = 5
  Capacity = 30
SPECIFICATION Spec
CHECK_DEADLOCK FALSE
INVARIANT EvalReadsAgree
