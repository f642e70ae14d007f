\* Two objects share shapes of three keys; a map of more than one key is hashed.
CONSTANTS
  Objects = {o1, o2}
  Keys = {a, b, c}
  Values = {v1, v2}
  NoValue = NoValue
  MaxNonMapped = 1
  MaxShapes = 6
SPECIFICATION Spec
SYMMETRY Symmetry
INVARIANT SlotsPartition
INVARIANT HashAgrees
INVARIANT EdgesCounted
PROPERTY ImplementsDict
CHECK_DEADLOCK FALSE
