\* The limits 16 and 10 of the code are 2 and 2 here; the array holds up to 6.
CONSTANTS
  MaxIndex = 6
  Values = {v1, v2}
  Hole = Hole
  HoleLimit = 2
  HoleShare = 2
SPECIFICATION Spec
INVARIANT CountIsExact
PROPERTIES GrowsDense ImplementsTable
