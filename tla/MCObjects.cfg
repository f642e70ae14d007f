CONSTANTS
    MaxLength = 3
    Length = 10
    Undefined = Undefined
    Values = {1, 2}
    Items <- MCItems
    Worlds <- MCWorlds
SPECIFICATION Spec
VIEW StateView
INVARIANT LengthAboveIndices
INVARIANT ArrayFunctionsAgree
INVARIANT LoopComplete
PROPERTY Integrity
PROPERTY ImplementsEs
PROPERTY LoopEnds
