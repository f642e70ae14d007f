SPECIFICATION TextSpec
CONSTANTS
    Data <- MCData
    Size = 3
    MaxPast = 2
    Eoi = "end"
    WordBits = 8
INVARIANT LexerAgrees
PROPERTY SourceParsed
PROPERTY ErrorsReported
PROPERTY TakenInOrder
 
PROPERTY CodingsAgree
CHECK_DEADLOCK FALSE
