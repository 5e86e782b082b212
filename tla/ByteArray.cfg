SPECIFICATION Spec
CONSTANTS
    BaseSize = 3
    Group = 2
    Width = 5
    RawData <- Strings
    Ints <- Extremes
    MaxSize = 6
    MaxRead = 3
    MaxWrites = 2
INVARIANT CurIsPosition
INVARIANT ReadBack
INVARIANT PiecesExact
PROPERTY FlatSpec
CHECK_DEADLOCK FALSE
