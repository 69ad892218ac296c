\* MODULE: MCLibrary
SPECIFICATION LibrarySpec
CONSTANTS
    Object = {o1, o2}
    Address = {x1, x2}
    Strong = {s1, s2}
    Weak = {w1}
    MaxCasts = 1
    MaxWeak = 2
    Element = {e1, e2}
    MaxNodes = 3
    Key = {1, 2, 3, 4, 5}
    OwnerOf <- Owners
    Formats <- SomeFormats
    Sizes = {0, 1, 2, 3, 5, 12, 26}
    Numbers = {0, 1, 9, 16, 31, 32, 100, 128, 255}
    Texts <- SomeTexts
    Word4 = 16
    Word8 = 256
    Name = {n1, n2}
    Literals <- SomeLiterals
    MaxLength = 2
    Lines <- SomeLines
    Registered <- SomeKeys
    KeySize = 4
    ValueSize = 3
    IntMax = 4
    Units = {1, 2, 4}
    Word = 8
    Logger = {t1, t2}
    Levels = {"INFO", "IMPORTANT"}
    MaxPieces = 10
    Keys = {"a", "/", " ", "up", "down"}
    LineSize = 4
    ProgSize = 8
    ExitWord <- Leave
    MaxHistory = 2
    MaxCommands = 2
    MaxArrows = 3
    boardDim = 3
INVARIANTS
    OwnersKeepObjects
    MapIsSound
    
    LogLinesAreWhole
PROPERTIES
    
    LookUpEnds
CHECK_DEADLOCK FALSE
