SPECIFICATION Spec
CONSTANTS
    SignBit = 4
    MemWords = 32
    Images <- MCImages
    BaseA = 0
    BaseB = 4
    BaseC = 20
    Dims <- MCShapes
    Race = {FALSE}
    ClearInterrupt = {FALSE}
INVARIANTS MacTypeOK ProductComplete SumsInWord DoneDepth
PROPERTIES WritesElements RunEnds
