SPECIFICATION Spec
CONSTANTS
    SignBit = 4
    MemWords = 32
    Images <- MCImages
    BaseA = 0
    BaseB = 4
    BaseC = 20
    Dims <- MCRectangular
    Race = {FALSE}
    ClearInterrupt = {FALSE}
INVARIANT ProductComplete
