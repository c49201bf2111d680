SPECIFICATION Spec
CONSTANTS
    SignBit = 4
    MemWords = 32
    Images <- MCThrees
    BaseA = 0
    BaseB = 4
    BaseC = 20
    Dims <- MCSigned
    Race = {FALSE}
    ClearInterrupt = {FALSE}
INVARIANT SumsFitSigned
