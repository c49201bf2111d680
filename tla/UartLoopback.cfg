SPECIFICATION LoopSpec
CONSTANTS
    Bytes <- MCBytes
    NoWrite = NoWrite
    StrobeLengths = {2}
    Prescale = 25
PROPERTY LoopbackReceives
