SPECIFICATION Spec
CONSTANTS
    Bytes <- MCBytes
    NoWrite = NoWrite
    StrobeLengths = {1, 2}
INVARIANT TypeOK
PROPERTIES SendsFrames FramesEnd
