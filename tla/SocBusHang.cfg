SPECIFICATION Spec
CONSTANTS
    ByteAddr = {0, 3068}
    Data = {0}
    Zero = 0
    ByteEnables = {15}
    AllBytes = 15
    MacAddr = {0}
    MacData = {0}
    Image <- MCImage
    MaxBurst = 1
    NoReq = NoReq
    NoWrite = NoWrite
PROPERTIES UartWindowAnswers
