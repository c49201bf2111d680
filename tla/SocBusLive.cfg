SPECIFICATION Spec
CONSTANTS
    ByteAddr = {0, 4, 1024, 2048}
    Data = {0}
    Zero = 0
    ByteEnables = {15}
    AllBytes = 15
    MacAddr = {0}
    MacData = {0}
    Image <- MCImage
    MaxBurst = 2
    NoReq = NoReq
    NoWrite = NoWrite
PROPERTIES TransfersEnd FetchServed
