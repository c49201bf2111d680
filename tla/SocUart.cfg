SPECIFICATION SocSpec
CONSTANTS
    ByteAddr = {0, 2048}
    Data = {0, 1}
    Zero = 0
    ByteEnables = {15}
    AllBytes = 15
    MacAddr = {0}
    MacData = {0}
    Image <- MCImage
    MaxBurst = 2
    NoReq = NoReq
    NoWrite = NoWrite
INVARIANT FrameCarriesStore
