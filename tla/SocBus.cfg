SPECIFICATION Spec
CONSTANTS
    ByteAddr = {0, 4, 1024, 2048, 3068}
    Data = {0, 1}
    Zero = 0
    ByteEnables = {15}
    AllBytes = 15
    MacAddr = {0}
    MacData = {1}
    Image <- MCImage
    MaxBurst = 1
    NoReq = NoReq
    NoWrite = NoWrite
    NoPending = NoPending
INVARIANTS TypeOK BusInv FetchNeverWrites
PROPERTIES AtMostOneWaitState StableTransfer Implements
