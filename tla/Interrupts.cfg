SPECIFICATION Spec
CONSTANTS
    RandomWords <- MCRandomWords
    TestWords <- MCTestWords
    MAT_DIM = 2
    mat1 <- MCMat1
    mat2 <- MCMat2
    PartialSum <- MCPartialSum
    MaxStall = 1
INVARIANTS TypeOK TestsPass NoStaleRequest OneHandlerPerEnable MmstatusNotShared ServedOnce HandlerInv
PROPERTY Ends
