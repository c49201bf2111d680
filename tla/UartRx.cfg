SPECIFICATION Spec
CONSTANTS
    Bytes <- MCBytes
    NoByte = NoByte
    Prescales = {7, 8, 16}
    Recovery <- MCRecovery
    Noise = TRUE
INVARIANTS TypeOK OnlySentBytes DeliveredInTime
PROPERTY BackToIdle
