SPECIFICATION Spec
CONSTANTS
    Inputs <- MCInputs
    Faults = {0, 1}
    Devices <- MCDevices
INVARIANTS TypeOK StoredInOrder VerdictRight NothingOverrun StaysWaiting
PROPERTY Reports
