\* The pattern cache over warmups of different lengths.
CONSTANTS
    None = None
    Kinds <- MCKinds
    Ops <- MCOps
    Opcodes <- MCOpcodes
    MaxEntries = 2
    MaxRegArgs = 2
    MaxSize = 2
    Warmups <- MCWarmups
    MaxSteady = 1
SPECIFICATION Spec
INVARIANTS TypeOK TableIsMemory CodeIsEmission
CHECK_DEADLOCK FALSE
