\* The register cache against the register file it stands for.
CONSTANTS
    Size = 8
    Probes = 3
    Regs <- MCRegs
    Direct <- MCDirect
    Values <- MCValues
SPECIFICATION Spec
INVARIANTS TypeOK Coherent
PROPERTIES KeepsPromise
