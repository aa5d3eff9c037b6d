\* What the comment on tu_cs_reset says of the cache.
CONSTANTS
    Size = 8
    Probes = 3
    Regs <- MCRegs
    Direct <- MCDirect
    Values <- MCValues
SPECIFICATION Spec
INVARIANTS ResetInvalidates
