\* What the comment on the early return says.
CONSTANTS
    Dwords = 3
    Values <- MCValues
    Layouts <- MCLayouts
    Undefined = Undefined
SPECIFICATION Spec
INVARIANTS SkippedIsIdentical
