\* The push constant cache over changing data, layouts and command lists.
CONSTANTS
    Dwords = 3
    Values <- MCValues
    Layouts <- MCLayouts
    Undefined = Undefined
SPECIFICATION Spec
INVARIANTS TypeOK CacheIsSent DirectDrawIsCurrent
PROPERTIES NoRedundantSend
