\* What the build scripts leave behind, and what later runs make of it.
CONSTANTS
    Patch <- MCPatch
    Mailbox <- MCMailbox
    Fits <- MCFits
    Dlls = {arm64ec, wow64}
    Pkg = {"glib", "zlib"}
    NParts = 3
    MaxRelease = 2
SPECIFICATION BuildsSpec
SYMMETRY DllSymmetry
INVARIANTS BuildsTypeOK FreshRunIsComplete MissingIsExplained StrictRunHasAll GreenPackageIsTree
    HolesHaveCauses TrueIsSound
