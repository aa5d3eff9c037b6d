\* build-all.sh over the packages of packages.yml.
CONSTANTS
    Packages <- MCPackages
    NeedsOptions = {"wine"}
SPECIFICATION Spec
CHECK_DEADLOCK FALSE
INVARIANT SuccessMeansBuilt
