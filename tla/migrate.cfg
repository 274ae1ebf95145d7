CONSTANTS
    Renames <- MCRenames
    Created <- MCCreated
    Layout <- MCLayout
    Indexed <- MCIndexed
    Additions <- MCAdditions
    Eras <- MCEras
    MaxCrashes = 2
SPECIFICATION Spec
INVARIANTS
    ServesWhole
PROPERTIES
    ComesUp
CHECK_DEADLOCK FALSE
