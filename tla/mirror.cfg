CONSTANTS
    docs = docs
    Folders = {docs}
    bob = bob  cy = cy
    Friends = {bob, cy}
    one = one  two = two
    Deciders = {one, two}
    Home = Home  Spare = Spare  Shared = Shared
    Catcher = Catcher
    Awake <- MCAwake
    Reported <- MCReported
    Owner = Owner
    Grace = 1
    MaxFailures = 2
    Nothing = Nothing
SPECIFICATION Spec
INVARIANTS
    StopIsFinal
PROPERTIES
    KeptWhileWanted
    Settles
CHECK_DEADLOCK FALSE
