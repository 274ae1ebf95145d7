CONSTANTS
    ann = ann  bea = bea  Nobody = Nobody
    Users = {ann, bea}
    MaxCreds = 2
    MaxReports = 1
    MaxTasks = 1
    MaxStops = 1
SPECIFICATION Spec
INVARIANTS
    IdentityIsOwners
PROPERTIES
    NeverEndedNeverOut
    OnMacShows
    DeadIdentityGoes
CHECK_DEADLOCK FALSE
