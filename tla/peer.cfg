CONSTANTS
    riley = riley
    b1 = b1  b2 = b2
    h1 = h1  h2 = h2
    Active = Active  NoOp = NoOp  NoList = NoList
    Grantees = {riley}
    Backups = {b1, b2}
    OwnerOf <- MCOwnerOf
    SizeOf <- MCSizeOf
    LastChunk = 1
    Handlers = {h1, h2}
    Kinds = {"authorize", "write", "read", "delete", "refresh"}
    Quota = 3
    Tiers = {"allow", "ask"}
    MaxAge = 1
    Grace = 2
    FetchTime = 1
    MaxTime = 4
    MaxRows = 2
SPECIFICATION StorySpec
INVARIANTS
    CompleteIsWhole
    QuotaKept
PROPERTIES
    PurgedOnlyAfterGrace
    StalenessBounded
    WritesStopOnRefresh
SYMMETRY Alike
CHECK_DEADLOCK FALSE
