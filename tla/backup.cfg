CONSTANTS
    taxes = taxes
    d1 = d1  d2 = d2
    j1 = j1  j2 = j2
    r1 = r1  r2 = r2
    Nobody = Nobody
    Torn = Torn
    Backups = {taxes}
    LastChunk = 1
    Deciders = {d1, d2}
    Jobs = {j1, j2}
    Restores = {r1, r2}
    LastSecond = 1
SPECIFICATION StorySpec
INVARIANTS
    TransferredOnce
    DenialIsFinal
    NothingMovesWhileAsking
    CompleteIsStored
    DeletedIsRemoved
    RestoredIsWhole
PROPERTIES
    AskNeedsItsOwner
    JobsEnd
CHECK_DEADLOCK FALSE
