CONSTANTS
    sam = sam  riley = riley  alex = alex
    mini = mini
    mirror = mirror  catcher = catcher
    first = first  second = second
    NoOne = NoOne  NoInvite = NoInvite
    Users = {sam, riley, alex}
    Hosts = {mini}
    Offerings = {mirror, catcher}
    Invites = {first, second}
    GroupInvites = {second}
    OwnerOf <- MCOwnerOf
    HostOf <- MCHostOf
    RelationOf <- MCRelationOf
    OfferingOf <- MCOfferingOf
    MaxTuples = 10
SPECIFICATION StorySpec
INVARIANTS
    FriendshipSymmetric
    InviteRowsBelongToAcceptor
    GrantOutlivesOnlyReleasedFriendship
    SpaceAsTold
PROPERTIES
    UnfriendingEndsEverything
    TakeoverUndoesOnlyUnfinishedStart
CHECK_DEADLOCK FALSE
