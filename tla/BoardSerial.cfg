SPECIFICATION FairSpec
CONSTANTS
    p1 = p1
    p2 = p2
    identity = identity
    limit = limit
    mixed = mixed
    fa = fa
    fb = fb
    fu = fu
    Cards <- MCTwoCards
    Tier0Cards <- MCTier0Cards
    Tags <- MCTags
    TagsOf <- MCTwoTagsOf
    UnknownTag = "unknown"
    Families <- MCTwoFamilies
    UnknownFamily = fu
    FromBoard = FromBoard
    Procs <- MCOne
    Presets <- MCTwoPresets
    CardArgs <- MCBoardCard
    StrayClaims = {}
    StatusArgs = {"completed"}
    Limit <- MCSerialLimit
CHECK_DEADLOCK FALSE
INVARIANTS
    TypeOK
    UniqueWorktreeIds
PROPERTIES
    BoardImplementsLedger
    PostedClaimsGetRouted
