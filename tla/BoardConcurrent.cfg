SPECIFICATION Spec
CONSTANTS
    p1 = p1
    p2 = p2
    identity = identity
    limit = limit
    mixed = mixed
    fa = fa
    fb = fb
    fu = fu
    Cards <- MCCards
    Tier0Cards <- MCTier0Cards
    Tags <- MCTags
    TagsOf <- MCTagsOf
    UnknownTag = "unknown"
    Families <- MCFamilies
    UnknownFamily = fu
    FromBoard = FromBoard
    Procs <- MCTwo
    Presets <- MCPresets
    CardArgs <- MCBoardCard
    StrayClaims = {}
    StatusArgs = {"completed"}
    Limit <- MCConcurrentLimit
CHECK_DEADLOCK FALSE
SYMMETRY MCSymmetry
INVARIANTS
    VerdictsBackedByRouting
    PanelsAreIndependent
    VerifiedClaimsWerePosted
