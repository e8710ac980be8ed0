SPECIFICATION FairSpec
CONSTANTS
    Threads = {t1}
    Funcs <- PtrFuncs
    Sites <- PtrSites
    SiteFn <- PtrSiteFn
    SiteTargets <- PtrSiteTargets
    TailSites <- PtrTailSites
    Root = "main"
    MaxDepth = 4
    Targets <- PtrTargets
    TypedSites <- PtrTypedSites
    PointerSites <- PtrPointerSites
    AbiVersion <- PtrAbiVersion
    RuntimeAbi = 1
    CounterModulus = 1
    None = None
INVARIANTS
    TypeOK
    DirectEdges
    LandingExact
    ResolvedFaithful
    NoAssertFailure
    NodesUnique
    CallsRequestedTarget
PROPERTIES
    InspectOnce
    RuntimeReturns
    Transparent
