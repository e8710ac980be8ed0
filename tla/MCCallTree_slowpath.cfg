SPECIFICATION Spec
CONSTANTS
    Threads = {t1}
    Funcs <- TailFuncs
    Sites <- TailPrgSites
    SiteFn <- TailSiteFn
    SiteTargets <- DecoratedSiteTargets
    TailSites <- DecoratedJumps
    Root = "main"
    MaxDepth = 4
    Targets <- TailTargets
    TypedSites <- TailPrgSites
    PointerSites <- TailPointerSites
    AbiVersion <- TailAbiVersion
    RuntimeAbi = 1
    CounterModulus = 1
    None = None
INVARIANT NoAssertFailure
