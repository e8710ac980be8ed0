SPECIFICATION Spec
CONSTANTS
    Threads = {t1}
    Funcs <- TailFuncs
    Sites <- TailPrgSites
    SiteFn <- TailSiteFn
    SiteTargets <- TailSiteTargets
    TailSites <- TailJumps
    Root = "main"
    MaxDepth = 4
    Targets <- TailTargets
    TypedSites <- TailPrgSites
    PointerSites <- TailPointerSites
    AbiVersion <- TailAbiVersion
    RuntimeAbi = 1
    CounterModulus = 1
    None = None
\* A failed assert stops the process.
CHECK_DEADLOCK FALSE
INVARIANT AssertOnlyAfterJump
