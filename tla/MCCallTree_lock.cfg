SPECIFICATION FairSpec
CONSTANTS
    Threads = {t1, t2}
    Funcs <- ChainFuncs
    Sites <- ChainSites
    SiteFn <- ChainSiteFn
    SiteTargets <- OneChainSiteTargets
    TailSites = {}
    Root = "main"
    MaxDepth = 3
    Targets <- ChainFuncs
    TypedSites <- ChainSites
    PointerSites <- ChainPointerSites
    AbiVersion <- ChainAbiVersion
    RuntimeAbi = 1
    CounterModulus = 1
    None = None
PROPERTY RuntimeReturns
