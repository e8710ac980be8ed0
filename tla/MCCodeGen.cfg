SPECIFICATION Spec
CONSTANTS
    None = None
    NoObject = NoObject
    MaxId = 2
    Registrars <- MCRegistrars
    Callbacks <- MCCallbacks
    Callees <- MCCallees
    Nodes <- MCNodes
    Decorated <- MCDecorated
    Functions <- MCFunctions
    Layouts <- MCLayouts
    Starts <- MCStarts
    Lengths <- MCLengths
INVARIANTS
    OneOwner
    RunsBeforeRegAlloc
    PseudoCallsGone
    OwnNode
    NodeDelivered
    GivesUpOnlyWhen
    MagicExact
    MagicReadable
PROPERTY
    RemovedByOwner
CHECK_DEADLOCK FALSE
