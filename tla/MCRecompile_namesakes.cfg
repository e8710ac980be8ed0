SPECIFICATION Spec
CONSTANTS
    None = None
    Extern = Extern
    Units <- MCUnits
    Names <- MCNames
    LlvmNames <- MCLlvmNames
    Types <- MCTypes
    CallIds <- MCCallIds
    Programs <- MCPrograms
    TargetNames <- MCTargetNames
    Helpers <- MCHelpers
    HelperType <- MCHelperType
    Exported <- MCExported
INVARIANT
    ShortCutToTarget
CHECK_DEADLOCK FALSE
