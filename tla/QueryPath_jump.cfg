CONSTANTS
    Configs <- JumpToPrefer
    None = None

SPECIFICATION Spec

INVARIANT MissesNoSuppression
