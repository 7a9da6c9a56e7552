CONSTANTS
    Configs <- AllPaths
    None = None

SPECIFICATION Spec

INVARIANT WalkersArePrivate
INVARIANT AnswerIsMeant
PROPERTY EveryoneEnds
