SPECIFICATION Spec
CONSTANTS
    Chunk = 2
    Window = 3
    Sizes <- MCSizes
INVARIANTS
    AllOrNothing
    NoMutualWait
    EndsAgree
PROPERTY Delivers
CHECK_DEADLOCK FALSE
