SPECIFICATION ChainSpec
CONSTANTS
    Versions = {1, 2}
    MaxGeneration = 3
    Digests = {"d1", "d2"}
    Artifacts <- MCArtifacts
    BootNumbers = {1, 2}
    NormalNumbers = {1}
INVARIANTS
    StartedIsDurable
    FallbackIsTrue
    
PROPERTIES
    NoRollback
    ImplementsRegister
    
