SPECIFICATION Spec
CONSTANTS
    Credentials = {"home", "lab"}
    MaxGeneration = 3
    SampleInterval = 1
    Hold = 2
    MaxClock = 4
    MaxQueue = 1
INVARIANTS
    ProvisioningIsDeliberate
    RebootLoadsTheLastSet
PROPERTIES
    ImplementsCell
