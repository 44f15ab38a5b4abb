SPECIFICATION Spec
CONSTANTS
    P = 7
    One = 5
    DT = 3
    Half = 4
    Sixth = 6
    Tau = 2
    InvTau = 4
    Decay = 3
    SigmaA = 2
    SigmaE = 3
    PumpRate <- MCPumpRate
    AseFlux <- MCAseFlux
    Runs <- MCControlRuns
    StartFields <- MCStart
    Controls <- MCControls
    Freed <- MCFreed
    StagedCopies = FALSE
INVARIANTS ControlApplied
