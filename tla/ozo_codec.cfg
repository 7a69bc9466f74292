SPECIFICATION Spec
CONSTANTS
    Samples <- MCSamples
    Foreign <- MCForeign
    Confs <- MCConfs
    Programs <- MCPrograms
    Outs <- MCOuts
    MaxMicros = 32
    DayMicros = 5
INVARIANTS AcceptsWellFormed ParametersArrive AcceptsWhatFits RoundTrip
CHECK_DEADLOCK FALSE
