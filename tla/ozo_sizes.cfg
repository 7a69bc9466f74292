SPECIFICATION Spec
CONSTANTS
    Samples <- MCSamples
    Foreign <- MCForeign
    Confs <- MCConfs
    Programs <- MCPrograms
    Outs <- MCOuts
    MaxMicros = 32
    DayMicros = 5
INVARIANT SizeIsLength
CHECK_DEADLOCK FALSE
