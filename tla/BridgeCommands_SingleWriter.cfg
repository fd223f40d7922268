CONSTANTS
    Gap = 2
    MaxTime = 3
    BufCap = 2
    MaxCmds = 2
SPECIFICATION Spec
INVARIANT SingleWriter
