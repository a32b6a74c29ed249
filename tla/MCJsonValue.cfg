CONSTANTS
    Vars = {v, w}
    Names <- MCNames
    Scalars <- MCScalars
    IndexKeys <- MCIndexKeys
    Paths <- MCPaths
    NaN = 9
    Probes <- MCProbes
    MaxIndex = 2
    MaxBuffers = 3
    MaxNodes = 4
    MaxDepth = 2
SPECIFICATION Spec
SYMMETRY MCSymmetry
CHECK_DEADLOCK FALSE
INVARIANTS TypeOK OneOwner OrderIsTotal
PROPERTY ContainersAreKept
