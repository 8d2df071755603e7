\* simplemigrate and threadsmigrate from M0 to M1, with a box, frames and
\* a process slot free on M1 and no SendPayload giving up.
CONSTANTS
    M0 = M0  M1 = M1
    Src = M0
    Dst = M1
    NumBoxes = 2
    PageSize = 1
    NumTotalRegs = 3
    MAX_SEM = 2
    MaxThreadsPerProcess = 2
    MaxProcesses = 2
    INT_MAX = 2147483647
    Images <- MCImages
    InitUsed = 1
    InitFrames = 2
    SrcBoxesTaken = {}
    MaxLoss = 0
    None = None
SPECIFICATION Spec
INVARIANT TypeOK NoFault MigratedExact ProcessKept
PROPERTY MigrationEnds
