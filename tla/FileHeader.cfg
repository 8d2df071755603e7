\* Two files grown through the direct entries into the indirect block and removed, on a disk large enough for both.
CONSTANTS
    SectorSize = 28
    NumSectors = 32
    Names = {a, b}
    Dot = Dot
    DotDot = DotDot
    DirArgs = {a, b, DotDot}
    Paths <- ShortPaths
    NumDirEntries = 3
    FreeMapBytes = 4
    DirBytes = 28
    CreateSizes = {28, 56}
    WriteSizes = {112}
    MaxBytes = 224
    MaxCalls = 9
    UninitWord = {0}
    DataWord = 0
    Abort = Abort
SPECIFICATION Spec
 
INVARIANT NeverAborts
INVARIANT SectorsAccounted
INVARIANT ReadsResolve
INVARIANT RemoveFreesExactly
INVARIANT DirTreeSound
SYMMETRY NameSymmetry
CHECK_DEADLOCK FALSE
