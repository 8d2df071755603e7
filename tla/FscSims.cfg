\* WriteCloseSim.c, then OpenSim.c racing a Remove, Nachos without -rs.
CONSTANTS
    main = main  w = w  c = c  o = o  r = r  a = a  b = b  fd = fd  g = g
    Threads = {main, w, c, o, r}
    Main = main
    Names = {a, b}
    HdrSectors = {2, 3}
    NumDirEntries = 2
    MaxOpenedFiles = 2
    FdVars = {fd, g}
    RandomYield = FALSE
    None = None
    Script <- FileSysSims
SPECIFICATION Spec
INVARIANT NoFault OUnique OpenedFilesLive
PROPERTY CallsReturn
