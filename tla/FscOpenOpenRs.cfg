\* Two Opens of one name, and Create and Remove of another, under -rs.
CONSTANTS
    main = main  w = w  c = c  o = o  r = r  a = a  b = b  fd = fd  g = g
    Threads = {main, w, c, o}
    Main = main
    Names = {a, b}
    HdrSectors = {2, 3}
    NumDirEntries = 2
    MaxOpenedFiles = 2
    FdVars = {fd, g}
    RandomYield = TRUE
    None = None
    Script <- OpenOpenRs
SPECIFICATION Spec
PROPERTY CallsReturn
