\* threadsjoin.c, Sbrk and stress.c's ForkExec/ProcessJoin, Nachos without -rs.
CONSTANTS
    main = main  w1 = w1  w2 = w2  w3 = w3  c = c  c1 = c1  h = h
    x = x  y = y  z = z  p = p  q = q  m = m
    Threads = {main, w1, w2, w3, c, c1, h}
    Boot = main
    FirstProg = "shell"
    Pages <- ProcessesPages
    Code <- ProcessesCode
    NumPhysPages = 4
    MaxThreadsPerProcess = 2
    MaxSpaces = 3
    Vars = {x, y, z, p, q}
    MAX_SEM = 2
    SemVars = {m}
    None = None
SPECIFICATION Spec
INVARIANT TypeOK NoFault FramesAccounted UserThreadsAccounted SpacesOfLiveThreads
PROPERTY JoinWaitsForExit ForkExecReturnsChild CallsReturn
