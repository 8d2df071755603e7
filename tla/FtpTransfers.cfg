\* Two client machines transfer at once against one server (ftp.cc):
\* m1 uploads f, m2 downloads g.
CONSTANTS
    S = S  m1 = m1  m2 = m2  f = f  g = g  a = a  b = b
    srv = srv  h1 = h1  h2 = h2
    Server = S
    ClientMachines = {m1, m2}
    Srv = srv
    Handlers = {h1, h2}
    Clients = {"c1", "c2"}
    Home <- TransfersHome
    Script <- TransfersScript
    Names = {f, g}
    Data = {a, b}
    Empty = Empty
    None = None
    InitFiles <- TransfersFiles
    NumBoxes = 4
    MaxOpenedFiles = 10
    NumDirEntries = 10
    MAXCLIENTS = 50
SPECIFICATION Spec
INVARIANT TypeOK NoFault BoxesOwned FilesComplete TransfersExact
PROPERTY ClientsFinish Refines
