\* Refused Connect and Listen, calls on a NULL connection, two listeners.
CONSTANTS
    client = client
    server = server
    server2 = server2
    Rounds = 2
    Machines = {0, 1}
    NumBoxes = 2
    MSS <- MCMSS
    MaxReemissions = 1
    TimeSize = 8
    Threads <- RefusedThreads
    Home <- MCHome
    Script <- RefusedScript
    ConnGap = 1
    MaxLoss = 0
    Ordered = TRUE
    TimerInSend = TRUE
SPECIFICATION Spec
\* ReceivePayload blocks forever once the peer's SendPayload gave up.
CHECK_DEADLOCK FALSE
INVARIANT TypeOK

