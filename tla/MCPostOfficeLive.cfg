\* ConnTest, one round, one lost packet: the scripts end under the timer.
CONSTANTS
    client = client
    server = server
    server2 = server2
    Rounds = 1
    Machines = {0, 1}
    NumBoxes = 2
    MSS <- MCMSS
    MaxReemissions = 2
    TimeSize = 8
    Threads <- MCThreads
    Home <- MCHome
    Script <- MCScript
    ConnGap = 1
    MaxLoss = 1
    Ordered = TRUE
    TimerInSend = FALSE
SPECIFICATION Spec
\* ReceivePayload blocks forever once the peer's SendPayload gave up.
CHECK_DEADLOCK FALSE



PROPERTY ScriptCompletes
