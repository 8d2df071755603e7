\* ConnTest, one round, no loss: a send given up on leaves messageId behind.
CONSTANTS
    client = client
    server = server
    server2 = server2
    Rounds = 1
    Machines = {0, 1}
    NumBoxes = 2
    MSS <- MCMSS
    MaxReemissions = 2
    TimeSize = 8
    Threads <- MCThreads
    Home <- MCHome
    Script <- MCScript
    ConnGap = 1
    MaxLoss = 0
    Ordered = TRUE
    TimerInSend = FALSE
SPECIFICATION Spec
CHECK_DEADLOCK FALSE
INVARIANT AcknowledgedWasDelivered
