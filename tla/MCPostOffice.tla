---------------------------- MODULE MCPostOffice ----------------------------
(***************************************************************************)
(* ConnTest of src/code/network/nettest.cc on two machines: machine 0 is   *)
(* the client (ConnTest(1)), machine 1 the server (ConnTest(0)).           *)
(***************************************************************************)
EXTENDS PostOffice

CONSTANTS client, server, server2,
          Rounds   \* iterations of the loop of ConnTest (3 in the code)

MCThreads == {client, server}
MCHome == [t \in {client, server, server2} |-> IF t = client THEN 0 ELSE 1]

\* Payload sizes in bytes against MaxSegmentSize MCMSS: the long message of
\* ConnTest is shortened to two segments, "Got it!" fits in one.
MCMSS == 32
DataSize == 40
AckSize == 8

ClientRound == << [op |-> "connect", to |-> 1], [op |-> "send", size |-> DataSize],
                  [op |-> "receive"], [op |-> "disconnect"] >>
ServerRound == << [op |-> "listen"], [op |-> "receive"],
                  [op |-> "send", size |-> AckSize], [op |-> "disconnect"] >>

Repeat(s, n) == FlattenSeq([i \in 1 .. n |-> s])

MCScript == [t \in MCThreads |->
                Repeat(IF t = client THEN ClientRound ELSE ServerRound, Rounds)
                \o << [op |-> "halt"] >>]

\* Calls that are refused or made on a NULL connection: the client first
\* connects to itself, two server threads of machine 1 Listen although it
\* has a single private box, and the client sends one message more than
\* the server reads before it disconnects.
RefusedThreads == {client, server, server2}
ServerOnce == ServerRound \o << [op |-> "exit"] >>
RefusedScript ==
    [t \in RefusedThreads |->
        IF t = client
        THEN << [op |-> "connect", to |-> 0], [op |-> "send", size |-> AckSize],
                [op |-> "receive"], [op |-> "disconnect"] >>
             \o << [op |-> "connect", to |-> 1], [op |-> "send", size |-> AckSize],
                   [op |-> "send", size |-> AckSize], [op |-> "receive"],
                   [op |-> "disconnect"], [op |-> "halt"] >>
        ELSE ServerOnce]
====
