---------------------------- MODULE FtpTransfer ----------------------------
(***************************************************************************)
(* What an FTPClientAction promises (ftp.cc, spec.md 4.7 and 8): each call *)
(* of a user program either copies one file whole, in one step, from the  *)
(* server to its machine ('r') or from its machine to the server ('w'), or *)
(* changes no file at all; then it returns.  A read copies only a file the *)
(* server has and the client lacks, a write only one the client has and    *)
(* the server lacks.                                                       *)
(***************************************************************************)
EXTENDS Naturals, Sequences

CONSTANTS Server, ClientMachines, Clients, Home, Script, Names, Data, None,
          InitFiles

VARIABLES
    files,   \* files[m][n]: the contents of file n on machine m, or None
    ip,      \* ip[c]: the call of Script[c] under way
    did      \* did[c]: the current call has made its copy

vars == <<files, ip, did>>

Machines == {Server} \cup ClientMachines

Init == /\ files = InitFiles
        /\ ip = [c \in Clients |-> 1]
        /\ did = [c \in Clients |-> FALSE]

\* The source and the destination of a call
From(c, call) == IF call.rw = "r" THEN Server ELSE Home[c]
To(c, call) == IF call.rw = "r" THEN Home[c] ELSE Server

Copy(c) ==
    /\ ip[c] <= Len(Script[c]) /\ ~did[c]
    /\ LET call == Script[c][ip[c]]
           n == call.name
       IN  /\ files[From(c, call)][n] /= None
           /\ files[To(c, call)][n] = None
           /\ files' = [files EXCEPT ![To(c, call)][n] = files[From(c, call)][n]]
    /\ did' = [did EXCEPT ![c] = TRUE]
    /\ UNCHANGED ip

Return(c) ==
    /\ ip[c] <= Len(Script[c])
    /\ ip' = [ip EXCEPT ![c] = @ + 1]
    /\ did' = [did EXCEPT ![c] = FALSE]
    /\ UNCHANGED files

Next == \E c \in Clients : Copy(c) \/ Return(c)

Spec == Init /\ [][Next]_vars

====
