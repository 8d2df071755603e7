-------------------------- MODULE MCUserProcesses ---------------------------
(***************************************************************************)
(* User programs for UserProcesses, written as the test programs of        *)
(* test/Threads and test/VM are: a main creates threads that join, grow    *)
(* the heap with Sbrk and exit, and forks processes that it joins.         *)
(***************************************************************************)
EXTENDS UserProcesses

CONSTANTS main, w1, w2, w3, c, c1, h, x, y, z, p, q, m

TC(f, v) == [op |-> "ThreadCreate", f |-> f, var |-> v]
TJ(v) == [op |-> "ThreadJoin", tid |-> v]
TE == [op |-> "ThreadExit"]
EX == [op |-> "Exit"]
FE(prog, v) == [op |-> "ForkExec", prog |-> prog, var |-> v]
PJ(v) == [op |-> "ProcessJoin", pid |-> v]
SB(n) == [op |-> "Sbrk", n |-> n]
HT == [op |-> "Halt"]
PS == [op |-> "PutString"]
SI(v, n) == [op |-> "SemInit", sem |-> v, val |-> n]
SP(v) == [op |-> "SemPost", sem |-> v]
SW(v) == [op |-> "SemWait", sem |-> v]
SD(v) == [op |-> "SemDestroy", sem |-> v]

(* threadsjoin.c with a third ThreadCreate that finds no free slot, one  *)
(* thread growing the heap and one asking for more frames than exist;     *)
(* the shell then forks "child" (pid 1), whose main waits on a semaphore *)
(* its thread posts before it prints, as threadsmigrate.c does, and      *)
(* "halter", which joins pid 1 and halts the machine.                     *)
ProcessesPages == [r \in {"shell", "child", "halter"} |-> 1]
ProcessesCode ==
    [r \in {"shell", "worker", "big", "child", "cworker", "halter"} |->
        CASE r = "shell" -> <<TC("worker", x), TC("big", y), TC("worker", z), FE("child", p),
                              TJ(x), TJ(y), FE("halter", q), EX>>
          [] r = "worker" -> <<PS, SB(1), TE>>
          [] r = "big" -> <<SB(NumPhysPages), PS, TE>>
          [] r = "child" -> <<SI(m, 0), TC("cworker", x), SW(m), SD(m), PS, EX>>
          [] r = "cworker" -> <<SP(m), PS, TE>>
          [] r = "halter" -> <<PJ(1), HT>>]


(* tinyshell.c given a name that is not a file: ForkExec("nosuch"), then *)
(* ProcessJoin of what it returned.                                       *)
MissingPages == [r \in {"shell"} |-> 1]
MissingCode ==
    [r \in {"shell"} |-> <<FE("nosuch", p), PJ(p), PS, EX>>]

(* Two threads of one process fork at once, as two shells or two stress *)
(* loops would: main forks "child" while its thread forks "child" too.    *)
RaceCode ==
    [r \in {"shell", "forker", "child"} |->
        CASE r = "shell" -> <<TC("forker", x), FE("child", p), TJ(x), EX>>
          [] r = "forker" -> <<FE("child", q), TE>>
          [] r = "child" -> <<PS, EX>>]
RacePages == [r \in {"shell", "child"} |-> 1]
(* A thread posts a semaphore another thread waits on and destroys it at *)
(* once, taking the post as the end of its use; the main joins both.     *)
SemDestroyCode ==
    [r \in {"shell", "waiter", "poster"} |->
        CASE r = "shell" -> <<SI(m, 0), TC("waiter", x), TC("poster", y), TJ(x), TJ(y), EX>>
          [] r = "waiter" -> <<SW(m), TE>>
          [] r = "poster" -> <<SP(m), SD(m), TE>>]
SemDestroyPages == [r \in {"shell"} |-> 1]

====
