---------------------------- MODULE UserProcesses ----------------------------
(***************************************************************************)
(* User threads and processes of NonOS: the system calls ThreadCreate,     *)
(* ThreadExit, ThreadJoin, Exit, ForkExec, ProcessJoin, Sbrk and Halt      *)
(* (userprog/userthread.cc, exception.cc), the loading of a new process    *)
(* (AddrSpace::AddrSpace, addrspace.cc) and the pool of physical frames    *)
(* (frameprovider.cc).                                                     *)
(*                                                                         *)
(* Nachos does not preempt (without -rs): a thread runs until it sleeps.   *)
(* These calls sleep only in Condition::Wait, Semaphore::P at value 0, and *)
(* disk or console I/O, and none of them holds threadsLock,                *)
(* nUsedAddrSpaceLock or the frame provider's lock across a sleep, so      *)
(* every Lock is free whenever a thread is woken and each action is one    *)
(* stretch of a call between two sleeps.                                   *)
(***************************************************************************)
EXTENDS Integers, Sequences, FiniteSets

CONSTANTS
    Threads,               \* Thread objects the kernel can create
    Boot,                  \* the thread that runs the first program
    FirstProg,             \* the program Nachos is started with (-x)
    Pages,                 \* Pages[p]: numPages of executable p; a name
                           \* outside DOMAIN Pages is a missing file
    Code,                  \* Code[r]: the calls of user routine r; the
                           \* routine named p is the main of program p
    NumPhysPages,          \* frames of the machine (machine.h)
    MaxThreadsPerProcess,  \* thread stack slots of an AddrSpace
    MaxSpaces,             \* AddrSpace objects built in one run
    Vars,                  \* user variables holding a returned id
    MAX_SEM,               \* slots of AddrSpace::semList (addrspace.h)
    SemVars,               \* the program's global sem_t variables
    None                   \* model value

MaxProcesses == NumPhysPages                        \* addrspace.h
MaxThreads == MaxThreadsPerProcess * MaxProcesses   \* addrspace.h
Tids == 0 .. MaxThreads - 1
Pids == 0 .. MaxProcesses - 1
Frames == 0 .. NumPhysPages - 1
SlotIds == 0 .. MaxThreadsPerProcess - 1
SemIds == 0 .. MAX_SEM - 1
Objs == 1 .. MaxSpaces

ASSUME Boot \in Threads /\ FirstProg \in DOMAIN Pages /\ None \notin Threads

VARIABLES
    run,         \* the running thread, or None when the CPU idles
    ready,       \* the scheduler's FIFO ready list
    io,          \* threads asleep until a disk or console request ends
    pc,          \* pc[t]: where thread t is; "unborn" before new Thread
    ip,          \* ip[t]: index of t's current call in Code[code[t]]
    code,        \* code[t]: the routine t runs (program name for a main)
    wt,          \* wt[t]: what t waits for: a tid, an AddrSpace, a child
    uv,          \* uv[t][v]: user variable v of thread t
    isMain,      \* Thread::isMain
    tid,         \* Thread::GetThreadId
    space,       \* Thread::space: an AddrSpace object, or None
    tidMap,      \* the global bitmap of thread ids
    tinfo,       \* threadsInfos[tid]: user thread id, stack slot and the
                 \* queue of threadCond, or None
    sp,          \* sp[o]: AddrSpace object o
    addrspaces,  \* addrspaces[pid]
    pidMap,      \* the global bitmap of pids
    lastId,      \* GetNewPid's static lastId
    nUsed,       \* AddrSpace::nUsedAddrSpace
    frameMap,    \* FrameProvider: frames in use
    nAvail,      \* FrameProvider::nAvailFrame
    sem,         \* value and queue of semFORK (fork) and of SynchConsole's
                 \* semThreads (con)
    halted,      \* Interrupt::Halt was called
    fault        \* "none", or the undefined or fatal operation done

vars == <<run, ready, io, pc, ip, code, wt, uv, isMain, tid, space, tidMap,
          tinfo, sp, addrspaces, pidMap, lastId, nUsed, frameMap, nAvail,
          sem, halted, fault>>

-----------------------------------------------------------------------------
LowestOf(S) == CHOOSE x \in S : \A y \in S : x <= y
(* The n lowest members of S: n calls of BitMap::Find. *)
LowestN(S, n) == {x \in S : Cardinality({y \in S : y < x}) < n}

Op(t) == Code[code[t]][ip[t]]
Val(t, a) == IF a \in Vars THEN uv[t][a] ELSE a

(* t is running at label l. *)
At(t, l) == run = t /\ pc[t] = l /\ ~halted /\ fault = "none"
Calls(t, names) == At(t, "call") /\ Op(t).op \in names

(* Scheduler::FindNextToRun after the running thread sleeps or finishes, *)
(* with rdy the ready list once the step's wake-ups are appended.         *)
Switch(rdy) ==
    IF rdy = <<>> THEN run' = None /\ ready' = <<>>
    ELSE run' = Head(rdy) /\ ready' = Tail(rdy)

(* The call returns; res is written to the call's variable, if any. *)
Return(t, res) ==
    /\ ip' = [ip EXCEPT ![t] = @ + 1]
    /\ uv' = IF "var" \in DOMAIN Op(t) THEN [uv EXCEPT ![t][Op(t).var] = res] ELSE uv
    /\ pc' = [pc EXCEPT ![t] = "call"]
    /\ UNCHANGED <<run, ready>>

(* A disk or console request: t sleeps until IoDone, then resumes at l. *)
Sleep(t, l) ==
    /\ io' = io \cup {t}
    /\ pc' = [pc EXCEPT ![t] = l]
    /\ Switch(ready)

(* Semaphore::V (threads/synch.cc): the first waiter of queue q is made *)
(* ready, then value++.                                                    *)
Woken(q) == IF q = <<>> THEN <<>> ELSE <<Head(q)>>
VSem(sm) == [val |-> sm.val + 1, q |-> IF sm.q = <<>> THEN <<>> ELSE Tail(sm.q)]

(* new Thread (thread.cc): the lowest free tid of tidMap, or -1.  The new *)
(* Thread shares its creator's space: StartUserThread runs in            *)
(* currentThread->space, which do_UserThreadCreate never sets.           *)
Unborn == {x \in Threads : pc[x] = "unborn"}
NewThread == CHOOSE x \in Unborn : TRUE
NewTid == IF Tids \ tidMap = {} THEN -1 ELSE LowestOf(Tids \ tidMap)

(* AddrSpace::GetThreadInfoFromUserthreadId: the first marked stack slot *)
(* whose thread has user thread id u.                                     *)
SlotTid(o, u) ==
    LET found == {s \in SlotIds : sp[o].slots[s] # None /\ tinfo[sp[o].slots[s]].utid = u}
    IN IF found = {} THEN None ELSE sp[o].slots[LowestOf(found)]

(* A fresh AddrSpace object, as AddrSpace::AddrSpace leaves it. *)
NoSpace == [st |-> "none", pid |-> -1, nThreads |-> 0, slots |-> [s \in SlotIds |-> None],
            nextUtid |-> 1, frames |-> {}, pjq |-> <<>>, ntq |-> <<>>, by |-> None,
            usem |-> [s \in SemIds |-> [live |-> FALSE, val |-> 0, q |-> <<>>, gen |-> 0]],
            mem |-> [v \in SemVars |-> 0]]

-----------------------------------------------------------------------------
(* Mutant: the nextUtid++ of AllocateThreadData is lost. *)
ThreadCreateSameUtid(t) ==
    /\ Calls(t, {"ThreadCreate"}) /\ Unborn # {}
    /\ LET o == space[t]
           nt == NewThread
           x == NewTid
           free == {s \in SlotIds : sp[o].slots[s] = None}
           slot == IF free = {} THEN -1 ELSE LowestOf(free)
           ok == slot # -1 /\ x # -1
           utid == sp[o].nextUtid
       IN /\ fault' = IF slot # -1 /\ x = -1 THEN "write to threadsInfos[-1]" ELSE fault
          /\ tidMap' = tidMap \cup ({x} \ {-1})
          /\ tinfo' = IF ok THEN [tinfo EXCEPT ![x] = [utid |-> utid, slot |-> slot, q |-> <<>>]]
                      ELSE tinfo
          /\ sp' = IF ok THEN [sp EXCEPT ![o].slots[slot] = x, ![o].nThreads = @ + 1] ELSE sp
          /\ pc' = [pc EXCEPT ![nt] = IF ok THEN "call" ELSE "leaked"]
          /\ ready' = IF ok THEN Append(ready, nt) ELSE ready
          /\ code' = [code EXCEPT ![nt] = Op(t).f]
          /\ isMain' = [isMain EXCEPT ![nt] = FALSE]
          /\ tid' = [tid EXCEPT ![nt] = x]
          /\ space' = [space EXCEPT ![nt] = o]
          /\ ip' = [ip EXCEPT ![t] = @ + 1]
          /\ uv' = [uv EXCEPT ![t][Op(t).var] = IF ok THEN utid ELSE -1]
    /\ UNCHANGED <<run, io, wt, addrspaces, pidMap, lastId, nUsed, frameMap, nAvail,
                   sem, halted>>

(* do_UserThreadCreate: AllocateThreadData takes the lowest free stack    *)
(* slot; on a full table or tid -1 the call returns -1, and the new       *)
(* Thread, its tid and a slot taken for tid -1 are never given back.      *)
ThreadCreate(t) ==
    /\ Calls(t, {"ThreadCreate"}) /\ Unborn # {}
    /\ LET o == space[t]
           nt == NewThread
           x == NewTid
           free == {s \in SlotIds : sp[o].slots[s] = None}
           slot == IF free = {} THEN -1 ELSE LowestOf(free)
           ok == slot # -1 /\ x # -1
           utid == sp[o].nextUtid
       IN /\ fault' = IF slot # -1 /\ x = -1 THEN "write to threadsInfos[-1]" ELSE fault
          /\ tidMap' = tidMap \cup ({x} \ {-1})
          /\ tinfo' = IF ok THEN [tinfo EXCEPT ![x] = [utid |-> utid, slot |-> slot, q |-> <<>>]]
                      ELSE tinfo
          /\ sp' = IF ok THEN [sp EXCEPT ![o].slots[slot] = x, ![o].nextUtid = @ + 1,
                                         ![o].nThreads = @ + 1]
                   ELSE sp
          /\ pc' = [pc EXCEPT ![nt] = IF ok THEN "call" ELSE "leaked"]
          /\ ready' = IF ok THEN Append(ready, nt) ELSE ready
          /\ code' = [code EXCEPT ![nt] = Op(t).f]
          /\ isMain' = [isMain EXCEPT ![nt] = FALSE]
          /\ tid' = [tid EXCEPT ![nt] = x]
          /\ space' = [space EXCEPT ![nt] = o]
          /\ ip' = [ip EXCEPT ![t] = @ + 1]
          /\ uv' = [uv EXCEPT ![t][Op(t).var] = IF ok THEN utid ELSE -1]
    /\ UNCHANGED <<run, io, wt, addrspaces, pidMap, lastId, nUsed, frameMap, nAvail,
                   sem, halted>>

(* Mutant: DeleteThreadData does not clear the tid in tidMap. *)
ThreadExitKeepsTid(t) ==
    /\ Calls(t, {"ThreadExit", "Exit"}) /\ ~isMain[t]
    /\ LET o == space[t]
           x == tid[t]
           n == sp[o].nThreads - 1
           signal == n = 0 /\ sp[o].ntq # <<>>
       IN /\ tinfo' = [tinfo EXCEPT ![x].q = <<>>]
          /\ tidMap' = tidMap
          /\ sp' = [sp EXCEPT ![o].slots[tinfo[x].slot] = None, ![o].nThreads = n,
                              ![o].ntq = IF signal THEN Tail(@) ELSE @]
          /\ pc' = [pc EXCEPT ![t] = "done"]
          /\ Switch(ready \o tinfo[x].q \o (IF signal THEN <<Head(sp[o].ntq)>> ELSE <<>>))
    /\ UNCHANGED <<io, ip, code, wt, uv, isMain, tid, space, addrspaces, pidMap, lastId,
                   nUsed, frameMap, nAvail, sem, halted, fault>>

(* Mutant: DeleteThreadData does not free the stack slot. *)
ThreadExitKeepsSlot(t) ==
    /\ Calls(t, {"ThreadExit", "Exit"}) /\ ~isMain[t]
    /\ LET o == space[t]
           x == tid[t]
           n == sp[o].nThreads - 1
           signal == n = 0 /\ sp[o].ntq # <<>>
       IN /\ tinfo' = [tinfo EXCEPT ![x].q = <<>>]
          /\ tidMap' = tidMap \ {x}
          /\ sp' = [sp EXCEPT ![o].nThreads = n,
                              ![o].ntq = IF signal THEN Tail(@) ELSE @]
          /\ pc' = [pc EXCEPT ![t] = "done"]
          /\ Switch(ready \o tinfo[x].q \o (IF signal THEN <<Head(sp[o].ntq)>> ELSE <<>>))
    /\ UNCHANGED <<io, ip, code, wt, uv, isMain, tid, space, addrspaces, pidMap, lastId,
                   nUsed, frameMap, nAvail, sem, halted, fault>>

(* do_UserThreadExit (also SC_Exit of a thread that is not a main):      *)
(* Broadcast threadCond, DeleteThreadData, nThreads--, and Signal         *)
(* nThreadsCond when it reaches 0; then Finish.                           *)
ThreadExit(t) ==
    /\ Calls(t, {"ThreadExit", "Exit"}) /\ ~isMain[t]
    /\ LET o == space[t]
           x == tid[t]
           n == sp[o].nThreads - 1
           signal == n = 0 /\ sp[o].ntq # <<>>
       IN /\ tinfo' = [tinfo EXCEPT ![x].q = <<>>]
          /\ tidMap' = tidMap \ {x}
          /\ sp' = [sp EXCEPT ![o].slots[tinfo[x].slot] = None, ![o].nThreads = n,
                              ![o].ntq = IF signal THEN Tail(@) ELSE @]
          /\ pc' = [pc EXCEPT ![t] = "done"]
          /\ Switch(ready \o tinfo[x].q \o (IF signal THEN <<Head(sp[o].ntq)>> ELSE <<>>))
    /\ UNCHANGED <<io, ip, code, wt, uv, isMain, tid, space, addrspaces, pidMap, lastId,
                   nUsed, frameMap, nAvail, sem, halted, fault>>

(* do_UserThreadJoin's loop: while the tinfo last looked up is of a       *)
(* marked tid, look u up again and Wait on its threadCond.  A woken       *)
(* joiner re-tests the tid of the tinfo it slept on: if a new thread has  *)
(* taken that tid, the lookup finds nothing and tinfo is NULL.            *)
JoinLoop(t, x) ==
    LET y == SlotTid(space[t], Val(t, Op(t).tid))
    IN IF x = None \/ x \notin tidMap
       THEN Return(t, 0) /\ UNCHANGED <<tinfo, wt, fault>>
       ELSE IF y = None
       THEN fault' = "NULL tinfo in do_UserThreadJoin" /\ UNCHANGED <<tinfo, wt, ip, uv, pc, run, ready>>
       ELSE /\ tinfo' = [tinfo EXCEPT ![y].q = Append(@, t)]
            /\ wt' = [wt EXCEPT ![t] = y]
            /\ pc' = [pc EXCEPT ![t] = "tj_wait"]
            /\ Switch(ready)
            /\ UNCHANGED <<ip, uv, fault>>

ThreadJoin(t) ==
    /\ Calls(t, {"ThreadJoin"})
    /\ JoinLoop(t, SlotTid(space[t], Val(t, Op(t).tid)))
    /\ UNCHANGED <<io, code, isMain, tid, space, tidMap, sp, addrspaces, pidMap, lastId,
                   nUsed, frameMap, nAvail, sem, halted>>

TjWoken(t) ==
    /\ At(t, "tj_wait")
    /\ JoinLoop(t, wt[t])
    /\ UNCHANGED <<io, code, isMain, tid, space, tidMap, sp, addrspaces, pidMap, lastId,
                   nUsed, frameMap, nAvail, sem, halted>>

-----------------------------------------------------------------------------
(* Mutant: endProcess without ReleaseFrames. *)
EndProcessKeepsFrames(t, rdy) ==
    LET o == space[t]
        x == tid[t]
        hasInfo == x > 0 /\ x \in tidMap
    IN /\ UNCHANGED <<frameMap, nAvail>>
       /\ sp' = IF o = None THEN sp ELSE [sp EXCEPT ![o].st = "deleted"]
       /\ IF nUsed = 0
          THEN halted' = TRUE /\ UNCHANGED <<tidMap, tinfo, nUsed, pc, run, ready>>
          ELSE /\ tidMap' = IF hasInfo THEN tidMap \ {x} ELSE tidMap
               /\ tinfo' = IF hasInfo THEN [tinfo EXCEPT ![x] = None] ELSE tinfo
               /\ nUsed' = nUsed - 1
               /\ pc' = [pc EXCEPT ![t] = "done"]
               /\ Switch(rdy \o (IF hasInfo THEN tinfo[x].q ELSE <<>>))
               /\ UNCHANGED halted

(* endProcess (exception.cc): ReleaseFrames of currentThread->space, then *)
(* Halt if nUsedAddrSpace is 0 (the first process is not counted);        *)
(* otherwise clear the tid and Broadcast the threadCond of a tinfo        *)
(* GetThreadInfoFromTid finds, nUsedAddrSpace--, delete the space and     *)
(* Finish.  rdy is the ready list with the step's other wake-ups.         *)
EndProcess(t, rdy) ==
    LET o == space[t]
        x == tid[t]
        freed == IF o = None THEN {} ELSE sp[o].frames
        hasInfo == x > 0 /\ x \in tidMap
    IN /\ frameMap' = frameMap \ freed
       /\ nAvail' = nAvail + Cardinality(freed)
       /\ sp' = IF o = None THEN sp ELSE [sp EXCEPT ![o].st = "deleted"]
       /\ IF nUsed = 0
          THEN halted' = TRUE /\ UNCHANGED <<tidMap, tinfo, nUsed, pc, run, ready>>
          ELSE /\ tidMap' = IF hasInfo THEN tidMap \ {x} ELSE tidMap
               /\ tinfo' = IF hasInfo THEN [tinfo EXCEPT ![x] = None] ELSE tinfo
               /\ nUsed' = nUsed - 1
               /\ pc' = [pc EXCEPT ![t] = "done"]
               /\ Switch(rdy \o (IF hasInfo THEN tinfo[x].q ELSE <<>>))
               /\ UNCHANGED halted

(* SynchConsole::SynchPutString: P(semThreads), then one PutChar and a  *)
(* sleep until WriteDone per character (one request here), V(semThreads). *)
(* The thread resumes at writeL, or waits for semThreads at waitL.        *)
ConsoleP(t, waitL, writeL, rdy) ==
    IF sem.con.val > 0
    THEN /\ sem' = [sem EXCEPT !.con.val = @ - 1]
         /\ io' = io \cup {t}
         /\ pc' = [pc EXCEPT ![t] = writeL]
         /\ Switch(rdy)
    ELSE /\ sem' = [sem EXCEPT !.con.q = Append(@, t)]
         /\ pc' = [pc EXCEPT ![t] = waitL]
         /\ Switch(rdy)
         /\ UNCHANGED io

(* Mutant: the main thread does not wait for nThreads to reach 0. *)
MainWaitNoJoin(t, s, rdy) == sp' = s /\ ConsoleP(t, "ex_cwait", "ex_end", rdy)

(* synchThreadsMainExit's loop: Wait on nThreadsCond while nThreads != 0; *)
(* then exitCode writes to the console.                                   *)
MainWait(t, s, rdy) ==
    LET o == space[t]
    IN IF s[o].nThreads # 0
       THEN /\ sp' = [s EXCEPT ![o].ntq = Append(@, t)]
            /\ pc' = [pc EXCEPT ![t] = "ex_wait"]
            /\ Switch(rdy)
            /\ UNCHANGED <<io, sem>>
       ELSE sp' = s /\ ConsoleP(t, "ex_cwait", "ex_end", rdy)

(* Mutant: processJoinCond is not Broadcast. *)
ExitMainNoBroadcast(t) ==
    /\ Calls(t, {"Exit", "ThreadExit"}) /\ isMain[t]
    /\ pidMap' = pidMap \ {sp[space[t]].pid}
    /\ MainWait(t, sp, ready)
    /\ UNCHANGED <<ip, code, wt, uv, isMain, tid, space, tidMap, tinfo, addrspaces, lastId,
                   nUsed, frameMap, nAvail, halted, fault>>

(* SC_Exit of a main thread: synchThreadsMainExit clears the pid and     *)
(* Broadcasts processJoinCond, then waits for the process's threads.      *)
ExitMain(t) ==
    /\ Calls(t, {"Exit", "ThreadExit"}) /\ isMain[t]
    /\ LET o == space[t]
       IN /\ pidMap' = pidMap \ {sp[o].pid}
          /\ MainWait(t, [sp EXCEPT ![o].pjq = <<>>], ready \o sp[o].pjq)
    /\ UNCHANGED <<ip, code, wt, uv, isMain, tid, space, tidMap, tinfo, addrspaces, lastId,
                   nUsed, frameMap, nAvail, halted, fault>>

ExWoken(t) ==
    /\ At(t, "ex_wait")
    /\ MainWait(t, sp, ready)
    /\ UNCHANGED <<ip, code, wt, uv, isMain, tid, space, tidMap, tinfo, addrspaces, pidMap,
                   lastId, nUsed, frameMap, nAvail, halted, fault>>

ExCWait(t) ==
    /\ At(t, "ex_cwait")
    /\ ConsoleP(t, "ex_cwait", "ex_end", ready)
    /\ UNCHANGED <<ip, code, wt, uv, isMain, tid, space, tidMap, tinfo, sp, addrspaces, pidMap,
                   lastId, nUsed, frameMap, nAvail, halted, fault>>

(* exitCode's string written: V(semThreads), then endProcess. *)
ExEnd(t) ==
    /\ At(t, "ex_end")
    /\ sem' = [sem EXCEPT !.con = VSem(@)]
    /\ EndProcess(t, ready \o Woken(sem.con.q))
    /\ UNCHANGED <<io, ip, code, wt, uv, isMain, tid, space, addrspaces, pidMap, lastId, fault>>

(* SC_PutString, PutChar and PutInt: a console write. *)
PutString(t) ==
    /\ Calls(t, {"PutString"})
    /\ ConsoleP(t, "ps_wait", "ps_write", ready)
    /\ UNCHANGED <<ip, code, wt, uv, isMain, tid, space, tidMap, tinfo, sp, addrspaces, pidMap,
                   lastId, nUsed, frameMap, nAvail, halted, fault>>

PsWait(t) ==
    /\ At(t, "ps_wait")
    /\ ConsoleP(t, "ps_wait", "ps_write", ready)
    /\ UNCHANGED <<ip, code, wt, uv, isMain, tid, space, tidMap, tinfo, sp, addrspaces, pidMap,
                   lastId, nUsed, frameMap, nAvail, halted, fault>>

PsWrite(t) ==
    /\ At(t, "ps_write")
    /\ sem' = [sem EXCEPT !.con = VSem(@)]
    /\ ready' = ready \o Woken(sem.con.q)
    /\ ip' = [ip EXCEPT ![t] = @ + 1]
    /\ pc' = [pc EXCEPT ![t] = "call"]
    /\ UNCHANGED <<run, io, code, wt, uv, isMain, tid, space, tidMap, tinfo, sp, addrspaces,
                   pidMap, lastId, nUsed, frameMap, nAvail, halted, fault>>

(* Mutant: do_Sbrk without the NumAvailFrame() >= n test. *)
SbrkNoCheck(t) ==
    /\ Calls(t, {"Sbrk"})
    /\ LET new == LowestN(Frames \ frameMap, Op(t).n)
       IN /\ frameMap' = frameMap \cup new
          /\ nAvail' = nAvail - Op(t).n
          /\ sp' = [sp EXCEPT ![space[t]].frames = @ \cup new]
    /\ Return(t, 0)
    /\ UNCHANGED <<io, code, wt, isMain, tid, space, tidMap, tinfo, addrspaces, pidMap,
                   lastId, nUsed, sem, halted, fault>>

(* AddrSpace::do_Sbrk: under the frame provider's lock, n more frames if *)
(* NumAvailFrame() >= n, each from GetEmptyFrame; otherwise return 0.     *)
Sbrk(t) ==
    /\ Calls(t, {"Sbrk"})
    /\ LET o == space[t]
           new == LowestN(Frames \ frameMap, Op(t).n)
       IN IF nAvail >= Op(t).n
          THEN /\ frameMap' = frameMap \cup new
               /\ nAvail' = nAvail - Op(t).n
               /\ sp' = [sp EXCEPT ![o].frames = @ \cup new]
          ELSE UNCHANGED <<frameMap, nAvail, sp>>
    /\ Return(t, 0)
    /\ UNCHANGED <<io, code, wt, isMain, tid, space, tidMap, tinfo, addrspaces, pidMap,
                   lastId, nUsed, sem, halted, fault>>

(* SC_Halt: Interrupt::Halt stops the machine. *)
HaltCall(t) ==
    /\ Calls(t, {"Halt"})
    /\ halted' = TRUE
    /\ UNCHANGED <<run, ready, io, pc, ip, code, wt, uv, isMain, tid, space, tidMap, tinfo,
                   sp, addrspaces, pidMap, lastId, nUsed, frameMap, nAvail, sem, fault>>

-----------------------------------------------------------------------------
(* do_ForkExec's return value: newThread->space->pid, or -1 if NULL. *)
ForkResult(o) == IF o = None THEN -1 ELSE sp[o].pid

(* Semaphore::P of semFORK in do_ForkExec, re-tested in a loop when   *)
(* woken, then the return; pc0 and rdy are pc and the ready list so far.  *)
ForkP(t, pc0, rdy, res) ==
    IF sem.fork.val = 0
    THEN /\ sem' = [sem EXCEPT !.fork.q = Append(@, t)]
         /\ pc' = [pc0 EXCEPT ![t] = "fe_wait"]
         /\ Switch(rdy)
         /\ UNCHANGED <<ip, uv>>
    ELSE /\ sem' = [sem EXCEPT !.fork.val = @ - 1]
         /\ pc' = [pc0 EXCEPT ![t] = "call"]
         /\ ip' = [ip EXCEPT ![t] = @ + 1]
         /\ uv' = [uv EXCEPT ![t][Op(t).var] = res]
         /\ ready' = rdy
         /\ UNCHANGED run

(* do_ForkExec: new Thread, refuse at MaxProcesses (the Thread and its    *)
(* tid are kept), nUsedAddrSpace++, a threadsInfos entry for the new tid, *)
(* Fork(run_ForkExec), then P(semFORK) and read newThread->space.         *)
ForkExec(t) ==
    /\ Calls(t, {"ForkExec"}) /\ Unborn # {}
    /\ LET nt == NewThread
           x == NewTid
       IN /\ tidMap' = tidMap \cup ({x} \ {-1})
          /\ code' = [code EXCEPT ![nt] = Op(t).prog]
          /\ tid' = [tid EXCEPT ![nt] = x]
          /\ space' = [space EXCEPT ![nt] = space[t]]
          /\ wt' = [wt EXCEPT ![t] = nt]
          /\ IF nUsed >= MaxProcesses
             THEN /\ pc' = [pc EXCEPT ![nt] = "leaked"]
                  /\ ip' = [ip EXCEPT ![t] = @ + 1]
                  /\ uv' = [uv EXCEPT ![t][Op(t).var] = -1]
                  /\ UNCHANGED <<nUsed, tinfo, sem, run, ready, fault>>
             ELSE /\ nUsed' = nUsed + 1
                  /\ fault' = IF x = -1 THEN "write to threadsInfos[-1]" ELSE fault
                  /\ tinfo' = IF x = -1 THEN tinfo
                              ELSE [tinfo EXCEPT ![x] = [utid |-> 0, slot |-> -1, q |-> <<>>]]
                  /\ ForkP(t, [pc EXCEPT ![nt] = "ld_start"], Append(ready, nt), ForkResult(space[t]))
    /\ UNCHANGED <<io, isMain, sp, addrspaces, pidMap, lastId, frameMap, nAvail, halted>>

(* Woken from semFORK: newThread is read again; a child that has already *)
(* finished is a deleted Thread.                                          *)
FeWoken(t) ==
    /\ At(t, "fe_wait")
    /\ IF pc[wt[t]] = "done"
       THEN fault' = "use of a deleted Thread in do_ForkExec" /\ UNCHANGED <<sem, pc, ip, uv, run, ready>>
       ELSE ForkP(t, pc, ready, ForkResult(space[wt[t]])) /\ UNCHANGED fault
    /\ UNCHANGED <<io, code, wt, isMain, tid, space, tidMap, tinfo, sp, addrspaces, pidMap,
                   lastId, nUsed, frameMap, nAvail, halted>>

(* Mutant: semFORK is V'd when run_ForkExec starts, before the space. *)
LdStartEarlyV(t) ==
    /\ At(t, "ld_start")
    /\ sem' = [sem EXCEPT !.fork = VSem(@)]
    /\ io' = io \cup {t}
    /\ pc' = [pc EXCEPT ![t] = "ld_open"]
    /\ Switch(ready \o Woken(sem.fork.q))
    /\ UNCHANGED <<ip, code, wt, uv, isMain, tid, space, tidMap, tinfo, sp, addrspaces, pidMap,
                   lastId, nUsed, frameMap, nAvail, halted, fault>>

(* run_ForkExec: StartProcess opens the executable, reading the          *)
(* directory from disk.                                                    *)
LdStart(t) ==
    /\ At(t, "ld_start")
    /\ Sleep(t, "ld_open")
    /\ UNCHANGED <<ip, code, wt, uv, isMain, tid, space, tidMap, tinfo, sp, addrspaces, pidMap,
                   lastId, nUsed, frameMap, nAvail, sem, halted, fault>>

(* GetNewPid: pidMap->FindStart(lastId), the first free pid from lastId  *)
(* on, wrapping round (bitmap.cc), or -1.                                 *)
NewPid ==
    LET free == Pids \ pidMap
        after == {p \in free : p >= lastId}
    IN IF free = {} THEN -1 ELSE IF after # {} THEN LowestOf(after) ELSE LowestOf(free)

(* The file opened: if it is missing, StartProcess returns (V(semFORK),   *)
(* leaving the space as it is) and run_ForkExec calls endProcess.         *)
(* Otherwise AddrSpace::AddrSpace takes a pid, publishes                  *)
(* addrspaces[pid] and currentThread->space, and reads the header.        *)
LdOpen(t) ==
    /\ At(t, "ld_open")
    /\ IF code[t] \notin DOMAIN Pages
       THEN /\ sem' = [sem EXCEPT !.fork = VSem(@)]
            /\ EndProcess(t, ready \o Woken(sem.fork.q))
            /\ UNCHANGED <<io, space, addrspaces, pidMap, lastId, fault>>
       ELSE LET pid == NewPid
                o == LowestOf({b \in Objs : sp[b].st = "none"})
            IN /\ \E b \in Objs : sp[b].st = "none"
               /\ fault' = IF pid = -1 THEN "write to addrspaces[-1]" ELSE fault
               /\ pidMap' = pidMap \cup ({pid} \ {-1})
               /\ lastId' = pid + 1
               /\ addrspaces' = IF pid = -1 THEN addrspaces ELSE [addrspaces EXCEPT ![pid] = o]
               /\ sp' = [sp EXCEPT ![o] = [NoSpace EXCEPT !.st = "live", !.pid = pid, !.by = t]]
               /\ space' = [space EXCEPT ![t] = o]
               /\ Sleep(t, "ld_hdr")
               /\ UNCHANGED <<tidMap, tinfo, nUsed, frameMap, nAvail, sem, halted>>
    /\ UNCHANGED <<ip, code, wt, uv, isMain, tid>>

(* The header read: under the frame provider's lock, ASSERT that         *)
(* numPages frames are free and take them with GetEmptyFrame; then       *)
(* ReadAtVirtual copies code and data from disk.                          *)
LdHdr(t) ==
    /\ At(t, "ld_hdr")
    /\ LET o == space[t]
           n == Pages[code[t]]
           new == LowestN(Frames \ frameMap, n)
       IN IF nAvail < n
          THEN fault' = "ASSERT NumAvailFrame() >= numPages" /\ UNCHANGED <<frameMap, nAvail, sp, io, pc, run, ready>>
          ELSE /\ frameMap' = frameMap \cup new
               /\ nAvail' = nAvail - n
               /\ sp' = [sp EXCEPT ![o].frames = new]
               /\ Sleep(t, "ld_code")
               /\ UNCHANGED fault
    /\ UNCHANGED <<ip, code, wt, uv, isMain, tid, space, tidMap, tinfo, addrspaces, pidMap,
                   lastId, nUsed, sem, halted>>

(* InitializeThreadData and the semaphore table; StartProcess then       *)
(* V(semFORK) and machine->Run: the program's main starts.                *)
LdCode(t) ==
    /\ At(t, "ld_code")
    /\ sem' = [sem EXCEPT !.fork = VSem(@)]
    /\ ready' = ready \o Woken(sem.fork.q)
    /\ pc' = [pc EXCEPT ![t] = "call"]
    /\ UNCHANGED <<run, io, ip, code, wt, uv, isMain, tid, space, tidMap, tinfo, sp, addrspaces,
                   pidMap, lastId, nUsed, frameMap, nAvail, halted, fault>>

(* do_ProcessJoin: reject pid < 0 or pid > MaxProcesses, then Wait on    *)
(* addrspaces[pid]->processJoinCond while pidMap marks pid.               *)
PjLoop(t, o, p) ==
    IF o # None /\ p \in pidMap
    THEN IF sp[o].st = "deleted"
         THEN fault' = "use of a deleted AddrSpace in do_ProcessJoin" /\ UNCHANGED <<sp, wt, pc, ip, uv, run, ready>>
         ELSE /\ sp' = [sp EXCEPT ![o].pjq = Append(@, t)]
              /\ wt' = [wt EXCEPT ![t] = o]
              /\ pc' = [pc EXCEPT ![t] = "pj_wait"]
              /\ Switch(ready)
              /\ UNCHANGED <<ip, uv, fault>>
    ELSE Return(t, 0) /\ UNCHANGED <<sp, wt, fault>>

ProcessJoin(t) ==
    /\ Calls(t, {"ProcessJoin"})
    /\ LET p == Val(t, Op(t).pid)
       IN IF p < 0 \/ p > MaxProcesses THEN Return(t, 0) /\ UNCHANGED <<sp, wt, fault>>
          ELSE IF p = MaxProcesses
          THEN fault' = "addrspaces[MaxProcesses] read" /\ UNCHANGED <<sp, wt, pc, ip, uv, run, ready>>
          ELSE PjLoop(t, addrspaces[p], p)
    /\ UNCHANGED <<io, code, isMain, tid, space, tidMap, tinfo, addrspaces, pidMap, lastId,
                   nUsed, frameMap, nAvail, sem, halted>>

PjWoken(t) ==
    /\ At(t, "pj_wait")
    /\ PjLoop(t, wt[t], Val(t, Op(t).pid))
    /\ UNCHANGED <<io, code, isMain, tid, space, tidMap, tinfo, addrspaces, pidMap, lastId,
                   nUsed, frameMap, nAvail, sem, halted>>

-----------------------------------------------------------------------------
(* User semaphores (do_SemInit, do_SemPost, do_SemWait, do_SemDestroy).   *)
(* usem[s] is slot s of semList with its semBitmap bit (live); a new     *)
(* Semaphore in the slot is a new generation gen, so a waiter that wakes *)
(* to find its slot cleared or of another generation reads a deleted     *)
(* Semaphore.  The sem_t named by a call is a global of the program,     *)
(* mem[v] of its AddrSpace, which SC_Seminit writes and the others read.  *)
SemId(t) == sp[space[t]].mem[Op(t).sem]
SemLive(t) == SemId(t) \in SemIds /\ sp[space[t]].usem[SemId(t)].live

(* semId < MAX_SEM && semBitmap->Test(semId): Test ASSERTs semId >= 0. *)
SemNegative(t) ==
    /\ SemId(t) < 0
    /\ fault' = "ASSERT in BitMap::Test"
    /\ UNCHANGED <<sp, wt, pc, ip, uv, run, ready>>

(* do_SemInit: Find a free slot and put a new Semaphore of the given     *)
(* value in it; SC_Seminit writes the slot, or -1, to the sem_t.        *)
SemInit(t) ==
    /\ Calls(t, {"SemInit"})
    /\ LET o == space[t]
           free == {s \in SemIds : ~sp[o].usem[s].live}
           s == LowestOf(free)
       IN sp' = IF free = {} THEN [sp EXCEPT ![o].mem[Op(t).sem] = -1]
                ELSE [sp EXCEPT ![o].usem[s] = [live |-> TRUE, val |-> Op(t).val,
                                                q |-> <<>>, gen |-> @.gen + 1],
                                ![o].mem[Op(t).sem] = s]
    /\ Return(t, 0)
    /\ UNCHANGED <<io, code, wt, isMain, tid, space, tidMap, tinfo, addrspaces, pidMap,
                   lastId, nUsed, frameMap, nAvail, sem, halted, fault>>

(* do_SemPost: Semaphore::V of a live slot; an invalid id is ignored. *)
SemPost(t) ==
    /\ Calls(t, {"SemPost"})
    /\ LET o == space[t]
           s == SemId(t)
       IN \/ SemNegative(t)
          \/ /\ SemLive(t)
             /\ sp' = [sp EXCEPT ![o].usem[s].val = @ + 1,
                                 ![o].usem[s].q = IF @ = <<>> THEN <<>> ELSE Tail(@)]
             /\ ready' = ready \o Woken(sp[o].usem[s].q)
             /\ ip' = [ip EXCEPT ![t] = @ + 1]
             /\ pc' = [pc EXCEPT ![t] = "call"]
             /\ UNCHANGED <<run, uv, wt, fault>>
          \/ /\ SemId(t) >= 0 /\ ~SemLive(t)
             /\ Return(t, 0) /\ UNCHANGED <<sp, wt, fault>>
    /\ UNCHANGED <<io, code, isMain, tid, space, tidMap, tinfo, addrspaces, pidMap, lastId,
                   nUsed, frameMap, nAvail, sem, halted>>

(* The while (value == 0) loop of Semaphore::P on generation g of slot s. *)
SwLoop(t, s, g) ==
    LET o == space[t]
        u == sp[o].usem[s]
    IN IF ~u.live \/ u.gen # g
       THEN fault' = "use of a deleted Semaphore" /\ UNCHANGED <<sp, wt, pc, ip, uv, run, ready>>
       ELSE IF u.val > 0
       THEN sp' = [sp EXCEPT ![o].usem[s].val = @ - 1] /\ Return(t, 0) /\ UNCHANGED <<wt, fault>>
       ELSE /\ sp' = [sp EXCEPT ![o].usem[s].q = Append(@, t)]
            /\ wt' = [wt EXCEPT ![t] = <<s, g>>]
            /\ pc' = [pc EXCEPT ![t] = "sw_wait"]
            /\ Switch(ready)
            /\ UNCHANGED <<ip, uv, fault>>

(* do_SemWait: Semaphore::P of a live slot; an invalid id is ignored. *)
SemWait(t) ==
    /\ Calls(t, {"SemWait"})
    /\ \/ SemNegative(t)
       \/ SemLive(t) /\ SwLoop(t, SemId(t), sp[space[t]].usem[SemId(t)].gen)
       \/ SemId(t) >= 0 /\ ~SemLive(t) /\ Return(t, 0) /\ UNCHANGED <<sp, wt, fault>>
    /\ UNCHANGED <<io, code, isMain, tid, space, tidMap, tinfo, addrspaces, pidMap, lastId,
                   nUsed, frameMap, nAvail, sem, halted>>

(* A V has woken t: it tests the value of its Semaphore again. *)
SwWoken(t) ==
    /\ At(t, "sw_wait")
    /\ SwLoop(t, wt[t][1], wt[t][2])
    /\ UNCHANGED <<io, code, isMain, tid, space, tidMap, tinfo, addrspaces, pidMap, lastId,
                   nUsed, frameMap, nAvail, sem, halted>>

(* do_SemDestroy: delete the Semaphore of a live slot, with its waiters  *)
(* still asleep in its queue, and clear the slot.                        *)
SemDestroy(t) ==
    /\ Calls(t, {"SemDestroy"})
    /\ LET o == space[t]
           s == SemId(t)
       IN \/ SemNegative(t)
          \/ /\ SemLive(t)
             /\ sp' = [sp EXCEPT ![o].usem[s].live = FALSE, ![o].usem[s].q = <<>>]
             /\ Return(t, 0) /\ UNCHANGED <<wt, fault>>
          \/ SemId(t) >= 0 /\ ~SemLive(t) /\ Return(t, 0) /\ UNCHANGED <<sp, wt, fault>>
    /\ UNCHANGED <<io, code, isMain, tid, space, tidMap, tinfo, addrspaces, pidMap, lastId,
                   nUsed, frameMap, nAvail, sem, halted>>

(* The disk or the console finishes t's request: t is made ready, and    *)
(* runs at once if the CPU was idle.                                      *)
IoDone(t) ==
    /\ t \in io /\ ~halted /\ fault = "none"
    /\ io' = io \ {t}
    /\ IF run = None THEN run' = t /\ UNCHANGED ready ELSE ready' = Append(ready, t) /\ UNCHANGED run
    /\ UNCHANGED <<pc, ip, code, wt, uv, isMain, tid, space, tidMap, tinfo, sp, addrspaces,
                   pidMap, lastId, nUsed, frameMap, nAvail, sem, halted, fault>>

-----------------------------------------------------------------------------
(* Nachos has started FirstProg in the boot thread (tid 0): its AddrSpace *)
(* has pid 0 and its frames, and StartProcess's V has brought semFORK *)
(* from -1 to 0.                                                          *)
Init ==
    /\ run = Boot /\ ready = <<>> /\ io = {}
    /\ pc = [x \in Threads |-> IF x = Boot THEN "call" ELSE "unborn"]
    /\ ip = [x \in Threads |-> 1]
    /\ code = [x \in Threads |-> FirstProg]
    /\ wt = [x \in Threads |-> None]
    /\ uv = [x \in Threads |-> [v \in Vars |-> 0]]
    /\ isMain = [x \in Threads |-> TRUE]
    /\ tid = [x \in Threads |-> IF x = Boot THEN 0 ELSE -1]
    /\ space = [x \in Threads |-> IF x = Boot THEN 1 ELSE None]
    /\ tidMap = {0}
    /\ tinfo = [x \in Tids |-> None]
    /\ sp = [o \in Objs |-> IF o = 1
                            THEN [NoSpace EXCEPT !.st = "live", !.pid = 0, !.by = Boot,
                                                 !.frames = 0 .. Pages[FirstProg] - 1]
                            ELSE NoSpace]
    /\ addrspaces = [p \in Pids |-> IF p = 0 THEN 1 ELSE None]
    /\ pidMap = {0} /\ lastId = 1 /\ nUsed = 0
    /\ frameMap = 0 .. Pages[FirstProg] - 1
    /\ nAvail = NumPhysPages - Pages[FirstProg]
    /\ sem = [fork |-> [val |-> 0, q |-> <<>>], con |-> [val |-> 1, q |-> <<>>]]
    /\ halted = FALSE /\ fault = "none"

Step(t) ==
    \/ ThreadCreate(t) \/ ThreadExit(t) \/ ThreadJoin(t) \/ TjWoken(t)
    \/ ExitMain(t) \/ ExWoken(t) \/ ExCWait(t) \/ ExEnd(t)
    \/ PutString(t) \/ PsWait(t) \/ PsWrite(t) \/ Sbrk(t) \/ HaltCall(t)
    \/ ForkExec(t) \/ FeWoken(t) \/ LdStart(t) \/ LdOpen(t) \/ LdHdr(t) \/ LdCode(t)
    \/ ProcessJoin(t) \/ PjWoken(t)
    \/ SemInit(t) \/ SemPost(t) \/ SemWait(t) \/ SwWoken(t) \/ SemDestroy(t)

(* Nachos has stopped: halted, or a fault killed it. *)
Terminated == (halted \/ fault # "none") /\ UNCHANGED vars

Next ==
    \/ \E t \in Threads : Step(t) \/ IoDone(t)
    \/ Terminated

(* The CPU runs the running thread, and every request the disk or the    *)
(* console was given completes.                                           *)
Spec == Init /\ [][Next]_vars /\ WF_vars(\E t \in Threads : Step(t))
        /\ \A t \in Threads : WF_vars(IoDone(t))

-----------------------------------------------------------------------------
Labels == {"unborn", "leaked", "done", "call", "tj_wait", "ex_wait", "ex_cwait", "ex_end",
           "ps_wait", "ps_write", "fe_wait",
           "ld_start", "ld_open", "ld_hdr", "ld_code", "pj_wait", "sw_wait"}

TypeOK ==
    /\ run \in Threads \cup {None} /\ ready \in Seq(Threads) /\ io \subseteq Threads
    /\ pc \in [Threads -> Labels] /\ space \in [Threads -> Objs \cup {None}]
    /\ tidMap \subseteq Tids /\ pidMap \subseteq Pids /\ frameMap \subseteq Frames
    /\ nUsed \in 0 .. MaxProcesses /\ nAvail \in Nat /\ sem.fork.val \in Int
    /\ \A o \in Objs : sp[o].st \in {"none", "live", "deleted"} /\ sp[o].frames \subseteq Frames
    /\ run = None => ready = <<>>

(* A user thread that has been forked and has not finished. *)
LiveUser(x) == ~isMain[x] /\ pc[x] \notin {"unborn", "done", "leaked"}

(* P-Frames (spec section 8): the frames in use are exactly those of the *)
(* live address spaces, no frame is in two of them, and nAvailFrame       *)
(* counts the rest.  AddrSpace::AddrSpace and do_Sbrk take frames under   *)
(* the frame provider's lock; endProcess gives back those of              *)
(* currentThread->space before deleting it.                               *)
FramesAccounted ==
    LET live == {o \in Objs : sp[o].st = "live"}
    IN /\ frameMap = UNION {sp[o].frames : o \in live}
       /\ \A o1, o2 \in live : o1 # o2 => sp[o1].frames \cap sp[o2].frames = {}
       /\ nAvail = NumPhysPages - Cardinality(frameMap)

(* The thread table of every live process matches its threads:         *)
(* nThreads counts the user threads that have been forked and not        *)
(* finished, each holds the stack slot its tinfo names, the marked slots *)
(* are theirs, and their user thread ids differ.  ThreadCreate, its      *)
(* failure path and ThreadExit each change these together.               *)
UserThreadsAccounted ==
    \A o \in Objs : sp[o].st = "live" =>
        LET us == {x \in Threads : LiveUser(x) /\ space[x] = o}
        IN /\ sp[o].nThreads = Cardinality(us)
           /\ {sp[o].slots[s] : s \in SlotIds} \ {None} = {tid[x] : x \in us}
           /\ \A x \in us : sp[o].slots[tinfo[tid[x]].slot] = tid[x]
           /\ \A x, y \in us : x # y => tinfo[tid[x]].utid # tinfo[tid[y]].utid

(* A ThreadJoin(u) returns only when no thread of the caller's process  *)
(* with user thread id u is still running: do_UserThreadJoin sleeps on   *)
(* the threadCond that do_UserThreadExit broadcasts.                     *)
JoinReturns(t) == pc[t] \in {"call", "tj_wait"} /\ Op(t).op = "ThreadJoin" /\ ip'[t] = ip[t] + 1
JoinWaitsForExit ==
    [][\A t \in Threads :
          JoinReturns(t) =>
              ~\E x \in Threads : /\ LiveUser(x) /\ space[x] = space[t]
                                  /\ tinfo[tid[x]].utid = Val(t, Op(t).tid)]_vars

(* ForkExec returns -1 or the pid of the address space its own child    *)
(* built (spec 4.3).  do_ForkExec sleeps on semFORK until a V, which  *)
(* StartProcess does once the child's space is published, and then reads *)
(* newThread->space.                                                      *)
ForkReturns(t) == pc[t] \in {"call", "fe_wait"} /\ Op(t).op = "ForkExec" /\ ip'[t] = ip[t] + 1
ForkExecReturnsChild ==
    [][\A t \in Threads :
          ForkReturns(t) =>
              uv'[t][Op(t).var] \in {-1} \cup {sp[o].pid : o \in {b \in Objs : sp[b].by = wt'[t]}}]_vars

(* No thread runs in a deleted address space: a process's main deletes  *)
(* its AddrSpace in endProcess only after synchThreadsMainExit has seen   *)
(* nThreads reach 0.  A child that is still opening its executable holds  *)
(* its parent's space without using it, and is not counted.              *)
SpacesOfLiveThreads ==
    ~halted =>
        \A x \in Threads :
            pc[x] \notin {"unborn", "done", "leaked", "ld_start", "ld_open"} =>
                space[x] # None /\ sp[space[x]].st = "live"

(* No call halts Nachos through an ASSERT, dereferences NULL, writes out *)
(* of an array or uses a deleted Thread or AddrSpace.                    *)
NoFault == fault = "none"

(* Every run ends with Interrupt::Halt: no thread is left waiting on a  *)
(* threadCond, nThreadsCond, processJoinCond, semFORK or semThreads that *)
(* nobody will signal, and the last endProcess sees nUsedAddrSpace at 0. *)
CallsReturn == <>halted

====
