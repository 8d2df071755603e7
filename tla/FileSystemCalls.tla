--------------------------- MODULE FileSystemCalls ---------------------------
(***************************************************************************)
(* The user-level file calls of NonOS (filesys/filesys.cc) run by Nachos   *)
(* threads: Create, Remove, OpenUser, CloseUser, ReadUser, WriteUser and   *)
(* SeekUser, with the three process-wide locks (directoryMutex,            *)
(* freeMapMutex, openedFileMutex), the per-file lock of each open-file     *)
(* slot, and the lock that SynchDisk takes around every disk request.      *)
(*                                                                         *)
(* Nachos does not preempt (unless -rs, see RandomYield): a thread runs    *)
(* until it sleeps in Semaphore::P, and every disk request sleeps until    *)
(* the disk interrupt.  Each action is such a stretch of one call.         *)
(* Lock is a Semaphore of value 1 (threads/synch.cc): P re-tests the value *)
(* in a loop, V wakes the first waiter, and the ready list is FIFO.        *)
(*                                                                         *)
(* Sector allocation is FileHeader.tla's subject; here a file is its       *)
(* header sector and its length, and Extend always succeeds.               *)
(***************************************************************************)
EXTENDS Integers, Sequences, FiniteSets

CONSTANTS
    Threads,         \* Nachos threads running user programs
    Main,            \* the thread that runs first; the others are forked
    Names,           \* file names
    HdrSectors,      \* sectors BitMap::Find can give a header
    NumDirEntries,   \* capacity of the directory
    MaxOpenedFiles,  \* slots of the open-file table (filesys.h)
    FdVars,          \* user variables holding a file descriptor
    Script,          \* Script[t]: the calls thread t makes, in order
    RandomYield,     \* Nachos started with -rs: the timer may preempt
    None             \* model value

Slots == 0 .. MaxOpenedFiles - 1
(* Every OpenUser makes a new Lock; they are numbered per slot. *)
MaxGen == Cardinality({<<t, j>> \in UNION {{t} \X DOMAIN Script[t] : t \in Threads} :
                          Script[t][j].op = "Open"})
FileLocks == Slots \X (1 .. MaxGen)
(* The Locks of FileSystem (directoryLock, freeMapLock, openedFileLock) *)
(* and of SynchDisk; slot -1 keeps them apart from the per-file Locks.   *)
DirLock == <<-1, 1>>
FreeMapLock == <<-1, 2>>
OpenedLock == <<-1, 3>>
DiskLock == <<-1, 4>>
GlobalLocks == {DirLock, FreeMapLock, OpenedLock, DiskLock}
Locks == GlobalLocks \cup FileLocks

ASSUME Main \in Threads /\ None \notin Threads \cup HdrSectors

VARIABLES
    k,        \* the kernel: Semaphore value, queue and Lock owner of every
              \* lock, which locks exist, the ready list, the running
              \* thread and the thread whose disk request is in progress
    pc,       \* pc[t]: where thread t is in its current call
    io,       \* io[t]: "none", or t's disk request: "lock", "busy", "done"
    ip,       \* ip[t]: index in Script[t] of the current call
    loc,      \* loc[t]: the call's local variables
    dir,      \* the directory on disk: name -> header sector, or None
    freeMap,  \* header sectors marked in the free map on disk
    len,      \* len[s]: numBytes of the header in sector s
    omap,     \* openedFileMap: the slots in use
    ofile,    \* ofile[i]: openedFiles[i]: header sector, its OpenFile's seek
              \* and cached length, the generation of its mutex and (history)
              \* the name it was opened under
    fdv,      \* fdv[v]: the value of the user variable v
    fault     \* "none", or the undefined or fatal operation that happened

vars == <<k, pc, io, ip, loc, dir, freeMap, len, omap, ofile, fdv, fault>>
fsVars == <<dir, freeMap, len, omap, ofile, fdv>>

-----------------------------------------------------------------------------
(* Scheduler::FindNextToRun, as Thread::Sleep calls it. *)
Dispatch(kk) ==
    IF kk.ready = <<>> THEN [kk EXCEPT !.run = None]
    ELSE [kk EXCEPT !.run = Head(kk.ready), !.ready = Tail(kk.ready)]

(* Semaphore::V: the first waiter is made ready, then value++. *)
V(kk, l) ==
    LET woken == IF kk.q[l] = <<>> THEN kk
                 ELSE [kk EXCEPT !.q[l] = Tail(@), !.ready = Append(@, Head(kk.q[l]))]
    IN [woken EXCEPT !.val[l] = @ + 1]

(* Lock::Release: lockOwner = -1, then V. *)
Release(kk, l) == [V(kk, l) EXCEPT !.owner[l] = None]

(* Semaphore::P when value > 0, and Lock::Acquire's lockOwner. *)
Take(kk, t, l) == [kk EXCEPT !.val[l] = @ - 1, !.owner[l] = t]

(* Semaphore::P when value == 0: append to the queue and Sleep. *)
Block(kk, t, l) == Dispatch([kk EXCEPT !.q[l] = Append(@, t)])

(* SynchDisk::ReadSector/WriteSector: lock->Acquire, the request, then P   *)
(* on the completion semaphore, which always sleeps.                       *)
StartIO(kk, t) ==
    IF kk.val[DiskLock] > 0
    THEN [k |-> Dispatch([Take(kk, t, DiskLock) EXCEPT !.disk = t]), io |-> "busy"]
    ELSE [k |-> Block(kk, t, DiskLock), io |-> "lock"]

(* The first label of each call. *)
Entry == [Create |-> "cr_dir", Remove |-> "rm_dir", Open |-> "op_dir",
          Close |-> "cl_opened", Read |-> "rd_test", Write |-> "wr_test",
          Seek |-> "sk_test", Fork |-> "fork", Join |-> "join"]
Arg(t) == Script[t][ip[t]]

(* t is running, not inside a disk request, at label l. *)
At(t, l) == k.run = t /\ io[t] = "none" /\ pc[t] = l /\ fault = "none"

(* The call returns: the thread goes on with its next call. *)
Return(t) ==
    /\ ip' = [ip EXCEPT ![t] = @ + 1]
    /\ pc' = [pc EXCEPT ![t] = "call"]

Goto(t, l) == pc' = [pc EXCEPT ![t] = l] /\ UNCHANGED ip

(* A step that ends in a disk request and resumes at l. *)
IOThen(t, kk, l) ==
    /\ k' = StartIO(kk, t).k
    /\ io' = [io EXCEPT ![t] = StartIO(kk, t).io]
    /\ Goto(t, l)

(* Lock::Acquire of l by t, resuming at next once it holds l.  A lock     *)
(* that has been deleted is freed memory: its use is undefined.            *)
Acquire(t, l, next) ==
    IF ~k.alive[l] THEN fault' = "use of a deleted Lock" /\ UNCHANGED <<k, pc, ip>>
    ELSE IF k.val[l] > 0 THEN k' = Take(k, t, l) /\ Goto(t, next) /\ UNCHANGED fault
    ELSE k' = Block(k, t, l) /\ UNCHANGED <<pc, ip, fault>>

(* BitMap::Test(index) ASSERTs 0 <= index < numBits. *)
IndexFault(i) == i < 0

Live == {n \in Names : dir[n] # None}
LowestFree == CHOOSE s \in HdrSectors \ freeMap :
                  \A x \in HdrSectors \ freeMap : s <= x
OpenAt(s) == {i \in omap : ofile[i].id = s}

(* Interrupt::OneTick, where the timer and the disk interrupt are handled, *)
(* runs when interrupts are turned back on: at the end of Lock::Acquire,   *)
(* Lock::Release and of SynchDisk's P, and after every user instruction.   *)
(* These are the labels a thread reaches just after one of those.         *)
TickLabels ==
    {"call", "exit", "fork", "join", "cl_delete", "rm_fm"}
    \cup {"cl_free", "cl_test", "cr_fetch", "cr_fmfetch", "op_fetch", "op_insert",
          "rd_read", "rm_fetch", "rm_fmfetch", "rm_scan", "sk_seek", "wr_fetch", "wr_fm"}
    \cup {"cr_alloc", "cr_done", "cr_find", "op_find", "op_opened", "op_rel", "rd_done",
          "rm_clear", "rm_done", "rm_find", "rm_open", "wr_done", "wr_extend", "wr_relfm"}
TickPoint(t) == pc[t] \in TickLabels /\ io[t] = "none"

-----------------------------------------------------------------------------
(***************************************************************************)
(* FileSystem::Create(name, 0), as SC_Create calls it.                     *)
(***************************************************************************)
CrDir(t) == At(t, "cr_dir") /\ Acquire(t, DirLock, "cr_fetch") /\ UNCHANGED <<io, loc, fsVars>>

(* directory->FetchFrom *)
CrFetch(t) == At(t, "cr_fetch") /\ IOThen(t, k, "cr_find") /\ UNCHANGED <<loc, fsVars, fault>>

(* directory->Find(name) != -1: the name is taken. *)
CrFind(t) ==
    /\ At(t, "cr_find")
    /\ IF dir[Arg(t).name] # None
       THEN k' = Release(k, DirLock) /\ Return(t)
       ELSE UNCHANGED k /\ Goto(t, "cr_fm")
    /\ UNCHANGED <<io, loc, fsVars, fault>>

CrFm(t) == At(t, "cr_fm") /\ Acquire(t, FreeMapLock, "cr_fmfetch") /\ UNCHANGED <<io, loc, fsVars>>

(* freeMap->FetchFrom *)
CrFmFetch(t) == At(t, "cr_fmfetch") /\ IOThen(t, k, "cr_alloc") /\ UNCHANGED <<loc, fsVars, fault>>

(* Find, directory->Add, Allocate(0), then the three WriteBacks.  A full  *)
(* free map or directory releases both locks and returns FALSE.            *)
CrAlloc(t) ==
    /\ At(t, "cr_alloc")
    /\ IF HdrSectors \subseteq freeMap \/ Cardinality(Live) >= NumDirEntries
       THEN /\ k' = Release(Release(k, FreeMapLock), DirLock)
            /\ Return(t)
            /\ UNCHANGED <<io, fsVars>>
       ELSE /\ freeMap' = freeMap \cup {LowestFree}
            /\ dir' = [dir EXCEPT ![Arg(t).name] = LowestFree]
            /\ len' = [len EXCEPT ![LowestFree] = 0]
            /\ IOThen(t, k, "cr_done")
            /\ UNCHANGED <<omap, ofile, fdv>>
    /\ UNCHANGED <<loc, fault>>

CrDone(t) ==
    /\ At(t, "cr_done")
    /\ k' = Release(Release(k, FreeMapLock), DirLock)
    /\ Return(t)
    /\ UNCHANGED <<io, loc, fsVars, fault>>

(***************************************************************************)
(* FileSystem::Remove(name).                                               *)
(***************************************************************************)
RmDir(t) == At(t, "rm_dir") /\ Acquire(t, DirLock, "rm_fetch") /\ UNCHANGED <<io, loc, fsVars>>

RmFetch(t) == At(t, "rm_fetch") /\ IOThen(t, k, "rm_find") /\ UNCHANGED <<loc, fsVars, fault>>

(* directory->Find, then fileHdr->FetchFrom(sector). *)
RmFind(t) ==
    /\ At(t, "rm_find")
    /\ IF dir[Arg(t).name] = None
       THEN k' = Release(k, DirLock) /\ Return(t) /\ UNCHANGED <<io, loc>>
       ELSE /\ loc' = [loc EXCEPT ![t].sector = dir[Arg(t).name]]
            /\ IOThen(t, k, "rm_open")
    /\ UNCHANGED <<fsVars, fault>>

RmOpen(t) == At(t, "rm_open") /\ Acquire(t, OpenedLock, "rm_scan") /\ UNCHANGED <<io, loc, fsVars>>

(* Mutant: Remove does not look at the open-file table. *)
RmScanIgnoresOpen(t) ==
    /\ At(t, "rm_scan")
    /\ k' = Release(k, OpenedLock) /\ Goto(t, "rm_fm")
    /\ UNCHANGED <<io, loc, fsVars, fault>>

(* The scan of the open-file table: an open file is not removed. *)
RmScan(t) ==
    /\ At(t, "rm_scan")
    /\ IF OpenAt(loc[t].sector) # {}
       THEN k' = Release(Release(k, OpenedLock), DirLock) /\ Return(t)
       ELSE k' = Release(k, OpenedLock) /\ Goto(t, "rm_fm")
    /\ UNCHANGED <<io, loc, fsVars, fault>>

RmFm(t) == At(t, "rm_fm") /\ Acquire(t, FreeMapLock, "rm_fmfetch") /\ UNCHANGED <<io, loc, fsVars>>

(* freeMap->FetchFrom and the reads of Deallocate. *)
RmFmFetch(t) == At(t, "rm_fmfetch") /\ IOThen(t, k, "rm_clear") /\ UNCHANGED <<loc, fsVars, fault>>

(* Clear(sector), directory->Remove(name), then both WriteBacks. *)
RmClear(t) ==
    /\ At(t, "rm_clear")
    /\ freeMap' = freeMap \ {loc[t].sector}
    /\ dir' = [dir EXCEPT ![Arg(t).name] = None]
    /\ IOThen(t, k, "rm_done")
    /\ UNCHANGED <<loc, len, omap, ofile, fdv, fault>>

RmDone(t) ==
    /\ At(t, "rm_done")
    /\ k' = Release(Release(k, FreeMapLock), DirLock)
    /\ Return(t)
    /\ UNCHANGED <<io, loc, fsVars, fault>>

(***************************************************************************)
(* FileSystem::OpenUser(name); SC_Open stores the result in Arg(t).var.    *)
(***************************************************************************)
OpDir(t) == At(t, "op_dir") /\ Acquire(t, DirLock, "op_fetch") /\ UNCHANGED <<io, loc, fsVars>>

OpFetch(t) == At(t, "op_fetch") /\ IOThen(t, k, "op_find") /\ UNCHANGED <<loc, fsVars, fault>>

(* directory->Find, then new OpenFile(sector), which reads the header. *)
OpFind(t) ==
    /\ At(t, "op_find")
    /\ IF dir[Arg(t).name] = None
       THEN /\ k' = Release(k, DirLock) /\ Return(t)
            /\ fdv' = [fdv EXCEPT ![Arg(t).var] = -1]
            /\ UNCHANGED <<io, loc>>
       ELSE /\ loc' = [loc EXCEPT ![t].sector = dir[Arg(t).name]]
            /\ IOThen(t, k, "op_rel")
            /\ UNCHANGED fdv
    /\ UNCHANGED <<dir, freeMap, len, omap, ofile, fault>>

(* The OpenFile caches the header it read; directoryMutex is released and *)
(* the header is fetched once more for IsDataFile.                         *)
OpRel(t) ==
    /\ At(t, "op_rel")
    /\ loc' = [loc EXCEPT ![t].olen = len[loc[t].sector]]
    /\ IOThen(t, Release(k, DirLock), "op_opened")
    /\ UNCHANGED <<fsVars, fault>>

OpOpened(t) == At(t, "op_opened") /\ Acquire(t, OpenedLock, "op_insert") /\ UNCHANGED <<io, loc, fsVars>>

(* Mutant: OpenUser takes a slot without scanning for the sector. *)
OpInsertNoDup(t) ==
    LET sec == loc[t].sector
        i == CHOOSE x \in Slots \ omap : \A y \in Slots \ omap : x <= y
        g == ofile[i].gen + 1
    IN /\ At(t, "op_insert")
       /\ IF omap = Slots
          THEN /\ k' = Release(k, OpenedLock)
               /\ fdv' = [fdv EXCEPT ![Arg(t).var] = -1]
               /\ UNCHANGED <<omap, ofile>>
          ELSE /\ omap' = omap \cup {i}
               /\ ofile' = [ofile EXCEPT ![i] = [id |-> sec, seek |-> 0, len |-> loc[t].olen,
                                                 gen |-> g, name |-> Arg(t).name]]
               /\ k' = Release([k EXCEPT !.alive[<<i, g>>] = TRUE], OpenedLock)
               /\ fdv' = [fdv EXCEPT ![Arg(t).var] = i]
       /\ Return(t)
       /\ UNCHANGED <<io, loc, dir, freeMap, len, fault>>

(* Mutant: the already-open branch returns -1 holding openedFileMutex. *)
OpInsertDupKeepsLock(t) ==
    LET sec == loc[t].sector
        i == CHOOSE x \in Slots \ omap : \A y \in Slots \ omap : x <= y
        g == ofile[i].gen + 1
    IN /\ At(t, "op_insert")
       /\ CASE OpenAt(sec) # {} ->
                 fdv' = [fdv EXCEPT ![Arg(t).var] = -1] /\ UNCHANGED <<k, omap, ofile>>
            [] omap = Slots ->
                 /\ k' = Release(k, OpenedLock)
                 /\ fdv' = [fdv EXCEPT ![Arg(t).var] = -1]
                 /\ UNCHANGED <<omap, ofile>>
            [] OTHER ->
                 /\ omap' = omap \cup {i}
                 /\ ofile' = [ofile EXCEPT ![i] = [id |-> sec, seek |-> 0, len |-> loc[t].olen,
                                                   gen |-> g, name |-> Arg(t).name]]
                 /\ k' = Release([k EXCEPT !.alive[<<i, g>>] = TRUE], OpenedLock)
                 /\ fdv' = [fdv EXCEPT ![Arg(t).var] = i]
       /\ Return(t)
       /\ UNCHANGED <<io, loc, dir, freeMap, len, fault>>

(* The scan for the sector, openedFileMap->Find, and the new entry with   *)
(* its new Lock("OpenFile").                                               *)
OpInsert(t) ==
    LET sec == loc[t].sector
        i == CHOOSE x \in Slots \ omap : \A y \in Slots \ omap : x <= y
        g == ofile[i].gen + 1
    IN /\ At(t, "op_insert")
       /\ IF OpenAt(sec) # {} \/ omap = Slots
          THEN /\ k' = Release(k, OpenedLock)
               /\ fdv' = [fdv EXCEPT ![Arg(t).var] = -1]
               /\ UNCHANGED <<omap, ofile>>
          ELSE /\ omap' = omap \cup {i}
               /\ ofile' = [ofile EXCEPT ![i] = [id |-> sec, seek |-> 0, len |-> loc[t].olen,
                                                 gen |-> g, name |-> Arg(t).name]]
               /\ k' = Release([k EXCEPT !.alive[<<i, g>>] = TRUE], OpenedLock)
               /\ fdv' = [fdv EXCEPT ![Arg(t).var] = i]
       /\ Return(t)
       /\ UNCHANGED <<io, loc, dir, freeMap, len, fault>>

(***************************************************************************)
(* FileSystem::CloseUser(index).                                           *)
(***************************************************************************)
ClOpened(t) == At(t, "cl_opened") /\ Acquire(t, OpenedLock, "cl_test") /\ UNCHANGED <<io, loc, fsVars>>

(* Mutant: CloseUser frees the slot without taking its mutex. *)
ClTestNoMutex(t) ==
    LET i == fdv[Arg(t).var]
    IN /\ At(t, "cl_test")
       /\ CASE i < MaxOpenedFiles /\ IndexFault(i) ->
                 fault' = "ASSERT in BitMap::Test" /\ UNCHANGED <<k, pc, ip, loc>>
            [] i < MaxOpenedFiles /\ i \in omap ->
                 /\ loc' = [loc EXCEPT ![t].index = i, ![t].lk = <<i, ofile[i].gen>>]
                 /\ Goto(t, "cl_free") /\ UNCHANGED <<k, fault>>
            [] OTHER -> k' = Release(k, OpenedLock) /\ Return(t) /\ UNCHANGED <<loc, fault>>
       /\ UNCHANGED <<io, fsVars>>

(* index < MaxOpenedFiles && openedFileMap->Test(index) *)
ClTest(t) ==
    LET i == fdv[Arg(t).var]
    IN /\ At(t, "cl_test")
       /\ CASE i < MaxOpenedFiles /\ IndexFault(i) ->
                 fault' = "ASSERT in BitMap::Test" /\ UNCHANGED <<k, pc, ip, loc>>
            [] i < MaxOpenedFiles /\ i \in omap ->
                 /\ loc' = [loc EXCEPT ![t].index = i, ![t].lk = <<i, ofile[i].gen>>]
                 /\ Goto(t, "cl_mutex") /\ UNCHANGED <<k, fault>>
            [] OTHER -> k' = Release(k, OpenedLock) /\ Return(t) /\ UNCHANGED <<loc, fault>>
       /\ UNCHANGED <<io, fsVars>>

ClMutex(t) == At(t, "cl_mutex") /\ Acquire(t, loc[t].lk, "cl_free") /\ UNCHANGED <<io, loc, fsVars>>

(* Mutant: CloseUser does not Clear(index) in openedFileMap. *)
ClFreeKeepsSlot(t) ==
    /\ At(t, "cl_free")
    /\ k' = Release(k, loc[t].lk)
    /\ Goto(t, "cl_delete")
    /\ UNCHANGED <<io, loc, dir, freeMap, len, omap, ofile, fdv, fault>>

(* Clear(index), delete object, mutex->Release: the Lock's SetLevel ticks *)
(* here, before the Lock is deleted.                                        *)
ClFree(t) ==
    /\ At(t, "cl_free")
    /\ omap' = omap \ {loc[t].index}
    /\ k' = Release(k, loc[t].lk)
    /\ Goto(t, "cl_delete")
    /\ UNCHANGED <<io, loc, dir, freeMap, len, ofile, fdv, fault>>

(* Mutant: CloseUser returns 0 still holding openedFileMutex. *)
ClDeleteKeepsOpened(t) ==
    /\ At(t, "cl_delete")
    /\ k' = [k EXCEPT !.alive[loc[t].lk] = FALSE]
    /\ Return(t)
    /\ UNCHANGED <<io, loc, fsVars, fault>>

(* delete openedFiles[index].mutex, openedFileMutex->Release, return 0. *)
ClDelete(t) ==
    /\ At(t, "cl_delete")
    /\ k' = Release([k EXCEPT !.alive[loc[t].lk] = FALSE], OpenedLock)
    /\ Return(t)
    /\ UNCHANGED <<io, loc, fsVars, fault>>

(***************************************************************************)
(* ReadUser, WriteUser and SeekUser test the index without any lock, then *)
(* take openedFiles[index].mutex, and release it through the table again. *)
(***************************************************************************)
TestIndex(t, next) ==
    LET i == fdv[Arg(t).var]
    IN CASE i >= MaxOpenedFiles \/ (~IndexFault(i) /\ i \notin omap) ->
              Return(t) /\ UNCHANGED <<loc, fault>>
         [] IndexFault(i) -> fault' = "ASSERT in BitMap::Test" /\ UNCHANGED <<pc, ip, loc>>
         [] OTHER -> /\ loc' = [loc EXCEPT ![t].index = i, ![t].lk = <<i, ofile[i].gen>>]
                     /\ Goto(t, next) /\ UNCHANGED fault

(* openedFiles[index].mutex->Release() *)
ReleaseEntry(t) ==
    LET l == <<loc[t].index, ofile[loc[t].index].gen>>
    IN IF ~k.alive[l] THEN fault' = "use of a deleted Lock" /\ UNCHANGED <<k, pc, ip>>
       ELSE IF k.owner[l] # t THEN fault' = "ASSERT in Lock::Release" /\ UNCHANGED <<k, pc, ip>>
       ELSE k' = Release(k, l) /\ Return(t) /\ UNCHANGED fault

RdTest(t) == At(t, "rd_test") /\ TestIndex(t, "rd_mutex") /\ UNCHANGED <<k, io, fsVars>>
RdMutex(t) == At(t, "rd_mutex") /\ Acquire(t, loc[t].lk, "rd_read") /\ UNCHANGED <<io, loc, fsVars>>

(* object->Read(buffer, size): OpenFile::ReadAt reads nothing at or past  *)
(* the length it cached, and otherwise goes to the disk.                   *)
RdRead(t) ==
    LET o == ofile[loc[t].index]
        n == IF o.seek >= o.len THEN 0
             ELSE IF Arg(t).size < o.len - o.seek THEN Arg(t).size ELSE o.len - o.seek
    IN /\ At(t, "rd_read")
       /\ ofile' = [ofile EXCEPT ![loc[t].index].seek = @ + n]
       /\ IF n > 0 THEN IOThen(t, k, "rd_done") ELSE Goto(t, "rd_done") /\ UNCHANGED <<k, io>>
       /\ UNCHANGED <<loc, dir, freeMap, len, omap, fdv, fault>>
RdDone(t) == At(t, "rd_done") /\ ReleaseEntry(t) /\ UNCHANGED <<io, loc, fsVars>>

WrTest(t) == At(t, "wr_test") /\ TestIndex(t, "wr_mutex") /\ UNCHANGED <<k, io, fsVars>>
WrMutex(t) == At(t, "wr_mutex") /\ Acquire(t, loc[t].lk, "wr_fm") /\ UNCHANGED <<io, loc, fsVars>>
WrFm(t) == At(t, "wr_fm") /\ Acquire(t, FreeMapLock, "wr_fetch") /\ UNCHANGED <<io, loc, fsVars>>

(* freeMap->FetchFrom, fileHdr->FetchFrom(id) *)
WrFetch(t) == At(t, "wr_fetch") /\ IOThen(t, k, "wr_extend") /\ UNCHANGED <<loc, fsVars, fault>>

(* sizeToExtend = seek + size - numBytes; Extend when positive; both     *)
(* WriteBacks.                                                             *)
WrExtend(t) ==
    LET o == ofile[loc[t].index]
    IN /\ At(t, "wr_extend")
       /\ len' = [len EXCEPT ![o.id] = IF o.seek + Arg(t).size > @ THEN o.seek + Arg(t).size ELSE @]
       /\ IOThen(t, k, "wr_relfm")
       /\ UNCHANGED <<loc, dir, freeMap, omap, ofile, fdv, fault>>

(* freeMapMutex->Release, new OpenFile(id), FetchFrom, Seek and Write. *)
WrRelFm(t) == At(t, "wr_relfm") /\ IOThen(t, Release(k, FreeMapLock), "wr_done")
              /\ UNCHANGED <<loc, fsVars, fault>>

(* openedFiles[index].object = file: its seek is past the written bytes. *)
WrDone(t) ==
    LET i == loc[t].index
    IN /\ At(t, "wr_done")
       /\ ofile' = [ofile EXCEPT ![i].seek = @ + Arg(t).size, ![i].len = len[ofile[i].id]]
       /\ ReleaseEntry(t)
       /\ UNCHANGED <<io, loc, dir, freeMap, len, omap, fdv>>

SkTest(t) == At(t, "sk_test") /\ TestIndex(t, "sk_mutex") /\ UNCHANGED <<k, io, fsVars>>
SkMutex(t) == At(t, "sk_mutex") /\ Acquire(t, loc[t].lk, "sk_seek") /\ UNCHANGED <<io, loc, fsVars>>

(* object->Seek(nbBytes % object->Length()) *)
SkSeek(t) ==
    LET i == loc[t].index
    IN /\ At(t, "sk_seek")
       /\ IF ofile[i].len = 0
          THEN fault' = "division by zero in SeekUser" /\ UNCHANGED <<k, pc, ip, ofile>>
          ELSE /\ ofile' = [ofile EXCEPT ![i].seek = Arg(t).n % ofile[i].len]
               /\ ReleaseEntry(t)
       /\ UNCHANGED <<io, loc, dir, freeMap, len, omap, fdv>>

(***************************************************************************)
(* Threads and the disk.                                                   *)
(***************************************************************************)
(* ThreadCreate: the new thread is put on the ready list. *)
Fork(t) ==
    /\ At(t, "fork")
    /\ pc[Arg(t).thread] = "unborn"
    /\ k' = [k EXCEPT !.ready = Append(@, Arg(t).thread)]
    /\ ip' = [ip EXCEPT ![t] = @ + 1]
    /\ pc' = [pc EXCEPT ![t] = "call", ![Arg(t).thread] = "call"]
    /\ UNCHANGED <<io, loc, fsVars, fault>>

(* The user program makes its next call.  A call marked ifOpen is made   *)
(* only when that descriptor is not -1, as in `if ((fd = Open(..)) >= 0)`. *)
Call(t) ==
    /\ At(t, "call")
    /\ IF ip[t] > Len(Script[t]) THEN Goto(t, "exit")
       ELSE IF "ifOpen" \in DOMAIN Arg(t) /\ fdv[Arg(t).ifOpen] = -1
       THEN ip' = [ip EXCEPT ![t] = @ + 1] /\ UNCHANGED pc
       ELSE Goto(t, Entry[Arg(t).op])
    /\ UNCHANGED <<k, io, loc, fsVars, fault>>

(* do_UserThreadJoin: while the thread exists, threadCond->Wait. *)
Join(t) ==
    /\ At(t, "join")
    /\ IF pc[Arg(t).thread] = "done"
       THEN Return(t) /\ UNCHANGED k
       ELSE k' = Dispatch([k EXCEPT !.jq[Arg(t).thread] = Append(@, t)]) /\ UNCHANGED <<pc, ip>>
    /\ UNCHANGED <<io, loc, fsVars, fault>>

(* The thread's last call returned: do_UserThreadExit broadcasts          *)
(* threadCond to its joiners, then Thread::Finish.                        *)
Exit(t) ==
    /\ At(t, "exit")
    /\ k' = Dispatch([k EXCEPT !.ready = @ \o k.jq[t], !.jq[t] = <<>>])
    /\ pc' = [pc EXCEPT ![t] = "done"]
    /\ UNCHANGED <<io, ip, loc, fsVars, fault>>

(* Woken from the queue of SynchDisk's lock: P tests the value again. *)
IoRetry(t) ==
    /\ k.run = t /\ io[t] = "lock" /\ fault = "none"
    /\ k' = StartIO(k, t).k
    /\ io' = [io EXCEPT ![t] = StartIO(k, t).io]
    /\ UNCHANGED <<pc, ip, loc, fsVars, fault>>

(* Mutant: from Idle the woken thread is only put on the ready list. *)
DiskDoneNoDispatch ==
    /\ k.disk # None /\ fault = "none"
    /\ k.run = None \/ (k.run # None /\ TickPoint(k.run))
    /\ io' = [io EXCEPT ![k.disk] = "done"]
    /\ k' = [k EXCEPT !.disk = None, !.ready = Append(@, k.disk)]
    /\ UNCHANGED <<pc, ip, loc, fsVars, fault>>

(* The disk interrupt: V on the request's semaphore, handled in Idle or  *)
(* at a tick.  From Idle, the woken thread runs at once.                   *)
DiskDone ==
    /\ k.disk # None /\ fault = "none"
    /\ k.run = None \/ (k.run # None /\ TickPoint(k.run))
    /\ io' = [io EXCEPT ![k.disk] = "done"]
    /\ k' = IF k.run = None THEN [k EXCEPT !.disk = None, !.run = k.disk]
            ELSE [k EXCEPT !.disk = None, !.ready = Append(@, k.disk)]
    /\ UNCHANGED <<pc, ip, loc, fsVars, fault>>

(* Back from the completion semaphore: SynchDisk's lock->Release. *)
IoFinish(t) ==
    /\ k.run = t /\ io[t] = "done" /\ fault = "none"
    /\ k' = Release(k, DiskLock)
    /\ io' = [io EXCEPT ![t] = "none"]
    /\ UNCHANGED <<pc, ip, loc, fsVars, fault>>

(* -rs: the timer interrupt makes the running thread Yield, at a tick.   *)
Yield(t) ==
    /\ RandomYield
    /\ k.run = t /\ TickPoint(t) /\ fault = "none"
    /\ k' = Dispatch([k EXCEPT !.ready = Append(@, t)])
    /\ UNCHANGED <<pc, io, ip, loc, fsVars, fault>>

Step(t) ==
    \/ CrDir(t) \/ CrFetch(t) \/ CrFind(t) \/ CrFm(t) \/ CrFmFetch(t) \/ CrAlloc(t) \/ CrDone(t)
    \/ RmDir(t) \/ RmFetch(t) \/ RmFind(t) \/ RmOpen(t) \/ RmScan(t) \/ RmFm(t)
    \/ RmFmFetch(t) \/ RmClear(t) \/ RmDone(t)
    \/ OpDir(t) \/ OpFetch(t) \/ OpFind(t) \/ OpRel(t) \/ OpOpened(t) \/ OpInsert(t)
    \/ ClOpened(t) \/ ClTest(t) \/ ClMutex(t) \/ ClFree(t) \/ ClDelete(t)
    \/ RdTest(t) \/ RdMutex(t) \/ RdRead(t) \/ RdDone(t)
    \/ WrTest(t) \/ WrMutex(t) \/ WrFm(t) \/ WrFetch(t) \/ WrExtend(t) \/ WrRelFm(t) \/ WrDone(t)
    \/ SkTest(t) \/ SkMutex(t) \/ SkSeek(t)
    \/ Call(t) \/ Fork(t) \/ Join(t) \/ Exit(t) \/ IoRetry(t) \/ IoFinish(t)

Init ==
    /\ k = [val |-> [l \in Locks |-> 1], q |-> [l \in Locks |-> <<>>],
            owner |-> [l \in Locks |-> None], alive |-> [l \in Locks |-> l \in GlobalLocks],
            ready |-> <<>>, run |-> Main, disk |-> None, jq |-> [t \in Threads |-> <<>>]]
    /\ pc = [t \in Threads |-> IF t = Main THEN "call" ELSE "unborn"]
    /\ io = [t \in Threads |-> "none"]
    /\ ip = [t \in Threads |-> 1]
    /\ loc = [t \in Threads |-> [sector |-> None, index |-> -1, lk |-> None, olen |-> 0]]
    /\ dir = [n \in Names |-> None]
    /\ freeMap = {}
    /\ len = [s \in HdrSectors |-> 0]
    /\ omap = {}
    /\ ofile = [i \in Slots |-> [id |-> None, seek |-> 0, len |-> 0, gen |-> 0, name |-> None]]
    /\ fdv = [v \in FdVars |-> -1]
    /\ fault = "none"

(* Every thread has returned from its last call, or Nachos has stopped. *)
Halted == (\A t \in Threads : pc[t] \in {"done", "unborn"}) \/ fault # "none"

Next ==
    \/ \E t \in Threads : Step(t) \/ Yield(t)
    \/ DiskDone
    \/ Halted /\ UNCHANGED vars

(* The CPU runs the running thread, and the disk completes its request. *)
Spec == Init /\ [][Next]_vars /\ WF_vars(\E t \in Threads : Step(t)) /\ WF_vars(DiskDone)

-----------------------------------------------------------------------------
TypeOK ==
    /\ k.run \in Threads \cup {None} /\ k.disk \in Threads \cup {None}
    /\ \A l \in Locks : k.val[l] \in {0, 1} /\ k.owner[l] \in Threads \cup {None}
    /\ pc \in [Threads -> STRING] /\ io \in [Threads -> {"none", "lock", "busy", "done"}]
    /\ dir \in [Names -> HdrSectors \cup {None}] /\ freeMap \subseteq HdrSectors
    /\ omap \subseteq Slots /\ fdv \in [FdVars -> Slots \cup {-1}]
    /\ k.run = None => k.ready = <<>>

(* O-Unique (spec section 8): the open-file table holds each header       *)
(* sector at most once.  OpenUser scans for the sector and takes a slot   *)
(* in one hold of openedFileMutex.                                         *)
OUnique == \A i, j \in omap : i # j => ofile[i].id # ofile[j].id

(* Remove refuses an open file (spec 4.2): every open slot is still the   *)
(* file of the name it was opened under.  OpenUser releases               *)
(* directoryMutex and reads the header from disk before it takes          *)
(* openedFileMutex; Remove checks the table in between.                   *)
OpenedFilesLive == \A i \in omap : dir[ofile[i].name] = ofile[i].id

(* No call halts Nachos or touches freed memory: no ASSERT fails, no      *)
(* division by zero, and no thread sleeps in or releases a deleted Lock.  *)
NoFault == fault = "none"

(* Every forked thread returns from all its calls: no two threads wait on *)
(* each other's locks, and no thread is left in the queue of a Lock that  *)
(* CloseUser deleted.                                                      *)
CallsReturn == <>Halted

=============================================================================
