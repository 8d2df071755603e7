----------------------------- MODULE MCMigrate -----------------------------
(***************************************************************************)
(* Processes for Migrate, after test/Migrate: simplemigrate.c, a single    *)
(* thread, and threadsmigrate.c, a main thread with one more thread and    *)
(* its semaphores.  Pages hold one byte; registers 0..2, r2 the result.    *)
(***************************************************************************)
EXTENDS Migrate

CONSTANTS M0, M1

\* A process of one page and no other thread, one semaphore slot in use
Single == [pages |-> 1, mem |-> <<7>>, regs |-> <<1, 2, 32>>,
           sem |-> <<None, 1>>, nThreads |-> 0, thr |-> <<None, None>>]

\* Two pages, a thread of user id 4 in the second slot, one semaphore
Threaded == [pages |-> 2, mem |-> <<5, 6>>, regs |-> <<1, 2, 32>>,
             sem |-> <<0, None>>, nThreads |-> 1,
             thr |-> <<None, [uid |-> 4, regs |-> <<3, 4, 19>>]>>]

MCImages == {Single, Threaded}
====
