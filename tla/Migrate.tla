------------------------------- MODULE Migrate -------------------------------
(***************************************************************************)
(* Process migration of NonOS (network/migrate.cc): SendProcess on machine *)
(* Src streams the calling process (its page count, its memory byte by     *)
(* byte, the caller's registers, the semaphore table, nThreads and one     *)
(* record per thread slot) over a post-office Connection, and              *)
(* ListenProcess on machine Dst rebuilds it in a new AddrSpace(nPages) and *)
(* forks its threads.                                                      *)
(*                                                                         *)
(* A Send puts one word at the end of the peer's box and sleeps until the  *)
(* ACK, which PostalDelivery sends as soon as the word is in the box, read *)
(* or not; a Receive sleeps until its box holds a word.  Each action is    *)
(* one stretch of a thread between two such sleeps.  SendPayload gives up *)
(* after MAXREEMISSIONS lost emissions (at most MaxLoss times here), or    *)
(* when the peer machine has stopped; when it gives up after the segment   *)
(* did arrive, messageId is not advanced and the next segment of the       *)
(* connection is dropped as a duplicate and yet acknowledged (the stale    *)
(* messageId of PostOffice::ReliableSendSegment).                          *)
(***************************************************************************)
EXTENDS Integers, Sequences, FiniteSets, SequencesExt

CONSTANTS
    Src, Dst,              \* the machines of SendProcess and ListenProcess
    NumBoxes,              \* nBoxes of both post offices
    PageSize,              \* bytes per page (words of the memory stream)
    NumTotalRegs,          \* registers of a thread
    MAX_SEM,               \* slots of AddrSpace::semList
    MaxThreadsPerProcess,  \* slots of AddrSpace::localThreadsInfos
    MaxProcesses,          \* bound on AddrSpace::nUsedAddrSpace
    INT_MAX,               \* the sentinel of an empty slot on the wire
    Images,                \* the states the sending process can be in
    InitUsed,              \* nUsedAddrSpace of Dst: processes it runs
    InitFrames,            \* free frames of Dst's FrameProvider
    SrcBoxesTaken,         \* boxes of Src held by other connections
    MaxLoss,               \* SendPayloads that may give up on a live peer
    None

Machines == {Src, Dst}
Boxes == 0 .. NumBoxes - 1
LISTEN_BOX == 0
R2 == 3                     \* userRegisters[2], the result register

Msg == [type : {"CONN", "C", "DATA"}, w : Int, from : Machines, fbox : Boxes]

VARIABLES
    used,      \* used[m]: the boxes marked in usedBoxes of m
    boxes,     \* boxes[m][b]: the words waiting in box b of m
    down,      \* down[m]: "up", or the fault that stopped m
    loss,      \* SendPayloads that gave up on a live peer so far
    img,       \* the sending process: the state SendProcess reads
    stop,      \* register 5 of SC_Sendprocess: exit once sent
    spc,       \* where the SendProcess thread is
    sk,        \* index of the next word SendProcess sends
    sconn,     \* its Connection: [box, pbox, stale], or None
    sres,      \* what SendProcess returned
    sproc,     \* "running", or "exited" after a send with stop
    lpc,       \* where the ListenProcess thread is
    lconn,     \* its Connection: [box, pbox], or None
    nUsed,     \* AddrSpace::nUsedAddrSpace of Dst
    avail,     \* FrameProvider::NumAvailFrame of Dst
    nsp,       \* the AddrSpace ListenProcess builds, or None
    ph, li, lr,\* the loop of ListenProcess it is in, slot and register
    lres       \* what ListenProcess returned: "none", "fail" or "pid"

poVars == <<used, boxes, down, loss>>
sVars == <<img, stop, spc, sk, sconn, sres, sproc>>
lVars == <<lpc, lconn, nUsed, avail, nsp, ph, li, lr, lres>>
vars == <<poVars, sVars, lVars>>

(***************************************************************************)
(* The wire format: what the loops of SendProcess send, in order.          *)
(***************************************************************************)

\* One thread slot: its userthread_id and registers, or INT_MAX for NULL
SlotWords(t) == IF t = None THEN <<INT_MAX>> ELSE <<t.uid>> \o t.regs

Wire(p) ==
    << p.pages >>
    \o p.mem
    \o p.regs
    \o [i \in 1 .. MAX_SEM |-> IF p.sem[i] = None THEN INT_MAX ELSE p.sem[i]]
    \o << p.nThreads >>
    \o FlattenSeq([i \in 1 .. MaxThreadsPerProcess |-> SlotWords(p.thr[i])])

(***************************************************************************)
(* The post office.                                                        *)
(***************************************************************************)

\* Mutant: Find gives up one bit early
FindBoxShort(m) == IF Cardinality(used[m]) >= NumBoxes - 1 THEN -1
                   ELSE CHOOSE b \in Boxes \ used[m] :
                            \A c \in Boxes \ used[m] : b <= c

\* BitMap::Find: the lowest clear bit, or -1
FindBox(m) == IF used[m] = Boxes THEN -1
              ELSE CHOOSE b \in Boxes \ used[m] :
                       \A c \in Boxes \ used[m] : b <= c

Deliver(m, b, msg) ==
    IF down[m] = "up" THEN [boxes EXCEPT ![m][b] = Append(@, msg)] ELSE boxes

\* SendPayload returns true: the word is in the box, or is dropped as a
\* duplicate behind a stale messageId and acknowledged all the same
SendOk(m, b, msg, stale) ==
    /\ down[m] = "up"
    /\ boxes' = IF stale THEN boxes ELSE Deliver(m, b, msg)
    /\ UNCHANGED loss

\* SendPayload returns false: the peer has stopped, or every emission or
\* every ACK was lost; arrived says whether the word got into the box
SendGaveUp(m, b, msg, arrived) ==
    \/ /\ down[m] /= "up" /\ ~arrived
       /\ UNCHANGED <<boxes, loss>>
    \/ /\ down[m] = "up" /\ loss < MaxLoss
       /\ loss' = loss + 1
       /\ boxes' = IF arrived THEN Deliver(m, b, msg) ELSE boxes

Data(w, m, b) == [type |-> "DATA", w |-> w, from |-> m, fbox |-> b]

(***************************************************************************)
(* SendProcess(farAddr) and the rest of case SC_Sendprocess.               *)
(***************************************************************************)

\* SC_Sendprocess after SendProcess returned: with register 5 set, a true
\* result falls through to SC_Exit; otherwise the process runs on
Return(ok) ==
    /\ spc' = "done" /\ sres' = ok /\ sconn' = None
    /\ sproc' = IF ok /\ stop THEN "exited" ELSE "running"

\* Connect(farAddr): NULL without a free box, and SendProcess then reads
\* c->pIn for its DEBUG line; otherwise mark a box and send the CONN,
\* ignoring whether SendPayload gave up, then sleep waiting for "C"
SpConnect ==
    /\ spc = "connect" /\ down[Src] = "up"
    /\ LET b == FindBox(Src)
           conn == [type |-> "CONN", w |-> 0, from |-> Src, fbox |-> b]
       IN  IF b = -1
           THEN /\ down' = [down EXCEPT ![Src] = "segv"]
                /\ UNCHANGED <<used, boxes, loss, spc, sconn>>
           ELSE /\ used' = [used EXCEPT ![Src] = @ \cup {b}]
                /\ spc' = "c_wait"
                /\ \/ SendOk(Dst, LISTEN_BOX, conn, FALSE)
                      /\ sconn' = [box |-> b, pbox |-> 0, stale |-> FALSE]
                   \/ \E arrived \in BOOLEAN :
                         /\ SendGaveUp(Dst, LISTEN_BOX, conn, arrived)
                         /\ sconn' = [box |-> b, pbox |-> 0, stale |-> arrived]
                /\ UNCHANGED down
    /\ UNCHANGED <<img, stop, sk, sres, sproc, lVars>>

\* Connect takes "C" from its box and addresses the listener's box
SpConnected ==
    /\ spc = "c_wait" /\ down[Src] = "up"
    /\ boxes[Src][sconn.box] /= <<>>
    /\ boxes' = [boxes EXCEPT ![Src][sconn.box] = Tail(@)]
    /\ sconn' = [sconn EXCEPT !.pbox = Head(boxes[Src][sconn.box]).fbox]
    /\ spc' = "send" /\ sk' = 1
    /\ UNCHANGED <<used, down, loss, img, stop, sres, sproc, lVars>>

\* One Send of the loops of SendProcess.  A false result returns false,
\* leaving the Connection open, except for the page count, whose result
\* is ignored
SpSend ==
    /\ spc = "send" /\ down[Src] = "up"
    /\ sk <= Len(Wire(img))
    /\ LET msg == Data(Wire(img)[sk], Src, sconn.box) IN
       \/ /\ SendOk(Dst, sconn.pbox, msg, sconn.stale)
          /\ sk' = sk + 1 /\ sconn' = [sconn EXCEPT !.stale = FALSE]
          /\ UNCHANGED <<spc, sres, sproc>>
       \/ \E arrived \in BOOLEAN :
            /\ SendGaveUp(Dst, sconn.pbox, msg, arrived)
            /\ IF sk = 1
               THEN /\ sk' = sk + 1
                    /\ sconn' = [sconn EXCEPT !.stale = arrived]
                    /\ UNCHANGED <<spc, sres, sproc>>
               ELSE /\ Return(FALSE) /\ UNCHANGED sk
    /\ UNCHANGED <<used, down, img, stop, lVars>>

\* Mutant: the loop bound of the last slot is one short
SpDisconnectEarly ==
    /\ spc = "send" /\ down[Src] = "up"
    /\ sk >= Len(Wire(img))
    /\ boxes' = [boxes EXCEPT ![Src][sconn.box] = <<>>]
    /\ used' = [used EXCEPT ![Src] = @ \ {sconn.box}]
    /\ Return(TRUE)
    /\ UNCHANGED <<down, loss, img, stop, sk, lVars>>

\* Everything sent: Disconnect (empty and free the box pIn came to), then
\* return true
SpDisconnect ==
    /\ spc = "send" /\ down[Src] = "up"
    /\ sk > Len(Wire(img))
    /\ boxes' = [boxes EXCEPT ![Src][sconn.box] = <<>>]
    /\ used' = [used EXCEPT ![Src] = @ \ {sconn.box}]
    /\ Return(TRUE)
    /\ UNCHANGED <<down, loss, img, stop, sk, lVars>>

(***************************************************************************)
(* ListenProcess().                                                        *)
(***************************************************************************)

LHas == boxes[Dst][lconn.box] /= <<>>
LWord == Head(boxes[Dst][lconn.box]).w
LTake == boxes' = [boxes EXCEPT ![Dst][lconn.box] = Tail(@)]

\* Receive of the next word into the slot the loop is at
LRun(phase) == /\ lpc = "recv" /\ ph = phase /\ down[Dst] = "up" /\ LHas /\ LTake

\* Listen: Find a box (NULL without one, and ListenProcess returns -1),
\* then sleep on LISTEN_BOX
LpListen ==
    /\ lpc = "listen" /\ down[Dst] = "up"
    /\ LET b == FindBox(Dst) IN
       IF b = -1
       THEN /\ lpc' = "done" /\ lres' = "fail"
            /\ UNCHANGED <<used, lconn>>
       ELSE /\ used' = [used EXCEPT ![Dst] = @ \cup {b}]
            /\ lconn' = [box |-> b, pbox |-> 0]
            /\ lpc' = "l_wait"
            /\ UNCHANGED lres
    /\ UNCHANGED <<boxes, down, loss, sVars, nUsed, avail, nsp, ph, li, lr>>

\* Listen takes the CONN and answers "C" from its box, whether or not
\* that SendPayload gives up
LpAccept ==
    /\ lpc = "l_wait" /\ down[Dst] = "up"
    /\ boxes[Dst][LISTEN_BOX] /= <<>>
    /\ LET msg == Head(boxes[Dst][LISTEN_BOX])
           c == [type |-> "C", w |-> 0, from |-> Dst, fbox |-> lconn.box]
       IN  /\ boxes' = [boxes EXCEPT ![Dst][LISTEN_BOX] = Tail(@),
                                     ![msg.from][msg.fbox] =
                                        IF down[msg.from] = "up" THEN Append(@, c) ELSE @]
           /\ lconn' = [lconn EXCEPT !.pbox = msg.fbox]
           /\ UNCHANGED loss
        \/ /\ loss < MaxLoss /\ loss' = loss + 1
           /\ boxes' = [boxes EXCEPT ![Dst][LISTEN_BOX] = Tail(@)]
           /\ lconn' = [lconn EXCEPT !.pbox = msg.fbox]
    /\ lpc' = "check"
    /\ UNCHANGED <<used, down, sVars, nUsed, avail, nsp, ph, li, lr, lres>>

\* Mutant: the count is compared with one process too many
LpCheckOffByOne ==
    /\ lpc = "check" /\ down[Dst] = "up"
    /\ IF nUsed + 1 >= MaxProcesses
       THEN /\ lpc' = "done" /\ lres' = "fail" /\ UNCHANGED nUsed
       ELSE /\ nUsed' = nUsed + 1 /\ lpc' = "pages" /\ UNCHANGED lres
    /\ UNCHANGED <<poVars, sVars, lconn, avail, nsp, ph, li, lr>>

\* Count the process under nUsedAddrSpaceLock, or return -1 when
\* MaxProcesses run already, leaving the Connection open
LpCheck ==
    /\ lpc = "check" /\ down[Dst] = "up"
    /\ IF nUsed >= MaxProcesses
       THEN /\ lpc' = "done" /\ lres' = "fail" /\ UNCHANGED nUsed
       ELSE /\ nUsed' = nUsed + 1 /\ lpc' = "pages" /\ UNCHANGED lres
    /\ UNCHANGED <<poVars, sVars, lconn, avail, nsp, ph, li, lr>>

\* AddrSpace(nPages): nothing received yet, no semaphore or thread slot
\* marked, nextUserThreadid 1; nThreads is left unset
NewSpace(n) ==
    [pages |-> n, mem |-> <<>>, regs |-> <<>>,
     sem |-> [i \in 1 .. MAX_SEM |-> None], nThreads |-> None,
     thr |-> [i \in 1 .. MaxThreadsPerProcess |-> None],
     next |-> 1, forked |-> {}]

\* Mutant: the frames are given back instead of taken
LpPagesGives ==
    /\ lpc = "pages" /\ down[Dst] = "up" /\ LHas /\ LTake
    /\ LET n == LWord IN
       IF n > avail
       THEN /\ down' = [down EXCEPT ![Dst] = "assert"]
            /\ UNCHANGED <<lpc, avail, nsp, ph, li>>
       ELSE /\ avail' = avail + n
            /\ nsp' = NewSpace(n)
            /\ lpc' = "recv" /\ li' = 1
            /\ ph' = IF n * PageSize = 0 THEN "regs" ELSE "mem"
            /\ UNCHANGED down
    /\ UNCHANGED <<used, loss, sVars, lconn, nUsed, lr, lres>>

\* Receive nPages and build AddrSpace(nPages): it ASSERTs that the
\* FrameProvider has nPages free frames, takes them, and leaves memory,
\* registers, nThreads and the tables to be received
LpPages ==
    /\ lpc = "pages" /\ down[Dst] = "up" /\ LHas /\ LTake
    /\ LET n == LWord IN
       IF n > avail
       THEN /\ down' = [down EXCEPT ![Dst] = "assert"]
            /\ UNCHANGED <<lpc, avail, nsp, ph, li>>
       ELSE /\ avail' = avail - n
            /\ nsp' = NewSpace(n)
            /\ lpc' = "recv" /\ li' = 1
            /\ ph' = IF n * PageSize = 0 THEN "regs" ELSE "mem"
            /\ UNCHANGED down
    /\ UNCHANGED <<used, loss, sVars, lconn, nUsed, lr, lres>>

\* WriteMem of one received byte
LpMem ==
    /\ LRun("mem")
    /\ nsp' = [nsp EXCEPT !.mem = Append(@, LWord)]
    /\ ph' = IF li = nsp.pages * PageSize THEN "regs" ELSE "mem"
    /\ li' = IF li = nsp.pages * PageSize THEN 1 ELSE li + 1
    /\ UNCHANGED <<used, down, loss, sVars, lpc, lconn, nUsed, avail, lr, lres>>

\* One register of the new main thread; after the last, r2 becomes 1
LpRegs ==
    /\ LRun("regs")
    /\ LET regs == Append(nsp.regs, LWord) IN
       IF li = NumTotalRegs
       THEN nsp' = [nsp EXCEPT !.regs = [regs EXCEPT ![R2] = 1]]
            /\ ph' = "sems" /\ li' = 1
       ELSE nsp' = [nsp EXCEPT !.regs = regs] /\ li' = li + 1 /\ UNCHANGED ph
    /\ UNCHANGED <<used, down, loss, sVars, lpc, lconn, nUsed, avail, lr, lres>>

\* A semaphore value: anything but INT_MAX creates semList[i] and marks it
LpSems ==
    /\ LRun("sems")
    /\ nsp' = IF LWord /= INT_MAX THEN [nsp EXCEPT !.sem[li] = LWord] ELSE nsp
    /\ ph' = IF li = MAX_SEM THEN "nthreads" ELSE "sems"
    /\ li' = IF li = MAX_SEM THEN 1 ELSE li + 1
    /\ UNCHANGED <<used, down, loss, sVars, lpc, lconn, nUsed, avail, lr, lres>>

LpNThreads ==
    /\ LRun("nthreads")
    /\ nsp' = [nsp EXCEPT !.nThreads = LWord]
    /\ ph' = "slot" /\ li' = 1
    /\ UNCHANGED <<used, down, loss, sVars, lpc, lconn, nUsed, avail, lr, lres>>

\* After slot li: the next slot, or the end of the loop
NextSlot == /\ ph' = IF li = MaxThreadsPerProcess THEN "end" ELSE "slot"
            /\ li' = IF li = MaxThreadsPerProcess THEN li ELSE li + 1

\* Mutant: nextUserThreadid is raised to the received id, not past it
LpSlotNoPast ==
    /\ LRun("slot")
    /\ LET u == LWord IN
       IF u /= INT_MAX
       THEN /\ nsp' = [nsp EXCEPT !.thr[li] = [uid |-> u, regs |-> <<>>],
                                  !.next = IF @ > u THEN @ ELSE u]
            /\ ph' = "tregs" /\ lr' = 1 /\ UNCHANGED li
       ELSE /\ NextSlot /\ UNCHANGED <<nsp, lr>>
    /\ UNCHANGED <<used, down, loss, sVars, lpc, lconn, nUsed, avail, lres>>

\* A userthread id: a Thread, its thread_info in slot li, nextUserThreadid
\* raised past it; INT_MAX: an empty slot
LpSlot ==
    /\ LRun("slot")
    /\ LET u == LWord IN
       IF u /= INT_MAX
       THEN /\ nsp' = [nsp EXCEPT !.thr[li] = [uid |-> u, regs |-> <<>>],
                                  !.next = IF @ > u + 1 THEN @ ELSE u + 1]
            /\ ph' = "tregs" /\ lr' = 1 /\ UNCHANGED li
       ELSE /\ NextSlot /\ UNCHANGED <<nsp, lr>>
    /\ UNCHANGED <<used, down, loss, sVars, lpc, lconn, nUsed, avail, lres>>

\* One register of the thread of slot li; after the last, it is forked
LpThreadRegs ==
    /\ LRun("tregs")
    /\ LET regs == Append(nsp.thr[li].regs, LWord) IN
       IF lr = NumTotalRegs
       THEN /\ nsp' = [nsp EXCEPT !.thr[li].regs = regs, !.forked = @ \cup {li}]
            /\ NextSlot /\ UNCHANGED lr
       ELSE /\ nsp' = [nsp EXCEPT !.thr[li].regs = regs]
            /\ lr' = lr + 1 /\ UNCHANGED <<ph, li>>
    /\ UNCHANGED <<used, down, loss, sVars, lpc, lconn, nUsed, avail, lres>>

\* Fork the main thread, restore the caller's space, Disconnect (empty and
\* free the box pIn came to) and return the new pid
LpEnd ==
    /\ lpc = "recv" /\ ph = "end" /\ down[Dst] = "up"
    /\ boxes' = [boxes EXCEPT ![Dst][lconn.box] = <<>>]
    /\ used' = [used EXCEPT ![Dst] = @ \ {lconn.box}]
    /\ lconn' = None /\ lpc' = "done" /\ lres' = "pid"
    /\ UNCHANGED <<down, loss, sVars, nUsed, avail, nsp, ph, li, lr>>

(***************************************************************************)
(* The specification.                                                      *)
(***************************************************************************)

Init ==
    /\ used = [m \in Machines |-> {LISTEN_BOX} \cup
                                  (IF m = Src THEN SrcBoxesTaken ELSE {})]
    /\ boxes = [m \in Machines |-> [b \in Boxes |-> <<>>]]
    /\ down = [m \in Machines |-> "up"]
    /\ loss = 0
    /\ img \in Images
    /\ stop \in BOOLEAN
    /\ spc = "connect" /\ sk = 0 /\ sconn = None /\ sres = FALSE
    /\ sproc = "running"
    /\ lpc = "listen" /\ lconn = None
    /\ nUsed = InitUsed /\ avail = InitFrames
    /\ nsp = None /\ ph = "none" /\ li = 0 /\ lr = 0 /\ lres = "none"

Sender == SpConnect \/ SpConnected \/ SpSend \/ SpDisconnect

Listener ==
    \/ LpListen \/ LpAccept \/ LpCheck \/ LpPages
    \/ LpMem \/ LpRegs \/ LpSems \/ LpNThreads \/ LpSlot \/ LpThreadRegs
    \/ LpEnd

\* Both calls have returned: the machines go on with other work
Finished == spc = "done" /\ lpc = "done" /\ UNCHANGED vars

Next == Sender \/ Listener \/ Finished

\* Each thread runs whenever it is ready: the scheduler of each machine
\* is FIFO and PostalDelivery puts every arriving word in its box
Spec == Init /\ [][Next]_vars /\ WF_vars(Sender) /\ WF_vars(Listener)

(***************************************************************************)
(* Properties.                                                             *)
(***************************************************************************)

Conn == [box : Boxes, pbox : Boxes, stale : BOOLEAN]

TypeOK ==
    /\ used \in [Machines -> SUBSET Boxes]
    /\ boxes \in [Machines -> [Boxes -> Seq(Msg)]]
    /\ down \in [Machines -> {"up", "segv", "assert"}]
    /\ loss \in 0 .. MaxLoss
    /\ img \in Images /\ stop \in BOOLEAN
    /\ spc \in {"connect", "c_wait", "send", "done"}
    /\ sk \in 0 .. Len(Wire(img)) + 1
    /\ sconn \in Conn \cup {None} /\ sres \in BOOLEAN
    /\ sproc \in {"running", "exited"}
    /\ lpc \in {"listen", "l_wait", "check", "pages", "recv", "done"}
    /\ lconn \in [box : Boxes, pbox : Boxes] \cup {None}
    /\ nUsed \in InitUsed .. MaxProcesses /\ avail \in 0 .. InitFrames
    /\ ph \in {"none", "mem", "regs", "sems", "nthreads", "slot", "tregs", "end"}
    /\ lres \in {"none", "fail", "pid"}

\* What ListenProcess should have rebuilt from p: the same memory,
\* registers with r2 = 1, semaphores, nThreads and thread slots, every
\* sent thread forked and nextUserThreadid past every received user id
Expected(p) ==
    LET slots == {i \in 1 .. MaxThreadsPerProcess : p.thr[i] /= None} IN
    [pages |-> p.pages, mem |-> p.mem, regs |-> [p.regs EXCEPT ![R2] = 1],
     sem |-> p.sem, nThreads |-> p.nThreads, thr |-> p.thr,
     next |-> Max({1} \cup {p.thr[i].uid + 1 : i \in slots}), forked |-> slots]

(* No machine stops: Connect finds a box before SendProcess reads          *)
(* c->pIn, and AddrSpace(nPages) finds its frames on Dst.                  *)
NoFault == \A m \in Machines : down[m] = "up"

(* Once ListenProcess returns a pid, the process it rebuilt is the one     *)
(* SendProcess read, word for word: memory, registers (r2 aside),          *)
(* semaphores, nThreads, thread slots and nextUserThreadid.                *)
MigratedExact == lres = "pid" => nsp = Expected(img)

(* A process that SendProcess reported sent, and that therefore exited on  *)
(* Src, is not lost: ListenProcess has not refused it and Dst still runs.  *)
ProcessKept == sproc = "exited" => lres /= "fail" /\ down[Dst] = "up"

(* Both calls return, and when they have, every box they marked is free    *)
(* again in both post offices.                                             *)
MigrationEnds ==
    <>[](/\ spc = "done" /\ lpc = "done"
         /\ used = [m \in Machines |-> {LISTEN_BOX} \cup
                                       (IF m = Src THEN SrcBoxesTaken ELSE {})])

====
