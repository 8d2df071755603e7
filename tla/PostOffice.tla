------------------------------ MODULE PostOffice ------------------------------
(***************************************************************************)
(* The reliable post office of src/code/network/post.cc.                    *)
(*                                                                         *)
(* Each machine runs a PostOffice: mail boxes (SynchList queues with       *)
(* waitedId/ackId), a postal worker thread (PostalDelivery), and a timer   *)
(* (NetworkSendWaitHandler) that periodically broadcasts every box's       *)
(* ackCond and signals disconnectCond.  Application threads call the      *)
(* connection layer (Connect, Listen, Send, Receive, Disconnect), which    *)
(* segments payloads (SendPayload) and sends every segment stop-and-wait   *)
(* (ReliableSendSegment) over a network that loses packets.               *)
(*                                                                         *)
(* Nachos threads are not preempted (no -rs): kernel code runs atomically *)
(* between two blocking points.  An action is therefore a stretch of code *)
(* from one blocking point (Condition::Wait, an empty SynchList::Remove)  *)
(* to the next.  The channel between two machines is FIFO (post.h: the    *)
(* network provides "unreliable, ordered" delivery) and may lose packets. *)
(***************************************************************************)
EXTENDS Integers, Sequences, SequencesExt

CONSTANTS
    Machines,        \* network addresses of the post offices
    NumBoxes,        \* numBoxes: boxes 0 .. NumBoxes-1, LISTEN_BOX is 0
    MSS,             \* MaxSegmentSize
    MaxReemissions,  \* MAXREEMISSIONS
    TimeSize,        \* sizeof(time_t): the length of a CONN payload
    Threads,         \* application threads
    Home,            \* Home[t]: the machine thread t runs on
    Script,          \* Script[t]: the connection-layer calls thread t makes
    ConnGap,         \* least seconds between two Connect calls of one machine
    MaxLoss,         \* number of packets the network may lose in a run
    Ordered,         \* TRUE: FIFO channels (post.h); FALSE: unordered (spec 4.4)
    TimerInSend      \* TRUE: a TEMPO expiry may fall in the window where a
                     \* sender holds ackLock asleep in messageSent->P()

LISTEN_BOX == 0
Boxes == 0 .. NumBoxes - 1
NoBox == -1

VARIABLES
    usedBoxes,    \* usedBoxes[m]: boxes marked in the BitMap of m
    mbox,         \* mbox[m][b]: the SynchList of mails of box b
    waitedId,     \* waitedId[m][b]: next DATA id box b accepts
    ackId,        \* ackId[m][b]: id of the last ACK received by box b
    connections,  \* connections[m]: the ConnReminder list of ValidConn
    discWait,     \* discWait[m]: waiting queue of disconnectCond
    halted,       \* halted[m]: interrupt->Halt() was called on m
    clock,        \* clock[m]: time(0) of the last Connect on m
    chan,         \* chan[a][b]: packets in flight from a to b, in order
    lost,         \* number of packets lost so far
    pc,           \* pc[t]: where thread t is in the connection layer
    ip,           \* ip[t]: index in Script[t] of the call being made
    caller,       \* caller[t]: the call that is sending or receiving
    conn,         \* conn[t]: the Connection of t is not NULL
    pOut,         \* pOut[t]: the outgoing Payload of the connection
    pIn,          \* pIn[t]: header of the last mail received
    seg,          \* seg[t]: segIndex of SendPayload or ReceivePayload
    nre,          \* nre[t]: nReemissions of ReliableSendSegment
    rbox,         \* rbox[t]: box read by ReceivePayload / DisconnectPayload
    rbuf,         \* rbuf[t]: segments received by the current ReceivePayload
    sendLog,      \* history: payloads each thread started sending
    recvLog,      \* history: payloads each thread received
    putLog,       \* history: segments the postal workers put in a box
    ackLog,       \* history: segments a sender saw acknowledged
    failed,       \* history: some ReliableSendSegment returned false
    cur           \* cur[m]: currentThread of m, a thread or "worker"; it
                  \* stays the last thread to sleep while m idles

poVars   == <<usedBoxes, mbox, waitedId, ackId, connections, discWait, halted, clock>>
netVars  == <<chan, lost>>
thrVars  == <<pc, ip, caller, conn, pOut, pIn, seg, nre, rbox, rbuf>>
histVars == <<sendLog, recvLog, putLog, ackLog, failed>>
vars     == <<poVars, netVars, thrVars, histVars, cur>>

MessageTypes == {"ACK", "DATA", "CONN", "FIN"}

(* Payload::UpdatePayload: the number of segments of a message of a size. *)
NbSegments(size) ==
    IF size % MSS = 0 THEN size \div MSS ELSE size \div MSS + 1

(* A payload is named by the thread that sent it and its rank among the   *)
(* payloads of that thread; a segment carries <<payload, segIndex>>.      *)
NoPid == <<>>

(* A packet: PacketHeader (src, dst), MailHeader (from, to, len, type,    *)
(* id) and the segment data (pid, seg, and the timestamp of a CONN).      *)
Pkt(src, dst, from, to, len, type, id, pid, sg, ts) ==
    [src |-> src, dst |-> dst, from |-> from, to |-> to, len |-> len,
     type |-> type, id |-> id, pid |-> pid, seg |-> sg, ts |-> ts]

Self(t) == Home[t]
Op(t)   == Script[t][ip[t]]

(* BitMap::Find: the lowest clear bit, which it marks. *)
FreeBoxes(m) == Boxes \ usedBoxes[m]
FindBox(m)   == Min(FreeBoxes(m))

Init ==
    /\ usedBoxes   = [m \in Machines |-> {LISTEN_BOX}]
    /\ mbox        = [m \in Machines |-> [b \in Boxes |-> <<>>]]
    /\ waitedId    = [m \in Machines |-> [b \in Boxes |-> 0]]
    /\ ackId       = [m \in Machines |-> [b \in Boxes |-> -1]]
    /\ connections = [m \in Machines |-> {}]
    /\ discWait    = [m \in Machines |-> <<>>]
    /\ halted      = [m \in Machines |-> FALSE]
    /\ clock       = [m \in Machines |-> 0]
    /\ chan        = [a \in Machines |-> [b \in Machines |-> <<>>]]
    /\ lost        = 0
    /\ pc          = [t \in Threads |-> "next"]
    /\ ip          = [t \in Threads |-> 1]
    /\ caller      = [t \in Threads |-> "none"]
    /\ conn        = [t \in Threads |-> FALSE]
    /\ pOut        = [t \in Threads |-> [to |-> Self(t), toBox |-> 0, fromBox |-> 0,
                                         id |-> 0, type |-> "DATA", size |-> 0, ts |-> 0]]
    /\ pIn         = [t \in Threads |-> [src |-> Self(t), from |-> 0, to |-> 0,
                                         len |-> 0, type |-> "DATA"]]
    /\ seg         = [t \in Threads |-> 0]
    /\ nre         = [t \in Threads |-> 0]
    /\ rbox        = [t \in Threads |-> NoBox]
    /\ rbuf        = [t \in Threads |-> <<>>]
    /\ sendLog     = [t \in Threads |-> <<>>]
    /\ recvLog     = [t \in Threads |-> <<>>]
    /\ putLog      = {}
    /\ ackLog      = {}
    /\ failed      = FALSE
    /\ cur         = [m \in Machines |-> "none"]

-----------------------------------------------------------------------------
(* Helpers shared by the connection-layer calls.                           *)

(* Id of the payload thread t is sending: its rank in sendLog[t]. *)
CurPid(t) == <<t, Len(sendLog[t])>>

(* Return from a connection-layer call: go on with the next call. *)
NextCall(t) == /\ ip' = [ip EXCEPT ![t] = @ + 1]
               /\ pc' = [pc EXCEPT ![t] = "next"]

(* PostOffice::SendPayload entry: the loop over nbSegments segments. *)
BeginSend(t, p, who) ==
    /\ pOut' = [pOut EXCEPT ![t] = p]
    /\ sendLog' = [sendLog EXCEPT ![t] = Append(@, [to |-> p.to, type |-> p.type,
                                                    nseg |-> NbSegments(p.size)])]
    /\ caller' = [caller EXCEPT ![t] = who]
    /\ seg' = [seg EXCEPT ![t] = 0]
    /\ nre' = [nre EXCEPT ![t] = 0]
    /\ pc' = [pc EXCEPT ![t] = IF NbSegments(p.size) = 0 THEN "sendret" ELSE "emit"]

(* PostOffice::ReceivePayload entry on box b. *)
BeginRecv(t, b, who) ==
    /\ rbox' = [rbox EXCEPT ![t] = b]
    /\ rbuf' = [rbuf EXCEPT ![t] = <<>>]
    /\ seg' = [seg EXCEPT ![t] = 0]
    /\ caller' = [caller EXCEPT ![t] = who]
    /\ pc' = [pc EXCEPT ![t] = "get"]

(* Condition::Broadcast on ackCond of the boxes B of machine m. *)
WakeAck(m, B) ==
    [t \in Threads |-> IF pc[t] = "wait" /\ Self(t) = m /\ pOut[t].fromBox \in B
                       THEN "check" ELSE pc[t]]

Running(t, call) == /\ pc[t] = "next" /\ ~halted[Self(t)]
                    /\ ip[t] <= Len(Script[t]) /\ Op(t).op = call

-----------------------------------------------------------------------------
(* The connection layer: PostOffice::Connect, Listen, Send, Receive,       *)
(* Disconnect, as called by the script of each thread.                     *)

(* Connect to oneself, or with no free box: returns NULL. *)
ConnectRefused(t) ==
    /\ Running(t, "connect")
    /\ Op(t).to = Self(t) \/ FreeBoxes(Self(t)) = {}
    /\ conn' = [conn EXCEPT ![t] = FALSE]
    /\ NextCall(t)
    /\ UNCHANGED <<poVars, netVars, caller, pOut, pIn, seg, nre, rbox, rbuf, histVars>>

(* Connect: take a box, reset its waitedId, send the CONN with time(0).   *)
(* Only the order of timestamps matters to ValidConn: time(0) is the same *)
(* second as the last Connect (when ConnGap = 0) or the next one.        *)
Connect(t) ==
    LET m == Self(t) IN
    /\ Running(t, "connect")
    /\ Op(t).to # m /\ FreeBoxes(m) # {}
    /\ \E s \in {clock[m] + ConnGap, clock[m] + 1} :
          LET b == FindBox(m) IN
          /\ usedBoxes' = [usedBoxes EXCEPT ![m] = @ \cup {b}]
          /\ waitedId' = [waitedId EXCEPT ![m][b] = 0]
          /\ clock' = [clock EXCEPT ![m] = s]
          /\ conn' = [conn EXCEPT ![t] = TRUE]
          /\ BeginSend(t, [to |-> Op(t).to, toBox |-> LISTEN_BOX, fromBox |-> b, id |-> 0,
                           type |-> "CONN", size |-> TimeSize, ts |-> s], "connect")
    /\ UNCHANGED <<mbox, ackId, connections, discWait, halted, netVars, ip, pIn,
                   rbox, rbuf, recvLog, putLog, ackLog, failed>>

(* Mutant: the connection is returned although no box was found. *)
ListenRefusedKeepsConn(t) ==
    /\ Running(t, "listen")
    /\ FreeBoxes(Self(t)) = {}
    /\ conn' = [conn EXCEPT ![t] = TRUE]
    /\ NextCall(t)
    /\ UNCHANGED <<poVars, netVars, caller, pOut, pIn, seg, nre, rbox, rbuf, histVars>>

(* Listen with no free box: returns NULL. *)
ListenRefused(t) ==
    /\ Running(t, "listen")
    /\ FreeBoxes(Self(t)) = {}
    /\ conn' = [conn EXCEPT ![t] = FALSE]
    /\ NextCall(t)
    /\ UNCHANGED <<poVars, netVars, caller, pOut, pIn, seg, nre, rbox, rbuf, histVars>>

(* Listen: take a box expecting DATA id 1, then receive from LISTEN_BOX. *)
Listen(t) ==
    LET m == Self(t)
        b == FindBox(m)
    IN
    /\ Running(t, "listen")
    /\ FreeBoxes(m) # {}
    /\ usedBoxes' = [usedBoxes EXCEPT ![m] = @ \cup {b}]
    /\ waitedId' = [waitedId EXCEPT ![m][b] = 1]
    /\ conn' = [conn EXCEPT ![t] = TRUE]
    /\ pOut' = [pOut EXCEPT ![t].fromBox = b, ![t].id = 0]
    /\ BeginRecv(t, LISTEN_BOX, "listen")
    /\ UNCHANGED <<mbox, ackId, connections, discWait, halted, clock, netVars, ip, pIn,
                   nre, histVars>>

(* Send or Receive on a NULL connection: returns false. *)
NullCall(t) ==
    /\ \/ Running(t, "send") \/ Running(t, "receive") \/ Running(t, "disconnect")
    /\ ~conn[t]
    /\ NextCall(t)
    /\ UNCHANGED <<poVars, netVars, caller, conn, pOut, pIn, seg, nre, rbox, rbuf, histVars>>

(* Send: UpdatePayloadSize (a DATA message) then SendPayload. *)
Send(t) ==
    /\ Running(t, "send")
    /\ conn[t]
    /\ BeginSend(t, [pOut[t] EXCEPT !.size = Op(t).size, !.type = "DATA"], "send")
    /\ UNCHANGED <<poVars, netVars, ip, conn, pIn, rbox, rbuf, recvLog, putLog, ackLog, failed>>

(* Receive: ReceivePayload on the local box of the connection. *)
Receive(t) ==
    /\ Running(t, "receive")
    /\ conn[t]
    /\ BeginRecv(t, pOut[t].fromBox, "receive")
    /\ UNCHANGED <<poVars, netVars, ip, conn, pOut, pIn, nre, histVars>>

(* Disconnect / DisconnectPayload up to the first wait: empty the box the  *)
(* last mail was addressed to, then wait on disconnectCond.               *)
Disconnect(t) ==
    LET m == Self(t)
        b == pIn[t].to
    IN
    /\ Running(t, "disconnect")
    /\ conn[t]
    /\ mbox' = [mbox EXCEPT ![m][b] = <<>>]
    /\ discWait' = [discWait EXCEPT ![m] = Append(@, t)]
    /\ rbox' = [rbox EXCEPT ![t] = b]
    /\ pc' = [pc EXCEPT ![t] = "dwait1"]
    /\ UNCHANGED <<usedBoxes, waitedId, ackId, connections, halted, clock, netVars,
                   ip, caller, conn, pOut, pIn, seg, nre, rbuf, histVars>>

(* The thread returns from its function: Thread::Finish. *)
Exit(t) ==
    /\ Running(t, "exit")
    /\ pc' = [pc EXCEPT ![t] = "done"]
    /\ UNCHANGED <<poVars, netVars, ip, caller, conn, pOut, pIn, seg, nre, rbox, rbuf, histVars>>

(* interrupt->Halt(): the machine stops, its threads and timer with it. *)
Halt(t) ==
    /\ Running(t, "halt")
    /\ halted' = [halted EXCEPT ![Self(t)] = TRUE]
    /\ pc' = [pc EXCEPT ![t] = "done"]
    /\ UNCHANGED <<usedBoxes, mbox, waitedId, ackId, connections, discWait, clock, netVars,
                   ip, caller, conn, pOut, pIn, seg, nre, rbox, rbuf, histVars>>

-----------------------------------------------------------------------------
(* SendPayload / ReliableSendSegment: one segment at a time, stop and wait.*)

(* Acquire ackLock and sendLock, send the segment and sleep in           *)
(* messageSent->P() until the network's WriteDone, ackLock still held.    *)
Emit(t) ==
    LET m == Self(t)
        p == pOut[t]
    IN
    /\ pc[t] = "emit" /\ ~halted[m]
    /\ chan' = [chan EXCEPT ![m][p.to] = Append(@, Pkt(m, p.to, p.fromBox, p.toBox, p.size,
                                                     p.type, p.id, CurPid(t), seg[t], p.ts))]
    /\ pc' = [pc EXCEPT ![t] = "sent"]
    /\ UNCHANGED <<poVars, lost, ip, caller, conn, pOut, pIn, seg, nre, rbox, rbuf, histVars>>

(* WriteDone has V'ed messageSent: release sendLock, then ackCond->Wait,  *)
(* which releases ackLock.                                                *)
SendDone(t) ==
    /\ pc[t] = "sent" /\ ~halted[Self(t)]
    /\ pc' = [pc EXCEPT ![t] = "wait"]
    /\ UNCHANGED <<poVars, netVars, ip, caller, conn, pOut, pIn, seg, nre, rbox, rbuf, histVars>>

(* Mutant: any ACK at least as recent as sentId counts. *)
CheckAckedAtLeast(t) ==
    LET p == pOut[t] IN
    /\ pc[t] = "check" /\ ~halted[Self(t)]
    /\ ackId[Self(t)][p.fromBox] >= p.id
    /\ ackLog' = ackLog \cup {<<CurPid(t), seg[t]>>}
    /\ pOut' = [pOut EXCEPT ![t].id = @ + 1]
    /\ seg' = [seg EXCEPT ![t] = @ + 1]
    /\ nre' = [nre EXCEPT ![t] = 0]
    /\ pc' = [pc EXCEPT ![t] = IF seg[t] + 1 = NbSegments(p.size) THEN "sendret" ELSE "emit"]
    /\ UNCHANGED <<poVars, netVars, ip, caller, conn, pIn, rbox, rbuf,
                   sendLog, recvLog, putLog, failed>>

(* Woken up: ackId of the box equals sentId.  The segment is sent:        *)
(* messageId++ and SendPayload goes on with the next segment, if any.     *)
CheckAcked(t) ==
    LET p == pOut[t] IN
    /\ pc[t] = "check" /\ ~halted[Self(t)]
    /\ ackId[Self(t)][p.fromBox] = p.id
    /\ ackLog' = ackLog \cup {<<CurPid(t), seg[t]>>}
    /\ pOut' = [pOut EXCEPT ![t].id = @ + 1]
    /\ seg' = [seg EXCEPT ![t] = @ + 1]
    /\ nre' = [nre EXCEPT ![t] = 0]
    /\ pc' = [pc EXCEPT ![t] = IF seg[t] + 1 = NbSegments(p.size) THEN "sendret" ELSE "emit"]
    /\ UNCHANGED <<poVars, netVars, ip, caller, conn, pIn, rbox, rbuf,
                   sendLog, recvLog, putLog, failed>>

(* Mutant: the loop condition nReemissions < MAXREEMISSIONS is lost. *)
CheckRetryUnbounded(t) ==
    /\ pc[t] = "check" /\ ~halted[Self(t)]
    /\ ackId[Self(t)][pOut[t].fromBox] # pOut[t].id
    /\ nre' = [nre EXCEPT ![t] = @ + 1]
    /\ pc' = [pc EXCEPT ![t] = "emit"]
    /\ UNCHANGED <<poVars, netVars, ip, caller, conn, pOut, pIn, seg, rbox, rbuf, histVars>>

(* Woken up without the awaited ACK, below MAXREEMISSIONS: send again. *)
CheckRetry(t) ==
    /\ pc[t] = "check" /\ ~halted[Self(t)]
    /\ ackId[Self(t)][pOut[t].fromBox] # pOut[t].id
    /\ nre[t] + 1 < MaxReemissions
    /\ nre' = [nre EXCEPT ![t] = @ + 1]
    /\ pc' = [pc EXCEPT ![t] = "emit"]
    /\ UNCHANGED <<poVars, netVars, ip, caller, conn, pOut, pIn, seg, rbox, rbuf, histVars>>

(* MAXREEMISSIONS reached: ReliableSendSegment and SendPayload return     *)
(* false, leaving messageId at the id of the failed segment.             *)
CheckFail(t) ==
    /\ pc[t] = "check" /\ ~halted[Self(t)]
    /\ ackId[Self(t)][pOut[t].fromBox] # pOut[t].id
    /\ nre[t] + 1 >= MaxReemissions
    /\ failed' = TRUE
    /\ pc' = [pc EXCEPT ![t] = "sendret"]
    /\ UNCHANGED <<poVars, netVars, ip, caller, conn, pOut, pIn, seg, nre, rbox, rbuf,
                   sendLog, recvLog, putLog, ackLog>>

(* SendPayload returned (its result is ignored by every caller).  Connect *)
(* goes on with ReceivePayload on its box; Listen and Send return.        *)
SendReturn(t) ==
    /\ pc[t] = "sendret" /\ ~halted[Self(t)]
    /\ IF caller[t] = "connect"
          THEN /\ BeginRecv(t, pOut[t].fromBox, "connect")
               /\ UNCHANGED ip
          ELSE /\ NextCall(t)
               /\ UNCHANGED <<rbox, rbuf, seg, caller>>
    /\ UNCHANGED <<poVars, netVars, conn, pOut, pIn, nre, histVars>>

-----------------------------------------------------------------------------
(* ReceivePayload: MailBox::Get of segment 0, then of segments 1 ..       *)
(* nbSegments-1, where nbSegments comes from the last mail taken.         *)

Get(t) ==
    LET m  == Self(t)
        b  == rbox[t]
        ml == Head(mbox[m][b])
    IN
    /\ pc[t] = "get" /\ ~halted[m]
    /\ mbox[m][b] # <<>>
    /\ mbox' = [mbox EXCEPT ![m][b] = Tail(@)]
    /\ pIn' = [pIn EXCEPT ![t] = [src |-> ml.src, from |-> ml.from, to |-> ml.to,
                                  len |-> ml.len, type |-> ml.type]]
    /\ rbuf' = [rbuf EXCEPT ![t] = Append(@, <<ml.pid, ml.seg>>)]
    /\ seg' = [seg EXCEPT ![t] = @ + 1]
    /\ pc' = [pc EXCEPT ![t] = IF seg[t] + 1 < NbSegments(ml.len) THEN "get" ELSE "recvret"]
    /\ UNCHANGED <<usedBoxes, waitedId, ackId, connections, discWait, halted, clock, netVars,
                   ip, caller, conn, pOut, nre, rbox, histVars>>

(* ReceivePayload returned.  Connect updates pOut to the box of the       *)
(* server and returns; Listen answers "C" (2 bytes, messageId 0) to the   *)
(* machine and box the CONN came from; Receive returns.                   *)
RecvReturn(t) ==
    /\ pc[t] = "recvret" /\ ~halted[Self(t)]
    /\ recvLog' = [recvLog EXCEPT ![t] = Append(@, rbuf[t])]
    /\ \/ /\ caller[t] = "connect"
          /\ pOut' = [pOut EXCEPT ![t].toBox = pIn[t].from, ![t].size = 0, ![t].type = "DATA"]
          /\ NextCall(t)
          /\ UNCHANGED <<caller, seg, nre, sendLog>>
       \/ /\ caller[t] = "listen"
          /\ BeginSend(t, [to |-> pIn[t].src, toBox |-> pIn[t].from, fromBox |-> pOut[t].fromBox,
                           id |-> 0, type |-> "DATA", size |-> 2, ts |-> 0], "listen")
          /\ UNCHANGED ip
       \/ /\ caller[t] = "receive"
          /\ NextCall(t)
          /\ UNCHANGED <<caller, pOut, seg, nre, sendLog>>
    /\ UNCHANGED <<poVars, netVars, conn, pIn, rbox, rbuf, putLog, ackLog, failed>>

-----------------------------------------------------------------------------
(* DisconnectPayload after the first Wait: wait once more, then as long   *)
(* as RemoveNoWaiting finds a mail; finally reset waitedId, free the box. *)

DisconnectRewait(t) ==
    /\ pc[t] = "dwake1" /\ ~halted[Self(t)]
    /\ discWait' = [discWait EXCEPT ![Self(t)] = Append(@, t)]
    /\ pc' = [pc EXCEPT ![t] = "dwait2"]
    /\ UNCHANGED <<usedBoxes, mbox, waitedId, ackId, connections, halted, clock, netVars,
                   ip, caller, conn, pOut, pIn, seg, nre, rbox, rbuf, histVars>>

DisconnectDrain(t) ==
    LET m == Self(t)
        b == rbox[t]
    IN
    /\ pc[t] = "dwake2" /\ ~halted[m]
    /\ mbox[m][b] # <<>>
    /\ mbox' = [mbox EXCEPT ![m][b] = Tail(@)]
    /\ discWait' = [discWait EXCEPT ![m] = Append(@, t)]
    /\ pc' = [pc EXCEPT ![t] = "dwait2"]
    /\ UNCHANGED <<usedBoxes, waitedId, ackId, connections, halted, clock, netVars,
                   ip, caller, conn, pOut, pIn, seg, nre, rbox, rbuf, histVars>>

DisconnectDone(t) ==
    LET m == Self(t)
        b == rbox[t]
    IN
    /\ pc[t] = "dwake2" /\ ~halted[m]
    /\ mbox[m][b] = <<>>
    /\ waitedId' = [waitedId EXCEPT ![m][b] = 0]
    /\ usedBoxes' = [usedBoxes EXCEPT ![m] = @ \ {b}]
    /\ conn' = [conn EXCEPT ![t] = FALSE]
    /\ NextCall(t)
    /\ UNCHANGED <<mbox, ackId, connections, discWait, halted, clock, netVars,
                   caller, pOut, pIn, seg, nre, rbox, rbuf, histVars>>

-----------------------------------------------------------------------------
(* The postal worker, the timer and the network.                           *)

(* x runs on m and becomes its currentThread.  Only TempoSelfBlock reads *)
(* cur, so it is kept only when that step is possible.                   *)
Current(m, x) == cur' = IF TimerInSend THEN [cur EXCEPT ![m] = x] ELSE cur

(* ackLock of box b of m is held by a sender asleep in messageSent->P()  *)
(* or blocked for good in the timer handler; Acquire would block on it.  *)
AckLockHeld(m, b) ==
    \E s \in Threads : Self(s) = m /\ pc[s] \in {"sent", "tblocked"} /\ pOut[s].fromBox = b

(* Thread t of the application is on the ready list of its machine. *)
Ready(t) ==
    \/ pc[t] \in {"next", "emit", "check", "sendret", "recvret", "dwake1", "dwake2"}
    \/ pc[t] = "get" /\ mbox[Self(t)][rbox[t]] # <<>>

(* Positions of the packets from a to m the network may hand to m next: *)
(* the oldest one on a FIFO channel, any one otherwise.                 *)
Arrivable(a, m) ==
    IF Ordered THEN (IF chan[a][m] = <<>> THEN {} ELSE {1}) ELSE 1 .. Len(chan[a][m])

(* Mutant: a duplicate is only a reminder with a later timestamp. *)
ValidConnLaterOnly(m, p) ==
    ~\E e \in connections[m] :
        /\ e.src = p.src /\ e.dst = p.dst /\ e.from = p.from /\ e.to = p.to
        /\ e.ts > p.ts

(* ValidConn: no ConnReminder of the same four addresses with a timestamp *)
(* at least as recent; a valid one is appended to the list.              *)
Reminder(p) == [src |-> p.src, dst |-> p.dst, from |-> p.from, to |-> p.to, ts |-> p.ts]
ValidConn(m, p) ==
    ~\E e \in connections[m] :
        /\ e.src = p.src /\ e.dst = p.dst /\ e.from = p.from /\ e.to = p.to
        /\ e.ts >= p.ts

(* PostalDelivery, one iteration: take the next packet from machine a.     *)
(* A valid CONN to LISTEN_BOX, or the DATA a box waits for, is put in the  *)
(* box (waitedId++ for DATA); an ACK sets ackId and broadcasts ackCond;    *)
(* anything else is dropped.  Every packet but an ACK is acknowledged      *)
(* with its own messageId.                                                *)
PostalDelivery(m) ==
    /\ ~halted[m]
    /\ \E a \in Machines : \E i \in Arrivable(a, m) :
        LET p       == chan[a][m][i]
            accConn == p.type = "CONN" /\ p.to = LISTEN_BOX /\ ValidConn(m, p)
            accData == p.type = "DATA" /\ p.id = waitedId[m][p.to]
            isAck   == p.type = "ACK"
            ack     == Pkt(m, a, p.to, p.from, 0, "ACK", p.id, NoPid, 0, 0)
        IN
        /\ isAck => ~AckLockHeld(m, p.to)
        /\ chan' = [chan EXCEPT ![a][m] = RemoveAt(@, i),
                                ![m][a] = IF isAck THEN @ ELSE Append(@, ack)]
        /\ mbox' = IF accConn \/ accData
                      THEN [mbox EXCEPT ![m][p.to] = Append(@, p)] ELSE mbox
        /\ putLog' = IF accConn \/ accData THEN putLog \cup {<<p.pid, p.seg>>} ELSE putLog
        /\ connections' = IF accConn
                             THEN [connections EXCEPT ![m] = @ \cup {Reminder(p)}]
                             ELSE connections
        /\ waitedId' = IF accData THEN [waitedId EXCEPT ![m][p.to] = @ + 1] ELSE waitedId
        /\ ackId' = IF isAck THEN [ackId EXCEPT ![m][p.to] = p.id] ELSE ackId
        /\ pc' = IF isAck THEN WakeAck(m, {p.to}) ELSE pc
    /\ Current(m, "worker")
    /\ UNCHANGED <<usedBoxes, discWait, halted, clock, lost, ip, caller, conn, pOut, pIn,
                   seg, nre, rbox, rbuf, sendLog, recvLog, ackLog, failed>>

(* Mutant: the loop of the handler stops before the last box. *)
TempoBroadcastButLast(m) ==
    /\ ~halted[m]
    /\ \E t \in Threads : pc[t] = "wait" /\ Self(t) = m
    /\ \A b \in Boxes : ~AckLockHeld(m, b)
    /\ pc' = WakeAck(m, Boxes \ {NumBoxes - 1})
    /\ UNCHANGED <<poVars, netVars, ip, caller, conn, pOut, pIn, seg, nre, rbox, rbuf, histVars,
                   cur>>

(* NetworkSendWaitHandler, every TEMPO: broadcast ackCond of every box. *)
TempoBroadcast(m) ==
    /\ ~halted[m]
    /\ \E t \in Threads : pc[t] = "wait" /\ Self(t) = m
    /\ \A b \in Boxes : ~AckLockHeld(m, b)
    /\ pc' = WakeAck(m, Boxes)
    /\ UNCHANGED <<poVars, netVars, ip, caller, conn, pOut, pIn, seg, nre, rbox, rbuf, histVars,
                   cur>>

(* The TEMPO branch of NetworkSendWaitHandler runs on the currentThread.  *)
(* When m idles because its only runnable thread s sleeps in               *)
(* messageSent->P() holding ackLock, currentThread is s, and the handler's *)
(* ackLock->Acquire() puts s to sleep on the lock s holds itself: the     *)
(* WriteDone V wakes s inside the handler, never back in its send.       *)
(* (With another currentThread the handler only waits for the lock, and  *)
(* broadcasts once s is in ackCond->Wait: TempoBroadcast.)              *)
TempoSelfBlock(m) ==
    /\ TimerInSend /\ ~halted[m]
    /\ cur[m] \in Threads
    /\ pc[cur[m]] = "sent"
    /\ ~\E t \in Threads : Self(t) = m /\ Ready(t)
    /\ pc' = [pc EXCEPT ![cur[m]] = "tblocked"]
    /\ UNCHANGED <<poVars, netVars, ip, caller, conn, pOut, pIn, seg, nre, rbox, rbuf, histVars,
                   cur>>

(* NetworkSendWaitHandler, every DISCONNECT_TEMPO: Signal disconnectCond, *)
(* waking the first thread of its queue.                                  *)
DisconnectTempo(m) ==
    LET t == Head(discWait[m]) IN
    /\ ~halted[m]
    /\ discWait[m] # <<>>
    /\ discWait' = [discWait EXCEPT ![m] = Tail(@)]
    /\ pc' = [pc EXCEPT ![t] = IF @ = "dwait1" THEN "dwake1" ELSE "dwake2"]
    /\ UNCHANGED <<usedBoxes, mbox, waitedId, ackId, connections, halted, clock, netVars,
                   ip, caller, conn, pOut, pIn, seg, nre, rbox, rbuf, histVars, cur>>

(* The network loses a packet in flight. *)
Lose ==
    /\ lost < MaxLoss
    /\ \E a, b \in Machines : \E i \in 1 .. Len(chan[a][b]) :
          chan' = [chan EXCEPT ![a][b] = RemoveAt(@, i)]
    /\ lost' = lost + 1
    /\ UNCHANGED <<poVars, thrVars, histVars, cur>>

(* Every thread has called interrupt->Halt(): nothing runs any more. *)
Terminated ==
    /\ \A t \in Threads : pc[t] = "done"
    /\ UNCHANGED vars

(* A step of thread t, which is then currentThread of its machine. *)
ThreadStep(t) ==
    /\ \/ ConnectRefused(t) \/ Connect(t) \/ ListenRefused(t) \/ Listen(t)
       \/ NullCall(t) \/ Send(t) \/ Receive(t) \/ Disconnect(t) \/ Exit(t) \/ Halt(t)
       \/ Emit(t) \/ SendDone(t) \/ CheckAcked(t) \/ CheckRetry(t) \/ CheckFail(t)
       \/ SendReturn(t) \/ Get(t) \/ RecvReturn(t)
       \/ DisconnectRewait(t) \/ DisconnectDrain(t) \/ DisconnectDone(t)
    /\ Current(Self(t), t)

Next ==
    \/ \E t \in Threads : ThreadStep(t)
    \/ \E m \in Machines : PostalDelivery(m) \/ TempoBroadcast(m) \/ DisconnectTempo(m)
                          \/ TempoSelfBlock(m)
    \/ Lose
    \/ Terminated

(* Threads, postal workers and the timer are weakly fair: a ready Nachos  *)
(* thread is eventually scheduled and the timer keeps firing.  Losses get *)
(* no fairness.                                                           *)
Fairness ==
    /\ \A t \in Threads : WF_vars(ThreadStep(t))
    /\ \A m \in Machines : /\ WF_vars(PostalDelivery(m))
                           /\ WF_vars(TempoBroadcast(m))
                           /\ WF_vars(DisconnectTempo(m))

Spec == Init /\ [][Next]_vars /\ Fairness

-----------------------------------------------------------------------------
(* Properties.                                                             *)

TypeOK ==
    /\ \A m \in Machines :
          /\ LISTEN_BOX \in usedBoxes[m] /\ usedBoxes[m] \subseteq Boxes
          /\ \A b \in Boxes : waitedId[m][b] \in Nat /\ ackId[m][b] \in Int
          /\ \A t \in ToSet(discWait[m]) : Self(t) = m
    /\ lost \in 0 .. MaxLoss
    /\ \A t \in Threads :
          /\ pc[t] \in {"next", "emit", "wait", "check", "sendret", "get", "recvret",
                        "dwait1", "dwake1", "dwait2", "dwake2", "done", "sent", "tblocked"}
          /\ caller[t] \in {"none", "connect", "listen", "send", "receive"}
          /\ pOut[t].type \in MessageTypes /\ pOut[t].fromBox \in Boxes
          /\ nre[t] \in 0 .. MaxReemissions - 1
          /\ conn[t] => pOut[t].fromBox \in usedBoxes[Self(t)] \ {LISTEN_BOX}
    /\ failed \in BOOLEAN
    /\ cur \in [Machines -> Threads \cup {"worker", "none"}]

(* Payloads named in the order a thread u started sending them to a      *)
(* machine, and in the order a thread t got them out of ReceivePayload.   *)
SentTo(u, m) == SelectSeq([k \in 1 .. Len(sendLog[u]) |-> <<u, k>>],
                          LAMBDA pid : sendLog[u][pid[2]].to = m)
RecvFrom(t, u) == SelectSeq([k \in 1 .. Len(recvLog[t]) |-> recvLog[t][k][1][1]],
                            LAMBDA pid : pid # NoPid /\ pid[1] = u)

(* A ReceivePayload result is whole: segments 0 .. nbSegments-1 of one   *)
(* payload, in order.                                                    *)
Whole(r) ==
    LET pid == r[1][1] IN
    /\ pid # NoPid
    /\ Len(r) = sendLog[pid[1]][pid[2]].nseg
    /\ \A i \in 1 .. Len(r) : r[i] = <<pid, i - 1>>

(* Reliable delivery of the post office: as long as no ReliableSendSegment *)
(* has given up, every ReceivePayload returns a whole payload, and the     *)
(* payloads a thread receives from a peer are exactly the first ones the   *)
(* peer sent to its machine, in order: none lost, duplicated (a CONN       *)
(* retransmission let through ValidConn, a DATA through waitedId) or      *)
(* reordered across the Connect / Disconnect cycles of ConnTest.           *)
ReliableDelivery ==
    ~failed =>
        \A t \in Threads :
            /\ \A k \in 1 .. Len(recvLog[t]) : Whole(recvLog[t][k])
            /\ \A u \in Threads \ {t} : IsPrefix(RecvFrom(t, u), SentTo(u, Self(t)))

(* Soundness of the acknowledgements of ReliableSendSegment: as long as  *)
(* no send has given up, a segment whose sender saw ackId == sentId was   *)
(* put in a mail box by the postal worker of the receiver; no ACK of an   *)
(* earlier connection on a reused box stands in for it.                  *)
AckSound == ~failed => ackLog \subseteq putLog

(* The contract of ReliableSendSegment stated without a precondition: a  *)
(* segment reported sent (ackId == sentId) was put in the receiver's box. *)
(* The ACK the postal worker returns for a dropped DATA or CONN carries  *)
(* the id of that packet, so this can fail when a sender reuses an id    *)
(* or a CONN is refused.                                                 *)
AcknowledgedWasDelivered == ackLog \subseteq putLog

(* Every run of the scripts ends: unless some ReliableSendSegment gave    *)
(* up (after which ReceivePayload on the peer may block forever), every   *)
(* thread eventually reaches interrupt->Halt().  It needs the timer's     *)
(* broadcast of every box to recover from lost ACKs.                     *)
ScriptCompletes == <>(failed \/ \A t \in Threads : pc[t] = "done")
====
