-------------------------------- MODULE Ftp --------------------------------
(***************************************************************************)
(* The FTP service of NonOS (network/ftp.cc) over the connections of the   *)
(* post office (PostOffice::Connect, Listen, Send, Receive, Disconnect in  *)
(* network/post.cc).                                                       *)
(*                                                                         *)
(* One machine runs startFTPserver: its ServerRoutine thread Listens and   *)
(* forks one HandleClient thread per accepted client.  Every other machine *)
(* runs one user thread that makes FTPClientAction calls (SC_Sendfile is a *)
(* 'w', SC_Receivefile an 'r'): Connect, SendFileRequest, Disconnect.      *)
(*                                                                         *)
(* Each machine is a Nachos process with its own CPU, so the threads of    *)
(* different machines interleave freely; on one machine a thread runs     *)
(* until it sleeps.  Every post-office Send sleeps until its ACK, every    *)
(* Receive sleeps until its box holds a message, every FileHandler call    *)
(* sleeps on the disk: one action is one stretch of a thread between two  *)
(* such sleeps.                                                            *)
(*                                                                         *)
(* The reliable transport below a connection (sequence numbers, ACKs,     *)
(* re-emissions, duplicate CONN filtering) is the PostOffice module.  Here *)
(* a Send puts its message at the end of the destination box of the       *)
(* destination machine, the delivery PostOffice's ReliableDelivery checks; *)
(* a message to a machine that has stopped is lost (SendPayload gives up  *)
(* after MAXREEMISSIONS and its result is ignored by ftp.cc).             *)
(***************************************************************************)
EXTENDS Integers, Sequences, FiniteSets

CONSTANTS
    Server,            \* the machine that runs startFTPserver
    ClientMachines,    \* the machines whose user program calls Sendfile/Receivefile
    Srv,               \* the thread that runs Server::ServerRoutine
    Handlers,          \* threads ServerRoutine can fork for HandleClient
    Clients,           \* user threads that call FTPClientAction
    Home,              \* Home[c]: the machine thread c runs on
    Script,            \* Script[c]: its calls, a sequence of [rw, name]
    Names,             \* file names used by the calls
    Data,              \* contents of a non-empty file (a model value each)
    Empty,             \* the contents of a file just created (size 0)
    None,              \* no file, no connection, no peer
    InitFiles,         \* InitFiles[m][n]: contents at start, or None
    NumBoxes,          \* nBoxes of every post office
    MaxOpenedFiles,    \* size of FileSystem::openedFiles
    NumDirEntries,     \* files a directory can hold
    MAXCLIENTS         \* clients ServerRoutine accepts at once

Machines == {Server} \cup ClientMachines
Threads == {Srv} \cup Handlers \cup Clients
Boxes == 0 .. NumBoxes - 1
LISTEN_BOX == 0
Contents == Data \cup {Empty}

\* FTPType and the post-office MessageType of connection set-up
Types == {"OK", "ERROR", "READFILE", "WRITEFILE", "FILEDATA", "DISCONNECT",
          "CONN", "C"}

Msg == [type : Types, size : {0, 1}, name : Names \cup {None},
        data : Contents \cup {None}, from : Machines, fbox : Boxes]

\* A connection: pOut goes from box to (peer, pbox); inTo is pIn.mailHdr.to
Conn == [peer : Machines \cup {None}, pbox : Boxes, box : Boxes, inTo : Boxes]

\* A machine that runs, that called interrupt->Halt, or that died on an ASSERT
Status == {"up", "halted", "assert"}

VARIABLES
    used,        \* used[m]: the boxes marked in usedBoxes of m's post office
    boxes,       \* boxes[m][b]: the messages waiting in box b of machine m
    fs,          \* fs[m][n]: the contents of file n on machine m, or None
    opened,      \* opened[m]: the files in m's openedFiles table
    clientMap,   \* Server::clientMap: the machines marked connected
    nbClients,   \* Server::nbClients
    down,        \* down[m]: "up", "halted", or the ASSERT m died on
    pc,          \* pc[t]: where thread t is
    nxt,         \* nxt[t]: where t goes after a close, remove or Disconnect
    conn,        \* conn[t]: the Connection t uses, or None
    ip,          \* ip[c]: the index in Script[c] of c's current call
    nm,          \* nm[t]: the file t transfers
    fsz,         \* fsz[t]: the fileSize t announced or was announced
    buf,         \* buf[t]: the contents t read from its file
    ok           \* ok[c]: the calls of c that returned true (ghost)

vars == <<used, boxes, fs, opened, clientMap, nbClients, down, pc, nxt,
          conn, ip, nm, fsz, buf, ok>>
net == <<used, boxes>>
files == <<fs, opened>>
srvVars == <<clientMap, nbClients>>
local == <<nxt, ip, nm, fsz, buf, ok>>

Mach(t) == IF t \in Clients THEN Home[t] ELSE Server

Size(d) == IF d = Empty THEN 0 ELSE 1

(***************************************************************************)
(* The post office.                                                        *)
(***************************************************************************)

\* BitMap::Find: the lowest clear bit, marked; -1 when all are set
FindBox(m) == IF used[m] = Boxes THEN -1
              ELSE CHOOSE b \in Boxes \ used[m] :
                       \A b2 \in Boxes \ used[m] : b <= b2

\* A message from box fb of machine fm; SendPayload of it to box b of m
Mail(type, size, name, data, fm, fb) ==
    [type |-> type, size |-> size, name |-> name, data |-> data,
     from |-> fm, fbox |-> fb]
Deliver(bx, m, b, msg) ==
    IF down[m] = "up" THEN [bx EXCEPT ![m][b] = Append(@, msg)] ELSE bx

\* Send on t's Connection: from pOut.mailHdr.from to the peer's box
Put(bx, t, type, size, name, data) ==
    Deliver(bx, conn[t].peer, conn[t].pbox,
            Mail(type, size, name, data, Mach(t), conn[t].box))

\* Receive(conn): waits on the connection's own box, pOut.mailHdr.from
HasMail(t) == boxes[Mach(t)][conn[t].box] /= <<>>
In(t) == Head(boxes[Mach(t)][conn[t].box])
Taken(t) == [boxes EXCEPT ![Mach(t)][conn[t].box] = Tail(@)]
Got(t) == [conn EXCEPT ![t].inTo = conn[t].box]

\* Notify: a Send alone; Answer: a Receive, then a Send
Notify(t, type, size) == boxes' = Put(boxes, t, type, size, None, None)
Answer(t, type, size) == boxes' = Put(Taken(t), t, type, size, None, None)

\* A failed ASSERT aborts the whole Nachos process of t
Fail(t) == down' = [down EXCEPT ![Mach(t)] = "assert"]

Go(t, l) == pc' = [pc EXCEPT ![t] = l]
Then(t, l, n) == /\ Go(t, l) /\ nxt' = [nxt EXCEPT ![t] = n]

\* A thread runs when its machine runs; while ServerRoutine spins on a
\* NULL Listen it never sleeps, so no other thread of the server runs
CanRun(t) == /\ down[Mach(t)] = "up"
             /\ Mach(t) = Server /\ t /= Srv => pc[Srv] /= "spin"

(***************************************************************************)
(* PostOffice::Disconnect(conn) is DisconnectPayload(conn->pIn): it        *)
(* empties the box pIn.mailHdr.to, sleeps on disconnectCond until the     *)
(* DISCONNECT_TEMPO timer has signalled it, empties the box again and     *)
(* clears it in usedBoxes.  Then t goes on at nxt[t].                     *)
(***************************************************************************)
DcDrain(t) ==
    /\ pc[t] = "dc1" /\ CanRun(t)
    /\ boxes' = [boxes EXCEPT ![Mach(t)][conn[t].inTo] = <<>>]
    /\ Go(t, "dc2")
    /\ UNCHANGED <<used, files, srvVars, down, conn, local>>

\* Mutant: DisconnectPayload without usedBoxes->Clear
DcFreeKeepsBox(t) ==
    /\ pc[t] = "dc2" /\ CanRun(t)
    /\ boxes' = [boxes EXCEPT ![Mach(t)][conn[t].inTo] = <<>>]
    /\ conn' = [conn EXCEPT ![t] = None]
    /\ Go(t, nxt[t])
    /\ UNCHANGED <<used, files, srvVars, down, local>>

DcFree(t) ==
    /\ pc[t] = "dc2" /\ CanRun(t)
    /\ boxes' = [boxes EXCEPT ![Mach(t)][conn[t].inTo] = <<>>]
    /\ used' = [used EXCEPT ![Mach(t)] = @ \ {conn[t].inTo}]
    /\ conn' = [conn EXCEPT ![t] = None]
    /\ Go(t, nxt[t])
    /\ UNCHANGED <<files, srvVars, down, local>>

(***************************************************************************)
(* Server::ServerRoutine.                                                  *)
(***************************************************************************)

\* Listen: Find a box, then sleep on LISTEN_BOX.  None: Listen returns
\* NULL and the loop calls it again without sleeping ("spin"), for ever,
\* as no other thread of the machine can free a box meanwhile
ListenStart ==
    /\ pc[Srv] \in {"listen", "spin"} /\ CanRun(Srv)
    /\ LET b == FindBox(Server) IN
       IF b = -1
       THEN /\ Go(Srv, "spin")
            /\ UNCHANGED <<used, conn>>
       ELSE /\ used' = [used EXCEPT ![Server] = @ \cup {b}]
            /\ conn' = [conn EXCEPT ![Srv] =
                          [peer |-> None, pbox |-> 0, box |-> b, inTo |-> LISTEN_BOX]]
            /\ Go(Srv, "l_wait")
    /\ UNCHANGED <<boxes, files, srvVars, down, local>>

\* Listen takes the CONN, answers "C" from its box to the caller's box
ListenAccept ==
    /\ pc[Srv] = "l_wait" /\ CanRun(Srv)
    /\ boxes[Server][LISTEN_BOX] /= <<>>
    /\ LET msg == Head(boxes[Server][LISTEN_BOX])
           bx == [boxes EXCEPT ![Server][LISTEN_BOX] = Tail(@)]
       IN  IF msg.type /= "CONN"
           THEN /\ Fail(Srv) /\ boxes' = bx
                /\ UNCHANGED <<pc, conn>>
           ELSE /\ conn' = [conn EXCEPT ![Srv].peer = msg.from,
                                        ![Srv].pbox = msg.fbox]
                /\ boxes' = Deliver(bx, msg.from, msg.fbox,
                                     Mail("C", 0, None, None, Server, conn[Srv].box))
                /\ Go(Srv, "accept")
                /\ UNCHANGED down
    /\ UNCHANGED <<used, files, srvVars, local>>

\* Mutant: ClientConnect marks the client but does not count it
ClientConnectNoCount(from) ==
    clientMap' = clientMap \cup {from} /\ UNCHANGED nbClients

\* ClientConnect: refused (and still given a handler) at MAXCLIENTS
ClientConnect(from) ==
    IF nbClients >= MAXCLIENTS
    THEN UNCHANGED srvVars
    ELSE /\ clientMap' = clientMap \cup {from}
         /\ nbClients' = nbClients + 1

\* A client machine already in clientMap is told DISCONNECT and the
\* connection is Disconnected; any other gets ClientConnect and a handler
Accept ==
    /\ pc[Srv] = "accept" /\ CanRun(Srv)
    /\ LET from == conn[Srv].peer IN
       IF from \in clientMap
       THEN /\ Notify(Srv, "DISCONNECT", 0)
            /\ Then(Srv, "dc1", "listen")
            /\ UNCHANGED <<conn, srvVars>>
       ELSE \E h \in Handlers :
              /\ pc[h] = "unborn"
              /\ ClientConnect(from)
              /\ conn' = [conn EXCEPT ![h] = conn[Srv], ![Srv] = None]
              /\ pc' = [pc EXCEPT ![Srv] = "listen", ![h] = "h_ok"]
              /\ UNCHANGED <<boxes, nxt>>
    /\ UNCHANGED <<used, files, down, ip, nm, fsz, buf, ok>>

(***************************************************************************)
(* The FileHandler calls on machine m.                                     *)
(***************************************************************************)

\* FileSize: -1 unless the file exists
FileSizeOf(m, n) == IF fs[m][n] = None THEN -1 ELSE Size(fs[m][n])

\* CreateFile: refused when it exists or the directory is full
CanCreate(m, n) == /\ fs[m][n] = None
                   /\ Cardinality({f \in Names : fs[m][f] /= None}) < NumDirEntries

\* OpenFile is OpenUser: refused for a missing file, a file already in
\* openedFiles, and a full table
CanOpen(m, n) == /\ fs[m][n] /= None
                 /\ n \notin opened[m]
                 /\ Cardinality(opened[m]) < MaxOpenedFiles

\* A close, or a close and a RemoveFile (refused while the file is open),
\* each its own sleep on the disk; then nxt[t]
Cleanup(t) ==
    /\ pc[t] \in {"close", "close_rm", "rm"} /\ CanRun(t)
    /\ LET m == Mach(t) IN
       CASE pc[t] = "close" ->
              /\ opened' = [opened EXCEPT ![m] = @ \ {nm[t]}]
              /\ Go(t, nxt[t]) /\ UNCHANGED fs
         [] pc[t] = "close_rm" ->
              /\ opened' = [opened EXCEPT ![m] = @ \ {nm[t]}]
              /\ Go(t, "rm") /\ UNCHANGED fs
         [] pc[t] = "rm" ->
              /\ fs' = IF nm[t] \in opened[m] THEN fs
                       ELSE [fs EXCEPT ![m][nm[t]] = None]
              /\ Go(t, nxt[t]) /\ UNCHANGED opened
    /\ UNCHANGED <<net, srvVars, down, conn, local>>

(***************************************************************************)
(* Server::HandleClient, SendFile, ReceiveFile, ClientConfirmation.        *)
(***************************************************************************)

HNotifyOk(h) ==
    /\ pc[h] = "h_ok" /\ CanRun(h)
    /\ Notify(h, "OK", 0)
    /\ Go(h, "h_recv")
    /\ UNCHANGED <<used, files, srvVars, down, conn, local>>

\* Mutant: a DISCONNECT request is not answered
HRecvNoDisconnectReply(h) ==
    /\ pc[h] = "h_recv" /\ CanRun(h) /\ HasMail(h)
    /\ conn' = Got(h)
    /\ LET msg == In(h) IN
       CASE msg.type = "READFILE" ->
              /\ boxes' = Taken(h) /\ Go(h, "sf_size")
              /\ nm' = [nm EXCEPT ![h] = msg.name] /\ UNCHANGED fsz
         [] msg.type = "WRITEFILE" ->
              /\ boxes' = Taken(h) /\ Go(h, "rf_create")
              /\ nm' = [nm EXCEPT ![h] = msg.name]
              /\ fsz' = [fsz EXCEPT ![h] = msg.size]
         [] msg.type = "DISCONNECT" ->
              /\ boxes' = Taken(h) /\ Go(h, "h_cd")
              /\ UNCHANGED <<nm, fsz>>
         [] OTHER ->
              /\ Answer(h, "ERROR", 0) /\ Go(h, "h_recv")
              /\ UNCHANGED <<nm, fsz>>
    /\ UNCHANGED <<used, files, srvVars, down, nxt, ip, buf, ok>>

\* The loop of HandleClient: Receive, then the switch on the type
HRecv(h) ==
    /\ pc[h] = "h_recv" /\ CanRun(h) /\ HasMail(h)
    /\ conn' = Got(h)
    /\ LET msg == In(h) IN
       CASE msg.type = "READFILE" ->
              /\ boxes' = Taken(h) /\ Go(h, "sf_size")
              /\ nm' = [nm EXCEPT ![h] = msg.name] /\ UNCHANGED fsz
         [] msg.type = "WRITEFILE" ->
              /\ boxes' = Taken(h) /\ Go(h, "rf_create")
              /\ nm' = [nm EXCEPT ![h] = msg.name]
              /\ fsz' = [fsz EXCEPT ![h] = msg.size]
         [] msg.type = "DISCONNECT" ->
              /\ Answer(h, "DISCONNECT", 0) /\ Go(h, "h_cd")
              /\ UNCHANGED <<nm, fsz>>
         [] OTHER ->
              /\ Answer(h, "ERROR", 0) /\ Go(h, "h_recv")
              /\ UNCHANGED <<nm, fsz>>
    /\ UNCHANGED <<used, files, srvVars, down, nxt, ip, buf, ok>>

\* ClientDisconnect, then Disconnect, then Finish
HClientDisconnect(h) ==
    /\ pc[h] = "h_cd" /\ CanRun(h)
    /\ LET from == conn[h].peer IN
       IF from \notin clientMap
       THEN Fail(h) /\ UNCHANGED <<pc, nxt, srvVars>>
       ELSE /\ clientMap' = clientMap \ {from}
            /\ nbClients' = nbClients - 1
            /\ Then(h, "dc1", "done")
            /\ UNCHANGED down
    /\ UNCHANGED <<used, boxes, files, conn, ip, nm, fsz, buf, ok>>

\* SendFile: FileSize, OpenFile, ReadFile (exactly fileSize bytes, then
\* nothing), each answered by ERROR on failure
SfSize(h) ==
    /\ pc[h] = "sf_size" /\ CanRun(h)
    /\ IF FileSizeOf(Server, nm[h]) < 0
       THEN Notify(h, "ERROR", 0) /\ Go(h, "h_recv") /\ UNCHANGED fsz
       ELSE /\ fsz' = [fsz EXCEPT ![h] = FileSizeOf(Server, nm[h])]
            /\ Go(h, "sf_open") /\ UNCHANGED boxes
    /\ UNCHANGED <<used, files, srvVars, down, conn, nxt, ip, nm, buf, ok>>

SfOpen(h) ==
    /\ pc[h] = "sf_open" /\ CanRun(h)
    /\ IF CanOpen(Server, nm[h])
       THEN /\ opened' = [opened EXCEPT ![Server] = @ \cup {nm[h]}]
            /\ Go(h, "sf_read") /\ UNCHANGED boxes
       ELSE Notify(h, "ERROR", 0) /\ Go(h, "h_recv") /\ UNCHANGED opened
    /\ UNCHANGED <<used, fs, srvVars, down, conn, local>>

\* Mutant: ReadFile's buffer is not the one later sent as FILEDATA
SfReadNoBuffer(h) ==
    /\ pc[h] = "sf_read" /\ CanRun(h)
    /\ IF FileSizeOf(Server, nm[h]) = fsz[h]
       THEN Notify(h, "OK", fsz[h]) /\ Go(h, "sf_conf1") /\ UNCHANGED nxt
       ELSE Notify(h, "ERROR", 0) /\ Then(h, "close", "h_recv")
    /\ UNCHANGED <<used, files, srvVars, down, conn, ip, nm, fsz, buf, ok>>

SfRead(h) ==
    /\ pc[h] = "sf_read" /\ CanRun(h)
    /\ IF FileSizeOf(Server, nm[h]) = fsz[h]
       THEN /\ buf' = [buf EXCEPT ![h] = fs[Server][nm[h]]]
            /\ Notify(h, "OK", fsz[h]) /\ Go(h, "sf_conf1")
            /\ UNCHANGED nxt
       ELSE /\ Notify(h, "ERROR", 0) /\ Then(h, "close", "h_recv")
            /\ UNCHANGED buf
    /\ UNCHANGED <<used, files, srvVars, down, conn, ip, nm, fsz, ok>>

\* ClientConfirmation (ServerConfirmation on the client): a Receive whose
\* answer must be OK or ERROR; OK goes on with onOk, ERROR to onErr
Confirmed(t, onOk, onErr, n) ==
    /\ conn' = Got(t)
    /\ CASE In(t).type = "OK" -> onOk /\ UNCHANGED down
         [] In(t).type = "ERROR" ->
              /\ boxes' = Taken(t) /\ Then(t, onErr, n) /\ UNCHANGED down
         [] OTHER -> boxes' = Taken(t) /\ Fail(t) /\ UNCHANGED <<pc, nxt>>

\* ... then the data is sent
SfConf1(h) ==
    /\ pc[h] = "sf_conf1" /\ CanRun(h) /\ HasMail(h)
    /\ Confirmed(h, /\ boxes' = Put(Taken(h), h, "FILEDATA", fsz[h], None, buf[h])
                    /\ Go(h, "sf_conf2") /\ UNCHANGED nxt,
                 "close", "h_recv")
    /\ UNCHANGED <<used, files, srvVars, ip, nm, fsz, buf, ok>>

\* ... then CloseFile and OK (CloseUser of an fd it opened cannot fail)
SfConf2(h) ==
    /\ pc[h] = "sf_conf2" /\ CanRun(h) /\ HasMail(h)
    /\ Confirmed(h, boxes' = Taken(h) /\ Go(h, "sf_close") /\ UNCHANGED nxt,
                 "close", "h_recv")
    /\ UNCHANGED <<used, files, srvVars, ip, nm, fsz, buf, ok>>

SfClose(h) ==
    /\ pc[h] = "sf_close" /\ CanRun(h)
    /\ opened' = [opened EXCEPT ![Server] = @ \ {nm[h]}]
    /\ Notify(h, "OK", 0) /\ Go(h, "h_recv")
    /\ UNCHANGED <<used, fs, srvVars, down, conn, local>>

\* ReceiveFile: CreateFile, then OpenFile.  A failed OpenFile answers ERROR
\* and returns, leaving the file CreateFile made.
RfCreate(h) ==
    /\ pc[h] = "rf_create" /\ CanRun(h)
    /\ IF CanCreate(Server, nm[h])
       THEN /\ fs' = [fs EXCEPT ![Server][nm[h]] = Empty]
            /\ Go(h, "rf_open") /\ UNCHANGED boxes
       ELSE Notify(h, "ERROR", 0) /\ Go(h, "h_recv") /\ UNCHANGED fs
    /\ UNCHANGED <<used, opened, srvVars, down, conn, local>>

RfOpen(h) ==
    /\ pc[h] = "rf_open" /\ CanRun(h)
    /\ IF CanOpen(Server, nm[h])
       THEN /\ opened' = [opened EXCEPT ![Server] = @ \cup {nm[h]}]
            /\ Notify(h, "OK", 0) /\ Go(h, "rf_conf1")
       ELSE Notify(h, "ERROR", 0) /\ Go(h, "h_recv") /\ UNCHANGED opened
    /\ UNCHANGED <<used, fs, srvVars, down, conn, local>>

\* ERROR from the client: CloseFile and RemoveFile
RfConf1(h) ==
    /\ pc[h] = "rf_conf1" /\ CanRun(h) /\ HasMail(h)
    /\ Confirmed(h, boxes' = Taken(h) /\ Go(h, "rf_data") /\ UNCHANGED nxt,
                 "close_rm", "h_recv")
    /\ UNCHANGED <<used, files, srvVars, ip, nm, fsz, buf, ok>>

\* Mutant: the FILEDATA is acknowledged but never written
RfDataNoWrite(h) ==
    /\ pc[h] = "rf_data" /\ CanRun(h) /\ HasMail(h)
    /\ conn' = Got(h)
    /\ IF In(h).type /= "FILEDATA" \/ In(h).size /= fsz[h]
       THEN boxes' = Taken(h) /\ Fail(h) /\ UNCHANGED pc
       ELSE Answer(h, "OK", 0) /\ Go(h, "rf_conf2") /\ UNCHANGED down
    /\ UNCHANGED <<used, files, srvVars, local>>

\* The data must be FILEDATA of the announced size; WriteFile, then OK
\* (WriteUser of the whole buffer into a file it opened is not refused)
RfData(h) ==
    /\ pc[h] = "rf_data" /\ CanRun(h) /\ HasMail(h)
    /\ conn' = Got(h)
    /\ IF In(h).type /= "FILEDATA" \/ In(h).size /= fsz[h]
       THEN boxes' = Taken(h) /\ Fail(h) /\ UNCHANGED <<pc, fs>>
       ELSE /\ fs' = [fs EXCEPT ![Server][nm[h]] = In(h).data]
            /\ Answer(h, "OK", 0) /\ Go(h, "rf_conf2")
            /\ UNCHANGED down
    /\ UNCHANGED <<used, opened, srvVars, local>>

\* OK from the client: CloseFile, and the transfer is complete
RfConf2(h) ==
    /\ pc[h] = "rf_conf2" /\ CanRun(h) /\ HasMail(h)
    /\ Confirmed(h, boxes' = Taken(h) /\ Then(h, "close", "h_recv"),
                 "close_rm", "h_recv")
    /\ UNCHANGED <<used, files, srvVars, ip, nm, fsz, buf, ok>>

(***************************************************************************)
(* The client: FTPClientAction, Client::Connect, SendFileRequest,          *)
(* SendFile, ReceiveFile, Disconnect and SendDisconnectRequest.            *)
(***************************************************************************)

Call(c) == Script[c][ip[c]]

\* FTPClientAction begins with PostOffice::Connect: Find a box (none:
\* NULL, and Client::Connect calls interrupt->Halt), send CONN to the
\* server's LISTEN_BOX and sleep on the box
CStart(c) ==
    /\ pc[c] = "c_start" /\ CanRun(c)
    /\ IF ip[c] > Len(Script[c])
       THEN Go(c, "done") /\ UNCHANGED <<net, down, conn, nm>>
       ELSE LET m == Home[c]
                b == FindBox(m)
            IN  IF b = -1
                THEN /\ down' = [down EXCEPT ![m] = "halted"]
                     /\ UNCHANGED <<pc, net, conn, nm>>
                ELSE /\ used' = [used EXCEPT ![m] = @ \cup {b}]
                     /\ conn' = [conn EXCEPT ![c] = [peer |-> Server,
                                   pbox |-> LISTEN_BOX, box |-> b, inTo |-> b]]
                     /\ boxes' = Deliver(boxes, Server, LISTEN_BOX,
                                          Mail("CONN", 0, None, None, m, b))
                     /\ nm' = [nm EXCEPT ![c] = Call(c).name]
                     /\ Go(c, "c_conn") /\ UNCHANGED down
    /\ UNCHANGED <<files, srvVars, nxt, ip, fsz, buf, ok>>

\* Mutant: pOut is not redirected to the box the "C" came from
CConnNoRetarget(c) ==
    /\ pc[c] = "c_conn" /\ CanRun(c) /\ HasMail(c)
    /\ boxes' = Taken(c)
    /\ IF In(c).type /= "C"
       THEN Fail(c) /\ UNCHANGED pc
       ELSE Go(c, "c_ans") /\ UNCHANGED down
    /\ UNCHANGED <<used, files, srvVars, conn, local>>

\* The answer must be "C"; pOut then goes to the box it came from
CConn(c) ==
    /\ pc[c] = "c_conn" /\ CanRun(c) /\ HasMail(c)
    /\ boxes' = Taken(c)
    /\ IF In(c).type /= "C"
       THEN Fail(c) /\ UNCHANGED <<pc, conn>>
       ELSE /\ conn' = [conn EXCEPT ![c].pbox = In(c).fbox]
            /\ Go(c, "c_ans") /\ UNCHANGED down
    /\ UNCHANGED <<used, files, srvVars, local>>

\* Client::Connect: the server answers OK, or DISCONNECT, upon which the
\* connection is Disconnected and Client::conn stays NULL
CAns(c) ==
    /\ pc[c] = "c_ans" /\ CanRun(c) /\ HasMail(c)
    /\ conn' = Got(c)
    /\ boxes' = Taken(c)
    /\ CASE In(c).type = "OK" -> Go(c, "c_req") /\ UNCHANGED <<down, nxt>>
         [] In(c).type = "DISCONNECT" ->
              Then(c, "dc1", "c_req") /\ UNCHANGED down
         [] OTHER -> Fail(c) /\ UNCHANGED <<pc, nxt>>
    /\ UNCHANGED <<used, files, srvVars, ip, nm, fsz, buf, ok>>

\* SendFileRequest: ASSERT(conn != NULL); a 'w' of a file the client does
\* not have returns false before sending anything
CReq(c) ==
    /\ pc[c] = "c_req" /\ CanRun(c)
    /\ IF conn[c] = None
       THEN Fail(c) /\ UNCHANGED <<pc, boxes>>
       ELSE /\ UNCHANGED down
            /\ CASE Call(c).rw = "r" ->
                      /\ boxes' = Put(boxes, c, "READFILE", 0, nm[c], None)
                      /\ Go(c, "c_conf")
                 [] FileSizeOf(Home[c], nm[c]) < 0 ->
                      Go(c, "c_disc") /\ UNCHANGED boxes
                 [] OTHER ->
                      /\ boxes' = Put(boxes, c, "WRITEFILE",
                                      FileSizeOf(Home[c], nm[c]), nm[c], None)
                      /\ Go(c, "c_conf")
    /\ UNCHANGED <<used, files, srvVars, conn, local>>

\* ServerConfirmation of the request; OK carries the size of a read file
CConf(c) ==
    /\ pc[c] = "c_conf" /\ CanRun(c) /\ HasMail(c)
    /\ Confirmed(c, /\ boxes' = Taken(c) /\ UNCHANGED nxt
                    /\ Go(c, IF Call(c).rw = "r" THEN "cr_create" ELSE "cs_size"),
                 "c_disc", "c_disc")
    /\ fsz' = IF In(c).type = "OK" THEN [fsz EXCEPT ![c] = In(c).size] ELSE fsz
    /\ UNCHANGED <<used, files, srvVars, ip, nm, buf, ok>>

\* Client::SendFile: FileSize, OpenFile, ReadFile, each answered by ERROR
\* on failure; then OK, then the FILEDATA
CsSize(c) ==
    /\ pc[c] = "cs_size" /\ CanRun(c)
    /\ IF FileSizeOf(Home[c], nm[c]) < 0
       THEN Notify(c, "ERROR", 0) /\ Go(c, "c_disc") /\ UNCHANGED fsz
       ELSE /\ fsz' = [fsz EXCEPT ![c] = FileSizeOf(Home[c], nm[c])]
            /\ Go(c, "cs_open") /\ UNCHANGED boxes
    /\ UNCHANGED <<used, files, srvVars, down, conn, nxt, ip, nm, buf, ok>>

CsOpen(c) ==
    /\ pc[c] = "cs_open" /\ CanRun(c)
    /\ IF CanOpen(Home[c], nm[c])
       THEN /\ opened' = [opened EXCEPT ![Home[c]] = @ \cup {nm[c]}]
            /\ Go(c, "cs_read") /\ UNCHANGED boxes
       ELSE Notify(c, "ERROR", 0) /\ Go(c, "c_disc") /\ UNCHANGED opened
    /\ UNCHANGED <<used, fs, srvVars, down, conn, local>>

CsRead(c) ==
    /\ pc[c] = "cs_read" /\ CanRun(c)
    /\ IF FileSizeOf(Home[c], nm[c]) = fsz[c]
       THEN /\ buf' = [buf EXCEPT ![c] = fs[Home[c]][nm[c]]]
            /\ Notify(c, "OK", 0) /\ Go(c, "cs_data") /\ UNCHANGED nxt
       ELSE /\ Notify(c, "ERROR", 0) /\ Then(c, "close", "c_disc")
            /\ UNCHANGED buf
    /\ UNCHANGED <<used, files, srvVars, down, conn, ip, nm, fsz, ok>>

CsData(c) ==
    /\ pc[c] = "cs_data" /\ CanRun(c)
    /\ boxes' = Put(boxes, c, "FILEDATA", fsz[c], None, buf[c])
    /\ Go(c, "cs_conf")
    /\ UNCHANGED <<used, files, srvVars, down, conn, local>>

\* ERROR: CloseFile and return false; OK: CloseFile, notify OK, true
CsConf(c) ==
    /\ pc[c] = "cs_conf" /\ CanRun(c) /\ HasMail(c)
    /\ Confirmed(c, boxes' = Taken(c) /\ Go(c, "cs_close") /\ UNCHANGED nxt,
                 "close", "c_disc")
    /\ UNCHANGED <<used, files, srvVars, ip, nm, fsz, buf, ok>>

CsClose(c) ==
    /\ pc[c] = "cs_close" /\ CanRun(c)
    /\ opened' = [opened EXCEPT ![Home[c]] = @ \ {nm[c]}]
    /\ Notify(c, "OK", 0) /\ Go(c, "c_disc")
    /\ ok' = [ok EXCEPT ![c] = @ \cup {ip[c]}]
    /\ UNCHANGED <<used, fs, srvVars, down, conn, nxt, ip, nm, fsz, buf>>

\* Client::ReceiveFile: CreateFile, OpenFile (a failure answers ERROR and
\* leaves the created file), OK, then the FILEDATA
CrCreate(c) ==
    /\ pc[c] = "cr_create" /\ CanRun(c)
    /\ IF CanCreate(Home[c], nm[c])
       THEN /\ fs' = [fs EXCEPT ![Home[c]][nm[c]] = Empty]
            /\ Go(c, "cr_open") /\ UNCHANGED boxes
       ELSE Notify(c, "ERROR", 0) /\ Go(c, "c_disc") /\ UNCHANGED fs
    /\ UNCHANGED <<used, opened, srvVars, down, conn, local>>

CrOpen(c) ==
    /\ pc[c] = "cr_open" /\ CanRun(c)
    /\ IF CanOpen(Home[c], nm[c])
       THEN /\ opened' = [opened EXCEPT ![Home[c]] = @ \cup {nm[c]}]
            /\ Notify(c, "OK", 0) /\ Go(c, "cr_data")
       ELSE Notify(c, "ERROR", 0) /\ Go(c, "c_disc") /\ UNCHANGED opened
    /\ UNCHANGED <<used, fs, srvVars, down, conn, local>>

\* Mutant: the client acknowledges the FILEDATA without writing it
CrDataNoWrite(c) ==
    /\ pc[c] = "cr_data" /\ CanRun(c) /\ HasMail(c)
    /\ conn' = Got(c)
    /\ IF In(c).type /= "FILEDATA" \/ In(c).size /= fsz[c]
       THEN boxes' = Taken(c) /\ Fail(c) /\ UNCHANGED pc
       ELSE Answer(c, "OK", 0) /\ Go(c, "cr_conf") /\ UNCHANGED down
    /\ UNCHANGED <<used, files, srvVars, local>>

CrData(c) ==
    /\ pc[c] = "cr_data" /\ CanRun(c) /\ HasMail(c)
    /\ conn' = Got(c)
    /\ IF In(c).type /= "FILEDATA" \/ In(c).size /= fsz[c]
       THEN boxes' = Taken(c) /\ Fail(c) /\ UNCHANGED <<pc, fs>>
       ELSE /\ fs' = [fs EXCEPT ![Home[c]][nm[c]] = In(c).data]
            /\ Answer(c, "OK", 0) /\ Go(c, "cr_conf")
            /\ UNCHANGED down
    /\ UNCHANGED <<used, opened, srvVars, local>>

\* ERROR: CloseFile and RemoveFile; OK: CloseFile, and true
CrConf(c) ==
    /\ pc[c] = "cr_conf" /\ CanRun(c) /\ HasMail(c)
    /\ Confirmed(c, boxes' = Taken(c) /\ Go(c, "cr_close") /\ UNCHANGED nxt,
                 "close_rm", "c_disc")
    /\ UNCHANGED <<used, files, srvVars, ip, nm, fsz, buf, ok>>

CrClose(c) ==
    /\ pc[c] = "cr_close" /\ CanRun(c)
    /\ opened' = [opened EXCEPT ![Home[c]] = @ \ {nm[c]}]
    /\ ok' = [ok EXCEPT ![c] = @ \cup {ip[c]}]
    /\ Go(c, "c_disc")
    /\ UNCHANGED <<net, fs, srvVars, down, conn, nxt, ip, nm, fsz, buf>>

\* Client::Disconnect: ASSERT(conn != NULL), send DISCONNECT, the answer
\* must be DISCONNECT, then PostOffice::Disconnect; the call returns
CDisc(c) ==
    /\ pc[c] = "c_disc" /\ CanRun(c)
    /\ IF conn[c] = None
       THEN Fail(c) /\ UNCHANGED <<pc, boxes>>
       ELSE Notify(c, "DISCONNECT", 0) /\ Go(c, "c_dans") /\ UNCHANGED down
    /\ UNCHANGED <<used, files, srvVars, conn, local>>

CDans(c) ==
    /\ pc[c] = "c_dans" /\ CanRun(c) /\ HasMail(c)
    /\ conn' = Got(c)
    /\ IF In(c).type /= "DISCONNECT"
       THEN boxes' = Taken(c) /\ Fail(c) /\ UNCHANGED <<pc, nxt, ip>>
       ELSE /\ boxes' = Taken(c)
            /\ Then(c, "dc1", "c_start")
            /\ ip' = [ip EXCEPT ![c] = @ + 1]
            /\ UNCHANGED down
    /\ UNCHANGED <<used, files, srvVars, nm, fsz, buf, ok>>

(***************************************************************************)
(* The specification.                                                      *)
(***************************************************************************)

Init ==
    /\ used = [m \in Machines |-> {LISTEN_BOX}]
    /\ boxes = [m \in Machines |-> [b \in Boxes |-> <<>>]]
    /\ fs = InitFiles
    /\ opened = [m \in Machines |-> {}]
    /\ clientMap = {Server}
    /\ nbClients = 0
    /\ down = [m \in Machines |-> "up"]
    /\ pc = [t \in Threads |-> CASE t = Srv -> "listen"
                                 [] t \in Handlers -> "unborn"
                                 [] OTHER -> "c_start"]
    /\ nxt = [t \in Threads |-> "done"]
    /\ conn = [t \in Threads |-> None]
    /\ ip = [c \in Clients |-> 1]
    /\ nm = [t \in Threads |-> None]
    /\ fsz = [t \in Threads |-> 0]
    /\ buf = [t \in Threads |-> None]
    /\ ok = [c \in Clients |-> {}]

SrvStep == ListenStart \/ ListenAccept \/ Accept \/ DcDrain(Srv) \/ DcFree(Srv)

HandlerStep(h) ==
    \/ HNotifyOk(h) \/ HRecv(h) \/ HClientDisconnect(h)
    \/ SfSize(h) \/ SfOpen(h) \/ SfRead(h) \/ SfConf1(h) \/ SfConf2(h)
    \/ SfClose(h)
    \/ RfCreate(h) \/ RfOpen(h) \/ RfConf1(h) \/ RfData(h) \/ RfConf2(h)
    \/ Cleanup(h) \/ DcDrain(h) \/ DcFree(h)

ClientStep(c) ==
    \/ CStart(c) \/ CConn(c) \/ CAns(c) \/ CReq(c) \/ CConf(c)
    \/ CsSize(c) \/ CsOpen(c) \/ CsRead(c) \/ CsData(c) \/ CsConf(c)
    \/ CsClose(c)
    \/ CrCreate(c) \/ CrOpen(c) \/ CrData(c) \/ CrConf(c) \/ CrClose(c)
    \/ CDisc(c) \/ CDans(c) \/ Cleanup(c) \/ DcDrain(c) \/ DcFree(c)

\* Every user program has returned (or its machine stopped); the server
\* sleeps on LISTEN_BOX for ever
Idle ==
    /\ \A c \in Clients : pc[c] = "done" \/ down[Home[c]] /= "up"
    /\ UNCHANGED vars

Next == SrvStep \/ (\E h \in Handlers : HandlerStep(h))
                \/ (\E c \in Clients : ClientStep(c)) \/ Idle

\* Each machine has its own CPU and a thread that is not asleep runs; the
\* DISCONNECT_TEMPO timer keeps signalling disconnectCond
Fairness == /\ WF_vars(SrvStep)
            /\ \A h \in Handlers : WF_vars(HandlerStep(h))
            /\ \A c \in Clients : WF_vars(ClientStep(c))

Spec == Init /\ [][Next]_vars /\ Fairness

(***************************************************************************)
(* Properties.                                                             *)
(***************************************************************************)

TypeOK ==
    /\ used \in [Machines -> SUBSET Boxes]
    /\ boxes \in [Machines -> [Boxes -> Seq(Msg)]]
    /\ fs \in [Machines -> [Names -> Contents \cup {None}]]
    /\ opened \in [Machines -> SUBSET Names]
    /\ clientMap \subseteq Machines
    /\ nbClients \in 0 .. MAXCLIENTS
    /\ down \in [Machines -> Status]
    /\ conn \in [Threads -> Conn \cup {None}]
    /\ \A c \in Clients : ip[c] \in 1 .. Len(Script[c]) + 1
    /\ ok \in [Clients -> SUBSET Nat]

\* No machine dies on an ASSERT of ftp.cc or of PostOffice::Listen/Connect:
\* every message a thread receives has the type its code expects
NoFault == \A m \in Machines : down[m] /= "assert"

\* usedBoxes stays true to the connections: LISTEN_BOX stays marked, and a
\* private box is marked exactly when one live Connection (or a Listen in
\* progress) of that machine owns it -- Disconnect frees the box its
\* connection received on, and nothing else
Owners(m, b) == {t \in Threads : Mach(t) = m /\ conn[t] /= None /\ conn[t].box = b}
BoxesOwned ==
    \A m \in Machines :
        /\ LISTEN_BOX \in used[m]
        /\ \A b \in Boxes \ {LISTEN_BOX} :
               Cardinality(Owners(m, b)) = IF b \in used[m] THEN 1 ELSE 0

\* A file holds data unless the ReceiveFile that created it is still
\* under way: the spec (4.7) has a failed WRITEFILE remove its partial file
Creating == {"rf_open", "rf_conf1", "rf_data", "cr_open", "cr_data",
             "close_rm", "rm"}
FilesComplete ==
    \A m \in Machines, n \in Names :
        fs[m][n] = Empty =>
            \E t \in Threads : Mach(t) = m /\ nm[t] = n /\ pc[t] \in Creating

\* A call that returned true left the same, non-empty contents under its
\* name on the client and on the server (the round trip of the spec, 8)
TransfersExact ==
    \A c \in Clients : \A i \in ok[c] :
        LET n == Script[c][i].name
        IN  fs[Home[c]][n] \in Data /\ fs[Server][n] = fs[Home[c]][n]

\* Every FTPClientAction of every user program returns
ClientsFinish == \A c \in Clients : <>(pc[c] = "done" \/ down[Home[c]] /= "up")

(***************************************************************************)
(* Refinement of FtpTransfer.  A file is hidden while the ReceiveFile that *)
(* created it is under way, and an empty file is no file.  A 'w' makes its *)
(* copy when the handler takes the client's last OK (RfConf2), an 'r' when *)
(* the client takes the server's last OK (CrConf); the call returns when   *)
(* the client takes the DISCONNECT answer (CDans).                         *)
(***************************************************************************)
Writing == {"rf_open", "rf_conf1", "rf_data", "rf_conf2", "cr_open",
            "cr_data", "cr_conf", "close_rm", "rm"}
Visible(m, n) ==
    IF /\ fs[m][n] \in Data
       /\ ~\E t \in Threads : Mach(t) = m /\ nm[t] = n /\ pc[t] \in Writing
    THEN fs[m][n] ELSE None

\* The current call of c has made its copy: it returned true and, for a
\* 'w', its handler has taken the last OK
Did(c) ==
    /\ ip[c] <= Len(Script[c])
    /\ \/ pc[c] = "cr_close"
       \/ /\ ip[c] \in ok[c]
          /\ ~\E h \in Handlers : /\ pc[h] = "rf_conf2" /\ conn[h] /= None
                                  /\ conn[h].peer = Home[c]

Abstract == INSTANCE FtpTransfer WITH
                files <- [m \in Machines |-> [n \in Names |-> Visible(m, n)]],
                did <- [c \in Clients |-> Did(c)]

\* Every behaviour of the FTP code is one of FtpTransfer: each call copies
\* one whole file at one instant, or changes nothing that can be seen
Refines == Abstract!Spec

====
