------------------------- MODULE MCFileSystemCalls --------------------------
(***************************************************************************)
(* User programs for FileSystemCalls, written as the test programs of      *)
(* test/FileSys are: main creates and opens "Test", forks threads that     *)
(* share the descriptor, and each thread makes a short list of calls.      *)
(***************************************************************************)
EXTENDS FileSystemCalls

CONSTANTS main, w, c, o, r, a, b, fd, g

Cr(n) == [op |-> "Create", name |-> n]
Rm(n) == [op |-> "Remove", name |-> n]
Op(n, v) == [op |-> "Open", name |-> n, var |-> v]
Cl(v) == [op |-> "Close", var |-> v]
IfOpen(call) == [x \in DOMAIN call \cup {"ifOpen"} |->
                    IF x = "ifOpen" THEN call.var ELSE call[x]]
Wr(v, n) == [op |-> "Write", var |-> v, size |-> n]
Rd(v, n) == [op |-> "Read", var |-> v, size |-> n]
Sk(v, n) == [op |-> "Seek", var |-> v, n |-> n]
Fk(t) == [op |-> "Fork", thread |-> t]
Jn(t) == [op |-> "Join", thread |-> t]

(* OpenSim and a Remove: main keeps "Test" open while o opens it and c  *)
(* removes it; main then joins them, closes and removes it.               *)
OpenRemove ==
    [t \in {main, w, c, o} |->
        CASE t = main -> <<Cr(a), Op(a, fd), Fk(o), Fk(c), IfOpen(Wr(fd, 1)), Jn(o), Jn(c),
                            IfOpen(Sk(fd, 1)), IfOpen(Rd(fd, 1)), IfOpen(Cl(fd)), Rm(a)>>
          [] t = o -> <<Op(a, g), IfOpen(Wr(g, 1)), IfOpen(Cl(g))>>
          [] t = c -> <<Rm(a), Cr(b)>>
          [] t = w -> <<>>]

(* test/FileSys/WriteCloseSim.c: a writer looping on Write(fd) (twice    *)
(* here) and a closer of fd; main joins both, opens "Test" again and      *)
(* reads it back.                                                          *)
WriteCloseSim ==
    [t \in {main, w, c, o} |->
        CASE t = main -> <<Cr(a), Op(a, fd), Fk(w), Fk(c), Jn(w), Jn(c),
                            Op(a, fd), IfOpen(Rd(fd, 1)), IfOpen(Rd(fd, 1)), IfOpen(Cl(fd))>>
          [] t = w -> <<Wr(fd, 1), Wr(fd, 1)>>
          [] t = c -> <<Cl(fd)>>
          [] t = o -> <<>>]

(* The two programs one after the other: WriteCloseSim, then OpenSim and *)
(* a Remove on the "Test" it left, with the fresh threads o and r.        *)
FileSysSims ==
    [t \in {main, w, c, o, r} |->
        CASE t = main -> WriteCloseSim[main]
                         \o <<Op(a, fd), Fk(o), Fk(r), IfOpen(Wr(fd, 1)), Jn(o), Jn(r),
                              IfOpen(Sk(fd, 1)), IfOpen(Rd(fd, 1)), IfOpen(Cl(fd)), Rm(a)>>
          [] t = o -> OpenRemove[o]
          [] t = r -> OpenRemove[c]
          [] t \in {w, c} -> WriteCloseSim[t]]

(* Two writers and a closer of one descriptor, forked writer, closer,     *)
(* writer.                                                                 *)
TwoWriters ==
    [t \in {main, w, c, o} |->
        CASE t = main -> <<Cr(a), Op(a, fd), Fk(w), Fk(c), Fk(o)>>
          [] t = w -> <<Wr(fd, 1)>>
          [] t = c -> <<Cl(fd)>>
          [] t = o -> <<Wr(fd, 1)>>]

(* Each thread uses its own descriptor; two Opens and a Remove of "Test" *)
(* race, as OpenSim and RemoveSim do under -rs.                           *)
OwnFds ==
    [t \in {main, w, c, o} |->
        CASE t = main -> <<Cr(a), Fk(w), Fk(c), Fk(o)>>
          [] t = w -> <<Op(a, fd), IfOpen(Wr(fd, 1)), IfOpen(Sk(fd, 1)), IfOpen(Cl(fd))>>
          [] t = c -> <<Rm(a), Cr(b)>>
          [] t = o -> <<Op(a, g), IfOpen(Cl(g))>>]

(* Two Opens of "Test" race, with Create and Remove of another name. *)
OpenOpenRs ==
    [t \in {main, w, c, o} |->
        CASE t = main -> <<Cr(a), Fk(w), Fk(c), Fk(o)>>
          [] t = w -> <<Op(a, fd), IfOpen(Cl(fd))>>
          [] t = c -> <<Cr(b), Rm(b)>>
          [] t = o -> <<Op(a, g), IfOpen(Cl(g))>>]

(* Seek on a file just created by SC_Create, whose size is 0. *)
SeekEmpty ==
    [t \in {main, w, c, o} |->
        IF t = main THEN <<Cr(a), Op(a, fd), Sk(fd, 1), Cl(fd)>> ELSE <<>>]

(* Close of the -1 a failed Open returned. *)
CloseFailedOpen ==
    [t \in {main, w, c, o} |->
        IF t = main THEN <<Op(a, fd), Cl(fd)>> ELSE <<>>]
=============================================================================
