------------------------------ MODULE MCFtp ------------------------------
(***************************************************************************)
(* User programs for Ftp: on each client machine a program that calls      *)
(* Sendfile ('w') or Receivefile ('r'), as test/ftp*.c do, against a       *)
(* server machine S running startFTPserver.                                *)
(***************************************************************************)
EXTENDS Ftp

CONSTANTS S, m1, m2, f, g, a, b, srv, h1, h2

W(n) == [rw |-> "w", name |-> n]
R(n) == [rw |-> "r", name |-> n]

(* Two machines at once: m1 uploads f, which the server lacks, while m2 *)
(* downloads g, which only the server has.                              *)
TransfersHome == [c \in Clients |-> IF c = "c1" THEN m1 ELSE m2]
TransfersScript == [c \in Clients |-> IF c = "c1" THEN <<W(f)>> ELSE <<R(g)>>]
TransfersFiles ==
    [m \in Machines |-> [n \in Names |->
        CASE m = S /\ n = g -> a
          [] m = m1 /\ n = f -> b
          [] OTHER -> None]]

(* m2 downloads f while m1 is uploading it: ftptest-style reader and    *)
(* writer of one name on two machines.                                  *)
RaceScript == [c \in Clients |-> IF c = "c1" THEN <<W(f)>> ELSE <<R(f)>>]

(* Two threads (or two processes) of the program on m1 call Sendfile   *)
(* and Receivefile at the same time.                                    *)
SameHome == [c \in Clients |-> m1]

(* One program on m1 that uploads f and then downloads g: its second   *)
(* Connect follows its first Disconnect.                                *)
ReconnectScript == [c \in Clients |-> <<W(f), R(g)>>]

====
