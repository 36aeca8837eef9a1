---------------------------- MODULE ShmPingPong ----------------------------
(***************************************************************************)
(* 10_shared_memory: the server and the client pass one message buffer   *)
(* back and forth.  After the file name, the server answers with the      *)
(* file's chunks, one per hand-off (sem_signal(clisem), then              *)
(* sem_wait(servsem) until the client has written it out), or with an     *)
(* error message, and finally with a message of length 0.                  *)
(***************************************************************************)
EXTENDS ShmCommon

ASSUME NBUFF = 1

vars == <<libvars, pvars>>

Init ==
  /\ ShmInit
  /\ pc = [q \in Procs |-> IF q = srv THEN "s_shmget" ELSE "c_shmget"]

\* the one buffer
mesg == buf[0]

\* server.c:85-96: the file cannot be opened: append the error text to
\* the name, hand the buffer back and wait for the client to write it out
SOpen ==
  /\ pc[srv] = "s_open"
  /\ file = NOENT
  /\ buf' = [buf EXCEPT ![0] = Msg("err", 0)]
  /\ SemOp(srv, SEMKEY1, 1, "s_errwait")
  /\ UNCHANGED <<shm, file, nread, out, semid>>

SErrWait ==
  /\ pc[srv] = "s_errwait"
  /\ SemOp(srv, SEMKEY2, -1, "s_end")
  /\ UNCHANGED pvars

\* Mutation variant: the read loop runs once past the end of the file
SReadPastEof ==
  /\ \/ pc[srv] = "s_open" /\ file # NOENT
     \/ pc[srv] = "s_read"
  /\ \/ /\ nread <= file
        /\ nread' = nread + 1
        /\ buf' = [buf EXCEPT ![0] = Msg("data", nread + 1)]
        /\ SemOp(srv, SEMKEY1, 1, "s_rwait")
        /\ UNCHANGED <<shm, file, out, semid>>
     \/ /\ nread = file
        /\ Goto(srv, "s_end")
        /\ LibSame
        /\ UNCHANGED pvars

\* server.c:102-111: read the next chunk straight into the buffer and hand
\* it over; at end of file go on to the end message; a read error is
\* err_sys
SRead ==
  /\ \/ pc[srv] = "s_open" /\ file # NOENT
     \/ pc[srv] = "s_read"
  /\ \/ /\ nread < file
        /\ nread' = nread + 1
        /\ buf' = [buf EXCEPT ![0] = Msg("data", nread + 1)]
        /\ SemOp(srv, SEMKEY1, 1, "s_rwait")
        /\ UNCHANGED <<shm, file, out, semid>>
     \/ /\ nread = file
        /\ Goto(srv, "s_end")
        /\ LibSame
        /\ UNCHANGED pvars
     \/ /\ IOFail
        /\ Fail(srv, "server: read error")
        /\ UNCHANGED pvars

SRWait ==
  /\ pc[srv] = "s_rwait"
  /\ SemOp(srv, SEMKEY2, -1, "s_read")
  /\ UNCHANGED pvars

\* server.c:118-119: a message of length 0 signifies the end
SEnd ==
  /\ pc[srv] = "s_end"
  /\ buf' = [buf EXCEPT ![0] = Msg("end", 0)]
  /\ SemOp(srv, SEMKEY1, 1, "s_shmdt")
  /\ UNCHANGED <<shm, file, nread, out, semid>>

\* server.c:61-70: shmdt, then sem_close(clisem) at once
SShmdt ==
  /\ pc[srv] = "s_shmdt"
  /\ SemClose(srv, SEMKEY1, "s_close2")
  /\ UNCHANGED pvars

\* client.c:87 and 94: wait for the server to fill the buffer
CWait ==
  /\ pc[cli] = "c_wait"
  /\ SemOp(cli, SEMKEY1, -1, "c_loop")
  /\ UNCHANGED pvars

\* Mutation variants: the client's sem_wait(clisem) at the bottom of the
\* loop left out, and its sem_signal(servsem) left out
CLoopNoWait ==
  /\ pc[cli] = "c_loop"
  /\ \/ /\ mesg.kind # "end"
        /\ out' = Append(out, mesg)
        /\ SemOp(cli, SEMKEY2, 1, "c_loop")
        /\ UNCHANGED <<shm, buf, file, nread, semid>>
     \/ /\ mesg.kind = "end"
        /\ CDone

CLoopNoSignal ==
  /\ pc[cli] = "c_loop"
  /\ \/ /\ mesg.kind # "end"
        /\ out' = Append(out, mesg)
        /\ Goto(cli, "c_wait")
        /\ LibSame
        /\ UNCHANGED <<shm, buf, file, nread, semid>>
     \/ /\ mesg.kind = "end"
        /\ CDone

\* client.c:89-95: a message of positive length is written to stdout (a
\* short write is err_sys) and the buffer handed back; length 0 ends the
\* loop (client.c:46-58)
CLoop ==
  /\ pc[cli] = "c_loop"
  /\ \/ /\ mesg.kind # "end"
        /\ out' = Append(out, mesg)
        /\ SemOp(cli, SEMKEY2, 1, "c_wait")
        /\ UNCHANGED <<shm, buf, file, nread, semid>>
     \/ /\ mesg.kind # "end" /\ IOFail
        /\ Fail(cli, "data write error")
        /\ UNCHANGED pvars
     \/ /\ mesg.kind = "end"
        /\ CDone

Server ==
  \/ SShmget \/ SCreate2 \/ SServer \/ SOpen \/ SErrWait \/ SRead \/ SRWait
  \/ SEnd \/ SShmdt

Client ==
  \/ CShmget \/ COpen2 \/ CClient \/ CName("c_wait") \/ CWait \/ CLoop

Proc(p) ==
  \/ LibStep(p) /\ UNCHANGED pvars
  \/ p = srv /\ Server
  \/ p = cli /\ Client
  \/ Close2(p)
  \/ PExit(p)

Next == \E p \in Procs : Proc(p)

\* both programs run until they exit; a sleeper is woken once it can go on
Spec == Init /\ [][Next]_vars /\ \A p \in Procs : WF_vars(Proc(p))

TypeOK == ShmTypeOK

=============================================================================
