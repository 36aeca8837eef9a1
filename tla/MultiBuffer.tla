---------------------------- MODULE MultiBuffer ----------------------------
(***************************************************************************)
(* 11_multi_buffer: the same client/server over NBUFF buffers used as a   *)
(* ring.  servsem counts the buffers free for the server, clisem those    *)
(* filled for the client.  After the file name the server signals servsem *)
(* NBUFF times, then fills buffer i with the next read and signals         *)
(* clisem, stopping after the read that returns 0.  The client empties    *)
(* buffers in the same order.  Before closing, the server busy-waits until *)
(* clisem reads 0, so that its exit's SEM_UNDO adjustment cannot take back *)
(* a signal the client has not consumed (client.c:30-44).                  *)
(***************************************************************************)
EXTENDS ShmCommon

ASSUME NBUFF >= 2

VARIABLES
  si,   \* the server's buffer index i
  ci    \* the client's buffer index i

vars == <<libvars, pvars, si, ci>>

Init ==
  /\ ShmInit
  /\ pc = [q \in Procs |-> IF q = srv THEN "s_shmget" ELSE "c_shmget"]
  /\ si = 0
  /\ ci = 0

Next1(i) == (i + 1) % NBUFF

\* server.c:117-128: the file cannot be opened: the error message in
\* buffer 0 for the client, then, once it has been written out, a message
\* of length 0 in buffer 1
SOpen ==
  /\ pc[srv] = "s_open"
  /\ file = NOENT
  /\ buf' = [buf EXCEPT ![0] = Msg("err", 0)]
  /\ SemOp(srv, SEMKEY1, 1, "s_errwait")
  /\ UNCHANGED <<shm, file, nread, out, semid, si, ci>>

SErrWait ==
  /\ pc[srv] = "s_errwait"
  /\ SemOp(srv, SEMKEY2, -1, "s_errend")
  /\ UNCHANGED <<pvars, si, ci>>

SErrEnd ==
  /\ pc[srv] = "s_errend"
  /\ buf' = [buf EXCEPT ![1] = Msg("end", 0)]
  /\ SemOp(srv, SEMKEY1, 1, "s_spin")
  /\ UNCHANGED <<shm, file, nread, out, semid, si, ci>>

\* Mutation variant: one sem_signal(servsem) too many
SInitOffByOne ==
  /\ \/ pc[srv] = "s_open" /\ file # NOENT
     \/ pc[srv] = "s_init"
  /\ \/ /\ si <= NBUFF
        /\ si' = si + 1
        /\ SemOp(srv, SEMKEY2, 1, "s_init")
        /\ UNCHANGED <<pvars, ci>>
     \/ /\ si = NBUFF + 1
        /\ si' = 0
        /\ Goto(srv, "s_loop")
        /\ LibSame
        /\ UNCHANGED <<pvars, ci>>

\* server.c:137-139: the file is open: sem_signal(servsem) once per buffer
SInit ==
  /\ \/ pc[srv] = "s_open" /\ file # NOENT
     \/ pc[srv] = "s_init"
  /\ \/ /\ si < NBUFF
        /\ si' = si + 1
        /\ SemOp(srv, SEMKEY2, 1, "s_init")
        /\ UNCHANGED <<pvars, ci>>
     \/ /\ si = NBUFF
        /\ si' = 0
        /\ Goto(srv, "s_loop")
        /\ LibSame
        /\ UNCHANGED <<pvars, ci>>

\* server.c:150-152: wait for a free buffer
SLoop ==
  /\ pc[srv] = "s_loop"
  /\ SemOp(srv, SEMKEY2, -1, "s_fill")
  /\ UNCHANGED <<pvars, si, ci>>

\* Mutation variant: the loop reads once past the end of the file
SFillPastEof ==
  /\ pc[srv] = "s_fill"
  /\ \/ /\ nread <= file
        /\ nread' = nread + 1
        /\ buf' = [buf EXCEPT ![si] = Msg("data", nread + 1)]
        /\ si' = Next1(si)
        /\ SemOp(srv, SEMKEY1, 1, "s_loop")
        /\ UNCHANGED <<shm, file, out, semid, ci>>
     \/ /\ nread = file
        /\ buf' = [buf EXCEPT ![si] = Msg("end", 0)]
        /\ SemOp(srv, SEMKEY1, 1, "s_spin")
        /\ UNCHANGED <<shm, file, nread, out, semid, si, ci>>

\* server.c:157-165: read into buffer i (a read error is err_sys) and
\* signal clisem; the read that returns 0 leaves a message of length 0 and
\* ends server() (server.c:169-171: close the file), after which main
\* detaches the buffers (server.c:66-70) and busy-waits
SFill ==
  /\ pc[srv] = "s_fill"
  /\ \/ /\ nread < file
        /\ nread' = nread + 1
        /\ buf' = [buf EXCEPT ![si] = Msg("data", nread + 1)]
        /\ si' = Next1(si)
        /\ SemOp(srv, SEMKEY1, 1, "s_loop")
        /\ UNCHANGED <<shm, file, out, semid, ci>>
     \/ /\ nread = file
        /\ buf' = [buf EXCEPT ![si] = Msg("end", 0)]
        /\ SemOp(srv, SEMKEY1, 1, "s_spin")
        /\ UNCHANGED <<shm, file, nread, out, semid, si, ci>>
     \/ /\ IOFail
        /\ Fail(srv, "server: read error")
        /\ UNCHANGED <<pvars, si, ci>>

\* semctl(clisem, 0, GETVAL): -1 once the set is gone
ClisemVal ==
  IF live[SEMKEY1] /\ ids[SEMKEY1] = semid[srv][SEMKEY1]
  THEN semval[SEMKEY1][0] ELSE -1

\* Mutation variant: the busy-wait left out (as in 10_shared_memory)
SSpinNone ==
  /\ pc[srv] = "s_spin"
  /\ SemClose(srv, SEMKEY1, "s_close2")
  /\ UNCHANGED <<pvars, si, ci>>

\* server.c:77-81: spin until clisem reads 0, then sem_close(clisem)
SSpin ==
  /\ pc[srv] = "s_spin"
  /\ \/ /\ ClisemVal # 0
        /\ UNCHANGED vars
     \/ /\ ClisemVal = 0
        /\ SemClose(srv, SEMKEY1, "s_close2")
        /\ UNCHANGED <<pvars, si, ci>>

\* client.c:146-148: wait for a filled buffer
CLoop ==
  /\ pc[cli] = "c_loop"
  /\ SemOp(cli, SEMKEY1, -1, "c_read")
  /\ UNCHANGED <<pvars, si, ci>>

\* client.c:149-160: a message of length 0 ends the loop (then
\* client.c:84-98: detach and remove the buffers, sem_close(clisem));
\* otherwise write it out (a short write is err_sys) and free the buffer
CRead ==
  /\ pc[cli] = "c_read"
  /\ \/ /\ buf[ci].kind = "end"
        /\ CDone
        /\ UNCHANGED <<si, ci>>
     \/ /\ buf[ci].kind # "end"
        /\ out' = Append(out, buf[ci])
        /\ ci' = Next1(ci)
        /\ SemOp(cli, SEMKEY2, 1, "c_loop")
        /\ UNCHANGED <<shm, buf, file, nread, semid, si>>
     \/ /\ buf[ci].kind # "end" /\ IOFail
        /\ Fail(cli, "data write error")
        /\ UNCHANGED <<pvars, si, ci>>

Server ==
  \/ (SShmget \/ SCreate2 \/ SServer) /\ UNCHANGED <<si, ci>>
  \/ SOpen \/ SErrWait \/ SErrEnd \/ SInit \/ SLoop \/ SFill \/ SSpin

Client ==
  \/ (CShmget \/ COpen2 \/ CClient \/ CName("c_loop")) /\ UNCHANGED <<si, ci>>
  \/ CLoop \/ CRead

Proc(p) ==
  \/ LibStep(p) /\ UNCHANGED <<pvars, si, ci>>
  \/ p = srv /\ Server
  \/ p = cli /\ Client
  \/ Close2(p) /\ UNCHANGED <<si, ci>>
  \/ PExit(p) /\ UNCHANGED <<si, ci>>

Next == \E p \in Procs : Proc(p)

\* both programs run until they exit; a sleeper is woken once it can go on
Spec == Init /\ [][Next]_vars /\ \A p \in Procs : WF_vars(Proc(p))

TypeOK ==
  /\ ShmTypeOK
  /\ si \in 0..NBUFF /\ ci \in 0..NBUFF-1

=============================================================================
