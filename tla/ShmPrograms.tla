---------------------------- MODULE ShmPrograms ----------------------------
(***************************************************************************)
(* The two shared-memory client/server pairs of chapter 3 checked side by *)
(* side: a behaviour runs either 10_shared_memory (ShmPingPong, one       *)
(* buffer) or 11_multi_buffer (MultiBuffer, two buffers as a ring), chosen *)
(* at Init.  Both pairs use the same semaphore library, the same keys and *)
(* the same file protocol, so they share the variables of ShmCommon; the  *)
(* ring indices si and ci belong to the multi-buffer pair alone.           *)
(***************************************************************************)
EXTENDS Integers

CONSTANTS srv, cli, Procs, Keys, SEMKEY1, SEMKEY2, BIGCOUNT, MaxSets,
          MaxChunks, IOFail

VARIABLES live, ids, semval, semadj, pc, ret, key, iv, id, rd, opv, blocked,
          err, shm, buf, file, nread, out, semid, si, ci,
          prog      \* the pair of programs running: "pp" or "mb"

vars == <<live, ids, semval, semadj, pc, ret, key, iv, id, rd, opv, blocked,
          err, shm, buf, file, nread, out, semid, si, ci, prog>>

PP == INSTANCE ShmPingPong WITH NBUFF <- 1
MB == INSTANCE MultiBuffer WITH NBUFF <- 2

Init ==
  \/ prog = "pp" /\ PP!Init /\ si = 0 /\ ci = 0
  \/ prog = "mb" /\ MB!Init

\* a step of process p of the running pair
Step(p) ==
  \/ prog = "pp" /\ PP!Proc(p) /\ UNCHANGED <<si, ci, prog>>
  \/ prog = "mb" /\ MB!Proc(p) /\ UNCHANGED prog

Next == \E p \in Procs : Step(p)

\* each pair's own fairness: both programs run until they exit
Spec == Init /\ [][Next]_vars /\ \A p \in Procs : WF_vars(Step(p))

----------------------------------------------------------------------------
TypeOK ==
  /\ prog \in {"pp", "mb"}
  /\ prog = "pp" => PP!TypeOK /\ si = 0 /\ ci = 0
  /\ prog = "mb" => MB!TypeOK

(***************************************************************************)
(* Whichever pair runs, the client prints the server's answer in order,   *)
(* each message once, and all of it once it leaves its loop (ShmCommon's  *)
(* OutputIsFile): the one-buffer ping-pong and the two-buffer ring hand   *)
(* the file over through clisem/servsem without loss or repetition.       *)
(***************************************************************************)
OutputIsFile == PP!OutputIsFile

(***************************************************************************)
(* In 10_shared_memory, once the client holds both semaphores the server  *)
(* runs to its exit unless the client died in err_sys (ShmCommon's        *)
(* ServerFinishes).                                                        *)
(***************************************************************************)
PingPongServerFinishes ==
  (prog = "pp" /\ semid[cli][SEMKEY2] # PP!NoId)
    ~> (pc[srv] = "exited" \/ err[cli] # "none")

(***************************************************************************)
(* In 11_multi_buffer, once the client holds both semaphores it runs to   *)
(* its exit unless the server died of a read error: the busy-wait for      *)
(* clisem == 0 (server.c:77) keeps the server's exit undo from taking     *)
(* back a signal the client still needs (ShmCommon's ClientFinishes).     *)
(***************************************************************************)
MultiBufClientFinishes ==
  (prog = "mb" /\ semid[cli][SEMKEY2] # MB!NoId)
    ~> (pc[cli] = "exited" \/ err[srv] # "none")

============================================================================
