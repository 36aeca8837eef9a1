----------------------------- MODULE ShmCommon -----------------------------
(***************************************************************************)
(* What the shared-memory client/server pairs of 10_shared_memory and     *)
(* 11_multi_buffer have in common: the server creates the shm segments and *)
(* the semaphores clisem (SEMKEY1, value 1) and servsem (SEMKEY2, value 0),*)
(* the client attaches to the segments and opens both semaphores, takes   *)
(* clisem and writes the file name into buffer 0; the server waits for it, *)
(* and at the end each side closes both semaphores and exits.             *)
(*                                                                         *)
(* A buffer holds an abstract message [kind, n]: the file name, the name  *)
(* with ": can't open" appended ("err"), the n-th read of the file        *)
(* ("data"), or a message of length 0 ("end").  The file the client names *)
(* either does not exist (NOENT) or has 0..MaxChunks chunks.  The shm      *)
(* segments and the semaphores start absent.                               *)
(***************************************************************************)
EXTENDS SemLib

CONSTANTS
  srv, cli,      \* the server and the client process
  SEMKEY1,       \* clisem's key
  SEMKEY2,       \* servsem's key
  NBUFF,         \* number of shm buffers (1 in 10_shared_memory)
  MaxChunks,     \* the largest file the server can be asked for, in reads
  IOFail         \* fgets on stdin and read on the file may fail

ASSUME /\ Procs = {srv, cli} /\ Keys = {SEMKEY1, SEMKEY2}
       /\ NBUFF \in Nat \ {0} /\ MaxChunks \in Nat /\ IOFail \in BOOLEAN

VARIABLES
  shm,      \* the segments of SHMKEY..SHMKEY+NBUFF-1: "none", "live", "removed"
  buf,      \* buf[i]: the message in segment i
  file,     \* the file the server reads: NOENT or its number of chunks
  nread,    \* reads the server has made from the file
  out,      \* what the client has written to standard output
  semid     \* semid[p][k]: the semid p got for key k (its generation)

pvars == <<shm, buf, file, nread, out, semid>>

NOENT == -1

Msg(k, n) == [kind |-> k, n |-> n]

Mesgs == {Msg(k, 0) : k \in {"none", "name", "err", "end"}}
           \cup {Msg("data", c) : c \in 1..MaxChunks}

\* what the client must print: the file, or the server's error message
Expected == IF file = NOENT THEN <<Msg("err", 0)>>
            ELSE [c \in 1..file |-> Msg("data", c)]

ShmInit ==
  /\ LibInit
  /\ shm = "none"
  /\ buf = [b \in 0..NBUFF-1 |-> Msg("none", 0)]
  /\ file \in {NOENT} \cup 0..MaxChunks
  /\ nread = 0
  /\ out = <<>>
  /\ semid = [q \in Procs |-> [k \in Keys |-> NoId]]

\* a program step that touches neither the library frame nor the kernel
Goto(p, l) == pc' = [pc EXCEPT ![p] = l]

LibSame == UNCHANGED <<live, ids, semval, semadj, ret, key, iv, id, rd, opv,
                       blocked, err>>

\* what a call into the library made by the program leaves alone
CallSame == UNCHANGED <<live, ids, semval, semadj, rd, blocked, err>>

\* the semid p got from the call that just returned
Got(p, k) == semid' = [semid EXCEPT ![p][k] = id[p]]

\* sem_wait / sem_signal / sem_close on p's semaphore of key k
SemOp(p, k, v, r) == CallOp(p, k, semid[p][k], v, r) /\ UNCHANGED iv /\ CallSame

SemClose(p, k, r) ==
  CallClose(p, k, semid[p][k], r) /\ UNCHANGED <<iv, opv>> /\ CallSame

----------------------------------------------------------------------------
\* server.c (both): shmget(SHMKEY+i, IPC_CREAT) and shmat for every
\* buffer, then sem_create(clisem)
SShmget ==
  /\ pc[srv] = "s_shmget"
  /\ shm' = IF shm = "none" THEN "live" ELSE shm
  /\ CallCreate(srv, SEMKEY1, 1, "s_create2")
  /\ UNCHANGED <<opv, id>> /\ CallSame
  /\ UNCHANGED <<buf, file, nread, out, semid>>

\* a failed sem_create is err_sys; else keep the semid and go on
SCreated(k, next) ==
  \/ /\ id[srv] = NoId
     /\ Fail(srv, "server: can't create semaphore")
     /\ UNCHANGED pvars
  \/ /\ id[srv] # NoId
     /\ Got(srv, k)
     /\ next
     /\ UNCHANGED <<shm, buf, file, nread, out>>

SCreate2 ==
  /\ pc[srv] = "s_create2"
  /\ SCreated(SEMKEY1, CallCreate(srv, SEMKEY2, 0, "s_server")
                       /\ UNCHANGED <<opv, id>> /\ CallSame)

\* server(): wait for the client's file name (servsem is the semid just got)
SServer ==
  /\ pc[srv] = "s_server"
  /\ SCreated(SEMKEY2, CallOp(srv, SEMKEY2, id[srv], -1, "s_open")
                       /\ UNCHANGED iv /\ CallSame)

\* client.c (both): shmget(SHMKEY+i, 0) and shmat for every buffer (the
\* server must have created them), then sem_open(clisem)
CShmget ==
  /\ pc[cli] = "c_shmget"
  /\ \/ /\ shm # "live"
        /\ Fail(cli, "client: can't get shared memory segment")
     \/ /\ shm = "live"
        /\ CallOpen(cli, SEMKEY1, "c_open2")
        /\ UNCHANGED <<iv, opv, id>> /\ CallSame
  /\ UNCHANGED pvars

\* a failed sem_open is err_sys; else keep the semid and go on
COpened(k, next) ==
  \/ /\ id[cli] = NoId
     /\ Fail(cli, "client: can't open semaphore")
     /\ UNCHANGED pvars
  \/ /\ id[cli] # NoId
     /\ Got(cli, k)
     /\ next
     /\ UNCHANGED <<shm, buf, file, nread, out>>

COpen2 ==
  /\ pc[cli] = "c_open2"
  /\ COpened(SEMKEY1, CallOpen(cli, SEMKEY2, "c_client")
                      /\ UNCHANGED <<iv, opv, id>> /\ CallSame)

\* client(): take clisem before writing into buffer 0
CClient ==
  /\ pc[cli] = "c_client"
  /\ COpened(SEMKEY2, SemOp(cli, SEMKEY1, -1, "c_name"))

\* fgets the file name into buffer 0 (EOF is err_sys) and wake the server;
\* the client goes on at r
CName(r) ==
  /\ pc[cli] = "c_name"
  /\ \/ /\ buf' = [buf EXCEPT ![0] = Msg("name", 0)]
        /\ SemOp(cli, SEMKEY2, 1, r)
        /\ UNCHANGED <<shm, file, nread, out, semid>>
     \/ /\ IOFail
        /\ Fail(cli, "filename read error")
        /\ UNCHANGED pvars

\* the client leaves its loop: shmdt and shmctl(IPC_RMID) for every
\* buffer, then sem_close(clisem)
CDone ==
  /\ shm' = "removed"
  /\ SemClose(cli, SEMKEY1, "c_close2")
  /\ UNCHANGED <<buf, file, nread, out, semid>>

\* sem_close(servsem) of either side
Close2(p) ==
  /\ pc[p] \in {"s_close2", "c_close2"}
  /\ SemClose(p, SEMKEY2, IF p = srv THEN "s_exit" ELSE "c_exit")
  /\ UNCHANGED pvars

\* exit(EXIT_SUCCESS) / return from main
PExit(p) ==
  /\ pc[p] \in {"s_exit", "c_exit"}
  /\ ExitProc(p)
  /\ UNCHANGED <<live, ids, ret, key, iv, id, rd, opv, err>>
  /\ UNCHANGED pvars

ShmTypeOK ==
  /\ shm \in {"none", "live", "removed"}
  /\ buf \in [0..NBUFF-1 -> Mesgs]
  /\ file \in {NOENT} \cup 0..MaxChunks
  /\ nread \in 0..MaxChunks + 1
  /\ out \in Seq(Mesgs)
  /\ semid \in [Procs -> [Keys -> {NoId} \cup 1..MaxSets]]

(***************************************************************************)
(* The client prints the server's answer in order, each message once:     *)
(* what it has written is always a prefix of the file (or of the error    *)
(* message), and once it has left its loop it has written all of it.      *)
(* Only the clisem/servsem hand-offs keep the server from overwriting a   *)
(* buffer the client has not written out yet, and the client from reading *)
(* a buffer twice or before it is filled.                                  *)
(***************************************************************************)
OutputIsFile ==
  /\ IsPrefix(out, Expected)
  /\ pc[cli] \in {"c_close2", "c_exit"} => out = Expected

(***************************************************************************)
(* Once the client holds both semaphores, the server runs to its exit:    *)
(* every hand-off it waits for is eventually made, unless the client dies *)
(* in an err_sys (an fgets or write error), which leaves the server asleep *)
(* in sem_wait(servsem) for good.                                          *)
(***************************************************************************)
ServerFinishes ==
  semid[cli][SEMKEY2] # NoId ~> (pc[srv] = "exited" \/ err[cli] # "none")

(***************************************************************************)
(* Once the client holds both semaphores it also runs to its exit, unless *)
(* the server dies of a read error: the server's last sem_signal(clisem)  *)
(* reaches it, even though the server closes and exits right after        *)
(* sending it.                                                             *)
(***************************************************************************)
ClientFinishes ==
  semid[cli][SEMKEY2] # NoId ~> (pc[cli] = "exited" \/ err[srv] # "none")

=============================================================================
