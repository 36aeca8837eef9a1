----------------------------- MODULE SeqnoMain -----------------------------
(***************************************************************************)
(* 9_semaphores/main.c run by several processes at once: each process      *)
(* gets the semaphore of SEMKEY with initial value 1, then Iters times     *)
(* takes it with sem_wait, reads the sequence number from the file seqno,  *)
(* writes it back incremented and releases it with sem_signal; finally it  *)
(* calls sem_close and exits.  Any process may be killed at any step.      *)
(*                                                                         *)
(* Entry says how a process gets the semaphore: "create" is main.c's       *)
(* sem_create(SEMKEY, 1); "open" is sem_open(SEMKEY), the call semaphore.h *)
(* prescribes for a process that knows the semaphore already exists (as   *)
(* 10_shared_memory/client.c does).                                        *)
(***************************************************************************)
EXTENDS SemLib

CONSTANTS
  SEMKEY,     \* the key of main.c
  Iters,      \* iterations of main.c's loop (20 in the code)
  Entry,      \* subset of {"create", "open"}
  CanCrash    \* processes may be killed at any step

ASSUME /\ SEMKEY \in Keys
       /\ Iters \in Nat \ {0}
       /\ Entry \subseteq {"create", "open"} /\ Entry # {}
       /\ CanCrash \in BOOLEAN

VARIABLES
  seqno,   \* the number stored in the file seqno
  seq,     \* seq[p]: main.c's local seqno (the number read from the file)
  i        \* i[p]: main.c's loop counter

vars == <<libvars, seqno, seq, i>>

(***************************************************************************)
(* The file holds sprintf("%03d\n", n); reading it back with sscanf("%d") *)
(* yields n for every n >= 0 (a wider number is printed in full, and at   *)
(* most 4 characters of MAXBUFF = 100 are used), and the new text is      *)
(* never shorter than the old, so no stale digit survives the rewrite:    *)
(* the file is modelled by the number it holds.                            *)
(***************************************************************************)
ProgPcs == {"m_start", "m_opened", "m_loop", "m_read", "m_write", "m_exit"}

Init ==
  /\ LibInit
  /\ pc = [q \in Procs |-> "m_start"]
  /\ seqno = 0
  /\ seq = [q \in Procs |-> 0]
  /\ i = [q \in Procs |-> 0]

\* main.c:25-27: get the semaphore
Start(p) ==
  /\ pc[p] = "m_start"
  /\ \/ "create" \in Entry /\ CallCreate(p, SEMKEY, 1, "m_opened")
        /\ UNCHANGED opv
     \/ "open" \in Entry /\ CallOpen(p, SEMKEY, "m_opened")
        /\ UNCHANGED <<iv, opv>>
  /\ UNCHANGED <<live, ids, semval, semadj, id, rd, blocked, err, seqno, seq, i>>

\* main.c:25-26: a failed sem_create is err_sys("can't open semaphore")
Opened(p) ==
  /\ pc[p] = "m_opened"
  /\ \/ /\ id[p] = NoId
        /\ Fail(p, "can't open semaphore")
        /\ UNCHANGED <<seqno, seq, i>>
     \/ /\ id[p] # NoId
        /\ pc' = [pc EXCEPT ![p] = "m_loop"]
        /\ UNCHANGED <<live, ids, semval, semadj, ret, key, iv, id, rd, opv,
                       blocked, err, seqno, seq, i>>

\* Mutation variant: the loop bound off by one (i <= Iters)
LoopOffByOne(p) ==
  /\ pc[p] = "m_loop"
  /\ IF i[p] <= Iters
     THEN CallOp(p, key[p], id[p], -1, "m_read")
     ELSE CallClose(p, key[p], id[p], "m_exit") /\ UNCHANGED opv
  /\ UNCHANGED <<live, ids, semval, semadj, iv, rd, blocked, err, seqno,
                 seq, i>>

\* main.c:29-30 and 60: sem_wait at the top of each iteration, sem_close
\* after the last
Loop(p) ==
  /\ pc[p] = "m_loop"
  /\ IF i[p] < Iters
     THEN CallOp(p, key[p], id[p], -1, "m_read")
     ELSE CallClose(p, key[p], id[p], "m_exit") /\ UNCHANGED opv
  /\ UNCHANGED <<live, ids, semval, semadj, iv, rd, blocked, err, seqno,
                 seq, i>>

\* main.c:32-43: rewind, read and sscanf the sequence number
ReadSeq(p) ==
  /\ pc[p] = "m_read"
  /\ seq' = [seq EXCEPT ![p] = seqno]
  /\ pc' = [pc EXCEPT ![p] = "m_write"]
  /\ UNCHANGED <<live, ids, semval, semadj, ret, key, iv, id, rd, opv,
                 blocked, err, seqno, i>>

\* main.c:45-57: increment, rewind, write back, then sem_signal
WriteSeq(p) ==
  /\ pc[p] = "m_write"
  /\ seqno' = seq[p] + 1
  /\ i' = [i EXCEPT ![p] = @ + 1]
  /\ CallOp(p, key[p], id[p], 1, "m_loop")
  /\ UNCHANGED <<live, ids, semval, semadj, iv, rd, blocked, err, seq>>

\* main.c:62: exit(EXIT_SUCCESS)
Exit(p) ==
  /\ pc[p] = "m_exit"
  /\ ExitProc(p)
  /\ UNCHANGED <<live, ids, ret, key, iv, id, rd, opv, err, seqno, seq, i>>

\* the process is killed (SIGKILL or any fatal signal) at any step
Crash(p) ==
  /\ CanCrash
  /\ pc[p] # "exited"
  /\ ExitProc(p)
  /\ UNCHANGED <<live, ids, ret, key, iv, id, rd, opv, err, seqno, seq, i>>

Proc(p) ==
  \/ LibStep(p) /\ UNCHANGED <<seqno, seq, i>>
  \/ Start(p) \/ Opened(p) \/ Loop(p) \/ ReadSeq(p) \/ WriteSeq(p) \/ Exit(p)

\* all processes have exited: the run is over
Finished ==
  /\ \A p \in Procs : pc[p] = "exited"
  /\ UNCHANGED vars

Next ==
  \/ \E p \in Procs : Proc(p) \/ Crash(p)
  \/ Finished

(***************************************************************************)
(* Every process that is not killed keeps taking steps; a sleeper is woken *)
(* once its semop can proceed.  Each process runs a bounded number of      *)
(* iterations, so weak fairness suffices: no process can keep taking the   *)
(* semaphore away from a sleeper forever.                                  *)
(***************************************************************************)
Spec == Init /\ [][Next]_vars /\ \A p \in Procs : WF_vars(Proc(p))

----------------------------------------------------------------------------
(***************************************************************************)
(* Properties                                                              *)
(***************************************************************************)
TypeOK ==
  /\ live \in [Keys -> BOOLEAN]
  /\ ids \in [Keys -> 0..MaxSets]
  /\ semval \in [Keys -> [Mbr -> Nat]]
  /\ semadj \in [Keys -> [Procs -> [Mbr -> Int]]]
  /\ pc \in [Procs -> LibPcs \cup ProgPcs \cup {"exited"}]
  /\ id \in [Procs -> {NoId} \cup 1..MaxSets]
  /\ blocked \in [Procs -> BOOLEAN]
  /\ seqno \in Nat /\ seq \in [Procs -> Nat] /\ i \in [Procs -> 0..Iters]

\* p holds a reference to the set it got: sem_create or sem_open has
\* returned it, and p's sem_close has not yet passed op_close
Holding(p) ==
  \/ pc[p] = "m_opened" /\ id[p] # NoId
  \/ pc[p] \in {"m_loop", "m_read", "m_write", "op_op", "cl_close"}

HoldersOf(k) ==
  {p \in Procs : Holding(p) /\ key[p] = k /\ id[p] = ids[k] /\ live[k]}

(***************************************************************************)
(* The process counter [1] of an initialised set is BIGCOUNT minus the    *)
(* number of processes that hold a reference to it, across creates, opens, *)
(* closes, kills and the kernel's undo (semaphore.c:13-18: "decremented on *)
(* every create or open and incremented on every close", with SEM_UNDO    *)
(* accounting for a process that exits without sem_close).                *)
(***************************************************************************)
RefcountExact ==
  \A k \in Keys :
    live[k] /\ semval[k][1] # 0 =>
      semval[k][1] = BIGCOUNT - Cardinality(HoldersOf(k))

(***************************************************************************)
(* A set is never removed while a process still holds a reference to it:  *)
(* sem_close removes the set only when the caller was the last user       *)
(* (semaphore.h:55-59), so every holder's id names the live set.           *)
(***************************************************************************)
NoPrematureRemove ==
  \A p \in Procs :
    Holding(p) => live[key[p]] /\ id[p] = ids[key[p]]

(***************************************************************************)
(* main.c's read-increment-write of the file is done by one process at a *)
(* time: the semaphore, created with value 1, is a lock around it.         *)
(***************************************************************************)
SeqnoExclusive ==
  Cardinality({p \in Procs : pc[p] \in {"m_read", "m_write"}}) <= 1

(***************************************************************************)
(* sem_create never ends in err_sys: the race with a sem_close that       *)
(* removes the set is retried ("goto again", semaphore.c:180-198).        *)
(***************************************************************************)
CreateNeverFails ==
  \A p \in Procs : err[p] # "cr_lock"

(***************************************************************************)
(* Once every process has exited no semaphore set is left behind, even if *)
(* some of them were killed: a process that terminates without sem_close *)
(* does not leak the set.                                                  *)
(***************************************************************************)
NoLeak ==
  (\A p \in Procs : pc[p] = "exited") => \A k \in Keys : ~live[k]

(***************************************************************************)
(* Every process eventually exits: no process sleeps forever in a semop.  *)
(***************************************************************************)
Termination == <>(\A p \in Procs : pc[p] = "exited")

(***************************************************************************)
(* Refinement: the library seen through the set's members.  A set exists *)
(* for the abstract semaphore once its counter [1] has been initialised   *)
(* and while it counts at least one reference (a set whose last user has  *)
(* passed op_close is already gone, sem_rm only follows); its holders are *)
(* the processes holding a reference to the key's newest set, whether or  *)
(* not that set is still there, and its value is member [0].               *)
(***************************************************************************)
AbsHolders(k) == {p \in Procs : Holding(p) /\ key[p] = k /\ id[p] = ids[k]}

AbsExists == [k \in Keys |-> live[k] /\ semval[k][1] \notin {0, BIGCOUNT}]

Abs == INSTANCE RefSem WITH
         exists <- AbsExists,
         holders <- [k \in Keys |-> AbsHolders(k)],
         value <- [k \in Keys |-> IF AbsExists[k] THEN semval[k][0] ELSE 0],
         InitVals <- {1}

(***************************************************************************)
(* sem_create, sem_wait, sem_signal and sem_close together implement a    *)
(* reference-counted semaphore: the set is created by the first attach,   *)
(* destroyed exactly when the last holder closes, and its value moves     *)
(* only by the holders' waits and signals.                                 *)
(***************************************************************************)
RefinesRefSem == Abs!Spec

=============================================================================
