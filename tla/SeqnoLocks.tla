----------------------------- MODULE SeqnoLocks -----------------------------
(***************************************************************************)
(* 1_file_record_locking/file_record.c run by several processes at once:  *)
(* each one Iters times locks, reads the sequence number from the file    *)
(* seqno, writes it back incremented and unlocks.  The lock is one of the *)
(* my_lock/my_unlock pairs the repository provides for this program:      *)
(*   "lockf"    lock.c my_lock: lockf(F_LOCK) on the whole file           *)
(*   "flock"    lock.c my_sys_call_lock: flock(LOCK_EX)                   *)
(*   "link"     lock.c my_link_lock: link LCK<pid> to seqno.lock          *)
(*   "creat"    lock.c my_creat_lock: creat temp.lock with mode 0         *)
(*   "open"     lock.c my_open_lock: open seqno.lock O_CREAT|O_EXCL       *)
(*   "sem"      pitfall_1/lock_unlock.c: a semaphore used as 0 = free     *)
(*   "sem_undo" pitfall_2/lock_unlock_2.c: the same with SEM_UNDO         *)
(* All processes run the same binary, so one method is chosen for the     *)
(* whole run.  Any process may be killed at any step: the kernel then     *)
(* drops its lockf/flock locks and applies its semaphore adjustment, and  *)
(* the files it created stay in the directory.                             *)
(*                                                                         *)
(* The processes run as an ordinary user, and the run starts clean: no    *)
(* lock file and no semaphore left over from an earlier run.  Under those *)
(* conditions the errors other than EEXIST/EACCES, the unlink errors of   *)
(* the unlock functions and the EAGAIN of the semaphore unlock cannot      *)
(* happen, and are left out.  A retry after sleep(1) changes nothing, so  *)
(* it is a stuttering step: the lock step is simply not enabled until it  *)
(* can succeed.                                                            *)
(***************************************************************************)
EXTENDS Naturals, Integers

CONSTANTS
  Procs,      \* the processes running file_record.c
  Iters,      \* iterations of the loop (20 in the code)
  Methods,    \* the lock methods to explore
  CanCrash,   \* processes may be killed at any step
  NoProc      \* no process

AllMethods == {"lockf", "flock", "link", "creat", "open", "sem", "sem_undo"}

ASSUME /\ Iters \in Nat \ {0}
       /\ Methods \subseteq AllMethods /\ Methods # {}
       /\ CanCrash \in BOOLEAN
       /\ NoProc \notin Procs

VARIABLES
  method,     \* the lock method the program was built with
  pc,         \* pc[p]: where process p is
  i,          \* i[p]: the loop counter
  seq,        \* seq[p]: the number p read from the file
  seqno,      \* the number stored in the file seqno
  holder,     \* the process holding the lockf or flock lock, or NoProc
  lockfile,   \* seqno.lock exists
  tempfile,   \* temp.lock exists
  lck,        \* lck[p]: the file LCK<pid of p> exists
  sem,        \* the value of SEMKEY's semaphore, -1 while there is none
  semadj,     \* semadj[p]: p's SEM_UNDO adjustment for it
  semid       \* semid[p]: p has done its semget (semid >= 0)

vars == <<method, pc, i, seq, seqno, holder, lockfile, tempfile, lck, sem,
          semadj, semid>>

\* the directory and kernel state the lock methods use
lockvars == <<holder, lockfile, tempfile, lck, sem, semadj, semid>>

Init ==
  /\ method \in Methods
  /\ pc = [p \in Procs |-> "loop"]
  /\ i = [p \in Procs |-> 0]
  /\ seq = [p \in Procs |-> 0]
  /\ seqno = 0
  /\ holder = NoProc
  /\ lockfile = FALSE
  /\ tempfile = FALSE
  /\ lck = [p \in Procs |-> FALSE]
  /\ sem = -1
  /\ semadj = [p \in Procs |-> 0]
  /\ semid = [p \in Procs |-> FALSE]

Goto(p, l) == pc' = [pc EXCEPT ![p] = l]

\* file_record.c:28-29 and 60: lock at the top of each iteration, return
\* from main after the last
Loop(p) ==
  /\ pc[p] = "loop"
  /\ Goto(p, IF i[p] < Iters THEN "lock" ELSE "exit")
  /\ UNCHANGED <<method, i, seq, seqno, lockvars>>

\* the kernel's lockf/flock lock is taken when no one holds it (else the
\* call sleeps)
TakeKernelLock(p) ==
  /\ holder = NoProc
  /\ holder' = p
  /\ Goto(p, "read")
  /\ UNCHANGED <<method, i, seq, seqno, lockfile, tempfile, lck, sem, semadj,
                 semid>>

DropKernelLock(p) ==
  /\ holder' = NoProc
  /\ Goto(p, "loop")
  /\ UNCHANGED <<method, i, seq, seqno, lockfile, tempfile, lck, sem, semadj,
                 semid>>

\* lock.c:16-22: rewind, then lockf(fd, F_LOCK, 0) on the whole file
LockfLock(p) ==
  /\ pc[p] = "lock" /\ method = "lockf"
  /\ TakeKernelLock(p)

\* lock.c:32-36: flock(fd, LOCK_EX)
FlockLock(p) ==
  /\ pc[p] = "lock" /\ method = "flock"
  /\ TakeKernelLock(p)

\* lock.c:62-72: creat (and close) the temporary file LCK<pid>, mode 0444
LinkCreat(p) ==
  /\ pc[p] = "lock" /\ method = "link"
  /\ lck' = [lck EXCEPT ![p] = TRUE]
  /\ Goto(p, "link")
  /\ UNCHANGED <<method, i, seq, seqno, holder, lockfile, tempfile, sem,
                 semadj, semid>>

\* Mutation variant: any link result taken as success (the EEXIST retry
\* left out)
LinkLinkIgnoreEexist(p) ==
  /\ pc[p] = "link"
  /\ lockfile' = TRUE
  /\ Goto(p, "unlink_tmp")
  /\ UNCHANGED <<method, i, seq, seqno, holder, tempfile, lck, sem, semadj,
                 semid>>

\* lock.c:78-84: link(LCK<pid>, seqno.lock) until it does not fail with
\* EEXIST
LinkLink(p) ==
  /\ pc[p] = "link"
  /\ ~lockfile
  /\ lockfile' = TRUE
  /\ Goto(p, "unlink_tmp")
  /\ UNCHANGED <<method, i, seq, seqno, holder, tempfile, lck, sem, semadj,
                 semid>>

\* lock.c:98-100: unlink the temporary file
LinkUnlinkTemp(p) ==
  /\ pc[p] = "unlink_tmp"
  /\ lck' = [lck EXCEPT ![p] = FALSE]
  /\ Goto(p, "read")
  /\ UNCHANGED <<method, i, seq, seqno, holder, lockfile, tempfile, sem,
                 semadj, semid>>

\* lock.c:121-138: creat(temp.lock, 0) until it does not fail with EACCES
\* (an existing file of mode 0 cannot be opened for writing), then close
CreatLock(p) ==
  /\ pc[p] = "lock" /\ method = "creat"
  /\ ~tempfile
  /\ tempfile' = TRUE
  /\ Goto(p, "read")
  /\ UNCHANGED <<method, i, seq, seqno, holder, lockfile, lck, sem, semadj,
                 semid>>

\* Mutation variant: open without O_EXCL, which succeeds on an existing file
OpenLockNoExcl(p) ==
  /\ pc[p] = "lock" /\ method = "open"
  /\ lockfile' = TRUE
  /\ Goto(p, "read")
  /\ UNCHANGED <<method, i, seq, seqno, holder, tempfile, lck, sem, semadj,
                 semid>>

\* lock.c:158-164: open(seqno.lock, O_RDWR|O_CREAT|O_EXCL) until it does
\* not fail with EEXIST, then close
OpenLock(p) ==
  /\ pc[p] = "lock" /\ method = "open"
  /\ ~lockfile
  /\ lockfile' = TRUE
  /\ Goto(p, "read")
  /\ UNCHANGED <<method, i, seq, seqno, holder, tempfile, lck, sem, semadj,
                 semid>>

\* lock_unlock.c:31-36 (and lock_unlock_2.c:34-43): on the first call,
\* semget(SEMKEY, 1, IPC_CREAT): a new set starts at 0
SemGet(p) ==
  /\ pc[p] = "lock" /\ method \in {"sem", "sem_undo"}
  /\ ~semid[p]
  /\ semid' = [semid EXCEPT ![p] = TRUE]
  /\ sem' = IF sem = -1 THEN 0 ELSE sem
  /\ UNCHANGED <<method, pc, i, seq, seqno, holder, lockfile, tempfile, lck,
                 semadj>>

\* the adjustment a semop of v records: -v with SEM_UNDO, none without
Adj(v) == IF method = "sem_undo" THEN -v ELSE 0

\* Mutation variants: op_lock without its wait-for-zero member, and
\* op_lock without SEM_UNDO in lock_unlock_2.c
SemLockNoWait(p) ==
  /\ pc[p] = "lock" /\ method \in {"sem", "sem_undo"}
  /\ semid[p]
  /\ sem' = sem + 1
  /\ semadj' = [semadj EXCEPT ![p] = @ + Adj(1)]
  /\ Goto(p, "read")
  /\ UNCHANGED <<method, i, seq, seqno, holder, lockfile, tempfile, lck,
                 semid>>

SemLockNoUndo(p) ==
  /\ pc[p] = "lock" /\ method \in {"sem", "sem_undo"}
  /\ semid[p]
  /\ sem = 0
  /\ sem' = 1
  /\ Goto(p, "read")
  /\ UNCHANGED <<method, i, seq, seqno, holder, lockfile, tempfile, lck,
                 semadj, semid>>

\* lock_unlock.c:51-53: semop op_lock, {0,0,0} then {0,1,0}: wait for 0,
\* then raise it to 1, atomically (lock_unlock_2.c:52-54: with SEM_UNDO on
\* the increment)
SemLock(p) ==
  /\ pc[p] = "lock" /\ method \in {"sem", "sem_undo"}
  /\ semid[p]
  /\ sem = 0
  /\ sem' = 1
  /\ semadj' = [semadj EXCEPT ![p] = @ + Adj(1)]
  /\ Goto(p, "read")
  /\ UNCHANGED <<method, i, seq, seqno, holder, lockfile, tempfile, lck,
                 semid>>

\* file_record.c:31-44: rewind, read the file and sscanf the number (the
\* file always holds one, so the read and sscanf errors cannot happen)
ReadSeq(p) ==
  /\ pc[p] = "read"
  /\ seq' = [seq EXCEPT ![p] = seqno]
  /\ Goto(p, "write")
  /\ UNCHANGED <<method, i, seqno, lockvars>>

\* file_record.c:46-55: increment, sprintf("%03d\n"), rewind and write
\* back (the %03d/sscanf round trip keeps the number, see SeqnoMain)
WriteSeq(p) ==
  /\ pc[p] = "write"
  /\ seqno' = seq[p] + 1
  /\ i' = [i EXCEPT ![p] = @ + 1]
  /\ Goto(p, "unlock")
  /\ UNCHANGED <<method, seq, lockvars>>

\* lock.c:24-30: rewind, then lockf(fd, F_ULOCK, 0)
LockfUnlock(p) ==
  /\ pc[p] = "unlock" /\ method = "lockf"
  /\ DropKernelLock(p)

\* lock.c:50-55: flock(fd, LOCK_UN)
FlockUnlock(p) ==
  /\ pc[p] = "unlock" /\ method = "flock"
  /\ DropKernelLock(p)

\* lock.c:103-111 and 167-172: unlink(seqno.lock)
LockfileUnlock(p) ==
  /\ pc[p] = "unlock" /\ method \in {"link", "open"}
  /\ lockfile' = FALSE
  /\ Goto(p, "loop")
  /\ UNCHANGED <<method, i, seq, seqno, holder, tempfile, lck, sem, semadj,
                 semid>>

\* Mutation variant: my_creat_unlock unlinking a name other than temp.lock
CreatUnlockWrongName(p) ==
  /\ pc[p] = "unlock" /\ method = "creat"
  /\ Goto(p, "loop")
  /\ UNCHANGED <<method, i, seq, seqno, holder, lockfile, tempfile, lck, sem,
                 semadj, semid>>

\* lock.c:141-146: unlink(temp.lock)
CreatUnlock(p) ==
  /\ pc[p] = "unlock" /\ method = "creat"
  /\ tempfile' = FALSE
  /\ Goto(p, "loop")
  /\ UNCHANGED <<method, i, seq, seqno, holder, lockfile, lck, sem, semadj,
                 semid>>

\* lock_unlock.c:56-66: semop op_unlock, {0,-1,IPC_NOWAIT}
\* (lock_unlock_2.c:57-62: with SEM_UNDO as well)
SemUnlock(p) ==
  /\ pc[p] = "unlock" /\ method \in {"sem", "sem_undo"}
  /\ sem' = sem - 1
  /\ semadj' = [semadj EXCEPT ![p] = @ + Adj(-1)]
  /\ Goto(p, "loop")
  /\ UNCHANGED <<method, i, seq, seqno, holder, lockfile, tempfile, lck,
                 semid>>

(***************************************************************************)
(* Process exit, normal or by a kill: the kernel drops the lockf/flock    *)
(* lock the process holds and adds its adjustment to the semaphore        *)
(* (clamped at 0).  Files it created stay in the directory.                *)
(***************************************************************************)
ExitProc(p, how) ==
  /\ pc' = [pc EXCEPT ![p] = how]
  /\ holder' = IF holder = p THEN NoProc ELSE holder
  /\ sem' = IF sem = -1 THEN -1
            ELSE IF sem + semadj[p] < 0 THEN 0 ELSE sem + semadj[p]
  /\ semadj' = [semadj EXCEPT ![p] = 0]
  /\ UNCHANGED <<method, i, seq, seqno, lockfile, tempfile, lck, semid>>

\* file_record.c:60: return 0 from main
Exit(p) ==
  /\ pc[p] = "exit"
  /\ ExitProc(p, "exited")

\* the process has ended, by returning from main or by a kill
Gone == {"exited", "killed"}

\* the process is killed at any step
Crash(p) ==
  /\ CanCrash
  /\ pc[p] \notin Gone
  /\ ExitProc(p, "killed")

Proc(p) ==
  \/ Loop(p) \/ ReadSeq(p) \/ WriteSeq(p) \/ Exit(p)
  \/ LockfLock(p) \/ FlockLock(p) \/ LinkCreat(p) \/ LinkLink(p)
  \/ LinkUnlinkTemp(p) \/ CreatLock(p) \/ OpenLock(p) \/ SemGet(p)
  \/ SemLock(p)
  \/ LockfUnlock(p) \/ FlockUnlock(p) \/ LockfileUnlock(p) \/ CreatUnlock(p)
  \/ SemUnlock(p)

Next == \E p \in Procs : Proc(p) \/ Crash(p)

(***************************************************************************)
(* A process that is not killed keeps taking steps: the kernel wakes a    *)
(* lockf/flock/semop sleeper once the lock is free, and a process retrying *)
(* after sleep(1) tries again.  Kills are not fair.                        *)
(***************************************************************************)
Spec == Init /\ [][Next]_vars /\ \A p \in Procs : WF_vars(Proc(p))

----------------------------------------------------------------------------
TypeOK ==
  /\ method \in AllMethods
  /\ pc \in [Procs -> {"loop", "lock", "link", "unlink_tmp", "read", "write",
                       "unlock", "exit", "exited", "killed"}]
  /\ i \in [Procs -> 0..Iters]
  /\ seq \in [Procs -> Nat]
  /\ seqno \in Nat
  /\ holder \in Procs \cup {NoProc}
  /\ lockfile \in BOOLEAN /\ tempfile \in BOOLEAN
  /\ lck \in [Procs -> BOOLEAN]
  /\ sem \in -1..1
  /\ semadj \in [Procs -> -1..0]
  /\ semid \in [Procs -> BOOLEAN]

(***************************************************************************)
(* No update of the file is lost: the number a process is about to write  *)
(* back (plus one) is still the number in the file, so no other process  *)
(* has written between its read and its write.  Only the lock taken by     *)
(* my_lock keeps the read-increment-write of file_record.c:31-55 apart.    *)
(***************************************************************************)
NoLostUpdate ==
  \A p \in Procs : pc[p] = "write" => seq[p] = seqno

\* the lock p's my_unlock is about to release is there
LockThere(p) ==
  CASE method \in {"lockf", "flock"} -> holder = p
    [] method \in {"link", "open"}   -> lockfile
    [] method = "creat"              -> tempfile
    [] method \in {"sem", "sem_undo"} -> sem = 1

(***************************************************************************)
(* my_unlock never fails: when a process gets to it, the lock it releases *)
(* is still there (the lock file has not been unlinked by someone else,   *)
(* the semaphore is still 1, so the IPC_NOWAIT decrement cannot return    *)
(* EAGAIN).  This is why the model can leave out the err_sys of the       *)
(* unlock functions.                                                       *)
(***************************************************************************)
UnlockSucceeds ==
  \A p \in Procs : pc[p] = "unlock" => LockThere(p)

\* p is between taking the lock and releasing it
InCriticalSection(p) == pc[p] \in {"unlink_tmp", "read", "write", "unlock"}

\* p was killed
Killed(p) == pc[p] = "killed"

\* the lock of the method is taken: the kernel lock, the lock file, or
\* the semaphore at 1
LockTaken ==
  CASE method \in {"lockf", "flock"} -> holder # NoProc
    [] method \in {"link", "open"}   -> lockfile
    [] method = "creat"              -> tempfile
    [] method \in {"sem", "sem_undo"} -> sem = 1

(***************************************************************************)
(* A lock that no process is using is left behind only by a kill: the     *)
(* lock file of my_link_lock/my_open_lock/my_creat_lock (lock.c:108, 141) *)
(* or the plain semaphore of lock_unlock.c:70 stays taken with no holder  *)
(* inside the critical section only if some process was killed.  Every    *)
(* other path through my_lock/my_unlock gives the lock back, so a stale   *)
(* lock (on which all others retry or sleep forever) means a process died *)
(* holding it.                                                             *)
(***************************************************************************)
StaleLockMeansKilled ==
  (LockTaken /\ \A p \in Procs : ~InCriticalSection(p))
    => \E p \in Procs : Killed(p)

\* the methods whose lock the kernel gives back when its holder dies
KernelReleased == {"lockf", "flock", "sem_undo"}

(***************************************************************************)
(* With a lock the kernel releases at exit (lockf, flock, and the SEM_UNDO *)
(* semaphore of lock_unlock_2.c:3, "to have the kernel adjust the          *)
(* semaphore value on premature exit"), every process finishes even when  *)
(* others are killed while holding the lock.                               *)
(***************************************************************************)
KernelReleasedFinish ==
  method \in KernelReleased => <>(\A p \in Procs : pc[p] \in Gone)

============================================================================
