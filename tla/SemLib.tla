------------------------------- MODULE SemLib -------------------------------
(***************************************************************************)
(* The three-member System V semaphore library of                          *)
(* 9_semaphores/semaphore.c (copied unchanged, but for an __APPLE__ #ifdef *)
(* around op_op, in 11_multi_buffer/semaphore.c): sem_create, sem_open,    *)
(* sem_close, sem_rm and sem_op (sem_wait, sem_signal), together with the  *)
(* part of the kernel they run against: one semaphore set per key, semget, *)
(* semop with SEM_UNDO, semctl GETVAL/SETVAL/IPC_RMID, and the undo        *)
(* adjustments the kernel applies when a process exits.                    *)
(*                                                                         *)
(* Member [0] is the semaphore value, [1] the process counter (BIGCOUNT    *)
(* minus the number of references), [2] the lock that guards sem_create   *)
(* and sem_close.                                                          *)
(*                                                                         *)
(* Every library function is a sequence of system calls, and every system *)
(* call is one atomic step of the calling process: other processes run     *)
(* between them.  A program module calls a function with one of the Call   *)
(* operators below (which set the process's pc to the function's first    *)
(* step and remember where to return) and reads the result in id[p].       *)
(***************************************************************************)
EXTENDS Integers, Sequences, SequencesExt, FiniteSetsExt

CONSTANTS
  Procs,      \* the processes (model values)
  Keys,       \* the IPC keys the programs use (model values)
  BIGCOUNT,   \* initial value of the process counter [1]; 10000 in the code
  MaxSets     \* number of sets the kernel hands out per key before semget
              \* fails with "tables full"; bounds the ids a run can see

ASSUME /\ BIGCOUNT \in Nat /\ BIGCOUNT > Cardinality(Procs)
       /\ MaxSets \in Nat \ {0}

Mbr == 0..2          \* the members of a set: [0] value, [1] counter, [2] lock
NoId == -1           \* what sem_create / sem_open return on failure

VARIABLES
  \* ---- kernel state, per key ----
  live,     \* live[k]: a semaphore set exists for key k
  ids,      \* ids[k]: the semid of the newest set of key k (0: none yet);
            \* ids are never reused, so a removed set's id stays invalid
  semval,   \* semval[k][m]: value of member m of k's live set
  semadj,   \* semadj[k][p][m]: p's SEM_UNDO adjustment of member m of k's set
  \* ---- the library's per-process frame ----
  pc,       \* the process's next step (library or program label)
  ret,      \* where the running library function returns to
  key,      \* the key argument of sem_create / sem_open
  iv,       \* the initval argument of sem_create
  id,       \* the semid the library works on / returns
  rd,       \* semval read by semctl(GETVAL) (the register `semval')
  opv,      \* the amount argument of sem_op
  blocked,  \* the process sleeps inside semop
  err       \* the err_sys/err_dump site the process died in ("none": none)

libvars == <<live, ids, semval, semadj, pc, ret, key, iv, id, rd, opv,
             blocked, err>>

ZeroAdj == [m \in Mbr |-> 0]

----------------------------------------------------------------------------
(***************************************************************************)
(* struct sembuf {sem_num, sem_op, sem_flg} and the library's static      *)
(* operation arrays.                                                       *)
(***************************************************************************)
SB(n, o, u) == [num |-> n, op |-> o, undo |-> u]

\* Mutation variants (a plausible slip in each array): op_lock without the
\* wait-for-zero, op_endcreate taking the reference without SEM_UNDO
op_lock_nowait       == << SB(2, 1, TRUE) >>
op_endcreate_noundo  == << SB(1, -1, FALSE), SB(2, -1, TRUE) >>

op_lock      == << SB(2, 0, FALSE), SB(2, 1, TRUE) >>
op_endcreate == << SB(1, -1, TRUE), SB(2, -1, TRUE) >>
op_open      == << SB(1, -1, TRUE) >>
op_close     == << SB(2, 0, FALSE), SB(2, 1, TRUE), SB(1, 1, TRUE) >>
op_unlock    == << SB(2, -1, TRUE) >>
op_op(v)     == << SB(0, v, TRUE) >>

(***************************************************************************)
(* The kernel applies the operations of one semop in order to a copy of   *)
(* the values; if one of them would block (a zero-wait on a non-zero value *)
(* or a decrement below zero) none is applied and the caller sleeps.       *)
(***************************************************************************)
SemopStep(acc, b) ==
  IF ~acc.ok THEN acc
  ELSE IF \/ b.op = 0 /\ acc.v[b.num] # 0
          \/ acc.v[b.num] + b.op < 0
       THEN [acc EXCEPT !.ok = FALSE]
       ELSE [acc EXCEPT !.v[b.num] = @ + b.op]

TrySemop(v, ops) == FoldLeft(SemopStep, [ok |-> TRUE, v |-> v], ops)

\* every SEM_UNDO operation moves the adjustment opposite to the value
AdjAfter(a, ops) ==
  [m \in Mbr |-> a[m] - FoldSeq(LAMBDA b, s : s + IF b.undo /\ b.num = m
                                                  THEN b.op ELSE 0,
                                0, ops)]

\* the operation array of the semop the process is at
OpsAt(p) ==
  CASE pc[p] = "cr_lock"      -> op_lock
    [] pc[p] = "cr_endcreate" -> op_endcreate
    [] pc[p] = "op_open"      -> op_open
    [] pc[p] = "cl_close"     -> op_close
    [] pc[p] = "cl_unlock"    -> op_unlock
    [] pc[p] = "op_op"        -> op_op(opv[p])

SemopSites == {"cr_lock", "cr_endcreate", "op_open", "cl_close",
               "cl_unlock", "op_op"}

\* where the function goes once its semop has been applied
AfterSemop(p) ==
  CASE pc[p] = "cr_lock"  -> "cr_getval"
    [] pc[p] = "cl_close" -> "cl_getval"
    [] OTHER              -> ret[p]

\* the semid the process holds no longer names the key's live set
Stale(p) == ~live[key[p]] \/ id[p] # ids[key[p]]

CanApply(p) == TrySemop(semval[key[p]], OpsAt(p)).ok

\* the semop succeeds: new values and adjustments, function continues
ApplySemop(p) ==
  LET k == key[p] IN
  /\ semval' = [semval EXCEPT ![k] = TrySemop(semval[k], OpsAt(p)).v]
  /\ semadj' = [semadj EXCEPT ![k][p] = AdjAfter(@, OpsAt(p))]
  /\ pc' = [pc EXCEPT ![p] = AfterSemop(p)]
  /\ blocked' = [blocked EXCEPT ![p] = FALSE]

(***************************************************************************)
(* Process exit (exit, err_sys, err_dump's abort, or a kill): the kernel   *)
(* adds every adjustment of the process to the live sets, clamping at 0 as *)
(* Linux's exit_sem does, and forgets the adjustments.                     *)
(***************************************************************************)
Undone(v, a) == IF v + a < 0 THEN 0 ELSE v + a

ExitProc(p) ==
  /\ semval' = [k \in Keys |->
                  IF live[k]
                  THEN [m \in Mbr |-> Undone(semval[k][m], semadj[k][p][m])]
                  ELSE semval[k]]
  /\ semadj' = [k \in Keys |-> [semadj[k] EXCEPT ![p] = ZeroAdj]]
  /\ pc' = [pc EXCEPT ![p] = "exited"]
  /\ blocked' = [blocked EXCEPT ![p] = FALSE]

\* err_sys / err_dump: report and terminate the process
Fail(p, site) ==
  /\ ExitProc(p)
  /\ err' = [err EXCEPT ![p] = site]
  /\ UNCHANGED <<live, ids, ret, key, iv, id, rd, opv>>

----------------------------------------------------------------------------
(***************************************************************************)
(* The library's entry points, used by the program modules.               *)
(***************************************************************************)
CallCreate(p, k, v, r) ==
  /\ pc' = [pc EXCEPT ![p] = "cr_semget"]
  /\ key' = [key EXCEPT ![p] = k]
  /\ iv' = [iv EXCEPT ![p] = v]
  /\ ret' = [ret EXCEPT ![p] = r]

CallOpen(p, k, r) ==
  /\ pc' = [pc EXCEPT ![p] = "op_semget"]
  /\ key' = [key EXCEPT ![p] = k]
  /\ ret' = [ret EXCEPT ![p] = r]

\* sem_op(id, v); sem_wait is sem_op(id, -1), sem_signal sem_op(id, 1).
\* A semid is modelled by its key k and generation s.
CallOp(p, k, s, v, r) ==
  /\ pc' = [pc EXCEPT ![p] = "op_op"]
  /\ key' = [key EXCEPT ![p] = k]
  /\ id' = [id EXCEPT ![p] = s]
  /\ opv' = [opv EXCEPT ![p] = v]
  /\ ret' = [ret EXCEPT ![p] = r]

CallClose(p, k, s, r) ==
  /\ pc' = [pc EXCEPT ![p] = "cl_close"]
  /\ key' = [key EXCEPT ![p] = k]
  /\ id' = [id EXCEPT ![p] = s]
  /\ ret' = [ret EXCEPT ![p] = r]

----------------------------------------------------------------------------
(***************************************************************************)
(* sem_create                                                              *)
(***************************************************************************)
\* semget(key, 3, PERMS | IPC_CREAT): attach to the live set or make a new
\* one with all members 0; "tables full" returns -1
CrSemget(p) ==
  LET k == key[p] IN
  /\ pc[p] = "cr_semget"
  /\ \/ /\ live[k]
        /\ id' = [id EXCEPT ![p] = ids[k]]
        /\ pc' = [pc EXCEPT ![p] = "cr_lock"]
        /\ UNCHANGED <<live, ids, semval, semadj>>
     \/ /\ ~live[k] /\ ids[k] < MaxSets
        /\ live' = [live EXCEPT ![k] = TRUE]
        /\ ids' = [ids EXCEPT ![k] = @ + 1]
        /\ semval' = [semval EXCEPT ![k] = [m \in Mbr |-> 0]]
        /\ semadj' = [semadj EXCEPT ![k] = [q \in Procs |-> ZeroAdj]]
        /\ id' = [id EXCEPT ![p] = ids[k] + 1]
        /\ pc' = [pc EXCEPT ![p] = "cr_lock"]
     \/ /\ ~live[k] /\ ids[k] = MaxSets
        /\ id' = [id EXCEPT ![p] = NoId]
        /\ pc' = [pc EXCEPT ![p] = ret[p]]
        /\ UNCHANGED <<live, ids, semval, semadj>>
  /\ UNCHANGED <<ret, key, iv, rd, opv, blocked, err>>

\* semctl(id, 1, GETVAL): read the process counter under the lock
CrGetval(p) ==
  /\ pc[p] = "cr_getval"
  /\ rd' = [rd EXCEPT ![p] = semval[key[p]][1]]
  /\ pc' = [pc EXCEPT ![p] = IF semval[key[p]][1] = 0 THEN "cr_setval0"
                                                      ELSE "cr_endcreate"]
  /\ UNCHANGED <<live, ids, semval, semadj, ret, key, iv, id, opv, blocked,
                 err>>

\* semctl(id, m, SETVAL, v): set member m and clear every process's
\* adjustment of m
SetVal(k, m, v) ==
  /\ semval' = [semval EXCEPT ![k][m] = v]
  /\ semadj' = [semadj EXCEPT ![k] = [q \in Procs |-> [@[q] EXCEPT ![m] = 0]]]

CrSetval0(p) ==
  /\ pc[p] = "cr_setval0"
  /\ SetVal(key[p], 0, iv[p])
  /\ pc' = [pc EXCEPT ![p] = "cr_setval1"]
  /\ UNCHANGED <<live, ids, ret, key, iv, id, rd, opv, blocked, err>>

CrSetval1(p) ==
  /\ pc[p] = "cr_setval1"
  /\ SetVal(key[p], 1, BIGCOUNT)
  /\ pc' = [pc EXCEPT ![p] = "cr_endcreate"]
  /\ UNCHANGED <<live, ids, ret, key, iv, id, rd, opv, blocked, err>>

(***************************************************************************)
(* sem_open                                                                *)
(***************************************************************************)
\* semget(key, 3, 0): the set must exist, else return -1
OpSemget(p) ==
  LET k == key[p] IN
  /\ pc[p] = "op_semget"
  /\ IF live[k]
     THEN /\ id' = [id EXCEPT ![p] = ids[k]]
          /\ pc' = [pc EXCEPT ![p] = "op_open"]
     ELSE /\ id' = [id EXCEPT ![p] = NoId]
          /\ pc' = [pc EXCEPT ![p] = ret[p]]
  /\ UNCHANGED <<live, ids, semval, semadj, ret, key, iv, rd, opv, blocked,
                 err>>

(***************************************************************************)
(* sem_close and sem_rm                                                    *)
(***************************************************************************)
\* Mutation variant: the last-user test off by one
ClGetvalOffByOne(p) ==
  LET v == semval[key[p]][1] IN
  /\ pc[p] = "cl_getval"
  /\ \/ /\ v > BIGCOUNT
        /\ Fail(p, "sem[1] > BIGCOUNT")
     \/ /\ v <= BIGCOUNT
        /\ rd' = [rd EXCEPT ![p] = v]
        /\ pc' = [pc EXCEPT ![p] = IF v >= BIGCOUNT - 1 THEN "cl_rm" ELSE "cl_unlock"]
        /\ UNCHANGED <<live, ids, semval, semadj, ret, key, iv, id, opv,
                       blocked, err>>

\* semctl(id, 1, GETVAL) after op_close; > BIGCOUNT is err_dump, = BIGCOUNT
\* means the caller held the last reference
ClGetval(p) ==
  LET v == semval[key[p]][1] IN
  /\ pc[p] = "cl_getval"
  /\ \/ /\ v > BIGCOUNT
        /\ Fail(p, "sem[1] > BIGCOUNT")
     \/ /\ v <= BIGCOUNT
        /\ rd' = [rd EXCEPT ![p] = v]
        /\ pc' = [pc EXCEPT ![p] = IF v = BIGCOUNT THEN "cl_rm" ELSE "cl_unlock"]
        /\ UNCHANGED <<live, ids, semval, semadj, ret, key, iv, id, opv,
                       blocked, err>>

\* sem_rm: semctl(id, 0, IPC_RMID); sleepers in semop wake with EIDRM
ClRm(p) ==
  LET k == key[p] IN
  /\ pc[p] = "cl_rm"
  /\ live' = [live EXCEPT ![k] = FALSE]
  /\ semadj' = [semadj EXCEPT ![k] = [q \in Procs |-> ZeroAdj]]
  /\ pc' = [pc EXCEPT ![p] = ret[p]]
  /\ UNCHANGED <<ids, semval, ret, key, iv, id, rd, opv, blocked, err>>

\* Mutation variant: "again:" placed after semget, so sem_create retries
\* op_lock on the stale id
SemopRetryStale(p) ==
  /\ pc[p] \in SemopSites
  /\ ~blocked[p]
  /\ \/ /\ Stale(p) /\ pc[p] = "cr_lock"
        /\ pc' = [pc EXCEPT ![p] = "cr_lock"]
        /\ UNCHANGED <<live, ids, semval, semadj, ret, key, iv, id, rd, opv,
                       blocked, err>>
     \/ /\ Stale(p) /\ pc[p] # "cr_lock"
        /\ Fail(p, pc[p])
     \/ /\ ~Stale(p) /\ CanApply(p)
        /\ ApplySemop(p)
        /\ UNCHANGED <<live, ids, ret, key, iv, id, rd, opv, err>>
     \/ /\ ~Stale(p) /\ ~CanApply(p)
        /\ blocked' = [blocked EXCEPT ![p] = TRUE]
        /\ UNCHANGED <<live, ids, semval, semadj, pc, ret, key, iv, id, rd,
                       opv, err>>

(***************************************************************************)
(* Every semop of the library: op_lock and op_endcreate in sem_create,     *)
(* op_open in sem_open, op_close and op_unlock in sem_close, op_op in      *)
(* sem_op.  A call on an id that is no longer valid fails with EINVAL:     *)
(* sem_create then starts again ("goto again"), every other caller         *)
(* err_sys's.  Otherwise the operations are applied or the caller sleeps.  *)
(***************************************************************************)
Semop(p) ==
  /\ pc[p] \in SemopSites
  /\ ~blocked[p]
  /\ \/ /\ Stale(p) /\ pc[p] = "cr_lock"
        /\ pc' = [pc EXCEPT ![p] = "cr_semget"]
        /\ UNCHANGED <<live, ids, semval, semadj, ret, key, iv, id, rd, opv,
                       blocked, err>>
     \/ /\ Stale(p) /\ pc[p] # "cr_lock"
        /\ Fail(p, pc[p])
     \/ /\ ~Stale(p) /\ CanApply(p)
        /\ ApplySemop(p)
        /\ UNCHANGED <<live, ids, ret, key, iv, id, rd, opv, err>>
     \/ /\ ~Stale(p) /\ ~CanApply(p)
        /\ blocked' = [blocked EXCEPT ![p] = TRUE]
        /\ UNCHANGED <<live, ids, semval, semadj, pc, ret, key, iv, id, rd,
                       opv, err>>

\* a sleeper whose operations can now all be applied is woken and applies them
Wake(p) ==
  /\ blocked[p]
  /\ ~Stale(p) /\ CanApply(p)
  /\ ApplySemop(p)
  /\ UNCHANGED <<live, ids, ret, key, iv, id, rd, opv, err>>

\* the set was removed while the process slept: semop returns EIDRM, which
\* every caller, sem_create's op_lock included, reports with err_sys
Eidrm(p) ==
  /\ blocked[p]
  /\ Stale(p)
  /\ Fail(p, pc[p])

\* one step of the library function process p is in
LibStep(p) ==
  \/ CrSemget(p) \/ CrGetval(p) \/ CrSetval0(p) \/ CrSetval1(p)
  \/ OpSemget(p) \/ ClGetval(p) \/ ClRm(p)
  \/ Semop(p) \/ Wake(p) \/ Eidrm(p)

LibPcs == SemopSites \cup {"cr_semget", "cr_getval", "cr_setval0",
                           "cr_setval1", "op_semget", "cl_getval", "cl_rm"}

LibInit ==
  /\ live = [k \in Keys |-> FALSE]
  /\ ids = [k \in Keys |-> 0]
  /\ semval = [k \in Keys |-> [m \in Mbr |-> 0]]
  /\ semadj = [k \in Keys |-> [q \in Procs |-> ZeroAdj]]
  /\ ret = [q \in Procs |-> "exited"]
  /\ key = [q \in Procs |-> CHOOSE k \in Keys : TRUE]
  /\ iv = [q \in Procs |-> 0]
  /\ id = [q \in Procs |-> NoId]
  /\ rd = [q \in Procs |-> 0]
  /\ opv = [q \in Procs |-> 0]
  /\ blocked = [q \in Procs |-> FALSE]
  /\ err = [q \in Procs |-> "none"]

=============================================================================
