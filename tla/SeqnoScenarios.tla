--------------------------- MODULE SeqnoScenarios ---------------------------
(***************************************************************************)
(* 9_semaphores/main.c in two of the ways it is started, checked in one   *)
(* model: a behaviour picks its scenario at Init and keeps it.            *)
(*   "kills"  every process calls sem_create, any may be killed at any    *)
(*            step;                                                        *)
(*   "mixed"  processes call sem_create or sem_open, none is killed;      *)
(*   "refine" every process calls sem_create, none is killed:            *)
(*            the configuration in which the library is meant to behave   *)
(*            as RefSem.                                                   *)
(* Each scenario is SeqnoMain under the matching constants, with one      *)
(* round of main.c's loop.                                                 *)
(***************************************************************************)
EXTENDS Integers

CONSTANTS Procs, Keys, SEMKEY, BIGCOUNT, MaxSets

VARIABLES live, ids, semval, semadj, pc, ret, key, iv, id, rd, opv, blocked,
          err, seqno, seq, i,
          scenario    \* "kills", "mixed" or "refine"

vars == <<live, ids, semval, semadj, pc, ret, key, iv, id, rd, opv, blocked,
          err, seqno, seq, i, scenario>>

Kills  == INSTANCE SeqnoMain WITH Iters <- 1, Entry <- {"create"},
                                   CanCrash <- TRUE
Mixed  == INSTANCE SeqnoMain WITH Iters <- 1, Entry <- {"create", "open"},
                                   CanCrash <- FALSE
Refine == INSTANCE SeqnoMain WITH Iters <- 1, Entry <- {"create"},
                                   CanCrash <- FALSE

Init ==
  \/ scenario = "kills"  /\ Kills!Init
  \/ scenario = "mixed"  /\ Mixed!Init
  \/ scenario = "refine" /\ Refine!Init

\* a step of process p that is not a kill
Run(p) ==
  /\ \/ scenario = "kills"  /\ Kills!Proc(p)
     \/ scenario = "mixed"  /\ Mixed!Proc(p)
     \/ scenario = "refine" /\ Refine!Proc(p)
  /\ UNCHANGED scenario

Next ==
  \/ \E p \in Procs :
       \/ Run(p)
       \/ scenario = "kills" /\ Kills!Crash(p) /\ UNCHANGED scenario
  \/ Kills!Finished /\ UNCHANGED scenario

\* SeqnoMain's fairness in each scenario: every process not killed goes on
Spec == Init /\ [][Next]_vars /\ \A p \in Procs : WF_vars(Run(p))

----------------------------------------------------------------------------
TypeOK ==
  /\ scenario \in {"kills", "mixed", "refine"}
  /\ scenario = "refine" => Refine!TypeOK
  /\ scenario # "refine" => Kills!TypeOK

(***************************************************************************)
(* In every scenario the process counter [1] is BIGCOUNT minus the number *)
(* of holders, across creates, opens, closes, kills and undo (SeqnoMain's *)
(* RefcountExact).                                                          *)
(***************************************************************************)
RefcountExact == Kills!RefcountExact

(***************************************************************************)
(* With sem_create only, even under kills, no holder's set is removed     *)
(* under it (SeqnoMain's NoPrematureRemove; sem_open breaks it, see       *)
(* open_race).                                                             *)
(***************************************************************************)
NoPrematureRemove == scenario = "kills" => Kills!NoPrematureRemove

(***************************************************************************)
(* With sem_create only, even under kills, the read-increment-write of    *)
(* main.c is done by one process at a time (SeqnoMain's SeqnoExclusive).  *)
(* With sem_open the premature removal of open_race lets a second set be  *)
(* created while a holder of the first is inside, so it is not claimed    *)
(* for the mixed scenario.                                                 *)
(***************************************************************************)
SeqnoExclusive == scenario = "kills" => Kills!SeqnoExclusive

(***************************************************************************)
(* Every process eventually exits, with kills of creators and with a mix  *)
(* of creators and openers that are not killed (SeqnoMain's Termination). *)
(***************************************************************************)
Termination == Kills!Termination

\* RefSem seen through SeqnoMain's mapping in the refine scenario; in the
\* others it stands still in its initial state
AbsRefine == INSTANCE RefSem WITH
  exists  <- IF scenario = "refine" THEN Refine!AbsExists
             ELSE [k \in Keys |-> FALSE],
  holders <- IF scenario = "refine" THEN [k \in Keys |-> Refine!AbsHolders(k)]
             ELSE [k \in Keys |-> {}],
  value   <- IF scenario = "refine"
             THEN [k \in Keys |-> IF Refine!AbsExists[k] THEN semval[k][0] ELSE 0]
             ELSE [k \in Keys |-> 0],
  InitVals <- {1}

(***************************************************************************)
(* With sem_create only and no kills, the library's set for SEMKEY exists *)
(* exactly while some process holds it, its value [0] moves only by the   *)
(* holders' sem_wait/sem_signal, and every attach and detach is one step  *)
(* of RefSem (SeqnoMain's RefinesRefSem, over one round of main.c).       *)
(***************************************************************************)
RefinesRefSem == AbsRefine!Spec

============================================================================
