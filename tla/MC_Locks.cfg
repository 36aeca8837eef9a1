\* file_record.c with each of the seven lock methods, three processes,
\* two iterations each, kills at any step.  A process killed while it holds
\* a lock file or the plain semaphore leaves the others waiting for good,
\* so a state with no step left is not an error.
CONSTANTS
  Procs = {p1, p2, p3}
  Iters = 2
  Methods = {"lockf", "flock", "link", "creat", "open", "sem", "sem_undo"}
  CanCrash = TRUE
  NoProc = NoProc
SPECIFICATION Spec
INVARIANT TypeOK NoLostUpdate UnlockSucceeds StaleLockMeansKilled
PROPERTY KernelReleasedFinish
CHECK_DEADLOCK FALSE
