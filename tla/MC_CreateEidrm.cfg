CONSTANTS
  Procs = {p1, p2, p3}
  Keys = {k1}
  SEMKEY = k1
  BIGCOUNT = 10000
  MaxSets = 2
  Iters = 1
  Entry = {"create"}
  CanCrash = FALSE

SPECIFICATION Spec

INVARIANT CreateNeverFails
