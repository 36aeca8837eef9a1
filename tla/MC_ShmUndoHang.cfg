\* 10_shared_memory: server and client over two semaphore keys.
\* The programs can stop for good (a client that starts before the server
\* creates the segment leaves the server asleep), so deadlock is not an error.
CONSTANTS
  srv = srv
  cli = cli
  Procs = {srv, cli}
  SEMKEY1 = SEMKEY1
  SEMKEY2 = SEMKEY2
  Keys = {SEMKEY1, SEMKEY2}
  BIGCOUNT = 10000
  MaxSets = 1
  NBUFF = 1
  MaxChunks = 2
  IOFail = TRUE
SPECIFICATION Spec
PROPERTY ClientFinishes
CHECK_DEADLOCK FALSE
