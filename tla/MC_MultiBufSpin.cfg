\* 11_multi_buffer: two buffers, files of up to three reads so that the
\* server wraps around the ring.  The programs can stop for good (a client
\* started before the server creates the segments leaves the server
\* asleep), so deadlock is not an error.
CONSTANTS
  srv = srv
  cli = cli
  Procs = {srv, cli}
  SEMKEY1 = SEMKEY1
  SEMKEY2 = SEMKEY2
  Keys = {SEMKEY1, SEMKEY2}
  BIGCOUNT = 10000
  MaxSets = 1
  NBUFF = 2
  MaxChunks = 3
  IOFail = TRUE
SPECIFICATION Spec
PROPERTY ServerFinishes
CHECK_DEADLOCK FALSE
