\* One model, five suites.  Shared memory: 10_shared_memory and
\* 11_multi_buffer, files of up to three reads so that the ring wraps
\* around, read, write and fgets errors on.  Conversions: my_strtol with an
\* 8-bit long (-128..127) so that powers and products wrap within four
\* characters, strings of up to four of blank, '+', '-', '.', 0 1 8, A f x,
\* the bases main and a caller pass, 1 and 37 included; iptohex with the
\* edges 127/128, 255/256 and 1023.  Message queue: one server and one
\* client, a file of up to three reads through a queue of two messages so
\* that msgsnd sleeps, read errors and kills on.  Pipes: the same, over
\* a pipe capacity of two.  inetd: serv_arr's four services and three
\* requests, so that two servers can exit while SIGCHLD is pending and a
\* request can wait behind another.  Programs exit and some
\* sleep for good (a client started before its server), so deadlock is
\* not an error.
CONSTANTS
  srv = srv
  cli = cli
  Procs = {srv, cli}
  SEMKEY1 = SEMKEY1
  SEMKEY2 = SEMKEY2
  Keys = {SEMKEY1, SEMKEY2}
  BIGCOUNT = 10000
  MaxSets = 1
  MaxChunks = 3
  IOFail = TRUE
  LongBits = 8
  Chars = {32, 43, 45, 46, 48, 49, 56, 65, 102, 120}
  MaxLen = 4
  Bases = {0, 1, 2, 8, 10, 16, 36, 37}
  Vals = {0, 1, 2, 127, 128, 255, 256, 1023}
  Servers = {s1}
  Clients = {c1}
  Names = {n1}
  Cap = 2
  CanCrash = TRUE
  MaxReqs = 3
SPECIFICATION Spec
INVARIANT TypeOK OutputIsFile FitsExact BitsAreBinary  PipeOutputIsAnswer OneServerPerDgram ResetSeesBusy
PROPERTY PingPongServerFinishes MultiBufClientFinishes QueueRemovedAfterServer PipeClientFinishes
CHECK_DEADLOCK FALSE
