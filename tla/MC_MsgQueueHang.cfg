\* 8_multiplexing_messages: one server, one client, no kills and no I/O
\* errors; the client's line is a file name, a bare newline or end of
\* input.  ClientFinishes fails: a bare newline makes the server exit in
\* err_sys("filename read error") (server.c:64-66) without the empty end
\* message, and the client sleeps in msgrcv.  (With I/O errors on, a read
\* error at server.c:89 ends the server the same way.)
CONSTANTS
  Servers = {s1}
  Clients = {c1}
  Names = {n1}
  MaxChunks = 1
  Cap = 2
  IOFail = FALSE
  CanCrash = FALSE
SPECIFICATION Spec
PROPERTY ClientFinishes
CHECK_DEADLOCK FALSE
