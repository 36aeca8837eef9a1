----------------------------- MODULE PipeServer -----------------------------
(***************************************************************************)
(* The file client/server of chapter 3 over byte streams, in the three    *)
(* forms main forks: the parent runs client(), the child server().        *)
(*   "pipe"    3_pipes_client_server: two pipes made before fork; each    *)
(*             process closes the ends it does not use.                    *)
(*   "fifo"    5_fifo/main.c: two FIFOs, opened after fork; an open for   *)
(*             writing waits for the reader's open, and the reverse.       *)
(*   "stream"  6_stream_messages: the FIFOs of 5, carrying Mesg records    *)
(*             (msg.c): a header, then mesg_len data bytes; the answer    *)
(*             ends with an empty message.                                 *)
(* In "pipe" and "fifo" the name and the answer are raw bytes, and the    *)
(* client reads the answer until end of file.                              *)
(*                                                                         *)
(* A channel is the sequence of writes not yet read: every write here is  *)
(* at most PIPE_BUF bytes and so lands whole, and the client writes what  *)
(* it reads, so coalescing reads does not change its output.  End of file *)
(* is an empty channel whose write ends are all closed; a write with no   *)
(* read end open kills the writer (SIGPIPE).  The file name and the data  *)
(* are abstract, as in MsgQueue: a name, and which chunk of which file.   *)
(***************************************************************************)
EXTENDS Integers, Sequences, SequencesExt

CONSTANTS
  Names,      \* file names the user can type
  MaxChunks,  \* largest file, in reads of MAXBUFF (MAXMESGDATA) bytes
  Cap,        \* writes a channel holds before write sleeps
  IOFail,     \* the server's read of the file may fail (or, in 6, fstat)
  CanCrash    \* processes may be killed at any step

Parent == "parent"    \* client()
Child == "child"      \* server()
PProcs == {Parent, Child}
Chans == {"up", "down"}   \* pipe1/FIFO1 client to server, pipe2/FIFO2 back

NOENT == -1
NoName == "noname"
EmptyLine == "emptyline"
EOF == "eof"

VARIABLES
  variant,    \* "pipe", "fifo" or "stream", fixed at Init
  ploc,       \* ploc[p]: where process p is
  chan,       \* chan[ch]: the writes on channel ch not yet read
  wends,      \* wends[ch]: the processes holding a write end of ch
  rends,      \* rends[ch]: the processes holding a read end of ch
  line,       \* the line on the client's stdin
  files,      \* files[n]: chunks in file n, or NOENT
  req,        \* the name the server read
  sentc,      \* chunks the server has written
  got         \* what the client wrote to stdout

pvars == <<variant, ploc, chan, wends, rends, line, files, req, sentc, got>>

Item(len, n, k) == [len |-> len, name |-> n, k |-> k]

PGone == {"exited", "failed", "killed", "sigpipe"}

Framed == variant = "stream"

\* right after fork: the pipes' four ends are held by both processes,
\* the FIFOs are made (mknod) but not yet opened
PInit ==
  /\ variant \in {"pipe", "fifo", "stream"}
  /\ ploc = [p \in PProcs |-> IF variant = "pipe" THEN "close" ELSE "open1"]
  /\ chan = [ch \in Chans |-> <<>>]
  /\ wends = [ch \in Chans |-> IF variant = "pipe" THEN PProcs ELSE {}]
  /\ rends = wends
  /\ line \in Names \cup {EmptyLine, EOF}
  /\ files \in [Names -> {NOENT} \cup 0..MaxChunks]
  /\ req = NoName /\ sentc = 0 /\ got = <<>>

\* p ends (exit, err_sys or a signal) at label l: the kernel closes its ends
Die(p, l) ==
  /\ ploc' = [ploc EXCEPT ![p] = l]
  /\ wends' = [ch \in Chans |-> wends[ch] \ {p}]
  /\ rends' = [ch \in Chans |-> rends[ch] \ {p}]

Move(p, l) == ploc' = [ploc EXCEPT ![p] = l]

AtEof(ch) == chan[ch] = <<>> /\ wends[ch] = {}

(***************************************************************************)
(* write(fd, buf, n) of one item on ch (msg.c:19-33 for a Mesg): SIGPIPE  *)
(* with no reader, a sleep while the channel is full, else p goes on at l.*)
(***************************************************************************)
Write(p, ch, it, l) ==
  \/ /\ rends[ch] = {}
     /\ Die(p, "sigpipe") /\ UNCHANGED chan
  \/ /\ rends[ch] # {} /\ Len(chan[ch]) < Cap
     /\ chan' = [chan EXCEPT ![ch] = Append(@, it)]
     /\ Move(p, l) /\ UNCHANGED <<wends, rends>>

\* take the first item of ch
Take(ch) == chan' = [chan EXCEPT ![ch] = Tail(@)]

\* Mutation variant: the parent keeping pipe2's write end
PCloseKeep ==
  /\ ploc[Parent] = "close"
  /\ Move(Parent, "fgets")
  /\ rends' = [rends EXCEPT !["up"] = @ \ {Parent}]
  /\ UNCHANGED <<variant, chan, wends, line, files, req, sentc, got>>

\* 3/main.c:33-34: the parent closes pipe1[0] and pipe2[1]
PClose ==
  /\ ploc[Parent] = "close"
  /\ Move(Parent, "fgets")
  /\ wends' = [wends EXCEPT !["down"] = @ \ {Parent}]
  /\ rends' = [rends EXCEPT !["up"] = @ \ {Parent}]
  /\ UNCHANGED <<variant, chan, line, files, req, sentc, got>>

\* 3/main.c:46-47: the child closes pipe1[1] and pipe2[0]
CClose ==
  /\ ploc[Child] = "close"
  /\ Move(Child, "recv")
  /\ wends' = [wends EXCEPT !["up"] = @ \ {Child}]
  /\ rends' = [rends EXCEPT !["down"] = @ \ {Child}]
  /\ UNCHANGED <<variant, chan, line, files, req, sentc, got>>

(***************************************************************************)
(* 5/main.c:47 with 71 (6/main.c:40 with 64): the parent's open of      *)
(* FIFO1 for writing and the child's for reading return together.          *)
(***************************************************************************)
Open1 ==
  /\ ploc[Parent] = "open1" /\ ploc[Child] = "open1"
  /\ ploc' = [ploc EXCEPT ![Parent] = "open2", ![Child] = "open2"]
  /\ wends' = [wends EXCEPT !["up"] = {Parent}]
  /\ rends' = [rends EXCEPT !["up"] = {Child}]
  /\ UNCHANGED <<variant, chan, line, files, req, sentc, got>>

\* 5/main.c:50 with 74 (6/main.c:43 with 67): the same for FIFO2
Open2 ==
  /\ ploc[Parent] = "open2" /\ ploc[Child] = "open2"
  /\ ploc' = [ploc EXCEPT ![Parent] = "fgets", ![Child] = "recv"]
  /\ wends' = [wends EXCEPT !["down"] = {Child}]
  /\ rends' = [rends EXCEPT !["down"] = {Parent}]
  /\ UNCHANGED <<variant, chan, line, files, req, sentc, got>>

(***************************************************************************)
(* client(): fgets (NULL is err_sys), drop the newline, write the name.   *)
(* Raw, a bare newline is a write of 0 bytes, which puts nothing on the   *)
(* pipe; framed, it is a Mesg with mesg_len 0 (its header).               *)
(***************************************************************************)
PSend ==
  /\ ploc[Parent] = "fgets"
  /\ \/ line = EOF /\ Die(Parent, "failed") /\ UNCHANGED chan
     \/ line = EmptyLine /\ ~Framed /\ Move(Parent, "recv")
        /\ UNCHANGED <<chan, wends, rends>>
     \/ line = EmptyLine /\ Framed /\ Write(Parent, "up", Item(0, NoName, 0), "recv")
     \/ line \in Names /\ Write(Parent, "up", Item(1, line, 0), "recv")
  /\ UNCHANGED <<variant, line, files, req, sentc, got>>

(***************************************************************************)
(* client()'s loop: write out each read (each non-empty Mesg) until read  *)
(* returns 0 (mesg_recv returns 0, at end of file or on the empty Mesg).  *)
(***************************************************************************)
PRecv ==
  /\ ploc[Parent] = "recv"
  /\ \/ /\ chan["down"] # <<>> /\ (~Framed \/ Head(chan["down"]).len > 0)
        /\ Take("down")
        /\ got' = Append(got, [name |-> Head(chan["down"]).name,
                               k |-> Head(chan["down"]).k])
        /\ UNCHANGED ploc
     \/ /\ Framed /\ chan["down"] # <<>> /\ Head(chan["down"]).len = 0
        /\ Take("down") /\ Move(Parent, "wait") /\ UNCHANGED got
     \/ /\ AtEof("down")
        /\ Move(Parent, "wait") /\ UNCHANGED <<chan, got>>
  /\ UNCHANGED <<variant, wends, rends, line, files, req, sentc>>

\* main: wait for the child, close both ends (and unlink the FIFOs), exit
PWait ==
  /\ ploc[Parent] = "wait" /\ ploc[Child] \in PGone
  /\ Die(Parent, "exited")
  /\ UNCHANGED <<variant, chan, line, files, req, sentc, got>>

(***************************************************************************)
(* server(): read the name; 0 bytes (end of file, or an empty Mesg) is    *)
(* err_sys("filename read error").  A raw read with no data yet and the   *)
(* client's write end open sleeps.                                         *)
(***************************************************************************)
CRecvName ==
  /\ ploc[Child] = "recv"
  /\ \/ /\ chan["up"] # <<>> /\ Head(chan["up"]).len > 0
        /\ Take("up") /\ req' = Head(chan["up"]).name
        /\ Move(Child, "open") /\ UNCHANGED <<wends, rends>>
     \/ /\ chan["up"] # <<>> /\ Head(chan["up"]).len = 0
        /\ Take("up") /\ Die(Child, "failed") /\ UNCHANGED req
     \/ /\ AtEof("up")
        /\ Die(Child, "failed") /\ UNCHANGED <<chan, req>>
  /\ UNCHANGED <<variant, line, files, sentc, got>>

\* the server's next step once its answer is written: raw, server()
\* returns and the child exits; framed, the empty Mesg comes first
AfterAnswer == IF Framed THEN "sendend" ELSE "exit"

\* open fails: write the name with the error text appended
COpenFail ==
  /\ ploc[Child] = "open" /\ files[req] = NOENT
  /\ Write(Child, "down", Item(1, req, 0), AfterAnswer)
  /\ UNCHANGED <<variant, line, files, req, sentc, got>>

\* the file is open; 6 then err_sys's if fstat fails or finds a directory
\* (in 3 and 5 a directory fails at its first read, CRead's error)
COpen ==
  /\ ploc[Child] = "open" /\ files[req] # NOENT
  /\ \/ Move(Child, "read") /\ UNCHANGED <<wends, rends>>
     \/ Framed /\ IOFail /\ Die(Child, "failed")
  /\ UNCHANGED <<variant, chan, line, files, req, sentc, got>>

\* Mutation variant: the loop stopping one read early
CReadShort ==
  /\ ploc[Child] = "read"
  /\ \/ /\ sentc + 1 < files[req]
        /\ Write(Child, "down", Item(1, req, sentc + 1), "read")
        /\ sentc' = sentc + 1
     \/ /\ sentc + 1 >= files[req]
        /\ Move(Child, AfterAnswer) /\ UNCHANGED <<chan, wends, rends, sentc>>
     \/ /\ IOFail
        /\ Die(Child, "failed") /\ UNCHANGED <<chan, sentc>>
  /\ UNCHANGED <<variant, line, files, req, got>>

\* the read loop: write each chunk; read error is err_sys
CRead ==
  /\ ploc[Child] = "read"
  /\ \/ /\ sentc < files[req]
        /\ Write(Child, "down", Item(1, req, sentc + 1), "read")
        /\ sentc' = sentc + 1
     \/ /\ sentc = files[req]
        /\ Move(Child, AfterAnswer) /\ UNCHANGED <<chan, wends, rends, sentc>>
     \/ /\ IOFail
        /\ Die(Child, "failed") /\ UNCHANGED <<chan, sentc>>
  /\ UNCHANGED <<variant, line, files, req, got>>

\* 6/ipc_server.c:88-89: the empty Mesg
CSendEnd ==
  /\ ploc[Child] = "sendend"
  /\ Write(Child, "down", Item(0, NoName, 0), "exit")
  /\ UNCHANGED <<variant, line, files, req, sentc, got>>

\* main: close both ends and exit
CExit ==
  /\ ploc[Child] = "exit"
  /\ Die(Child, "exited")
  /\ UNCHANGED <<variant, chan, line, files, req, sentc, got>>

\* a kill -9 at any step
PKill(p) ==
  /\ CanCrash /\ ploc[p] \notin PGone
  /\ Die(p, "killed")
  /\ UNCHANGED <<variant, chan, line, files, req, sentc, got>>

ParentStep == PClose \/ PSend \/ PRecv \/ PWait
ChildStep == CClose \/ CRecvName \/ COpenFail \/ COpen \/ CRead \/ CSendEnd \/ CExit

PNext == ParentStep \/ ChildStep \/ Open1 \/ Open2 \/ \E p \in PProcs : PKill(p)

\* each process runs while it can; a sleeper in read, write or open is
\* woken once its data, room or peer arrives
PSpec == PInit /\ [][PNext]_pvars
         /\ WF_pvars(ParentStep) /\ WF_pvars(ChildStep)
         /\ WF_pvars(Open1) /\ WF_pvars(Open2)

----------------------------------------------------------------------------
PItem == [len : {0, 1}, name : Names \cup {NoName}, k : 0..MaxChunks]

PTypeOK ==
  /\ variant \in {"pipe", "fifo", "stream"}
  /\ ploc \in [PProcs -> {"close", "open1", "open2", "fgets", "recv", "wait",
                          "open", "read", "sendend", "exit"} \cup PGone]
  /\ chan \in [Chans -> Seq(PItem)] /\ \A ch \in Chans : Len(chan[ch]) <= Cap
  /\ wends \in [Chans -> SUBSET PProcs] /\ rends \in [Chans -> SUBSET PProcs]
  /\ req \in Names \cup {NoName} /\ sentc \in 0..MaxChunks
  /\ got \in Seq([name : Names \cup {NoName}, k : 0..MaxChunks])

\* what server() writes for file n: its chunks, or the one error text
PAnswer(n) ==
  IF files[n] = NOENT THEN <<[name |-> n, k |-> 0]>>
  ELSE [j \in 1..files[n] |-> [name |-> n, k |-> j]]

(***************************************************************************)
(* The client's stdout is always the start of the answer to the name it   *)
(* typed, in order and without repeats (nothing if it typed no name), and *)
(* all of it when both processes exit normally: over pipes and FIFOs the  *)
(* client stops at end of file, which comes only once the child has       *)
(* exited and its last write was read.                                     *)
(***************************************************************************)
PipeOutputIsAnswer ==
  /\ line \notin Names => got = <<>>
  /\ line \in Names => IsPrefix(got, PAnswer(line))
  /\ ploc[Parent] = "exited" /\ ploc[Child] = "exited" => got = PAnswer(line)

(***************************************************************************)
(* The parent always ends (main exits after wait), whichever process      *)
(* fails or is killed, except when the child is killed while the parent   *)
(* sleeps in open of a FIFO, and, on the raw transports, after a bare     *)
(* newline: its 0-byte write leaves the child asleep in read of the name  *)
(* and the parent in read of the answer.                                   *)
(***************************************************************************)
PipeClientFinishes ==
  (variant = "stream" \/ line # EmptyLine)
    => <>(\/ ploc[Parent] \in PGone
          \/ ploc[Child] = "killed" /\ ploc[Parent] \in {"open1", "open2"})

====
