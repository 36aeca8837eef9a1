------------------------------ MODULE MsgQueue ------------------------------
(***************************************************************************)
(* 8_multiplexing_messages: a file server and its client over one System  *)
(* V message queue (key MKEY1), multiplexed by message type.  The client  *)
(* sends the file name as type 1; the server answers with type 2 messages *)
(* (the file in chunks, or an error text) and an empty type 2 message as  *)
(* end of file; the client then removes the queue (client.c:50).          *)
(*                                                                         *)
(* The queue is a sequence of messages; msgrcv(type) takes the first       *)
(* message of that type and sleeps while there is none, msgsnd sleeps      *)
(* while the queue holds Cap messages, and both fail once the queue is     *)
(* removed (EIDRM/EINVAL).  A queue id is the generation of the queue.    *)
(* A message carries its type, whether its data is empty (mesg_len 0),    *)
(* and which file and chunk it holds (chunk 0 is the error text).          *)
(***************************************************************************)
EXTENDS Integers, Sequences, SequencesExt, FiniteSets

CONSTANTS
  Servers,    \* server processes (server.c)
  Clients,    \* client processes (client.c)
  Names,      \* file names a client can type
  MaxChunks,  \* largest file, in reads of MAXMESGDATA bytes
  Cap,        \* messages the queue holds before msgsnd sleeps
  IOFail,     \* the server's read may fail
  CanCrash    \* processes may be killed at any step

Procs == Servers \cup Clients

NOENT == -1               \* the file cannot be opened (open returns -1)
NoName == "noname"
EmptyLine == "emptyline"  \* the user typed just a newline
EOF == "eof"              \* fgets returns NULL

VARIABLES
  qlive,      \* a queue exists for MKEY1
  qgen,       \* the generation (id) of the current or last queue
  msgs,       \* the messages on it, oldest first
  at,         \* at[p]: where process p is
  qid,        \* qid[p]: the id msgget returned to p (0 before)
  fname,      \* fname[s]: the name the server received
  nsent,      \* nsent[s]: chunks the server has read and sent
  shown,      \* shown[c]: what the client wrote to stdout
  input,      \* input[c]: the line on the client's stdin
  fsize       \* fsize[n]: chunks in file n, or NOENT

vars == <<qlive, qgen, msgs, at, qid, fname, nsent, shown, input, fsize>>

Msg(t, len, n, k) == [mtype |-> t, len |-> len, name |-> n, k |-> k]

Gone == {"exited", "failed", "dumped", "killed"}

Init ==
  /\ qlive = FALSE /\ qgen = 0 /\ msgs = <<>>
  /\ at = [p \in Procs |-> "start"]
  /\ qid = [p \in Procs |-> 0]
  /\ fname = [s \in Servers |-> NoName]
  /\ nsent = [s \in Servers |-> 0]
  /\ shown = [c \in Clients |-> <<>>]
  /\ input \in [Clients -> Names \cup {EmptyLine, EOF}]
  /\ fsize \in [Names -> {NOENT} \cup 0..MaxChunks]

Goto(p, l) == at' = [at EXCEPT ![p] = l]

\* the id p holds no longer names a queue
Stale(p) == ~qlive \/ qid[p] # qgen

\* the index of the first message of type t, 0 if none
First(t) ==
  IF \E j \in 1..Len(msgs) : msgs[j].mtype = t
  THEN CHOOSE j \in 1..Len(msgs) :
         msgs[j].mtype = t /\ \A i \in 1..j - 1 : msgs[i].mtype # t
  ELSE 0

(***************************************************************************)
(* mesg.c:9-43, mesg_send: msgsnd sleeps while the queue is full; on a    *)
(* removed queue it fails and err_sys ends the process.  On success p     *)
(* goes on at l.                                                           *)
(***************************************************************************)
MesgSend(p, m, l) ==
  \/ /\ ~Stale(p) /\ Len(msgs) < Cap
     /\ msgs' = Append(msgs, m)
     /\ Goto(p, l)
  \/ /\ Stale(p)
     /\ Goto(p, "failed") /\ UNCHANGED msgs

\* server.c:27: msgget(MKEY1, PERMS | IPC_CREAT), a new queue if none is live
SGet(s) ==
  /\ at[s] = "start"
  /\ IF qlive
     THEN qid' = [qid EXCEPT ![s] = qgen] /\ UNCHANGED <<qlive, qgen, msgs>>
     ELSE /\ qlive' = TRUE /\ qgen' = qgen + 1 /\ msgs' = <<>>
          /\ qid' = [qid EXCEPT ![s] = qgen + 1]
  /\ Goto(s, "recv")
  /\ UNCHANGED <<fname, nsent, shown, input, fsize>>

(***************************************************************************)
(* server.c:63-67 with mesg.c:51-94, mesg_recv of type 1: the first       *)
(* request, or err_dump on a removed queue; an empty one (n = 0) is       *)
(* err_sys("filename read error").                                        *)
(***************************************************************************)
SRecv(s) ==
  /\ at[s] = "recv"
  /\ \/ /\ Stale(s)
        /\ Goto(s, "dumped") /\ UNCHANGED <<msgs, fname>>
     \/ /\ ~Stale(s) /\ First(1) # 0
        /\ msgs' = RemoveAt(msgs, First(1))
        /\ IF msgs[First(1)].len = 0
           THEN Goto(s, "failed") /\ UNCHANGED fname
           ELSE Goto(s, "open") /\ fname' = [fname EXCEPT ![s] = msgs[First(1)].name]
  /\ UNCHANGED <<qlive, qgen, qid, nsent, shown, input, fsize>>

\* server.c:69-78: open fails: send the name with the error text appended
SOpenFail(s) ==
  /\ at[s] = "open" /\ fsize[fname[s]] = NOENT
  /\ MesgSend(s, Msg(2, 1, fname[s], 0), "sendend")
  /\ UNCHANGED <<qlive, qgen, qid, fname, nsent, shown, input, fsize>>

\* server.c:70 and 82: the file is open; the read loop starts
SOpen(s) ==
  /\ at[s] = "open" /\ fsize[fname[s]] # NOENT
  /\ Goto(s, "read")
  /\ UNCHANGED <<qlive, qgen, msgs, qid, fname, nsent, shown, input, fsize>>

(***************************************************************************)
(* server.c:82-90: read the next chunk and send it; read returning 0 ends *)
(* the loop; a read error is err_sys, before the end message is sent.     *)
(***************************************************************************)
SRead(s) ==
  /\ at[s] = "read"
  /\ \/ /\ nsent[s] < fsize[fname[s]]
        /\ MesgSend(s, Msg(2, 1, fname[s], nsent[s] + 1), "read")
        /\ nsent' = [nsent EXCEPT ![s] = @ + 1]
     \/ /\ nsent[s] = fsize[fname[s]]
        /\ Goto(s, "sendend") /\ UNCHANGED <<msgs, nsent>>
     \/ /\ IOFail
        /\ Goto(s, "failed") /\ UNCHANGED <<msgs, nsent>>
  /\ UNCHANGED <<qlive, qgen, qid, fname, shown, input, fsize>>

\* Mutation variant: the server exiting without the empty end message
SEndSkip(s) ==
  /\ at[s] = "sendend"
  /\ Goto(s, "exited")
  /\ UNCHANGED <<qlive, qgen, msgs, qid, fname, nsent, shown, input, fsize>>

\* server.c:97-98 and 51: the empty end message, then exit
SEnd(s) ==
  /\ at[s] = "sendend"
  /\ MesgSend(s, Msg(2, 0, NoName, 0), "exited")
  /\ UNCHANGED <<qlive, qgen, qid, fname, nsent, shown, input, fsize>>

\* client.c:23-25: msgget(MKEY1, 0); no queue yet is err_sys
CGet(c) ==
  /\ at[c] = "start"
  /\ IF qlive THEN qid' = [qid EXCEPT ![c] = qgen] /\ Goto(c, "send")
              ELSE Goto(c, "failed") /\ UNCHANGED qid
  /\ UNCHANGED <<qlive, qgen, msgs, fname, nsent, shown, input, fsize>>

(***************************************************************************)
(* client.c:71-87: fgets the name (NULL is err_sys), strip the newline    *)
(* (a bare newline leaves n = 0) and send it as type 1.                    *)
(***************************************************************************)
CSend(c) ==
  /\ at[c] = "send"
  /\ \/ input[c] = EOF /\ Goto(c, "failed") /\ UNCHANGED msgs
     \/ input[c] = EmptyLine /\ MesgSend(c, Msg(1, 0, NoName, 0), "recv")
     \/ input[c] \in Names /\ MesgSend(c, Msg(1, 1, input[c], 0), "recv")
  /\ UNCHANGED <<qlive, qgen, qid, fname, nsent, shown, input, fsize>>

CRecv(c) ==
  /\ at[c] = "recv"
  /\ \/ /\ Stale(c)
        /\ Goto(c, "dumped") /\ UNCHANGED <<msgs, shown>>
     \/ /\ ~Stale(c) /\ First(2) # 0
        /\ msgs' = RemoveAt(msgs, First(2))
        /\ IF msgs[First(2)].len = 0
           THEN Goto(c, "rmid") /\ UNCHANGED shown
           ELSE \/ /\ shown' = [shown EXCEPT ![c] = Append(@, [name |-> msgs[First(2)].name,
                                                               k |-> msgs[First(2)].k])]
                   /\ UNCHANGED at
                \/ IOFail /\ Goto(c, "failed") /\ UNCHANGED shown
  /\ UNCHANGED <<qlive, qgen, qid, fname, nsent, input, fsize>>

\* client.c:50-54: msgctl(IPC_RMID), err_sys if the id is no longer valid
CRmid(c) ==
  /\ at[c] = "rmid"
  /\ IF Stale(c) THEN Goto(c, "failed") /\ UNCHANGED <<qlive, msgs>>
                 ELSE qlive' = FALSE /\ msgs' = <<>> /\ Goto(c, "exited")
  /\ UNCHANGED <<qgen, qid, fname, nsent, shown, input, fsize>>

\* a kill -9 at any step; the queue and its messages stay
Crash(p) ==
  /\ CanCrash /\ at[p] \notin Gone
  /\ Goto(p, "killed")
  /\ UNCHANGED <<qlive, qgen, msgs, qid, fname, nsent, shown, input, fsize>>

Server(s) == SGet(s) \/ SRecv(s) \/ SOpenFail(s) \/ SOpen(s) \/ SRead(s) \/ SEnd(s)
Client(c) == CGet(c) \/ CSend(c) \/ CRecv(c) \/ CRmid(c)

Proc(p) == (p \in Servers /\ Server(p)) \/ (p \in Clients /\ Client(p))

Next == \E p \in Procs : Proc(p) \/ Crash(p)

\* each process runs as long as it can: the kernel wakes a sleeper in
\* msgsnd or msgrcv once it can go on
Spec == Init /\ [][Next]_vars /\ \A p \in Procs : WF_vars(Proc(p))

----------------------------------------------------------------------------
Line == [name : Names \cup {NoName}, k : 0..MaxChunks]

TypeOK ==
  /\ qlive \in BOOLEAN /\ qgen \in 0..Cardinality(Servers)
  /\ msgs \in Seq([mtype : {1, 2}, len : {0, 1}, name : Names \cup {NoName},
                   k : 0..MaxChunks]) /\ Len(msgs) <= Cap
  /\ at \in [Procs -> {"start", "recv", "open", "read", "sendend", "send", "rmid"} \cup Gone]
  /\ qid \in [Procs -> 0..Cardinality(Servers)]
  /\ fname \in [Servers -> Names \cup {NoName}]
  /\ nsent \in [Servers -> 0..MaxChunks]
  /\ shown \in [Clients -> Seq(Line)]

\* what the server sends for file n: its chunks, or the one error text
Answer(n) ==
  IF fsize[n] = NOENT THEN <<[name |-> n, k |-> 0]>>
  ELSE [j \in 1..fsize[n] |-> [name |-> n, k |-> j]]

QueueRemovedAfterServer ==
  \A s \in Servers, c \in Clients :
    at[s] = "exited" ~> (~qlive \/ at[c] \in {"killed", "failed"})

(***************************************************************************)
(* The client always terminates (client.c:41-55 returns to the shell),    *)
(* with the server and client started in any order and nothing killed.    *)
(***************************************************************************)
ClientFinishes == \A c \in Clients : <>(at[c] \in Gone)

====
