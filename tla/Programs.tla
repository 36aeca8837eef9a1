------------------------------ MODULE Programs ------------------------------
(***************************************************************************)
(* The stand-alone programs of the repository checked in one model: a     *)
(* behaviour runs one suite, chosen at Init, while the variables of the   *)
(* others keep fixed idle values:                                          *)
(*   "shm"  the shared-memory pairs 10_shared_memory and 11_multi_buffer  *)
(*          (ShmPrograms);                                                 *)
(*   "conv" my_strtol and iptohex (Conversions);                           *)
(*   "mq"   the file server and client of 8_multiplexing_messages          *)
(*          (MsgQueue);                                                    *)
(*   "pipe" the same client and server over pipes, FIFOs and stream       *)
(*          messages (PipeServer: 3, 5 and 6 of chapter 3);               *)
(*   "inetd" the super-server of chapter 6, 12.inetd (Inetd), with        *)
(*          serv_arr's four services.                                      *)
(* Conversions' out and prog are renamed printed and program here.        *)
(***************************************************************************)
EXTENDS Integers

CONSTANTS srv, cli, Procs, Keys, SEMKEY1, SEMKEY2, BIGCOUNT, MaxSets,
          MaxChunks, IOFail,                          \* ShmPrograms, MsgQueue
          LongBits, Chars, MaxLen, Bases, Vals,       \* Conversions
          Servers, Clients, Names, Cap, CanCrash,     \* MsgQueue, PipeServer
          MaxReqs                                     \* Inetd

VARIABLES live, ids, semval, semadj, pc, ret, key, iv, id, rd, opv, blocked,
          err, shm, buf, file, nread, out, semid, si, ci, prog,
          str, base, arg, res, argc, fields, byte, status, printed, program,
          qlive, qgen, msgs, at, qid, fname, nsent, shown, input, fsize,
          variant, ploc, chan, wends, rends, line, files, req, sentc, got,
          read_sockfds, child_pid, udp_select_conn, sigpending, step, pid,
          cur, nextpid, kids, zombies, conq, dgq, nreq, udpload,
          suite     \* "shm", "conv", "mq", "pipe" or "inetd"

shmvars  == <<live, ids, semval, semadj, pc, ret, key, iv, id, rd, opv, blocked,
              err, shm, buf, file, nread, out, semid, si, ci, prog>>
convvars == <<str, base, arg, res, argc, fields, byte, status, printed, program>>
mqvars   == <<qlive, qgen, msgs, at, qid, fname, nsent, shown, input, fsize>>
pipevars == <<variant, ploc, chan, wends, rends, line, files, req, sentc, got>>
inetdvars == <<read_sockfds, child_pid, udp_select_conn, sigpending, step, pid,
               cur, nextpid, kids, zombies, conq, dgq, nreq, udpload>>
vars     == <<shmvars, convvars, mqvars, pipevars, inetdvars, suite>>

SP == INSTANCE ShmPrograms
CV == INSTANCE Conversions WITH out <- printed, prog <- program
MQ == INSTANCE MsgQueue
PS == INSTANCE PipeServer

\* serv_arr of inetd.c:168-194, in its order, and its stream services
ServArr    == <<"str_echo", "dg_echo", "str_dis", "dg_dis">>
StreamServ == {"str_echo", "str_dis"}
INET == INSTANCE Inetd WITH Serv <- ServArr, Stream <- StreamServ, SysFail <- IOFail

\* the values the variables of the suites not running keep
ShmIdle  == prog = "pp" /\ SP!PP!Init /\ si = 0 /\ ci = 0 /\ file = SP!PP!NOENT
ConvIdle == program = "strtol" /\ CV!SIdle /\ CV!IIdle
MQIdle   == MQ!Init /\ input = [c \in Clients |-> MQ!EOF]
            /\ fsize = [n \in Names |-> MQ!NOENT]
PipeIdle == PS!PInit /\ variant = "pipe" /\ line = PS!EOF
            /\ files = [n \in Names |-> PS!NOENT]

\* Inetd's initial state is also its idle one: nothing moves outside its suite
Init ==
  /\ INET!Init
  /\ \/ suite = "shm"  /\ SP!Init /\ ConvIdle /\ MQIdle /\ PipeIdle
     \/ suite = "conv" /\ CV!Init /\ ShmIdle /\ MQIdle /\ PipeIdle
     \/ suite = "mq"   /\ MQ!Init /\ ShmIdle /\ ConvIdle /\ PipeIdle
     \/ suite = "pipe" /\ PS!PInit /\ ShmIdle /\ ConvIdle /\ MQIdle
     \/ suite = "inetd" /\ ShmIdle /\ ConvIdle /\ MQIdle /\ PipeIdle

ShmStep(p) == suite = "shm" /\ SP!Step(p) /\ UNCHANGED <<convvars, mqvars, pipevars, inetdvars, suite>>
ConvStep   == suite = "conv" /\ CV!Next /\ UNCHANGED <<shmvars, mqvars, pipevars, inetdvars, suite>>
MQStep(p)  == suite = "mq" /\ MQ!Proc(p) /\ UNCHANGED <<shmvars, convvars, pipevars, inetdvars, suite>>
MQCrash(p) == suite = "mq" /\ MQ!Crash(p) /\ UNCHANGED <<shmvars, convvars, pipevars, inetdvars, suite>>

\* a step of the pipe suite: A is one of PipeServer's actions
PipeStep(A) == suite = "pipe" /\ A /\ UNCHANGED <<shmvars, convvars, mqvars, inetdvars, suite>>

\* a step of the inetd suite: A is one of Inetd's groups of actions
InetdStep(A) == suite = "inetd" /\ A /\ UNCHANGED <<shmvars, convvars, mqvars, pipevars, suite>>

Next ==
  \/ \E p \in Procs : ShmStep(p)
  \/ ConvStep
  \/ \E p \in MQ!Procs : MQStep(p) \/ MQCrash(p)
  \/ PipeStep(PS!ParentStep) \/ PipeStep(PS!ChildStep)
  \/ PipeStep(PS!Open1) \/ PipeStep(PS!Open2)
  \/ \E r \in PS!PProcs : PipeStep(PS!PKill(r))
  \/ InetdStep(INET!Main) \/ InetdStep(INET!SigChild)
  \/ InetdStep(INET!Serve) \/ InetdStep(INET!Env)

\* each suite's own fairness: every process runs while it can
Spec == Init /\ [][Next]_vars
        /\ \A p \in Procs : WF_vars(ShmStep(p))
        /\ \A q \in MQ!Procs : WF_vars(MQStep(q))
        /\ WF_vars(PipeStep(PS!ParentStep)) /\ WF_vars(PipeStep(PS!ChildStep))
        /\ WF_vars(PipeStep(PS!Open1)) /\ WF_vars(PipeStep(PS!Open2))
        /\ WF_vars(InetdStep(INET!Main)) /\ WF_vars(InetdStep(INET!SigChild))
        /\ WF_vars(InetdStep(INET!Serve))

----------------------------------------------------------------------------
TypeOK ==
  /\ suite \in {"shm", "conv", "mq", "pipe", "inetd"}
  /\ suite = "shm"  => SP!TypeOK /\ ConvIdle /\ MQIdle /\ PipeIdle /\ INET!Init
  /\ suite = "conv" => CV!TypeOK /\ ShmIdle /\ MQIdle /\ PipeIdle /\ INET!Init
  /\ suite = "mq"   => MQ!TypeOK /\ ShmIdle /\ ConvIdle /\ PipeIdle /\ INET!Init
  /\ suite = "pipe" => PS!PTypeOK /\ ShmIdle /\ ConvIdle /\ MQIdle /\ INET!Init
  /\ suite = "inetd" => INET!ITypeOK /\ ShmIdle /\ ConvIdle /\ MQIdle /\ PipeIdle

(***************************************************************************)
(* The shared-memory client prints the server's answer in order, each     *)
(* message once, and all of it once it leaves its loop (ShmPrograms'      *)
(* OutputIsFile).                                                          *)
(***************************************************************************)
OutputIsFile == SP!OutputIsFile

(***************************************************************************)
(* In 10_shared_memory, once the client holds both semaphores the server  *)
(* runs to its exit unless the client died in err_sys.                     *)
(***************************************************************************)
PingPongServerFinishes == SP!PingPongServerFinishes

(***************************************************************************)
(* In 11_multi_buffer, once the client holds both semaphores it runs to   *)
(* its exit unless the server died of a read error (the busy-wait at      *)
(* server.c:77).                                                           *)
(***************************************************************************)
MultiBufClientFinishes == SP!MultiBufClientFinishes

(***************************************************************************)
(* my_strtol returns the exact value, with no error, of any run of digits *)
(* it accepts whose value fits in a long.                                  *)
(***************************************************************************)
FitsExact == CV!FitsExact

(***************************************************************************)
(* iptohex prints every accepted byte as exactly its eight bits.          *)
(***************************************************************************)
BitsAreBinary == CV!BitsAreBinary

QueueRemovedAfterServer == MQ!QueueRemovedAfterServer

(***************************************************************************)
(* Over pipes, FIFOs and stream messages the client's stdout is the start *)
(* of the answer to its name, and all of it when both processes exit      *)
(* normally (PipeServer's PipeOutputIsAnswer).                             *)
(***************************************************************************)
PipeOutputIsAnswer == PS!PipeOutputIsAnswer

(***************************************************************************)
(* The forking main of 3, 5 and 6 always ends, except for a kill during   *)
(* the FIFO rendezvous and the raw transports' bare-newline hang          *)
(* (PipeServer's PipeClientFinishes).                                      *)
(***************************************************************************)
PipeClientFinishes == suite = "pipe" => PS!PipeClientFinishes

(***************************************************************************)
(* inetd never runs two servers on one datagram socket (Inetd's           *)
(* OneServerPerDgram: the FD_CLR of inetd.c:489-495 against the           *)
(* handler's FD_SET).                                                      *)
(***************************************************************************)
OneServerPerDgram == INET!OneServerPerDgram

(***************************************************************************)
(* inetd's udp_select_conn, despite the race of its ++ at inetd.c:445     *)
(* with the handler's -- at 524, counts every busy datagram service when  *)
(* main rebuilds the select set (Inetd's ResetSeesBusy).                  *)
(***************************************************************************)
ResetSeesBusy == suite = "inetd" => INET!ResetSeesBusy

====
