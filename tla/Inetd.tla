-------------------------------- MODULE Inetd --------------------------------
(***************************************************************************)
(* Chapter 6, Sockets/12.inetd: the super-server.  inetd.c binds one      *)
(* socket per entry of serv_arr (stream str_echo and str_dis, datagram    *)
(* dg_echo and dg_dis) and loops on select over read_sockfds.  It handles *)
(* the first ready socket in serv_arr order: a stream socket is accepted  *)
(* and the connection handed to a forked child; a datagram socket is      *)
(* handed itself to a forked child, whose pid inetd keeps in child_pid,   *)
(* and is left out of the select set while that child runs.  The SIGCHLD *)
(* handler sig_child reaps a child and, if it is a datagram server, puts  *)
(* its socket back in read_sockfds.                                        *)
(*                                                                         *)
(* The handler is a step of its own that runs whenever SIGCHLD is pending *)
(* and inetd is between two of its steps; SIGCHLD is a standard signal, so *)
(* a second child exit while it is pending is lost in the first.  select  *)
(* overwrites read_sockfds with the ready sockets; interrupted (EINTR) it *)
(* leaves it as it was, and the loop calls it again with whatever the     *)
(* handler added.  Connections and datagrams are counted, a datagram is   *)
(* "data" or the server's quit command; the children after exec are the   *)
(* servers' loops: dg_echo until "udpquit", str_echo until its client      *)
(* quits or closes.  An accept or fork that fails ends inetd in           *)
(* exit(EXIT_FAILURE) (with SysFail).  udp_select_conn is a plain int that *)
(* main increments and the handler decrements: main's ++ is a load and a  *)
(* store, and the handler can run between them.                           *)
(***************************************************************************)
EXTENDS Integers, Sequences, SequencesExt, FiniteSets

CONSTANTS
  Serv,       \* the services in serv_arr order
  Stream,     \* the stream (sock_type 0) ones; the others are datagram
  MaxReqs,    \* connections and datagrams the clients send in all
  SysFail     \* accept and fork may fail

Services == ToSet(Serv)
Dgram    == Services \ Stream
Kinds    == {"data", "quit"}

VARIABLES
  read_sockfds,     \* the fd_set inetd passes to select
  child_pid,        \* child_pid[s]: the server of datagram s, 0 for none, -1 for stream
  udp_select_conn,  \* datagram services inetd counts as busy
  sigpending,       \* SIGCHLD is pending
  step,             \* where inetd's loop is
  pid,              \* main's pid: what the last fork returned
  cur,              \* the service being handled
  nextpid,          \* the pid the next fork returns
  kids,             \* running children, as [pid, svc]
  zombies,          \* children that exited and are not reaped
  conq,             \* conq[s]: connection requests waiting on stream s
  dgq,              \* dgq[s]: datagrams waiting on datagram socket s
  nreq,             \* requests sent so far
  udpload           \* the value of udp_select_conn main's ++ loaded

vars == <<read_sockfds, child_pid, udp_select_conn, sigpending, step, pid,
          cur, nextpid, kids, zombies, conq, dgq, nreq, udpload>>
clientvars == <<conq, dgq, nreq>>

NoService == "none"

\* inetd.c:130-132, 165-277: serv_arr, the sockets bound and all FD_SET
Init ==
  /\ read_sockfds = Services
  /\ child_pid = [s \in Services |-> IF s \in Stream THEN -1 ELSE 0]
  /\ udp_select_conn = 0
  /\ sigpending = FALSE
  /\ step = "select"
  /\ pid = 0 /\ cur = NoService /\ nextpid = 1
  /\ kids = {} /\ zombies = {}
  /\ conq = [s \in Stream |-> 0]
  /\ dgq = [s \in Dgram |-> <<>>]
  /\ nreq = 0
  /\ udpload = 0

Readable(s) == IF s \in Stream THEN conq[s] > 0 ELSE dgq[s] # <<>>

\* inetd.c:300-301: the first service in serv_arr order whose bit is set
FirstSet(S) ==
  Serv[CHOOSE i \in DOMAIN Serv : Serv[i] \in S /\ \A j \in 1..(i - 1) : Serv[j] \notin S]

\* inetd.c:284-292: select returns with read_sockfds cut to the ready sockets
Select ==
  /\ step = "select"
  /\ \E s \in read_sockfds : Readable(s)
  /\ read_sockfds' = {s \in read_sockfds : Readable(s)}
  /\ step' = "scan"
  /\ UNCHANGED <<child_pid, udp_select_conn, sigpending, pid, cur, nextpid,
                 kids, zombies, clientvars, udpload>>

(***************************************************************************)
(* inetd.c:330-417: accept, fork a child for the connection, close it,    *)
(* break; an accept error or a fork error is exit(EXIT_FAILURE) of inetd  *)
(* (lines 333-340, 388-395).                                               *)
(***************************************************************************)
Accept ==
  /\ step = "scan"
  /\ FirstSet(read_sockfds) \in Stream
  /\ \/ /\ LET s == FirstSet(read_sockfds) IN
             /\ conq' = [conq EXCEPT ![s] = @ - 1]
             /\ kids' = kids \cup {[pid |-> nextpid, svc |-> s]}
        /\ nextpid' = nextpid + 1
        /\ step' = "reset"
     \/ /\ SysFail
        /\ step' = "exited"
        /\ UNCHANGED <<conq, kids, nextpid>>
  /\ UNCHANGED <<read_sockfds, child_pid, udp_select_conn, sigpending, pid,
                 cur, zombies, dgq, nreq, udpload>>

\* inetd.c:418-442: fork a child that takes over the datagram socket; a
\* fork error is exit(EXIT_FAILURE) (lines 423-425)
ForkDgram ==
  /\ step = "scan"
  /\ FirstSet(read_sockfds) \in Dgram
  /\ \/ /\ kids' = kids \cup {[pid |-> nextpid, svc |-> FirstSet(read_sockfds)]}
        /\ pid' = nextpid
        /\ cur' = FirstSet(read_sockfds)
        /\ nextpid' = nextpid + 1
        /\ step' = "record"
     \/ /\ SysFail
        /\ step' = "exited"
        /\ UNCHANGED <<kids, pid, cur, nextpid>>
  /\ UNCHANGED <<read_sockfds, child_pid, udp_select_conn, sigpending,
                 zombies, clientvars, udpload>>

\* inetd.c:443-445: the parent records the child, and its ++ loads the count
Record ==
  /\ step = "record"
  /\ child_pid' = [child_pid EXCEPT ![cur] = pid]
  /\ udpload' = udp_select_conn
  /\ step' = "inc"
  /\ UNCHANGED <<read_sockfds, udp_select_conn, sigpending, pid, cur,
                 nextpid, kids, zombies, clientvars>>

\* Mutation variant: the parent not counting the busy datagram service
RecordNoCount ==
  /\ step = "inc"
  /\ step' = "reset"
  /\ UNCHANGED <<read_sockfds, child_pid, udp_select_conn, sigpending, pid,
                 cur, nextpid, kids, zombies, clientvars, udpload>>

\* inetd.c:445-446: the ++ stores the loaded count plus one, then break
RecordInc ==
  /\ step = "inc"
  /\ udp_select_conn' = udpload + 1
  /\ step' = "reset"
  /\ UNCHANGED <<read_sockfds, child_pid, sigpending, pid, cur, nextpid,
                 kids, zombies, clientvars, udpload>>

\* the datagram services main leaves out of the next select
Busy == IF udp_select_conn # 0 THEN {s \in Dgram : child_pid[s] # 0} ELSE {}

\* Mutation variant: the FD_CLR loop left out
ResetNoClear ==
  /\ step = "reset"
  /\ read_sockfds' = Services
  /\ step' = "select"
  /\ UNCHANGED <<child_pid, udp_select_conn, sigpending, pid, cur, nextpid,
                 kids, zombies, clientvars, udpload>>

\* inetd.c:486-495: FD_SET every socket, then FD_CLR the busy datagram ones
Reset ==
  /\ step = "reset"
  /\ read_sockfds' = Services \ Busy
  /\ step' = "select"
  /\ UNCHANGED <<child_pid, udp_select_conn, sigpending, pid, cur, nextpid,
                 kids, zombies, clientvars, udpload>>

(***************************************************************************)
(* inetd.c:507-531, sig_child: one waitpid(-1, WNOHANG); if the pid is a  *)
(* datagram server's, set its socket again and mark the service free.     *)
(* The break at line 529 ends the while loop after the first child.  A   *)
(* pending SIGCHLD always has a zombie to reap, so waitpid's 0 is not a   *)
(* case.                                                                   *)
(***************************************************************************)
SigChild ==
  /\ sigpending /\ step # "exited"
  /\ sigpending' = FALSE
  /\ \E z \in zombies :
       /\ zombies' = zombies \ {z}
       /\ IF \E s \in Services : child_pid[s] = z.pid
          THEN LET s == CHOOSE s \in Services : child_pid[s] = z.pid IN
                 /\ read_sockfds' = read_sockfds \cup {s}
                 /\ udp_select_conn' = udp_select_conn - 1
                 /\ child_pid' = [child_pid EXCEPT ![s] = 0]
          ELSE UNCHANGED <<read_sockfds, child_pid, udp_select_conn>>
  /\ UNCHANGED <<step, pid, cur, nextpid, kids, clientvars, udpload>>

\* a child's exit: it becomes a zombie and SIGCHLD is (still) pending
Exit(k) ==
  /\ kids' = kids \ {k}
  /\ zombies' = zombies \cup {k}
  /\ sigpending' = TRUE

(***************************************************************************)
(* dg_echo.c:22-51: recvfrom takes the next datagram; "udpquit" ends the  *)
(* loop and the process, anything else is echoed.                         *)
(***************************************************************************)
DgServe(k) ==
  /\ k \in kids /\ k.svc \in Dgram
  /\ dgq[k.svc] # <<>>
  /\ dgq' = [dgq EXCEPT ![k.svc] = Tail(@)]
  /\ IF Head(dgq[k.svc]) = "quit" THEN Exit(k) ELSE UNCHANGED <<kids, zombies, sigpending>>
  /\ UNCHANGED <<read_sockfds, child_pid, udp_select_conn, step, pid, cur,
                 nextpid, conq, nreq, udpload>>

\* str_echo.c:16-37: the connection's server ends when its client quits or closes
StrExit(k) ==
  /\ k \in kids /\ k.svc \in Stream
  /\ Exit(k)
  /\ UNCHANGED <<read_sockfds, child_pid, udp_select_conn, step, pid, cur,
                 nextpid, clientvars, udpload>>

\* the clients: a connection request or a datagram, up to MaxReqs in all
Connect(s) ==
  /\ nreq < MaxReqs
  /\ conq' = [conq EXCEPT ![s] = @ + 1] /\ nreq' = nreq + 1
  /\ UNCHANGED <<read_sockfds, child_pid, udp_select_conn, sigpending, step,
                 pid, cur, nextpid, kids, zombies, dgq, udpload>>

SendDgram(s, m) ==
  /\ nreq < MaxReqs
  /\ dgq' = [dgq EXCEPT ![s] = Append(@, m)] /\ nreq' = nreq + 1
  /\ UNCHANGED <<read_sockfds, child_pid, udp_select_conn, sigpending, step,
                 pid, cur, nextpid, kids, zombies, conq, udpload>>

Main  == Select \/ Accept \/ ForkDgram \/ Record \/ RecordInc \/ Reset
Serve == \E k \in kids : DgServe(k)
Env   == \/ \E k \in kids : StrExit(k)
         \/ \E s \in Stream : Connect(s)
         \/ \E s \in Dgram, m \in Kinds : SendDgram(s, m)

Next == Main \/ SigChild \/ Serve \/ Env

(***************************************************************************)
(* inetd runs until it exits, a pending signal is delivered, and a        *)
(* datagram server blocked in recvfrom runs once a datagram is queued.    *)
(* The clients, and when a stream client ends its connection, are free.   *)
(***************************************************************************)
Spec == Init /\ [][Next]_vars /\ WF_vars(Main) /\ WF_vars(SigChild) /\ WF_vars(Serve)

----------------------------------------------------------------------------
ITypeOK ==
  /\ read_sockfds \subseteq Services
  /\ child_pid \in [Services -> {-1} \cup 0..(nextpid - 1)]
  /\ udp_select_conn \in -1..nextpid /\ udpload \in 0..nextpid
  /\ sigpending \in BOOLEAN
  /\ step \in {"select", "scan", "record", "inc", "reset", "exited"}
  /\ cur \in Services \cup {NoService}
  /\ \A k \in kids \cup zombies : k.pid \in 1..(nextpid - 1) /\ k.svc \in Services
  /\ conq \in [Stream -> 0..MaxReqs] /\ dgq \in [Dgram -> Seq(Kinds)]
  /\ nreq \in 0..MaxReqs

(***************************************************************************)
(* A datagram socket is served by one process at a time: inetd never      *)
(* forks a second server for it while the first still runs (the FD_CLR   *)
(* of inetd.c:489-495, gated on udp_select_conn, against the handler's    *)
(* FD_SET at line 523 and the select result the scan reads).               *)
(***************************************************************************)
OneServerPerDgram ==
  \A s \in Dgram : Cardinality({k \in kids : k.svc = s}) <= 1

(***************************************************************************)
(* When main rebuilds the select set (inetd.c:486-495), udp_select_conn   *)
(* counts at least every datagram service with a recorded server, so the  *)
(* gate at line 489 never skips the FD_CLR of a busy socket, although     *)
(* main's udp_select_conn++ (line 445) races the handler's                *)
(* udp_select_conn-- (line 524) on a plain int: a lost decrement can only *)
(* leave the count too high.                                               *)
(***************************************************************************)
ResetSeesBusy ==
  step = "reset" =>
    udp_select_conn >= Cardinality({s \in Dgram : child_pid[s] # 0})

(***************************************************************************)
(* Once no server runs for a datagram service, inetd eventually selects   *)
(* on its socket again, unless a new server has taken it (the comment at  *)
(* inetd.c:64-69: the handler "turns on the appropriate bit"; and at      *)
(* 149-151: the service is "again ready-to-read").                         *)
(***************************************************************************)
Served(s) == \E k \in kids : k.svc = s

DgServiceRestored ==
  \A s \in Dgram :
    ~Served(s) ~> (Served(s) \/ (step = "select" /\ s \in read_sockfds))

====
