------------------------------- MODULE RefSem -------------------------------
(***************************************************************************)
(* What the semaphore library promises (semaphore.h, semaphore.c:4-18):    *)
(* a counting semaphore named by a key that exists exactly while some      *)
(* process is attached to it.  The first process to attach creates it     *)
(* with its initial value, later ones just attach, and the last one to    *)
(* detach destroys it.  Wait and signal are atomic on its value.           *)
(***************************************************************************)
EXTENDS Naturals

CONSTANTS
  Procs,      \* the processes
  Keys,       \* the keys naming semaphores
  InitVals    \* the initial values a creator may ask for

VARIABLES
  exists,     \* exists[k]: the semaphore of key k exists
  holders,    \* holders[k]: the processes attached to it
  value       \* value[k]: its value (0 while it does not exist)

absvars == <<exists, holders, value>>

Init ==
  /\ exists = [k \in Keys |-> FALSE]
  /\ holders = [k \in Keys |-> {}]
  /\ value = [k \in Keys |-> 0]

\* create-or-open: the first attach creates it with value v
Attach(p, k, v) ==
  /\ p \notin holders[k]
  /\ holders' = [holders EXCEPT ![k] = @ \cup {p}]
  /\ IF exists[k]
     THEN UNCHANGED <<exists, value>>
     ELSE /\ exists' = [exists EXCEPT ![k] = TRUE]
          /\ value' = [value EXCEPT ![k] = v]

\* close: the last one to detach destroys it
Detach(p, k) ==
  /\ p \in holders[k]
  /\ holders' = [holders EXCEPT ![k] = @ \ {p}]
  /\ IF holders[k] = {p}
     THEN /\ exists' = [exists EXCEPT ![k] = FALSE]
          /\ value' = [value EXCEPT ![k] = 0]
     ELSE UNCHANGED <<exists, value>>

Wait(p, k) ==
  /\ p \in holders[k] /\ value[k] >= 1
  /\ value' = [value EXCEPT ![k] = @ - 1]
  /\ UNCHANGED <<exists, holders>>

Signal(p, k) ==
  /\ p \in holders[k]
  /\ value' = [value EXCEPT ![k] = @ + 1]
  /\ UNCHANGED <<exists, holders>>

Next ==
  \E p \in Procs, k \in Keys :
    \/ \E v \in InitVals : Attach(p, k, v)
    \/ Detach(p, k) \/ Wait(p, k) \/ Signal(p, k)

Spec == Init /\ [][Next]_absvars

=============================================================================
