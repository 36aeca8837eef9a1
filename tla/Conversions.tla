----------------------------- MODULE Conversions -----------------------------
(***************************************************************************)
(* The two number-conversion programs checked in one model: a behaviour   *)
(* runs either my_strtol (Strtol: a call from main or from a caller with  *)
(* its own base) or iptohex (IpToHex), chosen at Init.  The variables of  *)
(* the program not running keep fixed values.                              *)
(***************************************************************************)
EXTENDS Integers

CONSTANTS LongBits, Chars, MaxLen, Bases, Vals

VARIABLES str, base, arg, res,                 \* Strtol
          argc, fields, byte, status, out,     \* IpToHex
          prog                                 \* "strtol" or "iptohex"

svars == <<str, base, arg, res>>
ivars == <<argc, fields, byte, status, out>>
vars  == <<svars, ivars, prog>>

S == INSTANCE Strtol
I == INSTANCE IpToHex

\* the values the variables of the program not running keep
SIdle == str = <<>> /\ base = 0 /\ arg = S!NoArg /\ res = S!Pending
IIdle == argc = 1 /\ fields = 0 /\ byte = [j \in 1..4 |-> 0]
         /\ status = "running" /\ out = I!NoOutput

Init ==
  \/ prog = "strtol"  /\ S!Init /\ IIdle
  \/ prog = "iptohex" /\ I!Init /\ SIdle

Next ==
  \/ prog = "strtol"  /\ S!Next /\ UNCHANGED <<ivars, prog>>
  \/ prog = "iptohex" /\ I!Next /\ UNCHANGED <<svars, prog>>

Spec == Init /\ [][Next]_vars

----------------------------------------------------------------------------
TypeOK ==
  /\ prog \in {"strtol", "iptohex"}
  /\ prog = "strtol" => S!TypeOK /\ IIdle
  /\ prog = "iptohex" => I!TypeOK /\ SIdle

(***************************************************************************)
(* my_strtol returns the exact value, with no error, of any run of digits *)
(* it accepts whose value fits in a long (Strtol's FitsExact).            *)
(***************************************************************************)
FitsExact == S!FitsExact

(***************************************************************************)
(* iptohex prints every accepted byte as exactly its eight bits (IpToHex's *)
(* BitsAreBinary).                                                         *)
(***************************************************************************)
BitsAreBinary == I!BitsAreBinary

====
