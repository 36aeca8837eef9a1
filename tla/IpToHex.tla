------------------------------- MODULE IpToHex -------------------------------
(***************************************************************************)
(* Chapter 5 - Communication Protocols/Exercises/tools/iptohex.c: main    *)
(* scans a dotted address with sscanf("%u.%u.%u.%u"), rejects a field      *)
(* above 255 and prints the address in hex, each byte in binary (through  *)
(* int_to_int and "%08d") and the bytes in reverse order.  The printing   *)
(* is modelled by what it produces: the hex and reversed lines as the      *)
(* byte sequences they spell, the binary line as the eight-character      *)
(* digit strings "%08d" makes of int_to_int's results.                     *)
(* The _TEST_FUNCTION block (htobe32, inet_aton) is compiled only by      *)
(* "make test" and is not modelled.                                        *)
(***************************************************************************)
EXTENDS Integers, Sequences, SequencesExt

CONSTANTS
  Vals        \* the numbers sscanf's %u can deliver for a field

VARIABLES
  argc,       \* number of command-line words
  fields,     \* sscanf's return: the number of fields matched
  byte,       \* byte1..byte4 after sscanf (unmatched ones stay 0)
  status,     \* "running", or how the program exited
  out         \* what it printed on stdout (NoOutput if nothing)

vars == <<argc, fields, byte, status, out>>

NoOutput == [lines |-> "none"]

RECURSIVE IntToInt(_)

\* Mutation variant: int_to_int putting the low bit in the high digit
IntToIntSwapped(k) ==
  IF k \in {0, 1} THEN k ELSE 10 * (k % 2) + IntToInt(k \div 2)

\* iptohex.c:13-15, int_to_int: the decimal number whose digits are k's bits
IntToInt(k) == IF k \in {0, 1} THEN k ELSE (k % 2) + 10 * IntToInt(k \div 2)

\* the decimal digits of n >= 0, most significant first
RECURSIVE Decimal(_)
Decimal(n) == IF n < 10 THEN <<n>> ELSE Decimal(n \div 10) \o <<n % 10>>

\* printf's "%08d" for n >= 0: its digits, zero-padded on the left to eight
Fmt08d(n) == [j \in 1..(8 - Len(Decimal(n))) |-> 0] \o Decimal(n)

\* Mutation variant: the bound check letting 256 through
OutOfBoundOffByOne(b) == \E j \in 1..4 : b[j] > 256

\* iptohex.c:73: a field does not fit in a byte
OutOfBound(b) == \E j \in 1..4 : b[j] > 255

Init ==
  /\ argc \in {1, 2}
  /\ fields \in 0..4
  /\ byte \in {b \in [1..4 -> Vals] : \A j \in 1..4 : j > fields => b[j] = 0}
  /\ status = "running"
  /\ out = NoOutput

(***************************************************************************)
(* iptohex.c:19-90, main.  With too few fields it reports with perror and *)
(* still exits with EXIT_SUCCESS (iptohex.c:71 and 89).                    *)
(***************************************************************************)
Main ==
  /\ status = "running"
  /\ CASE argc # 2 -> status' = "failure" /\ out' = NoOutput
       [] fields < 4 -> status' = "success" /\ out' = NoOutput
       [] OutOfBound(byte) -> status' = "failure" /\ out' = NoOutput
       [] OTHER ->
            /\ status' = "success"
            /\ out' = [hex  |-> byte,
                       bits |-> [j \in 1..4 |-> Fmt08d(IntToInt(byte[j]))],
                       inet |-> Reverse(byte)]
  /\ UNCHANGED <<argc, fields, byte>>

Next == Main

Spec == Init /\ [][Next]_vars

----------------------------------------------------------------------------
TypeOK ==
  /\ argc \in {1, 2} /\ fields \in 0..4 /\ byte \in [1..4 -> Vals]
  /\ status \in {"running", "success", "failure"}
  /\ out = NoOutput \/ DOMAIN out = {"hex", "bits", "inet"}

\* the eight bits of a byte, most significant first
Bits8(b) == [j \in 1..8 |-> (b \div 2 ^ (8 - j)) % 2]

(***************************************************************************)
(* Every "bits" field main prints is exactly the eight-bit binary form of *)
(* its byte: the 255 bound (iptohex.c:73) keeps int_to_int's result to    *)
(* eight decimal digits, so "%08d" pads it to exactly one octet.           *)
(***************************************************************************)
BitsAreBinary ==
  out # NoOutput => \A j \in 1..4 : out.bits[j] = Bits8(out.hex[j])

====
