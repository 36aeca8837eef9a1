------------------------------- MODULE Strtol -------------------------------
(***************************************************************************)
(* my_strtol (my_ emulation/library_functions/strtol/strtol.c): the       *)
(* emulation of strtol(3) for bases 0 and 2..36, translated as operators, *)
(* and the program's main, which calls it on argv[1].                      *)
(*                                                                         *)
(* A string is a sequence of ASCII codes; position k (0-based, as the     *)
(* pointer str + k) past its end reads as the terminating '\0'.  long is  *)
(* a two's complement integer of LongBits bits: the code detects overflow *)
(* by the wrap-around of signed arithmetic (the result changes sign), and *)
(* the build wraps, so every product and sum is taken modulo 2^LongBits.   *)
(* LongBits is scaled down from 64 so that short strings reach the edges. *)
(***************************************************************************)
EXTENDS Integers, Sequences, SequencesExt

CONSTANTS
  LongBits,   \* width of long
  Chars,      \* the characters strings are made of (ASCII codes)
  MaxLen,     \* the longest string
  Bases       \* the base arguments callers pass

ASSUME /\ LongBits \in Nat /\ 2 ^ (LongBits - 1) > 35   \* every digit fits, as in 64 bits
       /\ Chars \subseteq 1..127 /\ MaxLen \in Nat
       /\ Bases \subseteq Int

VARIABLES
  str,        \* the string argument (argv[1] in main)
  base,       \* the base a caller wants
  arg,        \* the base the call passed (NoArg before the call)
  res         \* what the call returned: Pending, NoCall or a Result

vars == <<str, base, arg, res>>

Half == 2 ^ (LongBits - 1)

\* the value a long holds after an operation whose exact result is x
Wrap(x) == ((x + Half) % (2 * Half)) - Half

\* the ASCII codes of ' ', '-', '+', '0', '1', '9', 'a', 'x' and 'X'
SP == 32
MINUS == 45
PLUS == 43
ZERO == 48
ONE == 49
NINE == 57
LA == 97
LX == 120
UX == 88

IsAlpha(c) == c \in 65..90 \cup 97..122
ToLower(c) == IF c \in 65..90 THEN c + 32 ELSE c

\* the character at str + k
At(s, k) == IF k < Len(s) THEN s[k + 1] ELSE 0

NoEnd == -1        \* *endptr not assigned
NoArg == -1
Pending == [phase |-> "pending"]
NoCall == [phase |-> "nocall"]

\* the call's outcome: the return value, errno, where *endptr was pointed
\* (NoEnd if not) and whether '\0' was stored through *endptr; and, when it
\* reached checkstr, where str pointed there (at) and the base it used
Result(r, e, end, nul, at, b) ==
  [ret |-> r, errno |-> e, end |-> end, nul |-> nul, at |-> at, b |-> b]

\* an early EINVAL return, before checkstr
Einval(end) == Result(0, "EINVAL", end, FALSE, NoEnd, 0)

\* strtol.c:150-152: skip leading blanks
RECURSIVE SkipSpaces(_, _)
SkipSpaces(s, k) == IF At(s, k) = SP THEN SkipSpaces(s, k + 1) ELSE k

\* strtol.c:375-383: base ^ exponent by repeated long multiplication
RECURSIVE Power(_, _)
Power(b, e) == IF e = 0 THEN 1 ELSE Wrap(Power(b, e - 1) * b)

\* strtol.c:245-263: the scan stops at the character c in base b
Rejects(c, b) ==
  IF b > 10 THEN IsAlpha(c) /\ ToLower(c) - LA >= b - 10
            ELSE IsAlpha(c) \/ c - ZERO > b - 1

\* strtol.c:244-264: the number i of characters accepted from position k
RECURSIVE ScanLen(_, _, _)
ScanLen(s, k, b) ==
  IF At(s, k) = 0 \/ Rejects(At(s, k), b) THEN 0 ELSE 1 + ScanLen(s, k + 1, b)


\* Mutation variant: DigitOf without tolower, misreading capital letters
DigitOfNoLower(c, b) == IF b > 10 /\ IsAlpha(c) THEN c - LA + 10 ELSE c - ZERO

\* strtol.c:320-324 and 348: the digit a character stands for
DigitOf(c, b) == IF b > 10 /\ IsAlpha(c) THEN ToLower(c) - LA + 10 ELSE c - ZERO

(***************************************************************************)
(* strtol.c:318-372: from the last accepted character (index j) back to   *)
(* the first, result -/+= base^exponent * digit, and ERANGE (return 0) as *)
(* soon as the result moves the wrong way from prev_res.                   *)
(***************************************************************************)
RECURSIVE Accum(_, _, _, _, _, _, _)
Accum(s, k, b, neg, j, e, r) ==
  IF j < 0 THEN [ret |-> r, errno |-> "none"]
  ELSE LET t  == Wrap(Power(b, e) * DigitOf(At(s, k + j), b))
           r2 == IF neg THEN Wrap(r - t) ELSE Wrap(r + t)
       IN  IF (neg /\ r2 > r) \/ (~neg /\ r2 < r)
           THEN [ret |-> 0, errno |-> "ERANGE"]
           ELSE Accum(s, k, b, neg, j - 1, e + 1, r2)

(***************************************************************************)
(* strtol.c:232-372 (label checkstr): scan, set *endptr, convert.  When   *)
(* every character up to '\0' is accepted, the code stores '\0' through   *)
(* *endptr, as in **endptr = 0, instead of pointing *endptr at the end.   *)
(***************************************************************************)
CheckStr(s, k, b, neg) ==
  LET n == ScanLen(s, k, b)
      a == Accum(s, k, b, neg, n - 1, 0, 0)
  IN  IF n = 0 THEN Result(0, "EINVAL", k, FALSE, k, b)
      ELSE IF At(s, k + n) = 0 THEN Result(a.ret, a.errno, NoEnd, TRUE, k, b)
      ELSE Result(a.ret, a.errno, k + n, FALSE, k, b)

\* Mutation variant: base 16 skipping two characters after any leading 0
StripPrefixNoX(s, k, b) ==
  CASE b = 8 /\ At(s, k) = ZERO -> k + 1
    [] b = 16 /\ At(s, k) = ZERO -> k + 2
    [] OTHER -> k

\* strtol.c:172-182: the optional "0" of base 8 and "0x"/"0X" of base 16
StripPrefix(s, k, b) ==
  CASE b = 8 /\ At(s, k) = ZERO -> k + 1
    [] b = 16 /\ At(s, k) = ZERO /\ At(s, k + 1) \in {LX, UX} -> k + 2
    [] OTHER -> k

(***************************************************************************)
(* strtol.c:148-373, my_strtol: blanks, sign, prefix, then base 0 picks   *)
(* 16 after "0x", 8 after "0" (which it consumes) and 10 before 1-9;      *)
(* base 2 must start with 0 or 1; other bases outside 2..36 are EINVAL    *)
(* without touching *endptr.                                               *)
(***************************************************************************)
MyStrtol(s, b) ==
  LET k0  == SkipSpaces(s, 0)
      neg == At(s, k0) = MINUS
      k1  == IF At(s, k0) \in {PLUS, MINUS} THEN k0 + 1 ELSE k0
      k   == StripPrefix(s, k1, b)
  IN  CASE b = 0 /\ At(s, k) = ZERO /\ At(s, k + 1) \in {LX, UX} ->
             CheckStr(s, k + 2, 16, neg)
        [] b = 0 /\ At(s, k) = ZERO -> CheckStr(s, k + 1, 8, neg)
        [] b = 0 /\ At(s, k) \in ONE..NINE -> CheckStr(s, k, 10, neg)
        [] b = 0 -> Einval(k)
        [] b = 2 /\ At(s, k) \notin {ZERO, ONE} -> Einval(k)
        [] b <= 1 \/ b > 36 -> Einval(NoEnd)
        [] OTHER -> CheckStr(s, k, b, neg)

Strings == UNION {[1..n -> Chars] : n \in 0..MaxLen}

Init ==
  /\ str \in Strings
  /\ base \in Bases
  /\ arg = NoArg
  /\ res = Pending

\* a program calling my_strtol(str, &end, base)
Call ==
  /\ res = Pending
  /\ arg' = base
  /\ res' = MyStrtol(str, base)
  /\ UNCHANGED <<str, base>>

(***************************************************************************)
(* strtol.c:46-98, main: it asks for a base and scanf's it, but passes 0  *)
(* to my_strtol whatever was entered (strtol.c:77); when scanf matches no  *)
(* number it makes no call.                                                *)
(***************************************************************************)
Main ==
  /\ res = Pending
  /\ \/ arg' = 0 /\ res' = MyStrtol(str, 0)
     \/ arg' = NoArg /\ res' = NoCall
  /\ UNCHANGED <<str, base>>

Next == Call \/ Main

Spec == Init /\ [][Next]_vars

----------------------------------------------------------------------------
TypeOK ==
  /\ str \in Strings /\ base \in Bases /\ arg \in {NoArg, 0} \cup Bases
  /\ res \in {Pending, NoCall}
             \cup [ret : -Half..Half - 1, errno : {"none", "EINVAL", "ERANGE"},
                  end : {NoEnd} \cup 0..MaxLen, nul : BOOLEAN,
                  at : {NoEnd} \cup 0..MaxLen, b : {0} \cup 2..36]

Called == res \notin {Pending, NoCall}

(***************************************************************************)
(* The reference: strtol(3) as C specifies it.  After blanks and a sign,  *)
(* base 0 or 16 takes "0x"/"0X" as a prefix when a hex digit follows, base *)
(* 0 reads a leading 0 as octal (the 0 being a digit) and anything else as *)
(* decimal; the number is the longest run of digits of the base.           *)
(***************************************************************************)
IsDigitOf(c, b) ==
  \/ c \in ZERO..NINE /\ c - ZERO < b
  \/ IsAlpha(c) /\ ToLower(c) - LA + 10 < b

DigitValue(c) == IF IsAlpha(c) THEN ToLower(c) - LA + 10 ELSE c - ZERO

RECURSIVE DigitRun(_, _, _)
DigitRun(s, k, b) == IF IsDigitOf(At(s, k), b) THEN 1 + DigitRun(s, k + 1, b) ELSE 0

\* the value of the digits s[k..k+n-1] in base b, by Horner's rule
RefValue(s, k, n, b) ==
  FoldLeft(LAMBDA acc, c : acc * b + DigitValue(c), 0, SubSeq(s, k + 1, k + n))

HexPrefix(s, k) == At(s, k) = ZERO /\ At(s, k + 1) \in {LX, UX}
                   /\ IsDigitOf(At(s, k + 2), 16)

\* where the digits start and in which base: [k |-> .., b |-> ..]
RefStart(s, b) ==
  LET k0 == SkipSpaces(s, 0)
      k1 == IF At(s, k0) \in {PLUS, MINUS} THEN k0 + 1 ELSE k0
  IN  CASE b \in {0, 16} /\ HexPrefix(s, k1) -> [k |-> k1 + 2, b |-> 16]
        [] b = 0 /\ At(s, k1) = ZERO -> [k |-> k1, b |-> 8]
        [] b = 0 -> [k |-> k1, b |-> 10]
        [] OTHER -> [k |-> k1, b |-> b]

\* s is, after blanks and sign, a number in base b and nothing else
WholeNumber(s, b) ==
  LET st == RefStart(s, b)
  IN  /\ b \in {0} \cup 2..36
      /\ DigitRun(s, st.k, st.b) > 0
      /\ st.k + DigitRun(s, st.k, st.b) = Len(s)

\* its signed value
WholeValue(s, b) ==
  LET st == RefStart(s, b)
      v  == RefValue(s, st.k, Len(s) - st.k, st.b)
  IN  IF At(s, SkipSpaces(s, 0)) = MINUS THEN -v ELSE v

InLong(v) == v \in -Half..Half - 1

\* the sign my_strtol read
Negative(s) == At(s, SkipSpaces(s, 0)) = MINUS

(***************************************************************************)
(* Whenever the characters my_strtol accepted at checkstr are all digits  *)
(* of the base it settled on and their value fits in a long, it returns   *)
(* that value and no error: the right-to-left accumulation with wrapped   *)
(* powers (strtol.c:318-372, power) and its sign-change overflow tests    *)
(* never lose or misreport an in-range number.                             *)
(***************************************************************************)
FitsExact ==
  Called /\ res.at # NoEnd =>
    LET n == (IF res.nul THEN Len(str) ELSE res.end) - res.at
        v == RefValue(str, res.at, n, res.b)
        sv == IF Negative(str) THEN -v ELSE v
    IN  (n > 0 /\ \A j \in 0..n - 1 : IsDigitOf(At(str, res.at + j), res.b)
         /\ InLong(sv))
          => res.ret = sv /\ res.errno = "none"

(***************************************************************************)
(* my_strtol agrees with strtol(3) on whole numbers: a string that is,    *)
(* after blanks and a sign, a number in the base passed and nothing else  *)
(* converts to its value with errno untouched when the value fits in a    *)
(* long, and sets ERANGE when it does not (the comment above my_strtol     *)
(* promises both; main passes base 0).                                     *)
(***************************************************************************)
ConvertsAsStrtol ==
  Called /\ WholeNumber(str, arg) =>
    IF InLong(WholeValue(str, arg))
    THEN res.ret = WholeValue(str, arg) /\ res.errno = "none"
    ELSE res.errno = "ERANGE"

====
