\* my_strtol against strtol(3) on whole numbers, with the bounds of
\* MC_Conversions.cfg.
CONSTANTS
  LongBits = 8
  Chars = {32, 43, 45, 46, 48, 49, 56, 65, 102, 120}
  MaxLen = 4
  Bases = {0, 1, 2, 8, 10, 16, 36, 37}
SPECIFICATION Spec
INVARIANT ConvertsAsStrtol
CHECK_DEADLOCK FALSE
