\* Every text of up to four bytes over the bytes next to a limit, and of up to
\* five over one first byte of each length, cut anywhere.
SPECIFICATION Spec
CONSTANTS
  Texts <- MCTexts
  Overrun = 0
INVARIANTS
  TypeOK
  IsUtf8Exact
  CountsWellFormed
  LongTailRemoved
