SPECIFICATION FairSpec
CONSTANTS
  Terminals = {t1, t2}
  First = t1
  MAX_CHAR = 2
  Chars = {a}
  Null = Null
  Newline = Newline
  Requests = {0, 3}
  Hard <- EverythingHard
INVARIANT TypeOK
PROPERTY ReadFinishes
