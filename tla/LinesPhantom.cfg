SPECIFICATION Spec
CONSTANTS
  Terminals = {t1, t2}
  First = t1
  MAX_CHAR = 3
  Chars = {a}
  Null = Null
  Newline = Newline
  Requests = {3}
  Hard <- LastRow
INVARIANT ReadsAtMostBuffer
