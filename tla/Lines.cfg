SPECIFICATION FairSpec
CONSTANTS
  Terminals = {t1, t2}
  First = t1
  MAX_CHAR = 4
  Chars = {a, b}
  Null = Null
  Newline = Newline
  Requests = {0, 1, 3, 4, 6}
  Hard <- NothingHard
INVARIANTS
  FlagMeansLine
  LineFitsRequest
PROPERTIES
  IsLineEditor
  LineIsTaken
