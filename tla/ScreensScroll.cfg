SPECIFICATION Spec
CONSTANTS
  Terminals <- TwoTerminals
  First = 0
  NUM_ROWS = 2
  NUM_COLS = 2
  Chars <- OneChar
  Blank = "blank"
  Newline = "newline"
  VIDEO = 9
  ScrollElsewhere = TRUE
PROPERTY
  ScrollsOne
