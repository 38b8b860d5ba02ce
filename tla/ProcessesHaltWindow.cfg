SPECIFICATION Spec
CONSTANTS
  MAXPROCESS = 4
  MAX_SHELL_COUNT = 2
  Shell = "shell"
  NoProgram = "none"
  NoUser = NoUser
  Programs <- OnlyShell
  Statuses <- OneStatus
  EarlyInput = TRUE
CHECK_DEADLOCK FALSE
INVARIANT ParentContextIntact
