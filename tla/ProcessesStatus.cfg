SPECIFICATION FairSpec
CONSTANTS
  MAXPROCESS = 6
  MAX_SHELL_COUNT = 2
  Shell = "shell"
  NoProgram = "none"
  NoUser = NoUser
  Programs <- TwoPrograms
  Statuses <- ExitStatuses
  EarlyInput = FALSE
PROPERTY ExecuteReturnsStatus
