SPECIFICATION PartsSpec
CONSTANTS
    Parts = {"files", "list", "keys", "syserr", "console", "library", "boot", "host"}
    MAXPROCESS = 4
    MAX_SHELL_COUNT = 1
    termsize = 2
    LongArguments = {"long"}
    Lines <- TypedLines
    SLOTS = 2
    PLACES = 3
    WORD = 8
    Blinks <- Asked
    Blank = "nothing"
    Links <- LinkedAt
    ModuleLists <- Loaded
    Garbage = "garbage"
    OPEN_MAX = 7
    Entries <- Listed
    HostFiles = {"hello", "frame0"}
    NULL = NULL
    BUFSIZE = 3
    NL = "n"
    NUL = "z"
    SP = "s"
    COLS = 8
    OFFSET = 4
    Directory <- Names
    Texts <- Written
    Frames <- Drawings
    Patterns <- Searches
    Leftovers = {"z", "a", "n"}
INVARIANTS
    GrepPrintsMatches
    FilesArePrinted
    KeysTypeAsHeld
    SyserrPasses
    OwnArguments
    AnswersWhereTyped
    UserSeesOwnPages
    LibraryKeepsPromises
    ReadyForInterrupts
    DirectoryIsRead
PROPERTIES
    ProgramsEnd
    IsBlinkList
\* programs end, and a library call is one step
CHECK_DEADLOCK FALSE
