CONSTANTS
    Characters <- MCCharacters
    Recalled <- MCRecalled
    Offered <- MCOffered
    MaxText = 3
    MaxCommand = 1
    MaxTyped = 5
    MaxPieces = 4
    MaxPos = 3
    Exprs <- MCExprs
    Defs <- MCDefs
    Modules = {"m"}
    MaxLines = 3
    MaxDefs = 2
    MaxDeaths = 1
    Inputs = {"", "m", "q"}
    Entries <- MCEntries
    Blank = ""
    Written <- MCWritten
    Patterns = {{}, {"m1", "q"}}
    COMMANDS <- MCCommands
    Begins <- MCBegins
    Buffers = {"q"}
    MaxHistory = 2
    Typed = {"l1", "l2"}
    NoLine = "none"
    MaxItems = 2
    Limits = {3, 7}
    MaxNotes = 2
    MaxFile = 2
    MaxRequests = 6
SPECIFICATION KindSpec
INVARIANTS TextExact SessionSound PopupHonest
PROPERTIES EditorSafe HistorySound ToolsAnswer
CHECK_DEADLOCK FALSE
