\* Two calls that need the user and share an id, one unit of every budget.
SPECIFICATION CommandsSpec
CONSTANTS
    sh = sh
    wr = wr
    rd = rd
    Calls <- MCCalls
    Ids <- MCCalls
    IdOf <- SharedId
    Shell <- MCShell
    Writes <- MCWrites
    Local = {wr, rd}
    Confirmable = {sh, wr}
    Limit <- TightLimit
    None = none
INVARIANTS NothingUnconfirmed OvershootBounded ActiveAreRunning ShutdownEndsCommands
PROPERTIES EveryCallEnds TimedOutCommandsEnd
\* Every call is made once, and the process exits.
CHECK_DEADLOCK FALSE
