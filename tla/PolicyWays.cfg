\* Three changes, by hand, in the control UI or on the command line.
CONSTANTS
    Calls <- mcCalls
    Home <- home
    Cwd <- other
    Shell <- project
    Roots <- mcRoots
    Links <- mcLinks
    Parts <- mcParts
    Trimmed <- mcTrimmed
    Entries = {listed}
    Dangerous = {sudo}
    Matches <- mcMatches
    HandMade <- mcHandMade
    Standing <- mcStanding
    MaxChanges = 3
    None = None
    git = git
    sudo = sudo
    ls = ls
    listed = listed
SPECIFICATION PolicySpec
CHECK_DEADLOCK FALSE
INVARIANT WorkspaceWorks
PROPERTIES SwitchingOffOnlyRestricts ToolsStayInside
