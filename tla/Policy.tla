------------------------------- MODULE Policy -------------------------------
(***************************************************************************)
(* The policy: the decision the daemon takes before a tool runs            *)
(* (packages/desktop-daemon/src/policy.ts), and the ways of the policy     *)
(* between policy.json, the daemon's memory (index.ts), its control UI     *)
(* (control-ui.ts) and `deckagent workspace` (packages/cli/src).           *)
(*                                                                         *)
(* A path is the sequence of its names below the root; a path as somebody  *)
(* wrote it, without the blanks before it, is absolute, below ~, or        *)
(* relative, may climb with ".." and end in blanks or a separator.  What   *)
(* the code does to the letters of a name is in Parts and Trimmed.  The    *)
(* file system is POSIX's.                                                 *)
(* A command is known by the entries and dangerous patterns it matches.    *)
(***************************************************************************)
EXTENDS Integers, FiniteSets, SequencesExt

CONSTANTS
    Calls,      \* [tool, paths, command], paths and command may be missing
    Home, Cwd,  \* of the daemon
    Shell,      \* the directory `deckagent` is run in
    Roots,      \* directories `deckagent workspace use` is run on
    Links,      \* symbolic links: the paths they lead to
    Parts,      \* of each name with a backslash: the names between backslashes
    Trimmed,    \* of each name that ends in blanks: what is left without them
    Entries,    \* of blocked_commands and allowed_commands
    Dangerous,  \* commands DANGEROUS_COMMAND_PATTERNS match
    Matches,    \* the commands each entry matches
    HandMade,   \* what the user makes of policy.json in an editor
    Standing,   \* files and directories that are always there
    MaxChanges, \* bound: changes of the configuration
    None

\* The name between two separators that follow each other, or after the last one.
Empty == ""

\* Paths as somebody wrote them, and resolved ones.
Written == [base : {"absolute", "home", "relative"}, steps : Seq(STRING)]
Normal == {p \in Seq(STRING) : Range(p) \intersect {Empty, ".", ".."} = {}}

ASSUME CallsAssumption ==
    \A c \in Calls : IsFiniteSet(c.paths) /\ c.paths \subseteq Written
\* homedir, process.cwd and the resolved path that `workspace use` stores
ASSUME NormalAssumption ==
    {Home, Cwd, Shell} \union Roots \union DOMAIN Links \union Range(Links)
        \subseteq Normal
\* Bound: a name does not end in two backslashes, nor consist of one.
ASSUME PartsAssumption ==
    \A name \in DOMAIN Parts :
        /\ Parts[name] \in Seq(STRING) /\ Len(Parts[name]) >= 2
        /\ {Last(Parts[name]), Last(Front(Parts[name]))} # {Empty}
ASSUME TrimmedAssumption ==
    \A name \in DOMAIN Trimmed : Trimmed[name] \in STRING \ DOMAIN Trimmed
ASSUME MatchesAssumption == DOMAIN Matches = Entries
ASSUME BoundAssumption == MaxChanges \in Nat
ASSUME RootsAssumption == Roots \subseteq Standing /\ None \notin Roots

VARIABLES
    file,       \* policy.json, None when there is none
    workspace,  \* the workspace of config.json
    daemon,     \* what the running daemon holds of both, None when it is down
    files,      \* real paths that exist
    kept,       \* history: nobody undid the last `workspace use`
    changes

policyVars == <<file, workspace, daemon, files, kept, changes>>

-----------------------------------------------------------------------------
(* Paths.                                                                  *)

Enter(at, name) ==
    IF name \in {Empty, "."} \/ (name = ".." /\ at = <<>>) THEN at
    ELSE IF name = ".." THEN Front(at) ELSE Append(at, name)

\* resolve and join, of a directory and the names to enter one after the other
Walk(from, steps) ==
    LET at[n \in 0..Len(steps)] ==
            IF n = 0 THEN from ELSE Enter(at[n - 1], steps[n])
    IN  at[Len(steps)]

\* trim, of what was written: its last name loses the blanks it ends in.
Trim(steps) ==
    IF steps # <<>> /\ Last(steps) \in DOMAIN Trimmed
    THEN Append(Front(steps), Trimmed[Last(steps)]) ELSE steps

\* absolutizeToolPath and, without a workspace, resolvePathWithHome
Absolutize(w, root) ==
    Walk(CASE w.base = "absolute" -> <<>>
           [] w.base = "home"     -> Home
           [] w.base = "relative" -> IF root = None THEN Cwd ELSE root,
         Trim(w.steps))

\* resolvePathWithHome of a path that was resolved before: it is trimmed again,
\* which matters where the trimmed text ended in blanks and a separator.
Again(p) == Absolutize([base |-> "absolute", steps |-> p], None)

\* Where the operating system goes for a path.
Followed(p) ==
    IF \E l \in DOMAIN Links : IsPrefix(l, p)
    THEN LET l == CHOOSE l \in DOMAIN Links : IsPrefix(l, p)
         IN  Links[l] \o SubSeq(p, Len(l) + 1, Len(p))
    ELSE p

\* realpathSync, and the path as it is where that throws.
RealPath(p) == IF Followed(p) \in files THEN Followed(p) ELSE p

Inside(p, dir) == IsPrefix(dir, p)

PartsOf(name) == IF name \in DOMAIN Parts THEN Parts[name] ELSE <<name>>

\* "Strip trailing separator"
Chop(p) == IF p # <<>> /\ Last(p) = Empty THEN Front(p) ELSE p

\* normalizePathForCompare: every backslash counts as a separator, and what lies
\* between them is not resolved again.
Compared(p) == Chop(FlattenSeq([i \in DOMAIN p |-> PartsOf(p[i])]))

\* The path that is compared with directories, for one the tools will open.
Judged(p) == Compared(RealPath(Again(p)))

IsPathAllowed(p, policy) ==
    \E d \in policy.dirs : Inside(Judged(p), Compared(Absolutize(d, None)))

InWorkspace(p, root) ==
    root # None => Inside(Judged(p), Compared(Again(root)))

-----------------------------------------------------------------------------
(* The decision.                                                           *)

Mutating == {"write_file", "edit_file", "create_directory", "move_file",
             "kill_process", "execute_command", "execute_command_stream",
             "restore_snapshot"}
Terminal == {"execute_command", "execute_command_stream", "list_processes",
             "kill_process"}
Browser == {"browser_navigate", "browser_screenshot", "browser_click",
            "browser_evaluate"}
AllTools == Mutating \union Terminal \union Browser \union
            {"read_file", "search_files", "list_directory", "get_file_info",
             "read_multiple_files", "get_environment", "list_snapshots"}

\* commandMatchesEntry, for some entry of a list
MatchesEntry(command, entries) == \E e \in entries : command \in Matches[e]

IsDangerous(command) == command \in Dangerous

IsCommandBlocked(command, entries) ==
    IsDangerous(command) \/ MatchesEntry(command, entries)

CheckCommand(command, policy) ==
    IF policy.mode = "allowlist"
    THEN ~IsCommandBlocked(command, {}) /\ MatchesEntry(command, policy.allowed)
    ELSE ~IsCommandBlocked(command, policy.blocked)

\* applyPathDefaults, then resolveArgsPaths: a search without a path is one of ~.
ResolvedPaths(c, root) ==
    {Absolutize(w, root) : w \in
        IF c.tool = "search_files" /\ c.paths = {}
        THEN {[base |-> "home", steps |-> <<>>]} ELSE c.paths}

\* checkPathAllowed
PathsAllowed(c, policy, root) ==
    \A p \in ResolvedPaths(c, root) : IsPathAllowed(p, policy)

Permitted(c, policy, root) ==
    /\ c.tool \in AllTools
    /\ ~(policy.readOnly /\ c.tool \in Mutating)
    /\ policy.terminal \/ c.tool \notin Terminal
    /\ policy.browser \/ c.tool \notin Browser
    /\ c.command # None /\ c.tool \in Terminal => CheckCommand(c.command, policy)
    /\ PathsAllowed(c, policy, root)

\* checkToolAllowed with checkWorkspaceBoundary.  The command line makes
\* workspaces with allow_outside_with_confirmation only.
Decision(c, policy, root) ==
    IF ~Permitted(c, policy, root) THEN "refused"
    ELSE IF \/ \E p \in ResolvedPaths(c, root) : ~InWorkspace(p, root)
            \/ c.tool \in policy.confirm
         THEN "asked" ELSE "allowed"

-----------------------------------------------------------------------------
(* The policy's ways.                                                      *)

\* createDefaultPolicy, with the entries of this instance
DefaultPolicy ==
    [dirs |-> {[base |-> "home", steps |-> <<>>]}, blocked |-> Entries,
     allowed |-> {}, mode |-> "blocklist", confirm |-> {"execute_command",
     "write_file", "edit_file", "kill_process", "restore_snapshot"},
     readOnly |-> FALSE, browser |-> FALSE, terminal |-> TRUE]

\* What allowed_directories may hold.
Directories ==
    (UNION {p.dirs : p \in HandMade}) \union DefaultPolicy.dirs
    \union {[base |-> "absolute", steps |-> r] : r \in Roots}
Policies ==
    [dirs : SUBSET Directories, blocked : SUBSET Entries, allowed : SUBSET Entries,
     mode : {"blocklist", "allowlist"}, confirm : SUBSET AllTools,
     readOnly : BOOLEAN, browser : BOOLEAN, terminal : BOOLEAN]

\* An edited file is a policy too: readPolicy ends the daemon's start otherwise.
ASSUME HandMadeAssumption ==
    HandMade \subseteq Policies /\ None \notin Policies /\ Directories \subseteq Written

PolicyInit ==
    /\ file \in {None} \union HandMade
    /\ workspace = None
    /\ daemon = None
    /\ files = Standing
    /\ kept = FALSE
    /\ changes = 0

Change == changes < MaxChanges /\ changes' = changes + 1

\* applyRuntimePolicy
WithFlag(policy, flag) == [policy EXCEPT !.browser = @ \/ flag]

\* main: readPolicy writes the default where there is no file.
Boot(flag) ==
    /\ daemon = None
    /\ file' = IF file = None THEN DefaultPolicy ELSE file
    /\ daemon' = [policy |-> WithFlag(file', flag), root |-> workspace, flag |-> flag]
    /\ UNCHANGED <<workspace, files, kept, changes>>

Quit ==
    /\ daemon # None
    /\ daemon' = None
    /\ UNCHANGED <<file, workspace, files, kept, changes>>

\* The page sends one field at a time.
Settings == {<<f, v>> : f \in {"readOnly", "browser", "terminal"}, v \in BOOLEAN}
            \union {<<"mode", "blocklist">>, <<"mode", "allowlist">>}

ApplySubset_ToDefaults(policy, setting) ==
    [DefaultPolicy EXCEPT ![setting[1]] = setting[2]]

\* applyPolicySubset
ApplySubset(policy, setting) == [policy EXCEPT ![setting[1]] = setting[2]]

\* POST /api/policy: what the daemon holds is written over the file.
SetPolicy(setting) ==
    /\ daemon # None /\ Change
    /\ file' = ApplySubset(daemon.policy, setting)
    /\ daemon' = [daemon EXCEPT !.policy = WithFlag(file', daemon.flag)]
    /\ kept' = (kept /\ file # None /\ file'.dirs = file.dirs)
    /\ UNCHANGED <<workspace, files>>

\* The user saves another policy.
EditByHand(policy) ==
    /\ Change
    /\ file' = policy
    /\ kept' = FALSE
    /\ UNCHANGED <<workspace, daemon, files>>

Covered_ByAnyAbove(root, dirs) ==
    \E d \in dirs : \/ Inside(Again(root), Absolutize(d, Shell))
                   \/ Inside(Absolutize(d, Shell), Again(root))

\* isCoveredByAllowedDirectory, the command line's own comparison of paths: it
\* trims as the daemon does, and leaves backslashes alone.
Covered(root, dirs) == \E d \in dirs : Inside(Again(root), Absolutize(d, Shell))

\* workspaceUse: config.json, then policy.json if there is one.
WorkspaceUse(root) ==
    /\ Change
    /\ workspace' = root
    /\ file' = IF file = None \/ Covered(root, file.dirs) THEN file
               ELSE [file EXCEPT !.dirs = @ \union {[base |-> "absolute", steps |-> root]}]
    /\ kept' = (file # None)
    /\ UNCHANGED <<daemon, files>>

WorkspaceClear ==
    /\ workspace # None /\ Change
    /\ workspace' = None
    /\ UNCHANGED <<file, daemon, files, kept>>

ToolPaths_Raw(c) == {Followed(Absolutize(w, None)) : w \in c.paths}

\* resolveToolPath of the tools, which are given the resolved arguments, and
\* neither trim nor convert them
ToolPaths(c) == {Followed(p) : p \in ResolvedPaths(c, daemon.root)}

\* A permitted call, approved where that is asked: a write makes its file, the
\* reading tools change nothing; the other tools are not this module's.
Execute(c) ==
    /\ daemon # None
    /\ Decision(c, daemon.policy, daemon.root) # "refused"
    /\ \/ c.tool = "write_file" /\ files' = files \union ToolPaths(c)
       \/ c.tool \notin Mutating /\ UNCHANGED files
    /\ UNCHANGED <<file, workspace, daemon, kept, changes>>

PolicyNext ==
    \/ \E flag \in BOOLEAN : Boot(flag)
    \/ Quit
    \/ \E setting \in Settings : SetPolicy(setting)
    \/ \E policy \in HandMade : EditByHand(policy)
    \/ \E root \in Roots : WorkspaceUse(root)
    \/ WorkspaceClear
    \/ \E c \in Calls : Execute(c)

PolicySpec == PolicyInit /\ [][PolicyNext]_policyVars

-----------------------------------------------------------------------------
(* Properties.                                                             *)

PolicyTypeOK ==
    /\ file \in Policies \union {None}
    /\ workspace \in Roots \union {None}
    /\ daemon \in [policy : Policies, root : Roots \union {None}, flag : BOOLEAN]
                  \union {None}
    /\ Standing \subseteq files
    /\ kept \in BOOLEAN
    /\ changes \in 0..MaxChanges

Leeway(decision) ==
    CASE decision = "refused" -> 0 [] decision = "asked" -> 1 [] decision = "allowed" -> 2

\* Switching something off in the running daemon's policy, or read_only on,
\* never lets a call through, or through unasked, that was not before: whatever
\* the file has become meanwhile, and under --enable-browser too
\* (control-ui.ts:193, index.ts:235).
SwitchingOffOnlyRestricts ==
    [][ \A c \in Calls :
          (/\ daemon # None /\ daemon' \notin {None, daemon}
           /\ daemon.policy.readOnly => daemon'.policy.readOnly
           /\ daemon'.policy.browser => daemon.policy.browser
           /\ daemon'.policy.terminal => daemon.policy.terminal
           /\ daemon'.policy.mode = daemon.policy.mode
           /\ UNCHANGED files)
          => Leeway(Decision(c, daemon'.policy, daemon'.root))
               <= Leeway(Decision(c, daemon.policy, daemon.root)) ]_policyVars

\* ".." or what becomes it when trimmed
Climbs(name) == name = ".." \/ (name \in DOMAIN Trimmed /\ Trimmed[name] = "..")

\* After `deckagent workspace use`, a daemon started with that workspace lets
\* a file of it be read without a question, unless the file was changed in
\* between: the command line's test of directories (workspace.ts:74) and the
\* daemon's (policy.ts:622) agree, for existing files and new ones, whatever
\* backslashes or blanks are in their names.
WorkspaceWorks ==
    daemon # None /\ daemon.root # None
    /\ kept /\ workspace = daemon.root /\ file.dirs = daemon.policy.dirs
    => \A c \in Calls :
         /\ c.tool \in {"read_file"} \ daemon.policy.confirm
         /\ \A w \in c.paths :
               w.base = "relative" /\ \A name \in Range(w.steps) : ~Climbs(name)
         => Decision(c, daemon.policy, daemon.root) = "allowed"

\* What `workspace use` added to policy.json is there when the daemon is started
\* again, as its note asks ("Restart the daemon if it is running so it picks up
\* the new workspace config.", workspace.ts:154): setting something else in the
\* control UI takes no directory out of the file.  It does.
WorkspaceSurvives ==
    [][ \A setting \in Settings :
          SetPolicy(setting) => file = None \/ file.dirs \subseteq file'.dirs ]_policyVars

\* Browser tools enabled "for this session" (index.ts:30) stay out of the file
\* that the next session reads: a setting of something else does not enable them
\* there.  It does.
FlagIsForTheSession ==
    [][ \A setting \in Settings :
          SetPolicy(setting) /\ setting[1] # "browser" /\ file # None /\ file'.browser
          => file.browser ]_policyVars

\* p lies in a directory the policy allows, and outside the workspace only after
\* a question.
LandsInside(p) ==
    /\ \E d \in daemon.policy.dirs : Inside(p, Absolutize(d, None))
    /\ \/ daemon.root = None \/ Inside(p, daemon.root)
       \/ \E c \in Calls : /\ p \in ToolPaths(c)
                           /\ Decision(c, daemon.policy, daemon.root) = "asked"

\* No name of p is one that the policy converts before it compares.
Plain(p) == Range(p) \intersect (DOMAIN Parts \union DOMAIN Trimmed) = {}

\* So are the directories of the policy, and the workspace.
PlainDirectories(policy, root) ==
    /\ \A d \in policy.dirs : Plain(Absolutize(d, None))
    /\ root = None \/ Plain(root)

\* What a tool creates lies in the directories the policy allows, and outside
\* the workspace only after a question: the paths judged (policy.ts:325) are the
\* paths the tools work on, links that lie inside an allowed directory aside,
\* and where no name has a backslash or ends in blanks.
ToolsStayInside ==
    [][ \A p \in files' \ files :
          (/\ PlainDirectories(daemon.policy, daemon.root)
           /\ \A c \in Calls : p \in ToolPaths(c) =>
                 \A q \in ResolvedPaths(c, daemon.root) : Plain(q))
          => LandsInside(p) ]_policyVars

\* Does not hold, see README: the same whatever the names are.  The policy judges
\* a\b as a/b (policy.ts:671), and "a " as "a" where the argument was "a /"
\* (policy.ts:654); the tools open the names as they are.
AllToolsStayInside ==
    [][ \A p \in files' \ files : LandsInside(p) ]_policyVars
=============================================================================
