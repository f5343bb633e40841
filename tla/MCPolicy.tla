------------------------------ MODULE MCPolicy ------------------------------
(* A small instance of Policy for TLC: a home with one project in it, a second *)
(* project elsewhere, and a link to the first.                                 *)
EXTENDS Policy

CONSTANTS git, sudo, ls, listed     \* two harmless commands, one dangerous, an entry

home == <<"home">>      project == <<"home", "project">>    other == <<"srv">>

At(base, steps) == [base |-> base, steps |-> steps]
Call(tool, paths) == [tool |-> tool, paths |-> paths, command |-> None]

\* project\f is compared as project/f, "project " written with a separator after
\* it as project; x\.. and "x " are names of files.
mcParts == ("project\\f" :> <<"project", "f">>) @@ ("x\\.." :> <<"x", "..">>)
mcTrimmed == ("project " :> "project") @@ ("x " :> "x")

Odd == {Call("write_file", {At("absolute", <<"home", "project\\f">>)}),
        Call("read_file", {At("relative", <<"x\\..">>)}),
        Call("read_file", {At("relative", <<".", "x ", "">>)})}

Files == {At("relative", <<"f">>), At("relative", <<"..", "f">>), At("home", <<"f">>),
          At("absolute", <<"srv", "f">>), At("absolute", <<"link", "f">>)}

mcCalls == Odd \union
    {Call(t, {w}) : t \in {"read_file", "write_file"}, w \in Files}
    \union {Call("read_multiple_files", {At("relative", <<"f">>), At("home", <<"f">>)}),
            Call("search_files", {}), Call("browser_navigate", {}), Call("no_such_tool", {})}
    \union {[tool |-> "execute_command", paths |-> {}, command |-> x] : x \in {git, sudo, ls}}

mcMatches == (listed :> {git})
mcLinks == (<<"link">> :> project)
mcStanding == {<<>>, home, project, other}
mcRoots == {home, project, other}

\* What setup writes when there is a project directory, and a stricter one.
mcHandMade ==
    {[DefaultPolicy EXCEPT !.dirs = {At("absolute", project)}, !.browser = TRUE],
     [DefaultPolicy EXCEPT !.dirs = {At("absolute", other)}, !.confirm = {},
                           !.allowed = {listed}, !.mode = "allowlist"]}
=============================================================================
