------------------------------ MODULE Snapshots -----------------------------
(***************************************************************************)
(* The file tools that change files and the snapshots they take first      *)
(* (packages/mcp-server/src/tools/filesystem.ts and snapshots.ts).         *)
(*                                                                         *)
(* A call runs its snapshot (blob, metadata), then the retention sweep (the*)
(* expired ones, then the oldest beyond the cap), then its own change;     *)
(* other calls run between any two file operations, and the daemon may     *)
(* crash there.  A call takes at most one snapshot, so the snapshot's      *)
(* random id is represented by its call.                                   *)
(*                                                                         *)
(* What a file holds is the set of calls whose text is in it: write_file   *)
(* leaves only its own, edit_file adds its own to what it read.            *)
(***************************************************************************)
EXTENDS Integers, SequencesExt

CONSTANTS
    Calls,          \* the calls of mutating file tools
    Paths,          \* the regular files
    None,           \* no file, no blob, no snapshot
    Torn,           \* a file truncated and not yet written
    MaxSnapshots,   \* maxSnapshots
    MaxActive       \* bound: calls in progress at one time

ASSUME Values ==
    None # Torn /\ None \notin Paths /\ \A t \in SUBSET Calls : t \notin {None, Torn}
ASSUME Retention == MaxSnapshots \in Nat \ {0} /\ MaxActive \in Nat \ {0}

VARIABLES
    file,       \* what each path holds
    blob,       \* the blob of each snapshot
    listed,     \* the snapshots that have their metadata file
    order,      \* the snapshots in the order of their ts
    aged,       \* the snapshots older than maxAgeMs
    call,       \* each call's own progress
    shared,     \* the calls that overlapped one on the same file
    spared,     \* the restores that run alone, their snapshot below the cap
                \* and not expired when their own sweep looks for expired ones
    crashed     \* whether the daemon crashed

storeVars == <<blob, listed, order, aged>>
vars == <<file, storeVars, call, shared, spared, crashed>>

Text  == SUBSET Calls
Held  == {None, Torn} \union Text
Ops   == {"none", "write", "edit", "move", "restore"}
Steps == {"new", "stat", "meta", "collect", "recollect", "purge", "purgeMeta",
          "act", "publish", "fill", "unlinked", "ok", "failed"}

\* dest: where a move goes, and the name of the file that an edit has opened;
\* victims: what the sweep still removes; then: the step that follows.
Fresh == [op |-> "none", path |-> None, dest |-> None, from |-> None,
          held |-> None, victims |-> {}, then |-> "recollect", at |-> "new",
          dead |-> FALSE]

TypeOK ==
    /\ file \in [Paths -> Held]
    /\ blob \in [Calls -> Held]
    /\ listed \subseteq Calls /\ aged \subseteq Calls
    /\ order \in Seq(Calls) /\ IsInjective(order)
    /\ listed \subseteq ToSet(order)
    /\ call \in [Calls -> [op : Ops, path : Paths \union {None},
                           dest : Paths \union {None},
                           from : Calls \union {None}, held : Held,
                           victims : SUBSET Calls,
                           then : {"recollect", "act"}, at : Steps,
                           dead : BOOLEAN]]
    /\ shared \subseteq Calls /\ spared \subseteq Calls
    /\ crashed \in BOOLEAN

\* Some files exist, with a text of their own; no snapshot was taken yet.
Init ==
    /\ file \in [Paths -> {{}, None}]
    /\ blob = [s \in Calls |-> None]
    /\ listed = {} /\ order = <<>> /\ aged = {}
    /\ call = [c \in Calls |-> Fresh]
    /\ shared = {} /\ spared = {}
    /\ crashed = FALSE

Active == {c \in Calls : /\ call[c].at \notin {"new", "ok", "failed"}
                         /\ ~ call[c].dead}
Touches(c) == {call[c].path, call[c].dest} \ {None}

Step(c, at) == call' = [call EXCEPT ![c].at = at]

-----------------------------------------------------------------------------
(* The beginning of a call.                                                *)

Begin(c, paths) ==
    LET others == {o \in Active : Touches(o) \intersect paths # {}} IN
    /\ call[c].at = "new"
    /\ Cardinality(Active) < MaxActive
    /\ shared' = IF others = {} THEN shared ELSE shared \union others \union {c}
    /\ UNCHANGED <<file, storeVars, crashed>>

\* write_file and edit_file hold the text the file will get.
Write(c, p) ==
    /\ Begin(c, {p})
    /\ call' = [call EXCEPT ![c] = [Fresh EXCEPT !.op = "write", !.path = p,
                                      !.held = {c}, !.at = "stat"]]
    /\ spared' = spared \ Active

\* edit_file reads the file before anything else.  No file, or no or too many
\* occurrences of the old text, end it; a truncated file has none.
Edit(c, p) ==
    /\ Begin(c, {p})
    /\ \/ call' = [call EXCEPT ![c].at = "failed"]
       \/ /\ file[p] \notin {None, Torn}
          /\ call' = [call EXCEPT ![c] = [Fresh EXCEPT !.op = "edit",
                        !.path = p, !.held = file[p] \union {c}, !.at = "stat"]]
    /\ spared' = spared \ Active

Move(c, p, q) ==
    /\ p # q
    /\ Begin(c, {p, q})
    /\ call' = [call EXCEPT ![c] = [Fresh EXCEPT !.op = "move", !.path = p,
                                      !.dest = q, !.at = "stat"]]
    /\ spared' = spared \ Active

\* The ts of s is before that of t.
Before(s, t) ==
    \E i, j \in DOMAIN order : order[i] = s /\ order[j] = t /\ i < j

\* How many snapshots are listed after s.
Newer(s) == Cardinality({t \in listed : Before(s, t)})

\* restore_snapshot finds the metadata of s.
Restore(c, s) ==
    /\ s \in listed
    /\ Begin(c, {call[s].path})
    /\ call' = [call EXCEPT ![c] = [Fresh EXCEPT !.op = "restore",
                  !.path = call[s].path, !.from = s, !.at = "stat"]]
    /\ spared' = IF Active = {} /\ s \notin aged /\ Newer(s) + 2 <= MaxSnapshots
                 THEN spared \union {c} ELSE spared \ Active

-----------------------------------------------------------------------------
(* createSnapshotBeforeMutation and its sweep.                             *)

\* The file is read and its blob written; without a regular file there is
\* nothing to take.  (It is not seen before the metadata is written.)
TakeBlob(c) ==
    /\ call[c].at = "stat"
    /\ IF file[call[c].path] = None
       THEN Step(c, "act") /\ UNCHANGED <<blob, order>>
       ELSE /\ blob' = [blob EXCEPT ![c] = file[call[c].path]]
            /\ order' = Append(order, c)
            /\ Step(c, "meta")
    /\ UNCHANGED <<file, listed, aged, shared, spared, crashed>>

WriteMeta(c) ==
    /\ call[c].at = "meta"
    /\ listed' = listed \union {c}
    /\ Step(c, "collect")
    /\ UNCHANGED <<file, blob, order, aged, shared, spared, crashed>>

Expired == listed \intersect aged

Surplus_OneTooMany  == {s \in listed : Newer(s) >= MaxSnapshots - 1}
Surplus_OneTooFew   == {s \in listed : Newer(s) >= MaxSnapshots + 1}
Surplus_NewestFirst ==
    {s \in listed : Cardinality({t \in listed : Before(t, s)}) >= MaxSnapshots}

\* The oldest ones beyond the cap.
Surplus == {s \in listed : Newer(s) >= MaxSnapshots}

Sweep(c, victims, then) ==
    call' = [call EXCEPT ![c].victims = victims, ![c].then = then,
                         ![c].at = IF victims = {} THEN then ELSE "purge"]

\* enforceRetention lists the snapshots twice, before each of its two loops.
\* It reads the clock now, so a restore's own snapshot may have expired since
\* it was found.
Collect(c) ==
    /\ call[c].at = "collect"
    /\ Sweep(c, Expired, "recollect")
    /\ spared' = IF call[c].from \in aged THEN spared \ {c} ELSE spared
    /\ UNCHANGED <<file, storeVars, shared, crashed>>

Recollect(c) ==
    /\ call[c].at = "recollect"
    /\ Sweep(c, Surplus, "act")
    /\ UNCHANGED <<file, storeVars, shared, spared, crashed>>

\* The first loop goes by the list, the newest first; the second one by age.
NextVictim(c, s) ==
    /\ s \in call[c].victims
    /\ \A t \in call[c].victims \ {s} :
          IF call[c].then = "recollect" THEN Before(t, s) ELSE Before(s, t)

\* removeSnapshot: the blob, then the metadata; either may be gone already.
PurgeBlob(c) ==
    /\ call[c].at = "purge"
    /\ \E s \in Calls :
          NextVictim(c, s) /\ blob' = [blob EXCEPT ![s] = None]
    /\ Step(c, "purgeMeta")
    /\ UNCHANGED <<file, listed, order, aged, shared, spared, crashed>>

PurgeMeta(c) ==
    /\ call[c].at = "purgeMeta"
    /\ \E s \in Calls :
          /\ NextVictim(c, s)
          /\ listed' = listed \ {s}
          /\ Sweep(c, call[c].victims \ {s}, call[c].then)
    /\ UNCHANGED <<file, blob, order, aged, shared, spared, crashed>>

-----------------------------------------------------------------------------
(* The changes themselves.                                                 *)

\* An edit that has truncated p writes to the file it opened: a rename over p
\* takes the name away from it, a rename of p takes it along.
Renamed(c, p, q) ==
    call' = [o \in Calls |->
        IF o = c THEN [call[o] EXCEPT !.at = "ok"]
        ELSE IF call[o].at # "fill" THEN call[o]
        ELSE IF call[o].dest = q THEN [call[o] EXCEPT !.at = "unlinked"]
        ELSE IF call[o].dest = p THEN [call[o] EXCEPT !.dest = q]
        ELSE call[o]]

\* restore_snapshot reads the blob only now.
ReadBlob(c) ==
    LET text == blob[call[c].from] IN
    /\ call[c].at = "act" /\ call[c].op = "restore"
    /\ call' = IF text = None THEN [call EXCEPT ![c].at = "failed"]
               ELSE [call EXCEPT ![c].held = text, ![c].at = "publish"]
    /\ UNCHANGED <<file, storeVars, shared, spared, crashed>>

\* write_file and restore_snapshot write a temporary file and rename it.
Publish(c) ==
    /\ \/ call[c].at = "act" /\ call[c].op = "write"
       \/ call[c].at = "publish"
    /\ file' = [file EXCEPT ![call[c].path] = call[c].held]
    /\ Renamed(c, None, call[c].path)
    /\ UNCHANGED <<storeVars, shared, spared, crashed>>

\* edit_file writes in place: the file is truncated first (and created if it
\* has gone meanwhile).
Truncate(c) ==
    /\ call[c].at = "act" /\ call[c].op = "edit"
    /\ file' = [file EXCEPT ![call[c].path] = Torn]
    /\ call' = [call EXCEPT ![c].dest = call[c].path, ![c].at = "fill"]
    /\ UNCHANGED <<storeVars, shared, spared, crashed>>

Fill(c) ==
    /\ call[c].at \in {"fill", "unlinked"}
    /\ file' = IF call[c].at = "fill"
               THEN [file EXCEPT ![call[c].dest] = call[c].held] ELSE file
    /\ Step(c, "ok")
    /\ UNCHANGED <<storeVars, shared, spared, crashed>>

\* move_file renames; what was at the destination is gone.
Rename(c) ==
    LET p == call[c].path
        q == call[c].dest IN
    /\ call[c].at = "act" /\ call[c].op = "move"
    /\ IF file[p] = None
       THEN Step(c, "failed") /\ UNCHANGED file
       ELSE /\ file' = [file EXCEPT ![p] = None, ![q] = file[p]]
            /\ Renamed(c, p, q)
    /\ UNCHANGED <<storeVars, shared, spared, crashed>>

-----------------------------------------------------------------------------
(* Time and failure.                                                       *)

\* Seven days after it was taken, the oldest snapshot is too old, also while
\* calls are in progress; bound: no call lasts that long itself.
Age ==
    /\ \E i \in DOMAIN order :
          /\ order[i] \notin aged \union Active
          /\ \A j \in 1..(i - 1) : order[j] \in aged
          /\ aged' = aged \union {order[i]}
    /\ UNCHANGED <<file, blob, listed, order, call, shared, spared, crashed>>

\* The daemon crashes: the calls in progress stop where they are, the files
\* stay as they are.  It is started again.
Crash ==
    /\ ~ crashed /\ Active # {}
    /\ crashed' = TRUE
    /\ call' = [c \in Calls |-> [call[c] EXCEPT !.dead = @ \/ c \in Active]]
    /\ UNCHANGED <<file, storeVars, shared, spared>>

CallStep(c) ==
    \/ \E p \in Paths : Write(c, p) \/ Edit(c, p)
    \/ \E p, q \in Paths : Move(c, p, q)
    \/ \E s \in Calls : Restore(c, s)
    \/ /\ c \in Active
       /\ \/ TakeBlob(c) \/ WriteMeta(c) \/ Collect(c) \/ Recollect(c)
          \/ PurgeBlob(c) \/ PurgeMeta(c)
          \/ ReadBlob(c) \/ Publish(c) \/ Truncate(c) \/ Fill(c) \/ Rename(c)

Next == (\E c \in Calls : CallStep(c)) \/ Age \/ Crash

Spec == Init /\ [][Next]_vars

-----------------------------------------------------------------------------
(* Properties.                                                             *)

\* While c is in progress a text only leaves its file if it is still in a file
\* or in a listed snapshot, whose blob is whole, so that it can be restored, even
\* if the daemon crashes next: nobody else takes it, and c, by writing, editing,
\* restoring or moving the file, has its snapshot.  The exceptions: calls that
\* overlap on a file snapshot it before each other's change; a sweep reaches a
\* snapshot after MaxSnapshots newer ones; and move_file takes no snapshot of
\* its destination.
NothingLost ==
    [][\A c \in Active \ shared, p \in Paths :
          /\ p = call[c].path
          /\ file[p] \notin {None, Torn} /\ file'[p] # file[p]
          => \/ \E q \in Paths : file'[q] = file[p]
             \/ \E s \in listed' : blob'[s] = file[p]
             \/ Newer(c) >= MaxSnapshots]_vars

\* A restore that runs alone, of a snapshot that is below the cap and has not
\* expired when the restore's own sweep looks, succeeds: the snapshot it takes
\* itself does not push it out, and what expires later is still read.
RestoreWorks ==
    \A c \in spared \ shared : call[c].at # "failed"

\* A listed snapshot has its blob, but for the moment a sweep has removed it
\* and not yet its metadata, and a blob its metadata, but for the moment
\* between the two writes; a crash may make either moment last.
Paired ==
    \A s \in Calls :
        /\ s \in listed /\ blob[s] = None =>
              \E c \in Calls : call[c].at = "purgeMeta" /\ NextVictim(c, s)
        /\ s \notin listed /\ blob[s] # None => call[s].at = "meta"

\* Beyond the cap there are only snapshots whose own sweep is not over.
Sweeping == {c \in Calls : call[c].at \in
                              {"collect", "recollect", "purge", "purgeMeta"}}
Capped == Cardinality(listed) <= MaxSnapshots + Cardinality(Sweeping)

StoreInOrder == Paired /\ Capped
-----------------------------------------------------------------------------
(* What the repository says and the code does not do.                      *)

\* README.md and the tests of the tools: a snapshot that list_snapshots
\* shows can be restored.
ListedCanBeRestored ==
    ~ crashed => \A c \in Calls \ shared :
                    call[c].op = "restore" => call[c].at # "failed"

-----------------------------------------------------------------------------
(* The inductive invariants behind the theorems of Snapshots_proofs.       *)

\* A call that is beyond its first check has what its operation needs.
Begun(c) ==
    /\ call[c].at \notin {"new", "failed"} => call[c].op # "none"
    /\ call[c].op # "none" => call[c].path \in Paths
    /\ call[c].op = "move" \/ call[c].at = "fill" => call[c].dest \in Paths
    /\ call[c].op = "restore" => call[c].from \in Calls

TypeInv ==
    /\ TypeOK
    /\ \A c \in Calls : Begun(c)
    /\ \A c \in Calls : call[c].at = "meta" => c \in ToSet(order)
    /\ \A s \in ToSet(order) : call[s].at \notin {"new", "stat"} /\ call[s].op # "none"

\* Snapshots whose metadata has been written, and may be gone again.
Recorded == {s \in ToSet(order) : call[s].at # "meta"}

\* Only what was listed is ever removed, and a sweep that removes the metadata
\* has removed the blob.
RecordsInv ==
    /\ listed \subseteq Recorded
    /\ \A c \in Calls :
          /\ call[c].at = "meta" => blob[c] # None
          /\ call[c].victims \subseteq Recorded
          /\ call[c].at \notin {"purge", "purgeMeta"} => call[c].victims = {}
          /\ call[c].at = "purgeMeta" =>
                \A s \in Calls : NextVictim(c, s) => blob[s] = None

\* The expired snapshots are the oldest.
AgedFirst ==
    /\ aged \subseteq ToSet(order)
    /\ \A s \in Calls, t \in aged : Before(s, t) => s \in aged

\* What a sweep is about to remove, or has removed by half, is expired or stays
\* beyond the cap: no other sweep, and no crash, brings it back below.
Doomed(s) == s \in aged \/ Newer(s) >= MaxSnapshots

DoomedInv ==
    /\ IsFiniteSet(listed)
    /\ \A s \in listed : blob[s] = None => Doomed(s)
    /\ \A c \in Calls : \A s \in call[c].victims : Doomed(s)

\* The calls in the second loop of their sweeps.  Without what any of them still
\* remove, there are no more snapshots than the cap and one for each other sweep.
Trimming == {c \in Calls : /\ call[c].at \in {"purge", "purgeMeta"}
                           /\ call[c].then = "act"}

CappedInv ==
    /\ IsFiniteSet(listed) /\ IsFiniteSet(Sweeping)
    /\ \A X \in SUBSET Trimming :
          Cardinality(listed \ UNION {call[c].victims : c \in X})
            <= MaxSnapshots + Cardinality(Sweeping \ X)

\* A spared restore runs alone, its snapshot has room for the one it takes, and
\* its sweep does not remove it.
Safe(c) ==
    /\ call[c].at \notin {"new", "failed"}
    /\ c \in Active =>
          /\ Active = {c} /\ call[c].op = "restore"
          /\ call[c].at \in {"stat", "meta"} =>
                Newer(call[c].from) + 2 <= MaxSnapshots
          /\ call[c].at \in {"stat", "meta", "collect", "recollect", "purge",
                              "purgeMeta", "act"} =>
                /\ call[c].from \in listed /\ blob[call[c].from] # None
                /\ call[c].from \notin call[c].victims
                /\ Newer(call[c].from) + 1 <= MaxSnapshots

SparedInv == \A c \in spared : Safe(c)

\* A call that shares its file with no other has it for itself,
Apart == \A c \in Active \ shared, d \in Active :
             d # c => Touches(c) \intersect Touches(d) = {}

\* and its snapshot is what the file holds, until a sweep removes it.
Taken(c) ==
    /\ call[c].at \notin {"stat", "fill", "unlinked"} =>
          \/ c \in ToSet(order) /\ blob[c] \in {None, file[call[c].path]}
          \/ c \notin ToSet(order) /\ file[call[c].path] = None
    /\ call[c].at = "fill" =>
          call[c].dest = call[c].path /\ file[call[c].path] = Torn

TakenInv == Apart /\ \A c \in Active \ shared : Taken(c)

\* Only what is expired or beyond the cap was removed, and no call lasts until
\* its snapshot expires.
GoneInv ==
    /\ \A s \in Recorded \ listed : Doomed(s)
    /\ Active \intersect aged = {}

StoreInv == TypeInv /\ RecordsInv /\ Paired /\ AgedFirst /\ DoomedInv /\ CappedInv
=============================================================================
