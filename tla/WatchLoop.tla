----------------------------- MODULE WatchLoop -----------------------------
(***************************************************************************)
(* find-watch: file-system events are accumulated per path in a debounce   *)
(* window, and a flush sends one bulk request per rename pair, update or   *)
(* delete.  Every await between two requests lets the file system change.  *)
(*                                                                         *)
(* A path is a pair <<place, leaf>>: a file <<place, name>> in the source  *)
(* root or in one of its directories, or a directory <<Root, dir>>.  A     *)
(* file's version stands for its content and its mtime, later writes       *)
(* having larger ones.  Requests change "index" when they are accepted:    *)
(* the server applies them in arrival order and the watcher never reads    *)
(* the index, so the lag of the inbox cannot be seen from here.            *)
(***************************************************************************)
EXTENDS Naturals, Sequences, FiniteSets

CONSTANTS
    Root, Dirs,          \* the source root and the directories it may hold
    Names,               \* file names; Ctl is one of them
    Ctl,                 \* the .noindex marker
    SourceIncludes,      \* the paths the include globs of the source match
    Excluded,            \* the paths the exclude globs match
    InitFiles,           \* files on disk, and indexed, at the start
    batch_limit,
    NoRow, Idle,
    MaxOps,              \* bound: file-system operations
    MaxFailures          \* bound: failed requests and failed extractions

Places == Dirs \cup {Root}
Files == Places \X Names
DirPath(d) == <<Root, d>>
Paths == Files \cup {DirPath(d) : d \in Dirs}
Parent(p) == p[1]
FilesIn(d) == {d} \X Names

ASSUME WatchAssumption ==
    /\ Root \notin Dirs \cup Names /\ Ctl \in Names /\ Dirs \cap Names = {}
    /\ SourceIncludes \subseteq Paths /\ Excluded \subseteq Paths
    /\ InitFiles \subseteq Files
    /\ batch_limit \in Nat /\ MaxOps \in Nat /\ MaxFailures \in Nat

Version == 0..(MaxOps + 1)       \* 0: no such file, 1: the initial content
Row == [lines: Version, mtime: Version]
ASSUME RowAssumption == NoRow \notin Row /\ Idle \notin [path: Files, lines: Version]

Kinds == {"create", "update", "delete"}
Events == [kind: {"create", "data", "name", "remove"}, path: Paths]

VARIABLES
    disk,        \* version of every file
    dirs,        \* directories that exist
    watched,     \* places with an inotify watch
    channel,     \* notify thread -> event loop
    pending, first_seen_creates,
    phase,       \* where run_event_loop is
    expired,     \* the window has expired
    batch, fresh_creates,   \* what a flush took over
    pairs,       \* rename pairs the current phase still has to process
    dirs_needing_watch,
    to_index,    \* files of the current entry that wait for handle_update
    extracting,  \* handle_update between the extraction and the request
    index,       \* the server's row of every file
    rescans,     \* directories a find-scan was spawned for
    left,        \* history: files left to the next scan (see Leave...)
    ops, failures

fsVars == <<disk, dirs, ops>>
flushVars == <<batch, fresh_creates, pairs, dirs_needing_watch, to_index,
               extracting>>
vars == <<fsVars, watched, channel, pending, first_seen_creates, phase,
          expired, flushVars, index, rescans, left, failures>>

-----------------------------------------------------------------------------
(* The functions of watch.rs *)

Exists(p) == IF p \in Files THEN disk[p] # 0 ELSE p[2] \in dirs
IsFile(p) == p \in Files /\ Exists(p)
IsDir(p) == p \notin Files /\ Exists(p)

\* resolve_watch_config: the .noindex of the directory, or of the root, hides
\* the path.
NoIndex(p) == disk[<<Root, Ctl>>] # 0 \/ disk[<<Parent(p), Ctl>>] # 0

\* The filters of the event loop, and of a rename target.
Included(p) == p \in SourceIncludes \ Excluded /\ ~NoIndex(p)

\* Mutant: the first event of the window wins.
CollapseFirstWins(existing, new) == existing

\* Only create + update does not let the last event win.
Collapse(existing, new) ==
    IF existing = "create" /\ new = "update" THEN "create" ELSE new

\* Mutant: the kind of the event is taken as it is.
NewKindRaw(e) == e.kind

NewKind(e) ==
    CASE e.kind = "create" -> "create"
      [] e.kind = "data" -> "update"
      [] e.kind = "name" -> IF Exists(e.path) THEN "update" ELSE "delete"
      [] e.kind = "remove" -> "delete"

Put(f, p, k) == [q \in DOMAIN f \cup {p} |-> IF q = p THEN k ELSE f[q]]
Without(f, S) == [q \in DOMAIN f \ S |-> f[q]]
None == [q \in {} |-> "delete"]

Upserted(b) == {p \in DOMAIN b : b[p] \in {"create", "update"}}
Deleted(b) == {p \in DOMAIN b : b[p] = "delete"}

\* One delete and one update with the same parent; ds and us are the
\* candidates of each side.
OneToOne(ds, us) ==
    {x \in ds \X us :
        /\ Parent(x[1]) = Parent(x[2])
        /\ \A o \in ds : Parent(o) = Parent(x[2]) => o = x[1]
        /\ \A n \in us : Parent(n) = Parent(x[2]) => n = x[2]}

DirPairs(b) == OneToOne(Deleted(b), {p \in Upserted(b) : IsDir(p)})
FilePairs(b) == OneToOne({p \in Deleted(b) : ~Exists(p)},
                         {p \in Upserted(b) : IsFile(p)})

\* The server's side of a request: the guard against stale mtimes, the exact
\* match of a deleted path, and a rename that needs the old row and no new one.
Upsert(ix, p, row) ==
    IF ix[p] # NoRow /\ row.mtime > 0 /\ row.mtime < ix[p].mtime
    THEN ix ELSE [ix EXCEPT ![p] = row]
Delete(ix, p) == IF p \in Files THEN [ix EXCEPT ![p] = NoRow] ELSE ix
Renamable(ix, o, n) == o \in Files /\ ix[o] # NoRow /\ ix[n] = NoRow
Rename(ix, o, n) ==
    IF Renamable(ix, o, n)
    THEN [ix EXCEPT ![n] = ix[o], ![o] = NoRow] ELSE ix

\* The files a control file decides about.
Governed(p) ==
    IF p[2] # Ctl THEN {} ELSE IF Parent(p) = Root THEN Files ELSE FilesIn(Parent(p))

\* What a rename leaves to the next scan: the new path when there was no old
\* row or its content is not the file's, both when the new path had a row.
LeaveRename(ix, o, n) ==
    Governed(o) \cup
    IF o \notin Files THEN {n} \cup FilesIn(o[2])
    ELSE IF ix[o] = NoRow THEN {n}
    ELSE IF ix[n] # NoRow THEN {o, n}
    ELSE IF ix[o].lines # disk[n] THEN {n} ELSE {}

-----------------------------------------------------------------------------
Init ==
    /\ disk = [p \in Files |-> IF p \in InitFiles THEN 1 ELSE 0]
    /\ dirs = {d \in Dirs : \E p \in InitFiles : Parent(p) = d}
    /\ watched = dirs \cup {Root}
    /\ channel = <<>>
    /\ pending = None /\ first_seen_creates = {}
    /\ phase = "wait" /\ expired = FALSE
    /\ batch = None /\ fresh_creates = {}
    /\ pairs = {} /\ dirs_needing_watch = {}
    /\ to_index = {} /\ extracting = Idle
    /\ index = [p \in Files |-> IF disk[p] # 0 /\ Included(p)
                                THEN [lines |-> 1, mtime |-> 1] ELSE NoRow]
    /\ rescans = {} /\ left = {}
    /\ ops = 0 /\ failures = 0

-----------------------------------------------------------------------------
(* The file system (external).  Only a watched place reports its events;   *)
(* what happens elsewhere is left to a scan unless a walk still finds it,  *)
(* with the files a control file decides about.                            *)

Ev(k, p) == [kind |-> k, path |-> p]
Seen(c, e) == IF Parent(e.path) \in watched THEN Append(c, e) ELSE c
Report(e) == channel' = Seen(channel, e)
ReportBoth(e1, e2) == channel' = Seen(Seen(channel, e1), e2)
Unseen(S) ==
    left' = left \cup UNION {{p} \cup Governed(p) : p \in {q \in S : Parent(q) \notin watched}}
FsStep == ops < MaxOps /\ ops' = ops + 1
ClientIdle == UNCHANGED <<pending, first_seen_creates, phase, expired,
                          flushVars, index, rescans, failures>>

Write(p) ==
    /\ FsStep
    /\ Parent(p) \in dirs \cup {Root}
    /\ disk' = [disk EXCEPT ![p] = ops + 2]
    /\ IF disk[p] = 0 THEN ReportBoth(Ev("create", p), Ev("data", p))
       ELSE Report(Ev("data", p))
    /\ Unseen({p})
    /\ ClientIdle /\ UNCHANGED <<dirs, watched>>

Unlink(p) ==
    /\ FsStep
    /\ disk[p] # 0
    /\ disk' = [disk EXCEPT ![p] = 0]
    /\ Report(Ev("remove", p))
    /\ Unseen({p})
    /\ ClientIdle /\ UNCHANGED <<dirs, watched>>

Move(p, q) ==
    /\ FsStep
    /\ p # q /\ disk[p] # 0 /\ Parent(q) \in dirs \cup {Root}
    /\ disk' = [disk EXCEPT ![p] = 0, ![q] = disk[p]]
    /\ ReportBoth(Ev("name", p), Ev("name", q))
    /\ Unseen({p, q})
    /\ ClientIdle /\ UNCHANGED <<dirs, watched>>

\* A directory that takes the place of one whose watch is about to be registered
\* gets that watch, and its own event is taken for one of the other's.
TakesPlace(d) ==
    left' = left \cup IF d \in dirs_needing_watch THEN FilesIn(d) ELSE {}

MakeDir(d) ==
    /\ FsStep
    /\ d \notin dirs
    /\ dirs' = dirs \cup {d}
    /\ Report(Ev("create", DirPath(d)))
    /\ TakesPlace(d)
    /\ ClientIdle /\ UNCHANGED <<disk, watched>>

\* The watch of a renamed directory is gone, and its files report nothing.
MoveDir(d, e) ==
    /\ FsStep
    /\ d \in dirs /\ e \notin dirs
    /\ dirs' = (dirs \ {d}) \cup {e}
    /\ disk' = [p \in Files |-> CASE Parent(p) = d -> 0
                                  [] Parent(p) = e -> disk[<<d, p[2]>>]
                                  [] OTHER -> disk[p]]
    /\ watched' = watched \ {d}
    /\ ReportBoth(Ev("name", DirPath(d)), Ev("name", DirPath(e)))
    /\ TakesPlace(e)
    /\ ClientIdle

FileSystem ==
    \/ \E p \in Files : Write(p) \/ Unlink(p) \/ \E q \in Files : Move(p, q)
    \/ \E d \in Dirs : MakeDir(d) \/ \E e \in Dirs : MoveDir(d, e)

-----------------------------------------------------------------------------
(* Accumulating *)

Receive ==
    /\ phase \in {"wait", "drain"}
    /\ channel # <<>>
    /\ LET e == Head(channel)
           p == e.path
           k == NewKind(e)
       IN IF p \in DOMAIN pending
          THEN /\ pending' = Put(pending, p, Collapse(pending[p], k))
               /\ UNCHANGED first_seen_creates
          ELSE /\ pending' = Put(pending, p, k)
               /\ first_seen_creates' =
                    first_seen_creates \cup IF k = "create" THEN {p} ELSE {}
    /\ channel' = Tail(channel)
    /\ phase' = "drain"
    /\ UNCHANGED <<fsVars, watched, expired, flushVars, index, rescans, left,
                   failures>>

\* Mutant: only a full batch is flushed.
ExpireFull ==
    /\ phase = "wait"
    /\ Cardinality(DOMAIN pending) >= batch_limit
    /\ phase' = "drain" /\ expired' = TRUE
    /\ UNCHANGED <<fsVars, watched, channel, pending, first_seen_creates,
                   flushVars, index, rescans, left, failures>>

Expire ==
    /\ phase = "wait"
    /\ DOMAIN pending # {}
    /\ phase' = "drain" /\ expired' = TRUE
    /\ UNCHANGED <<fsVars, watched, channel, pending, first_seen_creates,
                   flushVars, index, rescans, left, failures>>

KeepWaiting ==
    /\ phase = "drain" /\ channel = <<>>
    /\ ~expired /\ Cardinality(DOMAIN pending) < batch_limit
    /\ phase' = "wait"
    /\ UNCHANGED <<fsVars, watched, channel, pending, first_seen_creates,
                   expired, flushVars, index, rescans, left, failures>>

StartFlush ==
    /\ phase = "drain" /\ channel = <<>>
    /\ expired \/ Cardinality(DOMAIN pending) >= batch_limit
    /\ batch' = pending /\ pending' = None
    /\ fresh_creates' = first_seen_creates /\ first_seen_creates' = {}
    /\ pairs' = DirPairs(pending)
    /\ expired' = FALSE /\ phase' = "dirs"
    /\ UNCHANGED <<fsVars, watched, channel, dirs_needing_watch, to_index,
                   extracting, index, rescans, left, failures>>

-----------------------------------------------------------------------------
(* process_renames *)

\* A request is accepted, or it fails and the code only warns.
Accepted(ok) == /\ ok \/ failures < MaxFailures
                /\ failures' = IF ok THEN failures ELSE failures + 1

\* handle_dir_rename walks the new directory e.  Whether a file was indexed
\* under its old path is taken from the include globs alone.
OldPath(d, p) == <<d, p[2]>>
Walked(e) == {p \in FilesIn(e) : disk[p] # 0}
Renamed(d, e) == {p \in Walked(e) : Included(p) /\ OldPath(d, p) \in SourceIncludes}
Dropped(d, e) == {p \in Walked(e) : ~Included(p) /\ OldPath(d, p) \in SourceIncludes}
Extracted(d, e) == {p \in Walked(e) : Included(p) /\ OldPath(d, p) \notin SourceIncludes}

\* The rows when the files of unread are sent without lines (version 0): their
\* extraction failed, or the program for it is missing.
RowsAfter(d, e, unread) == [p \in Files |->
    IF p \in Extracted(d, e)
    THEN Upsert(index, p, [lines |-> IF p \in unread THEN 0 ELSE disk[p],
                           mtime |-> disk[p]])[p]
    ELSE IF p \in Renamed(d, e) THEN Rename(index, OldPath(d, p), p)[p]
    ELSE IF \E q \in Renamed(d, e) : p = OldPath(d, q)
         THEN Rename(index, p, OldPath(e, p))[p]
    ELSE IF \E q \in Dropped(d, e) : p = OldPath(d, q) THEN NoRow
    ELSE index[p]]

\* Beside what each rename leaves: a file sent without lines, an extraction the
\* stale-mtime guard refused and the rows of files that are not there.
RenameLeaves(d, e, after) ==
    (UNION {LeaveRename(index, OldPath(d, p), p) : p \in Renamed(d, e)})
    \cup {p \in Extracted(d, e) : after[p].lines # disk[p]}
    \cup {p \in FilesIn(d) \cup FilesIn(e) : disk[p] = 0 /\ after[p] # NoRow}

\* One request for all files of the new directory.
DirRename(d, e, ok) ==
    \E unread \in SUBSET Extracted(d, e) :
        LET after == RowsAfter(d, e, unread)
        IN /\ Accepted(ok /\ unread = {})
           /\ index' = IF ok THEN after ELSE index
           /\ left' = left \cup IF ok THEN RenameLeaves(d, e, after)
                                ELSE FilesIn(d) \cup FilesIn(e)

\* A file that was deleted beside one new directory is taken for the old
\* directory: its row stays, the new files have no rows to rename, and nothing
\* is rescanned if it was a control file.
FileAsDirRename(o, n, ok) ==
    /\ Accepted(ok)
    /\ left' = left \cup {o} \cup Governed(o) \cup FilesIn(n[2])
    /\ UNCHANGED index

HandleDirPair ==
    /\ phase = "dirs"
    /\ \E pair \in pairs, ok \in BOOLEAN :
        LET o == pair[1]
            n == pair[2]
        IN /\ IF o \in Files THEN FileAsDirRename(o, n, ok) ELSE DirRename(o[2], n[2], ok)
           /\ pairs' = pairs \ {pair}
           /\ batch' = Without(batch, {p \in DOMAIN batch :
                          p \in {o, n} \/ DirPath(Parent(p)) \in {o, n}})
           /\ dirs_needing_watch' = dirs_needing_watch \cup {n[2]}
    /\ UNCHANGED <<fsVars, watched, channel, pending, first_seen_creates,
                   phase, expired, fresh_creates, to_index, extracting,
                   rescans>>

PairFiles ==
    /\ phase = "dirs" /\ pairs = {}
    /\ pairs' = FilePairs(batch)
    /\ phase' = "files"
    /\ UNCHANGED <<fsVars, watched, channel, pending, first_seen_creates,
                   expired, batch, fresh_creates, dirs_needing_watch, to_index,
                   extracting, index, rescans, left, failures>>

\* A pair stays in the batch, for the plain delete and update, when the new
\* path is filtered out or the request fails.  An old path that was created in
\* this window is dropped and the new one becomes a creation; if the old path was
\* indexed all the same, by a walk or an update that came before its event, its
\* row stays, and so do the rows below it if it was a directory.
HandleFilePair ==
    /\ phase = "files"
    /\ \E pair \in pairs, ok \in BOOLEAN :
        LET o == pair[1]
            n == pair[2]
        IN /\ pairs' = pairs \ {pair}
           /\ IF ~Included(n)
              THEN ok /\ UNCHANGED <<batch, index, left, failures>>
              ELSE IF o \in fresh_creates
              THEN /\ ok
                   /\ batch' = Put(Without(batch, {o}), n, "create")
                   /\ left' = left \cup Governed(o) \cup
                        IF o \in Files THEN {q \in {o} : index[q] # NoRow} ELSE FilesIn(o[2])
                   /\ UNCHANGED <<index, failures>>
              ELSE /\ Accepted(ok)
                   /\ index' = IF ok THEN Rename(index, o, n) ELSE index
                   /\ left' = IF ok THEN left \cup LeaveRename(index, o, n)
                              ELSE left
                   /\ batch' = IF ok THEN Without(batch, {o, n}) ELSE batch
    /\ UNCHANGED <<fsVars, watched, channel, pending, first_seen_creates,
                   phase, expired, fresh_creates, dirs_needing_watch, to_index,
                   extracting, rescans>>

\* Back in the event loop: watch_tree on the renamed directories.
RegisterRenamed ==
    /\ phase = "files" /\ pairs = {}
    /\ watched' = watched \cup (dirs_needing_watch \cap dirs)
    /\ dirs_needing_watch' = {}
    /\ phase' = "entries"
    /\ UNCHANGED <<fsVars, channel, pending, first_seen_creates, expired,
                   batch, fresh_creates, pairs, to_index, extracting, index,
                   rescans, left, failures>>

-----------------------------------------------------------------------------
(* The entries that are left *)

\* The files a walk from a new directory yields: at depth 0 neither the
\* .noindex inside it nor the include globs are consulted.
WalkNewDir(d) == {p \in FilesIn(d) : disk[p] # 0} \ Excluded

\* A path that is filtered out is dropped, its deletion too; a deletion is sent
\* whether or not there is a file again.
HandleEntry ==
    /\ phase = "entries" /\ to_index = {} /\ extracting = Idle
    /\ \E p \in DOMAIN batch, ok \in BOOLEAN :
        /\ batch' = Without(batch, {p})
        /\ IF p[2] = Ctl
           THEN /\ ok
                /\ rescans' = rescans \cup {Parent(p)}
                /\ left' = left \cup Governed(p)
                /\ UNCHANGED <<watched, to_index, index, failures>>
           ELSE IF ~Included(p)
           THEN /\ ok
                /\ left' = left \cup IF p \in Files THEN {q \in {p} : index[q] # NoRow}
                                    ELSE FilesIn(p[2])
                /\ UNCHANGED <<watched, to_index, index, rescans, failures>>
           ELSE IF batch[p] = "delete"
           THEN /\ Accepted(ok)
                /\ index' = IF ok THEN Delete(index, p) ELSE index
                /\ left' = left \cup (IF p \notin Files THEN FilesIn(p[2])
                                      ELSE IF ok /\ disk[p] = 0 THEN {} ELSE {p})
                /\ UNCHANGED <<watched, to_index, rescans>>
           ELSE IF IsDir(p)
           THEN /\ ok
                /\ IF batch[p] = "update"
                   THEN /\ left' = IF p[2] \in watched THEN left
                                   ELSE left \cup FilesIn(p[2])
                        /\ UNCHANGED <<watched, to_index>>
                   ELSE /\ watched' = watched \cup {p[2]}
                        /\ to_index' = WalkNewDir(p[2])
                        /\ left' = (left \ WalkNewDir(p[2])) \cup
                             {q \in FilesIn(p[2]) : disk[q] = 0 /\ index[q] # NoRow}
                /\ UNCHANGED <<index, rescans, failures>>
           ELSE /\ ok
                /\ to_index' = IF IsFile(p) THEN {p} ELSE {}
                /\ UNCHANGED <<watched, index, rescans, left, failures>>
    /\ UNCHANGED <<fsVars, channel, pending, first_seen_creates, phase,
                   expired, fresh_creates, pairs, dirs_needing_watch,
                   extracting>>

\* handle_update up to the extraction.  It fails either with an upsert
\* without lines (version 0), or, for an archive or a missing binary, without
\* any request.
Extract ==
    /\ phase = "entries" /\ extracting = Idle
    /\ \E p \in to_index, result \in {"lines", "none", "skip"} :
        /\ Accepted(result = "lines")
        /\ to_index' = to_index \ {p}
        /\ extracting' = IF result = "skip" THEN Idle
                         ELSE [path |-> p,
                               lines |-> IF result = "lines" THEN disk[p] ELSE 0]
        /\ left' = IF result = "skip" THEN left \cup {p} ELSE left
    /\ UNCHANGED <<fsVars, watched, channel, pending, first_seen_creates,
                   phase, expired, batch, fresh_creates, pairs,
                   dirs_needing_watch, index, rescans>>

\* The rest of handle_update: mtime and hash are those of the file as it is
\* now.  A failed extraction and the stale-mtime guard leave the file as well; in
\* a directory without a watch it may have changed since it was extracted.
SendUpdate ==
    /\ extracting # Idle
    /\ \E ok \in BOOLEAN :
        LET p == extracting.path
            row == [lines |-> extracting.lines, mtime |-> disk[p]]
        IN /\ Accepted(ok)
           /\ index' = IF ok THEN Upsert(index, p, row) ELSE index
           /\ left' = IF ~(ok /\ index'[p] = row /\ row.lines # 0) THEN left \cup {p}
                      ELSE IF Parent(p) \in watched THEN left \ {p} ELSE left
    /\ extracting' = Idle
    /\ UNCHANGED <<fsVars, watched, channel, pending, first_seen_creates,
                   phase, expired, batch, fresh_creates, pairs,
                   dirs_needing_watch, to_index, rescans>>

EndFlush ==
    /\ phase = "entries" /\ DOMAIN batch = {}
    /\ to_index = {} /\ extracting = Idle
    /\ phase' = "wait"
    /\ fresh_creates' = {}
    /\ UNCHANGED <<fsVars, watched, channel, pending, first_seen_creates,
                   expired, batch, pairs, dirs_needing_watch, to_index,
                   extracting, index, rescans, left, failures>>

Loop ==
    \/ Receive \/ Expire \/ KeepWaiting \/ StartFlush
    \/ HandleDirPair \/ PairFiles \/ HandleFilePair \/ RegisterRenamed
    \/ HandleEntry \/ Extract \/ SendUpdate \/ EndFlush

Next == FileSystem \/ Loop

Spec == Init /\ [][Next]_vars
FairSpec == Spec /\ WF_vars(Loop)

-----------------------------------------------------------------------------
(* Properties *)

TypeOK ==
    /\ disk \in [Files -> Version] /\ dirs \subseteq Dirs
    /\ watched \subseteq Places
    /\ channel \in Seq(Events)
    /\ DOMAIN pending \subseteq Paths /\ pending \in [DOMAIN pending -> Kinds]
    /\ DOMAIN batch \subseteq Paths /\ batch \in [DOMAIN batch -> Kinds]
    /\ first_seen_creates \subseteq Paths /\ fresh_creates \subseteq Paths
    /\ phase \in {"wait", "drain", "dirs", "files", "entries"}
    /\ expired \in BOOLEAN
    /\ pairs \subseteq Paths \X Paths
    /\ dirs_needing_watch \subseteq Dirs
    /\ to_index \subseteq Files
    /\ extracting \in [path: Files, lines: Version] \cup {Idle}
    /\ index \in [Files -> Row \cup {NoRow}]
    /\ rescans \subseteq Places /\ left \subseteq Files
    /\ ops \in 0..MaxOps /\ failures \in 0..MaxFailures

\* The paths an event or a step of the flush will still look at.
Coming ==
    {channel[i].path : i \in DOMAIN channel} \cup DOMAIN pending
    \cup DOMAIN batch \cup to_index
    \cup IF extracting = Idle THEN {} ELSE {extracting.path}

InFlight(p) ==
    \E q \in {p, DirPath(Parent(p)), <<Parent(p), Ctl>>, <<Root, Ctl>>} :
        q \in Coming

Indexable(p) == disk[p] # 0 /\ p[2] # Ctl /\ Included(p)

Agrees(p) ==
    IF Indexable(p) THEN index[p] # NoRow /\ index[p].lines = disk[p]
    ELSE disk[p] = 0 /\ p \in SourceIncludes \ Excluded => index[p] = NoRow

\* Every file whose row differs from the file on disk either has an event on
\* its way through the window, the batch or an extraction, or is one of the
\* files the code leaves to the next scan: no event is lost by the collapsing,
\* the draining or the rename detection of run_event_loop.
Accounted == \A p \in Files : Agrees(p) \/ InFlight(p) \/ p \in left

Settled == phase = "wait" /\ channel = <<>> /\ DOMAIN pending = {}

\* Creating or removing a control file needs a rescan of its directory,
\* whatever the kind of its event.
ControlFileRescanned ==
    Settled => \A d \in watched :
        (disk[<<d, Ctl>>] # 0) # (<<d, Ctl>> \in InitFiles) => d \in rescans

\* When the file system comes to rest, so does the loop, and everything but
\* what is left to a scan is as on disk.
Settles == <>[](Settled /\ \A p \in Files : Agrees(p) \/ p \in left)

=============================================================================
