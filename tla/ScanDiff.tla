------------------------------ MODULE ScanDiff ------------------------------
(***************************************************************************)
(* find-scan: the server's file list is compared with a walk of the file   *)
(* system; deletions are submitted first, then the files that are new or   *)
(* newer, in batches.  An archive is announced with mtime 0, its members   *)
(* follow, and only then does its row get the real mtime.                  *)
(*                                                                         *)
(* Several scans can run: the scheduled one of find-watch, the scoped ones *)
(* it spawns, one started by hand.  find-watch itself sends requests for   *)
(* single files in between, and the server's list lags behind the inbox.   *)
(* A version of a file stands for its content and its mtime.               *)
(***************************************************************************)
EXTENDS Naturals, Sequences, FiniteSets, SequencesExt

CONSTANTS
    Scanners,
    Scope,               \* the files below a scanner's subdir, or all files
    Upgrading,           \* the scanners started with --upgrade
    Plain, Archives,
    Members,             \* names of archive members
    MembersOf,           \* the members of each version of an archive
    OldRows,             \* plain files a find-scan of an older version indexed
    Watched,             \* files find-watch sends requests for
    SCANNER_VERSION,
    batch_size,
    NoRow, NoFile,
    MaxOps,              \* bound: file-system operations
    MaxWatch,            \* bound: requests of find-watch
    MaxFailures,         \* bound: failed extractions, unreadable files, aborts
    MaxInbox             \* bound: requests in the inbox

Files == Plain \cup Archives
Version == 0..(MaxOps + 1)     \* 0: no such file, 1: the initial content

ASSUME ScanAssumption ==
    /\ Plain \cap Archives = {} /\ IsFiniteSet(Files)
    /\ Scope \in [Scanners -> SUBSET Files] /\ Upgrading \subseteq Scanners
    /\ MembersOf \in [1..(MaxOps + 1) -> SUBSET Members]
    /\ Watched \subseteq Files /\ OldRows \subseteq Plain
    /\ SCANNER_VERSION \in Nat /\ batch_size \in Nat \ {0}
    /\ MaxOps \in Nat /\ MaxWatch \in Nat /\ MaxFailures \in Nat
    /\ MaxInbox \in Nat

\* lines: the version the content was extracted from, 0 for a file indexed by
\* its name only.
Row == [mtime: Version, lines: Version, scanner_version: 0..SCANNER_VERSION]
MemberRows == [Members -> Version]     \* 0: no such row

\* What a request carries for a file, and for a member of an archive.
FileItem(p, m, v) == [path |-> p, mtime |-> m, lines |-> v]
MemberItem(z, x, v) == [path |-> z, member |-> x, lines |-> v]
Request(dels, items, fails) ==
    [deletes |-> dels, items |-> items, failures |-> fails]

NoList == [p \in {} |-> NoRow]

VARIABLES
    disk,
    rows, members,     \* what the server has committed
    inbox,             \* accepted requests, in arrival order
    pc,                \* where each scanner is
    server_files,      \* the list a scanner fetched: mtime and version
    todo,              \* local files it still has to look at
    current,           \* the file being processed, its mtime, and the members
                       \* the archive subprocess still has to stream
    batch, fails,      \* ScanContext.batch and .failures
    spoiled,           \* history: files whose extraction failed and that were
                       \* indexed all the same
    bypassed,          \* history: archives find-watch has sent an update for
    ops, watch_requests, failures

scanVars == <<pc, server_files, todo, current, batch, fails>>
envVars == <<disk, ops, watch_requests, failures>>
vars == <<disk, rows, members, inbox, scanVars, spoiled, bypassed, ops,
          watch_requests, failures>>

Init ==
    /\ disk = [p \in Files |-> 1]
    /\ rows = [p \in Files |-> IF p \in OldRows
                 THEN [mtime |-> 1, lines |-> 1, scanner_version |-> 0] ELSE NoRow]
    /\ members = [z \in Archives |-> [x \in Members |-> 0]]
    /\ inbox = <<>>
    /\ pc = [s \in Scanners |-> "idle"]
    /\ server_files = [s \in Scanners |-> NoList]
    /\ todo = [s \in Scanners |-> {}]
    /\ current = [s \in Scanners |-> NoFile]
    /\ batch = [s \in Scanners |-> <<>>]
    /\ fails = [s \in Scanners |-> {}]
    /\ spoiled = {} /\ bypassed = {}
    /\ ops = 0 /\ watch_requests = 0 /\ failures = 0

-----------------------------------------------------------------------------
(* The server: deletes, then upserts, as in process_request_phase1 *)

\* Members go with their archive, and with an upsert of mtime 0.
Upsert(state, item) ==
    IF "member" \in DOMAIN item
    THEN [state EXCEPT !.members[item.path][item.member] = item.lines]
    ELSE LET old == state.rows[item.path]
             row == [mtime |-> item.mtime, lines |-> item.lines,
                     scanner_version |-> SCANNER_VERSION]
         IN IF old # NoRow /\ item.mtime > 0 /\ item.mtime < old.mtime
            THEN state
            ELSE IF item.path \in Archives /\ item.mtime = 0
            THEN [state EXCEPT !.rows[item.path] = row,
                               !.members[item.path] = [x \in Members |-> 0]]
            ELSE [state EXCEPT !.rows[item.path] = row]

Apply(request) ==
    LET deleted == [rows |-> [p \in Files |-> IF p \in request.deletes
                                              THEN NoRow ELSE rows[p]],
                    members |-> [z \in Archives |-> IF z \in request.deletes
                                 THEN [x \in Members |-> 0] ELSE members[z]]]
    IN FoldLeft(Upsert, deleted, request.items)

Index ==
    /\ inbox # <<>>
    /\ rows' = Apply(Head(inbox)).rows
    /\ members' = Apply(Head(inbox)).members
    /\ inbox' = Tail(inbox)
    /\ UNCHANGED <<scanVars, spoiled, bypassed, envVars>>

\* submit_batch: a request with nothing in it is not sent.
Sent(dels, items, failed) ==
    IF dels = {} /\ items = <<>> /\ failed = {} THEN inbox
    ELSE Append(inbox, Request(dels, items, failed))

-----------------------------------------------------------------------------
(* The file system, and find-watch beside the scans (external here) *)

Write(p) ==
    /\ ops < MaxOps
    /\ ops' = ops + 1
    /\ disk' = [disk EXCEPT ![p] = ops + 2]
    /\ UNCHANGED <<rows, members, inbox, scanVars, spoiled, bypassed,
                   watch_requests, failures>>

DeleteFile(p) ==
    /\ ops < MaxOps /\ disk[p] # 0
    /\ ops' = ops + 1
    /\ disk' = [disk EXCEPT ![p] = 0]
    /\ UNCHANGED <<rows, members, inbox, scanVars, spoiled, bypassed,
                   watch_requests, failures>>

\* handle_update and handle_delete: of an archive the file itself with its real
\* mtime and without a sentinel; its members are lost on the way from the
\* extractor.
WatchRequest(p) ==
    /\ p \in Watched
    /\ watch_requests < MaxWatch /\ Len(inbox) < MaxInbox
    /\ watch_requests' = watch_requests + 1
    /\ inbox' = Append(inbox,
         IF disk[p] = 0 THEN Request({p}, <<>>, {})
         ELSE Request({}, <<FileItem(p, disk[p], disk[p])>>, {}))
    /\ bypassed' = IF disk[p] # 0 /\ p \in Archives THEN bypassed \cup {p}
                   ELSE bypassed
    /\ UNCHANGED <<disk, rows, members, scanVars, spoiled, ops, failures>>

-----------------------------------------------------------------------------
(* run_scan *)

\* A scheduled scan is only started when the last one has ended.
\* The list is what the server has committed, not what it has accepted.
FetchList(s) ==
    /\ pc[s] = "idle"
    /\ server_files' = [server_files EXCEPT ![s] =
         [p \in {q \in Scope[s] : rows[q] # NoRow} |->
            [mtime |-> rows[p].mtime, scanner_version |-> rows[p].scanner_version]]]
    /\ pc' = [pc EXCEPT ![s] = "walk"]
    /\ UNCHANGED <<rows, members, bypassed, inbox, todo, current, batch,
                   fails, spoiled, envVars>>

\* The walk skips what it cannot read; the difference is submitted at once.
WalkAndDelete(s) ==
    /\ pc[s] = "walk" /\ Len(inbox) < MaxInbox
    /\ \E unreadable \in SUBSET {p \in Scope[s] : disk[p] # 0} :
        /\ Cardinality(unreadable) <= 1
        /\ failures + Cardinality(unreadable) <= MaxFailures
        /\ failures' = failures + Cardinality(unreadable)
        /\ LET local == {p \in Scope[s] : disk[p] # 0} \ unreadable
           IN /\ todo' = [todo EXCEPT ![s] = local]
              /\ inbox' = Sent(DOMAIN server_files[s] \ local, <<>>, {})
    /\ pc' = [pc EXCEPT ![s] = "files"]
    /\ UNCHANGED <<disk, rows, members, bypassed, server_files, current,
                   batch, fails, spoiled, ops, watch_requests>>

\* Mutant: the scanner version is not looked at.
NeedsReindexMtime(s, p, mtime) ==
    \/ p \notin DOMAIN server_files[s]
    \/ mtime > server_files[s][p].mtime

\* Whether a file is new, newer than its row, or due for an upgrade.  A
\* scoped scan takes every file.
NeedsReindex(s, p, mtime) ==
    \/ Scope[s] # Files
    \/ p \notin DOMAIN server_files[s]
    \/ mtime > server_files[s][p].mtime
    \/ s \in Upgrading /\ server_files[s][p].scanner_version < SCANNER_VERSION

Look(s) ==
    /\ pc[s] = "files" /\ Len(batch[s]) < batch_size
    /\ \E p \in todo[s] :
        /\ todo' = [todo EXCEPT ![s] = @ \ {p}]
        /\ IF NeedsReindex(s, p, disk[p])
           THEN /\ current' = [current EXCEPT ![s] =
                                [path |-> p, mtime |-> disk[p], rest |-> {}]]
                /\ pc' = [pc EXCEPT ![s] = IF p \in Plain THEN "extract"
                                           ELSE "sentinel"]
           ELSE UNCHANGED <<current, pc>>
    /\ UNCHANGED <<rows, members, bypassed, inbox, server_files, batch, fails,
                   spoiled, envVars>>

Fails == failures < MaxFailures /\ failures' = failures + 1

\* A plain file, after its mtime was taken: its lines as they are now, its
\* name alone when the extractor failed, a failure without an upsert from an
\* external extractor, nothing at all when the binary is missing.
Extract(s) ==
    LET p == current[s].path
        item(v) == [batch EXCEPT ![s] =
                     Append(@, FileItem(p, current[s].mtime, v))]
    IN /\ pc[s] = "extract"
       /\ \/ batch' = item(disk[p]) /\ UNCHANGED <<fails, spoiled, failures>>
          \/ /\ Fails
             /\ batch' = item(0)
             /\ spoiled' = spoiled \cup {p}
             /\ UNCHANGED fails
          \/ /\ Fails
             /\ fails' = [fails EXCEPT ![s] = @ \cup {p}]
             /\ UNCHANGED <<batch, spoiled>>
          \/ Fails /\ UNCHANGED <<batch, fails, spoiled>>
       /\ pc' = [pc EXCEPT ![s] = "files"]
       /\ current' = [current EXCEPT ![s] = NoFile]
       /\ UNCHANGED <<disk, rows, members, bypassed, inbox, server_files,
                      todo, ops, watch_requests>>

\* maybe_flush: at the size limit, or earlier for the bytes and the interval.
Flush(s) ==
    /\ pc[s] \in {"files", "members"} /\ Len(inbox) < MaxInbox
    /\ batch[s] # <<>>
    /\ inbox' = Sent({}, batch[s], fails[s])
    /\ batch' = [batch EXCEPT ![s] = <<>>]
    /\ fails' = [fails EXCEPT ![s] = {}]
    /\ UNCHANGED <<rows, members, bypassed, pc, server_files, todo, current,
                   spoiled, envVars>>

\* The archive is announced with all that was pending.
Announce(s, mtime) ==
    /\ pc[s] = "sentinel" /\ Len(inbox) < MaxInbox
    /\ inbox' = Sent({}, Append(batch[s], FileItem(current[s].path, mtime, 0)),
                     fails[s])
    /\ batch' = [batch EXCEPT ![s] = <<>>]
    /\ fails' = [fails EXCEPT ![s] = {}]
    /\ pc' = [pc EXCEPT ![s] = "unpack"]
    /\ UNCHANGED <<rows, members, bypassed, server_files, todo, current,
                   spoiled, envVars>>

\* Mutant: with its real mtime.
SentinelRealMtime(s) == Announce(s, current[s].mtime)

\* With mtime 0, which removes the old members.
Sentinel(s) == Announce(s, 0)

\* The subprocess opens the archive as it is now.  An external extractor that
\* fails, or whose binary is missing, leaves the archive at mtime 0.
Unpack(s) ==
    LET z == current[s].path
    IN /\ pc[s] = "unpack"
       /\ \/ /\ current' = [current EXCEPT ![s].rest =
                    IF disk[z] = 0 THEN {}
                    ELSE {MemberItem(z, x, disk[z]) : x \in MembersOf[disk[z]]}]
             /\ pc' = [pc EXCEPT ![s] = "members"]
             /\ UNCHANGED <<fails, failures>>
          \/ /\ Fails
             /\ \E noted \in {{}, {z}} :
                  fails' = [fails EXCEPT ![s] = @ \cup noted]
             /\ current' = [current EXCEPT ![s] = NoFile]
             /\ pc' = [pc EXCEPT ![s] = "files"]
       /\ UNCHANGED <<disk, rows, members, bypassed, inbox, server_files,
                      todo, batch, spoiled, ops, watch_requests>>

Member(s) ==
    /\ pc[s] = "members" /\ Len(batch[s]) < batch_size
    /\ \E x \in current[s].rest :
        /\ batch' = [batch EXCEPT ![s] = Append(@, x)]
        /\ current' = [current EXCEPT ![s].rest = @ \ {x}]
    /\ UNCHANGED <<rows, members, bypassed, inbox, pc, server_files, todo,
                   fails, spoiled, envVars>>

\* The subprocess ends early: the failure is noted, and the archive completed.
SubprocessFails(s) ==
    /\ pc[s] = "members" /\ current[s].rest # {}
    /\ Fails
    /\ current' = [current EXCEPT ![s].rest = {}]
    /\ fails' = [fails EXCEPT ![s] = @ \cup {current[s].path}]
    /\ spoiled' = spoiled \cup {current[s].path}
    /\ UNCHANGED <<disk, rows, members, bypassed, inbox, pc, server_files,
                   todo, batch, ops, watch_requests>>

\* The last members are flushed and the completion upsert joins the next batch.
Complete(s) ==
    LET z == current[s].path
    IN /\ pc[s] = "members" /\ current[s].rest = {} /\ Len(inbox) < MaxInbox
       /\ inbox' = IF batch[s] = <<>> THEN inbox ELSE Sent({}, batch[s], fails[s])
       /\ fails' = IF batch[s] = <<>> THEN fails ELSE [fails EXCEPT ![s] = {}]
       /\ batch' = [batch EXCEPT ![s] =
                     <<FileItem(z, current[s].mtime, current[s].mtime)>>]
       /\ current' = [current EXCEPT ![s] = NoFile]
       /\ pc' = [pc EXCEPT ![s] = "files"]
       /\ UNCHANGED <<rows, members, bypassed, server_files, todo, spoiled,
                      envVars>>

Finish(s) ==
    /\ pc[s] = "files" /\ todo[s] = {} /\ Len(inbox) < MaxInbox
    /\ inbox' = Sent({}, batch[s], fails[s])
    /\ batch' = [batch EXCEPT ![s] = <<>>]
    /\ fails' = [fails EXCEPT ![s] = {}]
    /\ pc' = [pc EXCEPT ![s] = "idle"]
    /\ server_files' = [server_files EXCEPT ![s] = NoList]
    /\ UNCHANGED <<rows, members, bypassed, todo, current, spoiled, envVars>>

\* A request that fails ends the scan, and so does a kill; what was pending is
\* gone.
Abort(s) ==
    /\ pc[s] # "idle"
    /\ Fails
    /\ pc' = [pc EXCEPT ![s] = "idle"]
    /\ todo' = [todo EXCEPT ![s] = {}]
    /\ current' = [current EXCEPT ![s] = NoFile]
    /\ batch' = [batch EXCEPT ![s] = <<>>]
    /\ fails' = [fails EXCEPT ![s] = {}]
    /\ server_files' = [server_files EXCEPT ![s] = NoList]
    /\ UNCHANGED <<disk, rows, members, bypassed, inbox, spoiled, ops,
                   watch_requests>>

Scan(s) ==
    \/ FetchList(s) \/ WalkAndDelete(s) \/ Look(s) \/ Extract(s) \/ Flush(s)
    \/ Sentinel(s) \/ Unpack(s) \/ Member(s) \/ SubprocessFails(s) \/ Complete(s)
    \/ Finish(s)

Next ==
    \/ Index
    \/ \E p \in Files : Write(p) \/ DeleteFile(p) \/ WatchRequest(p)
    \/ \E s \in Scanners : Scan(s) \/ Abort(s)

Spec == Init /\ [][Next]_vars
\* The worker indexes what it has accepted, and a scan goes on to its end and
\* is started again.  Strongly fair, as only the bound on the inbox ever holds
\* a scan up: the server accepts every request.
FairSpec ==
    Spec /\ WF_vars(Index) /\ \A s \in Scanners : SF_vars(Scan(s))

-----------------------------------------------------------------------------
(* Properties *)

Items == [path: Files, mtime: Version, lines: Version]
         \cup [path: Archives, member: Members, lines: Version]

TypeOK ==
    /\ disk \in [Files -> Version]
    /\ rows \in [Files -> Row \cup {NoRow}]
    /\ members \in [Archives -> MemberRows]
    /\ inbox \in Seq([deletes: SUBSET Files, items: Seq(Items),
                      failures: SUBSET Files])
    /\ pc \in [Scanners -> {"idle", "walk", "files", "extract", "sentinel",
                            "unpack", "members"}]
    /\ \A s \in Scanners : DOMAIN server_files[s] \subseteq Files
    /\ todo \in [Scanners -> SUBSET Files]
    /\ \A s \in Scanners : batch[s] \in Seq(Items) /\ Len(batch[s]) <= batch_size
    /\ fails \in [Scanners -> SUBSET Files]
    /\ spoiled \subseteq Files /\ bypassed \subseteq Archives
    /\ ops \in 0..MaxOps /\ watch_requests \in 0..MaxWatch
    /\ failures \in 0..MaxFailures

\* An archive whose row has its real mtime has exactly the members of that
\* version, or the file on disk is newer and the next scan will see it: the
\* sentinel, the members and the completion keep their order across batches,
\* aborted scans, deletions of find-watch, lag of the inbox and files changing
\* during an extraction.  Not promised of an archive whose extraction failed or
\* for which find-watch has sent an update: that gives the row its real mtime
\* without the members.
CompleteArchive(z) ==
    LET row == rows[z]
    IN row # NoRow /\ row.mtime # 0 =>
         \/ members[z] = [x \in Members |->
                            IF x \in MembersOf[row.mtime] THEN row.mtime ELSE 0]
         \/ disk[z] = 0 \/ disk[z] > row.mtime

CompleteArchives ==
    \A z \in Archives : CompleteArchive(z) \/ z \in spoiled \cup bypassed

\* A failed extraction leaves the archive to a later scan, which retries it.
FailedArchiveRetried == \A z \in Archives : CompleteArchive(z) \/ z \in bypassed

\* An update of find-watch leaves no archive with its real mtime and without
\* its members.
WatchedArchiveComplete == \A z \in Archives : CompleteArchive(z) \/ z \in spoiled

Current(p) ==
    IF disk[p] = 0 THEN rows[p] = NoRow
    ELSE /\ rows[p] # NoRow /\ rows[p].mtime = disk[p]
         /\ \/ p \in spoiled
            \/ /\ rows[p].lines = disk[p]
               /\ rows[p].scanner_version = SCANNER_VERSION
         /\ p \in Archives => CompleteArchive(p) \/ p \in spoiled \cup bypassed

\* Once the files no longer change, scans bring every row to the file on disk,
\* whatever the earlier scans and find-watch did concurrently; of an archive
\* for which find-watch has sent an update, the row and not the members.  An
\* archive is only promised again and again: a scan that reads the list while
\* a completion waits in the inbox announces the archive anew.
Converges ==
    /\ \A p \in Plain : <>[]Current(p)
    /\ \A z \in Archives : []<>Current(z)

=============================================================================
