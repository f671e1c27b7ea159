---------------------------- MODULE RecentActivity ----------------------------
(***************************************************************************)
(* The activity log of one source and those who follow it.  The indexing   *)
(* worker writes what a request added, modified, deleted and renamed to    *)
(* the log, in the transaction of the request, and broadcasts it at once,  *)
(* ahead of the COMMIT.  Who opens the stream subscribes first, then reads *)
(* the log, and hears the broadcast after that.                            *)
(*                                                                         *)
(* A request is [deletes, renames, upserts]: sequences of paths, of pairs  *)
(* of paths, and of [path, mtime].                                         *)
(***************************************************************************)
EXTENDS Naturals, Sequences, SequencesExt, TLC

CONSTANTS Composite,                \* paths of archive members
          Bulk,                     \* the requests that may arrive
          Followers,
          PHASE1_BATCH_SIZE,
          activity_log_max_entries,
          recent_tx_capacity,       \* of the broadcast channel
          MAX_RECENT_LIMIT,
          follow_limit,             \* what followers ask for
          NoNewPath, BadRequest,
          MaxBulk, MaxAborts

BulkPaths ==
    UNION {{r.deletes[i] : i \in DOMAIN r.deletes}
           \cup UNION {{r.renames[i][1], r.renames[i][2]} : i \in DOMAIN r.renames}
           \cup {r.upserts[i].path : i \in DOMAIN r.upserts} : r \in Bulk}

ASSUME ActivityAssumption ==
    /\ Bulk \subseteq [deletes : Seq(BulkPaths), renames : Seq(BulkPaths \X BulkPaths),
                       upserts : Seq([path : BulkPaths, mtime : Nat])]
    /\ activity_log_max_entries \in Nat /\ recent_tx_capacity \in Nat
    /\ MAX_RECENT_LIMIT \in Nat /\ follow_limit \in Nat

VARIABLES
    inbox,          \* requests on disk, the oldest first
    db,             \* [files, log]: committed
    tx,             \* the same as the session sees it
    finished,       \* requests at the head of the inbox that are done, not committed
    working,        \* the request in work
    since_commit,   \* units
    now,
    sent,           \* recent_tx: all that was broadcast
    streams,
    bulked, aborted \* how often

activityVars == <<inbox, db, tx, finished, working, since_commit, now, sent, streams, bulked, aborted>>

-----------------------------------------------------------------------------
(* The log                                                                 *)

ActivityRow(at, action, path, new) ==
    [occurred_at |-> at, action |-> action, path |-> path, new_path |-> new]

\* Members of archives are not reported.
Activities(at, added, modified, request) ==
    LET row(hidden, action, path, new) ==
            IF hidden THEN << >> ELSE <<ActivityRow(at, action, path, new)>>
        of(action, paths) ==
            FlattenSeq([i \in DOMAIN paths |->
              row(paths[i] \in Composite, action, paths[i], NoNewPath)])
        moved ==
            FlattenSeq([i \in DOMAIN request.renames |->
              LET r == request.renames[i]
              IN  row(r[1] \in Composite \/ r[2] \in Composite, "renamed", r[1], r[2])])
    IN  of("added", added) \o of("modified", modified) \o of("deleted", request.deletes) \o moved

\* The newest entries are kept; 0 keeps them all.
LogActivity(log, entries) ==
    LET all == log \o entries
        max == activity_log_max_entries
    IN  IF entries = << >> \/ max = 0 \/ Len(all) <= max THEN all
        ELSE SubSeq(all, Len(all) - max + 1, Len(all))

-----------------------------------------------------------------------------
(* Reading: dbs gives each source [files, log], files a function to mtimes *)

AtMost(seq, n) == SubSeq(seq, 1, IF n < Len(seq) THEN n ELSE Len(seq))

\* Where a row belongs: behind those that are as new.
PlaceOf(seq, row) ==
    CHOOSE i \in 1 .. Len(seq) + 1 :
        /\ \A j \in 1 .. i - 1 : seq[j].occurred_at >= row.occurred_at
        /\ i <= Len(seq) => seq[i].occurred_at < row.occurred_at

\* The newest first, and those as new as each other as they were.
Sorted(seq) ==
    LET f[k \in 0 .. Len(seq)] ==
          IF k = 0 THEN << >> ELSE InsertAt(f[k - 1], PlaceOf(f[k - 1], seq[k]), seq[k])
    IN  f[Len(seq)]

Newest(seq, n) == AtMost(Sorted(seq), n)

ReadActivity(source, limit) == Newest(source.log, limit)
ReadByMtime(source, limit) ==
    LET outer == SetToSeq(DOMAIN source.files \ Composite)
    IN  Newest([i \in 1 .. Len(outer) |-> ActivityRow(source.files[outer[i]], "modified", outer[i], NoNewPath)],
               limit)

\* Each source gives its newest, and of these the newest are taken.
FetchRecent(dbs, limit, by_mtime) ==
    LET sources == SetToSeq(DOMAIN dbs)
        rows(source) == IF by_mtime THEN ReadByMtime(source, limit) ELSE ReadActivity(source, limit)
    IN  Newest(FlattenSeq([i \in DOMAIN sources |-> rows(dbs[sources[i]])]), limit)

GetRecent(dbs, limit, by_mtime) ==
    IF limit > MAX_RECENT_LIMIT THEN BadRequest ELSE FetchRecent(dbs, limit, by_mtime)

-----------------------------------------------------------------------------
(* The worker                                                              *)

Resting == [phase |-> "rest", next |-> 1, added |-> << >>, modified |-> << >>]
Request == inbox[finished + 1]

ActivityInit ==
    /\ inbox = << >> /\ finished = 0 /\ working = Resting /\ since_commit = 0
    /\ db = [files |-> << >>, log |-> << >>] /\ tx = db
    /\ now = 1 /\ sent = << >> /\ bulked = 0 /\ aborted = 0
    /\ streams = [f \in Followers |-> [state |-> "closed"]]

Arrive ==
    /\ bulked < MaxBulk
    /\ \E r \in Bulk : inbox' = Append(inbox, r)
    /\ bulked' = bulked + 1
    /\ UNCHANGED <<db, tx, finished, working, since_commit, now, sent, streams, aborted>>

\* COMMIT takes the requests that are done out of the inbox.
CommitPoint(t, done) ==
    /\ tx' = t /\ db' = t /\ since_commit' = 0
    /\ inbox' = SubSeq(inbox, finished + 1, Len(inbox))
    /\ finished' = done

AddUnits(t, units, done) ==
    IF since_commit + units >= PHASE1_BATCH_SIZE THEN CommitPoint(t, done)
    ELSE /\ tx' = t /\ since_commit' = since_commit + units /\ finished' = finished + done
         /\ UNCHANGED <<inbox, db>>

Outside == <<sent, streams, bulked, aborted>>

DeletePaths ==
    /\ working.phase = "rest" /\ finished < Len(inbox)
    /\ LET gone == ToSet(Request.deletes)
       IN  AddUnits([tx EXCEPT !.files = [p \in DOMAIN @ \ gone |-> @[p]]], Len(Request.deletes), 0)
    /\ working' = [working EXCEPT !.phase = "renames"]
    /\ UNCHANGED <<now, Outside>>

\* Skipped when the old path has no row or the new one has.
Renamed(files, old, new) ==
    IF old \in DOMAIN files /\ new \notin DOMAIN files
    THEN [p \in (DOMAIN files \ {old}) \cup {new} |-> IF p = new THEN files[old] ELSE files[p]]
    ELSE files

RenamePaths ==
    /\ working.phase = "renames"
    /\ tx' = [tx EXCEPT !.files = FoldLeft(LAMBDA fs, r : Renamed(fs, r[1], r[2]), @, Request.renames)]
    /\ working' = [working EXCEPT !.phase = "files"]
    /\ UNCHANGED <<inbox, db, finished, since_commit, now, Outside>>

\* A first row, another one, or nothing: an older mtime than the row's.
Phase1Outcome(files, upsert) ==
    IF upsert.path \notin DOMAIN files THEN "new"
    ELSE IF upsert.mtime > 0 /\ upsert.mtime < files[upsert.path] THEN "skipped" ELSE "modified"

\* Members, announcements of archives (mtime 0) and files that failed and were
\* indexed by name only are not reported.
IndexUpsert ==
    /\ working.phase = "files" /\ working.next <= Len(Request.upserts)
    /\ \E failed \in BOOLEAN :
        LET u == Request.upserts[working.next]
            outcome == Phase1Outcome(tx.files, u)
            reported == ~failed /\ u.mtime # 0 /\ u.path \notin Composite
        IN  /\ AddUnits(IF outcome = "skipped" THEN tx
                        ELSE [tx EXCEPT !.files = (u.path :> u.mtime) @@ @], 1, 0)
            /\ working' =
                 [working EXCEPT !.next = @ + 1,
                                 !.added = IF reported /\ outcome = "new" THEN Append(@, u.path) ELSE @,
                                 !.modified = IF reported /\ outcome = "modified" THEN Append(@, u.path) ELSE @]
    /\ UNCHANGED <<now, Outside>>

\* The log and the broadcast; a request with renames counts as one more unit.
FinishRequest ==
    /\ working.phase = "files" /\ working.next > Len(Request.upserts)
    /\ LET entries == Activities(now, working.added, working.modified, Request)
       IN  /\ AddUnits([tx EXCEPT !.log = LogActivity(@, entries)],
                       IF Request.renames = << >> THEN 0 ELSE 1, 1)
           /\ sent' = sent \o entries
    /\ working' = Resting /\ now' = now + 1
    /\ UNCHANGED <<streams, bulked, aborted>>

\* The group ends, at any length.
Finalize ==
    /\ working.phase = "rest" /\ finished > 0
    /\ CommitPoint(tx, 0)
    /\ UNCHANGED <<working, now, Outside>>

\* Lock contention: the group is rolled back, its requests stay in the inbox.
Abort ==
    /\ aborted < MaxAborts /\ (working # Resting \/ finished > 0)
    /\ tx' = db /\ finished' = 0 /\ working' = Resting /\ since_commit' = 0
    /\ aborted' = aborted + 1
    /\ UNCHANGED <<inbox, db, now, sent, streams, bulked>>

-----------------------------------------------------------------------------
(* The stream                                                              *)

FollowLimit == IF follow_limit < MAX_RECENT_LIMIT THEN follow_limit ELSE MAX_RECENT_LIMIT

\* pending is a history variable: what was logged and not committed by then.
Subscribe(f) ==
    /\ streams[f].state = "closed"
    /\ streams' = [streams EXCEPT ![f] =
          [state |-> "subscribed", cursor |-> Len(sent), history |-> << >>, heard |-> {}, lagged |-> FALSE,
           pending |-> ToSet(tx.log) \ ToSet(db.log)]]
    /\ UNCHANGED <<inbox, db, tx, finished, working, since_commit, now, sent, bulked, aborted>>

\* Mutant of FetchHistory: the subscription is made when the log has been read.
FetchThenSubscribe(f) ==
    /\ streams[f].state = "subscribed"
    /\ streams' = [streams EXCEPT ![f].state = "open", ![f].cursor = Len(sent),
                                  ![f].history = Reverse(FetchRecent([s |-> db], FollowLimit, FALSE))]
    /\ UNCHANGED <<inbox, db, tx, finished, working, since_commit, now, sent, bulked, aborted>>

\* The oldest entry first.
FetchHistory(f) ==
    /\ streams[f].state = "subscribed"
    /\ streams' = [streams EXCEPT ![f].state = "open",
                                  ![f].history = Reverse(FetchRecent([s |-> db], FollowLimit, FALSE))]
    /\ UNCHANGED <<inbox, db, tx, finished, working, since_commit, now, sent, bulked, aborted>>

\* A follower that is too far behind loses the oldest events, without a word.
Listen(f) ==
    /\ streams[f].state = "open" /\ streams[f].cursor < Len(sent)
    /\ LET s == streams[f]
       IN  streams' =
             [streams EXCEPT ![f] =
                IF Len(sent) - s.cursor > recent_tx_capacity
                THEN [s EXCEPT !.cursor = Len(sent) - recent_tx_capacity, !.lagged = TRUE]
                ELSE [s EXCEPT !.cursor = s.cursor + 1, !.heard = s.heard \cup {sent[s.cursor + 1]}]]
    /\ UNCHANGED <<inbox, db, tx, finished, working, since_commit, now, sent, bulked, aborted>>

Disconnect(f) ==
    /\ streams[f].state # "closed"
    /\ streams' = [streams EXCEPT ![f] = [state |-> "closed"]]
    /\ UNCHANGED <<inbox, db, tx, finished, working, since_commit, now, sent, bulked, aborted>>

ActivityNext ==
    \/ Arrive \/ DeletePaths \/ RenamePaths \/ IndexUpsert \/ FinishRequest \/ Finalize \/ Abort
    \/ \E f \in Followers : Subscribe(f) \/ FetchHistory(f) \/ Listen(f) \/ Disconnect(f)

ActivitySpec == ActivityInit /\ [][ActivityNext]_activityVars

-----------------------------------------------------------------------------
(* What a follower relies on                                               *)

\* "Subscribe before the DB query so we don't miss events that arrive while we're
\* fetching history" (stream_recent): an open stream that has not lagged gives,
\* or will give, every entry of the log that its limit leaves room for -- but for
\* those that were broadcast before it subscribed and committed after it had read
\* the log, because the broadcast runs ahead of the COMMIT.
OnlyPendingMissed ==
    \A f \in Followers :
        LET s == streams[f]
            coming == ToSet(SubSeq(sent, s.cursor + 1, Len(sent)))
            older(row) == /\ Len(s.history) = FollowLimit
                          /\ \A i \in DOMAIN s.history : row.occurred_at <= s.history[i].occurred_at
        IN  s.state = "open" /\ ~s.lagged =>
              \A row \in ToSet(db.log) :
                 row \in ToSet(s.history) \cup s.heard \cup coming \cup s.pending \/ older(row)

\* Without the exception, which the code does not promise and does not give.
NothingMissed ==
    \A f \in Followers :
        LET s == streams[f]
        IN  s.state = "open" /\ ~s.lagged /\ s.cursor = Len(sent) =>
              \A row \in ToSet(db.log) : row \in ToSet(s.history) \cup s.heard

=============================================================================
