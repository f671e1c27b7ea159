------------------------------ MODULE SourceReports ------------------------------
(***************************************************************************)
(* What a source's database says of its own state: the log of indexing     *)
(* errors, the last scan and the history of scans, as the requests leave   *)
(* them and as the statistics, error and file routes read them.            *)
(*                                                                         *)
(* db.files: path -> [ext, size, hash, mtime, archive]; db.errors: path -> *)
(* [error, first, last, count]; db.history: what each scan found, in the   *)
(* order of the requests.  A path is a sequence: a file, a member of it, a *)
(* member of that.                                                         *)
(***************************************************************************)
EXTENDS Integers, FiniteSets, Sequences, SequencesExt, FiniteSetsExt, Functions

CONSTANTS NoHash, NoScan, NoExt, NoError

EmptySource == [files |-> <<>>, errors |-> <<>>, last_scan |-> NoScan, history |-> <<>>]

\* composite_range_bounds: the members of a path, at any depth.
Within(path, outer) == IsStrictPrefix(outer, path)
Composite(path) == Len(path) > 1
WithMembers(rows, paths) ==
    {p \in DOMAIN rows : p \in paths \/ \E outer \in paths : Within(p, outer)}
Without(rows, paths) == Restrict(rows, DOMAIN rows \ paths)
Put(rows, path, row) == [p \in DOMAIN rows \cup {path} |-> IF p = path THEN row ELSE rows[p]]

-----------------------------------------------------------------------------
(* Requests *)

DeleteFiles(db, paths) ==
    [db EXCEPT !.files = Without(@, WithMembers(@, paths)),
               !.errors = Without(@, WithMembers(@, paths))]

\* rename_files moves rows and leaves the errors where they are.
RenameFile(db, r) ==
    LET old == WithMembers(db.files, {r.from})
        New(p) == r.to \o SubSeq(p, Len(r.from) + 1, Len(p))
        Old(p) == CHOOSE q \in old : New(q) = p
        gone == {New(p) : p \in old}
    IN IF r.from \notin DOMAIN db.files \/ r.to \in DOMAIN db.files THEN db
       ELSE [db EXCEPT !.files =
               [p \in (DOMAIN @ \ old) \cup gone |-> IF p \in gone THEN @[Old(p)] ELSE @[p]]]

\* process_file_phase1: a row that is older than the one there is skipped; the
\* sentinel of an archive takes the members with it, their errors it leaves.
Upsert(db, path, row, force, skip_inner) ==
    LET stale == ~force /\ path \in DOMAIN db.files /\ row.mtime \in 1..(db.files[path].mtime - 1)
        inner == IF row.archive /\ ~Composite(path) /\ row.mtime = 0 /\ ~skip_inner
                 THEN WithMembers(db.files, {path}) \ {path} ELSE {}
    IN IF stale THEN db ELSE [db EXCEPT !.files = Put(Without(@, inner), path, row)]

\* A file whose indexing fails gets a row without content: an archive the
\* sentinel's, so that it is scanned again.
IndexRow(db, f) ==
    LET outer == f.row.archive /\ ~Composite(f.path)
        fallback == [f.row EXCEPT !.hash = NoHash, !.archive = outer,
                                  !.mtime = IF outer THEN 0 ELSE @]
    IN Upsert(db, f.path, IF f.fails THEN fallback ELSE f.row, f.force, f.fails /\ outer)

\* The upsert of a failure, one row a path.
LogError(errors, failure, now) ==
    Put(errors, failure.path,
        IF failure.path \in DOMAIN errors
        THEN [errors[failure.path] EXCEPT !.error = failure.error, !.last = now, !.count = @ + 1]
        ELSE [error |-> failure.error, first |-> now, last |-> now, count |-> 1])

\* get_stats: a sum that went below zero is shown as nothing.
Totals(files) ==
    [files |-> Cardinality(DOMAIN files),
     size |-> Max({0, MapThenSumSet(LAMBDA p : files[p].size, DOMAIN files)})]

\* do_cleanup_writes: what was indexed is cleared before the failures are logged;
\* the snapshot counts the rows as this request leaves them.
CleanupWrites(db, cleared, failures, now, scan_timestamp) ==
    LET errors == FoldLeft(LAMBDA es, f : LogError(es, f, now), Without(db.errors, cleared), failures)
    IN IF scan_timestamp = NoScan THEN [db EXCEPT !.errors = errors]
       ELSE [db EXCEPT !.errors = errors,
                       !.last_scan = scan_timestamp,
                       !.history = Append(@, [scanned_at |-> scan_timestamp,
                                              totals |-> Totals(db.files)])]

\* The failures of a request: the client's, then those met while indexing.
ServerFailures(files) ==
    LET failed == SelectSeq(files, LAMBDA f : f.fails)
    IN [i \in DOMAIN failed |-> [path |-> failed[i].path, error |-> "indexing"]]

\* process_one_request: deletes, renames, upserts, then the cleanup.
ProcessRequest(db, request, now) ==
    LET deleted == DeleteFiles(db, request.delete_paths)
        renamed == FoldLeft(RenameFile, deleted, request.rename_paths)
        indexed == FoldLeft(IndexRow, renamed, request.files)
        cleared == {f.path : f \in {g \in ToSet(request.files) : ~g.fails}}
    IN CleanupWrites(indexed, cleared, request.indexing_failures \o ServerFailures(request.files),
                     now, request.scan_timestamp)

-----------------------------------------------------------------------------
(* Reads *)

FirstOf(s, limit) == SubSeq(s, 1, Min({limit, Len(s)}))

\* get_indexing_errors: every order the query may give, and a page of one.  The
\* route asks for at most 1000.
ErrorOrders(errors) ==
    {s \in SetToSeqs(DOMAIN errors) :
       \A i, j \in DOMAIN s : i < j => errors[s[i]].last >= errors[s[j]].last}
ErrorPage(order, limit, offset, MaxPage) ==
    LET size == Min({limit, MaxPage})
    IN SubSeq(order, offset + 1, Min({offset + size, Len(order)}))

\* What the file route says of a file: its own error, or that of the file on disk
\* it is in.
ShownError(errors, path) ==
    CASE path \in DOMAIN errors -> errors[path].error
      [] path \notin DOMAIN errors /\ <<path[1]>> \in DOMAIN errors -> errors[<<path[1]>>].error
      [] OTHER -> NoError

\* get_scan_history: the oldest scans, up to the limit.
GetScanHistory(history, limit) ==
    FirstOf(SortSeq(history, LAMBDA a, b : a.scanned_at < b.scanned_at), limit)

\* get_files_pending_content: hashes, not files; a store that cannot tell counts
\* as having it.
FilesPendingContent(files, stored, unreadable) ==
    Cardinality({files[p].hash : p \in DOMAIN files} \ (stored \cup unreadable \cup {NoHash}))

\* get_stats_by_ext: the files on disk that have an extension, the commonest
\* first.
OfExt(files, ext) == {p \in DOMAIN files : ~Composite(p) /\ files[p].ext = ext}
ExtStat(files, ext) ==
    [ext |-> ext, count |-> Cardinality(OfExt(files, ext)),
     size |-> MapThenSumSet(LAMBDA p : files[p].size, OfExt(files, ext))]
StatsByExt(files, limit) ==
    LET exts == {files[p].ext : p \in {q \in DOMAIN files : ~Composite(q)}} \ {NoExt}
        orders == {s \in SetToSeqs({ExtStat(files, e) : e \in exts}) :
                     \A i, j \in DOMAIN s : i < j => s[i].count >= s[j].count}
    IN {FirstOf(s, limit) : s \in orders}

\* full_rebuild, one source.
RebuiltStats(db, postings, stored, unreadable) ==
    [totals |-> Totals(db.files), by_ext |-> CHOOSE s \in StatsByExt(db.files, 100) : TRUE,
     fts_row_count |-> postings,
     files_pending_content |-> FilesPendingContent(db.files, stored, unreadable)]

\* get_stats: what the cache has of a source, with what its database says now; a
\* database that does not open is shown as never scanned.
SourceStats(cached, db, opens, MaxHistory) ==
    [cached |-> cached,
     last_scan |-> IF opens THEN db.last_scan ELSE NoScan,
     history |-> IF opens THEN GetScanHistory(db.history, MaxHistory) ELSE <<>>,
     indexing_error_count |-> IF opens THEN Cardinality(DOMAIN db.errors) ELSE 0]

=============================================================================
