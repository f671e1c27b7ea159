----------------------------- MODULE SearchIndex -----------------------------
(***************************************************************************)
(* The index of one source as a search sees it: the rows of `files`, the   *)
(* contentless full-text index whose entries are keyed by the id of the    *)
(* row and the line, the table of duplicates, and the content store the    *)
(* lines are read back from, which phase 2 fills later.                    *)
(*                                                                         *)
(* A line is the set of terms it can be found by.  Line 0 is the path,     *)
(* line 2 the content; the terms of the content depend on the bytes (the   *)
(* hash) and on the version of the extractor.  The worker writes; a search *)
(* runs beside it in several statements, each of which sees the index as   *)
(* it is at that moment.                                                   *)
(***************************************************************************)
EXTENDS Naturals, Sequences, FiniteSets

CONSTANTS
    Outer,          \* paths of files on disk
    Archives,       \* those of them that are archives
    Members,        \* names of members
    Words,          \* terms of content lines
    Hashes, NoHash,
    Extractions,    \* what extractors find: a path, a hash, the terms of the content
    Modes,          \* the search modes that are used
    Sensitive,      \* whether searches are case-sensitive: a set of BOOLEAN
    NoRow,
    MaxMtime,
    MaxOps,         \* bound: steps of the worker
    MaxSearches     \* bound: searches

Inner == Outer \X Members
Path == {<<o>> : o \in Outer} \cup Inner

ASSUME SearchAssumption ==
    /\ Archives \subseteq Outer
    /\ NoHash \notin Hashes
    /\ Extractions \subseteq Path \X Hashes \X SUBSET Words
    /\ MaxMtime \in Nat /\ MaxOps \in Nat /\ MaxSearches \in Nat
    /\ Sensitive \subseteq BOOLEAN
    /\ Modes \subseteq {"Fuzzy", "Exact", "Regex", "FileFuzzy", "FileExact",
                        "FileRegex", "Document", "DocExact", "DocRegex"}

LINE_PATH == 0
LINE_CONTENT_START == 2

Term == Words \cup Path
Id == 1..MaxOps
Mtime == 0..MaxMtime

\* words: the content terms of the last committed upsert (history).
Row == [id: Id, mtime: Mtime, file_hash: Hashes \cup {NoHash},
        words: SUBSET Words]

\* What a request carries for a file.
IndexFile == [path: Path, mtime: Mtime, file_hash: Hashes \cup {NoHash},
              words: SUBSET Words]
Blob == [path: Path, words: SUBSET Words]

VARIABLES
    files,
    next_id,        \* AUTOINCREMENT
    lines_fts,      \* entries <<id, line, term>>
    duplicates,     \* pairs <<file_hash, id>>
    blobs,          \* the content store: hash to blob
    to_archive,     \* files of committed requests phase 2 has not seen yet
    search,         \* the search in progress
    stale,          \* history: ids re-indexed while the store held other lines
    renamed,        \* history: ids of members whose archive was renamed
    touched,        \* history: when an id, or a hash in the store, last changed
    ops, searches

worker_vars == <<files, next_id, lines_fts, duplicates, blobs, to_archive,
                 stale, renamed, touched, ops>>
vars == <<worker_vars, search, searches>>

NoSearch == [phase |-> "idle"]

TypeOK ==
    /\ files \in [Path -> Row \cup {NoRow}]
    /\ next_id \in 1..(MaxOps + 1)
    /\ lines_fts \subseteq Id \X {LINE_PATH, LINE_CONTENT_START} \X Term
    /\ duplicates \subseteq Hashes \X Id
    /\ DOMAIN blobs \subseteq Hashes
    /\ \A h \in DOMAIN blobs : blobs[h] \in Blob
    /\ to_archive \subseteq {f \in IndexFile : f.file_hash # NoHash}
    /\ stale \subseteq Id /\ renamed \subseteq Id
    /\ ops \in 0..MaxOps /\ searches \in 0..MaxSearches
    /\ \A p, q \in Path : files[p] # NoRow /\ files[q] # NoRow /\ p # q
         => files[p].id # files[q].id
    /\ \A p \in Path : files[p] # NoRow => files[p].id < next_id

-----------------------------------------------------------------------------
Live == {p \in Path : files[p] # NoRow}
LiveIds == {files[p].id : p \in Live}
PathOf(id) == CHOOSE p \in Live : files[p].id = id

is_composite(p) == Len(p) = 2

\* composite_range_bounds: the rows "path::...".
Children(p) == {q \in Inner : ~is_composite(p) /\ q[1] = p[1]}

\* The entries of a file's lines.  Empty lines have none.
Entries(id, p, ws) ==
    {<<id, LINE_PATH, p>>} \cup {<<id, LINE_CONTENT_START, w>> : w \in ws}

cleanup_singleton_duplicates(dups) ==
    {d \in dups : Cardinality({e \in dups : e[1] = d[1]}) # 1}

\* ON DELETE CASCADE
Cascade(dups, ids) == {d \in dups : d[2] \notin ids}

(***************************************************************************)
(* process_file_phase1: one file of a request.                             *)
(***************************************************************************)
Skipped(f, force) ==
    /\ files[f.path] # NoRow /\ ~force
    /\ f.mtime > 0 /\ f.mtime < files[f.path].mtime

is_outer_archive(f) == ~is_composite(f.path) /\ f.path[1] \in Archives

\* A sentinel (an archive with mtime 0) deletes the rows of the members.
InnerDelete(f, skip_inner_delete) ==
    IF ~skip_inner_delete /\ is_outer_archive(f) /\ f.mtime = 0
    THEN Children(f.path) ELSE {}

\* The lines the full-text entries of the old version are deleted with: read
\* from the store, by the hash of the row.
OldEntries(f) ==
    LET row == files[f.path]
    IN  IF row # NoRow /\ row.file_hash \in DOMAIN blobs
        THEN LET b == blobs[row.file_hash] IN Entries(row.id, b.path, b.words)
        ELSE {}

\* upsert_duplicate_tracking, on the rows after the upsert.
\* Mutant: only the file that is written is recorded, not the others.
TrackedSelf(rows, f, id) ==
    IF f.file_hash # NoHash /\ \E p \in Path :
            rows[p] # NoRow /\ rows[p].file_hash = f.file_hash /\ rows[p].id # id
    THEN {<<f.file_hash, id>>} ELSE {}
Tracked(rows, f, id) ==
    LET others == {rows[p].id : p \in {q \in Path :
                        /\ rows[q] # NoRow /\ rows[q].file_hash = f.file_hash
                        /\ rows[q].id # id}}
    IN  IF f.file_hash = NoHash \/ others = {} THEN {}
        ELSE {<<f.file_hash, i>> : i \in others \cup {id}}

\* Mutant: without AUTOINCREMENT the id of a deleted last row is given again.
NewIdRowid ==
    IF LiveIds = {} THEN 1
    ELSE 1 + (CHOOSE i \in LiveIds : \A j \in LiveIds : j <= i)
NewId == next_id

\* The old entries are deleted, then the new ones inserted.
\* Mutant: the other way round.
ReindexedDeleteLast(old, new) == (lines_fts \cup new) \ old
Reindexed(old, new) == (lines_fts \ old) \cup new

\* f is written for the file of the request, sent, which is what phase 2 gets;
\* it does nothing about one without a hash.
Upsert(f, sent, skip_inner_delete, force) ==
    LET row == files[f.path]
        id == IF row = NoRow THEN NewId ELSE row.id
        gone == InnerDelete(f, skip_inner_delete)
        gone_ids == {files[p].id : p \in gone \cap Live}
    IN  /\ ~Skipped(f, force)
        /\ files' = [p \in Path |->
                IF p = f.path THEN [id |-> id, mtime |-> f.mtime,
                                    file_hash |-> f.file_hash, words |-> f.words]
                ELSE IF p \in gone THEN NoRow ELSE files[p]]
        /\ next_id' = IF row = NoRow THEN next_id + 1 ELSE next_id
        /\ lines_fts' = Reindexed(OldEntries(f), Entries(id, f.path, f.words))
        /\ duplicates' = Cascade(duplicates, gone_ids) \cup Tracked(files', f, id)
        /\ to_archive' = to_archive \cup (IF sent.file_hash = NoHash THEN {} ELSE {sent})
        /\ stale' = IF row # NoRow /\ ~ row.words \subseteq
                        {e[3] : e \in {d \in OldEntries(f) : d[2] = LINE_CONTENT_START}}
                    THEN stale \cup {id} ELSE stale
        /\ touched' = [touched EXCEPT ![id] = ops']
        /\ UNCHANGED <<blobs, renamed>>

process_file_phase1(f, force) == Upsert(f, f, FALSE, force)

\* A file whose statements fail, and are rolled back to the savepoint, is
\* written by its path alone: outer_archive_stub, which keeps the rows of the
\* members although its mtime is that of a sentinel, or filename_only_file.
OnlyPath(f) ==
    [f EXCEPT !.mtime = IF is_outer_archive(f) THEN 0 ELSE @,
              !.file_hash = NoHash, !.words = {}]
process_file_phase1_fallback(f, force) ==
    Upsert(OnlyPath(f), f, is_outer_archive(f), force)

(***************************************************************************)
(* delete_files_phase1: the paths of one chunk and their members; only the *)
(* last chunk of a request removes the singletons.                         *)
(***************************************************************************)
Delete(p, run_cleanup) ==
    LET gone == {q \in {p} \cup Children(p) : files[q] # NoRow}
        dups == Cascade(duplicates, {files[q].id : q \in gone})
    IN  /\ files' = [q \in Path |-> IF q \in gone THEN NoRow ELSE files[q]]
        /\ duplicates' = IF run_cleanup THEN cleanup_singleton_duplicates(dups)
                                        ELSE dups
        /\ UNCHANGED <<next_id, lines_fts, blobs, to_archive, stale, renamed,
                       touched>>

(***************************************************************************)
(* rename_files: skipped when the old path has no row or the new one has;  *)
(* the members' rows move along.  A member already indexed below the new   *)
(* path would fail the request (UNIQUE).                                   *)
(***************************************************************************)
Target(old, new, q) == IF q = old THEN new ELSE <<new[1], q[2]>>
Moved(old) == {q \in {old} \cup Children(old) : files[q] # NoRow}

\* Mutant: the members are copied, their old rows stay.
RenamedRowsCopied(old, new) ==
    LET Source(p) == {q \in Moved(old) : Target(old, new, q) = p}
    IN  [p \in Path |->
            IF Source(p) # {} THEN files[CHOOSE q \in Source(p) : TRUE]
            ELSE IF p = old THEN NoRow ELSE files[p]]
RenamedRows(old, new) ==
    LET Source(p) == {q \in Moved(old) : Target(old, new, q) = p}
    IN  [p \in Path |->
            IF Source(p) # {} THEN files[CHOOSE q \in Source(p) : TRUE]
            ELSE IF p \in Moved(old) THEN NoRow ELSE files[p]]

Rename(old, new) ==
    LET moved == Moved(old)
        id == files[old].id
    IN  /\ files[old] # NoRow /\ files[new] = NoRow
        /\ \A q \in moved : files[Target(old, new, q)] = NoRow
        /\ files' = RenamedRows(old, new)
        /\ lines_fts' = (lines_fts \ {<<id, LINE_PATH, old>>})
                            \cup {<<id, LINE_PATH, new>>}
        /\ renamed' = renamed \cup {files[q].id : q \in moved \ {old}}
        /\ touched' = [i \in DOMAIN touched |->
                IF i \in {files[q].id : q \in moved} THEN ops' ELSE touched[i]]
        /\ UNCHANGED <<next_id, duplicates, blobs, to_archive, stale>>

(***************************************************************************)
(* archive_gz: the lines of a file go to the store if its row still has    *)
(* the hash, over whatever the store has for it.                           *)
(***************************************************************************)
ArchiveFile(f) ==
    /\ f \in to_archive
    /\ to_archive' = to_archive \ {f}
    /\ IF files[f.path] # NoRow /\ files[f.path].file_hash = f.file_hash
       THEN /\ blobs' = [h \in DOMAIN blobs \cup {f.file_hash} |->
                IF h = f.file_hash THEN [path |-> f.path, words |-> f.words] ELSE blobs[h]]
            /\ touched' = [touched EXCEPT ![f.file_hash] = ops']
       ELSE UNCHANGED <<blobs, touched>>
    /\ UNCHANGED <<files, next_id, lines_fts, duplicates, stale, renamed>>

\* What a request carries for a path: an archive is announced with mtime 0 and
\* no hash, and completed later with its mtime and the hash of its bytes; its own
\* lines are none, or the text of an iWork document.  A file that cannot be
\* extracted is indexed by its name only, with no hash.
Incoming ==
    LET File(p, m, h, ws) ==
            [path |-> p, mtime |-> m, file_hash |-> h, words |-> ws]
        Files == {p \in Path : is_composite(p) => p[1] \in Archives}
    IN  {File(<<o>>, 0, NoHash, {}) : o \in Archives}
        \cup {File(p, m, NoHash, {}) : p \in Files, m \in 1..MaxMtime}
        \cup {File(x[1], m, x[2], x[3]) :
                 m \in 1..MaxMtime, x \in {y \in Extractions : y[1] \in Files}}

Worker ==
    /\ ops < MaxOps /\ ops' = ops + 1
    /\ \/ \E f \in Incoming, force \in BOOLEAN :
            process_file_phase1(f, force) \/ process_file_phase1_fallback(f, force)
       \/ \E p \in Live, run_cleanup \in BOOLEAN : Delete(p, run_cleanup)
       \/ \E o, n \in Outer : Rename(<<o>>, <<n>>)
       \/ \E f \in to_archive : ArchiveFile(f)
    /\ UNCHANGED <<search, searches>>

-----------------------------------------------------------------------------
(***************************************************************************)
(* search: the statements of one request.  A query is a set of terms; the  *)
(* exact modes take one, as a phrase.                                      *)
(***************************************************************************)
DocumentModes == {"Document", "DocRegex"}
FileModes == {"FileFuzzy", "FileExact", "FileRegex"}
RegexModes == {"Regex", "FileRegex", "DocRegex"}

\* The rows the full-text index joins to, by line.
Hit(id, pos) == [id |-> id, path |-> PathOf(id), pos |-> pos]
HasTerm(id, pos, t) == <<id, pos, t>> \in lines_fts
Lines == {LINE_PATH, LINE_CONTENT_START}

Start(mode, query, case_sensitive) ==
    /\ search.phase \in {"idle", "done"} /\ searches < MaxSearches
    /\ searches' = searches + 1
    /\ search' = [phase |-> IF mode \in DocumentModes THEN "qualify" ELSE "candidates",
                  mode |-> mode, query |-> query,
                  case_sensitive |-> case_sensitive, began |-> ops,
                  ids |-> Id, todo |-> query, hits |-> {},
                  hashes |-> <<>>, duplicate_paths |-> <<>>]
    /\ UNCHANGED worker_vars

\* document_qualifying_ids, document_candidates: one statement per token, the
\* files with a line that has it; then the intersection.
Qualify ==
    /\ search.phase = "qualify"
    /\ \E t \in search.todo :
         LET has == {id \in LiveIds : \E pos \in Lines : HasTerm(id, pos, t)}
             todo == search.todo \ {t}
         IN  search' = [search EXCEPT
                 !.ids = @ \cap has, !.todo = todo,
                 !.phase = IF todo = {} THEN "candidates" ELSE "qualify"]
    /\ UNCHANGED <<worker_vars, searches>>

\* The lines one statement over the full-text index returns, and what the route
\* drops of them.  No content is fetched for the case-sensitive filter: exact
\* modes compare with an empty line, fuzzy ones with the path of the outer file.
Matches(mode, query, ids) ==
    {Hit(x[1], x[2]) : x \in {y \in (LiveIds \cap ids) \X Lines :
        /\ mode \in FileModes => y[2] = LINE_PATH
        /\ IF mode \in DocumentModes
           THEN \E t \in query : HasTerm(y[1], y[2], t)
           ELSE \A t \in query : HasTerm(y[1], y[2], t)}}

CaseFilter(mode, query, hits) ==
    CASE mode \in {"Exact", "FileExact"} -> {}
      [] mode = "Fuzzy" -> {x \in hits : query = {<<x.path[1]>>}}
      [] OTHER -> hits

Candidates ==
    /\ search.phase = "candidates"
    /\ LET found == Matches(search.mode, search.query, search.ids)
           hits == IF search.case_sensitive
                   THEN CaseFilter(search.mode, search.query, found) ELSE found
       IN  search' = [search EXCEPT !.hits = hits,
               !.phase = IF search.mode \in RegexModes THEN "hashes" ELSE "duplicates"]
    /\ UNCHANGED <<worker_vars, searches>>

\* read_content_batch, read_file_document: the hashes of the rows from the
\* database, then the lines from the store.
ReadHashes ==
    /\ search.phase = "hashes"
    /\ search' = [search EXCEPT !.phase = "lines",
           !.hashes = [id \in {x.id : x \in search.hits} |->
               IF id \in LiveIds THEN files[PathOf(id)].file_hash ELSE NoHash]]
    /\ UNCHANGED <<worker_vars, searches>>

StoredTerms(h, pos) ==
    IF h \notin DOMAIN blobs THEN {}
    ELSE IF pos = LINE_PATH THEN {blobs[h].path} ELSE blobs[h].words

\* A file-regex is matched against the path of the outer file, whatever was read.
RegexFilter ==
    /\ search.phase = "lines"
    /\ LET Text(x) ==
               CASE search.mode = "FileRegex" -> {<<x.path[1]>>}
                 [] search.mode = "DocRegex" ->
                        UNION {StoredTerms(search.hashes[x.id], pos) : pos \in Lines}
                 [] OTHER -> StoredTerms(search.hashes[x.id], x.pos)
       IN  search' = [search EXCEPT !.phase = "duplicates",
               !.hits = {x \in search.hits : search.query \subseteq Text(x)}]
    /\ UNCHANGED <<worker_vars, searches>>

\* fetch_duplicates_for_file_ids
DuplicatePaths(id) ==
    {PathOf(e[2]) : e \in {d \in duplicates :
        d[2] # id /\ \E c \in duplicates : c = <<d[1], id>>}}

FetchDuplicates ==
    /\ search.phase = "duplicates"
    /\ search' = [search EXCEPT !.phase = "done",
           !.duplicate_paths =
               [id \in {x.id : x \in search.hits} |-> DuplicatePaths(id)]]
    /\ UNCHANGED <<worker_vars, searches>>

Queries(mode) ==
    CASE mode \in FileModes -> {{p} : p \in Path}
      [] mode \in {"Exact", "DocExact"} -> {{t} : t \in Words}
      [] OTHER -> (SUBSET Words) \ {{}}

Search ==
    \/ \E mode \in Modes, case_sensitive \in Sensitive :
          \E query \in Queries(mode) : Start(mode, query, case_sensitive)
    \/ Qualify \/ Candidates \/ ReadHashes \/ RegexFilter \/ FetchDuplicates

Init ==
    /\ files = [p \in Path |-> NoRow]
    /\ next_id = 1
    /\ lines_fts = {} /\ duplicates = {} /\ blobs = <<>> /\ to_archive = {}
    /\ stale = {} /\ renamed = {}
    /\ touched = [i \in Id \cup Hashes |-> 0]
    /\ search = NoSearch /\ ops = 0 /\ searches = 0

Next == Worker \/ Search

Spec == Init /\ [][Next]_vars

-----------------------------------------------------------------------------
(***************************************************************************)
(* Properties                                                              *)
(***************************************************************************)

\* The full-text index of a file is what was last committed for it: every term
\* of its lines finds it, and nothing else does, unless it was re-indexed while
\* the store did not hold the lines of the version before (those entries stay).
\* Not claimed for the name of a member whose archive was renamed.  What could
\* break it: an entry deleted by the wrong lines or after the insertion, an id
\* used for two files (process_file_phase1, rename_files).
Indexed ==
    \A p \in Live :
        LET id == files[p].id
            own == {e \in lines_fts : e[1] = id}
            due == Entries(id, p, files[p].words)
            name == {e \in Id \X {LINE_PATH} \X Path : id \in renamed}
        IN  /\ due \ name \subseteq own
            /\ id \notin stale => own \ name \subseteq due

\* Two files with the same hash are listed as duplicates of each other, whatever
\* was deleted, re-indexed or swept as a singleton before
\* (upsert_duplicate_tracking, cleanup_singleton_duplicates).
DuplicatesKnown ==
    \A p, q \in Live :
        p # q /\ files[p].file_hash = files[q].file_hash /\ files[p].file_hash # NoHash
            => <<files[p].file_hash, files[p].id>> \in duplicates

\* A file that matches, and that nobody touched while the search ran, is in its
\* result, whatever was committed between the statements of the search, as long
\* as the result is not cut at its limit and case does not matter.  Regex modes
\* over content read the lines back and only see those the store holds; a
\* file-regex finds no member of an archive.
Steady(p) == touched[files[p].id] <= search.began
InStore(p) ==
    LET h == files[p].file_hash
    IN  /\ h \in DOMAIN blobs /\ touched[h] <= search.began
        /\ blobs[h] = [path |-> p, words |-> files[p].words]
ShouldMatch(p) ==
    LET id == files[p].id
        Terms(pos) == IF pos = LINE_PATH
                      THEN IF id \in renamed THEN {} ELSE {p} ELSE files[p].words
    IN  CASE search.mode \in DocumentModes ->
                search.query \subseteq UNION {Terms(pos) : pos \in Lines}
          [] search.mode \in FileModes ->
                /\ search.mode = "FileRegex" => ~is_composite(p)
                /\ search.query \subseteq Terms(LINE_PATH)
          [] OTHER -> \E pos \in Lines : search.query \subseteq Terms(pos)

Found ==
    search.phase = "done" =>
        \A p \in Live :
            /\ Steady(p) /\ ShouldMatch(p) /\ ~search.case_sensitive
            /\ search.mode \in RegexModes \ FileModes => InStore(p)
            => \E x \in search.hits : x.id = files[p].id

-----------------------------------------------------------------------------
(***************************************************************************)
(* What the documentation says and the code does not do.                   *)
(***************************************************************************)

\* "Returns a map of file_id -> list of other paths sharing the same
\* content_hash" (fetch_duplicates_for_file_ids).
TrueDuplicates ==
    \A d \in duplicates : \A p \in Live :
        files[p].id = d[2] => files[p].file_hash = d[1]

\* "Scoring only against file_path drops valid matches": a file-regex finds a
\* member by its name, as the other searches for names do.
MembersNamed ==
    search.phase = "done" /\ search.mode = "FileRegex" =>
        \A p \in Live :
            /\ Steady(p) /\ files[p].id \notin renamed
            /\ search.query = {p}
            => \E x \in search.hits : x.id = files[p].id

\* A case-sensitive search finds what has exactly the terms it asks for.
CaseSensitiveFound ==
    search.phase = "done" =>
        \A p \in Live : Steady(p) /\ ShouldMatch(p) /\ search.mode = "Exact"
            => \E x \in search.hits : x.id = files[p].id

\* "search JOIN on file_id still returns correct results": an exact search
\* returns no file that does not hold the term.
TrueHits ==
    search.phase = "done" /\ search.mode = "Exact" =>
        \A x \in search.hits : \A p \in Live :
            files[p].id = x.id /\ Steady(p) /\ x.id \notin renamed =>
                search.query \subseteq files[p].words \cup {p}

\* "Also updates FTS line_number=0 entries (filename search lines)": a renamed
\* file, and every member of it, is found by its new path.
Named ==
    \A p \in Live : <<files[p].id, LINE_PATH, p>> \in lines_fts

=============================================================================
