------------------------------- MODULE MCReports -------------------------------
(***************************************************************************)
(* SourceReports and MultiStore have no state of their own; what they      *)
(* promise is assumed of small instances and evaluated once.  Requests are *)
(* about an archive, a member of it and a file, and follow each other at   *)
(* the times 1, 2, 3.                                                      *)
(***************************************************************************)
EXTENDS Integers, FiniteSets, Sequences, SequencesExt, FiniteSetsExt, Functions

R == INSTANCE SourceReports
       WITH NoHash <- "no hash", NoScan <- 0, NoExt <- "", NoError <- "no error"
M == INSTANCE MultiStore

MCArchive == <<"z">>
MCMember == <<"z", "m">>
MCPlain == <<"f">>
MCReportPaths == {MCArchive, MCMember, MCPlain}

MCRow(path, mtime) ==
    [ext |-> IF path = MCPlain THEN "txt" ELSE "zip", size |-> Len(path), hash |-> path,
     mtime |-> mtime, archive |-> path = MCArchive]
MCIndexed(path, mtime, fails) ==
    [path |-> path, row |-> MCRow(path, mtime), force |-> FALSE, fails |-> fails]
MCNothingAsked ==
    [delete_paths |-> {}, rename_paths |-> <<>>, files |-> <<>>, indexing_failures |-> <<>>,
     scan_timestamp |-> 0]
MCFailed(path) == [path |-> path, error |-> "extracting"]

MCRequests ==
    {[MCNothingAsked EXCEPT !.delete_paths = {p}] : p \in {MCArchive, MCPlain}}
      \cup {[MCNothingAsked EXCEPT !.files = <<MCIndexed(p, t, fails)>>] :
              p \in MCReportPaths, t \in {0, 1}, fails \in BOOLEAN}
      \cup {[MCNothingAsked EXCEPT !.indexing_failures = <<MCFailed(p)>>] : p \in MCReportPaths}
      \cup {[MCNothingAsked EXCEPT !.rename_paths = <<[from |-> MCArchive, to |-> <<"y">>]>>],
            [MCNothingAsked EXCEPT !.files = <<MCIndexed(MCPlain, 2, FALSE)>>,
                                   !.indexing_failures = <<MCFailed(MCPlain)>>],
            [MCNothingAsked EXCEPT !.scan_timestamp = 7]}

MCRuns == UNION {[1..n -> MCRequests] : n \in 0..3}
MCAfter(run) ==
    FoldLeftDomain(LAMBDA db, i : R!ProcessRequest(db, run[i], i), R!EmptySource, run)

\* What request i says of a path: it clears its error, logs one, or both in that
\* order.
MCClears(r, p) ==
    \/ \E d \in r.delete_paths : p = d \/ R!Within(p, d)
    \/ \E f \in ToSet(r.files) : f.path = p /\ ~f.fails
MCLogs(r, p) ==
    \/ \E f \in ToSet(r.indexing_failures) : f.path = p
    \/ \E f \in ToSet(r.files) : f.path = p /\ f.fails

\* An error stands from the first failure since the path was last cleared to the
\* last one, and counts them, in whatever order requests came and whichever of
\* them failed on the client or on the server.
ASSUME ErrorsAreFailuresSinceCleared ==
    \A run \in MCRuns : \A p \in MCReportPaths :
        LET errors == MCAfter(run).errors
            cleared == Max({0} \cup {i \in DOMAIN run : MCClears(run[i], p)})
            since == {i \in DOMAIN run : i >= cleared /\ MCLogs(run[i], p)}
        IN IF since = {} THEN p \notin DOMAIN errors
           ELSE /\ p \in DOMAIN errors
                /\ errors[p].first = Min(since) /\ errors[p].last = Max(since)
                /\ errors[p].count = Cardinality(since)

\* Errors do not follow their file: what an archive is renamed to has none, and
\* its members' errors stay when a new sentinel takes the members.
ASSUME ErrorsStayBehind ==
    LET failed == <<[MCNothingAsked EXCEPT !.files =
                       <<MCIndexed(MCArchive, 0, FALSE), MCIndexed(MCMember, 1, TRUE)>>]>>
        renamed == MCAfter(Append(failed,
                     [MCNothingAsked EXCEPT !.rename_paths = <<[from |-> MCArchive, to |-> <<"y">>]>>]))
        emptied == MCAfter(Append(failed,
                     [MCNothingAsked EXCEPT !.files = <<MCIndexed(MCArchive, 0, FALSE)>>]))
    IN \A db \in {renamed, emptied} :
         MCMember \in DOMAIN db.errors /\ MCMember \notin DOMAIN db.files

\* A request that is done again leaves the same rows and the same errors; only
\* how often they were seen, and the history, tell.
ASSUME ReplayTellsTheSame ==
    \A run \in MCRuns :
        LET once == MCAfter(run)
            twice == IF run = <<>> THEN once ELSE R!ProcessRequest(once, Last(run), 9)
        IN /\ twice.files = once.files
           /\ twice.last_scan = once.last_scan
           /\ [p \in DOMAIN twice.errors |-> twice.errors[p].error]
                = [p \in DOMAIN once.errors |-> once.errors[p].error]

\* No member is without its archive unless it came without it, and none of them is
\* shown without the error its archive has.
ASSUME ArchiveErrorShownOnMembers ==
    \A run \in MCRuns :
        LET db == MCAfter(run)
        IN /\ run # <<>> /\ Last(run).delete_paths = {MCArchive} => MCMember \notin DOMAIN db.files
           /\ MCArchive \in DOMAIN db.errors => R!ShownError(db.errors, MCMember) # "no error"

\* Page by page, each error is given once, whatever the size of a page.
ASSUME PagesGiveEveryErrorOnce ==
    \A run \in MCRuns : \A size \in 1..3 :
        LET errors == MCAfter(run).errors
        IN \A order \in R!ErrorOrders(errors) :
             FlattenSeq([k \in 1..3 |-> R!ErrorPage(order, size, (k - 1) * size, 1000)]) = order

-----------------------------------------------------------------------------
\* A history that has grown past the limit is shown as it was then: the scans of
\* today are not among those shown.
ASSUME HistoryShowsTheOldest ==
    \A n \in 0..6 :
        LET history == [i \in 1..n |-> [scanned_at |-> i, totals |-> i]]
            shown == R!GetScanHistory(history, 3)
        IN (n > 0 /\ Last(history) \in ToSet(shown)) <=> n \in 1..3

\* Extensions are counted over the files on disk, and none that is left out is
\* commoner than one that is shown.
ASSUME CommonestExtensionsShown ==
    \A ext \in [{<<"a">>, <<"b">>, <<"c">>, <<"c", "m">>} -> {"", "x", "y"}] : \A limit \in 1..2 :
        LET files == [p \in DOMAIN ext |-> [MCRow(p, 1) EXCEPT !.ext = ext[p]]]
        IN \A shown \in R!StatsByExt(files, limit) :
             /\ Len(shown) <= limit
             /\ \A e \in {"x", "y"} \ {s.ext : s \in ToSet(shown)} : \A i \in DOMAIN shown :
                  Cardinality(R!OfExt(files, e)) <= shown[i].count
             /\ FoldLeft(LAMBDA n, s : n + s.count, 0, shown)
                  <= Cardinality({p \in DOMAIN ext : Len(p) = 1 /\ ext[p] # ""})

\* Files of one content wait for it once; a store that cannot answer hides the
\* backlog and never makes one up.
ASSUME PendingIsABacklog ==
    \A hash \in [MCReportPaths -> {"no hash", "h1", "h2"}],
       stored, unreadable \in SUBSET {"h1", "h2"} :
        LET files == [p \in MCReportPaths |-> [MCRow(p, 1) EXCEPT !.hash = hash[p]]]
            pending == R!FilesPendingContent(files, stored, unreadable)
        IN /\ pending <= Cardinality(Range(hash) \ stored)
           /\ unreadable = {} => pending = Cardinality((Range(hash) \ stored) \ {"no hash"})
           /\ stored \cup unreadable = {"h1", "h2"} => pending = 0

-----------------------------------------------------------------------------
MCStores == UNION {[1..n -> SUBSET {"k1", "k2"}] : n \in 0..3}

\* What a put reported as done is read back unless the first store fails; a put
\* that failed changed nothing from the first store that failed on.
ASSUME PutIsRead ==
    \A stores \in MCStores, bad, later \in SUBSET (1..3) :
        LET put == M!MultiPut(stores, "k1", bad)
        IN /\ put.ok /\ stores # <<>> =>
                M!MultiRead(put.stores, "k1", later) = IF 1 \in later THEN "error" ELSE "found"
           /\ \A i \in DOMAIN stores : (\E j \in bad : j <= i) => put.stores[i] = stores[i]

\* A delete that is done leaves the blob nowhere; one that failed half way leaves
\* it where reads find it, and a second delete removes it.
ASSUME DeleteIsFinal ==
    \A stores \in MCStores, bad \in SUBSET (1..3) :
        LET once == M!MultiDelete(stores, "k1", bad)
            twice == M!MultiDelete(once.stores, "k1", {})
        IN /\ once.ok => M!MultiRead(once.stores, "k1", {}) = "none"
           /\ M!MultiRead(twice.stores, "k1", {}) = "none"

\* Compaction takes nothing live from any store, dry or not, whole or torn.
ASSUME CompactKeepsLive ==
    \A stores \in MCStores, live \in SUBSET {"k1", "k2"}, bad \in SUBSET (1..3), dry \in BOOLEAN :
        LET after == M!MultiCompact(stores, live, bad, dry)
        IN \A i \in DOMAIN stores :
             /\ stores[i] \cap live \subseteq after.stores[i]
             /\ (after.ok /\ ~dry) => after.stores[i] \subseteq live
             /\ dry => after.stores[i] = stores[i]

=============================================================================
