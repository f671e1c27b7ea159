-------------------------- MODULE ContentCompaction --------------------------
(***************************************************************************)
(* Compaction of the content store beside the write path.  A compaction    *)
(* reads the file hashes of one source database after the other, with no   *)
(* lock over them, and then, under the store's write mutex, deletes every   *)
(* blob whose key it has not seen.  The daily scheduler and the admin       *)
(* route may run one at the same time, phase 1 keeps committing rows and   *)
(* phase 2 keeps storing blobs.                                            *)
(*                                                                         *)
(* InboxPipeline has the write path in detail; here a step of it is one    *)
(* COMMIT, and a payload of to-archive/ is one file of it.                  *)
(***************************************************************************)
EXTENDS Naturals

CONSTANTS
    SourceDbs, Paths, Hashes, NoHash,
    Compactors,   \* the scheduler and the admin calls that are running
    MaxChanges,   \* bound: COMMITs that change rows
    MaxSkips      \* bound: source databases that cannot be read

ASSUME CompactionAssumption ==
    MaxChanges \in Nat /\ MaxSkips \in Nat /\ NoHash \notin Hashes

VARIABLES
    rows,      \* committed files rows: source -> path -> file_hash
    payloads,  \* files in to-archive/
    archPut,   \* the file phase 2 is storing, between delete and put
    blobs,     \* keys in blobs.db
    cpc, dry, unread, live_keys, \* compactions: step, dry_run, databases to read, keys seen
    skipped, steady, touched,    \* history of a compaction: the databases it could not
                                 \* read, the hashes a source carried all along, those
                                 \* carried or stored at any time
    changesLeft, skipsLeft

compactVars == <<cpc, dry, unread, live_keys, skipped>>
storeVars == <<rows, payloads, archPut, blobs, compactVars, steady, touched, changesLeft,
          skipsLeft>>

Payload == [source : SourceDbs, path : Paths, hash : Hashes]

\* Mutant of Keys: the condition file_hash IS NOT NULL is dropped.
KeysAndNull(files) == {files[p] : p \in Paths}

Keys(files) == {files[p] : p \in Paths} \ {NoHash}

LiveHashes == UNION {Keys(rows[s]) : s \in SourceDbs}

CompactionInit ==
    /\ rows = [s \in SourceDbs |-> [p \in Paths |-> NoHash]]
    /\ payloads = {} /\ archPut = {} /\ blobs = {}
    /\ cpc = [c \in Compactors |-> "idle"] /\ dry = [c \in Compactors |-> FALSE]
    /\ unread = [c \in Compactors |-> {}] /\ live_keys = [c \in Compactors |-> {}]
    /\ skipped = [c \in Compactors |-> {}]
    /\ steady = [c \in Compactors |-> [s \in SourceDbs |-> {}]]
    /\ touched = [c \in Compactors |-> {}]
    /\ changesLeft = MaxChanges /\ skipsLeft = MaxSkips

-----------------------------------------------------------------------------
(* The write path.                                                          *)

\* The files of source s become files; the history follows.
SetRows(s, files) ==
    /\ changesLeft > 0
    /\ changesLeft' = changesLeft - 1
    /\ rows' = [rows EXCEPT ![s] = files]
    /\ steady' = [c \in Compactors |-> [steady[c] EXCEPT ![s] = @ \cap Keys(files)]]
    /\ touched' = [c \in Compactors |->
                    IF cpc[c] = "idle" THEN {} ELSE touched[c] \cup Keys(files)]
    /\ UNCHANGED <<archPut, blobs, compactVars, skipsLeft>>

Upsert(s, p, h) ==
    /\ SetRows(s, [rows[s] EXCEPT ![p] = h])
    /\ payloads' = payloads \cup {[source |-> s, path |-> p, hash |-> h]}

Delete(s, p) ==
    /\ rows[s][p] # NoHash
    /\ SetRows(s, [rows[s] EXCEPT ![p] = NoHash])
    /\ UNCHANGED payloads

Rename(s, p, q) ==
    /\ rows[s][p] # NoHash /\ rows[s][q] = NoHash
    /\ SetRows(s, [rows[s] EXCEPT ![p] = NoHash, ![q] = rows[s][p]])
    /\ UNCHANGED payloads

\* delete_source removes the database and leaves the blobs to compaction.
DeleteSource(s) ==
    /\ Keys(rows[s]) # {}
    /\ SetRows(s, [p \in Paths |-> NoHash])
    /\ UNCHANGED payloads

\* Phase 2 compares the payload with the row and deletes the blob it will put.
ArchiveFile ==
    /\ archPut = {}
    /\ \E f \in payloads :
        /\ payloads' = payloads \ {f}
        /\ IF rows[f.source][f.path] = f.hash
           THEN blobs' = blobs \ {f.hash} /\ archPut' = {f.hash}
           ELSE UNCHANGED <<blobs, archPut>>
    /\ UNCHANGED <<rows, compactVars, steady, touched, changesLeft, skipsLeft>>

ArchivePut ==
    /\ archPut # {}
    /\ blobs' = blobs \cup archPut
    /\ archPut' = {}
    /\ touched' = [c \in Compactors |->
                    IF cpc[c] = "idle" THEN {} ELSE touched[c] \cup archPut]
    /\ UNCHANGED <<rows, payloads, compactVars, steady, changesLeft, skipsLeft>>

-----------------------------------------------------------------------------
(* A compaction.                                                            *)

\* The scheduler scans first (a dry run) and compacts when enough is orphaned;
\* an admin does either.
CompactStart(c) ==
    /\ cpc[c] = "idle"
    /\ cpc' = [cpc EXCEPT ![c] = "collect"]
    /\ \E d \in BOOLEAN : dry' = [dry EXCEPT ![c] = d]
    /\ unread' = [unread EXCEPT ![c] = SourceDbs]
    /\ steady' = [steady EXCEPT ![c] = [s \in SourceDbs |-> Keys(rows[s])]]
    /\ touched' = [touched EXCEPT ![c] = LiveHashes]
    /\ UNCHANGED <<live_keys, skipped, rows, payloads, archPut, blobs, changesLeft,
                   skipsLeft>>

\* Mutant of CollectSource: the keys of a source replace those before it.
CollectOnly(c, s) ==
    /\ cpc[c] = "collect" /\ s \in unread[c]
    /\ unread' = [unread EXCEPT ![c] = @ \ {s}]
    /\ live_keys' = [live_keys EXCEPT ![c] = Keys(rows[s])]
    /\ UNCHANGED <<cpc, dry, skipped, skipsLeft, rows, payloads, archPut, blobs, steady,
                   touched, changesLeft>>

\* One SELECT over one database; a database that does not open is skipped.
CollectSource(c, s) ==
    /\ cpc[c] = "collect" /\ s \in unread[c]
    /\ unread' = [unread EXCEPT ![c] = @ \ {s}]
    /\ \/ /\ live_keys' = [live_keys EXCEPT ![c] = @ \cup Keys(rows[s])]
          /\ UNCHANGED <<skipped, skipsLeft>>
       \/ /\ skipsLeft > 0
          /\ skipsLeft' = skipsLeft - 1
          /\ skipped' = [skipped EXCEPT ![c] = @ \cup {s}]
          /\ UNCHANGED live_keys
    /\ UNCHANGED <<cpc, dry, rows, payloads, archPut, blobs, steady, touched, changesLeft>>

Finished(c) ==
    /\ cpc[c] = "collect" /\ unread[c] = {}
    /\ cpc' = [cpc EXCEPT ![c] = "idle"]
    /\ dry' = [dry EXCEPT ![c] = FALSE]
    /\ live_keys' = [live_keys EXCEPT ![c] = {}]
    /\ skipped' = [skipped EXCEPT ![c] = {}]
    /\ steady' = [steady EXCEPT ![c] = [s \in SourceDbs |-> {}]]
    /\ touched' = [touched EXCEPT ![c] = {}]
    /\ UNCHANGED <<unread, rows, payloads, archPut, changesLeft, skipsLeft>>

\* Mutant of Compact: no live key is taken for a sign that something is wrong.
CompactUnlessEmpty(c) ==
    /\ Finished(c)
    /\ blobs' = IF dry[c] \/ live_keys[c] = {} THEN blobs ELSE blobs \cap live_keys[c]

\* SqliteContentStore::compact: one DELETE under the write mutex, or a dry run.
Compact(c) ==
    /\ Finished(c)
    /\ blobs' = IF dry[c] THEN blobs ELSE blobs \cap live_keys[c]

-----------------------------------------------------------------------------

CompactionNext ==
    \/ \E s \in SourceDbs, p \in Paths :
        \/ \E h \in Hashes : Upsert(s, p, h)
        \/ Delete(s, p)
        \/ \E q \in Paths : Rename(s, p, q)
    \/ \E s \in SourceDbs : DeleteSource(s)
    \/ ArchiveFile \/ ArchivePut
    \/ \E c \in Compactors :
        \/ CompactStart(c)
        \/ \E s \in SourceDbs : CollectSource(c, s)
        \/ Compact(c)

CompactionSpec == CompactionInit /\ [][CompactionNext]_storeVars

-----------------------------------------------------------------------------
(* Properties.                                                              *)

\* Every variable keeps its type; a NULL file_hash is never among the live keys.
StoreTypeOK ==
    /\ rows \in [SourceDbs -> [Paths -> Hashes \cup {NoHash}]]
    /\ payloads \subseteq Payload /\ archPut \subseteq Hashes /\ blobs \subseteq Hashes
    /\ cpc \in [Compactors -> {"idle", "collect"}] /\ dry \in [Compactors -> BOOLEAN]
    /\ unread \in [Compactors -> SUBSET SourceDbs]
    /\ live_keys \in [Compactors -> SUBSET Hashes]
    /\ skipped \in [Compactors -> SUBSET SourceDbs]
    /\ steady \in [Compactors -> [SourceDbs -> SUBSET Hashes]]
    /\ touched \in [Compactors -> SUBSET Hashes]
    /\ changesLeft \in Nat /\ skipsLeft \in Nat

\* A compaction keeps the blob of a hash that some source carried from the start
\* of the compaction to its end, if that source could be read: whatever is
\* renamed, deleted and indexed elsewhere meanwhile, in whatever order the
\* databases are read.
SteadyContentKept ==
    [][\A c \in Compactors, s \in SourceDbs :
        Compact(c) /\ s \notin skipped[c] => steady[c][s] \cap blobs \subseteq blobs']_storeVars

\* What a compaction leaves is not garbage of before it: each blob that is left
\* was carried by a source, or stored, since the compaction began.
OrphansReclaimed ==
    [][\A c \in Compactors :
        Compact(c) /\ ~dry[c] => blobs' \subseteq touched[c]]_storeVars

\* A compaction never takes a blob away from a committed row that nothing will
\* store again ("the live keys that the content store must keep", compaction.rs 89).
LiveContentKept ==
    [][\A c \in Compactors, h \in LiveHashes :
        /\ Compact(c)
        /\ h \in blobs
        /\ \A f \in payloads : f.hash # h
        => h \in blobs']_storeVars

=============================================================================
