------------------------- MODULE ServerTasks_proofs -------------------------
(***************************************************************************)
(* Proofs about what the server does beside one another: the compactions   *)
(* of the content store (ContentCompaction), for any sources, paths,       *)
(* hashes and any number of compactions at once, and the threads of the    *)
(* indexing worker (GroupTimeouts), for any number of requests, sources,   *)
(* threads, hangs, timeouts and calls of the administrator.                *)
(***************************************************************************)
EXTENDS ContentCompaction, GroupTimeouts, TLAPS

-----------------------------------------------------------------------------
(* Compaction.  The invariant says what a compaction has in hand while it  *)
(* collects: of every source it has read, the hashes that source has       *)
(* carried since the start are among its live keys, and every live key was *)
(* carried by some source since the start.                                 *)

Collected ==
    \A c \in Compactors, s \in SourceDbs :
        /\ steady[c][s] \subseteq Keys(rows[s])
        /\ s \notin unread[c] /\ s \notin skipped[c] /\ cpc[c] = "collect"
              => steady[c][s] \subseteq live_keys[c]

Witnessed ==
    \A c \in Compactors :
        /\ cpc[c] = "collect" => LiveHashes \subseteq touched[c]
        /\ cpc[c] = "idle" => live_keys[c] = {}
        /\ live_keys[c] \subseteq touched[c]

CompactionIInv == StoreTypeOK /\ Collected /\ Witnessed

\* The keys of a source are hashes.
LEMMA KeysType ==
    ASSUME NEW files \in [Paths -> Hashes \cup {NoHash}]
    PROVE  Keys(files) \subseteq Hashes
  BY DEF Keys

\* Nothing is indexed, stored or being compacted.
LEMMA CompactionInitIInv == CompactionInit => CompactionIInv
<1> SUFFICES ASSUME CompactionInit PROVE CompactionIInv
  OBVIOUS
<1>1. StoreTypeOK
  BY CompactionAssumption DEF CompactionInit, StoreTypeOK, Payload
<1>2. Collected
  BY DEF CompactionInit, Collected
<1>3. Witnessed
  BY DEF CompactionInit, Witnessed
<1> QED
  BY <1>1, <1>2, <1>3 DEF CompactionIInv

\* What every action that changes the rows of a source preserves.
LEMMA SetRowsKeeps ==
    ASSUME CompactionIInv, NEW s \in SourceDbs, NEW files \in [Paths -> Hashes \cup {NoHash}],
           SetRows(s, files), payloads' \subseteq Payload
    PROVE  CompactionIInv'
<1>1. Keys(files) \subseteq Hashes
  BY KeysType
<1>2. rows' \in [SourceDbs -> [Paths -> Hashes \cup {NoHash}]]
  BY DEF CompactionIInv, StoreTypeOK, SetRows
<1>3. steady' \in [Compactors -> [SourceDbs -> SUBSET Hashes]]
  BY DEF CompactionIInv, StoreTypeOK, SetRows
<1>4. touched' \in [Compactors -> SUBSET Hashes]
  BY <1>1 DEF CompactionIInv, StoreTypeOK, SetRows
<1>5. StoreTypeOK'
  <2>1. changesLeft' \in Nat
    BY DEF CompactionIInv, StoreTypeOK, SetRows
  <2> QED
    BY <1>2, <1>3, <1>4, <2>1 DEF CompactionIInv, StoreTypeOK, SetRows, compactVars, Payload
<1>6. Collected'
  <2> SUFFICES ASSUME NEW c \in Compactors, NEW x \in SourceDbs
               PROVE  /\ steady'[c][x] \subseteq Keys(rows'[x])
                      /\ steady'[c][x] \subseteq steady[c][x]
    BY DEF CompactionIInv, Collected, SetRows, compactVars
  <2>1. CASE x = s
    <3>1. steady'[c][x] = steady[c][x] \cap Keys(files)
      BY <2>1 DEF CompactionIInv, StoreTypeOK, SetRows
    <3>2. rows'[x] = files
      BY <2>1 DEF CompactionIInv, StoreTypeOK, SetRows
    <3> QED
      BY <3>1, <3>2
  <2>2. CASE x # s
    <3>1. steady'[c][x] = steady[c][x] /\ rows'[x] = rows[x]
      BY <2>2 DEF CompactionIInv, StoreTypeOK, SetRows
    <3> QED
      BY <3>1 DEF CompactionIInv, Collected
  <2> QED
    BY <2>1, <2>2
<1>7. Witnessed'
  <2> SUFFICES ASSUME NEW c \in Compactors
               PROVE  /\ cpc'[c] = "collect" => LiveHashes' \subseteq touched'[c]
                      /\ live_keys'[c] \subseteq touched'[c]
    BY DEF CompactionIInv, Witnessed, SetRows, compactVars
  <2>1. CASE cpc[c] = "collect"
    <3>1. touched'[c] = touched[c] \cup Keys(files)
      BY <2>1 DEF SetRows
    <3>2. ASSUME NEW h \in LiveHashes' PROVE h \in touched'[c]
      <4>1. PICK x \in SourceDbs : h \in Keys(rows'[x])
        BY <3>2 DEF LiveHashes
      <4>2. h \in Keys(files) \/ h \in Keys(rows[x])
        BY <4>1 DEF CompactionIInv, StoreTypeOK, SetRows
      <4>3. h \in Keys(files) \/ h \in LiveHashes
        BY <4>2 DEF LiveHashes
      <4> QED
        BY <4>3, <3>1, <2>1 DEF CompactionIInv, Witnessed
    <3> QED
      BY <3>1, <3>2 DEF CompactionIInv, Witnessed, SetRows, compactVars
  <2>2. CASE cpc[c] # "collect"
    <3>1. live_keys[c] = {}
      BY <2>2 DEF CompactionIInv, StoreTypeOK, Witnessed
    <3> QED
      BY <2>2, <3>1 DEF SetRows, compactVars
  <2> QED
    BY <2>1, <2>2
<1> QED
  BY <1>5, <1>6, <1>7 DEF CompactionIInv

\* A COMMIT of phase 1, or the deletion of a source.
LEMMA WriterStep ==
    ASSUME CompactionIInv, NEW s \in SourceDbs, NEW p \in Paths,
           \/ \E h \in Hashes : Upsert(s, p, h)
           \/ Delete(s, p)
           \/ \E q \in Paths : Rename(s, p, q)
           \/ DeleteSource(s)
    PROVE  CompactionIInv'
<1> USE DEF CompactionIInv, StoreTypeOK
<1>1. CASE \E h \in Hashes : Upsert(s, p, h)
  <2> PICK h \in Hashes : Upsert(s, p, h)
    BY <1>1
  <2> DEFINE files == [rows[s] EXCEPT ![p] = h]
  <2>1. files \in [Paths -> Hashes \cup {NoHash}]
    OBVIOUS
  <2>2. SetRows(s, files) /\ payloads' \subseteq Payload
    BY DEF Upsert, Payload
  <2> QED
    BY <2>1, <2>2, SetRowsKeeps
<1>2. CASE Delete(s, p)
  <2> DEFINE files == [rows[s] EXCEPT ![p] = NoHash]
  <2>1. files \in [Paths -> Hashes \cup {NoHash}]
    OBVIOUS
  <2>2. SetRows(s, files) /\ payloads' \subseteq Payload
    BY <1>2 DEF Delete
  <2> QED
    BY <2>1, <2>2, SetRowsKeeps
<1>3. CASE \E q \in Paths : Rename(s, p, q)
  <2> PICK q \in Paths : Rename(s, p, q)
    BY <1>3
  <2> DEFINE files == [rows[s] EXCEPT ![p] = NoHash, ![q] = rows[s][p]]
  <2>1. files \in [Paths -> Hashes \cup {NoHash}]
    OBVIOUS
  <2>2. SetRows(s, files) /\ payloads' \subseteq Payload
    BY DEF Rename
  <2> QED
    BY <2>1, <2>2, SetRowsKeeps
<1>4. CASE DeleteSource(s)
  <2> DEFINE files == [x \in Paths |-> NoHash]
  <2>1. files \in [Paths -> Hashes \cup {NoHash}]
    OBVIOUS
  <2>2. SetRows(s, files) /\ payloads' \subseteq Payload
    BY <1>4 DEF DeleteSource
  <2> QED
    BY <2>1, <2>2, SetRowsKeeps
<1> QED
  BY <1>1, <1>2, <1>3, <1>4

\* The live hashes are hashes.
LEMMA LiveHashesType == StoreTypeOK => LiveHashes \subseteq Hashes
  BY KeysType DEF StoreTypeOK, LiveHashes

\* Phase 2 changes blobs, which the invariant does not restrict.
LEMMA ArchiveStep ==
    ASSUME CompactionIInv, ArchiveFile \/ ArchivePut
    PROVE  CompactionIInv'
<1>1. StoreTypeOK'
  <2>1. CASE ArchiveFile
    BY <2>1 DEF ArchiveFile, CompactionIInv, StoreTypeOK, compactVars, Payload
  <2>2. CASE ArchivePut
    BY <2>2 DEF ArchivePut, CompactionIInv, StoreTypeOK, compactVars
  <2> QED
    BY <2>1, <2>2
<1>2. /\ UNCHANGED <<rows, steady, unread, skipped, cpc, live_keys>>
      /\ \A c \in Compactors : cpc[c] = "collect" => touched[c] \subseteq touched'[c]
  BY DEF ArchiveFile, ArchivePut, compactVars
<1>3. Collected'
  BY <1>2 DEF CompactionIInv, Collected, Keys
<1>4. Witnessed'
  <2> SUFFICES ASSUME NEW c \in Compactors
               PROVE  /\ cpc'[c] = "collect" => LiveHashes' \subseteq touched'[c]
                      /\ cpc'[c] = "idle" => live_keys'[c] = {}
                      /\ live_keys'[c] \subseteq touched'[c]
    BY DEF Witnessed
  <2>1. LiveHashes' = LiveHashes
    BY <1>2 DEF LiveHashes, Keys
  <2>2. cpc[c] \in {"idle", "collect"}
    BY DEF CompactionIInv, StoreTypeOK
  <2> QED
    BY <1>2, <2>1, <2>2 DEF CompactionIInv, Witnessed
<1> QED
  BY <1>1, <1>3, <1>4 DEF CompactionIInv

\* A compaction begins with no keys and all sources still to read.
LEMMA StartStep ==
    ASSUME CompactionIInv, NEW c \in Compactors, CompactStart(c)
    PROVE  CompactionIInv'
<1>1. LiveHashes \subseteq Hashes /\ \A s \in SourceDbs : Keys(rows[s]) \subseteq Hashes
  BY LiveHashesType, KeysType DEF CompactionIInv, StoreTypeOK
<1>2. StoreTypeOK'
  BY <1>1 DEF CompactStart, CompactionIInv, StoreTypeOK
<1>3. UNCHANGED rows /\ LiveHashes' = LiveHashes
  BY DEF CompactStart, LiveHashes, Keys
<1>4. Collected'
  <2> SUFFICES ASSUME NEW x \in Compactors, NEW s \in SourceDbs
               PROVE  /\ steady'[x][s] \subseteq Keys(rows'[s])
                      /\ s \notin unread'[x] /\ s \notin skipped'[x] /\ cpc'[x] = "collect"
                            => steady'[x][s] \subseteq live_keys'[x]
    BY DEF Collected
  <2>1. CASE x = c
    <3>1. steady'[x][s] = Keys(rows[s]) /\ unread'[x] = SourceDbs
      BY <2>1 DEF CompactStart, CompactionIInv, StoreTypeOK
    <3> QED
      BY <3>1, <1>3
  <2>2. CASE x # c
    <3>1. /\ steady'[x] = steady[x] /\ unread'[x] = unread[x] /\ cpc'[x] = cpc[x]
          /\ skipped' = skipped /\ live_keys' = live_keys
      BY <2>2 DEF CompactStart, CompactionIInv, StoreTypeOK
    <3> QED
      BY <3>1, <1>3 DEF CompactionIInv, Collected
  <2> QED
    BY <2>1, <2>2
<1>5. Witnessed'
  <2> SUFFICES ASSUME NEW x \in Compactors
               PROVE  /\ cpc'[x] = "collect" => LiveHashes' \subseteq touched'[x]
                      /\ cpc'[x] = "idle" => live_keys'[x] = {}
                      /\ live_keys'[x] \subseteq touched'[x]
    BY DEF Witnessed
  <2>1. CASE x = c
    <3>1. /\ cpc[x] = "idle" /\ touched'[x] = LiveHashes /\ cpc'[x] = "collect"
          /\ live_keys'[x] = live_keys[x]
      BY <2>1 DEF CompactStart, CompactionIInv, StoreTypeOK
    <3>2. live_keys[x] = {}
      BY <3>1 DEF CompactionIInv, Witnessed
    <3> QED
      BY <3>1, <3>2, <1>3
  <2>2. CASE x # c
    <3>1. /\ touched'[x] = touched[x] /\ cpc'[x] = cpc[x] /\ live_keys' = live_keys
      BY <2>2 DEF CompactStart, CompactionIInv, StoreTypeOK
    <3> QED
      BY <3>1, <1>3 DEF CompactionIInv, Witnessed
  <2> QED
    BY <2>1, <2>2
<1> QED
  BY <1>2, <1>4, <1>5 DEF CompactionIInv

\* A source read adds its keys; a source skipped is remembered.
LEMMA CollectStep ==
    ASSUME CompactionIInv, NEW c \in Compactors, NEW s \in SourceDbs, CollectSource(c, s)
    PROVE  CompactionIInv'
<1>1. Keys(rows[s]) \subseteq Hashes
  BY KeysType DEF CompactionIInv, StoreTypeOK
<1>2. StoreTypeOK'
  <2>1. UNCHANGED <<cpc, dry, rows, payloads, archPut, blobs, steady, touched, changesLeft>>
    BY DEF CollectSource
  <2>2. live_keys' \in [Compactors -> SUBSET Hashes]
    <3>1. live_keys \in [Compactors -> SUBSET Hashes]
      BY DEF CompactionIInv, StoreTypeOK
    <3>2. \/ live_keys' = [live_keys EXCEPT ![c] = @ \cup Keys(rows[s])]
          \/ live_keys' = live_keys
      BY DEF CollectSource
    <3> QED
      BY <1>1, <3>1, <3>2
  <2>3. unread' \in [Compactors -> SUBSET SourceDbs]
    BY DEF CollectSource, CompactionIInv, StoreTypeOK
  <2>5. skipped' \in [Compactors -> SUBSET SourceDbs]
    <3>1. \/ skipped' = skipped
          \/ skipped' = [skipped EXCEPT ![c] = @ \cup {s}]
      BY DEF CollectSource
    <3> QED
      BY <3>1 DEF CompactionIInv, StoreTypeOK
  <2>4. skipsLeft' \in Nat
    BY DEF CollectSource, CompactionIInv, StoreTypeOK
  <2> QED
    BY <2>1, <2>2, <2>3, <2>4, <2>5 DEF CompactionIInv, StoreTypeOK
<1>3. /\ UNCHANGED <<rows, steady, touched, cpc>> /\ LiveHashes' = LiveHashes
      /\ cpc[c] = "collect"
  BY DEF CollectSource, LiveHashes, Keys
<1>4. ASSUME NEW x \in Compactors, x # c
      PROVE  unread'[x] = unread[x] /\ skipped'[x] = skipped[x] /\ live_keys'[x] = live_keys[x]
  BY <1>4 DEF CollectSource, CompactionIInv, StoreTypeOK
<1>5. unread'[c] = unread[c] \ {s}
  BY DEF CollectSource, CompactionIInv, StoreTypeOK
<1>6. \/ live_keys'[c] = live_keys[c] \cup Keys(rows[s]) /\ skipped'[c] = skipped[c]
      \/ live_keys'[c] = live_keys[c] /\ skipped'[c] = skipped[c] \cup {s}
  BY DEF CollectSource, CompactionIInv, StoreTypeOK
<1>7. Collected'
  <2> SUFFICES ASSUME NEW x \in Compactors, NEW y \in SourceDbs
               PROVE  /\ steady'[x][y] \subseteq Keys(rows'[y])
                      /\ y \notin unread'[x] /\ y \notin skipped'[x] /\ cpc'[x] = "collect"
                            => steady'[x][y] \subseteq live_keys'[x]
    BY DEF Collected
  <2>1. CASE x # c
    BY <2>1, <1>3, <1>4 DEF CompactionIInv, Collected
  <2>2. CASE x = c /\ y = s
    BY <2>2, <1>3, <1>6 DEF CompactionIInv, Collected
  <2>3. CASE x = c /\ y # s
    BY <2>3, <1>3, <1>5, <1>6 DEF CompactionIInv, Collected
  <2> QED
    BY <2>1, <2>2, <2>3
<1>8. Witnessed'
  <2> SUFFICES ASSUME NEW x \in Compactors
               PROVE  /\ cpc'[x] = "collect" => LiveHashes' \subseteq touched'[x]
                      /\ cpc'[x] = "idle" => live_keys'[x] = {}
                      /\ live_keys'[x] \subseteq touched'[x]
    BY DEF Witnessed
  <2>1. CASE x # c
    BY <2>1, <1>3, <1>4 DEF CompactionIInv, Witnessed
  <2>2. CASE x = c
    <3>1. Keys(rows[s]) \subseteq LiveHashes
      BY DEF LiveHashes
    <3> QED
      BY <2>2, <3>1, <1>3, <1>6 DEF CompactionIInv, Witnessed
  <2> QED
    BY <2>1, <2>2
<1> QED
  BY <1>2, <1>7, <1>8 DEF CompactionIInv

\* A compaction that ends forgets what it collected.
LEMMA CompactStep ==
    ASSUME CompactionIInv, NEW c \in Compactors, Compact(c)
    PROVE  CompactionIInv'
<1>1. StoreTypeOK'
  <2>1. UNCHANGED <<unread, rows, payloads, archPut, changesLeft, skipsLeft>>
    BY DEF Compact, Finished
  <2>2. cpc' \in [Compactors -> {"idle", "collect"}] /\ dry' \in [Compactors -> BOOLEAN]
    BY DEF Compact, Finished, CompactionIInv, StoreTypeOK
  <2>3. /\ live_keys' \in [Compactors -> SUBSET Hashes]
        /\ skipped' \in [Compactors -> SUBSET SourceDbs]
        /\ touched' \in [Compactors -> SUBSET Hashes]
    BY DEF Compact, Finished, CompactionIInv, StoreTypeOK
  <2>4. steady' \in [Compactors -> [SourceDbs -> SUBSET Hashes]]
    BY DEF Compact, Finished, CompactionIInv, StoreTypeOK
  <2>5. blobs' \subseteq Hashes
    BY DEF Compact, CompactionIInv, StoreTypeOK
  <2> QED
    BY <2>1, <2>2, <2>3, <2>4, <2>5 DEF CompactionIInv, StoreTypeOK
<1>2. UNCHANGED <<rows, unread>> /\ LiveHashes' = LiveHashes
  BY DEF Compact, Finished, LiveHashes, Keys
<1>3. /\ cpc'[c] = "idle" /\ live_keys'[c] = {} /\ touched'[c] = {}
      /\ \A s \in SourceDbs : steady'[c][s] = {}
  BY DEF Compact, Finished, CompactionIInv, StoreTypeOK
<1>4. ASSUME NEW x \in Compactors, x # c
      PROVE  /\ cpc'[x] = cpc[x] /\ live_keys'[x] = live_keys[x] /\ touched'[x] = touched[x]
             /\ steady'[x] = steady[x] /\ skipped'[x] = skipped[x]
  BY <1>4 DEF Compact, Finished, CompactionIInv, StoreTypeOK
<1>5. Collected'
  <2> SUFFICES ASSUME NEW x \in Compactors, NEW s \in SourceDbs
               PROVE  /\ steady'[x][s] \subseteq Keys(rows'[s])
                      /\ s \notin unread'[x] /\ s \notin skipped'[x] /\ cpc'[x] = "collect"
                            => steady'[x][s] \subseteq live_keys'[x]
    BY DEF Collected
  <2>1. CASE x = c
    BY <2>1, <1>3
  <2>2. CASE x # c
    BY <2>2, <1>2, <1>4 DEF CompactionIInv, Collected
  <2> QED
    BY <2>1, <2>2
<1>6. Witnessed'
  <2> SUFFICES ASSUME NEW x \in Compactors
               PROVE  /\ cpc'[x] = "collect" => LiveHashes' \subseteq touched'[x]
                      /\ cpc'[x] = "idle" => live_keys'[x] = {}
                      /\ live_keys'[x] \subseteq touched'[x]
    BY DEF Witnessed
  <2>1. CASE x = c
    BY <2>1, <1>3
  <2>2. CASE x # c
    BY <2>2, <1>2, <1>4 DEF CompactionIInv, Witnessed
  <2> QED
    BY <2>1, <2>2
<1> QED
  BY <1>1, <1>5, <1>6 DEF CompactionIInv

\* Every step preserves the invariant.
LEMMA CompactionInductive == CompactionIInv /\ [CompactionNext]_storeVars => CompactionIInv'
<1> SUFFICES ASSUME CompactionIInv, [CompactionNext]_storeVars PROVE CompactionIInv'
  OBVIOUS
<1>1. CASE UNCHANGED storeVars
  <2>1. LiveHashes' = LiveHashes
    BY <1>1 DEF storeVars, LiveHashes, Keys
  <2> QED
    BY <1>1, <2>1 DEF storeVars, compactVars, CompactionIInv, StoreTypeOK, Collected, Witnessed, Keys, Payload
<1>2. CASE CompactionNext
  <2>1. ASSUME NEW s \in SourceDbs, NEW p \in Paths,
               \/ \E h \in Hashes : Upsert(s, p, h)
               \/ Delete(s, p)
               \/ \E q \in Paths : Rename(s, p, q)
        PROVE  CompactionIInv'
    BY <2>1, WriterStep
  <2>2. ASSUME NEW s \in SourceDbs, DeleteSource(s)
        PROVE  CompactionIInv'
    <3>1. PICK p \in Paths : TRUE
      BY <2>2 DEF DeleteSource, Keys
    <3> QED
      BY <2>2, WriterStep
  <2>3. CASE ArchiveFile \/ ArchivePut
    BY <2>3, ArchiveStep
  <2>4. ASSUME NEW c \in Compactors, CompactStart(c)
        PROVE  CompactionIInv'
    BY <2>4, StartStep
  <2>5. ASSUME NEW c \in Compactors, NEW s \in SourceDbs, CollectSource(c, s)
        PROVE  CompactionIInv'
    BY <2>5, CollectStep
  <2>6. ASSUME NEW c \in Compactors, Compact(c)
        PROVE  CompactionIInv'
    BY <2>6, CompactStep
  <2> QED
    BY <1>2, <2>1, <2>2, <2>3, <2>4, <2>5, <2>6 DEF CompactionNext
<1> QED
  BY <1>1, <1>2

\* The invariant holds in every behaviour of the specification.
THEOREM CompactionInvariant == CompactionSpec => []CompactionIInv
  BY CompactionInitIInv, CompactionInductive, PTL DEF CompactionSpec

\* Types, for any sources, paths, hashes and compactions.
THEOREM StoreTypeCorrect == CompactionSpec => []StoreTypeOK
<1>1. CompactionIInv => StoreTypeOK
  BY DEF CompactionIInv
<1> QED
  BY <1>1, CompactionInvariant, PTL

\* compact_archives, whatever commits, renames, deletes and other compactions run
\* beside it, keeps the blob of every hash a source it could read has carried since
\* the compaction began.
THEOREM SteadyIsKept == CompactionSpec => SteadyContentKept
<1>1. ASSUME CompactionIInv, NEW c \in Compactors, NEW s \in SourceDbs, Compact(c), s \notin skipped[c]
      PROVE  steady[c][s] \cap blobs \subseteq blobs'
  <2>1. cpc[c] = "collect" /\ s \notin unread[c]
    BY <1>1 DEF Compact, Finished
  <2>2. steady[c][s] \subseteq live_keys[c]
    BY <1>1, <2>1 DEF CompactionIInv, Collected
  <2>3. blobs' = blobs \/ blobs' = blobs \cap live_keys[c]
    BY <1>1 DEF Compact
  <2> QED
    BY <2>2, <2>3
<1>2. CompactionIInv => [\A c \in Compactors, s \in SourceDbs :
                 Compact(c) /\ s \notin skipped[c]
                    => steady[c][s] \cap blobs \subseteq blobs']_storeVars
  BY <1>1
<1> QED
  BY <1>2, CompactionInvariant, PTL DEF SteadyContentKept

\* Nothing that was garbage before a compaction began survives it.
THEOREM GarbageIsReclaimed == CompactionSpec => OrphansReclaimed
<1>1. ASSUME CompactionIInv, NEW c \in Compactors, Compact(c), ~dry[c]
      PROVE  blobs' \subseteq touched[c]
  <2>1. blobs' = blobs \cap live_keys[c]
    BY <1>1 DEF Compact
  <2> QED
    BY <1>1, <2>1 DEF CompactionIInv, Witnessed
<1>2. CompactionIInv => [\A c \in Compactors :
                 Compact(c) /\ ~dry[c] => blobs' \subseteq touched[c]]_storeVars
  BY <1>1
<1> QED
  BY <1>2, CompactionInvariant, PTL DEF OrphansReclaimed

-----------------------------------------------------------------------------
(* Threads and timeouts.  The invariant adds one fact to the ones of       *)
(* interest: what a thread is about to remove from inbox/ is committed     *)
(* (Covered).                                                              *)

Covered == \A g \in Threads : pc[g] = "flush" => txn[g] \subseteq durable

IInv == TypeOK /\ Covered /\ NoAcceptedLoss /\ BreakerHolds

USE TimeoutsAssumption DEF Requests

\* The server starts in the invariant: no thread, no request, no timeout counted.
LEMMA InitIInv == Init => IInv
<1> SUFFICES ASSUME Init PROVE IInv
  OBVIOUS
<1>1. TypeOK BY DEF Init, TypeOK, ThreadShape, InRequest
<1>2. Covered BY DEF Init, Covered
<1>3. NoAcceptedLoss BY DEF Init, NoAcceptedLoss
<1>4. BreakerHolds BY DEF Init, BreakerHolds
<1> QED BY <1>1, <1>2, <1>3, <1>4 DEF IInv

-----------------------------------------------------------------------------
(* The type invariant.                                                      *)

\* A step of a blocking thread keeps every variable's type and every thread's shape.
LEMMA ThreadTypes ==
  ASSUME TypeOK, NEW g \in Threads, ThreadStep(g)
  PROVE  TypeOK'
<1> USE DEF TypeOK, ThreadShape, InRequest, Goto, NoSession, Quarantine, queueVars,
            routerVars, workerVars, adminVars, ThreadStep
<1>1. CASE NextRequest(g) BY <1>1 DEF NextRequest
<1>2. CASE Decode(g)
  <2>1. ASSUME NEW h \in Threads PROVE ThreadShape(h)'
    <3>1. CASE h = g BY <1>2, <3>1 DEF Decode
    <3>2. CASE h # g BY <1>2, <3>2 DEF Decode
    <3> QED BY <3>1, <3>2
  <2>2. session' \in [Threads -> Sources \cup {NoSource}]
    BY <1>2 DEF Decode
  <2> HIDE DEF ThreadShape
  <2> QED BY <1>2, <2>1, <2>2 DEF Decode
<1>3. CASE Open(g) BY <1>3 DEF Open
<1>4. CASE Write(g) BY <1>4 DEF Write
<1>5. CASE LockError(g) BY <1>5 DEF LockError
<1>6. CASE CommitPoint(g) BY <1>6 DEF CommitPoint
<1>7. CASE RequestDone(g) BY <1>7 DEF RequestDone
<1>8. CASE Interrupted(g)
  <2>1. ASSUME NEW h \in Threads PROVE ThreadShape(h)'
    <3>1. CASE h = g BY <1>8, <3>1 DEF Interrupted, InStatement
    <3>2. CASE h # g BY <1>8, <3>2 DEF Interrupted
    <3> QED BY <3>1, <3>2
  <2> HIDE DEF ThreadShape
  <2> QED BY <1>8, <2>1 DEF Interrupted, InStatement
<1>9. CASE Commit(g)
  <2>1. ASSUME NEW h \in Threads PROVE ThreadShape(h)'
    <3>1. CASE h = g BY <1>9, <3>1 DEF Commit
    <3>2. CASE h # g BY <1>9, <3>2 DEF Commit
    <3> QED BY <3>1, <3>2
  <2>2. tip' \in [Sources -> Requests \cup {NoReq}]
    BY <1>9 DEF Commit
  <2> HIDE DEF ThreadShape
  <2> QED BY <1>9, <2>1, <2>2 DEF Commit
<1>10. CASE Flush(g) BY <1>10 DEF Flush
<1>11. CASE GroupEnd(g)
  <2>1. ASSUME NEW h \in Threads PROVE ThreadShape(h)'
    <3>1. CASE h = g BY <1>11, <3>1 DEF GroupEnd
    <3>2. CASE h # g BY <1>11, <3>2 DEF GroupEnd
    <3> QED BY <3>1, <3>2
  <2>2. current' \in [Threads -> Requests \cup {NoReq}]
    BY <1>11 DEF GroupEnd
  <2> HIDE DEF ThreadShape
  <2> QED BY <1>11, <2>1, <2>2 DEF GroupEnd
<1>12. CASE Hang(g) BY <1>12 DEF Hang
<1>13. CASE ThreadExits(g) BY <1>13 DEF ThreadExits
<1> QED BY <1>1, <1>2, <1>3, <1>4, <1>5, <1>6, <1>7, <1>8, <1>9, <1>10, <1>11, <1>12,
           <1>13

\* So does every other step, of the router, the async worker or an admin route.
LEMMA NextTypes == TypeOK /\ [Next]_vars => TypeOK'
<1> SUFFICES ASSUME TypeOK, [Next]_vars PROVE TypeOK'
  OBVIOUS
<1> USE DEF TypeOK, ThreadShape, InRequest, Quarantine, queueVars, routerVars,
            workerVars, adminVars, threadVars
<1>1. CASE Submit BY <1>1 DEF Submit
<1>2. CASE Dispatch BY <1>2 DEF Dispatch
<1>3. CASE WorkerRecv
  <2>1. PICK g \in Threads :
            /\ pc[g] = "free" /\ worker' = g
            /\ pc' = [pc EXCEPT ![g] = "next"]
            /\ rest' = [rest EXCEPT ![g] = channel]
    BY <1>3 DEF WorkerRecv
  <2>2. ASSUME NEW h \in Threads PROVE ThreadShape(h)'
    <3>1. CASE h = g BY <1>3, <2>1, <3>1 DEF WorkerRecv
    <3>2. CASE h # g BY <1>3, <2>1, <3>2 DEF WorkerRecv
    <3> QED BY <3>1, <3>2
  <2> HIDE DEF ThreadShape
  <2> QED BY <1>3, <2>1, <2>2 DEF WorkerRecv
<1>4. CASE QuarantineCurrent BY <1>4 DEF QuarantineCurrent
<1>5. CASE CountTimeout BY <1>5 DEF CountTimeout
<1>6. CASE AutoPause BY <1>6 DEF AutoPause
<1>7. CASE GroupDone BY <1>7 DEF GroupDone
<1>8. CASE Signal BY <1>8 DEF Signal
<1>9. CASE TimeoutFires BY <1>9 DEF TimeoutFires
<1>10. CASE InboxPause BY <1>10 DEF InboxPause, AdminCall
<1>11. CASE InboxResume
  <2>1. \A h \in Threads : ThreadShape(h)' BY <1>11 DEF InboxResume
  <2>2. paused' \in BOOLEAN /\ resuming' \in BOOLEAN BY <1>11, Zenon DEF InboxResume
  <2>3. adminLeft' \in Nat BY <1>11 DEF InboxResume, AdminCall
  <2>4. UNCHANGED <<consecutive, queueVars, routerVars, workerVars, threadVars, faultsLeft>>
    BY <1>11 DEF InboxResume
  <2> HIDE DEF ThreadShape, InRequest
  <2> QED BY <2>1, <2>2, <2>3, <2>4
<1>12. CASE ResumeReset BY <1>12 DEF ResumeReset
<1>13. CASE InboxRetry BY <1>13 DEF InboxRetry, AdminCall
<1>14. CASE \E g \in Threads : ThreadStep(g) BY <1>14, ThreadTypes
<1>15. CASE UNCHANGED vars BY <1>15 DEF vars
<1> QED BY <1>1, <1>2, <1>3, <1>4, <1>5, <1>6, <1>7, <1>8, <1>9, <1>10, <1>11, <1>12,
           <1>13, <1>14, <1>15 DEF Next, Router, Worker, Admin

-----------------------------------------------------------------------------
(* What a thread removes is committed, so nothing accepted is lost.         *)

\* A thread comes to the flush only through its COMMIT, and nothing uncommits.
LEMMA ThreadKeepsCovered ==
  ASSUME TypeOK, Covered, NEW g \in Threads, ThreadStep(g)
  PROVE  Covered'
<1> SUFFICES ASSUME NEW h \in Threads, (pc[h] = "flush")' PROVE (txn[h] \subseteq durable)'
  BY DEF Covered
<1> USE DEF TypeOK, Covered, Goto, NoSession, queueVars, ThreadStep
<1>1. CASE Commit(g)
  <2>1. CASE h = g BY <1>1, <2>1 DEF Commit
  <2>2. CASE h # g BY <1>1, <2>2 DEF Commit
  <2> QED BY <2>1, <2>2
<1>2. CASE Flush(g)
  <2>1. CASE h = g BY <1>2, <2>1 DEF Flush
  <2>2. CASE h # g BY <1>2, <2>2 DEF Flush
  <2> QED BY <2>1, <2>2
<1>3. CASE NextRequest(g) BY <1>3 DEF NextRequest
<1>4. CASE Decode(g) BY <1>4 DEF Decode
<1>5. CASE Open(g) BY <1>5 DEF Open
<1>6. CASE Write(g) BY <1>6 DEF Write
<1>7. CASE LockError(g) BY <1>7 DEF LockError
<1>8. CASE CommitPoint(g) BY <1>8 DEF CommitPoint
<1>9. CASE RequestDone(g) BY <1>9 DEF RequestDone
<1>10. CASE Interrupted(g) BY <1>10 DEF Interrupted
<1>11. CASE GroupEnd(g) BY <1>11 DEF GroupEnd
<1>12. CASE Hang(g) BY <1>12 DEF Hang
<1>13. CASE ThreadExits(g) BY <1>13 DEF ThreadExits
<1> QED BY <1>1, <1>2, <1>3, <1>4, <1>5, <1>6, <1>7, <1>8, <1>9, <1>10, <1>11, <1>12, <1>13

\* The flush and a quarantine are what removes from inbox/: the one removes what is
\* durable, the other what it puts into failed/.
LEMMA ThreadLosesNothing ==
  ASSUME TypeOK, Covered, NoAcceptedLoss, NEW g \in Threads, ThreadStep(g)
  PROVE  NoAcceptedLoss'
<1> USE DEF TypeOK, NoAcceptedLoss, queueVars, ThreadStep
<1>1. CASE Flush(g) BY <1>1 DEF Flush, Covered
<1>2. CASE Interrupted(g) BY <1>2 DEF Interrupted, Quarantine
<1>3. CASE Commit(g) BY <1>3 DEF Commit
<1>4. CASE NextRequest(g) BY <1>4 DEF NextRequest
<1>5. CASE Decode(g) BY <1>5 DEF Decode
<1>6. CASE Open(g) BY <1>6 DEF Open
<1>7. CASE Write(g) BY <1>7 DEF Write
<1>8. CASE LockError(g) BY <1>8 DEF LockError
<1>9. CASE CommitPoint(g) BY <1>9 DEF CommitPoint
<1>10. CASE RequestDone(g) BY <1>10 DEF RequestDone
<1>11. CASE GroupEnd(g) BY <1>11 DEF GroupEnd
<1>12. CASE Hang(g) BY <1>12 DEF Hang
<1>13. CASE ThreadExits(g) BY <1>13 DEF ThreadExits
<1> QED BY <1>1, <1>2, <1>3, <1>4, <1>5, <1>6, <1>7, <1>8, <1>9, <1>10, <1>11, <1>12, <1>13

\* No step of any party loses a request or lets a thread flush what is not durable.
LEMMA NextKeepsRequests ==
  TypeOK /\ Covered /\ NoAcceptedLoss /\ [Next]_vars => Covered' /\ NoAcceptedLoss'
<1> SUFFICES ASSUME TypeOK, Covered, NoAcceptedLoss, [Next]_vars
             PROVE  Covered' /\ NoAcceptedLoss'
  OBVIOUS
<1> USE DEF TypeOK, Covered, NoAcceptedLoss, queueVars, threadVars
<1>1. CASE Submit BY <1>1 DEF Submit
<1>2. CASE Dispatch BY <1>2 DEF Dispatch
<1>3. CASE WorkerRecv BY <1>3 DEF WorkerRecv
<1>4. CASE QuarantineCurrent BY <1>4 DEF QuarantineCurrent, Quarantine
<1>5. CASE CountTimeout BY <1>5 DEF CountTimeout
<1>6. CASE AutoPause BY <1>6 DEF AutoPause
<1>7. CASE GroupDone BY <1>7 DEF GroupDone
<1>8. CASE Signal BY <1>8 DEF Signal
<1>9. CASE TimeoutFires BY <1>9 DEF TimeoutFires
<1>10. CASE InboxPause BY <1>10 DEF InboxPause
<1>11. CASE InboxResume BY <1>11 DEF InboxResume
<1>12. CASE ResumeReset BY <1>12 DEF ResumeReset
<1>13. CASE InboxRetry BY <1>13 DEF InboxRetry
<1>14. CASE \E g \in Threads : ThreadStep(g)
  BY <1>14, ThreadKeepsCovered, ThreadLosesNothing
<1>15. CASE UNCHANGED vars BY <1>15 DEF vars
<1> QED BY <1>1, <1>2, <1>3, <1>4, <1>5, <1>6, <1>7, <1>8, <1>9, <1>10, <1>11, <1>12,
           <1>13, <1>14, <1>15 DEF Next, Router, Worker, Admin

-----------------------------------------------------------------------------
(* The circuit breaker.                                                     *)

\* The counter reaches the limit only on the way to the pause, and only a resume,
\* which resets the counter next, ends the pause.
LEMMA NextKeepsBreaker == TypeOK /\ BreakerHolds /\ [Next]_vars => BreakerHolds'
<1> SUFFICES ASSUME TypeOK, BreakerHolds, [Next]_vars PROVE BreakerHolds'
  OBVIOUS
<1> USE DEF TypeOK, BreakerHolds, adminVars, workerVars
<1>1. CASE Submit BY <1>1 DEF Submit
<1>2. CASE Dispatch BY <1>2 DEF Dispatch
<1>3. CASE WorkerRecv BY <1>3 DEF WorkerRecv
<1>4. CASE QuarantineCurrent BY <1>4 DEF QuarantineCurrent
<1>5. CASE CountTimeout BY <1>5 DEF CountTimeout
<1>6. CASE AutoPause BY <1>6 DEF AutoPause
<1>7. CASE GroupDone BY <1>7 DEF GroupDone
<1>8. CASE Signal BY <1>8 DEF Signal
<1>9. CASE TimeoutFires BY <1>9 DEF TimeoutFires
<1>10. CASE InboxPause BY <1>10 DEF InboxPause
<1>11. CASE InboxResume BY <1>11 DEF InboxResume
<1>12. CASE ResumeReset BY <1>12 DEF ResumeReset
<1>13. CASE InboxRetry BY <1>13 DEF InboxRetry
<1>14. CASE \E g \in Threads : ThreadStep(g) BY <1>14 DEF ThreadStep
<1>15. CASE UNCHANGED vars BY <1>15 DEF vars
<1> QED BY <1>1, <1>2, <1>3, <1>4, <1>5, <1>6, <1>7, <1>8, <1>9, <1>10, <1>11, <1>12,
           <1>13, <1>14, <1>15 DEF Next, Router, Worker, Admin

-----------------------------------------------------------------------------

\* The inductive invariant holds in every reachable state.
LEMMA Invariance == Spec => []IInv
<1>1. IInv /\ [Next]_vars => IInv'
  BY NextTypes, NextKeepsRequests, NextKeepsBreaker DEF IInv
<1> QED BY InitIInv, <1>1, PTL DEF Spec

\* The type invariant of the group threads (group.rs).
THEOREM TypeCorrect == Spec => []TypeOK
<1>1. IInv => TypeOK BY DEF IInv
<1> QED BY Invariance, <1>1, PTL

\* No accepted request is lost, although threads outlive their groups and work
\* on requests that are quarantined, dispatched again or retried meanwhile.
THEOREM AcceptedIsSafe == Spec => []NoAcceptedLoss
<1>1. IInv => NoAcceptedLoss BY DEF IInv
<1> QED BY Invariance, <1>1, PTL

\* The circuit breaker: after consecutive_timeout_limit timeouts in a row the
\* inbox is paused, in every interleaving with pause, resume and retry.
THEOREM BreakerIsSound == Spec => []BreakerHolds
<1>1. IInv => BreakerHolds BY DEF IInv
<1> QED BY Invariance, <1>1, PTL

=============================================================================
