-------------------------- MODULE SearchIndex_proofs --------------------------
(***************************************************************************)
(* Proofs about SearchIndex, for every value of its constants: any files,  *)
(* archives and members, any words and extractions, any search modes, any  *)
(* number of steps and searches.                                           *)
(***************************************************************************)
EXTENDS SearchIndex, FiniteSetTheorems, TLAPS

\* An id belongs to one row and to entries of rows that had it; it is never
\* given twice; there are as many ids as steps.
Ids ==
    /\ next_id <= ops + 1
    /\ \A p, q \in Path : files[p] # NoRow /\ files[q] # NoRow /\ files[p].id = files[q].id => p = q
    /\ \A e \in lines_fts : e[1] < next_id
    /\ touched \in [Id \cup Hashes -> 0..ops]

\* Only names are at the line of the name.
NamesAreNames == \A e \in lines_fts : e[2] = LINE_PATH => e[3] \in Path

\* The entries of a live file, one by one: what there must be, and what there
\* may be.
EntriesExact ==
    \A p \in Path : files[p] # NoRow =>
        LET id == files[p].id
        IN  /\ id \in renamed \/ <<id, LINE_PATH, p>> \in lines_fts
            /\ \A w \in files[p].words : <<id, LINE_CONTENT_START, w>> \in lines_fts
            /\ id \notin stale => \A e \in lines_fts : e[1] = id =>
                  \/ e[2] = LINE_PATH /\ (id \in renamed \/ e[3] = p)
                  \/ e[2] = LINE_CONTENT_START /\ e[3] \in files[p].words

\* The inductive invariant of the index.
IndexInv ==
    /\ TypeOK
    /\ Ids
    /\ NamesAreNames
    /\ EntriesExact
    /\ DuplicatesKnown
    /\ IsFiniteSet(duplicates)

-----------------------------------------------------------------------------
(* Paths, entries and rows.                                                 *)

\* A path is an outer file or a member of one, and never both.
LEMMA PathShape ==
    /\ \A o \in Outer : <<o>> \in Path /\ ~is_composite(<<o>>) /\ <<o>>[1] = o
    /\ \A q \in Inner : q \in Path /\ is_composite(q) /\ q = <<q[1], q[2]>>
    /\ \A p \in Path : is_composite(p) \/ (p = <<p[1]>> /\ p[1] \in Outer)
BY DEF Path, Inner, is_composite

\* Members are members of the path they are listed for, and never the path.
LEMMA ChildrenShape ==
    ASSUME NEW p \in Path
    PROVE  /\ Children(p) \subseteq Inner
           /\ p \notin Children(p)
           /\ \A q \in Children(p) : q[1] = p[1]
BY PathShape DEF Children

\* What a client sends has the shape of a file.
LEMMA IncomingType ==
    Incoming \subseteq IndexFile
<1>1. \A o \in Archives : <<o>> \in Path
  BY PathShape, SearchAssumption
<1>2. 1..MaxMtime \subseteq Mtime /\ 0 \in Mtime
  BY SearchAssumption DEF Mtime
<1>3. \A x \in Extractions : x[1] \in Path /\ x[2] \in Hashes /\ x[3] \in SUBSET Words
  BY SearchAssumption
<1> QED
  BY <1>1, <1>2, <1>3 DEF Incoming, IndexFile

\* What is written of it when that fails has, too.
LEMMA OnlyPathType ==
    ASSUME NEW f \in IndexFile
    PROVE  OnlyPath(f) \in IndexFile
<1>1. 0 \in Mtime
  BY SearchAssumption DEF Mtime
<1> QED
  BY <1>1 DEF OnlyPath, IndexFile

\* The entries of a file are entries.
LEMMA EntriesType ==
    ASSUME NEW id \in Id, NEW p \in Path, NEW ws \in SUBSET Words
    PROVE  Entries(id, p, ws) \subseteq Id \X {LINE_PATH, LINE_CONTENT_START} \X Term
BY DEF Entries, Term

\* What the old version of a file is deleted with is of its own id.
LEMMA OldEntriesOwn ==
    ASSUME TypeOK, NEW f \in IndexFile
    PROVE  \A e \in OldEntries(f) : files[f.path] # NoRow /\ e[1] = files[f.path].id
BY DEF OldEntries, Entries

-----------------------------------------------------------------------------
(* Every step of the worker keeps the index exact.                          *)

\* What all steps of the worker do.
Tick == ops < MaxOps /\ ops' = ops + 1 /\ UNCHANGED <<search, searches>>

\* A new or re-indexed file: the facts its cases share.
LEMMA UpsertFacts ==
    ASSUME IndexInv, Tick, NEW f \in IndexFile, NEW sent \in IndexFile,
           NEW skip, NEW force, Upsert(f, sent, skip, force)
    PROVE  \E id \in Id :
             LET gone == InnerDelete(f, skip)
             IN  /\ files[f.path] # NoRow => id = files[f.path].id /\ next_id' = next_id
                 /\ files[f.path] = NoRow => id = next_id /\ next_id' = next_id + 1
                 /\ id < next_id'
                 /\ f.path \notin gone
                 /\ files' = [p \in Path |->
                       IF p = f.path THEN [id |-> id, mtime |-> f.mtime,
                                           file_hash |-> f.file_hash, words |-> f.words]
                       ELSE IF p \in gone THEN NoRow ELSE files[p]]
                 /\ lines_fts' = (lines_fts \ OldEntries(f)) \cup Entries(id, f.path, f.words)
                 /\ duplicates' = Cascade(duplicates, {files[r].id : r \in gone \cap Live})
                                      \cup Tracked(files', f, id)
                 /\ touched' = [touched EXCEPT ![id] = ops']
                 /\ \A p \in Path : files[p] # NoRow /\ p # f.path => files[p].id # id
<1> DEFINE id == IF files[f.path] = NoRow THEN NewId ELSE files[f.path].id
<1>1. f.path \in Path
  BY DEF IndexFile
<1>2. id \in Id
  BY <1>1, SearchAssumption DEF Tick, IndexInv, TypeOK, Ids, Id, Row, NewId
<1>3. \A p \in Path : files[p] # NoRow /\ p # f.path => files[p].id # id
  BY <1>1 DEF IndexInv, TypeOK, NewId
<1>4. f.path \notin InnerDelete(f, skip)
  BY <1>1, ChildrenShape DEF InnerDelete
<1>5. id < next_id'
  BY <1>1, SearchAssumption DEF Upsert, NewId, IndexInv, TypeOK
<1> QED
  BY <1>1, <1>2, <1>3, <1>4, <1>5 DEF Upsert, NewId, Reindexed

\* Indexing a file keeps the index exact.
LEMMA UpsertStep ==
    ASSUME IndexInv, Tick, NEW f \in IndexFile, NEW sent \in IndexFile,
           NEW skip, NEW force, Upsert(f, sent, skip, force)
    PROVE  IndexInv'
<1> DEFINE gone == InnerDelete(f, skip)
           row == files[f.path]
<1>1. PICK id \in Id :
         /\ row # NoRow => id = row.id /\ next_id' = next_id
         /\ row = NoRow => id = next_id /\ next_id' = next_id + 1
         /\ id < next_id'
         /\ f.path \notin gone
         /\ files' = [p \in Path |->
               IF p = f.path THEN [id |-> id, mtime |-> f.mtime,
                                   file_hash |-> f.file_hash, words |-> f.words]
               ELSE IF p \in gone THEN NoRow ELSE files[p]]
         /\ lines_fts' = (lines_fts \ OldEntries(f)) \cup Entries(id, f.path, f.words)
         /\ duplicates' = Cascade(duplicates, {files[r].id : r \in gone \cap Live})
                              \cup Tracked(files', f, id)
         /\ touched' = [touched EXCEPT ![id] = ops']
         /\ \A p \in Path : files[p] # NoRow /\ p # f.path => files[p].id # id
  BY UpsertFacts, SMTT(60)
<1> HIDE DEF gone
<1>2. f.path \in Path /\ f.words \in SUBSET Words /\ f.mtime \in Mtime
      /\ f.file_hash \in Hashes \cup {NoHash}
  BY DEF IndexFile
<1>3. /\ \A p \in Path : p # f.path /\ files'[p] # NoRow
            => p \notin gone /\ files'[p] = files[p] /\ files[p] # NoRow
      /\ files'[f.path] = [id |-> id, mtime |-> f.mtime,
                           file_hash |-> f.file_hash, words |-> f.words]
  BY <1>1, <1>2
<1>4. /\ UNCHANGED <<blobs, renamed, searches>>
      /\ to_archive' \subseteq to_archive \cup {g \in {sent} : g.file_hash # NoHash}
      /\ stale' \subseteq stale \cup {id} /\ stale \subseteq stale'
      /\ row # NoRow /\ ~ row.words \subseteq
            {e[3] : e \in {d \in OldEntries(f) : d[2] = LINE_CONTENT_START}} => id \in stale'
  BY <1>1, SearchAssumption DEF Upsert, Tick, IndexInv, TypeOK, Id
<1>5. ops \in Nat /\ ops' = ops + 1 /\ MaxOps \in Nat /\ ops' \in 0..MaxOps /\ UNCHANGED searches
      /\ next_id \in Nat /\ next_id \in 1..(MaxOps + 1)
  BY SearchAssumption DEF Tick, IndexInv, TypeOK
<1>6. Entries(id, f.path, f.words) \subseteq Id \X {LINE_PATH, LINE_CONTENT_START} \X Term
  BY <1>2, EntriesType
<1>7. \A e \in OldEntries(f) : row # NoRow /\ e[1] = id
  BY <1>1, OldEntriesOwn DEF IndexInv
<1>8. \A e \in lines_fts' : e \in lines_fts \/ e[1] = id
  BY <1>1 DEF Entries
<1>9. Tracked(files', f, id) \subseteq {f.file_hash} \X Id
      /\ (f.file_hash = NoHash => Tracked(files', f, id) = {})
  <2>1. \A p \in Path : files'[p] # NoRow => files'[p].id \in Id
    BY <1>2, <1>3 DEF IndexInv, TypeOK, Row
  <2> QED
    BY <2>1 DEF Tracked
<1>10. \A p, q \in Path : files'[p] # NoRow /\ files'[q] # NoRow /\ files'[p].id = files'[q].id => p = q
  BY <1>1, <1>2, <1>3 DEF IndexInv, Ids
<1>11. TypeOK'
  <2>1. [id |-> id, mtime |-> f.mtime, file_hash |-> f.file_hash, words |-> f.words] \in Row
    BY <1>2 DEF Row
  <2>2. files' \in [Path -> Row \cup {NoRow}]
    BY <1>1, <2>1 DEF IndexInv, TypeOK
  <2>3. next_id' \in 1..(MaxOps + 1)
    BY <1>1, <1>5 DEF Tick, IndexInv, Ids
  <2>4. lines_fts' \subseteq Id \X {LINE_PATH, LINE_CONTENT_START} \X Term
    BY <1>1, <1>6 DEF IndexInv, TypeOK
  <2>5. duplicates' \subseteq Hashes \X Id
    BY <1>1, <1>2, <1>9 DEF IndexInv, TypeOK, Cascade
  <2>6. \A p \in Path : files'[p] # NoRow => files'[p].id < next_id'
    BY <1>1, <1>2, <1>3, <1>5 DEF IndexInv, TypeOK, Row, Id
  <2> QED
    BY <1>4, <1>5, <1>10, <2>2, <2>3, <2>4, <2>5, <2>6 DEF IndexInv, TypeOK
<1>12. Ids'
  <2>1. \A e \in lines_fts' : e[1] < next_id'
    BY <1>1, <1>5, <1>8 DEF IndexInv, TypeOK, Ids, Id
  <2>2. touched' \in [Id \cup Hashes -> 0..ops']
    BY <1>1, <1>5 DEF IndexInv, Ids
  <2> QED
    BY <1>1, <1>5, <1>10, <2>1, <2>2 DEF IndexInv, Ids
<1>13. NamesAreNames'
  BY <1>1, <1>2 DEF IndexInv, NamesAreNames, Entries, LINE_PATH, LINE_CONTENT_START
<1>14. EntriesExact'
  <2>1. ASSUME NEW p \in Path, files'[p] # NoRow, p # f.path
        PROVE  files[p] # NoRow /\ files'[p] = files[p] /\ files[p].id # id
               /\ \A e : e[1] = files[p].id => (e \in lines_fts' <=> e \in lines_fts)
    BY <1>1, <1>3, <1>7, <2>1 DEF Entries
  <2>2. ASSUME NEW e \in lines_fts', e[1] = id, id \notin stale'
        PROVE  \/ e[2] = LINE_PATH /\ (id \in renamed \/ e[3] = f.path)
               \/ e[2] = LINE_CONTENT_START /\ e[3] \in f.words
    <3>1. CASE e \in Entries(id, f.path, f.words)
      BY <3>1 DEF Entries
    <3>2. CASE e \in lines_fts /\ e \notin OldEntries(f)
      <4>1. row # NoRow /\ id = row.id
        BY <1>1, <1>5, <2>2, <3>2 DEF IndexInv, Ids
      <4>2. row.words \subseteq {d[3] : d \in {c \in OldEntries(f) : c[2] = LINE_CONTENT_START}}
        BY <1>4, <2>2, <4>1
      <4>3. id \notin stale
        BY <1>4, <2>2
      <4>4. e = <<id, e[2], e[3]>>
        BY <2>2, <3>2 DEF IndexInv, TypeOK
      <4>5. \A d \in OldEntries(f) : d[2] = LINE_CONTENT_START => d = <<id, LINE_CONTENT_START, d[3]>>
        BY <1>7, <4>1 DEF OldEntries, Entries, LINE_PATH, LINE_CONTENT_START
      <4>6. ~(e[2] = LINE_CONTENT_START /\ e[3] \in row.words)
        BY <3>2, <4>2, <4>4, <4>5
      <4> QED
        BY <1>2, <2>2, <3>2, <4>1, <4>3, <4>6 DEF IndexInv, EntriesExact
    <3> QED
      BY <1>1, <2>2, <3>1, <3>2
  <2>3. /\ <<id, LINE_PATH, f.path>> \in lines_fts'
        /\ \A w \in f.words : <<id, LINE_CONTENT_START, w>> \in lines_fts'
    BY <1>1 DEF Entries
  <2>4. ASSUME NEW p \in Path, files'[p] # NoRow, p # f.path, files[p].id \notin stale'
        PROVE  files[p].id \notin stale
    BY <1>4, <2>4
  <2> QED
    BY <1>3, <1>4, <2>1, <2>2, <2>3, <2>4 DEF IndexInv, EntriesExact
<1>15. DuplicatesKnown'
  <2> SUFFICES ASSUME NEW p \in Live', NEW q \in Live', p # q,
                      files'[p].file_hash = files'[q].file_hash, files'[p].file_hash # NoHash
               PROVE  <<files'[p].file_hash, files'[p].id>> \in duplicates'
    BY DEF DuplicatesKnown
  <2>1. p \in Path /\ q \in Path /\ files'[p] # NoRow /\ files'[q] # NoRow
        /\ files'[p].id # files'[q].id
    BY <1>10 DEF Live
  <2>2. CASE p # f.path /\ q # f.path
    <3>1. <<files[p].file_hash, files[p].id>> \in duplicates
      BY <1>3, <2>1, <2>2 DEF IndexInv, DuplicatesKnown, Live
    <3>2. files[p].id \notin {files[r].id : r \in gone \cap Live}
      BY <1>3, <2>1, <2>2 DEF IndexInv, Ids, Live
    <3>3. <<files[p].file_hash, files[p].id>>
            \in Cascade(duplicates, {files[r].id : r \in gone \cap Live})
      BY <3>1, <3>2 DEF Cascade
    <3>4. files'[p] = files[p]
      BY <1>3, <2>1, <2>2
    <3>5. <<files[p].file_hash, files[p].id>> \in duplicates'
      BY <1>1, <3>3
    <3> QED
      BY <3>4, <3>5
  <2>3. CASE p = f.path \/ q = f.path
    <3> DEFINE other == IF p = f.path THEN q ELSE p
               others == {files'[r].id : r \in {x \in Path :
                             /\ files'[x] # NoRow /\ files'[x].file_hash = f.file_hash
                             /\ files'[x].id # id}}
    <3>1. files'[other].id \in others /\ f.file_hash # NoHash
          /\ files'[p].file_hash = f.file_hash
      BY <1>3, <2>1, <2>3
    <3>2. files'[p].id \in others \cup {id}
      BY <1>3, <2>1, <2>3, <3>1
    <3>3. Tracked(files', f, id) = {<<f.file_hash, i>> : i \in others \cup {id}}
      BY <3>1 DEF Tracked
    <3>4. <<f.file_hash, files'[p].id>> \in Tracked(files', f, id)
      <4> HIDE DEF others
      <4> QED
        BY <3>2, <3>3
    <3>5. <<f.file_hash, files'[p].id>> \in duplicates'
      BY <1>1, <3>4
    <3> QED
      BY <3>1, <3>5
  <2> QED
    BY <2>2, <2>3
<1>16. IsFiniteSet(duplicates')
  <2>1. IsFiniteSet(Id)
    BY SearchAssumption, FS_Interval DEF Id
  <2>2. IsFiniteSet({f.file_hash} \X Id)
    BY <2>1, FS_Singleton, FS_Product
  <2>3. IsFiniteSet(Tracked(files', f, id))
    BY <1>9, <2>2, FS_Subset
  <2>4. IsFiniteSet(Cascade(duplicates, {files[r].id : r \in gone \cap Live}))
    BY FS_Subset DEF IndexInv, Cascade
  <2> QED
    BY <1>1, <2>3, <2>4, FS_Union
<1> QED
  BY <1>11, <1>12, <1>13, <1>14, <1>15, <1>16 DEF IndexInv

\* Deleting a path and its members keeps the index exact.
LEMMA DeleteStep ==
    ASSUME IndexInv, Tick, NEW p \in Path, NEW run_cleanup \in BOOLEAN, Delete(p, run_cleanup)
    PROVE  IndexInv'
<1> DEFINE gone == {q \in {p} \cup Children(p) : files[q] # NoRow}
           dups == Cascade(duplicates, {files[r].id : r \in gone})
<1>1. /\ files' = [q \in Path |-> IF q \in gone THEN NoRow ELSE files[q]]
      /\ duplicates' \in {cleanup_singleton_duplicates(dups), dups}
      /\ run_cleanup => duplicates' = cleanup_singleton_duplicates(dups)
      /\ ~run_cleanup => duplicates' = dups
      /\ UNCHANGED <<next_id, lines_fts, blobs, to_archive, stale, renamed, touched>>
  BY DEF Delete
<1>2. gone \subseteq Path
  BY ChildrenShape, PathShape
<1> HIDE DEF gone
<1>3. \A q \in Path : files'[q] # NoRow => q \notin gone /\ files'[q] = files[q] /\ files[q] # NoRow
  BY <1>1
<1>4. ops \in Nat /\ ops' = ops + 1 /\ ops' \in 0..MaxOps /\ UNCHANGED searches
  BY SearchAssumption DEF Tick, IndexInv, TypeOK
<1>5. dups \subseteq duplicates /\ duplicates' \subseteq dups
  BY <1>1 DEF Cascade, cleanup_singleton_duplicates
<1>6. TypeOK'
  <2>1. files' \in [Path -> Row \cup {NoRow}]
    BY <1>1 DEF IndexInv, TypeOK
  <2> QED
    BY <1>1, <1>3, <1>4, <1>5, <2>1 DEF IndexInv, TypeOK
<1>7. Ids'
  <2>1. 0..ops \subseteq 0..ops'
    BY <1>4
  <2>2. touched' \in [Id \cup Hashes -> 0..ops']
    BY <1>1, <2>1 DEF IndexInv, Ids
  <2>3. next_id' <= ops' + 1
    BY <1>1, <1>4 DEF IndexInv, Ids, TypeOK
  <2> QED
    BY <1>1, <1>3, <2>2, <2>3 DEF IndexInv, Ids
<1>8. NamesAreNames' /\ EntriesExact'
  BY <1>1, <1>3 DEF IndexInv, NamesAreNames, EntriesExact
<1>9. DuplicatesKnown'
  <2> SUFFICES ASSUME NEW q \in Path, NEW s \in Path, q # s, files'[q] # NoRow, files'[s] # NoRow,
                      files'[q].file_hash = files'[s].file_hash, files'[q].file_hash # NoHash
               PROVE  <<files'[q].file_hash, files'[q].id>> \in duplicates'
    BY DEF DuplicatesKnown, Live
  <2> DEFINE h == files[q].file_hash
             first == <<h, files[q].id>>
             second == <<h, files[s].id>>
  <2>1. files[q] # NoRow /\ files[s] # NoRow /\ files[s].file_hash = h /\ h # NoHash
        /\ files'[q] = files[q] /\ q \notin gone /\ s \notin gone
    BY <1>3
  <2>2. first \in duplicates /\ second \in duplicates
    BY <2>1 DEF IndexInv, DuplicatesKnown, Live
  <2>3. files[q].id \notin {files[r].id : r \in gone} /\ files[s].id \notin {files[r].id : r \in gone}
    <3>1. \A r \in gone : files[r] # NoRow
      BY DEF gone
    <3> QED
      BY <1>2, <2>1, <3>1 DEF IndexInv, Ids
  <2>4. first \in dups /\ second \in dups
    BY <2>2, <2>3 DEF Cascade
  <2>5. first # second
    BY <2>1 DEF IndexInv, Ids
  <2>6. first \in cleanup_singleton_duplicates(dups)
    <3> DEFINE same == {e \in dups : e[1] = h}
    <3>1. first \in same /\ second \in same
      BY <2>4
    <3>2. IsFiniteSet(same)
      BY <1>5, FS_Subset DEF IndexInv
    <3>3. Cardinality(same) # 1
      BY <2>5, <3>1, <3>2, FS_Singleton
    <3> QED
      BY <2>4, <3>3 DEF cleanup_singleton_duplicates
  <2>7. first \in duplicates'
    BY <1>1, <2>4, <2>6
  <2> QED
    BY <2>1, <2>7
<1>10. IsFiniteSet(duplicates')
  BY <1>5, FS_Subset DEF IndexInv
<1> QED
  BY <1>6, <1>7, <1>8, <1>9, <1>10 DEF IndexInv

\* A rename moves the row of a path and those of its members, each to a path of
\* its own, with id, hash and lines; all other rows stay.
LEMMA RenamedRowsFacts ==
    ASSUME TypeOK, NEW o \in Outer, NEW n \in Outer, files[<<o>>] # NoRow, files[<<n>>] = NoRow,
           \A q \in Moved(<<o>>) : files[Target(<<o>>, <<n>>, q)] = NoRow
    PROVE  LET rows == RenamedRows(<<o>>, <<n>>)
           IN  /\ rows \in [Path -> Row \cup {NoRow}]
               /\ rows[<<n>>] = files[<<o>>] /\ rows[<<o>>] = NoRow
               /\ \A p \in Path : rows[p] # NoRow =>
                     \/ p = <<n>>
                     \/ rows[p] = files[p] /\ p \notin Moved(<<o>>) /\ p # <<n>>
                     \/ /\ p \in Inner /\ p[1] = n /\ <<o, p[2]>> \in Moved(<<o>>) \ {<<o>>}
                        /\ rows[p] = files[<<o, p[2]>>]
<1> DEFINE old == <<o>>
           new == <<n>>
           rows == RenamedRows(old, new)
           From(p) == {q \in Moved(old) : Target(old, new, q) = p}
<1>1. old \in Path /\ new \in Path /\ old # new /\ old[1] = o /\ new[1] = n
      /\ ~is_composite(old) /\ ~is_composite(new)
  BY PathShape
<1>2. Moved(old) \subseteq Path /\ old \in Moved(old)
      /\ \A q \in Moved(old) : files[q] # NoRow /\ (q # old => q \in Inner /\ q[1] = o)
  BY <1>1, ChildrenShape, PathShape DEF Moved
<1>3. \A q \in Moved(old) : q # old => Target(old, new, q) = <<n, q[2]>> /\ q = <<o, q[2]>>
                                       /\ <<n, q[2]>> \in Inner
  BY <1>1, <1>2, PathShape DEF Target, Inner
<1>4. From(new) = {old}
  BY <1>1, <1>2, <1>3, PathShape DEF Target
<1>5. From(old) = {}
  BY <1>1, <1>2, <1>3, PathShape DEF Target
<1>6. ASSUME NEW p \in Path, p # new
      PROVE  \A q \in From(p) : q # old /\ p \in Inner /\ p[1] = n /\ q = <<o, p[2]>>
  BY <1>1, <1>2, <1>3, <1>6 DEF Target
<1>7. rows = [p \in Path |->
                 IF From(p) # {} THEN files[CHOOSE q \in From(p) : TRUE]
                 ELSE IF p \in Moved(old) THEN NoRow ELSE files[p]]
  BY DEF RenamedRows
<1>8. \A p \in Path : From(p) # {} => (CHOOSE q \in From(p) : TRUE) \in From(p)
  OBVIOUS
<1>9. \A p \in Path : From(p) \subseteq Moved(old)
  OBVIOUS
<1> HIDE DEF From, rows, old, new
<1>10. rows \in [Path -> Row \cup {NoRow}]
  <2>1. \A p \in Path : From(p) # {} => files[CHOOSE q \in From(p) : TRUE] \in Row \cup {NoRow}
    BY <1>2, <1>8, <1>9 DEF TypeOK
  <2> QED
    BY <1>7, <2>1 DEF TypeOK
<1>11. rows[new] = files[old]
  BY <1>1, <1>4, <1>7
<1>12. rows[old] = NoRow
  BY <1>1, <1>2, <1>5, <1>7
<1>13. ASSUME NEW p \in Path, rows[p] # NoRow, p # new
       PROVE  \/ rows[p] = files[p] /\ p \notin Moved(old)
              \/ /\ p \in Inner /\ p[1] = n /\ <<o, p[2]>> \in Moved(old) \ {old}
                 /\ rows[p] = files[<<o, p[2]>>]
  <2>1. CASE From(p) = {}
    BY <1>7, <1>13, <2>1
  <2>2. CASE From(p) # {}
    <3>1. PICK q \in From(p) : q = CHOOSE x \in From(p) : TRUE
      BY <1>8, <2>2
    <3>2. rows[p] = files[q]
      BY <1>7, <2>2, <3>1
    <3> QED
      BY <1>6, <1>9, <1>13, <3>2
  <2> QED
    BY <2>1, <2>2
<1> QED
  BY <1>10, <1>11, <1>12, <1>13 DEF rows, old, new

\* Renaming a path keeps the index exact.
LEMMA RenameStep ==
    ASSUME IndexInv, Tick, NEW o \in Outer, NEW n \in Outer, Rename(<<o>>, <<n>>)
    PROVE  IndexInv'
<1> DEFINE old == <<o>>
           new == <<n>>
           moved == Moved(old)
           id == files[old].id
           Came(p) == p \in Inner /\ p[1] = n /\ <<o, p[2]>> \in moved \ {old}
                        /\ files'[p] = files[<<o, p[2]>>]
           Stayed(p) == files'[p] = files[p] /\ p \notin moved /\ p # new
<1>1. /\ files[old] # NoRow /\ files[new] = NoRow
      /\ \A q \in moved : files[Target(old, new, q)] = NoRow
      /\ files' = RenamedRows(old, new)
      /\ lines_fts' = (lines_fts \ {<<id, LINE_PATH, old>>}) \cup {<<id, LINE_PATH, new>>}
      /\ renamed' = renamed \cup {files[q].id : q \in moved \ {old}}
      /\ touched' = [i \in DOMAIN touched |->
              IF i \in {files[q].id : q \in moved} THEN ops' ELSE touched[i]]
      /\ UNCHANGED <<next_id, duplicates, blobs, to_archive, stale>>
  BY DEF Rename
<1>2. /\ files' \in [Path -> Row \cup {NoRow}]
      /\ files'[new] = files[old] /\ files'[old] = NoRow
      /\ \A p \in Path : files'[p] # NoRow => p = new \/ Stayed(p) \/ Came(p)
  BY <1>1, RenamedRowsFacts DEF IndexInv
<1>3. /\ old \in Path /\ new \in Path /\ old \in moved /\ moved \subseteq Path
      /\ \A q \in moved : files[q] # NoRow
      /\ \A p, q \in Inner : p[1] = q[1] /\ p[2] = q[2] => p = q
      /\ ~is_composite(new) /\ \A p \in Inner : is_composite(p)
  BY <1>1, ChildrenShape, PathShape DEF Moved
<1>4. ops \in Nat /\ ops' = ops + 1 /\ ops' \in 0..MaxOps /\ UNCHANGED searches
  BY SearchAssumption DEF Tick, IndexInv, TypeOK
<1>5. id \in Id /\ id < next_id /\ \A q \in moved : files[q].id \in Id
  BY <1>1, <1>3 DEF IndexInv, TypeOK, Row
<1> HIDE DEF moved, id
<1> DEFINE From(p) == IF p = new THEN old ELSE IF Stayed(p) THEN p ELSE <<o, p[2]>>
<1>6. \A p \in Path : files'[p] # NoRow =>
        /\ From(p) \in Path /\ files[From(p)] # NoRow /\ files'[p] = files[From(p)]
        /\ p # new => From(p) # old
  <2>1. ASSUME NEW p \in Path, files'[p] # NoRow, Stayed(p), p # new
        PROVE  From(p) = p /\ p # old
    BY <2>1, <1>3
  <2>2. ASSUME NEW p \in Path, ~Stayed(p), Came(p), p # new
        PROVE  From(p) = <<o, p[2]>> /\ From(p) \in moved \ {old}
    BY <2>2
  <2> QED
    BY <1>1, <1>2, <1>3, <2>1, <2>2
<1>7. \A p, q \in Path : files'[p] # NoRow /\ files'[q] # NoRow /\ From(p) = From(q) => p = q
  <2> SUFFICES ASSUME NEW p \in Path, NEW q \in Path, files'[p] # NoRow, files'[q] # NoRow,
                      From(p) = From(q), p # q
               PROVE  FALSE
    OBVIOUS
  <2>1. p # new /\ q # new
    BY <1>6
  <2>2. (Stayed(p) \/ Came(p)) /\ (Stayed(q) \/ Came(q))
    BY <1>2, <2>1
  <2>3. CASE Stayed(p) \/ Stayed(q)
    <3>1. \A x \in Path : Stayed(x) /\ x # new => From(x) = x /\ From(x) \notin moved
      OBVIOUS
    <3>2. \A x \in Path : ~Stayed(x) /\ Came(x) /\ x # new => From(x) \in moved
      OBVIOUS
    <3> QED
      BY <2>1, <2>2, <2>3, <3>1, <3>2
  <2>4. CASE ~Stayed(p) /\ ~Stayed(q)
    BY <1>3, <2>1, <2>2, <2>4
  <2> QED
    BY <2>3, <2>4
<1> HIDE DEF From, old, new
<1>8. \A p, q \in Path : files'[p] # NoRow /\ files'[q] # NoRow /\ files'[p].id = files'[q].id => p = q
  BY <1>6, <1>7 DEF IndexInv, Ids
<1>9. TypeOK'
  <2>1. lines_fts' \subseteq Id \X {LINE_PATH, LINE_CONTENT_START} \X Term
    BY <1>1, <1>3, <1>5 DEF IndexInv, TypeOK, Term
  <2>2. renamed' \subseteq Id
    BY <1>1, <1>5 DEF IndexInv, TypeOK
  <2>3. \A p \in Path : files'[p] # NoRow => files'[p].id < next_id'
    BY <1>1, <1>6 DEF IndexInv, TypeOK
  <2> QED
    BY <1>1, <1>2, <1>4, <1>8, <2>1, <2>2, <2>3 DEF IndexInv, TypeOK
<1>10. Ids'
  <2>1. 0..ops \subseteq 0..ops' /\ ops' \in 0..ops'
    BY <1>4
  <2>2. touched' \in [Id \cup Hashes -> 0..ops']
    BY <1>1, <2>1 DEF IndexInv, Ids
  <2>3. next_id' <= ops' + 1
    BY <1>1, <1>4 DEF IndexInv, Ids, TypeOK
  <2>4. \A e \in lines_fts' : e[1] < next_id'
    BY <1>1, <1>5 DEF IndexInv, Ids
  <2> QED
    BY <1>8, <2>2, <2>3, <2>4 DEF Ids
<1>11. NamesAreNames'
  BY <1>1, <1>3 DEF IndexInv, NamesAreNames
<1>12. EntriesExact'
  <2> SUFFICES ASSUME NEW p \in Path, files'[p] # NoRow
               PROVE  /\ files'[p].id \in renamed' \/ <<files'[p].id, LINE_PATH, p>> \in lines_fts'
                      /\ \A w \in files'[p].words :
                            <<files'[p].id, LINE_CONTENT_START, w>> \in lines_fts'
                      /\ files'[p].id \notin stale' => \A e \in lines_fts' : e[1] = files'[p].id =>
                            \/ e[2] = LINE_PATH /\ (files'[p].id \in renamed' \/ e[3] = p)
                            \/ e[2] = LINE_CONTENT_START /\ e[3] \in files'[p].words
    BY DEF EntriesExact
  <2>1. From(p) \in Path /\ files[From(p)] # NoRow /\ files'[p] = files[From(p)]
    BY <1>6
  <2>2. \A w : <<files'[p].id, LINE_CONTENT_START, w>> \in lines_fts
               => <<files'[p].id, LINE_CONTENT_START, w>> \in lines_fts'
    BY <1>1 DEF LINE_PATH, LINE_CONTENT_START
  <2>3. CASE p = new
    <3>1. From(p) = old /\ files'[p].id = id
      BY <1>2, <2>3 DEF From, id
    <3>2. \A e \in lines_fts : e[1] = id =>
             e = <<id, e[2], e[3]>>
      BY DEF IndexInv, TypeOK
    <3>3. \A e \in lines_fts' : e[1] = id /\ e[2] = LINE_PATH =>
             e[3] = new \/ (e \in lines_fts /\ e[3] # old)
      BY <1>1, <3>2
    <3>4. <<id, LINE_PATH, p>> \in lines_fts'
      BY <1>1, <2>3
    <3>5. \A w \in files'[p].words : <<id, LINE_CONTENT_START, w>> \in lines_fts'
      BY <2>1, <2>2, <3>1 DEF IndexInv, EntriesExact
    <3>6. ASSUME id \notin stale', NEW e \in lines_fts', e[1] = id
          PROVE  \/ e[2] = LINE_PATH /\ (id \in renamed' \/ e[3] = p)
                 \/ e[2] = LINE_CONTENT_START /\ e[3] \in files'[p].words
      <4>1. CASE e = <<id, LINE_PATH, new>>
        BY <2>3, <4>1
      <4>2. CASE e \in lines_fts
        <5>1. \/ e[2] = LINE_PATH /\ (id \in renamed \/ e[3] = old)
              \/ e[2] = LINE_CONTENT_START /\ e[3] \in files'[p].words
          BY <1>1, <2>1, <3>1, <3>6, <4>2 DEF IndexInv, EntriesExact
        <5> QED
          BY <1>1, <2>3, <3>3, <3>6, <5>1
      <4> QED
        BY <1>1, <4>1, <4>2
    <3> QED
      BY <3>1, <3>4, <3>5, <3>6
  <2>4. CASE p # new
    <3>1. files'[p].id # id
      BY <1>1, <1>2, <1>3, <1>6, <2>4 DEF IndexInv, Ids, id
    <3>2. \A e : e[1] = files'[p].id => (e \in lines_fts' <=> e \in lines_fts)
      BY <1>1, <3>1
    <3>3. CASE Stayed(p)
      BY <1>1, <2>1, <2>4, <3>2, <3>3 DEF IndexInv, EntriesExact, From
    <3>4. CASE Came(p)
      <4>1. files'[p].id \in renamed'
        BY <1>1, <3>4
      <4> QED
        BY <1>1, <2>1, <3>2, <4>1 DEF IndexInv, EntriesExact
    <3> QED
      BY <1>2, <2>4, <3>3, <3>4
  <2> QED
    BY <2>3, <2>4
<1>13. DuplicatesKnown'
  <2> SUFFICES ASSUME NEW p \in Path, NEW q \in Path, p # q, files'[p] # NoRow, files'[q] # NoRow,
                      files'[p].file_hash = files'[q].file_hash, files'[p].file_hash # NoHash
               PROVE  <<files'[p].file_hash, files'[p].id>> \in duplicates'
    BY DEF DuplicatesKnown, Live
  <2>1. From(p) # From(q) /\ From(p) \in Path /\ From(q) \in Path
        /\ files[From(p)] # NoRow /\ files[From(q)] # NoRow
        /\ files'[p] = files[From(p)] /\ files'[q] = files[From(q)]
    BY <1>6, <1>7
  <2> QED
    BY <1>1, <2>1 DEF IndexInv, DuplicatesKnown, Live
<1>14. IsFiniteSet(duplicates')
  BY <1>1 DEF IndexInv
<1> QED
  BY <1>9, <1>10, <1>11, <1>12, <1>13, <1>14 DEF IndexInv

\* Archiving a file leaves the index alone.
LEMMA ArchiveStep ==
    ASSUME IndexInv, Tick, NEW f \in to_archive, ArchiveFile(f)
    PROVE  IndexInv'
<1>1. /\ UNCHANGED <<files, next_id, lines_fts, duplicates, stale, renamed>>
      /\ to_archive' \subseteq to_archive
      /\ \/ UNCHANGED <<blobs, touched>>
         \/ /\ f.file_hash # NoHash
            /\ blobs' = [h \in DOMAIN blobs \cup {f.file_hash} |->
                  IF h = f.file_hash THEN [path |-> f.path, words |-> f.words] ELSE blobs[h]]
            /\ touched' = [touched EXCEPT ![f.file_hash] = ops']
  BY DEF ArchiveFile, IndexInv, TypeOK
<1>2. ops \in Nat /\ ops' = ops + 1 /\ ops' \in 0..MaxOps /\ UNCHANGED searches
  BY SearchAssumption DEF Tick, IndexInv, TypeOK
<1>3. f \in IndexFile
  BY DEF IndexInv, TypeOK
<1>4. DOMAIN blobs' \subseteq Hashes /\ \A h \in DOMAIN blobs' : blobs'[h] \in Blob
  <2>1. [path |-> f.path, words |-> f.words] \in Blob
    BY <1>3 DEF IndexFile, Blob
  <2> QED
    BY <1>1, <1>3, <2>1 DEF IndexInv, TypeOK, IndexFile
<1>5. touched' \in [Id \cup Hashes -> 0..ops']
  <2>1. 0..ops \subseteq 0..ops' /\ ops' \in 0..ops'
    BY <1>2
  <2> QED
    BY <1>1, <1>3, <2>1 DEF IndexInv, Ids, IndexFile
<1>6. TypeOK'
  BY <1>1, <1>2, <1>4 DEF IndexInv, TypeOK
<1>7. next_id' <= ops' + 1
  BY <1>1, <1>2 DEF IndexInv, Ids, TypeOK
<1>8. Ids'
  BY <1>1, <1>5, <1>7 DEF IndexInv, Ids
<1>9. NamesAreNames' /\ EntriesExact' /\ DuplicatesKnown' /\ IsFiniteSet(duplicates')
  BY <1>1 DEF IndexInv, NamesAreNames, EntriesExact, DuplicatesKnown, Live
<1> QED
  BY <1>6, <1>8, <1>9 DEF IndexInv

\* Every step of the worker keeps the index exact.
LEMMA WorkerStep ==
    ASSUME IndexInv, Worker
    PROVE  IndexInv'
<1>1. Tick
  BY DEF Worker, Tick
<1>2. ASSUME NEW f \in Incoming, NEW force \in BOOLEAN,
             process_file_phase1(f, force) \/ process_file_phase1_fallback(f, force)
      PROVE  IndexInv'
  <2>1. f \in IndexFile /\ OnlyPath(f) \in IndexFile
    BY IncomingType, OnlyPathType
  <2>2. CASE process_file_phase1(f, force)
    BY <1>1, <2>1, <2>2, UpsertStep DEF process_file_phase1
  <2>3. CASE process_file_phase1_fallback(f, force)
    BY <1>1, <2>1, <2>3, UpsertStep DEF process_file_phase1_fallback
  <2> QED
    BY <1>2, <2>2, <2>3
<1>3. ASSUME NEW p \in Live, NEW run_cleanup \in BOOLEAN, Delete(p, run_cleanup) PROVE IndexInv'
  BY <1>1, <1>3, DeleteStep DEF Live
<1>4. ASSUME NEW o \in Outer, NEW n \in Outer, Rename(<<o>>, <<n>>) PROVE IndexInv'
  BY <1>1, <1>4, RenameStep
<1>5. ASSUME NEW f \in to_archive, ArchiveFile(f) PROVE IndexInv'
  BY <1>1, <1>5, ArchiveStep
<1> QED
  BY <1>2, <1>3, <1>4, <1>5 DEF Worker

\* A search does not write; it is counted.
LEMMA SearchWritesNothing ==
    ASSUME IndexInv, Search
    PROVE  IndexInv'
<1>1. UNCHANGED worker_vars
  BY DEF Search, Start, Qualify, Candidates, ReadHashes, RegexFilter, FetchDuplicates
<1>2. searches' \in 0..MaxSearches
  <2>1. CASE UNCHANGED searches
    BY <2>1 DEF IndexInv, TypeOK
  <2>2. CASE searches < MaxSearches /\ searches' = searches + 1
    BY <2>2, SearchAssumption DEF IndexInv, TypeOK
  <2> QED
    BY <2>1, <2>2 DEF Search, Start, Qualify, Candidates, ReadHashes, RegexFilter, FetchDuplicates
<1>3. TypeOK'
  BY <1>1, <1>2 DEF IndexInv, TypeOK, worker_vars
<1> QED
  BY <1>1, <1>3
  DEF IndexInv, Ids, NamesAreNames, EntriesExact, DuplicatesKnown, Live, worker_vars

\* IndexInv is inductive.
LEMMA IndexInvariance ==
    Spec => []IndexInv
<1>1. Init => IndexInv
  <2>1. 1 \in 1..(MaxOps + 1) /\ 0 \in 0..MaxOps /\ 0 \in 0..MaxSearches /\ 0 \in 0..0
    BY SearchAssumption
  <2>2. IsFiniteSet({})
    BY FS_EmptySet
  <2> QED
    BY <2>1, <2>2
    DEF Init, IndexInv, TypeOK, Ids, NamesAreNames, EntriesExact, DuplicatesKnown, Live
<1>2. IndexInv /\ [Next]_vars => IndexInv'
  <2> SUFFICES ASSUME IndexInv, [Next]_vars PROVE IndexInv'
    OBVIOUS
  <2>1. CASE Next
    BY <2>1, WorkerStep, SearchWritesNothing DEF Next
  <2>2. CASE UNCHANGED vars
    <3>1. TypeOK'
      BY <2>2 DEF vars, worker_vars, IndexInv, TypeOK
    <3> QED
      BY <2>2, <3>1
      DEF vars, worker_vars, IndexInv, Ids, NamesAreNames, EntriesExact, DuplicatesKnown, Live
  <2> QED
    BY <2>1, <2>2
<1> QED
  BY <1>1, <1>2, PTL DEF Spec

\* The types hold in every reachable state; an id belongs to one row.
THEOREM TypeCorrect ==
    Spec => []TypeOK
<1>1. IndexInv => TypeOK
  BY DEF IndexInv
<1> QED
  BY <1>1, IndexInvariance, PTL

\* The full-text entries of a file are those of the version last committed for
\* it, whatever was indexed, deleted, renamed and archived in between.
THEOREM IndexedExactly ==
    Spec => []Indexed
<1>1. IndexInv => Indexed
  <2> SUFFICES ASSUME IndexInv, NEW p \in Live
               PROVE  LET id == files[p].id
                          own == {e \in lines_fts : e[1] = id}
                          due == Entries(id, p, files[p].words)
                          name == {e \in Id \X {LINE_PATH} \X Path : id \in renamed}
                      IN  /\ due \ name \subseteq own
                          /\ id \notin stale => own \ name \subseteq due
    BY DEF Indexed
  <2> DEFINE id == files[p].id
             name == {e \in Id \X {LINE_PATH} \X Path : id \in renamed}
             due == Entries(id, p, files[p].words)
  <2>1. p \in Path /\ files[p] # NoRow /\ id \in Id
    BY DEF Live, IndexInv, TypeOK, Row
  <2>2. ASSUME NEW e \in due, e \notin name PROVE e \in lines_fts /\ e[1] = id
    <3>1. CASE e = <<id, LINE_PATH, p>>
      <4>1. id \notin renamed
        BY <2>1, <2>2, <3>1
      <4> QED
        BY <2>1, <3>1, <4>1 DEF IndexInv, EntriesExact
    <3>2. CASE \E w \in files[p].words : e = <<id, LINE_CONTENT_START, w>>
      <4>1. \A w \in files[p].words : <<id, LINE_CONTENT_START, w>> \in lines_fts
        BY <2>1 DEF IndexInv, EntriesExact
      <4> HIDE DEF id, due
      <4> QED
        BY <3>2, <4>1
    <3>3. e = <<id, LINE_PATH, p>> \/ \E w \in files[p].words : e = <<id, LINE_CONTENT_START, w>>
      BY <2>2 DEF Entries
    <3>4. e[1] = id
      BY <3>3
    <3> QED
      BY <3>1, <3>2, <3>3, <3>4
  <2>3. ASSUME NEW e \in lines_fts, e[1] = id, e \notin name, id \notin stale PROVE e \in due
    <3>1. e = <<id, e[2], e[3]>>
      BY <2>3 DEF IndexInv, TypeOK
    <3>2. \/ e[2] = LINE_PATH /\ (id \in renamed \/ e[3] = p)
          \/ e[2] = LINE_CONTENT_START /\ e[3] \in files[p].words
      BY <2>1, <2>3 DEF IndexInv, EntriesExact
    <3>3. e[2] = LINE_PATH => e[3] \in Path
      BY DEF IndexInv, NamesAreNames
    <3> QED
      BY <2>1, <2>3, <3>1, <3>2, <3>3 DEF Entries
  <2> QED
    BY <2>2, <2>3
<1> QED
  BY <1>1, IndexInvariance, PTL

\* Two files with the same hash are in the table of duplicates.
THEOREM DuplicatesAreKnown ==
    Spec => []DuplicatesKnown
<1>1. IndexInv => DuplicatesKnown
  BY DEF IndexInv
<1> QED
  BY <1>1, IndexInvariance, PTL

-----------------------------------------------------------------------------
(* A search that runs beside the worker finds what nobody touched.          *)

\* What a search promises to find.
Wanted(p) ==
    /\ Steady(p) /\ ShouldMatch(p) /\ ~search.case_sensitive
    /\ search.mode \in RegexModes \ FileModes => InStore(p)

\* The line of a hit is one the query can be read from.
Readable(x, p) ==
    /\ search.mode = "Regex" =>
           search.query \subseteq (IF x.pos = LINE_PATH THEN {p} ELSE files[p].words)
    /\ search.mode = "FileRegex" => search.query \subseteq {<<x.path[1]>>}

\* A search carries a wanted file through its statements: among the ids that
\* qualify, then among the hits, with the hash of its row.
SearchInv ==
    search # NoSearch =>
        /\ search = [phase |-> search.phase, mode |-> search.mode, query |-> search.query,
                     case_sensitive |-> search.case_sensitive, began |-> search.began,
                     ids |-> search.ids, todo |-> search.todo, hits |-> search.hits,
                     hashes |-> search.hashes, duplicate_paths |-> search.duplicate_paths]
        /\ search.query # {} /\ search.began \in Nat /\ search.began <= ops
        /\ search.phase \in {"hashes", "lines"} => search.mode \in RegexModes
        /\ search.phase = "qualify" => search.mode \in DocumentModes /\ search.todo \subseteq search.query
        /\ \A p \in Path : files[p] # NoRow /\ Wanted(p) =>
              /\ search.phase \in {"qualify", "candidates"} => files[p].id \in search.ids
              /\ search.phase \in {"hashes", "lines"} =>
                    \E x \in search.hits : x.id = files[p].id /\ Readable(x, p)
              /\ search.phase = "lines" =>
                    search.hashes = [id \in DOMAIN search.hashes |-> search.hashes[id]]
                    /\ files[p].id \in DOMAIN search.hashes
                    /\ search.hashes[files[p].id] = files[p].file_hash
              /\ search.phase \in {"duplicates", "done"} =>
                    \E x \in search.hits : x.id = files[p].id

\* A step of the worker touches every row it writes or moves, and every hash it
\* stores.
LEMMA UntouchedStays ==
    ASSUME IndexInv, Worker
    PROVE  /\ \A p \in Path : files'[p] # NoRow /\ touched'[files'[p].id] <= ops =>
                 /\ files'[p] = files[p]
                 /\ touched'[files[p].id] = touched[files[p].id]
                 /\ files[p].id \in renamed' <=> files[p].id \in renamed
           /\ \A h \in Hashes : touched'[h] <= ops =>
                 /\ touched'[h] = touched[h]
                 /\ h \in DOMAIN blobs' <=> h \in DOMAIN blobs
                 /\ h \in DOMAIN blobs => blobs'[h] = blobs[h]
<1> DEFINE Goal ==
           /\ \A p \in Path : files'[p] # NoRow /\ touched'[files'[p].id] <= ops =>
                 /\ files'[p] = files[p]
                 /\ touched'[files[p].id] = touched[files[p].id]
                 /\ files[p].id \in renamed' <=> files[p].id \in renamed
           /\ \A h \in Hashes : touched'[h] <= ops =>
                 /\ touched'[h] = touched[h]
                 /\ h \in DOMAIN blobs' <=> h \in DOMAIN blobs
                 /\ h \in DOMAIN blobs => blobs'[h] = blobs[h]
<1>1. ops \in Nat /\ ops' = ops + 1 /\ ~(ops' <= ops) /\ Tick
  BY SearchAssumption DEF Worker, Tick, IndexInv, TypeOK
<1>2. /\ touched \in [Id \cup Hashes -> 0..ops]
      /\ \A p \in Path : files[p] # NoRow => files[p].id \in Id
  BY DEF IndexInv, Ids, TypeOK, Row
<1>3. ASSUME NEW f \in IndexFile, NEW sent \in IndexFile, NEW skip, NEW force,
             Upsert(f, sent, skip, force)
      PROVE  Goal
  <2>2. PICK id \in Id :
           /\ f.path \notin InnerDelete(f, skip)
           /\ files' = [p \in Path |->
                 IF p = f.path THEN [id |-> id, mtime |-> f.mtime,
                                     file_hash |-> f.file_hash, words |-> f.words]
                 ELSE IF p \in InnerDelete(f, skip) THEN NoRow ELSE files[p]]
           /\ touched' = [touched EXCEPT ![id] = ops']
    BY <1>1, <1>3, UpsertFacts
  <2>3. UNCHANGED <<blobs, renamed>>
    BY <1>3 DEF Upsert
  <2>4. touched'[id] = ops' /\ \A x \in Id \cup Hashes : x # id => touched'[x] = touched[x]
    BY <1>2, <2>2
  <2>5. \A p \in Path : files'[p] # NoRow /\ p # f.path => files'[p] = files[p]
    BY <2>2
  <2>6. f.path \in Path /\ files'[f.path].id = id
    BY <2>2 DEF IndexFile
  <2> QED
    BY <1>1, <1>2, <2>3, <2>4, <2>5, <2>6
<1>4. ASSUME NEW p \in Live, NEW run_cleanup \in BOOLEAN, Delete(p, run_cleanup) PROVE Goal
  BY <1>4 DEF Delete
<1>5. ASSUME NEW o \in Outer, NEW n \in Outer, Rename(<<o>>, <<n>>) PROVE Goal
  <2> DEFINE moved == Moved(<<o>>)
             ids == {files[q].id : q \in moved}
  <2>1. /\ files' = RenamedRows(<<o>>, <<n>>)
        /\ renamed' = renamed \cup {files[q].id : q \in moved \ {<<o>>}}
        /\ touched' = [i \in DOMAIN touched |-> IF i \in ids THEN ops' ELSE touched[i]]
        /\ UNCHANGED blobs
        /\ files[<<o>>] # NoRow /\ files[<<n>>] = NoRow
        /\ \A q \in moved : files[Target(<<o>>, <<n>>, q)] = NoRow
    BY <1>5 DEF Rename
  <2>2. /\ files'[<<n>>] = files[<<o>>]
        /\ \A p \in Path : files'[p] # NoRow =>
                 \/ p = <<n>>
                 \/ files'[p] = files[p]
                 \/ <<o, p[2]>> \in moved /\ files'[p] = files[<<o, p[2]>>]
    BY <2>1, RenamedRowsFacts DEF IndexInv
  <2>3. <<o>> \in moved
    BY <2>1 DEF Moved
  <2> HIDE DEF moved
  <2>4. \A p \in Path : files'[p] # NoRow => files'[p] = files[p] \/ files'[p].id \in ids
    BY <2>2, <2>3
  <2>5. \A x \in Id \cup Hashes : touched'[x] <= ops => touched'[x] = touched[x] /\ x \notin ids
    BY <1>1, <1>2, <2>1
  <2>6. \A x \in Id : touched'[x] <= ops => (x \in renamed' <=> x \in renamed)
    BY <2>1, <2>5
  <2>7. ids \subseteq Id
    BY <1>2 DEF moved, Moved, Children, Path
  <2> QED
    BY <1>2, <2>1, <2>4, <2>5, <2>6, <2>7
<1>6. ASSUME NEW f \in to_archive, ArchiveFile(f) PROVE Goal
  <2>1. UNCHANGED <<files, renamed>>
    BY <1>6 DEF ArchiveFile
  <2>2. CASE UNCHANGED <<blobs, touched>>
    BY <2>1, <2>2
  <2>3. CASE ~UNCHANGED <<blobs, touched>>
    <3>1. /\ f.file_hash \in Hashes
          /\ touched' = [touched EXCEPT ![f.file_hash] = ops']
          /\ blobs' = [h \in DOMAIN blobs \cup {f.file_hash} |->
                IF h = f.file_hash THEN [path |-> f.path, words |-> f.words] ELSE blobs[h]]
      BY <1>6, <2>3 DEF ArchiveFile, IndexInv, TypeOK, IndexFile
    <3>2. /\ touched'[f.file_hash] = ops'
          /\ \A x \in Id \cup Hashes : x # f.file_hash => touched'[x] = touched[x]
      BY <1>2, <3>1
    <3>3. \A h \in Hashes : h # f.file_hash =>
             (h \in DOMAIN blobs' <=> h \in DOMAIN blobs) /\ (h \in DOMAIN blobs => blobs'[h] = blobs[h])
      BY <3>1
    <3> QED
      BY <1>1, <1>2, <2>1, <3>2, <3>3
  <2> QED
    BY <2>2, <2>3
<1> HIDE DEF Goal
<1>7. ASSUME NEW f \in Incoming, NEW force \in BOOLEAN,
             process_file_phase1(f, force) \/ process_file_phase1_fallback(f, force)
      PROVE  Goal
  <2>1. f \in IndexFile /\ OnlyPath(f) \in IndexFile
    BY IncomingType, OnlyPathType
  <2>2. CASE process_file_phase1(f, force)
    BY <1>3, <2>1, <2>2 DEF process_file_phase1
  <2>3. CASE process_file_phase1_fallback(f, force)
    BY <1>3, <2>1, <2>3 DEF process_file_phase1_fallback
  <2> QED
    BY <1>7, <2>2, <2>3
<1>8. Goal
  BY <1>4, <1>5, <1>6, <1>7 DEF Worker
<1> QED
  BY <1>8 DEF Goal

\* What the index says of a live file, as the statements of a search use it.
LEMMA TermsIndexed ==
    ASSUME IndexInv, NEW p \in Path, files[p] # NoRow
    PROVE  LET id == files[p].id
           IN  /\ id \in LiveIds /\ id \in Id /\ PathOf(id) = p
               /\ id \notin renamed => HasTerm(id, LINE_PATH, p)
               /\ \A w \in files[p].words : HasTerm(id, LINE_CONTENT_START, w)
<1>1. p \in Live /\ files[p].id \in LiveIds /\ files[p].id \in Id
  BY DEF Live, LiveIds, IndexInv, TypeOK, Row
<1>2. \A q \in Live : files[q].id = files[p].id => q = p
  BY DEF IndexInv, Ids, Live
<1>3. PathOf(files[p].id) = p
  BY <1>1, <1>2 DEF PathOf
<1> QED
  BY <1>1, <1>3 DEF HasTerm, IndexInv, EntriesExact

\* ShouldMatch, mode by mode.
LEMMA MatchCases ==
    ASSUME NEW p \in Path, ShouldMatch(p)
    PROVE  LET id == files[p].id
               name == IF id \in renamed THEN {} ELSE {p}
           IN  /\ search.mode \in DocumentModes => search.query \subseteq name \cup files[p].words
               /\ search.mode \in FileModes => search.query \subseteq name
               /\ search.mode = "FileRegex" => ~is_composite(p)
               /\ search.mode \notin DocumentModes \cup FileModes =>
                     search.query \subseteq name \/ search.query \subseteq files[p].words
<1> DEFINE id == files[p].id
           name == IF id \in renamed THEN {} ELSE {p}
           Terms(pos) == IF pos = LINE_PATH THEN name ELSE files[p].words
<1>1. Terms(LINE_PATH) = name /\ Terms(LINE_CONTENT_START) = files[p].words
  BY DEF LINE_PATH, LINE_CONTENT_START
<1>2. ShouldMatch(p) =
        CASE search.mode \in DocumentModes -> search.query \subseteq UNION {Terms(pos) : pos \in Lines}
          [] search.mode \in FileModes ->
                /\ search.mode = "FileRegex" => ~is_composite(p)
                /\ search.query \subseteq Terms(LINE_PATH)
          [] OTHER -> \E pos \in Lines : search.query \subseteq Terms(pos)
  BY DEF ShouldMatch
<1>3. DocumentModes \cap FileModes = {} /\ "FileRegex" \in FileModes
  BY DEF DocumentModes, FileModes
<1> HIDE DEF Terms
<1>4. CASE search.mode \in DocumentModes
  <2>1. search.query \subseteq UNION {Terms(pos) : pos \in Lines}
    BY <1>2, <1>3, <1>4
  <2> QED
    BY <1>1, <1>3, <1>4, <2>1 DEF Lines
<1>5. CASE search.mode \in FileModes
  <2>1. /\ search.query \subseteq Terms(LINE_PATH)
        /\ search.mode = "FileRegex" => ~is_composite(p)
    BY <1>2, <1>3, <1>5
  <2> QED
    BY <1>1, <1>3, <1>5, <2>1
<1>6. CASE search.mode \notin DocumentModes \cup FileModes
  <2>1. \E pos \in Lines : search.query \subseteq Terms(pos)
    BY <1>2, <1>6
  <2> QED
    BY <1>1, <1>3, <1>6, <2>1 DEF Lines
<1> QED
  BY <1>4, <1>5, <1>6

\* What is wanted does not depend on how far the search is.
LEMMA SameWanted ==
    ASSUME UNCHANGED worker_vars, UNCHANGED <<search.mode, search.query, search.case_sensitive, search.began>>,
           NEW p \in Path
    PROVE  Wanted(p)' <=> Wanted(p)
BY DEF Wanted, Steady, ShouldMatch, InStore, worker_vars

\* A step of the worker leaves the search what it wants.
LEMMA SearchKept ==
    ASSUME IndexInv, SearchInv, Worker
    PROVE  SearchInv'
<1>1. search' = search /\ ops' = ops + 1 /\ ops \in Nat
  BY SearchAssumption DEF Worker, IndexInv, TypeOK
<1>2. CASE search = NoSearch
  BY <1>1, <1>2 DEF SearchInv
<1>3. CASE search # NoSearch
  <2>1. search.began \in Nat /\ search.began <= ops
    BY <1>3 DEF SearchInv
  <2>2. ASSUME NEW p \in Path, files'[p] # NoRow, Wanted(p)'
        PROVE  files'[p] = files[p] /\ Wanted(p) /\ (\A x : Readable(x, p) => Readable(x, p)')
    <3>1. touched'[files'[p].id] <= search.began
      BY <1>1, <2>2 DEF Wanted, Steady
    <3>2. touched'[files'[p].id] <= ops
      <4>1. files'[p].id \in Id
        BY <2>2, WorkerStep DEF IndexInv, TypeOK, Row
      <4>2. touched'[files'[p].id] \in Nat
        BY <1>1, <4>1, WorkerStep DEF IndexInv, Ids
      <4> QED
        BY <1>1, <2>1, <3>1, <4>2
    <3>3. /\ files'[p] = files[p]
          /\ touched'[files[p].id] = touched[files[p].id]
          /\ files[p].id \in renamed' <=> files[p].id \in renamed
      BY <2>2, <3>2, UntouchedStays
    <3>4. Steady(p)
      BY <3>1, <3>3 DEF Steady
    <3>5. ShouldMatch(p)
      <4>1. ShouldMatch(p)'
        BY <2>2 DEF Wanted
      <4>2. ShouldMatch(p)' <=> ShouldMatch(p)
        BY <1>1, <3>3 DEF ShouldMatch
      <4> QED
        BY <4>1, <4>2
    <3>6. InStore(p)' => InStore(p)
      <4> SUFFICES ASSUME InStore(p)' PROVE InStore(p)
        OBVIOUS
      <4> DEFINE h == files[p].file_hash
      <4>1. h \in DOMAIN blobs' /\ touched'[h] <= search.began
            /\ blobs'[h] = [path |-> p, words |-> files[p].words]
        BY <1>1, <3>3 DEF InStore
      <4>2. h \in Hashes
        BY <4>1, WorkerStep DEF IndexInv, TypeOK
      <4>3. touched'[h] \in Nat
        BY <1>1, <4>2, WorkerStep DEF IndexInv, Ids
      <4>4. touched'[h] <= ops
        BY <1>1, <2>1, <4>1, <4>3
      <4>5. touched'[h] = touched[h] /\ h \in DOMAIN blobs /\ blobs'[h] = blobs[h]
        BY <4>1, <4>2, <4>4, UntouchedStays
      <4> QED
        BY <4>1, <4>5 DEF InStore
    <3> QED
      BY <1>1, <2>2, <3>3, <3>4, <3>5, <3>6 DEF Wanted, Readable
  <2>3. \A p \in Path : files'[p] # NoRow /\ Wanted(p)' => files[p] # NoRow /\ Wanted(p)
    BY <2>2
  <2>4. ASSUME NEW p \in Path, files'[p] # NoRow, Wanted(p)'
        PROVE  /\ search'.phase \in {"qualify", "candidates"} => files'[p].id \in search'.ids
               /\ search'.phase \in {"hashes", "lines"} =>
                     \E x \in search'.hits : x.id = files'[p].id /\ Readable(x, p)'
               /\ search'.phase = "lines" =>
                     search'.hashes = [id \in DOMAIN search'.hashes |-> search'.hashes[id]]
                     /\ files'[p].id \in DOMAIN search'.hashes
                     /\ search'.hashes[files'[p].id] = files'[p].file_hash
               /\ search'.phase \in {"duplicates", "done"} =>
                     \E x \in search'.hits : x.id = files'[p].id
    <3>1. files'[p] = files[p] /\ Wanted(p) /\ files[p] # NoRow
          /\ (\A x : Readable(x, p) => Readable(x, p)')
      BY <2>2, <2>4
    <3> QED
      BY <1>1, <1>3, <3>1 DEF SearchInv
  <2>5. search.began <= ops'
    BY <1>1, <2>1
  <2> QED
    BY <1>1, <1>3, <2>4, <2>5 DEF SearchInv
<1> QED
  BY <1>2, <1>3

\* A search in progress is a record with all its fields.
SearchRecord(s) ==
    s = [phase |-> s.phase, mode |-> s.mode, query |-> s.query,
         case_sensitive |-> s.case_sensitive, began |-> s.began, ids |-> s.ids,
         todo |-> s.todo, hits |-> s.hits, hashes |-> s.hashes,
         duplicate_paths |-> s.duplicate_paths]

\* A query is never empty.
LEMMA QueryNotEmpty ==
    ASSUME NEW mode, NEW query \in Queries(mode)
    PROVE  query # {}
<1>1. CASE mode \in FileModes
  BY <1>1 DEF Queries
<1>2. CASE mode \notin FileModes /\ mode \in {"Exact", "DocExact"}
  BY <1>2 DEF Queries, FileModes
<1>3. CASE mode \notin FileModes /\ mode \notin {"Exact", "DocExact"}
  BY <1>3 DEF Queries, FileModes
<1> QED
  BY <1>1, <1>2, <1>3

\* Every statement of a search keeps a wanted file in it.
LEMMA SearchStep ==
    ASSUME IndexInv, SearchInv, Search
    PROVE  SearchInv'
<1>1. UNCHANGED worker_vars
  BY DEF Search, Start, Qualify, Candidates, ReadHashes, RegexFilter, FetchDuplicates
<1>2. ops \in Nat
  BY DEF IndexInv, TypeOK
<1>3. ASSUME NEW mode \in Modes, NEW case_sensitive \in Sensitive, NEW query \in Queries(mode),
             Start(mode, query, case_sensitive)
      PROVE  SearchInv'
  <2>1. search' = [phase |-> IF mode \in DocumentModes THEN "qualify" ELSE "candidates",
                   mode |-> mode, query |-> query,
                   case_sensitive |-> case_sensitive, began |-> ops,
                   ids |-> Id, todo |-> query, hits |-> {},
                   hashes |-> <<>>, duplicate_paths |-> <<>>]
    BY <1>3 DEF Start
  <2>2. query # {}
    BY QueryNotEmpty
  <2>3. \A p \in Path : files'[p] # NoRow => files'[p].id \in Id
    BY <1>1 DEF worker_vars, IndexInv, TypeOK, Row
  <2>4. search'.phase = (IF mode \in DocumentModes THEN "qualify" ELSE "candidates")
        /\ search'.mode = mode /\ search'.query = query /\ search'.began = ops
        /\ search'.ids = Id /\ search'.todo = query
    BY <2>1
  <2>5. search' = [phase |-> search'.phase, mode |-> search'.mode, query |-> search'.query,
                   case_sensitive |-> search'.case_sensitive, began |-> search'.began,
                   ids |-> search'.ids, todo |-> search'.todo, hits |-> search'.hits,
                   hashes |-> search'.hashes, duplicate_paths |-> search'.duplicate_paths]
    BY <2>1
  <2> QED
    BY <1>1, <1>2, <2>2, <2>3, <2>4, <2>5 DEF SearchInv, worker_vars
<1> DEFINE Middle ==
             /\ search # NoSearch
             /\ SearchRecord(search)
             /\ search.query # {} /\ search.began \in Nat /\ search.began <= ops
             /\ UNCHANGED <<search.mode, search.query, search.case_sensitive, search.began>>
             /\ SearchRecord(search')
<1>4. ASSUME Middle PROVE \A p \in Path : files'[p] # NoRow /\ Wanted(p)' => files[p] # NoRow /\ Wanted(p)
  BY <1>1, <1>4, SameWanted DEF worker_vars
<1>5. CASE Qualify
  <2>1. PICK t \in search.todo :
          search' = [search EXCEPT
              !.ids = @ \cap {id \in LiveIds : \E pos \in Lines : HasTerm(id, pos, t)},
              !.todo = search.todo \ {t},
              !.phase = IF search.todo \ {t} = {} THEN "candidates" ELSE "qualify"]
    BY <1>5 DEF Qualify
  <2>2. search.phase = "qualify" /\ search # NoSearch
    BY <1>5 DEF Qualify, NoSearch
  <2>3. SearchRecord(search) /\ search.mode \in DocumentModes /\ search.todo \subseteq search.query
    BY <2>2 DEF SearchInv, SearchRecord
  <2>4. /\ search'.ids = search.ids \cap {id \in LiveIds : \E pos \in Lines : HasTerm(id, pos, t)}
        /\ search'.todo = search.todo \ {t}
        /\ search'.phase = (IF search.todo \ {t} = {} THEN "candidates" ELSE "qualify")
    BY <2>1, <2>3 DEF SearchRecord
  <2>5. Middle
    BY <2>1, <2>2, <2>3 DEF SearchInv, SearchRecord
  <2>6. ASSUME NEW p \in Path, files'[p] # NoRow, Wanted(p)'
        PROVE  files'[p].id \in search'.ids
    <3>1. files[p] # NoRow /\ Wanted(p) /\ files'[p] = files[p]
      BY <1>1, <1>4, <2>5, <2>6 DEF worker_vars
    <3>2. files[p].id \in search.ids
      BY <2>2, <3>1 DEF SearchInv
    <3>3. t \in (IF files[p].id \in renamed THEN {} ELSE {p}) \cup files[p].words
      BY <2>3, <3>1, MatchCases DEF Wanted
    <3>4. files[p].id \in LiveIds /\ \E pos \in Lines : HasTerm(files[p].id, pos, t)
      BY <3>1, <3>3, TermsIndexed DEF Lines
    <3> QED
      BY <2>4, <3>1, <3>2, <3>4
  <2>7. search'.phase \in {"qualify", "candidates"}
    BY <2>4
  <2> QED
    BY <1>1, <2>2, <2>3, <2>4, <2>5, <2>6, <2>7 DEF SearchInv, SearchRecord, worker_vars
<1>6. CASE Candidates
  <2> DEFINE found == Matches(search.mode, search.query, search.ids)
             hits == IF search.case_sensitive
                     THEN CaseFilter(search.mode, search.query, found) ELSE found
  <2>1. search' = [search EXCEPT !.hits = hits,
            !.phase = IF search.mode \in RegexModes THEN "hashes" ELSE "duplicates"]
    BY <1>6 DEF Candidates
  <2>2. search.phase = "candidates" /\ search # NoSearch
    BY <1>6 DEF Candidates, NoSearch
  <2>3. SearchRecord(search)
    BY <2>2 DEF SearchInv, SearchRecord
  <2> HIDE DEF hits, found
  <2>4. search'.hits = hits
        /\ search'.phase = (IF search.mode \in RegexModes THEN "hashes" ELSE "duplicates")
    BY <2>1, <2>3 DEF SearchRecord
  <2>5. Middle
    BY <2>1, <2>2, <2>3 DEF SearchInv, SearchRecord
  <2>6. ASSUME NEW p \in Path, files'[p] # NoRow, Wanted(p)'
        PROVE  \E x \in search'.hits : x.id = files'[p].id /\ Readable(x, p)'
    <3> DEFINE id == files[p].id
               name == IF id \in renamed THEN {} ELSE {p}
    <3>1. files[p] # NoRow /\ Wanted(p) /\ files'[p] = files[p]
      BY <1>1, <1>4, <2>5, <2>6 DEF worker_vars
    <3>2. id \in search.ids /\ id \in LiveIds
      BY <2>2, <3>1, TermsIndexed DEF SearchInv
    <3>3. hits = found
      BY <3>1 DEF Wanted, hits
    <3>4. \A t \in name : HasTerm(id, LINE_PATH, t)
      BY <3>1, TermsIndexed
    <3>5. \A t \in files[p].words : HasTerm(id, LINE_CONTENT_START, t)
      BY <3>1, TermsIndexed
    <3>6. search.query # {}
      BY <2>2 DEF SearchInv
    <3> DEFINE Fits(pos) ==
            /\ search.mode \in FileModes => pos = LINE_PATH
            /\ IF search.mode \in DocumentModes
               THEN \E t \in search.query : HasTerm(id, pos, t)
               ELSE \A t \in search.query : HasTerm(id, pos, t)
    <3>7. \E pos \in Lines : Fits(pos) /\
             (search.mode = "Regex" => search.query \subseteq (IF pos = LINE_PATH THEN {p} ELSE files[p].words))
      <4> HIDE DEF id, name
      <4>1. CASE search.mode \in DocumentModes
        <5>1. search.query \subseteq name \cup files[p].words
          BY <3>1, <4>1, MatchCases DEF Wanted, name, id
        <5>2. PICK t \in search.query : t \in name \/ t \in files[p].words
          BY <3>6, <5>1
        <5>3. \E pos \in Lines : HasTerm(id, pos, t)
          BY <3>4, <3>5, <5>2 DEF Lines
        <5> QED
          BY <4>1, <5>3 DEF DocumentModes, FileModes
      <4>2. CASE search.mode \in FileModes
        <5>1. search.query \subseteq name
          BY <3>1, <4>2, MatchCases DEF Wanted, name, id
        <5> QED
          BY <3>4, <4>2, <5>1 DEF DocumentModes, FileModes, Lines
      <4>3. CASE search.mode \notin DocumentModes \cup FileModes
        <5>1. search.query \subseteq name \/ search.query \subseteq files[p].words
          BY <3>1, <4>3, MatchCases DEF Wanted, name, id
        <5>2. CASE search.query \subseteq name
          <6>1. Fits(LINE_PATH)
            BY <3>4, <4>3, <5>2
          <6> QED
            BY <5>2, <6>1 DEF Lines, name
        <5>3. CASE search.query \subseteq files[p].words
          <6>1. Fits(LINE_CONTENT_START)
            BY <3>5, <4>3, <5>3
          <6> QED
            BY <5>3, <6>1 DEF Lines, LINE_PATH, LINE_CONTENT_START
        <5> QED
          BY <5>1, <5>2, <5>3
      <4> QED
        BY <4>1, <4>2, <4>3
    <3>8. PICK pos \in Lines : Fits(pos) /\
             (search.mode = "Regex" => search.query \subseteq (IF pos = LINE_PATH THEN {p} ELSE files[p].words))
      BY <3>7
    <3>9. search.mode = "FileRegex" => search.query \subseteq {<<p[1]>>}
      <4>1. CASE search.mode = "FileRegex"
        <5>1. search.query \subseteq {p} /\ ~is_composite(p)
          BY <3>1, <4>1, MatchCases DEF Wanted, FileModes
        <5>2. p = <<p[1]>>
          BY <5>1, PathShape
        <5> QED
          BY <5>1, <5>2
      <4> QED
        BY <4>1
    <3>10. Hit(id, pos) \in found
      <4>1. <<id, pos>> \in (LiveIds \cap search.ids) \X Lines
        BY <3>2
      <4> DEFINE chosen == {y \in (LiveIds \cap search.ids) \X Lines :
            /\ search.mode \in FileModes => y[2] = LINE_PATH
            /\ IF search.mode \in DocumentModes
               THEN \E t \in search.query : HasTerm(y[1], y[2], t)
               ELSE \A t \in search.query : HasTerm(y[1], y[2], t)}
      <4>2. <<id, pos>> \in chosen
        BY <3>8, <4>1
      <4>3. found = {Hit(x[1], x[2]) : x \in chosen}
        BY DEF found, Matches
      <4> HIDE DEF chosen
      <4>4. Hit(<<id, pos>>[1], <<id, pos>>[2]) \in found
        BY <4>2, <4>3
      <4> QED
        BY <4>4
    <3>11. PICK x \in found : x.id = id /\ x.pos = pos /\ x.path = p
      BY <3>1, <3>10, TermsIndexed DEF Hit
    <3>12. Readable(x, p)'
      BY <1>1, <2>5, <3>1, <3>8, <3>11, <3>9 DEF Readable, worker_vars
    <3> QED
      BY <2>4, <3>1, <3>3, <3>11, <3>12
  <2> QED
    BY <1>1, <2>4, <2>5, <2>6 DEF SearchInv, SearchRecord, worker_vars
<1>7. CASE ReadHashes
  <2> DEFINE read == [id \in {x.id : x \in search.hits} |->
                 IF id \in LiveIds THEN files[PathOf(id)].file_hash ELSE NoHash]
  <2>1. search' = [search EXCEPT !.phase = "lines", !.hashes = read]
    BY <1>7 DEF ReadHashes
  <2>2. search.phase = "hashes" /\ search # NoSearch
    BY <1>7 DEF ReadHashes, NoSearch
  <2>3. SearchRecord(search)
    BY <2>2 DEF SearchInv, SearchRecord
  <2> HIDE DEF read
  <2>4. search'.hits = search.hits /\ search'.phase = "lines" /\ search'.hashes = read
    BY <2>1, <2>3 DEF SearchRecord
  <2>5. Middle
    BY <2>1, <2>2, <2>3 DEF SearchInv, SearchRecord
  <2>6. ASSUME NEW p \in Path, files'[p] # NoRow, Wanted(p)'
        PROVE  /\ \E x \in search'.hits : x.id = files'[p].id /\ Readable(x, p)'
               /\ search'.hashes = [id \in DOMAIN search'.hashes |-> search'.hashes[id]]
               /\ files'[p].id \in DOMAIN search'.hashes
               /\ search'.hashes[files'[p].id] = files'[p].file_hash
    <3>1. files[p] # NoRow /\ Wanted(p) /\ files'[p] = files[p]
      BY <1>1, <1>4, <2>5, <2>6 DEF worker_vars
    <3>2. PICK x \in search.hits : x.id = files[p].id /\ Readable(x, p)
      BY <2>2, <3>1 DEF SearchInv
    <3>3. Readable(x, p)'
      BY <1>1, <2>5, <3>2 DEF Readable, worker_vars
    <3>4. files[p].id \in DOMAIN read /\ read[files[p].id] = files[p].file_hash
      BY <3>1, <3>2, TermsIndexed DEF read
    <3>5. read = [id \in DOMAIN read |-> read[id]]
      BY DEF read
    <3> QED
      BY <2>4, <3>1, <3>2, <3>3, <3>4, <3>5
  <2>7. search.mode \in RegexModes
    BY <2>2 DEF SearchInv
  <2> QED
    BY <1>1, <2>4, <2>5, <2>6, <2>7 DEF SearchInv, SearchRecord, worker_vars
<1>8. CASE RegexFilter
  <2> DEFINE Text(x) ==
               CASE search.mode = "FileRegex" -> {<<x.path[1]>>}
                 [] search.mode = "DocRegex" ->
                        UNION {StoredTerms(search.hashes[x.id], pos) : pos \in Lines}
                 [] OTHER -> StoredTerms(search.hashes[x.id], x.pos)
  <2>1. search' = [search EXCEPT !.phase = "duplicates",
               !.hits = {x \in search.hits : search.query \subseteq Text(x)}]
    BY <1>8 DEF RegexFilter
  <2>2. search.phase = "lines" /\ search # NoSearch
    BY <1>8 DEF RegexFilter, NoSearch
  <2>3. SearchRecord(search)
    BY <2>2 DEF SearchInv, SearchRecord
  <2> HIDE DEF Text
  <2>4. search'.phase = "duplicates" /\ search'.hits = {x \in search.hits : search.query \subseteq Text(x)}
    BY <2>1, <2>3 DEF SearchRecord
  <2>5. Middle
    BY <2>1, <2>2, <2>3 DEF SearchInv, SearchRecord
  <2>6. ASSUME NEW p \in Path, files'[p] # NoRow, Wanted(p)'
        PROVE  \E x \in search'.hits : x.id = files'[p].id
    <3>1. files[p] # NoRow /\ Wanted(p) /\ files'[p] = files[p]
      BY <1>1, <1>4, <2>5, <2>6 DEF worker_vars
    <3>2. PICK x \in search.hits : x.id = files[p].id /\ Readable(x, p)
      BY <2>2, <3>1 DEF SearchInv
    <3>3. search.hashes[x.id] = files[p].file_hash
      BY <2>2, <3>1, <3>2 DEF SearchInv
    <3>4. search.query \subseteq Text(x)
      <4> DEFINE h == search.hashes[x.id]
      <4>1. search.mode \in RegexModes
        BY <2>2 DEF SearchInv
      <4>2. ASSUME search.mode \in RegexModes \ FileModes
            PROVE  StoredTerms(h, LINE_PATH) = {p} /\ StoredTerms(h, LINE_CONTENT_START) = files[p].words
            /\ StoredTerms(h, x.pos) = (IF x.pos = LINE_PATH THEN {p} ELSE files[p].words)
        BY <3>1, <3>3, <4>2 DEF Wanted, InStore, StoredTerms, LINE_PATH, LINE_CONTENT_START
      <4>3. CASE search.mode = "DocRegex"
        <5>1. search.query \subseteq {p} \cup files[p].words
          BY <3>1, <4>3, MatchCases DEF Wanted, DocumentModes
        <5>2. UNION {StoredTerms(h, pos) : pos \in Lines} = {p} \cup files[p].words
          BY <4>2, <4>3 DEF Lines, RegexModes, FileModes
        <5> QED
          BY <4>3, <5>1, <5>2 DEF Text
      <4>4. CASE search.mode = "Regex"
        BY <3>2, <4>2, <4>4 DEF Text, Readable, RegexModes, FileModes
      <4>5. CASE search.mode = "FileRegex"
        BY <3>2, <4>5 DEF Text, Readable
      <4> QED
        BY <4>1, <4>3, <4>4, <4>5 DEF RegexModes
    <3> QED
      BY <2>4, <3>1, <3>2, <3>4
  <2> QED
    BY <1>1, <2>4, <2>5, <2>6 DEF SearchInv, SearchRecord, worker_vars
<1>9. CASE FetchDuplicates
  <2>1. search' = [search EXCEPT !.phase = "done",
           !.duplicate_paths =
               [id \in {x.id : x \in search.hits} |-> DuplicatePaths(id)]]
    BY <1>9 DEF FetchDuplicates
  <2>2. search.phase = "duplicates" /\ search # NoSearch
    BY <1>9 DEF FetchDuplicates, NoSearch
  <2>3. SearchRecord(search)
    BY <2>2 DEF SearchInv, SearchRecord
  <2>4. search'.phase = "done" /\ search'.hits = search.hits
    BY <2>1, <2>3 DEF SearchRecord
  <2>5. Middle
    BY <2>1, <2>2, <2>3 DEF SearchInv, SearchRecord
  <2>6. ASSUME NEW p \in Path, files'[p] # NoRow, Wanted(p)'
        PROVE  \E x \in search'.hits : x.id = files'[p].id
    BY <1>1, <1>4, <2>2, <2>4, <2>5, <2>6 DEF SearchInv, worker_vars
  <2> QED
    BY <1>1, <2>4, <2>5, <2>6 DEF SearchInv, SearchRecord, worker_vars
<1> QED
  BY <1>3, <1>5, <1>6, <1>7, <1>8, <1>9 DEF Search

\* A file that matches and that nobody touched while the search ran is in its
\* result, whatever is committed between the statements of the search.
THEOREM UntouchedIsFound ==
    Spec => []Found
<1>1. Init => SearchInv
  BY DEF Init, SearchInv
<1>2. IndexInv /\ SearchInv /\ [Next]_vars => SearchInv'
  <2> SUFFICES ASSUME IndexInv, SearchInv, [Next]_vars PROVE SearchInv'
    OBVIOUS
  <2>1. CASE Next
    BY <2>1, SearchKept, SearchStep DEF Next
  <2>2. CASE UNCHANGED vars
    BY <2>2
    DEF vars, worker_vars, SearchInv, Wanted, Readable, Steady, ShouldMatch, InStore
  <2> QED
    BY <2>1, <2>2
<1>3. SearchInv => Found
  BY DEF SearchInv, Found, Wanted, Live, NoSearch
<1> QED
  BY <1>1, <1>2, <1>3, IndexInvariance, PTL DEF Spec

=============================================================================
