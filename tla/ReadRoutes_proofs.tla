------------------------- MODULE ReadRoutes_proofs -------------------------
(***************************************************************************)
(* Proofs about what the read routes rest on: the pool of read connections *)
(* (ReadPool), for any number of threads, any cap, any idle limit and any  *)
(* number of failed opens; reading through it (BlobReads), which is a      *)
(* behaviour of ReadPool and inherits its theorems, and in which a reader  *)
(* gets the lines of one stored text, provided that cutting and reading    *)
(* back is the identity on the texts that are stored; and share links      *)
(* (ShareLinks), for any files, links, requests and lifetimes; and the     *)
(* followers of the activity log (RecentActivity), for any requests, any   *)
(* limits and any number of followers, rollbacks and disconnections.  The  *)
(* proviso of BlobReads is evaluated by TLC (MCReadPool).                  *)
(***************************************************************************)
EXTENDS BlobReads, ShareLinks, RecentActivity, FiniteSetTheorems, WellFoundedInduction, TLAPS

-----------------------------------------------------------------------------
(* The pool.                                                                *)

\* A thread is in at most one place.
OnePlace ==
    /\ borrowed \cap waiting = {}
    /\ borrowed \cap woken = {}
    /\ waiting \cap woken = {}

\* What the counter counts: besides the open connections, every failed open.
OpenCounted == open_count = idle + Cardinality(borrowed) + failures

IInv ==
    /\ TypeOK
    /\ OnePlace
    /\ OpenCounted
    /\ open_count <= max_connections
    /\ NoLostWakeup

-----------------------------------------------------------------------------

\* Cardinalities of the parts of Threads, and what one thread more or less does.
LEMMA Parts ==
    ASSUME NEW S \in SUBSET Threads
    PROVE  /\ IsFiniteSet(S)
           /\ Cardinality(S) \in Nat
           /\ \A t \in S : Cardinality(S \ {t}) = Cardinality(S) - 1
           /\ \A t \in Threads \ S : Cardinality(S \cup {t}) = Cardinality(S) + 1
<1>1. IsFiniteSet(S)
  BY PoolAssumption, FS_Subset
<1> QED
  BY <1>1, FS_CardinalityType, FS_AddElement, FS_RemoveElement

\* Whoever locks the pool was woken or is in no list; woken loses at most it.
LEMMA LocksFact ==
    ASSUME IInv, NEW t \in Threads, Locks(t)
    PROVE  /\ t \notin borrowed \cup waiting
           /\ woken' = woken \ {t}
           /\ calls' \in [Threads -> Nat]
           /\ Cardinality(woken') \in Nat
           /\ Cardinality(woken') + 1 >= Cardinality(woken)
<1>1. t \notin borrowed \cup waiting /\ woken' = woken \ {t}
      /\ calls' \in [Threads -> Nat]
  BY DEF Locks, IInv, OnePlace, TypeOK
<1>2. woken \in SUBSET Threads
  BY DEF IInv, TypeOK
<1>3. Cardinality(woken') \in Nat /\ Cardinality(woken) \in Nat
  BY <1>1, <1>2, Parts
<1>4. CASE t \in woken
  BY <1>1, <1>2, <1>3, <1>4, Parts
<1>5. CASE t \notin woken
  BY <1>1, <1>3, <1>5
<1> QED
  BY <1>1, <1>3, <1>4, <1>5

\* Every step of acquire, release and the condition variable keeps the invariant.
LEMMA NextIInv ==
    IInv /\ [Next]_vars => IInv'
<1> SUFFICES ASSUME IInv, [Next]_vars PROVE IInv'
  OBVIOUS
<1> USE PoolAssumption
<1>0. /\ borrowed \in SUBSET Threads /\ waiting \in SUBSET Threads
      /\ woken \in SUBSET Threads
      /\ Cardinality(borrowed) \in Nat /\ Cardinality(waiting) \in Nat
      /\ Cardinality(woken) \in Nat
  BY Parts DEF IInv, TypeOK
<1>1. ASSUME NEW t \in Threads, AcquireIdle(t) PROVE IInv'
  <2>1. Cardinality(borrowed') = Cardinality(borrowed) + 1
    BY <1>0, <1>1, LocksFact, Parts DEF AcquireIdle
  <2>2. TypeOK' /\ OnePlace'
    BY <1>1, LocksFact DEF AcquireIdle, IInv, TypeOK, OnePlace
  <2>3. OpenCounted' /\ (open_count <= max_connections)'
    BY <1>0, <1>1, <2>1 DEF AcquireIdle, IInv, TypeOK, OpenCounted
  <2>4. NoLostWakeup'
    BY <1>0, <1>1, LocksFact DEF AcquireIdle, IInv, TypeOK, NoLostWakeup
  <2> QED
    BY <2>2, <2>3, <2>4 DEF IInv
<1>2. ASSUME NEW t \in Threads, AcquireNew(t) PROVE IInv'
  <2>1. Cardinality(borrowed') = Cardinality(borrowed) + 1
    BY <1>0, <1>2, LocksFact, Parts DEF AcquireNew
  <2>2. TypeOK' /\ OnePlace'
    BY <1>2, LocksFact DEF AcquireNew, IInv, TypeOK, OnePlace
  <2>3. OpenCounted' /\ (open_count <= max_connections)'
    BY <1>0, <1>2, <2>1 DEF AcquireNew, IInv, TypeOK, OpenCounted
  <2>4. NoLostWakeup'
    BY <1>0, <1>2, LocksFact DEF AcquireNew, IInv, TypeOK, NoLostWakeup
  <2> QED
    BY <2>2, <2>3, <2>4 DEF IInv
<1>3. ASSUME NEW t \in Threads, OpenFails(t) PROVE IInv'
  <2>1. TypeOK' /\ OnePlace'
    BY <1>3, LocksFact DEF OpenFails, IInv, TypeOK, OnePlace
  <2>2. OpenCounted' /\ (open_count <= max_connections)'
    BY <1>0, <1>3 DEF OpenFails, IInv, TypeOK, OpenCounted
  <2>3. NoLostWakeup'
    BY <1>0, <1>3, LocksFact DEF OpenFails, IInv, TypeOK, NoLostWakeup
  <2> QED
    BY <2>1, <2>2, <2>3 DEF IInv
<1>4. ASSUME NEW t \in Threads, Wait(t) PROVE IInv'
  <2>1. TypeOK' /\ OnePlace'
    BY <1>4, LocksFact DEF Wait, IInv, TypeOK, OnePlace
  <2>2. OpenCounted' /\ (open_count <= max_connections)'
    BY <1>4 DEF Wait, IInv, OpenCounted
  <2>3. NoLostWakeup'
    BY <1>0, <1>4, LocksFact DEF Wait, IInv, TypeOK, NoLostWakeup
  <2> QED
    BY <2>1, <2>2, <2>3 DEF IInv
<1>5. ASSUME NEW t \in Threads, Release(t) PROVE IInv'
  <2>1. Cardinality(borrowed') = Cardinality(borrowed) - 1
    BY <1>0, <1>5, Parts DEF Release
  <2>2. /\ idle' \in Nat /\ open_count' \in Nat
        /\ open_count' <= open_count
        /\ open_count' = idle' + Cardinality(borrowed') + failures
        /\ idle' + open_count <= idle + open_count' + 1
    <3>1. Cardinality(borrowed') \in Nat /\ Cardinality(borrowed) >= 1
      <4>1. borrowed' \in SUBSET Threads
        BY <1>0, <1>5 DEF Release
      <4> QED
        BY <1>0, <2>1, <4>1, Parts
    <3>2. idle \in Nat /\ open_count \in Nat /\ failures \in Nat
          /\ open_count = idle + Cardinality(borrowed) + failures
      BY DEF IInv, TypeOK, OpenCounted
    <3>3. CASE idle' = idle + 1 /\ open_count' = open_count
      BY <1>0, <2>1, <3>1, <3>2, <3>3
    <3>4. CASE idle' = idle /\ open_count' = open_count - 1
      BY <1>0, <2>1, <3>1, <3>2, <3>4
    <3> QED
      BY <1>5, <3>3, <3>4 DEF Release
  <2>3. \/ waiting = {} /\ waiting' = {} /\ woken' = woken
        \/ \E w \in waiting : waiting' = waiting \ {w} /\ woken' = woken \cup {w}
    BY <1>5 DEF Release, NotifyOne
  <2>4. \/ waiting' = {}
        \/ waiting # {} /\ Cardinality(woken') = Cardinality(woken) + 1
    <3>1. CASE waiting = {}
      BY <2>3, <3>1
    <3>2. CASE waiting # {}
      <4>1. PICK w \in waiting : waiting' = waiting \ {w} /\ woken' = woken \cup {w}
        BY <2>3, <3>2
      <4>2. w \in Threads \ woken
        BY <1>0, <4>1 DEF IInv, OnePlace
      <4> QED
        BY <1>0, <3>2, <4>1, <4>2, Parts
    <3> QED
      BY <3>1, <3>2
  <2>5. TypeOK'
    BY <1>5, <2>2, <2>3 DEF Release, IInv, TypeOK
  <2>6. OnePlace'
    BY <1>5, <2>3 DEF Release, IInv, OnePlace
  <2>7. OpenCounted' /\ (open_count <= max_connections)'
    BY <1>5, <2>2 DEF Release, IInv, TypeOK, OpenCounted
  <2>8. NoLostWakeup'
    BY <1>0, <2>2, <2>4 DEF IInv, TypeOK, NoLostWakeup
  <2> QED
    BY <2>5, <2>6, <2>7, <2>8 DEF IInv
<1>6. ASSUME NEW t \in Threads, SpuriousWakeup(t) PROVE IInv'
  <2>1. Cardinality(woken') = Cardinality(woken) + 1
    BY <1>0, <1>6, Parts DEF SpuriousWakeup, IInv, OnePlace
  <2>2. TypeOK' /\ OnePlace'
    BY <1>6 DEF SpuriousWakeup, IInv, TypeOK, OnePlace
  <2>3. OpenCounted' /\ (open_count <= max_connections)'
    BY <1>6 DEF SpuriousWakeup, IInv, OpenCounted
  <2>4. NoLostWakeup'
    BY <1>0, <1>6, <2>1 DEF SpuriousWakeup, IInv, TypeOK, NoLostWakeup
  <2> QED
    BY <2>2, <2>3, <2>4 DEF IInv
<1>7. CASE UNCHANGED vars
  BY <1>7 DEF vars, IInv, TypeOK, OnePlace, OpenCounted, NoLostWakeup
<1> QED
  BY <1>1, <1>2, <1>3, <1>4, <1>5, <1>6, <1>7 DEF Next, Acquire

\* The inductive invariant of the pool holds in every reachable state.
THEOREM Invariance ==
    Spec => []IInv
<1>1. Init => IInv
  BY PoolAssumption, FS_EmptySet
  DEF Init, IInv, TypeOK, OnePlace, OpenCounted, NoLostWakeup
<1> QED
  BY <1>1, NextIInv, PTL DEF Spec

-----------------------------------------------------------------------------

\* The pool's counters stay natural numbers and a thread waits, is woken or holds a
\* connection (sqlite_store/mod.rs 54-111).
THEOREM TypeCorrect ==
    Spec => []TypeOK
<1>1. IInv => TypeOK
  BY DEF IInv
<1> QED
  BY <1>1, Invariance, PTL

\* The cap is hard, failed opens or not.
THEOREM CapIsHard ==
    Spec => []CapRespected
<1>1. IInv => CapRespected
  <2> SUFFICES ASSUME IInv PROVE CapRespected
    OBVIOUS
  <2>1. Cardinality(borrowed) \in Nat
    BY Parts DEF IInv, TypeOK
  <2> QED
    BY <2>1, PoolAssumption DEF IInv, TypeOK, OpenCounted, CapRespected
<1> QED
  BY <1>1, Invariance, PTL

\* notify_one on every release is enough, with spurious wakeups and barging.
THEOREM WakeupsAreKept ==
    Spec => []NoLostWakeup
<1>1. IInv => NoLostWakeup
  BY DEF IInv
<1> QED
  BY <1>1, Invariance, PTL

\* The counter is off by exactly the number of failed opens: it is exact as
\* long as none fails, and never recovers from one.
THEOREM LeakIsFailures ==
    Spec => [](open_count = idle + Cardinality(borrowed) + failures)
<1>1. IInv => open_count = idle + Cardinality(borrowed) + failures
  BY DEF IInv, OpenCounted
<1> QED
  BY <1>1, Invariance, PTL

-----------------------------------------------------------------------------
(* Reading through the pool.                                                *)

\* Every step of the readers and writers is a step of the pool or leaves the
\* pool alone.
THEOREM ImplementsPool == ReadSpec => Spec
<1>1. ReadInit => Init
  BY DEF ReadInit
<1>2. [ReadNext]_allvars => [Next]_vars
  <2>1. ASSUME NEW t \in Threads, Enter(t) PROVE Next
    BY <2>1 DEF Enter, Next, Acquire
  <2>2. ASSUME NEW t \in Threads, Leave(t) PROVE Next
    BY <2>2 DEF Leave, Next
  <2>3. ASSUME NEW t \in Threads, SpuriousWakeup(t) PROVE Next
    BY <2>3 DEF Next
  <2>4. ASSUME NEW t \in Threads, BlobExists(t) \/ Query(t) PROVE UNCHANGED vars
    BY <2>4 DEF BlobExists, Query
  <2>5. ASSUME Put \/ CompactDeletes \/ \E b \in Blobs : Overwrite(b) PROVE UNCHANGED vars
    BY <2>5 DEF Put, CompactDeletes, Overwrite
  <2>6. ASSUME UNCHANGED allvars PROVE UNCHANGED vars
    BY <2>6 DEF allvars
  <2> QED
    BY <2>1, <2>2, <2>3, <2>4, <2>5, <2>6 DEF ReadNext
<1> QED
  BY <1>1, <1>2, PTL DEF ReadSpec, Spec

-----------------------------------------------------------------------------
(* A reader gets the lines of one stored text.                              *)

\* What is in the database is nothing or one stored text, whole; and so is
\* what a reader took from it.
Whole ==
    /\ writing \in Seq(Blobs)
    /\ versions \in Seq(Blobs)
    /\ \/ blobs = {}
       \/ \E i \in DOMAIN versions : blobs = Rows(versions[i], chunk_size)
    /\ answer = [t \in Threads |-> answer[t]]
    /\ \A t \in Threads : answer[t].found =>
        /\ answer[t].range \in Ranges
        /\ \/ answer[t].lines = {}
           \/ \E i \in DOMAIN versions : answer[t].lines =
                LinesOf(Rows(versions[i], chunk_size), answer[t].range[1], answer[t].range[2])

LEMMA NoRowsNoLines ==
    ASSUME NEW lo, NEW hi
    PROVE  LinesOf({}, lo, hi) = {}
BY DEF LinesOf

LEMMA InitWhole ==
    ASSUME ReadInit
    PROVE  Whole
<1>1. <<>> \in Seq(Blobs)
  OBVIOUS
<1>2. answer = [t \in Threads |-> answer[t]]
  BY DEF ReadInit
<1>3. \A t \in Threads : ~answer[t].found
  BY DEF ReadInit, None
<1> QED
  BY <1>1, <1>2, <1>3 DEF ReadInit, Whole

LEMMA NextWhole ==
    ASSUME Whole, [ReadNext]_allvars
    PROVE  Whole'
<1>1. ASSUME blobs' = {}, versions' = versions, answer' = answer, writing' \in Seq(Blobs)
      PROVE  Whole'
  BY <1>1 DEF Whole
<1>2. ASSUME UNCHANGED <<blobs, versions, answer, writing>> PROVE Whole'
  BY <1>2 DEF Whole
<1>3. CASE Put
  <2>1. writing[1] \in Blobs
    BY <1>3 DEF Put, Whole
  <2>2. CASE blobs = {}
    <3>1. versions' = Append(versions, writing[1]) /\ answer' = answer /\ writing' = <<>>
          /\ blobs' = Rows(writing[1], chunk_size)
      BY <1>3, <2>2 DEF Put
    <3>2. versions' \in Seq(Blobs)
      BY <2>1, <3>1 DEF Whole
    <3>3. /\ DOMAIN versions \subseteq DOMAIN versions'
          /\ \A i \in DOMAIN versions : versions'[i] = versions[i]
          /\ Len(versions) + 1 \in DOMAIN versions'
          /\ versions'[Len(versions) + 1] = writing[1]
      BY <2>1, <3>1 DEF Whole
    <3>4. writing' \in Seq(Blobs)
      BY <3>1
    <3>5. \E i \in DOMAIN versions' : blobs' = Rows(versions'[i], chunk_size)
      BY <3>1, <3>3
    <3>6. ASSUME NEW t \in Threads, answer'[t].found
          PROVE  /\ answer'[t].range \in Ranges
                 /\ \/ answer'[t].lines = {}
                    \/ \E i \in DOMAIN versions' : answer'[t].lines =
                          LinesOf(Rows(versions'[i], chunk_size),
                                  answer'[t].range[1], answer'[t].range[2])
      BY <3>1, <3>3, <3>6 DEF Whole
    <3>7. answer' = [t \in Threads |-> answer'[t]]
      BY <3>1 DEF Whole
    <3> QED
      BY <3>2, <3>4, <3>5, <3>6, <3>7 DEF Whole
  <2>3. CASE blobs # {}
    BY <1>3, <2>3 DEF Put, Whole
  <2> QED
    BY <2>2, <2>3
<1>4. CASE CompactDeletes
  BY <1>1, <1>4 DEF CompactDeletes, Whole
<1>5. ASSUME NEW b \in Blobs, Overwrite(b) PROVE Whole'
  <2>1. <<b>> \in Seq(Blobs)
    OBVIOUS
  <2> QED
    BY <1>1, <1>5, <2>1 DEF Overwrite
<1>6. ASSUME NEW t \in Threads, Query(t) PROVE Whole'
  <2>1. PICK r \in Ranges : answer' = [answer EXCEPT ![t] =
            [range |-> r, found |-> TRUE, lines |-> LinesOf(blobs, r[1], r[2])]]
    BY <1>6 DEF Query
  <2>2. UNCHANGED <<blobs, versions, writing>>
    BY <1>6 DEF Query
  <2>3. answer' = [u \in Threads |-> answer'[u]]
    BY <2>1 DEF Whole
  <2>4. ASSUME NEW u \in Threads, answer'[u].found
        PROVE  /\ answer'[u].range \in Ranges
               /\ \/ answer'[u].lines = {}
                  \/ \E i \in DOMAIN versions : answer'[u].lines =
                        LinesOf(Rows(versions[i], chunk_size),
                                answer'[u].range[1], answer'[u].range[2])
    <3>1. CASE u = t
      <4>1. answer'[u] = [range |-> r, found |-> TRUE, lines |-> LinesOf(blobs, r[1], r[2])]
        BY <2>1, <3>1 DEF Whole
      <4>2. blobs = {} \/ \E i \in DOMAIN versions : blobs = Rows(versions[i], chunk_size)
        BY DEF Whole
      <4> QED
        BY <4>1, <4>2, NoRowsNoLines
    <3>2. CASE u # t
      <4>1. answer'[u] = answer[u]
        BY <2>1, <3>2 DEF Whole
      <4> QED
        BY <2>4, <4>1 DEF Whole
    <3> QED
      BY <3>1, <3>2
  <2> QED
    BY <2>2, <2>3, <2>4 DEF Whole
<1>7. ASSUME NEW t \in Threads, Leave(t) PROVE Whole'
  <2>1. answer' = [answer EXCEPT ![t] = None] /\ UNCHANGED <<blobs, versions, writing>>
    BY <1>7 DEF Leave
  <2>2. ~None.found
    BY DEF None
  <2>3. answer' = [u \in Threads |-> answer'[u]]
    BY <2>1 DEF Whole
  <2>4. \A u \in Threads : answer'[u].found => answer'[u] = answer[u]
    BY <2>1, <2>2 DEF Whole
  <2> QED
    <3>1. \A u \in Threads : answer'[u].found =>
            /\ answer'[u].range \in Ranges
            /\ \/ answer'[u].lines = {}
               \/ \E i \in DOMAIN versions : answer'[u].lines =
                    LinesOf(Rows(versions[i], chunk_size), answer'[u].range[1], answer'[u].range[2])
      BY <2>4, Zenon DEF Whole
    <3>2. blobs' = blobs /\ versions' = versions /\ writing' = writing
      BY <2>1
    <3> QED
      BY <2>3, <3>1, <3>2, Zenon DEF Whole
<1>8. ASSUME NEW t \in Threads, Enter(t) \/ BlobExists(t) \/ (SpuriousWakeup(t) /\ UNCHANGED rvars)
      PROVE  Whole'
  BY <1>2, <1>8 DEF Enter, BlobExists, rvars
<1>9. CASE UNCHANGED allvars
  BY <1>2, <1>9 DEF allvars, rvars
<1> QED
  BY <1>3, <1>4, <1>5, <1>6, <1>7, <1>8, <1>9 DEF ReadNext

\* get_lines never mixes two texts, and never gives a line at a position that
\* is not its own, beside any number of overwrites and compactions; provided
\* that chunk_blob and the read undo each other on the texts.
THEOREM ReadersGetOneText ==
    ASSUME ChunkingIsIdentity(Blobs, Ranges, chunk_size)
    PROVE  ReadSpec => []LinesInPlace
<1>1. ReadInit => Whole
  BY InitWhole
<1>2. Whole /\ [ReadNext]_allvars => Whole'
  BY NextWhole
<1>3. Whole => LinesInPlace
  <2> SUFFICES ASSUME Whole, NEW t \in Threads, answer[t].found, answer[t].lines # {}
               PROVE  \E i \in DOMAIN versions :
                          InPlace(versions[i], answer[t].range, answer[t].lines)
    BY DEF LinesInPlace
  <2>1. PICK i \in DOMAIN versions : answer[t].lines =
            LinesOf(Rows(versions[i], chunk_size), answer[t].range[1], answer[t].range[2])
    BY DEF Whole
  <2>2. versions[i] \in Blobs /\ answer[t].range \in Ranges
    BY DEF Whole
  <2> QED
    BY <2>1, <2>2 DEF ChunkingIsIdentity
<1> QED
  BY <1>1, <1>2, <1>3, PTL DEF ReadSpec

\* The cap is hard for the readers of the store.
THEOREM ReadersRespectCap == ReadSpec => []CapRespected
BY ImplementsPool, CapIsHard, PTL

-----------------------------------------------------------------------------
(* Share links.  What the property needs of a step is that a link whose    *)
(* maker was told of it is still the only row with its code (HandedInv):   *)
(* links.db is written in two steps, a sweep runs beside it, and rows only *)
(* ever leave it expired.                                                  *)

\* A row of the table, and a request that is about to insert one.
Link == [code : Codes, target : Targets, left : -1..Never]
LinkRequest == [target : Targets, left : -1..Never, code : SUBSET Codes]

\* The rows, the requests, and the bounds LinkTypeOK names.
Shapes ==
    /\ links \subseteq Link /\ handed \subseteq Link
    /\ posting \in [Posters -> LinkRequest \cup {Nobody}]
    /\ made \in 0..MaxHanded /\ disk \in Disks

\* The primary key.
UniqueCodes == \A k, l \in links : k.code = l.code => k = l

\* A link is in the table as long as its maker may count on it.
HandedInv == handed \subseteq links /\ \A h \in handed : ~LinkExpired(h)

LinkInv == Shapes /\ UniqueCodes /\ HandedInv

-----------------------------------------------------------------------------
(* Lemmas about the operators.                                              *)

\* A request starts with a lifetime in range.
LEMMA TicksInRange == \A ttl \in LinkTtls : TicksLeft(ttl) \in -1..Never
BY LinkAssumption DEF TicksLeft

\* A tick changes nothing of a link or of a request but the ticks it has left.
LEMMA LaterLink ==
  ASSUME NEW l \in Link
  PROVE  /\ LinkLater(l) \in Link
         /\ LinkLater(l).code = l.code
         /\ LinkLater(l).target = l.target
BY LinkAssumption DEF Link, LinkLater

LEMMA LaterRequest == \A q \in LinkRequest : LinkLater(q) \in LinkRequest
BY LinkAssumption DEF LinkRequest, LinkLater

\* The row a request inserts.
LEMMA MintedLinks ==
  ASSUME Shapes, NEW p \in Posters, posting[p] # Nobody
  PROVE  /\ Minted(p) \subseteq Link
         /\ \A k, l \in Minted(p) : k.code = l.code => k = l
         /\ \A l \in Minted(p) : l.code \in posting[p].code
<1>1. posting[p] \in LinkRequest
  BY DEF Shapes
<1> QED
  BY <1>1 DEF Minted, Link, LinkRequest

-----------------------------------------------------------------------------
(* The invariant.                                                           *)

\* The table starts empty.
LEMMA InitLinkInv == LinkInit => LinkInv
BY LinkAssumption DEF LinkInit, LinkInv, Shapes, UniqueCodes, HandedInv

\* Every request to make or resolve a link, the sweep, the clock and the owner of
\* the files keep the invariant.
LEMMA NextLinkInv == LinkInv /\ [LinkNext]_linkVars => LinkInv'
<1> SUFFICES ASSUME LinkInv, [LinkNext]_linkVars PROVE LinkInv'
  OBVIOUS
<1> USE DEF LinkInv
<1>1. ASSUME NEW p \in Posters, NEW t \in Targets, NEW ttl \in LinkTtls, PostLink(p, t, ttl)
      PROVE  LinkInv'
  <2>1. [target |-> t, left |-> TicksLeft(ttl), code |-> {}] \in LinkRequest
    BY TicksInRange DEF LinkRequest
  <2>2. made' \in 0..MaxHanded
    BY <1>1, LinkAssumption DEF PostLink, Shapes
  <2>3. Shapes'
    BY <1>1, <2>1, <2>2 DEF PostLink, Shapes
  <2> QED
    BY <1>1, <2>3 DEF PostLink, UniqueCodes, HandedInv
<1>2. ASSUME NEW p \in Posters, NEW c \in Codes, ChooseCode(p, c)
      PROVE  LinkInv'
  <2>1. posting[p] \in LinkRequest
    BY <1>2 DEF ChooseCode, Shapes
  <2>2. [posting[p] EXCEPT !.code = {c}] \in LinkRequest
    BY <2>1 DEF LinkRequest
  <2>3. Shapes'
    BY <1>2, <2>2 DEF ChooseCode, Shapes
  <2> QED
    BY <1>2, <2>3 DEF ChooseCode, UniqueCodes, HandedInv
<1>3. ASSUME NEW p \in Posters, InsertLink(p)
      PROVE  LinkInv'
  <2>1. Shapes'
    BY <1>3, MintedLinks DEF InsertLink, Shapes, LiveLinks
  <2>2. CASE \E c \in posting[p].code : Taken(c)
    BY <1>3, <2>1, <2>2 DEF InsertLink, UniqueCodes, HandedInv
  <2>3. CASE ~ \E c \in posting[p].code : Taken(c)
    <3>1. \A k \in links, l \in Minted(p) : k.code # l.code
      BY <1>3, <2>3, MintedLinks DEF InsertLink, Taken
    <3>2. links' = links \cup Minted(p) /\ handed' = handed \cup LiveLinks(Minted(p))
      BY <1>3, <2>3 DEF InsertLink
    <3>3. UniqueCodes'
      BY <1>3, <3>1, <3>2, MintedLinks DEF InsertLink, UniqueCodes
    <3>4. HandedInv'
      BY <3>2 DEF HandedInv, LiveLinks
    <3> QED
      BY <2>1, <3>3, <3>4
  <2> QED
    BY <2>2, <2>3
<1>4. ASSUME NEW peer \in Peers, GetLink(peer)
      PROVE  LinkInv'
  BY <1>4 DEF GetLink, Shapes, UniqueCodes, HandedInv
<1>5. CASE SweepExpired
  BY <1>5 DEF SweepExpired, LiveLinks, Shapes, UniqueCodes, HandedInv
<1>6. CASE LinkTick
  <2>1. \A l \in links \cup handed : l \in Link
    BY DEF Shapes
  <2>2. \A p \in Posters : posting'[p] \in LinkRequest \cup {Nobody}
    BY <1>6, LaterRequest DEF LinkTick, Shapes
  <2>3. Shapes'
    BY <1>6, <2>1, <2>2, LaterLink DEF LinkTick, LiveLinks, Shapes
  <2>4. UniqueCodes'
    BY <1>6, <2>1, LaterLink DEF LinkTick, UniqueCodes
  <2>5. HandedInv'
    BY <1>6 DEF LinkTick, LiveLinks, HandedInv
  <2> QED
    BY <2>3, <2>4, <2>5
<1>7. ASSUME NEW o \in DOMAIN disk, NEW c \in OnDisk, FileChanges(o, c)
      PROVE  LinkInv'
  <2>1. disk' \in Disks
    BY <1>7 DEF FileChanges, Shapes, Disks
  <2> QED
    BY <1>7, <2>1 DEF FileChanges, Shapes, UniqueCodes, HandedInv
<1>8. CASE UNCHANGED linkVars
  BY <1>8 DEF linkVars, Shapes, UniqueCodes, HandedInv
<1> QED
  BY <1>1, <1>2, <1>3, <1>4, <1>5, <1>6, <1>7, <1>8 DEF LinkNext

LEMMA LinkInvHolds == LinkSpec => []LinkInv
BY InitLinkInv, NextLinkInv, PTL DEF LinkSpec

-----------------------------------------------------------------------------
(* The results.                                                             *)

\* Rows and requests have their types whatever is made, swept and expires.
THEOREM LinkTypeCorrect == LinkSpec => []LinkTypeOK
<1>1. LinkInv => LinkTypeOK
  BY DEF LinkInv, Shapes, Link, LinkTypeOK
<1> QED
  BY <1>1, LinkInvHolds, PTL

\* Reading needs the lowest of the scopes.
LEMMA EveryScopeReads == \A s \in Scopes : Allows(s, "read")
BY DEF Scopes, Allows, Rank

\* Every token that resolves may read, by the header.
LEMMA MakersMayRead ==
  \A maker \in [bearer : DOMAIN TokenScopes, cookie : {""}] : CheckScope(maker, "read") = 0
<1> SUFFICES ASSUME NEW maker \in [bearer : DOMAIN TokenScopes, cookie : {""}]
             PROVE  CheckScope(maker, "read") = 0
  OBVIOUS
<1>1. ResolveToken(maker.bearer) \in Scopes
  BY CredentialsAssumption DEF ResolveToken, Scopes
<1>2. "" \notin Scopes
  BY DEF Scopes
<1> QED
  BY <1>1, <1>2, EveryScopeReads DEF CheckScope

\* A row that is the only one with its code, and has not expired, opens exactly
\* the path it was made for.
LEMMA OneRowOpensItsPath ==
  ASSUME LinkInv, NEW h \in handed, h.target.archive # <<>>
  PROVE  /\ ResolveLink(h.code) = "found"
         /\ \A p : CheckLinkCode(h.code, p) = IF p = CompositePath(h.target) THEN 0 ELSE 403
<1>1. h \in links /\ ~LinkExpired(h)
  BY DEF LinkInv, HandedInv
<1>2. \A l \in links : l.code = h.code => l = h
  BY <1>1 DEF LinkInv, UniqueCodes
<1>3. ResolveLink(h.code) = "found"
  BY <1>1 DEF ResolveLink, Taken
<1>4. LinkPath(h.target) = CompositePath(h.target)
  BY DEF LinkPath, CompositePath
<1> QED
  BY <1>1, <1>2, <1>3, <1>4 DEF CheckLinkCode

\* The holder of a link gets what its maker gets, and no other file, until it
\* expires, for any number of links, requests, peers and changes of the files.
THEOREM LinksAreFaithful == LinkSpec => []LinkGivesWhatMakerSees
<1>1. LinkInv => LinkGivesWhatMakerSees
  <2> SUFFICES ASSUME LinkInv, NEW h \in handed, h.target.archive # <<>>
               PROVE  /\ ResolveLink(h.code) = "found"
                      /\ \A maker \in [bearer : DOMAIN TokenScopes, cookie : {""}],
                            convert \in BOOLEAN :
                           GetRaw(Holder, {h.code}, CompositePath(h.target), convert, Malformed)
                             = GetRaw(maker, NoLink, CompositePath(h.target), convert, Malformed)
                      /\ GetFileStatus(Holder, {h.code}, h.target) = 200
                      /\ \A t \in Targets :
                           CheckLinkCode(h.code, CompositePath(t)) = 0
                             => CompositePath(t) = CompositePath(h.target)
    BY DEF LinkGivesWhatMakerSees
  <2>1. Authorised(Holder, {h.code}, CompositePath(h.target)) = 0
    BY OneRowOpensItsPath, SMTT(20) DEF Authorised, NoLink
  <2>2. \A maker \in [bearer : DOMAIN TokenScopes, cookie : {""}] :
           Authorised(maker, NoLink, CompositePath(h.target)) = 0
    BY MakersMayRead DEF Authorised, NoLink
  <2>3. \A t \in Targets :
           CheckLinkCode(h.code, CompositePath(t)) = 0
             => CompositePath(t) = CompositePath(h.target)
    BY OneRowOpensItsPath
  <2> QED
    BY <2>1, <2>2, <2>3, OneRowOpensItsPath DEF GetRaw, GetFileStatus
<1> QED
  BY <1>1, LinkInvHolds, PTL

-----------------------------------------------------------------------------
(* Numbers and sequences, for the activity log.                             *)

\* The library's well-founded order of the natural numbers, without operators.
LEMMA LeastNat ==
    ASSUME NEW T, T \subseteq Nat, T # {}
    PROVE  \E n \in T : \A m \in T : ~(m < n)
<1> DEFINE R == OpToRel(<, Nat)
<1>1. IsWellFoundedOn(R, Nat)
  BY NatLessThanWellFounded
<1> HIDE DEF R
<1>2. \E n \in T : \A m \in T : ~(<<m, n>> \in R)
  BY <1>1, WFMin, Zenon
<1> QED
  BY <1>2 DEF R, OpToRel

\* Induction, on a set in place of a predicate.
LEMMA SetInduction ==
    ASSUME NEW S, 0 \in S, \A n \in Nat : n \in S => n + 1 \in S
    PROVE  Nat \subseteq S
<1> SUFFICES ASSUME Nat \ S # {} PROVE FALSE
  OBVIOUS
<1>1. PICK n \in Nat \ S : \A m \in Nat \ S : ~(m < n)
  BY LeastNat
<1>2. n # 0 /\ n - 1 \in Nat
  OBVIOUS
<1> QED
  BY <1>1, <1>2


-----------------------------------------------------------------------------
(* Functions defined by recursion on a number.                              *)

RecursionOf(n, V, b, A, g) ==
    g \in [0..n -> V] /\ g[0] = b /\ \A i \in 1..n : g[i] = A[<<g[i - 1], i>>]

\* b, and what A makes of the value before and the position.
LEMMA RecursionExists ==
    ASSUME NEW n \in Nat, NEW V, NEW b \in V, NEW A \in [V \X (1..n) -> V]
    PROVE  \E g : RecursionOf(n, V, b, A, g)
<1> DEFINE Upto(k) == \E g \in [0..k -> V] : g[0] = b /\ \A i \in 1..k : g[i] = A[<<g[i - 1], i>>]
           I == {k \in Nat : k <= n => Upto(k)}
<1>1. 0 \in I
  <2>1. [i \in 0..0 |-> b] \in [0..0 -> V] /\ [i \in 0..0 |-> b][0] = b
    OBVIOUS
  <2>2. \A i \in 1..0 : FALSE
    OBVIOUS
  <2>3. Upto(0)
    BY <2>1, <2>2, Zenon
  <2> QED
    BY <2>3
<1>2. ASSUME NEW k \in Nat, k \in I PROVE k + 1 \in I
  <2> SUFFICES ASSUME k + 1 <= n PROVE Upto(k + 1)
    OBVIOUS
  <2>1. PICK g \in [0..k -> V] : g[0] = b /\ \A i \in 1..k : g[i] = A[<<g[i - 1], i>>]
    BY <1>2
  <2>2. k \in 0..k /\ k + 1 \in 1..n /\ g[k] \in V
    BY <2>1
  <2>3. A[<<g[k], k + 1>>] \in V
    BY <2>2
  <2> DEFINE h == [i \in 0..(k + 1) |-> IF i = k + 1 THEN A[<<g[k], k + 1>>] ELSE g[i]]
  <2>4. h \in [0..(k + 1) -> V]
    BY <2>1, <2>3
  <2>5. h[0] = b
    BY <2>1
  <2>6. ASSUME NEW i \in 1..(k + 1) PROVE h[i] = A[<<h[i - 1], i>>]
    <3>1. i - 1 \in 0..k /\ i - 1 # k + 1 /\ h[i - 1] = g[i - 1]
      OBVIOUS
    <3>2. CASE i = k + 1
      <4>1. h[i] = A[<<g[k], k + 1>>] /\ i - 1 = k
        BY <3>2
      <4> HIDE DEF h
      <4> QED
        BY <3>1, <3>2, <4>1
    <3>3. CASE i # k + 1
      <4>1. i \in 1..k /\ h[i] = g[i]
        BY <3>3
      <4>2. g[i] = A[<<g[i - 1], i>>]
        BY <2>1, <4>1
      <4> HIDE DEF h
      <4> QED
        BY <3>1, <4>1, <4>2
    <3> QED
      BY <3>2, <3>3
  <2> HIDE DEF h
  <2> QED
    BY <2>4, <2>5, <2>6
<1>3. n \in I
  <2> HIDE DEF I
  <2> QED
    BY <1>1, <1>2, SetInduction
<1> QED
  BY <1>3 DEF RecursionOf

-----------------------------------------------------------------------------
(* Sequences by their elements.                                             *)

Elems(s) == {s[i] : i \in DOMAIN s}

LEMMA ElemsConcat ==
    ASSUME NEW S, NEW s \in Seq(S), NEW t \in Seq(S)
    PROVE  s \o t \in Seq(S) /\ Elems(s \o t) = Elems(s) \cup Elems(t)
<1>1. /\ DOMAIN (s \o t) = 1..(Len(s) + Len(t))
      /\ DOMAIN s = 1..Len(s) /\ DOMAIN t = 1..Len(t) /\ Len(s) \in Nat /\ Len(t) \in Nat
      /\ s \o t \in Seq(S)
      /\ \A i \in 1..Len(s) : (s \o t)[i] = s[i]
      /\ \A i \in 1..(Len(s) + Len(t)) : ~(i <= Len(s)) => (s \o t)[i] = t[i - Len(s)]
  OBVIOUS
<1>2. \A j \in 1..Len(t) : (s \o t)[Len(s) + j] = t[j]
  OBVIOUS
<1>3. \A x \in Elems(s \o t) : x \in Elems(s) \cup Elems(t)
  BY <1>1 DEF Elems
<1>4. \A x \in Elems(s) : x \in Elems(s \o t)
  BY <1>1 DEF Elems
<1>5. \A x \in Elems(t) : x \in Elems(s \o t)
  <2>1. \A j \in 1..Len(t) : Len(s) + j \in DOMAIN (s \o t)
    BY <1>1
  <2> QED
    BY <1>1, <1>2, <2>1, SMTT(20) DEF Elems
<1> QED
  BY <1>1, <1>3, <1>4, <1>5

\* g[i] is the concatenation of the first i of the sequences q.
ConcatsOf(n, V, q, g) ==
    /\ g \in [0..n -> V]
    /\ g[0] = <<>>
    /\ \A i \in 1..n : g[i] = g[i - 1] \o q[i]
    /\ FlattenSeq(q) = g[n]

\* What FlattenSeq computes, part by part; V holds the sequences.
LEMMA FlattenSteps ==
    ASSUME NEW V, <<>> \in V,
           \A s, t \in V : s \o t \in V, \A t \in V : <<>> \o t = t,
           NEW n \in Nat, NEW q, Len(q) = n, \A i \in 1..n : q[i] \in V, n = 0 => q = <<>>
    PROVE  \E g : ConcatsOf(n, V, q, g)
<1> DEFINE A == [x \in V \X (1..n) |-> x[1] \o q[x[2]]]
<1>3. A \in [V \X (1..n) -> V]
  OBVIOUS
<1>4. PICK g \in [0..n -> V] : g[0] = <<>> /\ \A i \in 1..n : g[i] = A[<<g[i - 1], i>>]
  <2> HIDE DEF A
  <2>1. PICK b : b = <<>>
    OBVIOUS
  <2>2. b \in V
    BY <2>1
  <2>3. PICK g : RecursionOf(n, V, b, A, g)
    BY <1>3, <2>2, RecursionExists
  <2> QED
    BY <2>1, <2>3 DEF RecursionOf
<1>5. \A i \in 1..n : i - 1 \in 0..n /\ i \in 0..n
  OBVIOUS
<1>6. \A i \in 1..n : g[i - 1] \in V /\ g[i] \in V
  BY <1>5
<1>7. \A i \in 1..n : g[i] = g[i - 1] \o q[i]
  BY <1>4, <1>6
<1> HIDE DEF A
<1>8. CASE n = 0
  <2>1. FlattenSeq(q) = q
    BY <1>8 DEF FlattenSeq
  <2> QED
    BY <1>4, <1>7, <1>8, <2>1 DEF ConcatsOf
<1>9. CASE n # 0
  <2> DEFINE Flat(h) == h = [i \in 1..n |-> IF i = 1 THEN q[1] ELSE h[i - 1] \o q[i]]
             F == [i \in 1..n |-> g[i]]
             f == CHOOSE h : Flat(h)
  <2>1. FlattenSeq(q) = f[n]
    <3>1. n # 0 /\ Len(q) = n
      BY <1>9
    <3> QED
      BY <3>1 DEF FlattenSeq
  <2>n. 1 \in 1..n /\ n \in 1..n /\ g[1] = q[1]
    <3>1. 1 \in 1..n /\ n \in 1..n /\ 1 - 1 = 0
      BY <1>9
    <3>2. g[1] = g[0] \o q[1] /\ q[1] \in V
      <4>1. \A i \in 1..n : i = 1 => g[1] = g[i - 1] \o q[1] /\ i - 1 = 0
        BY <1>7
      <4> QED
        BY <3>1, <4>1
    <3> QED
      BY <1>4, <3>1, <3>2
  <2>2. Flat(F)
    <3>1. ASSUME NEW i \in 1..n PROVE F[i] = IF i = 1 THEN q[1] ELSE F[i - 1] \o q[i]
      <4>1. CASE i = 1
        BY <2>n, <4>1
      <4>2. CASE i # 1
        <5>1. i - 1 \in 1..n
          BY <4>2
        <5>2. F[i - 1] = g[i - 1] /\ F[i] = g[i]
          BY <5>1
        <5> QED
          BY <1>7, <4>2, <5>2
      <4> QED
        BY <4>1, <4>2
    <3> QED
      BY <3>1
  <2>3. Flat(f)
    <3> HIDE DEF Flat, F
    <3> QED
      BY <2>2
  <2>4. \A i \in 1..n : f[i] = IF i = 1 THEN q[1] ELSE f[i - 1] \o q[i]
    <3> HIDE DEF f
    <3>1. PICK h : h = f
      OBVIOUS
    <3>2. h = [i \in 1..n |-> IF i = 1 THEN q[1] ELSE h[i - 1] \o q[i]]
      BY <2>3, <3>1
    <3>3. \A i \in 1..n : h[i] = IF i = 1 THEN q[1] ELSE h[i - 1] \o q[i]
      BY <3>2, Zenon
    <3> QED
      BY <3>1, <3>3
  <2> HIDE DEF f, F, Flat
  <2> DEFINE I == {i \in Nat : i \in 1..n => f[i] = g[i]}
  <2>5. 0 \in I
    OBVIOUS
  <2>6. ASSUME NEW i \in Nat, i \in I PROVE i + 1 \in I
    <3> SUFFICES ASSUME i + 1 \in 1..n PROVE f[i + 1] = g[i + 1]
      OBVIOUS
    <3>1. CASE i = 0
      BY <2>4, <2>n, <3>1
    <3>2. CASE i # 0
      <4>1. i \in 1..n /\ (i + 1) - 1 = i /\ i + 1 # 1
        BY <3>2
      <4>2. f[i] = g[i]
        BY <2>6, <4>1
      <4>3. f[i + 1] = f[i] \o q[i + 1] /\ g[i + 1] = g[i] \o q[i + 1]
        BY <1>7, <2>4, <4>1
      <4> QED
        BY <4>2, <4>3
    <3> QED
      BY <3>1, <3>2
  <2>7. n \in I
    <3> HIDE DEF I
    <3> QED
      BY <2>5, <2>6, SetInduction
  <2> QED
    BY <1>4, <1>7, <2>1, <2>n, <2>7 DEF ConcatsOf
<1> QED
  BY <1>8, <1>9

LEMMA FlattenElems ==
    ASSUME NEW S, NEW q \in Seq(Seq(S))
    PROVE  FlattenSeq(q) \in Seq(S) /\ Elems(FlattenSeq(q)) = UNION {Elems(q[i]) : i \in DOMAIN q}
<1> DEFINE n == Len(q)
<1>1. n \in Nat /\ DOMAIN q = 1..n /\ \A i \in 1..n : q[i] \in Seq(S)
  OBVIOUS
<1>2. PICK g \in [0..n -> Seq(S)] :
        /\ g[0] = <<>>
        /\ \A i \in 1..n : g[i] = g[i - 1] \o q[i]
        /\ FlattenSeq(q) = g[n]
  <2>1. PICK V : V = Seq(S)
    OBVIOUS
  <2>2. /\ <<>> \in V
        /\ \A s, t \in V : s \o t \in V
        /\ \A t \in V : <<>> \o t = t
        /\ \A i \in 1..n : q[i] \in V
    BY <1>1, <2>1
  <2>3. n = 0 => q = <<>>
    OBVIOUS
  <2>4. Len(q) = n
    OBVIOUS
  <2> HIDE DEF n
  <2>5. \E g : ConcatsOf(n, V, q, g)
    BY <1>1, <2>2, <2>3, <2>4, FlattenSteps
  <2> QED
    BY <2>1, <2>5 DEF ConcatsOf
<1> DEFINE I == {k \in Nat : k <= n => Elems(g[k]) = UNION {Elems(q[i]) : i \in 1..k}}
<1> HIDE DEF n
<1>3. 0 \in I
  <2>1. Elems(g[0]) = {} /\ 1..0 = {}
    BY <1>2 DEF Elems
  <2> QED
    BY <2>1
<1>4. ASSUME NEW k \in Nat, k \in I PROVE k + 1 \in I
  <2> SUFFICES ASSUME k + 1 <= n PROVE Elems(g[k + 1]) = UNION {Elems(q[i]) : i \in 1..(k + 1)}
    OBVIOUS
  <2>1. k \in 0..n /\ k + 1 \in 1..n /\ (k + 1) - 1 = k /\ g[k] \in Seq(S) /\ q[k + 1] \in Seq(S)
    BY <1>1
  <2>2. g[k + 1] = g[k] \o q[k + 1]
    BY <1>2, <2>1
  <2>3. Elems(g[k + 1]) = Elems(g[k]) \cup Elems(q[k + 1])
    BY <2>1, <2>2, ElemsConcat
  <2>4. Elems(g[k]) = UNION {Elems(q[i]) : i \in 1..k}
    BY <1>1, <1>4
  <2>5. 1..(k + 1) = (1..k) \cup {k + 1}
    OBVIOUS
  <2>6. UNION {Elems(q[i]) : i \in 1..(k + 1)} = (UNION {Elems(q[i]) : i \in 1..k}) \cup Elems(q[k + 1])
    BY <2>5
  <2> QED
    BY <2>3, <2>4, <2>6
<1>5. n \in I
  <2> HIDE DEF I
  <2> QED
    BY <1>1, <1>3, <1>4, SetInduction
<1>6. g[n] \in Seq(S)
  BY <1>1, <1>2
<1>7. Elems(g[n]) = UNION {Elems(q[i]) : i \in 1..n}
  BY <1>1, <1>5
<1> QED
  BY <1>1, <1>2, <1>6, <1>7

-----------------------------------------------------------------------------
(* RecentActivity: what is newest.                                          *)

Dated(R) == \A r \in R : r.occurred_at \in Nat

Descending(s) == \A i, j \in DOMAIN s : i <= j => s[i].occurred_at >= s[j].occurred_at

LEMMA PlaceExists ==
    ASSUME NEW R, Dated(R), NEW s \in Seq(R), NEW row \in R
    PROVE  /\ PlaceOf(s, row) \in 1..(Len(s) + 1)
           /\ \A j \in 1..(PlaceOf(s, row) - 1) : s[j].occurred_at >= row.occurred_at
           /\ PlaceOf(s, row) <= Len(s) => s[PlaceOf(s, row)].occurred_at < row.occurred_at
<1> DEFINE T == {i \in 1..(Len(s) + 1) : i <= Len(s) => s[i].occurred_at < row.occurred_at}
<1>1. Len(s) \in Nat /\ \A i \in 1..Len(s) : s[i] \in R /\ s[i].occurred_at \in Nat
  BY DEF Dated
<1>2. row.occurred_at \in Nat
  BY DEF Dated
<1>3. T \subseteq Nat /\ Len(s) + 1 \in T
  BY <1>1
<1>4. PICK i \in T : \A m \in T : ~(m < i)
  BY <1>3, LeastNat
<1>5. ASSUME NEW j \in 1..(i - 1) PROVE s[j].occurred_at >= row.occurred_at
  <2>1. j \in 1..Len(s) /\ j < i
    BY <1>1, <1>4
  <2>2. j \notin T
    BY <1>4, <2>1
  <2> QED
    BY <1>1, <1>2, <2>1, <2>2
<1>6. i \in 1..(Len(s) + 1) /\ (i <= Len(s) => s[i].occurred_at < row.occurred_at)
  BY <1>4
<1> HIDE DEF T
<1> QED
  BY <1>5, <1>6 DEF PlaceOf

\* The sequence with the row put in its place.
Placed(s, row) == InsertAt(s, PlaceOf(s, row), row)

LEMMA PlacedFacts ==
    ASSUME NEW R, Dated(R), NEW s \in Seq(R), NEW row \in R, Descending(s)
    PROVE  /\ Placed(s, row) \in Seq(R) /\ Len(Placed(s, row)) = Len(s) + 1
           /\ Descending(Placed(s, row))
           /\ Elems(Placed(s, row)) = Elems(s) \cup {row}
<1>1. PICK p : p = PlaceOf(s, row)
  OBVIOUS
<1>2. /\ p \in 1..(Len(s) + 1)
      /\ \A j \in 1..(p - 1) : s[j].occurred_at >= row.occurred_at
      /\ p <= Len(s) => s[p].occurred_at < row.occurred_at
  BY <1>1, PlaceExists
<1>3. PICK n \in Nat : n = Len(s) /\ DOMAIN s = 1..n
  OBVIOUS
<1>4. \A i \in 1..n : s[i] \in R /\ s[i].occurred_at \in Nat
  BY <1>3 DEF Dated
<1>5. PICK t : t = SubSeq(s, 1, p - 1) \o <<row>> \o SubSeq(s, p, n)
  OBVIOUS
<1>6. t = Placed(s, row)
  BY <1>1, <1>3, <1>5 DEF Placed, InsertAt
<1>7. /\ t \in Seq(R) /\ Len(t) = n + 1 /\ DOMAIN t = 1..(n + 1)
      /\ \A j \in 1..(n + 1) : t[j] = IF j < p THEN s[j] ELSE IF j = p THEN row ELSE s[j - 1]
  <2>1. PICK u : u = SubSeq(s, 1, p - 1)
    OBVIOUS
  <2>2. u \in Seq(R) /\ Len(u) = p - 1 /\ \A j \in 1..(p - 1) : u[j] = s[j]
    BY <1>2, <1>3, <2>1
  <2>3. PICK v : v = SubSeq(s, p, n)
    OBVIOUS
  <2>4. v \in Seq(R) /\ Len(v) = n + 1 - p /\ \A j \in 1..(n + 1 - p) : v[j] = s[p + j - 1]
    BY <1>2, <1>3, <2>3
  <2>5. PICK w : w = u \o <<row>>
    OBVIOUS
  <2>6. w \in Seq(R) /\ Len(w) = p /\ w[p] = row /\ \A j \in 1..(p - 1) : w[j] = s[j]
    BY <1>2, <1>3, <2>2, <2>5
  <2>7. t = w \o v
    BY <1>5, <2>1, <2>3, <2>5
  <2>8. t \in Seq(R) /\ Len(t) = n + 1
    <3>1. t \in Seq(R) /\ Len(t) = Len(w) + Len(v)
      BY <2>4, <2>6, <2>7
    <3> QED
      BY <1>2, <1>3, <2>4, <2>6, <3>1
  <2>9. \A j \in 1..(n + 1) : t[j] = IF j <= p THEN w[j] ELSE v[j - p]
    BY <1>2, <1>3, <2>4, <2>6, <2>7
  <2>10. \A j \in 1..(n + 1) : j > p => j - p \in 1..(n + 1 - p) /\ p + (j - p) - 1 = j - 1
    BY <1>2, <1>3
  <2> QED
    BY <1>2, <1>3, <2>4, <2>6, <2>8, <2>9, <2>10, SMTT(20)
<1>8. Descending(t)
  <2>1. row.occurred_at \in Nat
    BY DEF Dated
  <2>2. \A i, j \in 1..n : i <= j => s[i].occurred_at >= s[j].occurred_at
    BY <1>3 DEF Descending
  <2>3. \A i \in 1..n : i < p => s[i].occurred_at >= row.occurred_at
    BY <1>2, <1>3
  <2>4. \A i \in 1..n : i >= p => s[i].occurred_at < row.occurred_at
    <3> SUFFICES ASSUME NEW i \in 1..n, i >= p PROVE s[i].occurred_at < row.occurred_at
      OBVIOUS
    <3>1. p \in 1..n /\ p <= i /\ s[p].occurred_at < row.occurred_at
      BY <1>2, <1>3
    <3> QED
      BY <1>4, <2>1, <2>2, <3>1
  <2> SUFFICES ASSUME NEW i \in 1..(n + 1), NEW j \in 1..(n + 1), i <= j
               PROVE  t[i].occurred_at >= t[j].occurred_at
    BY <1>7 DEF Descending
  <2>5. CASE j < p
    BY <1>2, <1>3, <1>7, <2>2, <2>5
  <2>6. CASE j = p
    <3>1. CASE i = p
      BY <1>7, <2>1, <2>6, <3>1
    <3>2. CASE i < p
      BY <1>2, <1>3, <1>7, <2>3, <2>6, <3>2
    <3> QED
      BY <1>2, <2>6, <3>1, <3>2
  <2>7. CASE j > p
    <3>1. t[j] = s[j - 1] /\ j - 1 \in 1..n /\ j - 1 >= p
      BY <1>2, <1>3, <1>7, <2>7
    <3>2. CASE i < p
      BY <1>2, <1>3, <1>7, <2>2, <3>1, <3>2
    <3>3. CASE i = p
      BY <1>2, <1>4, <1>7, <2>1, <2>4, <3>1, <3>3
    <3>4. CASE i > p
      <4>1. t[i] = s[i - 1] /\ i - 1 \in 1..n
        BY <1>2, <1>3, <1>7, <3>4
      <4> QED
        BY <2>2, <3>1, <4>1
    <3> QED
      BY <1>2, <3>2, <3>3, <3>4
  <2> QED
    BY <1>2, <2>5, <2>6, <2>7
<1>9. Elems(t) = Elems(s) \cup {row}
  <2>1. \A j \in 1..(n + 1) : t[j] \in Elems(s) \cup {row}
    <3> SUFFICES ASSUME NEW j \in 1..(n + 1) PROVE t[j] \in Elems(s) \cup {row}
      OBVIOUS
    <3>1. CASE j < p
      BY <1>2, <1>3, <1>7, <3>1 DEF Elems
    <3>2. CASE j = p
      BY <1>7, <3>2
    <3>3. CASE j > p
      <4>1. t[j] = s[j - 1] /\ j - 1 \in 1..n
        BY <1>2, <1>3, <1>7, <3>3
      <4> QED
        BY <1>3, <4>1 DEF Elems
    <3> QED
      BY <1>2, <3>1, <3>2, <3>3
  <2>2. ASSUME NEW i \in 1..n PROVE s[i] \in Elems(t)
    <3>1. CASE i < p
      BY <1>2, <1>3, <1>7, <3>1 DEF Elems
    <3>2. CASE i >= p
      <4>1. i + 1 \in 1..(n + 1) /\ t[i + 1] = s[i]
        BY <1>2, <1>3, <1>7, <3>2
      <4> QED
        BY <1>7, <4>1 DEF Elems
    <3> QED
      BY <1>2, <3>1, <3>2
  <2>3. row \in Elems(t)
    BY <1>2, <1>3, <1>7 DEF Elems
  <2> QED
    BY <1>3, <1>7, <2>1, <2>2, <2>3 DEF Elems
<1> QED
  BY <1>3, <1>6, <1>7, <1>8, <1>9

\* What Sorted computes, row by row.
SortSteps(s, f) == f = [k \in 0..Len(s) |-> IF k = 0 THEN <<>> ELSE Placed(f[k - 1], s[k])]

LEMMA SortStepsExist ==
    ASSUME NEW R, Dated(R), NEW s \in Seq(R)
    PROVE  \E g : SortSteps(s, g)
<1> DEFINE V == {t \in Seq(R) : Descending(t)}
           A == [x \in V \X (1..Len(s)) |-> Placed(x[1], s[x[2]])]
<1>1. PICK n \in Nat : n = Len(s) /\ DOMAIN s = 1..n
  OBVIOUS
<1>2. A \in [V \X (1..n) -> V]
  <2>1. ASSUME NEW t \in V, NEW k \in 1..n PROVE Placed(t, s[k]) \in V
    <3>1. t \in Seq(R) /\ Descending(t) /\ s[k] \in R
      BY <1>1
    <3> QED
      BY <3>1, PlacedFacts
  <2> QED
    BY <1>1, <2>1
<1>3. PICK b : b = <<>>
  OBVIOUS
<1>4. b \in V
  BY <1>3 DEF Descending
<1>5. \A t \in V, k \in 1..n : A[<<t, k>>] = Placed(t, s[k])
  BY <1>1
<1> HIDE DEF A, V
<1>6. PICK g : RecursionOf(n, V, b, A, g)
  BY <1>2, <1>4, RecursionExists
<1>7. g \in [0..n -> V] /\ g[0] = b /\ \A i \in 1..n : g[i] = A[<<g[i - 1], i>>]
  BY <1>6 DEF RecursionOf
<1>8. ASSUME NEW k \in 0..n PROVE g[k] = IF k = 0 THEN <<>> ELSE Placed(g[k - 1], s[k])
  <2>1. CASE k = 0
    BY <1>3, <1>7, <2>1
  <2>2. CASE k # 0
    <3>1. k \in 1..n /\ k - 1 \in 0..n
      BY <2>2
    <3>2. g[k - 1] \in V /\ g[k] = A[<<g[k - 1], k>>]
      BY <1>7, <3>1
    <3> QED
      BY <1>5, <2>2, <3>1, <3>2
  <2> QED
    BY <2>1, <2>2
<1>9. g = [k \in 0..n |-> IF k = 0 THEN <<>> ELSE Placed(g[k - 1], s[k])]
  BY <1>7, <1>8
<1> QED
  BY <1>1, <1>9 DEF SortSteps

LEMMA SortedFacts ==
    ASSUME NEW R, Dated(R), NEW s \in Seq(R)
    PROVE  /\ Sorted(s) \in Seq(R) /\ Len(Sorted(s)) = Len(s)
           /\ Descending(Sorted(s))
           /\ Elems(Sorted(s)) = Elems(s)
<1> DEFINE F == CHOOSE g : SortSteps(s, g)
<1>1. Sorted(s) = F[Len(s)]
  BY DEF Sorted, SortSteps, Placed
<1>2. SortSteps(s, F)
  BY SortStepsExist
<1> HIDE DEF F
<1>3. PICK n \in Nat : n = Len(s) /\ DOMAIN s = 1..n
  OBVIOUS
<1>4. PICK f : f = F
  OBVIOUS
<1>5. f = [k \in 0..n |-> IF k = 0 THEN <<>> ELSE Placed(f[k - 1], s[k])]
  BY <1>2, <1>3, <1>4 DEF SortSteps
<1>6. \A k \in 0..n : f[k] = IF k = 0 THEN <<>> ELSE Placed(f[k - 1], s[k])
  BY <1>5, Zenon
<1> DEFINE Good(k) == /\ f[k] \in Seq(R) /\ Len(f[k]) = k /\ Descending(f[k])
                      /\ Elems(f[k]) = {s[i] : i \in 1..k}
           I == {k \in Nat : k <= n => Good(k)}
<1>7. 0 \in I
  <2>1. f[0] = <<>>
    BY <1>6
  <2>2. Good(0)
    BY <2>1 DEF Descending, Elems
  <2> QED
    BY <2>2
<1>8. ASSUME NEW k \in Nat, k \in I PROVE k + 1 \in I
  <2> SUFFICES ASSUME k + 1 <= n PROVE Good(k + 1)
    OBVIOUS
  <2>1. k + 1 \in 0..n /\ k + 1 # 0 /\ (k + 1) - 1 = k /\ k + 1 \in 1..n
    OBVIOUS
  <2>2. f[k + 1] = Placed(f[k], s[k + 1]) /\ s[k + 1] \in R
    BY <1>3, <1>6, <2>1
  <2>3. f[k] \in Seq(R) /\ Len(f[k]) = k /\ Descending(f[k]) /\ Elems(f[k]) = {s[i] : i \in 1..k}
    BY <1>8, <2>1
  <2>4. PICK t : t = f[k]
    OBVIOUS
  <2>5. PICK row : row = s[k + 1]
    OBVIOUS
  <2>6. /\ Placed(t, row) \in Seq(R) /\ Len(Placed(t, row)) = Len(t) + 1
        /\ Descending(Placed(t, row)) /\ Elems(Placed(t, row)) = Elems(t) \cup {row}
    <3>1. t \in Seq(R) /\ Descending(t) /\ row \in R
      BY <2>2, <2>3, <2>4, <2>5
    <3> QED
      BY ONLY <3>1, Dated(R), PlacedFacts
  <2>7. {s[i] : i \in 1..(k + 1)} = {s[i] : i \in 1..k} \cup {s[k + 1]}
    OBVIOUS
  <2> QED
    BY <2>2, <2>3, <2>4, <2>5, <2>6, <2>7
<1> HIDE DEF Good
<1>9. n \in I
  <2> HIDE DEF I
  <2> QED
    BY <1>3, <1>7, <1>8, SetInduction
<1>10. Good(n)
  BY <1>3, <1>9
<1>11. PICK t : t = Sorted(s)
  OBVIOUS
<1>12. t = f[n]
  BY <1>1, <1>3, <1>4, <1>11
<1>13. t \in Seq(R) /\ Len(t) = n /\ Descending(t) /\ Elems(t) = {s[i] : i \in 1..n}
  BY <1>10, <1>12 DEF Good
<1>14. Elems(s) = {s[i] : i \in 1..n}
  BY <1>3 DEF Elems
<1> QED
  BY <1>3, <1>11, <1>13, <1>14

\* The n newest: whatever is left out is as old as everything that is there.
LEMMA NewestFacts ==
    ASSUME NEW R, Dated(R), NEW s \in Seq(R), NEW n \in Nat
    PROVE  /\ Newest(s, n) \in Seq(R) /\ Len(Newest(s, n)) = (IF n < Len(s) THEN n ELSE Len(s))
           /\ Elems(Newest(s, n)) \subseteq Elems(s)
           /\ \A x \in Elems(s) :
                \/ x \in Elems(Newest(s, n))
                \/ Len(Newest(s, n)) = n /\ \A y \in Elems(Newest(s, n)) : x.occurred_at <= y.occurred_at
<1>1. PICK t : t = Sorted(s)
  OBVIOUS
<1>2. t \in Seq(R) /\ Len(t) = Len(s) /\ Descending(t) /\ Elems(t) = Elems(s)
  BY <1>1, SortedFacts
<1>l. PICK l \in Nat : l = Len(t) /\ l = Len(s) /\ DOMAIN t = 1..l
  BY <1>2
<1>3. PICK m \in Nat : m = (IF n < l THEN n ELSE l)
  OBVIOUS
<1>4. Newest(s, n) = SubSeq(t, 1, m)
  BY <1>1, <1>l, <1>3 DEF Newest, AtMost
<1>5. PICK u : u = SubSeq(t, 1, m)
  OBVIOUS
<1>6. m <= l /\ (m = n \/ m = l)
  BY <1>3
<1>7. u \in Seq(R) /\ Len(u) = m /\ DOMAIN u = 1..m /\ \A i \in 1..m : u[i] = t[i]
  <2>1. t \in Seq(R) /\ Len(t) = l /\ m <= Len(t)
    BY <1>2, <1>l, <1>6
  <2>2. u \in Seq(R) /\ Len(u) = m
    BY ONLY <1>5, <2>1, m \in Nat, l \in Nat
  <2>3. \A i \in 1..m : u[i] = t[i]
    BY ONLY <1>5, <2>1, m \in Nat, l \in Nat
  <2> QED
    BY <2>2, <2>3
<1>8. Elems(u) \subseteq Elems(t)
  BY <1>l, <1>6, <1>7 DEF Elems
<1>9. ASSUME NEW i \in 1..l, ~(i <= m), NEW j \in 1..m
      PROVE  Len(u) = n /\ t[i].occurred_at <= u[j].occurred_at
  <2>1. j <= i /\ j \in 1..l /\ m = n
    BY <1>6, <1>9
  <2>2. t[j].occurred_at >= t[i].occurred_at /\ t[i] \in R /\ t[j] \in R
    BY <1>2, <1>l, <2>1 DEF Descending
  <2>3. t[i].occurred_at \in Nat /\ t[j].occurred_at \in Nat
    BY <2>2 DEF Dated
  <2> QED
    BY <1>7, <2>1, <2>2, <2>3
<1>10. ASSUME NEW x \in Elems(t), x \notin Elems(u)
       PROVE  Len(u) = n /\ \A y \in Elems(u) : x.occurred_at <= y.occurred_at
  <2>1. PICK i \in 1..l : x = t[i]
    BY <1>l DEF Elems
  <2>2. ~(i <= m)
    BY <1>7, <1>10, <2>1 DEF Elems
  <2>3. Len(u) = n
    BY <1>6, <1>7, <2>1, <2>2
  <2>4. \A j \in 1..m : t[i].occurred_at <= u[j].occurred_at
    BY <1>9, <2>2
  <2> QED
    BY <1>7, <2>1, <2>3, <2>4 DEF Elems
<1> QED
  BY <1>2, <1>l, <1>3, <1>4, <1>5, <1>7, <1>8, <1>10

-----------------------------------------------------------------------------
(* RecentActivity: the log and its followers.                               *)

Actions == {"added", "modified", "deleted", "renamed"}
Entries ==
    [occurred_at : Nat, action : Actions, path : BulkPaths, new_path : BulkPaths \cup {NoNewPath}]

LEMMA EntriesDated == Dated(Entries)
  BY DEF Dated, Entries

\* A function on 1..n is a sequence.
LEMMA SeqBuilt ==
    ASSUME NEW S, NEW n \in Nat, NEW F \in [1..n -> S]
    PROVE  F \in Seq(S) /\ Len(F) = n /\ DOMAIN F = 1..n
  OBVIOUS

\* The tail of a sequence, by its positions.
TailSet(q, c) == {q[i] : i \in (c + 1)..Len(q)}

LEMMA TailSetIs ==
    ASSUME NEW R, NEW q \in Seq(R), NEW c \in Nat, c <= Len(q)
    PROVE  ToSet(SubSeq(q, c + 1, Len(q))) = TailSet(q, c)
<1>1. PICK n \in Nat : n = Len(q) /\ DOMAIN q = 1..n
  OBVIOUS
<1>2. PICK u : u = SubSeq(q, c + 1, n)
  OBVIOUS
<1>3. u \in Seq(R) /\ Len(u) = n - c /\ \A j \in 1..(n - c) : u[j] = q[c + j]
  BY <1>1, <1>2
<1>4. DOMAIN u = 1..(n - c)
  BY <1>3
<1>5. \A j \in 1..(n - c) : c + j \in (c + 1)..n
  BY <1>1
<1>6. \A i \in (c + 1)..n : i - c \in 1..(n - c) /\ c + (i - c) = i
  BY <1>1
<1>7. \A i \in (c + 1)..n : u[i - c] = q[i]
  BY <1>3, <1>6
<1>8. ToSet(u) \subseteq TailSet(q, c)
  BY <1>1, <1>3, <1>4, <1>5 DEF ToSet, TailSet
<1>9. TailSet(q, c) \subseteq ToSet(u)
  BY <1>1, <1>4, <1>6, <1>7 DEF ToSet, TailSet
<1> QED
  BY <1>1, <1>2, <1>8, <1>9

LEMMA ToSetElems ==
    ASSUME NEW s
    PROVE  ToSet(s) = Elems(s)
  BY DEF ToSet, Elems

LEMMA LogTyped ==
    ASSUME NEW log \in Seq(Entries), NEW entries \in Seq(Entries)
    PROVE  /\ LogActivity(log, entries) \in Seq(Entries)
           /\ Elems(LogActivity(log, entries)) \subseteq Elems(log) \cup Elems(entries)
<1>1. PICK all : all = log \o entries
  OBVIOUS
<1>2. all \in Seq(Entries) /\ Elems(all) = Elems(log) \cup Elems(entries)
  BY <1>1, ElemsConcat
<1>3. PICK n \in Nat : n = Len(all) /\ DOMAIN all = 1..n
  BY <1>2
<1>4. PICK max \in Nat : max = activity_log_max_entries
  BY ActivityAssumption
<1>5. CASE entries = <<>> \/ max = 0 \/ n <= max
  <2>1. LogActivity(log, entries) = all
    BY <1>1, <1>3, <1>4, <1>5 DEF LogActivity
  <2> QED
    BY <1>2, <2>1
<1>6. CASE ~(entries = <<>> \/ max = 0 \/ n <= max)
  <2>1. PICK u : u = SubSeq(all, n - max + 1, n)
    OBVIOUS
  <2>2. LogActivity(log, entries) = u
    BY <1>1, <1>3, <1>4, <1>6, <2>1 DEF LogActivity
  <2>3. n - max + 1 \in 1..n
    BY <1>6
  <2>4. u \in Seq(Entries) /\ Len(u) = max /\ \A j \in 1..max : u[j] = all[n - max + j]
    BY <1>2, <1>3, <1>6, <2>1, <2>3
  <2>5. \A j \in 1..max : n - max + j \in 1..n
    BY <1>6
  <2>6. DOMAIN u = 1..max
    BY <2>4
  <2>7. Elems(u) \subseteq Elems(all)
    <3>1. ASSUME NEW x \in Elems(u) PROVE x \in Elems(all)
      <4>1. PICK j \in 1..max : x = u[j]
        BY <2>6 DEF Elems
      <4>2. PICK i \in 1..n : i = n - max + j
        BY <2>5
      <4>3. x = all[i]
        BY <2>4, <4>1, <4>2
      <4> QED
        BY <1>3, <4>3 DEF Elems
    <3> QED
      BY <3>1
  <2> QED
    BY <1>2, <2>2, <2>4, <2>7
<1> QED
  BY <1>5, <1>6

LEMMA BulkTyped ==
    ASSUME NEW r \in Bulk
    PROVE  /\ r.deletes \in Seq(BulkPaths) /\ r.renames \in Seq(BulkPaths \X BulkPaths)
           /\ r.upserts \in Seq([path : BulkPaths, mtime : Nat])
<1>1. PICK T : T = Seq(BulkPaths)
  OBVIOUS
<1>2. PICK V : V = Seq(BulkPaths \X BulkPaths)
  OBVIOUS
<1>3. PICK W : W = Seq([path : BulkPaths, mtime : Nat])
  OBVIOUS
<1>4. r \in [deletes : T, renames : V, upserts : W]
  BY <1>1, <1>2, <1>3, ActivityAssumption
<1>5. r.deletes \in T /\ r.renames \in V /\ r.upserts \in W
  BY ONLY <1>4
<1> QED
  BY <1>1, <1>2, <1>3, <1>5

\* The parts of Activities.
RowOf(at, hidden, action, path, new) ==
    IF hidden THEN <<>> ELSE <<ActivityRow(at, action, path, new)>>
RowsOf(at, action, paths) ==
    FlattenSeq([i \in DOMAIN paths |->
      RowOf(at, paths[i] \in Composite, action, paths[i], NoNewPath)])
MovedRows(at, renames) ==
    FlattenSeq([i \in DOMAIN renames |->
      RowOf(at, renames[i][1] \in Composite \/ renames[i][2] \in Composite, "renamed",
            renames[i][1], renames[i][2])])

LEMMA RowOfTyped ==
    ASSUME NEW at \in Nat, NEW hidden, NEW action \in Actions, NEW path \in BulkPaths,
           NEW new \in BulkPaths \cup {NoNewPath}
    PROVE  RowOf(at, hidden, action, path, new) \in Seq(Entries)
<1>1. PICK e : e = ActivityRow(at, action, path, new)
  OBVIOUS
<1>2. e \in Entries
  BY <1>1 DEF ActivityRow, Entries
<1>3. PICK E : E = Entries
  OBVIOUS
<1>4. <<e>> \in Seq(E) /\ <<>> \in Seq(E)
  BY <1>2, <1>3
<1> QED
  BY <1>1, <1>3, <1>4 DEF RowOf

LEMMA RowsTyped ==
    ASSUME NEW at \in Nat, NEW action \in Actions, NEW paths \in Seq(BulkPaths)
    PROVE  RowsOf(at, action, paths) \in Seq(Entries)
<1>1. PICK n \in Nat : n = Len(paths) /\ DOMAIN paths = 1..n
  OBVIOUS
<1>2. PICK V : V = Seq(Entries)
  OBVIOUS
<1>3. PICK q : q = [i \in 1..n |-> RowOf(at, paths[i] \in Composite, action, paths[i], NoNewPath)]
  OBVIOUS
<1>4. ASSUME NEW i \in 1..n
      PROVE  RowOf(at, paths[i] \in Composite, action, paths[i], NoNewPath) \in V
  <2>1. paths[i] \in BulkPaths
    BY <1>1
  <2> QED
    BY <1>2, <2>1, RowOfTyped
<1>5. q \in [1..n -> V]
  BY ONLY <1>3, <1>4
<1>6. q \in Seq(V)
  BY <1>5, SeqBuilt
<1>7. FlattenSeq(q) \in Seq(Entries)
  BY <1>2, <1>6, FlattenElems
<1> QED
  BY <1>1, <1>3, <1>7 DEF RowsOf

LEMMA MovedTyped ==
    ASSUME NEW at \in Nat, NEW renames \in Seq(BulkPaths \X BulkPaths)
    PROVE  MovedRows(at, renames) \in Seq(Entries)
<1>1. PICK n \in Nat : n = Len(renames) /\ DOMAIN renames = 1..n
  OBVIOUS
<1>2. PICK V : V = Seq(Entries)
  OBVIOUS
<1>3. PICK q : q = [i \in 1..n |->
        RowOf(at, renames[i][1] \in Composite \/ renames[i][2] \in Composite, "renamed",
              renames[i][1], renames[i][2])]
  OBVIOUS
<1>4. ASSUME NEW i \in 1..n
      PROVE  RowOf(at, renames[i][1] \in Composite \/ renames[i][2] \in Composite, "renamed",
                   renames[i][1], renames[i][2]) \in V
  <2>1. renames[i] \in BulkPaths \X BulkPaths
    BY <1>1
  <2>2. PICK old \in BulkPaths : old = renames[i][1]
    BY <2>1
  <2>3. PICK new \in BulkPaths \cup {NoNewPath} : new = renames[i][2]
    BY <2>1
  <2>4. PICK hidden : hidden = (old \in Composite \/ new \in Composite)
    OBVIOUS
  <2>5. RowOf(at, hidden, "renamed", old, new) \in V
    <3>1. "renamed" \in Actions
      BY DEF Actions
    <3> QED
      BY <1>2, <3>1, RowOfTyped, Zenon
  <2> QED
    BY ONLY <2>2, <2>3, <2>4, <2>5
<1>5. q \in [1..n -> V]
  BY ONLY <1>3, <1>4
<1>6. q \in Seq(V)
  BY <1>5, SeqBuilt
<1>7. FlattenSeq(q) \in Seq(Entries)
  BY <1>2, <1>6, FlattenElems
<1> QED
  BY <1>1, <1>3, <1>7 DEF MovedRows

LEMMA ActivitiesTyped ==
    ASSUME NEW at \in Nat, NEW added \in Seq(BulkPaths), NEW modified \in Seq(BulkPaths), NEW r \in Bulk
    PROVE  Activities(at, added, modified, r) \in Seq(Entries)
<1>1. Activities(at, added, modified, r) =
        RowsOf(at, "added", added) \o RowsOf(at, "modified", modified) \o RowsOf(at, "deleted", r.deletes)
          \o MovedRows(at, r.renames)
  BY DEF Activities, RowOf, RowsOf, MovedRows
<1>2. PICK a : a = RowsOf(at, "added", added)
  OBVIOUS
<1>3. PICK b : b = RowsOf(at, "modified", modified)
  OBVIOUS
<1>4. PICK c : c = RowsOf(at, "deleted", r.deletes)
  OBVIOUS
<1>5. PICK d : d = MovedRows(at, r.renames)
  OBVIOUS
<1>6. r.deletes \in Seq(BulkPaths) /\ r.renames \in Seq(BulkPaths \X BulkPaths)
  BY BulkTyped
<1>7. PICK E : E = Entries
  OBVIOUS
<1>8. a \in Seq(E) /\ b \in Seq(E) /\ c \in Seq(E)
  <2>s. "added" \in Actions /\ "modified" \in Actions /\ "deleted" \in Actions
    BY DEF Actions
  <2>1. a \in Seq(E)
    BY <1>2, <1>7, <2>s, RowsTyped, Zenon
  <2>2. b \in Seq(E)
    BY <1>3, <1>7, <2>s, RowsTyped, Zenon
  <2>3. c \in Seq(E)
    BY <1>4, <1>6, <1>7, <2>s, RowsTyped, Zenon
  <2> QED
    BY <2>1, <2>2, <2>3
<1>9. d \in Seq(E)
  BY <1>5, <1>6, <1>7, MovedTyped
<1>10. a \o b \o c \o d \in Seq(E)
  BY ONLY <1>8, <1>9
<1> QED
  BY <1>1, <1>2, <1>3, <1>4, <1>5, <1>7, <1>10

\* The log as a follower reads it: what is left out is as old as all it gets.
LEMMA HistoryFacts ==
    ASSUME db.log \in Seq(Entries), NEW h, h = Reverse(FetchRecent([s |-> db], FollowLimit, FALSE))
    PROVE  /\ h \in Seq(Entries)
           /\ \A x \in Elems(db.log) :
                \/ x \in Elems(h)
                \/ Len(h) = FollowLimit /\ \A i \in DOMAIN h : x.occurred_at <= h[i].occurred_at
<1>1. PICK lim \in Nat : lim = FollowLimit
  BY ActivityAssumption DEF FollowLimit
<1>2. PICK r : r = Newest(db.log, lim)
  OBVIOUS
<1>3. /\ r \in Seq(Entries) /\ Len(r) = (IF lim < Len(db.log) THEN lim ELSE Len(db.log))
      /\ Elems(r) \subseteq Elems(db.log)
      /\ \A x \in Elems(db.log) :
           \/ x \in Elems(r)
           \/ Len(r) = lim /\ \A y \in Elems(r) : x.occurred_at <= y.occurred_at
  BY <1>2, EntriesDated, NewestFacts
<1>4. FetchRecent([s |-> db], FollowLimit, FALSE) = Newest(r, lim)
  <2> DEFINE dbs == [s |-> db]
             sources == SetToSeq(DOMAIN dbs)
  <2>1. DOMAIN dbs = {"s"} /\ dbs["s"] = db
    OBVIOUS
  <2>2. DOMAIN sources = 1..1 /\ sources[1] = "s" /\ Cardinality({"s"}) = 1
    <3>1. Cardinality({"s"}) = 1
      BY FS_Singleton
    <3>2. [i \in 1..1 |-> "s"] \in [1..1 -> {"s"}] /\ IsInjective([i \in 1..1 |-> "s"])
      BY DEF IsInjective
    <3>3. sources = CHOOSE f \in [1..1 -> {"s"}] : IsInjective(f)
      BY <2>1, <3>1 DEF SetToSeq
    <3>4. sources \in [1..1 -> {"s"}]
      BY <3>2, <3>3
    <3> QED
      BY <3>1, <3>4
  <2>3. ReadActivity(db, FollowLimit) = r
    BY <1>1, <1>2 DEF ReadActivity
  <2>4. [i \in DOMAIN sources |-> ReadActivity(dbs[sources[i]], FollowLimit)] = [i \in 1..1 |-> r]
    BY <2>1, <2>2, <2>3
  <2> HIDE DEF sources, dbs
  <2>5. PICK q : q = [i \in 1..1 |-> r]
    OBVIOUS
  <2>6. Len(q) = 1 /\ q[1] = r
    <3>1. PICK V : V = Seq(Entries)
      OBVIOUS
    <3>2. q \in [1..1 -> V]
      BY ONLY <1>3, <2>5, <3>1
    <3> QED
      BY <2>5, <3>2, SeqBuilt
  <2>7. FlattenSeq(q) = r
    <3>1. PICK V : V = Seq(Entries)
      OBVIOUS
    <3>2. /\ <<>> \in V
          /\ \A s, t \in V : s \o t \in V
          /\ \A t \in V : <<>> \o t = t
          /\ \A i \in 1..1 : q[i] \in V
      BY <1>3, <2>6, <3>1
    <3>3. 1 = 0 => q = <<>>
      OBVIOUS
    <3>4. PICK g : ConcatsOf(1, V, q, g)
      BY <2>6, <3>2, <3>3, FlattenSteps
    <3>5. g[0] = <<>> /\ g[1] = g[1 - 1] \o q[1] /\ FlattenSeq(q) = g[1]
      BY ONLY <3>4 DEF ConcatsOf
    <3>6. g[1] = <<>> \o r
      <4>1. 1 - 1 = 0
        OBVIOUS
      <4> QED
        BY ONLY <2>6, <3>5, <4>1, Zenon
    <3>7. <<>> \o r = r
      BY ONLY <1>3
    <3> QED
      BY ONLY <3>5, <3>6, <3>7
  <2>8. FetchRecent(dbs, FollowLimit, FALSE) = Newest(FlattenSeq(q), lim)
    BY <1>1, <2>4, <2>5 DEF FetchRecent, sources
  <2> QED
    BY <2>7, <2>8 DEF dbs
<1>5. PICK o : o = Newest(r, lim)
  OBVIOUS
<1>6. /\ o \in Seq(Entries) /\ Len(o) = (IF lim < Len(r) THEN lim ELSE Len(r))
      /\ Elems(o) \subseteq Elems(r)
      /\ \A x \in Elems(r) :
           \/ x \in Elems(o)
           \/ Len(o) = lim /\ \A y \in Elems(o) : x.occurred_at <= y.occurred_at
  BY <1>3, <1>5, EntriesDated, NewestFacts
<1>7. PICK n \in Nat : n = Len(o) /\ DOMAIN o = 1..n
  BY <1>6
<1>8. h = [i \in 1..n |-> o[(n - i) + 1]]
  BY <1>4, <1>5, <1>7 DEF Reverse
<1>9. \A i \in 1..n : (n - i) + 1 \in 1..n /\ (n - ((n - i) + 1)) + 1 = i
  OBVIOUS
<1>10. \A i \in 1..n : o[i] \in Entries
  BY <1>6, <1>7
<1>11. h \in Seq(Entries) /\ Len(h) = n /\ DOMAIN h = 1..n
  <2>1. \A i \in 1..n : o[(n - i) + 1] \in Entries
    BY <1>9, <1>10
  <2>2. PICK E : E = Entries
    OBVIOUS
  <2>3. h \in [1..n -> E]
    BY ONLY <1>8, <2>1, <2>2
  <2> QED
    BY <2>2, <2>3, SeqBuilt
<1>12. Elems(h) = Elems(o)
  <2>1. \A i \in 1..n : h[i] = o[(n - i) + 1]
    BY <1>8
  <2>2. \A i \in 1..n : h[(n - i) + 1] = o[i]
    BY <1>9, <2>1
  <2>3. Elems(h) \subseteq Elems(o)
    BY ONLY <1>7, <1>9, <1>11, <2>1 DEF Elems
  <2>4. Elems(o) \subseteq Elems(h)
    BY ONLY <1>7, <1>9, <1>11, <2>2 DEF Elems
  <2> QED
    BY <2>3, <2>4
<1>13. ASSUME NEW x \in Elems(db.log), x \notin Elems(o)
       PROVE  n = lim /\ \A y \in Elems(o) : x.occurred_at <= y.occurred_at
  <2>1. CASE x \in Elems(r)
    BY <1>6, <1>7, <1>13, <2>1
  <2>2. CASE x \notin Elems(r)
    <3>1. Len(r) = lim /\ \A y \in Elems(r) : x.occurred_at <= y.occurred_at
      BY <1>3, <1>13, <2>2
    <3>2. n = lim
      BY <1>6, <1>7, <3>1
    <3> QED
      BY <1>6, <3>1, <3>2
  <2> QED
    BY <2>1, <2>2
<1>14. \A i \in DOMAIN h : h[i] \in Elems(o)
  BY <1>12 DEF Elems
<1> QED
  BY <1>1, <1>11, <1>12, <1>13, <1>14

Logs == Seq(Entries)

LogStored(d) == d = [files |-> d.files, log |-> d.log] /\ d.log \in Logs

PathLists == Seq(BulkPaths)

Workings ==
    [phase : {"rest", "renames", "files"}, next : Nat \ {0}, added : PathLists, modified : PathLists]

Reading ==
    [state : {"subscribed", "open"}, cursor : Nat, history : Logs, heard : SUBSET Entries,
     lagged : BOOLEAN, pending : SUBSET Entries]

Streaming(s, q) == s = [state |-> "closed"] \/ (s \in Reading /\ s.cursor <= Len(q))

WorkerTyped ==
    /\ inbox \in Seq(Bulk) /\ finished \in Nat /\ finished <= Len(inbox)
    /\ working \in Workings /\ (working.phase # "rest" => finished < Len(inbox))
    /\ LogStored(db) /\ LogStored(tx) /\ now \in Nat /\ sent \in Logs

StreamsTyped ==
    /\ streams = [f \in Followers |-> streams[f]]
    /\ \A f \in Followers : Streaming(streams[f], sent)

\* A row that is not in a full history and as old as all that is.
Older(s, row) ==
    /\ Len(s.history) = FollowLimit
    /\ \A i \in DOMAIN s.history : row.occurred_at <= s.history[i].occurred_at

\* What one who has subscribed can still get of the log, and one who has read it.
Reachable(s, t, d, q) ==
    /\ s.state = "subscribed" =>
         \A row \in Elems(t.log) : row \in Elems(d.log) \cup s.pending \cup TailSet(q, s.cursor)
    /\ s.state = "open" /\ ~s.lagged =>
         \A row \in Elems(t.log) \cup Elems(d.log) :
            \/ row \in Elems(s.history) \cup s.heard \cup s.pending \cup TailSet(q, s.cursor)
            \/ Older(s, row)

Followed == \A f \in Followers : Reachable(streams[f], tx, db, sent)

FollowInvariant == WorkerTyped /\ StreamsTyped /\ Followed

LEMMA FollowedOnly ==
    ASSUME WorkerTyped, StreamsTyped, Followed
    PROVE  OnlyPendingMissed
<1>1. PICK lim : lim = FollowLimit
  OBVIOUS
<1> SUFFICES ASSUME NEW f \in Followers, streams[f].state = "open", ~streams[f].lagged,
                    NEW row \in ToSet(db.log)
             PROVE  \/ row \in ToSet(streams[f].history) \cup streams[f].heard
                               \cup ToSet(SubSeq(sent, streams[f].cursor + 1, Len(sent)))
                               \cup streams[f].pending
                    \/ /\ Len(streams[f].history) = FollowLimit
                       /\ \A i \in DOMAIN streams[f].history :
                            row.occurred_at <= streams[f].history[i].occurred_at
  BY Zenon DEF OnlyPendingMissed
<1>2. PICK s : s = streams[f]
  OBVIOUS
<1>3. s \in Reading /\ s.cursor <= Len(sent)
  BY <1>2 DEF StreamsTyped, Streaming
<1>4. s.cursor \in Nat
  BY <1>3 DEF Reading
<1>5. ToSet(SubSeq(sent, s.cursor + 1, Len(sent))) = TailSet(sent, s.cursor)
  BY <1>3, <1>4, TailSetIs DEF WorkerTyped, Logs
<1>6. row \in Elems(db.log)
  BY ToSetElems, Zenon
<1>7. \/ row \in Elems(s.history) \cup s.heard \cup s.pending \cup TailSet(sent, s.cursor)
      \/ Older(s, row)
  BY <1>2, <1>6 DEF Followed, Reachable
<1>8. ToSet(s.history) = Elems(s.history)
  BY ToSetElems, Zenon
<1>9. CASE row \in Elems(s.history) \cup s.heard \cup s.pending \cup TailSet(sent, s.cursor)
  BY ONLY <1>2, <1>5, <1>8, <1>9
<1>10. CASE Older(s, row)
  BY <1>2, <1>10, Zenon DEF Older
<1> QED
  BY <1>7, <1>9, <1>10

LEMMA FollowInit ==
    ASSUME ActivityInit
    PROVE  FollowInvariant
<1>1. inbox \in Seq(Bulk) /\ Len(inbox) = 0
  BY DEF ActivityInit
<1>2. <<>> \in PathLists
  BY DEF PathLists
<1>4. working \in Workings /\ working.phase = "rest"
  BY <1>2 DEF ActivityInit, Resting, Workings
<1>5. <<>> \in Logs
  BY DEF Logs
<1>6. LogStored(db) /\ LogStored(tx)
  BY <1>5 DEF ActivityInit, LogStored
<1>7. WorkerTyped
  BY <1>1, <1>4, <1>5, <1>6 DEF WorkerTyped, ActivityInit
<1>8. \A f \in Followers : streams[f] = [state |-> "closed"]
  BY DEF ActivityInit
<1>9. StreamsTyped
  <2>1. streams = [f \in Followers |-> streams[f]]
    BY DEF ActivityInit
  <2>2. \A f \in Followers : Streaming(streams[f], sent)
    BY <1>8, Zenon DEF Streaming
  <2> QED
    BY <2>1, <2>2 DEF StreamsTyped
<1>10. Followed
  BY <1>8 DEF Followed, Reachable
<1> QED
  BY <1>7, <1>9, <1>10 DEF FollowInvariant

-----------------------------------------------------------------------------
(* The worker.                                                              *)

LEMMA FilesWritten ==
    ASSUME NEW d, LogStored(d), NEW files
    PROVE  LogStored([d EXCEPT !.files = files]) /\ [d EXCEPT !.files = files].log = d.log
<1>1. PICK f, l : d = [files |-> f, log |-> l] /\ l \in Logs
  BY DEF LogStored
<1> QED
  BY <1>1 DEF LogStored

LEMMA LogWritten ==
    ASSUME NEW d, LogStored(d), NEW log \in Logs
    PROVE  LogStored([d EXCEPT !.log = log]) /\ [d EXCEPT !.log = log].log = log
<1>1. PICK f, l : d = [files |-> f, log |-> l] /\ l \in Logs
  BY DEF LogStored
<1> QED
  BY <1>1 DEF LogStored

LEMMA CommitFacts ==
    ASSUME inbox \in Seq(Bulk), finished \in Nat, finished <= Len(inbox), NEW t, NEW done, CommitPoint(t, done)
    PROVE  /\ inbox' \in Seq(Bulk) /\ Len(inbox') = Len(inbox) - finished
           /\ finished' = done /\ tx' = t /\ db' = t
  BY DEF CommitPoint

LEMMA AddUnitsFacts ==
    ASSUME inbox \in Seq(Bulk), finished \in Nat, finished < Len(inbox),
           NEW t, NEW units, NEW done \in {0, 1}, AddUnits(t, units, done)
    PROVE  /\ inbox' \in Seq(Bulk) /\ finished' \in Nat /\ finished' <= Len(inbox')
           /\ done = 0 => finished' < Len(inbox')
           /\ tx' = t /\ (db' = db \/ db' = t)
<1>1. CASE CommitPoint(t, done)
  <2>1. PICK n \in Nat : n = Len(inbox)
    OBVIOUS
  <2>2. /\ inbox' \in Seq(Bulk) /\ Len(inbox') = n - finished
        /\ finished' = done /\ tx' = t /\ db' = t
    BY <1>1, <2>1, CommitFacts
  <2> QED
    BY <2>1, <2>2
<1>2. CASE ~CommitPoint(t, done)
  <2>1. tx' = t /\ finished' = finished + done /\ inbox' = inbox /\ db' = db
    BY <1>2 DEF AddUnits
  <2> QED
    BY <2>1
<1> QED
  BY <1>1, <1>2

\* What the worker does leaves what is followed within reach: what is new in
\* the session's log has been sent, and what is committed is the session's log.
LEMMA WithinReach ==
    ASSUME StreamsTyped, Followed, streams' = streams, LogStored(tx'), Len(sent) \in Nat, Len(sent') \in Nat,
           Len(sent) <= Len(sent'), NEW new,
           Elems(tx'.log) \subseteq Elems(tx.log) \cup Elems(db.log) \cup new,
           \A c \in Nat : c <= Len(sent) => TailSet(sent, c) \cup new \subseteq TailSet(sent', c),
           db' = db \/ db' = tx'
    PROVE  StreamsTyped' /\ Followed'
<1>1. ASSUME NEW f \in Followers PROVE Streaming(streams'[f], sent')
  <2>1. PICK s : s = streams[f]
    OBVIOUS
  <2>2. Streaming(s, sent)
    BY <2>1 DEF StreamsTyped
  <2>3. CASE s \in Reading /\ s.cursor <= Len(sent)
    <3>1. s.cursor \in Nat
      BY <2>3 DEF Reading
    <3>2. s.cursor <= Len(sent')
      BY <2>3, <3>1
    <3>3. Streaming(s, sent')
      BY <2>3, <3>2 DEF Streaming
    <3> QED
      BY <2>1, <3>3
  <2> QED
    BY <2>1, <2>2, <2>3, Zenon DEF Streaming
<1>2. ASSUME NEW f \in Followers PROVE Reachable(streams'[f], tx', db', sent')
  <2>1. PICK s : s = streams[f]
    OBVIOUS
  <2>2. PICK T : T = Elems(tx.log)
    OBVIOUS
  <2>3. PICK D : D = Elems(db.log)
    OBVIOUS
  <2>4. PICK U : U = Elems(tx'.log)
    OBVIOUS
  <2>5. PICK E : E = Elems(db'.log)
    OBVIOUS
  <2>6. U \subseteq (T \cup D) \cup new /\ (E = D \/ E = U)
    BY <2>2, <2>3, <2>4, <2>5
  <2>7. CASE s = [state |-> "closed"]
    BY <2>1, <2>7 DEF Reachable
  <2>8. CASE s \in Reading /\ s.cursor <= Len(sent)
    <3>1. PICK A : A = TailSet(sent, s.cursor)
      OBVIOUS
    <3>2. PICK B : B = TailSet(sent', s.cursor)
      OBVIOUS
    <3>3. A \cup new \subseteq B
      <4>1. s.cursor \in Nat
        BY <2>8 DEF Reading
      <4> QED
        BY <2>8, <3>1, <3>2, <4>1
    <3>4. Reachable(s, tx, db, sent)
      BY <2>1 DEF Followed
    <3>5. ASSUME s.state = "subscribed", NEW row \in U PROVE row \in E \cup s.pending \cup B
      <4>1. \A x \in T : x \in D \cup s.pending \cup A
        BY <2>2, <2>3, <3>1, <3>4, <3>5 DEF Reachable
      <4> QED
        BY ONLY <2>6, <3>3, <3>5, <4>1
    <3>6. ASSUME s.state = "open", ~s.lagged, NEW row \in U \cup E
          PROVE  row \in Elems(s.history) \cup s.heard \cup s.pending \cup B \/ Older(s, row)
      <4>1. \A x \in T \cup D : x \in Elems(s.history) \cup s.heard \cup s.pending \cup A \/ Older(s, x)
        BY <2>2, <2>3, <3>1, <3>4, <3>6, Zenon DEF Reachable
      <4> QED
        BY ONLY <2>6, <3>3, <3>6, <4>1
    <3>7. Reachable(s, tx', db', sent')
      BY <2>4, <2>5, <3>2, <3>5, <3>6, Zenon DEF Reachable
    <3> QED
      BY <2>1, <3>7
  <2> QED
    BY <2>1, <2>7, <2>8 DEF StreamsTyped, Streaming
<1>3. StreamsTyped'
  BY <1>1 DEF StreamsTyped
<1> QED
  BY <1>2, <1>3 DEF Followed

LEMMA QuietReach ==
    ASSUME WorkerTyped, StreamsTyped, Followed, streams' = streams, sent' = sent, LogStored(tx'),
           tx'.log = tx.log \/ tx'.log = db.log, db' = db \/ db' = tx'
    PROVE  StreamsTyped' /\ Followed'
<1>1. Len(sent) \in Nat /\ Len(sent') = Len(sent)
  BY DEF WorkerTyped, Logs
<1>2. PICK new : new = {}
  OBVIOUS
<1>3. Elems(tx'.log) \subseteq Elems(tx.log) \cup Elems(db.log) \cup new
  BY Zenon
<1>4. \A c \in Nat : c <= Len(sent) => TailSet(sent, c) \cup new \subseteq TailSet(sent', c)
  BY <1>2
<1> QED
  BY <1>1, <1>3, <1>4, WithinReach, SMTT(20)

LEMMA ArriveStep ==
    ASSUME FollowInvariant, Arrive
    PROVE  FollowInvariant'
<1>1. PICK r \in Bulk : inbox' = Append(inbox, r)
  BY DEF Arrive
<1>2. /\ db' = db /\ tx' = tx /\ finished' = finished /\ working' = working /\ now' = now
      /\ sent' = sent /\ streams' = streams
  BY DEF Arrive
<1>3. inbox \in Seq(Bulk) /\ finished \in Nat /\ finished <= Len(inbox)
  BY DEF FollowInvariant, WorkerTyped
<1>4. inbox' \in Seq(Bulk) /\ Len(inbox') = Len(inbox) + 1 /\ Len(inbox) \in Nat
  BY <1>1, <1>3
<1>5. finished <= Len(inbox') /\ finished < Len(inbox')
  BY <1>3, <1>4
<1>6. WorkerTyped'
  BY <1>2, <1>4, <1>5 DEF FollowInvariant, WorkerTyped
<1>7. LogStored(tx)
  BY DEF FollowInvariant, WorkerTyped
<1>8. StreamsTyped' /\ Followed'
  BY <1>2, <1>7, QuietReach DEF FollowInvariant
<1> QED
  BY <1>6, <1>8 DEF FollowInvariant

LEMMA PhaseSet ==
    ASSUME NEW w \in Workings, NEW p \in {"rest", "renames", "files"}
    PROVE  [w EXCEPT !.phase = p] \in Workings /\ [w EXCEPT !.phase = p].phase = p
  BY DEF Workings

LEMMA DeletePathsStep ==
    ASSUME FollowInvariant, DeletePaths
    PROVE  FollowInvariant'
<1>1. PICK files : AddUnits([tx EXCEPT !.files = files], Len(Request.deletes), 0)
  BY DEF DeletePaths
<1>2. PICK t : t = [tx EXCEPT !.files = files]
  OBVIOUS
<1>3. LogStored(t) /\ t.log = tx.log
  BY <1>2, FilesWritten DEF FollowInvariant, WorkerTyped
<1>4. inbox \in Seq(Bulk) /\ finished \in Nat /\ finished < Len(inbox)
  BY DEF FollowInvariant, WorkerTyped, DeletePaths
<1>5. /\ inbox' \in Seq(Bulk) /\ finished' \in Nat /\ finished' <= Len(inbox') /\ finished' < Len(inbox')
      /\ tx' = t /\ (db' = db \/ db' = t)
  BY <1>1, <1>2, <1>4, AddUnitsFacts
<1>6. working' \in Workings
  BY PhaseSet DEF DeletePaths, FollowInvariant, WorkerTyped
<1>7. now' = now /\ sent' = sent /\ streams' = streams
  BY DEF DeletePaths, Outside
<1>8. LogStored(db')
  BY <1>3, <1>5 DEF FollowInvariant, WorkerTyped
<1>9. WorkerTyped'
  BY <1>3, <1>5, <1>6, <1>7, <1>8 DEF FollowInvariant, WorkerTyped
<1>10. StreamsTyped' /\ Followed'
  BY <1>3, <1>5, <1>7, QuietReach DEF FollowInvariant
<1> QED
  BY <1>9, <1>10 DEF FollowInvariant

LEMMA RenamePathsStep ==
    ASSUME FollowInvariant, RenamePaths
    PROVE  FollowInvariant'
<1>1. PICK files : tx' = [tx EXCEPT !.files = files]
  BY DEF RenamePaths
<1>2. LogStored(tx') /\ tx'.log = tx.log
  BY <1>1, FilesWritten DEF FollowInvariant, WorkerTyped
<1>3. working' \in Workings
  BY PhaseSet DEF RenamePaths, FollowInvariant, WorkerTyped
<1>4. /\ inbox' = inbox /\ finished' = finished /\ db' = db
      /\ now' = now /\ sent' = sent /\ streams' = streams
  BY DEF RenamePaths, Outside
<1>5. finished < Len(inbox)
  BY DEF RenamePaths, FollowInvariant, WorkerTyped
<1>6. WorkerTyped'
  BY <1>2, <1>3, <1>4, <1>5 DEF FollowInvariant, WorkerTyped
<1>7. StreamsTyped' /\ Followed'
  BY <1>2, <1>4, QuietReach DEF FollowInvariant
<1> QED
  BY <1>6, <1>7 DEF FollowInvariant

LEMMA IndexUpsertStep ==
    ASSUME FollowInvariant, IndexUpsert
    PROVE  FollowInvariant'
<1>1. /\ inbox \in Seq(Bulk) /\ finished \in Nat /\ finished < Len(inbox)
      /\ working \in Workings /\ working.next <= Len(Request.upserts)
      /\ LogStored(tx) /\ LogStored(db)
  BY DEF FollowInvariant, WorkerTyped, IndexUpsert
<1>2. PICK u : u = Request.upserts[working.next]
  OBVIOUS
<1>3. u.path \in BulkPaths
  <2>1. finished + 1 \in 1..Len(inbox)
    BY <1>1
  <2>2. Request \in Bulk
    BY <1>1, <2>1 DEF Request
  <2>3. PICK T : T = [path : BulkPaths, mtime : Nat]
    OBVIOUS
  <2>4. Request.upserts \in Seq(T)
    BY <2>2, <2>3, BulkTyped
  <2>5. working.next \in Nat \ {0}
    BY <1>1 DEF Workings
  <2>6. u \in T
    BY <1>1, <1>2, <2>4, <2>5
  <2> QED
    BY <2>3, <2>6
<1>4. PICK failed \in BOOLEAN :
        LET outcome == Phase1Outcome(tx.files, u)
            reported == ~failed /\ u.mtime # 0 /\ u.path \notin Composite
        IN  /\ AddUnits(IF outcome = "skipped" THEN tx
                        ELSE [tx EXCEPT !.files = (u.path :> u.mtime) @@ tx.files], 1, 0)
            /\ working' =
                 [working EXCEPT !.next = working.next + 1,
                                 !.added = IF reported /\ outcome = "new"
                                           THEN Append(working.added, u.path) ELSE working.added,
                                 !.modified = IF reported /\ outcome = "modified"
                                              THEN Append(working.modified, u.path) ELSE working.modified]
  BY <1>2 DEF IndexUpsert
<1>5. PICK files : files = (u.path :> u.mtime) @@ tx.files
  OBVIOUS
<1>6. PICK t : t = IF Phase1Outcome(tx.files, u) = "skipped" THEN tx ELSE [tx EXCEPT !.files = files]
  OBVIOUS
<1>7. LogStored(t) /\ t.log = tx.log
  BY <1>1, <1>6, FilesWritten
<1>8. AddUnits(t, 1, 0)
  BY <1>4, <1>5, <1>6, Zenon
<1>9. /\ inbox' \in Seq(Bulk) /\ finished' \in Nat /\ finished' <= Len(inbox') /\ finished' < Len(inbox')
      /\ tx' = t /\ (db' = db \/ db' = t)
  BY <1>1, <1>8, AddUnitsFacts
<1>10. working' \in Workings
  <2>1. Append(working.added, u.path) \in PathLists /\ Append(working.modified, u.path) \in PathLists
    <3>1. working.added \in PathLists /\ working.modified \in PathLists
      BY <1>1 DEF Workings
    <3> QED
      BY <1>3, <3>1 DEF PathLists
  <2>2. PICK a \in PathLists, m \in PathLists :
          working' = [working EXCEPT !.next = working.next + 1, !.added = a, !.modified = m]
    <3>1. working.added \in PathLists /\ working.modified \in PathLists
      BY <1>1 DEF Workings
    <3>2. PICK a \in PathLists :
            a = IF (~failed /\ u.mtime # 0 /\ u.path \notin Composite) /\ Phase1Outcome(tx.files, u) = "new"
                THEN Append(working.added, u.path) ELSE working.added
      BY ONLY <2>1, <3>1
    <3>3. PICK m \in PathLists :
            m = IF (~failed /\ u.mtime # 0 /\ u.path \notin Composite) /\ Phase1Outcome(tx.files, u) = "modified"
                THEN Append(working.modified, u.path) ELSE working.modified
      BY ONLY <2>1, <3>1
    <3>4. working' = [working EXCEPT !.next = working.next + 1, !.added = a, !.modified = m]
      BY <1>4, <3>2, <3>3, Zenon
    <3> QED
      BY <3>4
  <2>3. working \in Workings /\ working.next + 1 \in Nat \ {0}
    BY <1>1 DEF Workings
  <2>4. PICK k \in Nat \ {0} : k = working.next + 1
    BY <2>3
  <2>5. working' = [working EXCEPT !.next = k, !.added = a, !.modified = m]
    BY <2>2, <2>4, Zenon
  <2> QED
    BY ONLY <2>3, <2>4, <2>5, a \in PathLists, m \in PathLists DEF Workings
<1>11. now' = now /\ sent' = sent /\ streams' = streams
  BY DEF IndexUpsert, Outside
<1>12. LogStored(db')
  BY <1>1, <1>7, <1>9
<1>13. now \in Nat /\ sent \in Logs
  BY DEF FollowInvariant, WorkerTyped
<1>14. WorkerTyped'
  BY <1>7, <1>9, <1>10, <1>11, <1>12, <1>13 DEF WorkerTyped
<1>15. StreamsTyped' /\ Followed'
  BY <1>7, <1>9, <1>11, QuietReach DEF FollowInvariant
<1> QED
  BY <1>14, <1>15 DEF FollowInvariant

LEMMA FinishRequestStep ==
    ASSUME FollowInvariant, FinishRequest
    PROVE  FollowInvariant'
<1>1. /\ inbox \in Seq(Bulk) /\ finished \in Nat /\ finished < Len(inbox)
      /\ working \in Workings /\ LogStored(tx) /\ LogStored(db) /\ now \in Nat /\ sent \in Logs
  BY DEF FollowInvariant, WorkerTyped, FinishRequest
<1>2. PICK entries : entries = Activities(now, working.added, working.modified, Request)
  OBVIOUS
<1>3. entries \in Logs
  <2>1. finished + 1 \in 1..Len(inbox)
    BY <1>1
  <2>2. Request \in Bulk
    BY <1>1, <2>1 DEF Request
  <2>3. working.added \in PathLists /\ working.modified \in PathLists
    BY <1>1 DEF Workings
  <2> QED
    BY <1>1, <1>2, <2>2, <2>3, ActivitiesTyped, Zenon DEF PathLists, Logs
<1>4. PICK log : log = LogActivity(tx.log, entries)
  OBVIOUS
<1>5. log \in Logs /\ Elems(log) \subseteq Elems(tx.log) \cup Elems(entries)
  <2>1. tx.log \in Logs
    BY <1>1 DEF LogStored
  <2> QED
    BY <1>3, <1>4, <2>1, LogTyped DEF Logs
<1>6. PICK t : t = [tx EXCEPT !.log = log]
  OBVIOUS
<1>7. LogStored(t) /\ t.log = log
  BY <1>1, <1>5, <1>6, LogWritten
<1>8. AddUnits(t, IF Request.renames = <<>> THEN 0 ELSE 1, 1)
  BY <1>2, <1>4, <1>6 DEF FinishRequest
<1>9. /\ inbox' \in Seq(Bulk) /\ finished' \in Nat /\ finished' <= Len(inbox')
      /\ tx' = t /\ (db' = db \/ db' = t)
  BY <1>1, <1>8, AddUnitsFacts
<1>10. sent' = sent \o entries /\ working' = Resting /\ now' = now + 1 /\ streams' = streams
  BY <1>2 DEF FinishRequest
<1>11. working' \in Workings /\ working'.phase = "rest"
  <2>1. <<>> \in PathLists
    BY DEF PathLists
  <2> QED
    BY <1>10, <2>1 DEF Resting, Workings
<1>12. PICK n \in Nat, k \in Nat :
         /\ n = Len(sent) /\ k = Len(entries) /\ DOMAIN entries = 1..k
         /\ sent' \in Logs /\ Len(sent') = n + k
         /\ \A i \in 1..n : sent'[i] = sent[i]
         /\ \A i \in 1..k : sent'[n + i] = entries[i]
  <2>1. PICK w : w = sent \o entries
    OBVIOUS
  <2>2. PICK n \in Nat : n = Len(sent)
    BY <1>1 DEF Logs
  <2>3. PICK k \in Nat : k = Len(entries) /\ DOMAIN entries = 1..k
    BY <1>3 DEF Logs
  <2>4. w \in Logs /\ Len(w) = n + k
    BY <1>1, <1>3, <2>1, <2>2, <2>3 DEF Logs
  <2>5. \A i \in 1..n : w[i] = sent[i]
    BY <1>1, <1>3, <2>1, <2>2, <2>3 DEF Logs
  <2>6. \A i \in 1..k : w[n + i] = entries[i]
    BY <1>1, <1>3, <2>1, <2>2, <2>3 DEF Logs
  <2> QED
    BY <1>10, <2>1, <2>2, <2>3, <2>4, <2>5, <2>6
<1>13. ASSUME NEW c \in Nat, c <= n
       PROVE  TailSet(sent, c) \cup Elems(entries) \subseteq TailSet(sent', c)
  <2>1. ASSUME NEW x \in TailSet(sent, c) PROVE x \in TailSet(sent', c)
    <3>1. PICK i \in (c + 1)..n : x = sent[i]
      BY <1>12, <2>1 DEF TailSet
    <3>2. i \in (c + 1)..(n + k) /\ x = sent'[i]
      BY <1>12, <1>13, <3>1
    <3> QED
      BY <1>12, <3>2 DEF TailSet
  <2>2. ASSUME NEW x \in Elems(entries) PROVE x \in TailSet(sent', c)
    <3>1. PICK i \in 1..k : x = entries[i]
      BY <1>12, <2>2 DEF Elems
    <3>2. PICK j \in (c + 1)..(n + k) : j = n + i
      BY <1>13
    <3>3. x = sent'[j]
      BY <1>12, <3>1, <3>2
    <3> QED
      BY <1>12, <3>3 DEF TailSet
  <2> QED
    BY <2>1, <2>2
<1>14. LogStored(db')
  BY <1>1, <1>7, <1>9
<1>15. WorkerTyped'
  BY <1>1, <1>7, <1>9, <1>10, <1>11, <1>12, <1>14 DEF WorkerTyped
<1>16. StreamsTyped' /\ Followed'
  <2>1. PICK new : new = Elems(entries)
    OBVIOUS
  <2>2. Elems(tx'.log) \subseteq Elems(tx.log) \cup Elems(db.log) \cup new
    BY <1>5, <1>7, <1>9, <2>1
  <2>3. \A c \in Nat : c <= Len(sent) => TailSet(sent, c) \cup new \subseteq TailSet(sent', c)
    BY <1>12, <1>13, <2>1
  <2>4. Len(sent) \in Nat /\ Len(sent') \in Nat /\ Len(sent) <= Len(sent')
    BY <1>12
  <2> QED
    BY <1>7, <1>9, <1>10, <2>2, <2>3, <2>4, WithinReach DEF FollowInvariant
<1> QED
  BY <1>15, <1>16 DEF FollowInvariant

LEMMA FinalizeStep ==
    ASSUME FollowInvariant, Finalize
    PROVE  FollowInvariant'
<1>1. /\ inbox \in Seq(Bulk) /\ finished \in Nat /\ finished <= Len(inbox)
      /\ working \in Workings /\ LogStored(tx) /\ now \in Nat /\ sent \in Logs
  BY DEF FollowInvariant, WorkerTyped
<1>2. /\ inbox' \in Seq(Bulk) /\ Len(inbox') = Len(inbox) - finished
      /\ finished' = 0 /\ tx' = tx /\ db' = tx
  BY <1>1, CommitFacts DEF Finalize
<1>3. working' = working /\ working.phase = "rest" /\ now' = now /\ sent' = sent /\ streams' = streams
  BY DEF Finalize, Outside
<1>4. finished' \in Nat /\ finished' <= Len(inbox')
  BY <1>1, <1>2
<1>5. WorkerTyped'
  BY <1>1, <1>2, <1>3, <1>4 DEF WorkerTyped
<1>6. StreamsTyped' /\ Followed'
  BY <1>1, <1>2, <1>3, QuietReach DEF FollowInvariant
<1> QED
  BY <1>5, <1>6 DEF FollowInvariant

LEMMA AbortStep ==
    ASSUME FollowInvariant, Abort
    PROVE  FollowInvariant'
<1>1. /\ inbox \in Seq(Bulk) /\ LogStored(db) /\ now \in Nat /\ sent \in Logs
  BY DEF FollowInvariant, WorkerTyped
<1>2. /\ inbox' = inbox /\ finished' = 0 /\ working' = Resting /\ db' = db /\ tx' = db
      /\ now' = now /\ sent' = sent /\ streams' = streams
  BY DEF Abort
<1>3. working' \in Workings /\ working'.phase = "rest"
  <2>1. <<>> \in PathLists
    BY DEF PathLists
  <2> QED
    BY <1>2, <2>1 DEF Resting, Workings
<1>4. finished' \in Nat /\ finished' <= Len(inbox')
  BY <1>1, <1>2
<1>5. WorkerTyped'
  BY <1>1, <1>2, <1>3, <1>4 DEF WorkerTyped
<1>6. StreamsTyped' /\ Followed'
  BY <1>1, <1>2, QuietReach DEF FollowInvariant
<1> QED
  BY <1>5, <1>6 DEF FollowInvariant

-----------------------------------------------------------------------------
(* The followers.                                                           *)

\* One stream changes; the rest of the state is as it was.
LEMMA StreamStep ==
    ASSUME FollowInvariant, NEW f \in Followers, NEW s, streams' = [streams EXCEPT ![f] = s],
           Streaming(s, sent), Reachable(s, tx, db, sent),
           UNCHANGED <<inbox, db, tx, finished, working, now, sent>>
    PROVE  FollowInvariant'
<1>1. WorkerTyped'
  BY DEF FollowInvariant, WorkerTyped
<1>2. streams = [g \in Followers |-> streams[g]]
  BY DEF FollowInvariant, StreamsTyped
<1>3. \A g \in Followers : streams'[g] = IF g = f THEN s ELSE streams[g]
  BY <1>2
<1>4. streams' = [g \in Followers |-> streams'[g]]
  BY <1>2
<1>5. \A g \in Followers : Streaming(streams'[g], sent')
  BY <1>3, Zenon DEF FollowInvariant, StreamsTyped
<1>6. \A g \in Followers : Reachable(streams'[g], tx', db', sent')
  BY <1>3, Zenon DEF FollowInvariant, Followed
<1>7. StreamsTyped'
  BY <1>4, <1>5 DEF StreamsTyped
<1>8. Followed'
  BY <1>6 DEF Followed
<1> QED
  BY <1>1, <1>7, <1>8 DEF FollowInvariant

LEMMA SubscribeStep ==
    ASSUME FollowInvariant, NEW f \in Followers, Subscribe(f)
    PROVE  FollowInvariant'
<1>1. PICK p : p = ToSet(tx.log) \ ToSet(db.log)
  OBVIOUS
<1>2. PICK s : s = [state |-> "subscribed", cursor |-> Len(sent), history |-> <<>>, heard |-> {},
                    lagged |-> FALSE, pending |-> p]
  OBVIOUS
<1>3. streams' = [streams EXCEPT ![f] = s] /\ UNCHANGED <<inbox, db, tx, finished, working, now, sent>>
  BY <1>1, <1>2 DEF Subscribe
<1>4. tx.log \in Logs /\ sent \in Logs
  BY DEF FollowInvariant, WorkerTyped, LogStored
<1>5. PICK n \in Nat : n = Len(sent)
  BY <1>4 DEF Logs
<1>6. p = Elems(tx.log) \ Elems(db.log)
  BY <1>1, ToSetElems, Zenon
<1>7. p \in SUBSET Entries
  <2>1. Elems(tx.log) \subseteq Entries
    BY <1>4 DEF Logs, Elems
  <2> QED
    BY <1>6, <2>1
<1>8. <<>> \in Logs
  BY DEF Logs
<1>9. s \in Reading /\ s.cursor = n
  BY ONLY <1>2, <1>5, <1>7, <1>8 DEF Reading
<1>10. Streaming(s, sent)
  BY <1>5, <1>9 DEF Streaming
<1>11. s.state = "subscribed" /\ s.pending = p
  BY <1>2
<1>12. Reachable(s, tx, db, sent)
  BY <1>6, <1>11 DEF Reachable
<1> QED
  BY <1>3, <1>10, <1>12, StreamStep

LEMMA FetchHistoryStep ==
    ASSUME FollowInvariant, NEW f \in Followers, FetchHistory(f)
    PROVE  FollowInvariant'
<1>1. PICK h : h = Reverse(FetchRecent([s |-> db], FollowLimit, FALSE))
  OBVIOUS
<1>2. PICK r : r = streams[f]
  OBVIOUS
<1>3. r.state = "subscribed" /\ UNCHANGED <<inbox, db, tx, finished, working, now, sent>>
  BY <1>2 DEF FetchHistory
<1>4. r \in Reading /\ r.cursor <= Len(sent)
  BY <1>2, <1>3 DEF FollowInvariant, StreamsTyped, Streaming
<1>5. db.log \in Seq(Entries)
  BY DEF FollowInvariant, WorkerTyped, LogStored, Logs
<1>6. /\ h \in Logs
      /\ \A x \in Elems(db.log) :
           \/ x \in Elems(h)
           \/ Len(h) = FollowLimit /\ \A i \in DOMAIN h : x.occurred_at <= h[i].occurred_at
  BY <1>1, <1>5, HistoryFacts DEF Logs
<1>7. PICK s : s = [r EXCEPT !.state = "open", !.history = h]
  OBVIOUS
<1>8. /\ s \in Reading /\ s.state = "open" /\ s.history = h /\ s.cursor = r.cursor
      /\ s.heard = r.heard /\ s.pending = r.pending
  BY ONLY <1>4, <1>6, <1>7 DEF Reading
<1>9. streams' = [streams EXCEPT ![f] = s]
  BY <1>1, <1>2, <1>7 DEF FetchHistory
<1>10. Streaming(s, sent)
  BY <1>4, <1>8, Zenon DEF Streaming
<1>11. \A row \in Elems(tx.log) : row \in Elems(db.log) \cup r.pending \cup TailSet(sent, r.cursor)
  BY <1>2, <1>3 DEF FollowInvariant, Followed, Reachable
<1>12. \A x \in Elems(db.log) : x \in Elems(h) \/ Older(s, x)
  BY <1>6, <1>8, Zenon DEF Older
<1>13. \A row \in Elems(tx.log) \cup Elems(db.log) :
         row \in Elems(h) \cup r.heard \cup r.pending \cup TailSet(sent, r.cursor) \/ Older(s, row)
  BY ONLY <1>11, <1>12
<1>14. Reachable(s, tx, db, sent)
  BY <1>8, <1>13, Zenon DEF Reachable
<1> QED
  BY <1>3, <1>9, <1>10, <1>14, StreamStep

LEMMA ListenStep ==
    ASSUME FollowInvariant, NEW f \in Followers, Listen(f)
    PROVE  FollowInvariant'
<1>1. PICK r : r = streams[f]
  OBVIOUS
<1>2. r.state = "open" /\ r.cursor < Len(sent) /\ UNCHANGED <<inbox, db, tx, finished, working, now, sent>>
  BY <1>1 DEF Listen
<1>3. r \in Reading
  BY <1>1, <1>2 DEF FollowInvariant, StreamsTyped, Streaming
<1>4. PICK c \in Nat : c = r.cursor
  BY <1>3 DEF Reading
<1>5. sent \in Logs
  BY DEF FollowInvariant, WorkerTyped
<1>6. PICK n \in Nat : n = Len(sent) /\ DOMAIN sent = 1..n
  BY <1>5 DEF Logs
<1>7. recent_tx_capacity \in Nat
  BY ActivityAssumption
<1>8. CASE n - c > recent_tx_capacity
  <2>1. PICK k \in Nat : k = n - recent_tx_capacity /\ k <= n
    <3>1. PICK m \in Nat : m = recent_tx_capacity
      BY <1>7
    <3>2. n - m > c
      BY <1>8, <3>1
    <3>3. n - m \in Nat /\ n - m <= n
      BY ONLY <3>2, n \in Nat, m \in Nat, c \in Nat
    <3> QED
      BY <3>1, <3>3
  <2>2. PICK s : s = [r EXCEPT !.cursor = k, !.lagged = TRUE]
    OBVIOUS
  <2>3. streams' = [streams EXCEPT ![f] = s]
    BY <1>1, <1>4, <1>6, <1>8, <2>1, <2>2 DEF Listen
  <2>4. s \in Reading /\ s.cursor = k /\ s.state = "open" /\ s.lagged
    BY ONLY <1>2, <1>3, <2>1, <2>2 DEF Reading
  <2>5. Streaming(s, sent)
    BY <1>6, <2>1, <2>4 DEF Streaming
  <2>6. Reachable(s, tx, db, sent)
    BY <2>4 DEF Reachable
  <2> QED
    BY <1>2, <2>3, <2>5, <2>6, StreamStep
<1>9. CASE ~(n - c > recent_tx_capacity)
  <2>1. PICK e : e = sent[c + 1]
    OBVIOUS
  <2>2. e \in Entries
    BY <1>2, <1>4, <1>5, <1>6, <2>1 DEF Logs
  <2>3. PICK k \in Nat : k = c + 1 /\ k <= n
    BY <1>2, <1>4, <1>6
  <2>4. PICK s : s = [r EXCEPT !.cursor = k, !.heard = r.heard \cup {e}]
    OBVIOUS
  <2>5. streams' = [streams EXCEPT ![f] = s]
    BY <1>1, <1>4, <1>6, <1>9, <2>1, <2>3, <2>4 DEF Listen
  <2>6. /\ s \in Reading /\ s.cursor = k /\ s.state = "open" /\ s.lagged = r.lagged
        /\ s.heard = r.heard \cup {e} /\ s.history = r.history /\ s.pending = r.pending
    BY ONLY <1>2, <1>3, <2>2, <2>3, <2>4 DEF Reading
  <2>7. Streaming(s, sent)
    BY <1>6, <2>3, <2>6 DEF Streaming
  <2>8. TailSet(sent, c) \subseteq {e} \cup TailSet(sent, k)
    <3>1. ASSUME NEW x \in TailSet(sent, c) PROVE x \in {e} \cup TailSet(sent, k)
      <4>1. PICK i \in (c + 1)..n : x = sent[i]
        BY <1>6, <3>1 DEF TailSet
      <4>2. i = c + 1 \/ i \in (k + 1)..n
        BY <2>3
      <4> QED
        BY <1>6, <2>1, <4>1, <4>2 DEF TailSet
    <3> QED
      BY <3>1
  <2>9. ASSUME ~r.lagged, NEW row \in Elems(tx.log) \cup Elems(db.log)
        PROVE  row \in Elems(s.history) \cup s.heard \cup s.pending \cup TailSet(sent, s.cursor) \/ Older(s, row)
    <3>1. row \in Elems(r.history) \cup r.heard \cup r.pending \cup TailSet(sent, r.cursor) \/ Older(r, row)
      BY <1>1, <1>2, <2>9, Zenon DEF FollowInvariant, Followed, Reachable
    <3>2. Older(r, row) => Older(s, row)
      BY <2>6, Zenon DEF Older
    <3> QED
      BY ONLY <1>4, <2>6, <2>8, <3>1, <3>2
  <2>10. Reachable(s, tx, db, sent)
    BY <2>6, <2>9, Zenon DEF Reachable
  <2> QED
    BY <1>2, <2>5, <2>7, <2>10, StreamStep
<1> QED
  BY <1>8, <1>9

LEMMA DisconnectStep ==
    ASSUME FollowInvariant, NEW f \in Followers, Disconnect(f)
    PROVE  FollowInvariant'
<1>1. PICK s : s = [state |-> "closed"]
  OBVIOUS
<1>2. streams' = [streams EXCEPT ![f] = s] /\ UNCHANGED <<inbox, db, tx, finished, working, now, sent>>
  BY <1>1 DEF Disconnect
<1>3. Streaming(s, sent)
  BY <1>1, Zenon DEF Streaming
<1>4. Reachable(s, tx, db, sent)
  BY <1>1 DEF Reachable
<1> QED
  BY <1>2, <1>3, <1>4, StreamStep

-----------------------------------------------------------------------------
\* An open stream that has not lagged gives, or will give, every entry of the
\* log its limit leaves room for, but for what was broadcast and not committed
\* when it subscribed (stream_recent, "Subscribe before the DB query").
THEOREM OnlyPendingIsMissed == ActivitySpec => []OnlyPendingMissed
<1>1. ActivityInit => FollowInvariant
  BY FollowInit
<1>2. FollowInvariant /\ [ActivityNext]_activityVars => FollowInvariant'
  <2> SUFFICES ASSUME FollowInvariant, [ActivityNext]_activityVars PROVE FollowInvariant'
    OBVIOUS
  <2>1. CASE UNCHANGED activityVars
    BY <2>1 DEF activityVars, FollowInvariant, WorkerTyped, StreamsTyped, Followed
  <2>2. CASE Arrive
    BY <2>2, ArriveStep
  <2>3. CASE DeletePaths
    BY <2>3, DeletePathsStep
  <2>4. CASE RenamePaths
    BY <2>4, RenamePathsStep
  <2>5. CASE IndexUpsert
    BY <2>5, IndexUpsertStep
  <2>6. CASE FinishRequest
    BY <2>6, FinishRequestStep
  <2>7. CASE Finalize
    BY <2>7, FinalizeStep
  <2>8. CASE Abort
    BY <2>8, AbortStep
  <2>9. ASSUME NEW f \in Followers, Subscribe(f) PROVE FollowInvariant'
    BY <2>9, SubscribeStep
  <2>10. ASSUME NEW f \in Followers, FetchHistory(f) PROVE FollowInvariant'
    BY <2>10, FetchHistoryStep
  <2>11. ASSUME NEW f \in Followers, Listen(f) PROVE FollowInvariant'
    BY <2>11, ListenStep
  <2>12. ASSUME NEW f \in Followers, Disconnect(f) PROVE FollowInvariant'
    BY <2>12, DisconnectStep
  <2> QED
    BY <2>1, <2>2, <2>3, <2>4, <2>5, <2>6, <2>7, <2>8, <2>9, <2>10, <2>11, <2>12 DEF ActivityNext
<1>3. FollowInvariant => OnlyPendingMissed
  BY FollowedOnly DEF FollowInvariant
<1> QED
  BY <1>1, <1>2, <1>3, PTL DEF ActivitySpec

=============================================================================
