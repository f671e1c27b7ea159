---------------------------- MODULE Scanner_proofs ----------------------------
(***************************************************************************)
(* Proofs about find-scan.                                                 *)
(*                                                                         *)
(* ScanDiff: the type invariant, and that an archive with its real mtime   *)
(* has its members, for any number of scanners that share no archive, any  *)
(* batch size, inbox, files and failures.  The requests that are under way *)
(* are replayed for one archive at a time.                                 *)
(*                                                                         *)
(* ArchiveScan: that the rows of an archive, once nothing of its scan is   *)
(* under way, are those of its members, and that the reasons why some were *)
(* left out are told, for any archives, nested to any depth.  What the     *)
(* extractor streams is typed by recursion on the depth that is left, and  *)
(* what is under way is followed from the stream to the rows.              *)
(***************************************************************************)
EXTENDS ScanDiff, ArchiveScan, FiniteSetTheorems, WellFoundedInduction, TLAPS

-----------------------------------------------------------------------------
(* Induction over data: on sets in place of predicates.                     *)

\* The library's well-founded order of the natural numbers, without operators.
LEMMA LeastNat ==
    ASSUME NEW T, T \subseteq Nat, T # {}
    PROVE  \E n \in T : \A m \in T : ~(m < n)
<1> DEFINE R == OpToRel(<, Nat)
<1>1. IsWellFoundedOn(R, Nat)
  BY NatLessThanWellFounded
<1> HIDE DEF R
<1>2. \E n \in T : \A m \in T : ~(<<m, n>> \in R)
  BY <1>1, WFMin, Zenon
<1> QED
  BY <1>2 DEF R, OpToRel

\* Induction, on a set in place of a predicate.
LEMMA SetInduction ==
    ASSUME NEW S, 0 \in S, \A n \in Nat : n \in S => n + 1 \in S
    PROVE  Nat \subseteq S
<1> SUFFICES ASSUME Nat \ S # {} PROVE FALSE
  OBVIOUS
<1>1. PICK n \in Nat \ S : \A m \in Nat \ S : ~(m < n)
  BY LeastNat
<1>2. n # 0 /\ n - 1 \in Nat
  OBVIOUS
<1> QED
  BY <1>1, <1>2

\* What a fold is defined by: c chooses the element to take out, A adds it.
FoldStep(b, A, c, it, s) == IF s = {} THEN b ELSE A[<<it[s \ {c[s]}], c[s]>>]

FoldOf(S, V, b, A, c, it) ==
    /\ it \in [SUBSET S -> V]
    /\ \A s \in SUBSET S : it[s] = FoldStep(b, A, c, it, s)

\* The function that a fold over a finite set is chosen as exists.
LEMMA FoldExists ==
    ASSUME NEW S, IsFiniteSet(S), NEW c, \A s \in SUBSET S : s # {} => c[s] \in s,
           NEW V, NEW b \in V, NEW A \in [V \X S -> V]
    PROVE  \E it : FoldOf(S, V, b, A, c, it)
<1> DEFINE Up(n) == \E it \in [SUBSET S -> V] :
                      \A s \in SUBSET S : Cardinality(s) <= n => it[s] = FoldStep(b, A, c, it, s)
           I == {n \in Nat : Up(n)}
<1>1. \A s \in SUBSET S : IsFiniteSet(s) /\ Cardinality(s) \in Nat /\ Cardinality(s) <= Cardinality(S)
  BY FS_Subset, FS_CardinalityType
<1>2. \A s \in SUBSET S : s # {} =>
        /\ c[s] \in S
        /\ s \ {c[s]} \in SUBSET S
        /\ Cardinality(s \ {c[s]}) = Cardinality(s) - 1
  BY <1>1, FS_RemoveElement
<1>3. \A s \in SUBSET S : Cardinality(s) = 0 => s = {}
  BY <1>1, FS_EmptySet
<1>4. Up(0)
  <2>1. [s \in SUBSET S |-> b] \in [SUBSET S -> V]
    OBVIOUS
  <2>2. \A s \in SUBSET S : Cardinality(s) <= 0 => s = {}
    BY <1>1, <1>3
  <2>3. FoldStep(b, A, c, [s \in SUBSET S |-> b], {}) = b
    BY DEF FoldStep
  <2> QED
    BY <2>1, <2>2, <2>3
<1>5. ASSUME NEW n \in Nat, Up(n) PROVE Up(n + 1)
  <2>1. PICK g \in [SUBSET S -> V] :
          \A s \in SUBSET S : Cardinality(s) <= n => g[s] = FoldStep(b, A, c, g, s)
    BY <1>5
  <2> DEFINE h == [s \in SUBSET S |-> IF Cardinality(s) <= n THEN g[s] ELSE FoldStep(b, A, c, g, s)]
  <2>2. \A s \in SUBSET S : FoldStep(b, A, c, g, s) \in V
    BY <1>2 DEF FoldStep
  <2>3. h \in [SUBSET S -> V]
    BY <2>2
  <2>4. ASSUME NEW s \in SUBSET S, Cardinality(s) <= n + 1
        PROVE  FoldStep(b, A, c, h, s) = FoldStep(b, A, c, g, s)
    <3>1. CASE s = {}
      BY <3>1 DEF FoldStep
    <3>2. CASE s # {}
      <4> DEFINE t == s \ {c[s]}
      <4>1. t \in SUBSET S /\ Cardinality(t) <= n
        BY <3>2, <2>4, <1>1, <1>2
      <4>2. h[t] = g[t]
        BY <4>1
      <4> HIDE DEF h
      <4> QED
        BY <3>2, <4>2 DEF FoldStep
    <3> QED
      BY <3>1, <3>2
  <2>5. \A s \in SUBSET S : Cardinality(s) <= n + 1 => h[s] = FoldStep(b, A, c, h, s)
    BY <2>1, <2>4
  <2> HIDE DEF h
  <2> QED
    BY <2>3, <2>5
<1> HIDE DEF Up
<1>6. Nat \subseteq I
  <2>1. 0 \in I
    BY <1>4
  <2>2. \A n \in Nat : n \in I => n + 1 \in I
    BY <1>5
  <2> HIDE DEF I
  <2> QED
    BY <2>1, <2>2, SetInduction
<1>7. Up(Cardinality(S))
  BY <1>6, <1>1
<1>8. PICK it \in [SUBSET S -> V] :
        \A s \in SUBSET S : Cardinality(s) <= Cardinality(S) => it[s] = FoldStep(b, A, c, it, s)
  BY <1>7 DEF Up
<1>9. \A s \in SUBSET S : it[s] = FoldStep(b, A, c, it, s)
  BY <1>1, <1>8
<1> QED
  BY <1>9 DEF FoldOf

\* The element FoldLeft takes out of a set of positions.
LEMMA MaxOfSome ==
    ASSUME NEW n \in Nat, NEW s \in SUBSET (1..n), s # {}
    PROVE  Max(s) \in s /\ \A y \in s : y <= Max(s)
<1> DEFINE T == {n - x : x \in s}
<1>1. T \subseteq Nat /\ T # {}
  <2>1. \A x \in s : x \in Nat /\ n - x \in Nat
    OBVIOUS
  <2>2. PICK x \in s : TRUE
    OBVIOUS
  <2> QED
    BY <2>1, <2>2
<1>2. PICK t \in T : \A m \in T : ~(m < t)
  BY <1>1, LeastNat
<1>3. PICK x \in s : t = n - x
  BY <1>2
<1>4. \A y \in s : n - y \in T
  OBVIOUS
<1>5. \A y \in s : x >= y
  BY <1>2, <1>3, <1>4
<1>6. Max(s) = CHOOSE z \in s : \A y \in s : z >= y
  BY DEF Max
<1>7. Max(s) \in s /\ \A y \in s : Max(s) >= y
  BY <1>3, <1>5, <1>6
<1> QED
  BY <1>7

-----------------------------------------------------------------------------
(* What the server makes of a request.                                      *)

ServerStates == [rows : [Files -> Row \cup {NoRow}], members : [Archives -> MemberRows]]

FileItems == [path : Files, mtime : Version, lines : Version]
MemberItems == [path : Archives, member : Members, lines : Version]

LEMMA ItemKinds ==
    /\ Items = FileItems \cup MemberItems
    /\ \A item \in FileItems : "member" \notin DOMAIN item
    /\ \A item \in MemberItems : "member" \in DOMAIN item
BY DEF Items, FileItems, MemberItems

NoMembers == [x \in Members |-> 0]

IndexedRow(item) ==
    [mtime |-> item.mtime, lines |-> item.lines, scanner_version |-> SCANNER_VERSION]

LEMMA RowType ==
    ASSUME ScanAssumption, NEW item \in FileItems
    PROVE  IndexedRow(item) \in Row
BY DEF ScanAssumption, FileItems, IndexedRow, Row

LEMMA NoMembersType ==
    ASSUME ScanAssumption
    PROVE  NoMembers \in MemberRows
BY DEF ScanAssumption, NoMembers, MemberRows, Version

LEMMA UpsertType ==
    ASSUME ScanAssumption, NEW s \in ServerStates, NEW item \in Items
    PROVE  Upsert(s, item) \in ServerStates
<1>1. CASE item \in MemberItems
  <2>1. Upsert(s, item) = [s EXCEPT !.members[item.path][item.member] = item.lines]
    BY <1>1, ItemKinds DEF Upsert
  <2> DEFINE z == item.path
             ms == [s.members[z] EXCEPT ![item.member] = item.lines]
  <2>2. z \in Archives /\ s.members[z] \in MemberRows /\ item.lines \in Version
    BY <1>1 DEF MemberItems, ServerStates
  <2>3. ms \in MemberRows
    BY <2>2 DEF MemberRows
  <2>4. Upsert(s, item) = [s EXCEPT !.members = [s.members EXCEPT ![z] = ms]]
    BY <2>1, Zenon
  <2> HIDE DEF ms, z
  <2> QED
    BY <2>2, <2>3, <2>4 DEF ServerStates
<1>2. CASE item \in FileItems
  <2>1. "member" \notin DOMAIN item /\ IndexedRow(item) \in Row /\ NoMembers \in MemberRows
    BY <1>2, ItemKinds, RowType, NoMembersType
  <2>2. Upsert(s, item) \in {s, [s EXCEPT !.rows[item.path] = IndexedRow(item)],
            [s EXCEPT !.rows[item.path] = IndexedRow(item), !.members[item.path] = NoMembers]}
    BY <2>1 DEF Upsert, IndexedRow, NoMembers
  <2>3. [s EXCEPT !.rows[item.path] = IndexedRow(item)] \in ServerStates
    BY <1>2, <2>1 DEF ServerStates, FileItems
  <2>4. [s EXCEPT !.rows[item.path] = IndexedRow(item), !.members[item.path] = NoMembers] \in ServerStates
    BY <1>2, <2>1 DEF ServerStates, FileItems
  <2> QED
    BY <2>2, <2>3, <2>4
<1> QED
  BY <1>1, <1>2, ItemKinds

\* The items of a request are applied one after the other.
Upserts(s, q) == FoldLeft(Upsert, s, q)

LEMMA UpsertsApply ==
    ASSUME ScanAssumption, NEW b \in ServerStates, NEW q \in Seq(Items)
    PROVE  \E g \in [0..Len(q) -> ServerStates] :
             /\ g[0] = b
             /\ \A i \in 1..Len(q) : g[i] = Upsert(g[i - 1], q[i])
             /\ Upserts(b, q) = g[Len(q)]
<1> DEFINE n == Len(q)
           D == 1..n
           Folds(it) == it = [s \in SUBSET D |->
                           IF s = {} THEN b
                           ELSE Upsert(it[s \ {Max(s)}], q[Max(s)])]
           c == [s \in SUBSET D |-> Max(s)]
           A == [t \in ServerStates \X D |-> Upsert(t[1], q[t[2]])]
<1>1. n \in Nat /\ DOMAIN q = D /\ \A i \in D : q[i] \in Items
  OBVIOUS
<1>2. FoldLeft(Upsert, b, q) = (CHOOSE it : Folds(it))[D]
  <2>1. FoldLeft(Upsert, b, q)
          = (CHOOSE it : it = [s \in SUBSET (DOMAIN q) |->
                           IF s = {} THEN b
                           ELSE Upsert(it[s \ {Max(s)}], q[Max(s)])])[DOMAIN q]
    BY DEF FoldLeft, MapThenFoldSet
  <2> QED
    BY <1>1, <2>1
<1>3. \A s \in SUBSET D : s # {} => Max(s) \in s
  BY <1>1, MaxOfSome
<1>4. \E it : Folds(it)
  <2>1. \A s \in SUBSET D : s # {} => c[s] \in s
    BY <1>3
  <2>2. A \in [ServerStates \X D -> ServerStates]
    BY <1>1, UpsertType
  <2>3. IsFiniteSet(D)
    BY <1>1, FS_Interval
  <2>4. PICK it : FoldOf(D, ServerStates, b, A, c, it)
    <3> HIDE DEF A, c, D
    <3> QED
      BY <2>1, <2>2, <2>3, FoldExists, Zenon
  <2>5. ASSUME NEW s \in SUBSET D
        PROVE  it[s] = IF s = {} THEN b ELSE Upsert(it[s \ {Max(s)}], q[Max(s)])
    <3>1. it[s] = FoldStep(b, A, c, it, s)
      BY <2>4 DEF FoldOf
    <3>2. CASE s = {}
      BY <3>1, <3>2 DEF FoldStep
    <3>3. CASE s # {}
      <4>1. it[s] = A[<<it[s \ {c[s]}], c[s]>>]
        BY <3>1, <3>3 DEF FoldStep
      <4>2. c[s] = Max(s) /\ Max(s) \in D
        BY <1>3, <3>3
      <4>3. it[s \ {Max(s)}] \in ServerStates
        BY <2>4 DEF FoldOf
      <4> HIDE DEF c, D
      <4>4. A[<<it[s \ {Max(s)}], Max(s)>>] = Upsert(it[s \ {Max(s)}], q[Max(s)])
        BY <4>2, <4>3
      <4> QED
        BY <3>3, <4>1, <4>2, <4>4
    <3> QED
      BY <3>2, <3>3
  <2>6. it = [s \in SUBSET D |-> it[s]]
    BY <2>4 DEF FoldOf
  <2>7. Folds(it)
    BY <2>5, <2>6
  <2> QED
    BY <2>7
<1> DEFINE it == CHOOSE it : Folds(it)
<1>5. Folds(it)
  <2> HIDE DEF Folds
  <2> QED
    BY <1>4
<1> HIDE DEF it
<1>6. it[{}] = b
  BY <1>5
<1>7. ASSUME NEW i \in D
      PROVE  it[1..i] = Upsert(it[1..(i - 1)], q[i])
  <2>0. i \in Nat /\ i \in 1..i /\ i <= n
    BY <1>1
  <2>1. 1..i \in SUBSET D /\ 1..i # {}
    <3>1. \A j \in 1..i : j \in D
      BY <1>1, <2>0
    <3> QED
      BY <2>0, <3>1
  <2>2. Max(1..i) = i
    <3>1. Max(1..i) \in 1..i /\ i <= Max(1..i)
      BY <2>0, <2>1, <1>1, MaxOfSome
    <3> QED
      BY <2>0, <3>1
  <2>3. (1..i) \ {i} = 1..(i - 1)
    BY <1>1
  <2> QED
    BY <1>5, <2>1, <2>2, <2>3
<1> DEFINE I == {i \in Nat : i <= n => it[1..i] \in ServerStates}
<1>8. Nat \subseteq I
  <2>1. 0 \in I
    <3>1. 1..0 = {}
      OBVIOUS
    <3> QED
      BY <1>6, <3>1
  <2>2. ASSUME NEW i \in Nat, i \in I PROVE i + 1 \in I
    <3>1. CASE i + 1 <= n
      <4>1. it[1..i] \in ServerStates /\ i + 1 \in D /\ (i + 1) - 1 = i
        BY <1>1, <2>2, <3>1
      <4>2. it[1..(i + 1)] = Upsert(it[1..i], q[i + 1])
        BY <1>7, <4>1
      <4>3. it[1..(i + 1)] \in ServerStates
        BY <1>1, <4>1, <4>2, UpsertType
      <4> QED
        BY <4>3
    <3>2. CASE ~(i + 1 <= n)
      BY <3>2
    <3> QED
      BY <3>1, <3>2
  <2> HIDE DEF I
  <2> QED
    BY <2>1, <2>2, SetInduction
<1> DEFINE g == [i \in 0..n |-> it[1..i]]
<1>9. g \in [0..n -> ServerStates]
  BY <1>1, <1>8
<1>10. g[0] = b
  <2>1. 1..0 = {}
    OBVIOUS
  <2> QED
    BY <1>1, <1>6, <2>1
<1>11. \A i \in D : g[i] = Upsert(g[i - 1], q[i])
  <2> SUFFICES ASSUME NEW i \in D PROVE g[i] = Upsert(g[i - 1], q[i])
    OBVIOUS
  <2>1. g[i] = it[1..i] /\ g[i - 1] = it[1..(i - 1)]
    BY <1>1
  <2> QED
    BY <1>7, <2>1
<1>12. Upserts(b, q) = g[n]
  BY <1>1, <1>2 DEF it, Upserts
<1> HIDE DEF g, it
<1> QED
  BY <1>9, <1>10, <1>11, <1>12

LEMMA UpsertsType ==
    ASSUME ScanAssumption, NEW s \in ServerStates, NEW q \in Seq(Items)
    PROVE  Upserts(s, q) \in ServerStates
<1>1. PICK g \in [0..Len(q) -> ServerStates] : Upserts(s, q) = g[Len(q)]
  BY UpsertsApply
<1>2. Len(q) \in 0..Len(q)
  OBVIOUS
<1> QED
  BY <1>1, <1>2

-----------------------------------------------------------------------------
(* The same for one archive.                                                *)

ArchiveState == [row : Row \cup {NoRow}, ms : MemberRows]

Of(z, s) == [row |-> s.rows[z], ms |-> s.members[z]]

Upserted(z, t, item) ==
    IF item.path # z THEN t
    ELSE IF "member" \in DOMAIN item THEN [t EXCEPT !.ms[item.member] = item.lines]
    ELSE IF t.row # NoRow /\ item.mtime > 0 /\ item.mtime < t.row.mtime THEN t
    ELSE [row |-> IndexedRow(item), ms |-> IF item.mtime = 0 THEN NoMembers ELSE t.ms]

\* g leads from t through the items of a batch.
Replays(z, q, g) ==
    /\ g \in [0..Len(q) -> ArchiveState]
    /\ \A i \in 1..Len(q) : g[i] = Upserted(z, g[i - 1], q[i])

Runs(z, t, q, u) == \E g : Replays(z, q, g) /\ g[0] = t /\ g[Len(q)] = u

LEMMA UpsertedMember ==
    ASSUME NEW z \in Archives, NEW t \in ArchiveState, NEW item \in MemberItems, item.path = z
    PROVE  /\ Upserted(z, t, item) = [row |-> t.row, ms |-> [t.ms EXCEPT ![item.member] = item.lines]]
           /\ Upserted(z, t, item) \in ArchiveState
<1> DEFINE ms == [t.ms EXCEPT ![item.member] = item.lines]
<1>1. Upserted(z, t, item) = [t EXCEPT !.ms = ms]
  BY ItemKinds, Zenon DEF Upserted
<1>2. ms \in MemberRows
  BY DEF ArchiveState, MemberItems, MemberRows
<1>3. /\ Upserted(z, t, item) = [row |-> t.row, ms |-> ms]
      /\ Upserted(z, t, item) \in ArchiveState
  <2> HIDE DEF ms
  <2> QED
    BY <1>1, <1>2 DEF ArchiveState
<1> QED
  BY <1>3

LEMMA UpsertedFile ==
    ASSUME ScanAssumption, NEW z \in Archives, NEW t \in ArchiveState,
           NEW item \in FileItems, item.path = z
    PROVE  /\ Upserted(z, t, item) =
                IF t.row # NoRow /\ item.mtime > 0 /\ item.mtime < t.row.mtime THEN t
                ELSE [row |-> IndexedRow(item), ms |-> IF item.mtime = 0 THEN NoMembers ELSE t.ms]
           /\ Upserted(z, t, item) \in ArchiveState
BY ItemKinds, RowType, NoMembersType DEF Upserted, ArchiveState

LEMMA UpsertedType ==
    ASSUME ScanAssumption, NEW z \in Archives, NEW t \in ArchiveState, NEW item \in Items
    PROVE  Upserted(z, t, item) \in ArchiveState
<1>1. CASE item.path # z
  BY <1>1 DEF Upserted
<1>2. CASE item.path = z
  BY <1>2, ItemKinds, UpsertedMember, UpsertedFile
<1> QED
  BY <1>1, <1>2

LEMMA OfType ==
    ASSUME NEW z \in Archives, NEW s \in ServerStates
    PROVE  Of(z, s) \in ArchiveState
BY DEF Files, Of, ServerStates, ArchiveState

\* What happens to one archive can be told from its own state.
LEMMA UpsertOf ==
    ASSUME ScanAssumption, NEW z \in Archives, NEW s \in ServerStates, NEW item \in Items
    PROVE  /\ Of(z, s) \in ArchiveState
           /\ Of(z, Upsert(s, item)) = Upserted(z, Of(z, s), item)
<1>0. z \in Files /\ Of(z, s) \in ArchiveState
  BY OfType DEF Files
<1>1. CASE item \in MemberItems
  <2> DEFINE y == item.path
             ms == [s.members[y] EXCEPT ![item.member] = item.lines]
  <2>1. Upsert(s, item) = [s EXCEPT !.members[item.path][item.member] = item.lines]
    BY <1>1, ItemKinds DEF Upsert
  <2>2. Upsert(s, item) = [s EXCEPT !.members = [s.members EXCEPT ![y] = ms]]
    BY <2>1, Zenon
  <2>3. CASE y = z
    <3>1. Of(z, Upsert(s, item)) = [row |-> s.rows[z], ms |-> ms]
      <4> HIDE DEF ms
      <4> QED
        BY <2>2, <2>3 DEF Of, ServerStates
    <3> QED
      BY <3>1, <2>3, <1>0, <1>1, UpsertedMember DEF Of
  <2>4. CASE y # z
    <3>1. Of(z, Upsert(s, item)) = Of(z, s)
      <4> HIDE DEF ms
      <4> QED
        BY <2>2, <2>4 DEF Of, ServerStates
    <3> QED
      BY <3>1, <2>4, <1>0 DEF Upserted
  <2> QED
    BY <1>0, <2>3, <2>4
<1>2. CASE item \in FileItems
  <2> DEFINE y == item.path
             row == IndexedRow(item)
             old == s.rows[y]
             stale == old # NoRow /\ item.mtime > 0 /\ item.mtime < old.mtime
  <2>1. Upsert(s, item) =
            IF stale THEN s
            ELSE IF y \in Archives /\ item.mtime = 0
            THEN [s EXCEPT !.rows[y] = row, !.members[y] = NoMembers]
            ELSE [s EXCEPT !.rows[y] = row]
    BY <1>2, ItemKinds DEF Upsert, IndexedRow, NoMembers
  <2>2. CASE y # z
    <3>1. Of(z, Upsert(s, item)) = Of(z, s)
      <4> HIDE DEF row, stale
      <4> QED
        BY <2>1, <2>2 DEF Of, ServerStates
    <3> QED
      BY <3>1, <2>2, <1>0 DEF Upserted
  <2>3. CASE y = z
    <3>1. Of(z, Upsert(s, item)) =
            IF stale THEN Of(z, s)
            ELSE [row |-> row, ms |-> IF item.mtime = 0 THEN NoMembers ELSE s.members[z]]
      <4> HIDE DEF row, stale
      <4> QED
        BY <1>0, <2>1, <2>3 DEF Of, ServerStates
    <3>2. Of(z, s).row = old /\ Of(z, s).ms = s.members[z]
      BY <2>3 DEF Of
    <3> QED
      BY <3>1, <3>2, <2>3, <1>0, <1>2, UpsertedFile
  <2> QED
    BY <1>0, <2>2, <2>3
<1> QED
  BY <1>1, <1>2, ItemKinds

LEMMA RunsItems ==
    ASSUME ScanAssumption, NEW z \in Archives, NEW s \in ServerStates, NEW q \in Seq(Items)
    PROVE  /\ Upserts(s, q) \in ServerStates
           /\ Runs(z, Of(z, s), q, Of(z, Upserts(s, q)))
<1>1. PICK g \in [0..Len(q) -> ServerStates] :
         /\ g[0] = s
         /\ \A i \in 1..Len(q) : g[i] = Upsert(g[i - 1], q[i])
         /\ Upserts(s, q) = g[Len(q)]
  BY UpsertsApply
<1> DEFINE h == [i \in 0..Len(q) |-> Of(z, g[i])]
<1>2. Len(q) \in Nat /\ \A i \in 1..Len(q) : i \in 0..Len(q) /\ i - 1 \in 0..Len(q) /\ q[i] \in Items
  OBVIOUS
<1>3. \A i \in 0..Len(q) : g[i] \in ServerStates /\ h[i] = Of(z, g[i]) /\ h[i] \in ArchiveState
  BY <1>1, OfType
<1>4. h \in [0..Len(q) -> ArchiveState]
  BY <1>3
<1> HIDE DEF h
<1>5. ASSUME NEW i \in 1..Len(q) PROVE h[i] = Upserted(z, h[i - 1], q[i])
  <2>1. /\ i \in 0..Len(q) /\ i - 1 \in 0..Len(q) /\ q[i] \in Items
        /\ g[i - 1] \in ServerStates /\ g[i] = Upsert(g[i - 1], q[i])
    BY <1>1, <1>2
  <2>2. Of(z, Upsert(g[i - 1], q[i])) = Upserted(z, Of(z, g[i - 1]), q[i])
    BY <2>1, UpsertOf
  <2> QED
    BY <1>3, <2>1, <2>2
<1>6. h[0] = Of(z, s) /\ h[Len(q)] = Of(z, Upserts(s, q))
  BY <1>1, <1>2, <1>3
<1>7. Replays(z, q, h)
  BY <1>4, <1>5 DEF Replays
<1>8. Upserts(s, q) \in ServerStates
  BY <1>1, <1>2
<1> QED
  BY <1>6, <1>7, <1>8 DEF Runs

LEMMA RunsType ==
    ASSUME NEW z \in Archives, NEW q \in Seq(Items), NEW t, NEW u, Runs(z, t, q, u)
    PROVE  t \in ArchiveState /\ u \in ArchiveState
BY DEF Runs, Replays

\* Items that are not of the archive leave it alone.
LEMMA RunsElsewhere ==
    ASSUME NEW z \in Archives, NEW q \in Seq(Items), NEW t \in ArchiveState,
           \A i \in 1..Len(q) : q[i].path # z
    PROVE  Runs(z, t, q, t)
<1> DEFINE g == [i \in 0..Len(q) |-> t]
<1>1. Len(q) \in Nat
  OBVIOUS
<1>2. Replays(z, q, g) /\ g[0] = t /\ g[Len(q)] = t
  BY <1>1 DEF Replays, Upserted
<1> QED
  BY <1>2 DEF Runs

LEMMA RunsAppend ==
    ASSUME ScanAssumption, NEW z \in Archives, NEW q \in Seq(Items), NEW item \in Items,
           NEW t, NEW u, Runs(z, t, q, u)
    PROVE  Runs(z, t, Append(q, item), Upserted(z, u, item))
<1>1. PICK g : Replays(z, q, g) /\ g[0] = t /\ g[Len(q)] = u
  BY DEF Runs
<1> DEFINE n == Len(q)
           p == Append(q, item)
           v == Upserted(z, u, item)
           h == [i \in 0..(n + 1) |-> IF i <= n THEN g[i] ELSE v]
<1>2. n \in Nat /\ Len(p) = n + 1 /\ p[n + 1] = item /\ \A i \in 1..n : p[i] = q[i]
  OBVIOUS
<1>3. u \in ArchiveState /\ v \in ArchiveState
  BY <1>1, <1>2, UpsertedType DEF Replays
<1>4. h \in [0..(n + 1) -> ArchiveState]
  BY <1>1, <1>2, <1>3 DEF Replays
<1>5. /\ \A i \in 0..n : h[i] = g[i]
      /\ h[n + 1] = v
  BY <1>2
<1> HIDE DEF h, v
<1>6. ASSUME NEW i \in 1..(n + 1) PROVE h[i] = Upserted(z, h[i - 1], p[i])
  <2>1. CASE i = n + 1
    <3>1. h[i - 1] = u /\ p[i] = item
      BY <1>1, <1>2, <1>5, <2>1
    <3> QED
      BY <3>1, <2>1, <1>5 DEF v
  <2>2. CASE i # n + 1
    <3>1. i \in 1..n /\ i \in 0..n /\ i - 1 \in 0..n
      BY <1>2, <2>2
    <3> QED
      BY <3>1, <1>1, <1>2, <1>5 DEF Replays
  <2> QED
    BY <2>1, <2>2
<1>7. h[0] = t
  BY <1>1, <1>2, <1>5
<1> QED
  BY <1>2, <1>4, <1>5, <1>6, <1>7 DEF Runs, Replays, v

\* A batch has one outcome.
LEMMA RunsUnique ==
    ASSUME NEW z \in Archives, NEW q \in Seq(Items), NEW t, NEW u, NEW v,
           Runs(z, t, q, u), Runs(z, t, q, v)
    PROVE  u = v
<1>1. PICK g : Replays(z, q, g) /\ g[0] = t /\ g[Len(q)] = u
  BY DEF Runs
<1>2. PICK h : Replays(z, q, h) /\ h[0] = t /\ h[Len(q)] = v
  BY DEF Runs
<1> DEFINE I == {i \in Nat : i <= Len(q) => g[i] = h[i]}
<1>3. Len(q) \in Nat
  OBVIOUS
<1>4. 0 \in I
  BY <1>1, <1>2
<1>5. ASSUME NEW i \in Nat, i \in I PROVE i + 1 \in I
  <2> SUFFICES ASSUME i + 1 <= Len(q) PROVE g[i + 1] = h[i + 1]
    OBVIOUS
  <2>1. i + 1 \in 1..Len(q) /\ (i + 1) - 1 = i /\ g[i] = h[i]
    BY <1>3, <1>5
  <2> QED
    BY <2>1, <1>1, <1>2 DEF Replays
<1> HIDE DEF I
<1>6. Nat \subseteq I
  BY <1>4, <1>5, SetInduction
<1> QED
  BY <1>1, <1>2, <1>3, <1>6 DEF I

LEMMA RunsNothing ==
    ASSUME NEW z \in Archives, NEW t \in ArchiveState
    PROVE  /\ Runs(z, t, <<>>, t)
           /\ \A u : Runs(z, t, <<>>, u) => u = t
<1>1. <<>> \in Seq(Items) /\ \A i \in 1..Len(<<>>) : FALSE
  OBVIOUS
<1>2. Runs(z, t, <<>>, t)
  BY <1>1, RunsElsewhere
<1> QED
  BY <1>1, <1>2, RunsUnique

-----------------------------------------------------------------------------
(* The type invariant.                                                      *)

ScanRequests == [deletes : SUBSET Files, items : Seq(Items), failures : SUBSET Files]

PcValues == {"idle", "walk", "files", "extract", "sentinel", "unpack", "members"}
Processing == {"extract", "sentinel", "unpack", "members"}

Shapes ==
    /\ disk \in [Files -> Version]
    /\ rows \in [Files -> Row \cup {NoRow}]
    /\ members \in [Archives -> MemberRows]
    /\ inbox \in Seq(ScanRequests)
    /\ pc \in [Scanners -> PcValues]
    /\ DOMAIN server_files = Scanners /\ DOMAIN current = Scanners
    /\ todo \in [Scanners -> SUBSET Files]
    /\ batch \in [Scanners -> Seq(Items)]
    /\ fails \in [Scanners -> SUBSET Files]
    /\ spoiled \subseteq Files /\ bypassed \subseteq Archives
    /\ ops \in 0..MaxOps /\ watch_requests \in 0..MaxWatch
    /\ failures \in 0..MaxFailures
    /\ \A p \in Files : disk[p] <= ops + 1

\* The file a scanner is at is one of its own, and its mtime is not ahead of
\* the file's.
AtFile(s) ==
    /\ current[s] \in [path : Scope[s], mtime : Version, rest : SUBSET MemberItems]
    /\ IF pc[s] = "extract" THEN current[s].path \in Plain ELSE current[s].path \in Archives
    /\ current[s].mtime <= ops + 1
    /\ disk[current[s].path] = 0 \/ current[s].mtime <= disk[current[s].path]
    /\ \A x \in current[s].rest : x.path = current[s].path

\* A scanner keeps to its scope.
InScope(s) ==
    /\ DOMAIN server_files[s] \subseteq Scope[s]
    /\ todo[s] \subseteq Scope[s]
    /\ \A i \in 1..Len(batch[s]) : batch[s][i].path \in Scope[s]
    /\ Len(batch[s]) <= batch_size
    /\ pc[s] \in {"idle", "walk", "unpack"} => batch[s] = <<>>
    /\ pc[s] = "extract" => Len(batch[s]) < batch_size
    /\ pc[s] \in Processing => AtFile(s)

ScanTyped == Shapes /\ \A s \in Scanners : InScope(s)

LEMMA ScopeFiles ==
    ASSUME ScanAssumption, NEW s \in Scanners
    PROVE  Scope[s] \subseteq Files
BY DEF ScanAssumption

LEMMA TypedTypeOK ==
    ASSUME ScanAssumption, ScanTyped
    PROVE  TypeOK
BY ScopeFiles DEF ScanTyped, Shapes, InScope, TypeOK, PcValues, ScanRequests

LEMMA FileItemType ==
    ASSUME NEW p \in Files, NEW m \in Version, NEW v \in Version
    PROVE  /\ FileItem(p, m, v) \in FileItems /\ FileItem(p, m, v) \in Items
           /\ FileItem(p, m, v).path = p /\ FileItem(p, m, v).mtime = m
BY ItemKinds DEF FileItem, FileItems

LEMMA MemberItemType ==
    ASSUME NEW z \in Archives, NEW x \in Members, NEW v \in Version
    PROVE  /\ MemberItem(z, x, v) \in MemberItems
           /\ MemberItem(z, x, v).path = z /\ MemberItem(z, x, v).member = x
           /\ MemberItem(z, x, v).lines = v
BY DEF MemberItem, MemberItems

LEMMA SentType ==
    ASSUME inbox \in Seq(ScanRequests), NEW dels \in SUBSET Files,
           NEW posts \in Seq(Items), NEW broken \in SUBSET Files
    PROVE  Sent(dels, posts, broken) \in Seq(ScanRequests)
<1>1. Request(dels, posts, broken) \in ScanRequests
  BY DEF Request, ScanRequests
<1> QED
  BY <1>1 DEF Sent

\* The state a request is applied to, once its deletions are made.
Cleared(dels) ==
    [rows |-> [p \in Files |-> IF p \in dels THEN NoRow ELSE rows[p]],
     members |-> [z \in Archives |-> IF z \in dels THEN [x \in Members |-> 0] ELSE members[z]]]

LEMMA ApplyFold ==
    ASSUME NEW r
    PROVE  Apply(r) = Upserts(Cleared(r.deletes), r.items)
BY DEF Apply, Cleared, Upserts

LEMMA ClearedType ==
    ASSUME ScanAssumption, Shapes, NEW dels
    PROVE  Cleared(dels) \in ServerStates
BY NoMembersType DEF Shapes, Cleared, ServerStates, NoMembers

LEMMA ApplyType ==
    ASSUME ScanAssumption, Shapes, NEW r \in ScanRequests
    PROVE  Apply(r) \in ServerStates
<1>1. r.items \in Seq(Items)
  BY DEF ScanRequests
<1>2. Cleared(r.deletes) \in ServerStates
  BY ClearedType, Zenon
<1>3. Upserts(Cleared(r.deletes), r.items) \in ServerStates
  BY <1>1, <1>2, UpsertsType, Zenon
<1> QED
  BY <1>3, ApplyFold

LEMMA TypedInit ==
    ASSUME ScanAssumption, Init
    PROVE  ScanTyped
<1>1. Shapes
  <2>1. 1 \in Version /\ 0 \in Version /\ <<>> \in Seq(ScanRequests) /\ <<>> \in Seq(Items)
    BY DEF ScanAssumption, Version
  <2>2. rows \in [Files -> Row \cup {NoRow}]
    BY <2>1 DEF Init, Row, ScanAssumption
  <2>3. members \in [Archives -> MemberRows]
    BY <2>1 DEF Init, MemberRows
  <2> QED
    BY <2>1, <2>2, <2>3 DEF Init, Shapes, PcValues, ScanAssumption
<1>2. \A s \in Scanners : InScope(s)
  <2>1. DOMAIN NoList = {} /\ Len(<<>>) = 0
    BY DEF NoList
  <2> QED
    BY <2>1 DEF Init, InScope, Processing, ScanAssumption
<1> QED
  BY <1>1, <1>2 DEF ScanTyped

\* A scanner is not affected by a step that leaves its variables, and the file
\* system, alone.
LEMMA InScopeFrame ==
    ASSUME NEW s \in Scanners, InScope(s), UNCHANGED <<disk, ops>>,
           server_files'[s] = server_files[s], todo'[s] = todo[s],
           batch'[s] = batch[s], pc'[s] = pc[s], current'[s] = current[s]
    PROVE  InScope(s)'
BY DEF InScope, AtFile

SameAt(t) ==
    /\ server_files'[t] = server_files[t] /\ todo'[t] = todo[t]
    /\ batch'[t] = batch[t] /\ pc'[t] = pc[t] /\ current'[t] = current[t]

LEMMA ScannerStep ==
    ASSUME ScanTyped, Shapes', NEW s \in Scanners, UNCHANGED <<disk, ops>>,
           \A t \in Scanners \ {s} : SameAt(t), InScope(s)'
    PROVE  ScanTyped'
<1>1. \A t \in Scanners \ {s} : InScope(t)'
  BY InScopeFrame DEF ScanTyped, SameAt
<1> QED
  BY <1>1 DEF ScanTyped

LEMMA OthersStep ==
    ASSUME ScanTyped, Shapes', UNCHANGED <<disk, ops>>, UNCHANGED scanVars
    PROVE  ScanTyped'
<1>1. \A t \in Scanners : InScope(t)'
  BY InScopeFrame DEF ScanTyped, scanVars
<1> QED
  BY <1>1 DEF ScanTyped

\* The file system.
LEMMA TypedDisk ==
    ASSUME ScanAssumption, ScanTyped, NEW p \in Files, Write(p) \/ DeleteFile(p)
    PROVE  ScanTyped'
<1>1. ops + 2 \in Version /\ 0 \in Version /\ ops \in Nat /\ MaxOps \in Nat /\ ops < MaxOps
  BY DEF ScanAssumption, ScanTyped, Shapes, Version, Write, DeleteFile
<1>2. /\ ops' = ops + 1 /\ UNCHANGED scanVars
      /\ disk' = [disk EXCEPT ![p] = ops + 2] \/ disk' = [disk EXCEPT ![p] = 0]
  BY DEF Write, DeleteFile
<1>3. disk \in [Files -> Version] /\ \A q \in Files : disk[q] <= ops + 1 /\ disk[q] \in Nat
  BY <1>1 DEF ScanTyped, Shapes, Version
<1>4. Shapes'
  <2>1. disk' \in [Files -> Version]
    BY <1>1, <1>2, <1>3
  <2>2. \A q \in Files : disk'[q] <= ops' + 1
    <3>1. TAKE q \in Files
    <3>2. disk'[q] = disk[q] \/ disk'[q] = ops + 2 \/ disk'[q] = 0
      BY <1>2, <1>3
    <3>3. disk[q] <= ops + 1 /\ disk[q] \in Nat
      BY <1>3
    <3> QED
      BY <1>1, <1>2, <3>2, <3>3
  <2>3. ops' \in 0..MaxOps
    BY <1>1, <1>2
  <2>4. UNCHANGED <<rows, members, bypassed, inbox, scanVars, spoiled, watch_requests,
                    failures>>
    BY DEF Write, DeleteFile
  <2> QED
    BY <2>1, <2>2, <2>3, <2>4 DEF ScanTyped, Shapes, scanVars
<1>5. ASSUME NEW s \in Scanners PROVE InScope(s)'
  <2>1. UNCHANGED <<server_files, todo, batch, pc, current>>
    BY <1>2 DEF scanVars
  <2>2. InScope(s)
    BY DEF ScanTyped
  <2>3. ASSUME pc[s] \in Processing PROVE AtFile(s)'
    <3> DEFINE f == current[s].path
               m == current[s].mtime
    <3>1. AtFile(s) /\ f \in Files /\ m \in Nat
      BY <2>2, <2>3, ScopeFiles DEF InScope, AtFile, Version
    <3>2. disk'[f] = disk[f] \/ disk'[f] = ops + 2 \/ disk'[f] = 0
      BY <1>2, <1>3, <3>1
    <3>3. disk'[f] = 0 \/ m <= disk'[f]
      BY <1>1, <3>1, <3>2 DEF AtFile
    <3>4. m <= ops' + 1
      BY <1>1, <1>2, <3>1 DEF AtFile
    <3> QED
      BY <2>1, <3>1, <3>3, <3>4 DEF AtFile
  <2> QED
    BY <2>1, <2>2, <2>3 DEF InScope
<1> QED
  BY <1>4, <1>5 DEF ScanTyped

LEMMA TypedIndex ==
    ASSUME ScanAssumption, ScanTyped, Index
    PROVE  ScanTyped'
<1>1. Head(inbox) \in ScanRequests /\ Tail(inbox) \in Seq(ScanRequests)
  BY DEF ScanTyped, Shapes, Index
<1>2. Apply(Head(inbox)) \in ServerStates
  BY <1>1, ApplyType DEF ScanTyped
<1>3. Shapes'
  BY <1>1, <1>2 DEF ScanTyped, Shapes, Index, ServerStates, scanVars, envVars
<1> QED
  BY <1>3, OthersStep DEF Index, envVars

LEMMA TypedWatch ==
    ASSUME ScanAssumption, ScanTyped, NEW p \in Files, WatchRequest(p)
    PROVE  ScanTyped'
<1>1. p \in Files /\ disk[p] \in Version /\ watch_requests' \in 0..MaxWatch
  BY DEF ScanTyped, Shapes, WatchRequest, ScanAssumption
<1>2. <<FileItem(p, disk[p], disk[p])>> \in Seq(Items) /\ <<>> \in Seq(Items)
  BY <1>1, FileItemType
<1>3. /\ Request({p}, <<>>, {}) \in ScanRequests
      /\ Request({}, <<FileItem(p, disk[p], disk[p])>>, {}) \in ScanRequests
  BY <1>1, <1>2 DEF Request, ScanRequests
<1>4. inbox' \in Seq(ScanRequests)
  BY <1>3 DEF WatchRequest, ScanTyped, Shapes
<1>5. Shapes'
  BY <1>1, <1>4 DEF ScanTyped, Shapes, WatchRequest, scanVars
<1> QED
  BY <1>5, OthersStep DEF WatchRequest

LEMMA TypedFetch ==
    ASSUME ScanAssumption, ScanTyped, NEW s \in Scanners, FetchList(s)
    PROVE  ScanTyped'
<1>1. Shapes'
  BY DEF ScanTyped, Shapes, FetchList, envVars, PcValues
<1>2. \A t \in Scanners \ {s} : SameAt(t)
  BY DEF ScanTyped, Shapes, FetchList, SameAt
<1>3. InScope(s)'
  <2>1. /\ DOMAIN server_files'[s] \subseteq Scope[s]
        /\ pc'[s] = "walk" /\ pc[s] = "idle"
        /\ UNCHANGED <<todo, batch>>
    BY DEF ScanTyped, Shapes, FetchList
  <2> QED
    BY <2>1 DEF ScanTyped, InScope, Processing
<1> QED
  BY <1>1, <1>2, <1>3, ScannerStep DEF FetchList, envVars

LEMMA TypedWalk ==
    ASSUME ScanAssumption, ScanTyped, NEW s \in Scanners, WalkAndDelete(s)
    PROVE  ScanTyped'
<1>1. PICK unreadable \in SUBSET {p \in Scope[s] : disk[p] # 0} :
        /\ Cardinality(unreadable) <= 1
        /\ failures + Cardinality(unreadable) <= MaxFailures
        /\ failures' = failures + Cardinality(unreadable)
        /\ LET local == {p \in Scope[s] : disk[p] # 0} \ unreadable
           IN /\ todo' = [todo EXCEPT ![s] = local]
              /\ inbox' = Sent(DOMAIN server_files[s] \ local, <<>>, {})
  BY DEF WalkAndDelete
<1> DEFINE local == {p \in Scope[s] : disk[p] # 0} \ unreadable
<1>2. Cardinality(unreadable) \in Nat
  <2>1. IsFiniteSet(unreadable)
    BY <1>1, ScopeFiles, FS_Subset DEF ScanAssumption
  <2> QED
    BY <2>1, FS_CardinalityType
<1>3. failures' \in 0..MaxFailures
  BY <1>1, <1>2 DEF ScanTyped, Shapes, ScanAssumption
<1>4. local \subseteq Scope[s] /\ local \subseteq Files /\ DOMAIN server_files[s] \subseteq Files
  BY ScopeFiles DEF ScanTyped, InScope
<1>5. inbox' \in Seq(ScanRequests)
  <2>1. /\ inbox \in Seq(ScanRequests) /\ <<>> \in Seq(Items)
        /\ DOMAIN server_files[s] \ local \in SUBSET Files
    BY <1>4 DEF ScanTyped, Shapes
  <2> QED
    BY <1>1, <2>1, SentType
<1>6. /\ todo' = [todo EXCEPT ![s] = local] /\ pc' = [pc EXCEPT ![s] = "files"] /\ pc[s] = "walk"
      /\ UNCHANGED <<disk, rows, members, bypassed, server_files, current, batch, fails,
                     spoiled, ops, watch_requests>>
  BY <1>1 DEF WalkAndDelete
<1> HIDE DEF local
<1>7. Shapes'
  BY <1>3, <1>4, <1>5, <1>6 DEF ScanTyped, Shapes, PcValues
<1>8. \A t \in Scanners \ {s} : SameAt(t)
  BY <1>6 DEF ScanTyped, Shapes, SameAt
<1>9. InScope(s)'
  <2>1. todo'[s] = local /\ pc'[s] = "files"
    BY <1>6 DEF ScanTyped, Shapes
  <2> QED
    BY <1>4, <1>6, <2>1 DEF ScanTyped, InScope, Processing
<1> QED
  BY <1>6, <1>7, <1>8, <1>9, ScannerStep

LEMMA TypedLook ==
    ASSUME ScanAssumption, ScanTyped, NEW s \in Scanners, Look(s)
    PROVE  ScanTyped'
<1>1. PICK p \in todo[s] :
        /\ todo' = [todo EXCEPT ![s] = @ \ {p}]
        /\ \/ /\ current' = [current EXCEPT ![s] =
                                [path |-> p, mtime |-> disk[p], rest |-> {}]]
              /\ pc' = [pc EXCEPT ![s] = IF p \in Plain THEN "extract" ELSE "sentinel"]
           \/ UNCHANGED <<current, pc>>
  BY DEF Look
<1>2. /\ pc[s] = "files" /\ Len(batch[s]) < batch_size
      /\ UNCHANGED <<disk, ops, rows, members, bypassed, inbox, server_files, batch, fails,
                     spoiled, watch_requests, failures>>
  BY DEF Look, envVars
<1>3. Shapes'
  BY <1>1, <1>2 DEF ScanTyped, Shapes, PcValues
<1>4. \A t \in Scanners \ {s} : SameAt(t)
  BY <1>1, <1>2 DEF ScanTyped, Shapes, SameAt
<1>5. p \in Scope[s] /\ p \in Files /\ disk[p] \in Version /\ disk[p] <= ops + 1
  BY ScopeFiles DEF ScanTyped, InScope, Shapes
<1>6. InScope(s)'
  <2>1. InScope(s) /\ todo'[s] = todo[s] \ {p}
    BY <1>1 DEF ScanTyped, Shapes
  <2>2. CASE UNCHANGED <<current, pc>>
    BY <1>2, <2>1, <2>2 DEF InScope, Processing
  <2>3. CASE /\ current' = [current EXCEPT ![s] = [path |-> p, mtime |-> disk[p], rest |-> {}]]
             /\ pc' = [pc EXCEPT ![s] = IF p \in Plain THEN "extract" ELSE "sentinel"]
    <3>1. /\ current'[s] = [path |-> p, mtime |-> disk[p], rest |-> {}]
          /\ pc'[s] = IF p \in Plain THEN "extract" ELSE "sentinel"
      BY <2>3 DEF ScanTyped, Shapes
    <3>2. current'[s].path = p /\ current'[s].mtime = disk[p] /\ current'[s].rest = {}
      BY <3>1
    <3>3. current'[s] \in [path : Scope[s], mtime : Version, rest : SUBSET MemberItems]
      BY <3>1, <1>5
    <3>4. disk[p] <= disk[p]
      BY <1>5 DEF Version
    <3>5. AtFile(s)'
      BY <1>2, <1>5, <3>1, <3>2, <3>3, <3>4 DEF AtFile, Files
    <3>6. pc'[s] \in {"extract", "sentinel"}
      BY <3>1
    <3> QED
      BY <1>2, <2>1, <3>5, <3>6 DEF InScope
  <2> QED
    BY <1>1, <2>2, <2>3
<1> QED
  BY <1>2, <1>3, <1>4, <1>6, ScannerStep

\* Adding an item of one's own to a batch that has room.
LEMMA BatchAppend ==
    ASSUME ScanTyped, NEW s \in Scanners, NEW item \in Items, item.path \in Scope[s],
           Len(batch[s]) < batch_size, batch_size \in Nat
    PROVE  LET q == Append(batch[s], item)
           IN /\ q \in Seq(Items) /\ Len(q) = Len(batch[s]) + 1 /\ Len(q) <= batch_size
              /\ \A i \in 1..Len(q) : q[i].path \in Scope[s]
<1> DEFINE b == batch[s]
           q == Append(b, item)
<1>1. b \in Seq(Items) /\ \A i \in 1..Len(b) : b[i].path \in Scope[s]
  BY DEF ScanTyped, Shapes, InScope
<1>2. q \in Seq(Items) /\ Len(q) = Len(b) + 1 /\ Len(b) \in Nat
      /\ \A i \in 1..Len(q) : IF i = Len(b) + 1 THEN q[i] = item ELSE i \in 1..Len(b) /\ q[i] = b[i]
  BY <1>1
<1>3. \A i \in 1..Len(q) : q[i].path \in Scope[s]
  BY <1>1, <1>2
<1> QED
  BY <1>2, <1>3

LEMMA TypedExtract ==
    ASSUME ScanAssumption, ScanTyped, NEW s \in Scanners, Extract(s)
    PROVE  ScanTyped'
<1> DEFINE p == current[s].path
           m == current[s].mtime
           item(v) == [batch EXCEPT ![s] = Append(@, FileItem(p, m, v))]
<1>1. AtFile(s) /\ p \in Files /\ p \in Scope[s] /\ m \in Version
  BY ScopeFiles DEF ScanTyped, InScope, AtFile, Extract, Processing
<1>2. disk[p] \in Version /\ 0 \in Version /\ failures + 1 \in Nat /\ batch_size \in Nat
  BY <1>1 DEF ScanTyped, Shapes, ScanAssumption, Version
<1>3. /\ \/ \E v \in Version : batch' = item(v)
         \/ UNCHANGED batch
      /\ fails' = [fails EXCEPT ![s] = @ \cup {p}] \/ UNCHANGED fails
      /\ spoiled' = spoiled \cup {p} \/ UNCHANGED spoiled
      /\ failures' = failures \/ (failures < MaxFailures /\ failures' = failures + 1)
      /\ pc[s] = "extract" /\ pc' = [pc EXCEPT ![s] = "files"]
      /\ current' = [current EXCEPT ![s] = NoFile]
      /\ UNCHANGED <<disk, rows, members, bypassed, inbox, server_files, todo, ops,
                     watch_requests>>
  BY <1>2 DEF Extract, Fails
<1>4. Len(batch[s]) < batch_size
  BY <1>3 DEF ScanTyped, InScope
<1>5. /\ batch'[s] \in Seq(Items) /\ Len(batch'[s]) <= batch_size
      /\ \A i \in 1..Len(batch'[s]) : batch'[s][i].path \in Scope[s]
      /\ batch' = [batch EXCEPT ![s] = batch'[s]]
  <2>1. CASE UNCHANGED batch
    BY <2>1 DEF ScanTyped, Shapes, InScope
  <2>2. CASE \E v \in Version : batch' = item(v)
    <3>1. PICK v \in Version : batch' = item(v)
      BY <2>2
    <3>2. batch'[s] = Append(batch[s], FileItem(p, m, v)) /\ batch' = [batch EXCEPT ![s] = batch'[s]]
      BY <3>1 DEF ScanTyped, Shapes
    <3>3. FileItem(p, m, v) \in Items /\ FileItem(p, m, v).path \in Scope[s]
      BY <1>1, FileItemType
    <3> QED
      BY <1>2, <1>4, <3>2, <3>3, BatchAppend
  <2> QED
    BY <1>3, <2>1, <2>2
<1> HIDE DEF p, m, item
<1>6. failures' \in 0..MaxFailures
  BY <1>3 DEF ScanTyped, Shapes, ScanAssumption
<1>7. Shapes'
  <2>0. fails \in [Scanners -> SUBSET Files] /\ spoiled \subseteq Files /\ p \in Files
    BY <1>1 DEF ScanTyped, Shapes
  <2>1. fails' \in [Scanners -> SUBSET Files] /\ spoiled' \subseteq Files
    <3>1. [fails EXCEPT ![s] = @ \cup {p}] \in [Scanners -> SUBSET Files]
      BY <2>0
    <3> QED
      BY <1>3, <2>0, <3>1
  <2>2. batch' \in [Scanners -> Seq(Items)]
    BY <1>5 DEF ScanTyped, Shapes
  <2>3. DOMAIN current' = Scanners /\ pc' \in [Scanners -> PcValues]
    BY <1>3 DEF ScanTyped, Shapes, PcValues
  <2> QED
    BY <1>3, <1>6, <2>1, <2>2, <2>3 DEF ScanTyped, Shapes
<1>8. \A t \in Scanners \ {s} : SameAt(t)
  BY <1>3, <1>5 DEF ScanTyped, Shapes, SameAt
<1>9. InScope(s)'
  BY <1>3, <1>5 DEF ScanTyped, Shapes, InScope, Processing
<1> QED
  BY <1>3, <1>7, <1>8, <1>9, ScannerStep

LEMMA TypedFlush ==
    ASSUME ScanAssumption, ScanTyped, NEW s \in Scanners, Flush(s)
    PROVE  ScanTyped'
<1>1. inbox' \in Seq(ScanRequests)
  BY SentType DEF Flush, ScanTyped, Shapes
<1>2. /\ pc[s] \in {"files", "members"}
      /\ batch' = [batch EXCEPT ![s] = <<>>] /\ fails' = [fails EXCEPT ![s] = {}]
      /\ UNCHANGED <<disk, ops, rows, members, bypassed, pc, server_files, todo, current,
                     spoiled, watch_requests, failures>>
  BY DEF Flush, envVars
<1>3. <<>> \in Seq(Items) /\ Len(<<>>) = 0 /\ 0 <= batch_size
  BY DEF ScanAssumption
<1>4. Shapes'
  BY <1>1, <1>2, <1>3 DEF ScanTyped, Shapes
<1>5. \A t \in Scanners \ {s} : SameAt(t)
  BY <1>2 DEF ScanTyped, Shapes, SameAt
<1>6. InScope(s)'
  <2>1. batch'[s] = <<>>
    BY <1>2 DEF ScanTyped, Shapes
  <2> QED
    BY <1>2, <1>3, <2>1 DEF ScanTyped, InScope, AtFile
<1> QED
  BY <1>2, <1>4, <1>5, <1>6, ScannerStep

LEMMA TypedSentinel ==
    ASSUME ScanAssumption, ScanTyped, NEW s \in Scanners, Sentinel(s)
    PROVE  ScanTyped'
<1>1. /\ pc[s] = "sentinel" /\ pc' = [pc EXCEPT ![s] = "unpack"]
      /\ inbox' = Sent({}, Append(batch[s], FileItem(current[s].path, 0, 0)), fails[s])
      /\ batch' = [batch EXCEPT ![s] = <<>>] /\ fails' = [fails EXCEPT ![s] = {}]
      /\ UNCHANGED <<disk, ops, rows, members, bypassed, server_files, todo, current, spoiled,
                     watch_requests, failures>>
  BY DEF Sentinel, Announce, envVars
<1>2. current[s].path \in Files /\ 0 \in Version
  BY <1>1, ScopeFiles DEF ScanTyped, InScope, AtFile, Processing, ScanAssumption, Version
<1>3. inbox' \in Seq(ScanRequests)
  <2>1. FileItem(current[s].path, 0, 0) \in Items
    BY <1>2, FileItemType
  <2>2. Append(batch[s], FileItem(current[s].path, 0, 0)) \in Seq(Items)
    BY <2>1 DEF ScanTyped, Shapes
  <2> QED
    BY <1>1, <2>2, SentType DEF ScanTyped, Shapes
<1>4. <<>> \in Seq(Items) /\ Len(<<>>) = 0 /\ 0 <= batch_size
  BY DEF ScanAssumption
<1>5. Shapes'
  BY <1>1, <1>3, <1>4 DEF ScanTyped, Shapes, PcValues
<1>6. \A t \in Scanners \ {s} : SameAt(t)
  BY <1>1 DEF ScanTyped, Shapes, SameAt
<1>7. InScope(s)'
  <2>1. batch'[s] = <<>> /\ pc'[s] = "unpack"
    BY <1>1 DEF ScanTyped, Shapes
  <2>2. AtFile(s) /\ InScope(s)
    BY <1>1 DEF ScanTyped, InScope, Processing
  <2>3. AtFile(s)'
    BY <1>1, <2>1, <2>2 DEF AtFile
  <2> QED
    BY <1>1, <1>4, <2>1, <2>2, <2>3 DEF InScope
<1> QED
  BY <1>1, <1>5, <1>6, <1>7, ScannerStep

\* The members of a version of an archive, as the subprocess streams them.
MembersOut(z, v) == {MemberItem(z, x, v) : x \in MembersOf[v]}

LEMMA StreamedType ==
    ASSUME ScanAssumption, NEW z \in Archives, NEW v \in Version, v # 0
    PROVE  MembersOut(z, v) \subseteq MemberItems /\ \A i \in MembersOut(z, v) : i.path = z
<1>1. MembersOf[v] \subseteq Members
  BY DEF ScanAssumption, Version
<1> QED
  BY <1>1, MemberItemType DEF MembersOut

LEMMA TypedUnpack ==
    ASSUME ScanAssumption, ScanTyped, NEW s \in Scanners, Unpack(s)
    PROVE  ScanTyped'
<1> DEFINE z == current[s].path
           rest == IF disk[z] = 0 THEN {} ELSE MembersOut(z, disk[z])
<1>1. /\ pc[s] = "unpack"
      /\ \/ /\ current' = [current EXCEPT ![s].rest = rest]
            /\ pc' = [pc EXCEPT ![s] = "members"]
            /\ UNCHANGED <<fails, failures>>
         \/ /\ failures < MaxFailures /\ failures' = failures + 1
            /\ \E noted \in {{}, {z}} : fails' = [fails EXCEPT ![s] = @ \cup noted]
            /\ current' = [current EXCEPT ![s] = NoFile]
            /\ pc' = [pc EXCEPT ![s] = "files"]
      /\ UNCHANGED <<disk, rows, members, bypassed, inbox, server_files, todo, batch,
                     spoiled, ops, watch_requests>>
  BY DEF Unpack, Fails, MembersOut
<1>2. AtFile(s) /\ InScope(s) /\ z \in Archives /\ z \in Files /\ disk[z] \in Version
  BY <1>1, ScopeFiles DEF ScanTyped, Shapes, InScope, AtFile, Processing
<1>3. rest \subseteq MemberItems /\ \A i \in rest : i.path = z
  BY <1>2, StreamedType
<1> HIDE DEF rest
<1>4. Shapes'
  <2>1. failures' \in 0..MaxFailures
    BY <1>1 DEF ScanTyped, Shapes, ScanAssumption
  <2>2. fails' \in [Scanners -> SUBSET Files]
    <3>1. fails \in [Scanners -> SUBSET Files]
      BY DEF ScanTyped, Shapes
    <3>2. ASSUME NEW noted \in SUBSET Files, fails' = [fails EXCEPT ![s] = @ \cup noted]
          PROVE  fails' \in [Scanners -> SUBSET Files]
      BY <3>1, <3>2
    <3>3. {} \in SUBSET Files /\ {z} \in SUBSET Files
      BY <1>2
    <3> QED
      BY <1>1, <3>1, <3>2, <3>3
  <2>3. DOMAIN current' = Scanners /\ pc' \in [Scanners -> PcValues]
    BY <1>1 DEF ScanTyped, Shapes, PcValues
  <2> QED
    BY <1>1, <2>1, <2>2, <2>3 DEF ScanTyped, Shapes
<1>5. \A t \in Scanners \ {s} : SameAt(t)
  BY <1>1 DEF ScanTyped, Shapes, SameAt
<1>6. InScope(s)'
  <2>1. CASE /\ current' = [current EXCEPT ![s].rest = rest]
             /\ pc' = [pc EXCEPT ![s] = "members"]
    <3>1. pc'[s] = "members" /\ current'[s] = [current[s] EXCEPT !.rest = rest]
      BY <2>1 DEF ScanTyped, Shapes
    <3>2. /\ current'[s] \in [path : Scope[s], mtime : Version, rest : SUBSET MemberItems]
          /\ current'[s].path = z /\ current'[s].mtime = current[s].mtime
          /\ current'[s].rest = rest
      BY <1>2, <1>3, <3>1 DEF AtFile
    <3>3. AtFile(s)'
      BY <1>1, <1>2, <1>3, <3>1, <3>2 DEF AtFile
    <3> QED
      BY <1>1, <1>2, <3>1, <3>3 DEF InScope
  <2>2. CASE pc' = [pc EXCEPT ![s] = "files"]
    <3>1. pc'[s] = "files"
      BY <2>2 DEF ScanTyped, Shapes
    <3> QED
      BY <1>1, <1>2, <3>1 DEF InScope, Processing
  <2> QED
    BY <1>1, <2>1, <2>2
<1> QED
  BY <1>1, <1>4, <1>5, <1>6, ScannerStep

LEMMA TypedMember ==
    ASSUME ScanAssumption, ScanTyped, NEW s \in Scanners, Member(s)
    PROVE  ScanTyped'
<1>1. PICK x \in current[s].rest :
        /\ batch' = [batch EXCEPT ![s] = Append(@, x)]
        /\ current' = [current EXCEPT ![s].rest = @ \ {x}]
  BY DEF Member
<1>2. /\ pc[s] = "members" /\ Len(batch[s]) < batch_size
      /\ UNCHANGED <<disk, ops, rows, members, bypassed, inbox, pc, server_files, todo,
                     fails, spoiled, watch_requests, failures>>
  BY DEF Member, envVars
<1>3. AtFile(s) /\ InScope(s) /\ batch_size \in Nat
  BY <1>2 DEF ScanTyped, InScope, Processing, ScanAssumption
<1>4. x \in MemberItems /\ x \in Items /\ x.path \in Scope[s]
  BY <1>3, ItemKinds DEF AtFile
<1>5. /\ batch'[s] = Append(batch[s], x)
      /\ batch'[s] \in Seq(Items) /\ Len(batch'[s]) <= batch_size
      /\ \A i \in 1..Len(batch'[s]) : batch'[s][i].path \in Scope[s]
      /\ batch' = [batch EXCEPT ![s] = batch'[s]]
  <2>1. batch'[s] = Append(batch[s], x) /\ batch' = [batch EXCEPT ![s] = batch'[s]]
    BY <1>1 DEF ScanTyped, Shapes
  <2> QED
    BY <1>2, <1>3, <1>4, <2>1, BatchAppend
<1>6. Shapes'
  BY <1>1, <1>2, <1>5 DEF ScanTyped, Shapes
<1>7. \A t \in Scanners \ {s} : SameAt(t)
  BY <1>1, <1>2, <1>5 DEF ScanTyped, Shapes, SameAt
<1>8. InScope(s)'
  <2>1. current'[s] = [current[s] EXCEPT !.rest = @ \ {x}]
    BY <1>1 DEF ScanTyped, Shapes
  <2>2. /\ current'[s] \in [path : Scope[s], mtime : Version, rest : SUBSET MemberItems]
        /\ current'[s].path = current[s].path /\ current'[s].mtime = current[s].mtime
        /\ current'[s].rest = current[s].rest \ {x}
    BY <1>3, <2>1 DEF AtFile
  <2>3. AtFile(s)'
    BY <1>2, <1>3, <2>2 DEF AtFile
  <2> QED
    BY <1>2, <1>3, <1>5, <2>3 DEF InScope
<1> QED
  BY <1>2, <1>6, <1>7, <1>8, ScannerStep

LEMMA TypedSubprocessFails ==
    ASSUME ScanAssumption, ScanTyped, NEW s \in Scanners, SubprocessFails(s)
    PROVE  ScanTyped'
<1>1. /\ pc[s] = "members" /\ failures < MaxFailures /\ failures' = failures + 1
      /\ current' = [current EXCEPT ![s].rest = {}]
      /\ fails' = [fails EXCEPT ![s] = @ \cup {current[s].path}]
      /\ spoiled' = spoiled \cup {current[s].path}
      /\ UNCHANGED <<disk, rows, members, bypassed, inbox, pc, server_files, todo, batch, ops,
                     watch_requests>>
  BY DEF SubprocessFails, Fails
<1>2. AtFile(s) /\ InScope(s) /\ current[s].path \in Files
  BY <1>1, ScopeFiles DEF ScanTyped, InScope, AtFile, Processing
<1>3. Shapes'
  <2>1. failures' \in 0..MaxFailures
    BY <1>1 DEF ScanTyped, Shapes, ScanAssumption
  <2> QED
    BY <1>1, <1>2, <2>1 DEF ScanTyped, Shapes
<1>4. \A t \in Scanners \ {s} : SameAt(t)
  BY <1>1 DEF ScanTyped, Shapes, SameAt
<1>5. InScope(s)'
  <2>1. current'[s] = [current[s] EXCEPT !.rest = {}]
    BY <1>1 DEF ScanTyped, Shapes
  <2>2. /\ current'[s] \in [path : Scope[s], mtime : Version, rest : SUBSET MemberItems]
        /\ current'[s].path = current[s].path /\ current'[s].mtime = current[s].mtime
        /\ current'[s].rest = {}
    BY <1>2, <2>1 DEF AtFile
  <2>3. AtFile(s)'
    BY <1>1, <1>2, <2>2 DEF AtFile
  <2> QED
    BY <1>1, <1>2, <2>3 DEF InScope
<1> QED
  BY <1>1, <1>3, <1>4, <1>5, ScannerStep

LEMMA TypedComplete ==
    ASSUME ScanAssumption, ScanTyped, NEW s \in Scanners, Complete(s)
    PROVE  ScanTyped'
<1> DEFINE z == current[s].path
           item == FileItem(z, current[s].mtime, current[s].mtime)
           q == <<item>>
<1>1. /\ pc[s] = "members"
      /\ inbox' = inbox \/ inbox' = Sent({}, batch[s], fails[s])
      /\ fails' = fails \/ fails' = [fails EXCEPT ![s] = {}]
      /\ batch' = [batch EXCEPT ![s] = q]
      /\ current' = [current EXCEPT ![s] = NoFile]
      /\ pc' = [pc EXCEPT ![s] = "files"]
      /\ UNCHANGED <<disk, ops, rows, members, bypassed, server_files, todo, spoiled,
                     watch_requests, failures>>
  BY DEF Complete, envVars
<1>2. AtFile(s) /\ InScope(s) /\ z \in Files /\ z \in Scope[s] /\ current[s].mtime \in Version
  BY <1>1, ScopeFiles DEF ScanTyped, InScope, AtFile, Processing
<1>3. q \in Seq(Items) /\ Len(q) = 1 /\ \A i \in 1..Len(q) : q[i].path = z
  <2>1. item \in Items /\ item.path = z
    BY <1>2, FileItemType
  <2> HIDE DEF item
  <2> QED
    BY <2>1
<1>4. inbox' \in Seq(ScanRequests)
  <2>1. inbox \in Seq(ScanRequests) /\ Sent({}, batch[s], fails[s]) \in Seq(ScanRequests)
    BY SentType DEF ScanTyped, Shapes
  <2> QED
    BY <1>1, <2>1
<1>5. 1 <= batch_size
  BY DEF ScanAssumption
<1> HIDE DEF q
<1>6. Shapes'
  BY <1>1, <1>3, <1>4 DEF ScanTyped, Shapes, PcValues
<1>7. \A t \in Scanners \ {s} : SameAt(t)
  BY <1>1 DEF ScanTyped, Shapes, SameAt
<1>8. InScope(s)'
  <2>1. batch'[s] = q /\ pc'[s] = "files"
    BY <1>1 DEF ScanTyped, Shapes
  <2> QED
    BY <1>1, <1>2, <1>3, <1>5, <2>1 DEF InScope, Processing
<1> QED
  BY <1>1, <1>6, <1>7, <1>8, ScannerStep

LEMMA TypedFinish ==
    ASSUME ScanAssumption, ScanTyped, NEW s \in Scanners, Finish(s)
    PROVE  ScanTyped'
<1>1. inbox' \in Seq(ScanRequests)
  BY SentType DEF Finish, ScanTyped, Shapes
<1>2. /\ batch' = [batch EXCEPT ![s] = <<>>] /\ fails' = [fails EXCEPT ![s] = {}]
      /\ pc' = [pc EXCEPT ![s] = "idle"] /\ server_files' = [server_files EXCEPT ![s] = NoList]
      /\ UNCHANGED <<disk, ops, rows, members, bypassed, todo, current, spoiled,
                     watch_requests, failures>>
  BY DEF Finish, envVars
<1>3. <<>> \in Seq(Items) /\ Len(<<>>) = 0 /\ 0 <= batch_size /\ DOMAIN NoList = {}
  BY DEF ScanAssumption, NoList
<1>4. Shapes'
  BY <1>1, <1>2, <1>3 DEF ScanTyped, Shapes, PcValues
<1>5. \A t \in Scanners \ {s} : SameAt(t)
  BY <1>2 DEF ScanTyped, Shapes, SameAt
<1>6. InScope(s)'
  <2>1. batch'[s] = <<>> /\ pc'[s] = "idle" /\ server_files'[s] = NoList
    BY <1>2 DEF ScanTyped, Shapes
  <2> QED
    BY <1>2, <1>3, <2>1 DEF ScanTyped, InScope, Processing
<1> QED
  BY <1>2, <1>4, <1>5, <1>6, ScannerStep

LEMMA TypedAbort ==
    ASSUME ScanAssumption, ScanTyped, NEW s \in Scanners, Abort(s)
    PROVE  ScanTyped'
<1>1. /\ failures < MaxFailures /\ failures' = failures + 1
      /\ pc' = [pc EXCEPT ![s] = "idle"]
      /\ todo' = [todo EXCEPT ![s] = {}]
      /\ current' = [current EXCEPT ![s] = NoFile]
      /\ batch' = [batch EXCEPT ![s] = <<>>] /\ fails' = [fails EXCEPT ![s] = {}]
      /\ server_files' = [server_files EXCEPT ![s] = NoList]
      /\ UNCHANGED <<disk, rows, members, bypassed, inbox, spoiled, ops, watch_requests>>
  BY DEF Abort, Fails
<1>2. <<>> \in Seq(Items) /\ Len(<<>>) = 0 /\ 0 <= batch_size /\ DOMAIN NoList = {}
  BY DEF ScanAssumption, NoList
<1>3. failures' \in 0..MaxFailures
  BY <1>1 DEF ScanTyped, Shapes, ScanAssumption
<1>4. Shapes'
  BY <1>1, <1>2, <1>3 DEF ScanTyped, Shapes, PcValues
<1>5. \A t \in Scanners \ {s} : SameAt(t)
  BY <1>1 DEF ScanTyped, Shapes, SameAt
<1>6. InScope(s)'
  <2>1. batch'[s] = <<>> /\ pc'[s] = "idle" /\ server_files'[s] = NoList /\ todo'[s] = {}
    BY <1>1 DEF ScanTyped, Shapes
  <2> QED
    BY <1>2, <2>1 DEF InScope, Processing
<1> QED
  BY <1>1, <1>4, <1>5, <1>6, ScannerStep

LEMMA TypedNext ==
    ASSUME ScanAssumption, ScanTyped, [Next]_vars
    PROVE  ScanTyped'
<1>1. CASE UNCHANGED vars
  <2>1. UNCHANGED <<disk, rows, members, bypassed, inbox, scanVars, spoiled, ops,
                    watch_requests, failures>>
    BY <1>1 DEF vars
  <2>2. Shapes'
    BY <2>1 DEF ScanTyped, Shapes, scanVars
  <2> QED
    BY <2>1, <2>2, OthersStep
<1>2. ASSUME NEW s \in Scanners, Scan(s) \/ Abort(s) PROVE ScanTyped'
  BY <1>2, TypedFetch, TypedWalk, TypedLook, TypedExtract, TypedFlush, TypedSentinel, TypedUnpack,
     TypedMember, TypedSubprocessFails, TypedComplete, TypedFinish, TypedAbort, Zenon DEF Scan
<1> QED
  BY <1>1, <1>2, TypedIndex, TypedDisk, TypedWatch, Zenon DEF Next

\* The type invariant: batches stay within their size, and requests, lists and
\* batches within the files, however scans, find-watch and edits interleave.
THEOREM ScanTypeCorrect ==
    ASSUME ScanAssumption
    PROVE  Spec => []TypeOK
<1>1. Init => ScanTyped
  BY TypedInit
<1>2. ScanTyped /\ [Next]_vars => ScanTyped'
  BY TypedNext
<1>3. ScanTyped => TypeOK
  BY TypedTypeOK
<1> QED
  BY <1>1, <1>2, <1>3, PTL DEF Spec

-----------------------------------------------------------------------------
(* The requests under way, replayed for one archive.                        *)

Without(z, t, dels) == IF z \in dels THEN [row |-> NoRow, ms |-> NoMembers] ELSE t

\* g leads from t through the requests; Safe holds after each of them.
Delivers(z, Safe, reqs, g) ==
    /\ g \in [0..Len(reqs) -> ArchiveState \cap Safe]
    /\ \A i \in 1..Len(reqs) :
         Runs(z, Without(z, g[i - 1], reqs[i].deletes), reqs[i].items, g[i])

Leads(z, Safe, t, reqs, u) ==
    \E g : Delivers(z, Safe, reqs, g) /\ g[0] = t /\ g[Len(reqs)] = u

LEMMA WithoutType ==
    ASSUME ScanAssumption, NEW z \in Archives, NEW t \in ArchiveState, NEW dels
    PROVE  Without(z, t, dels) \in ArchiveState
BY NoMembersType DEF Without, ArchiveState

LEMMA LeadsType ==
    ASSUME NEW z, NEW Safe, NEW t, NEW reqs \in Seq(ScanRequests), NEW u,
           Leads(z, Safe, t, reqs, u)
    PROVE  t \in ArchiveState \cap Safe /\ u \in ArchiveState \cap Safe
<1>1. Len(reqs) \in Nat
  OBVIOUS
<1> QED
  BY <1>1 DEF Leads, Delivers

LEMMA LeadsSafer ==
    ASSUME NEW z, NEW Safe, NEW Safer, Safe \subseteq Safer,
           NEW t, NEW reqs \in Seq(ScanRequests), NEW u, Leads(z, Safe, t, reqs, u)
    PROVE  Leads(z, Safer, t, reqs, u)
<1>1. PICK g : Delivers(z, Safe, reqs, g) /\ g[0] = t /\ g[Len(reqs)] = u
  BY DEF Leads
<1>2. g \in [0..Len(reqs) -> ArchiveState \cap Safer]
  BY <1>1 DEF Delivers
<1>3. Delivers(z, Safer, reqs, g)
  BY <1>1, <1>2 DEF Delivers
<1> QED
  BY <1>1, <1>3 DEF Leads

LEMMA LeadsNowhere ==
    ASSUME NEW z, NEW Safe, NEW t \in ArchiveState \cap Safe
    PROVE  Leads(z, Safe, t, <<>>, t)
<1> DEFINE g == [i \in 0..0 |-> t]
<1>1. Len(<<>>) = 0 /\ 1..0 = {}
  OBVIOUS
<1>2. Delivers(z, Safe, <<>>, g) /\ g[0] = t
  BY <1>1 DEF Delivers
<1> QED
  BY <1>1, <1>2 DEF Leads

LEMMA LeadsAppend ==
    ASSUME NEW z, NEW Safe, NEW t, NEW reqs \in Seq(ScanRequests), NEW r \in ScanRequests,
           NEW u, NEW v \in ArchiveState \cap Safe, Leads(z, Safe, t, reqs, u),
           Runs(z, Without(z, u, r.deletes), r.items, v)
    PROVE  Leads(z, Safe, t, Append(reqs, r), v)
<1>1. PICK g : Delivers(z, Safe, reqs, g) /\ g[0] = t /\ g[Len(reqs)] = u
  BY DEF Leads
<1> DEFINE n == Len(reqs)
           p == Append(reqs, r)
           h == [i \in 0..(n + 1) |-> IF i <= n THEN g[i] ELSE v]
<1>2. n \in Nat /\ Len(p) = n + 1 /\ p[n + 1] = r /\ \A i \in 1..n : p[i] = reqs[i]
  OBVIOUS
<1>3. h \in [0..(n + 1) -> ArchiveState \cap Safe]
  BY <1>1, <1>2 DEF Delivers
<1>4. (\A i \in 0..n : h[i] = g[i]) /\ h[n + 1] = v
  BY <1>2
<1> HIDE DEF h
<1>5. ASSUME NEW i \in 1..(n + 1)
      PROVE  Runs(z, Without(z, h[i - 1], p[i].deletes), p[i].items, h[i])
  <2>1. CASE i = n + 1
    <3>1. h[i - 1] = u /\ p[i] = r /\ h[i] = v
      BY <1>1, <1>2, <1>4, <2>1
    <3> QED
      BY <3>1
  <2>2. CASE i # n + 1
    <3>1. i \in 1..n /\ i \in 0..n /\ i - 1 \in 0..n
      BY <1>2, <2>2
    <3>2. h[i - 1] = g[i - 1] /\ h[i] = g[i] /\ p[i] = reqs[i]
      BY <3>1, <1>2, <1>4
    <3>3. Runs(z, Without(z, g[i - 1], reqs[i].deletes), reqs[i].items, g[i])
      BY <3>1, <1>1 DEF Delivers
    <3> QED
      BY <3>2, <3>3
  <2> QED
    BY <2>1, <2>2
<1>6. h[0] = t
  BY <1>1, <1>2, <1>4
<1> QED
  BY <1>2, <1>3, <1>4, <1>5, <1>6 DEF Leads, Delivers

LEMMA LeadsTail ==
    ASSUME NEW z, NEW Safe, NEW t, NEW reqs \in Seq(ScanRequests), reqs # <<>>, NEW u,
           Leads(z, Safe, t, reqs, u)
    PROVE  \E v : /\ Runs(z, Without(z, t, Head(reqs).deletes), Head(reqs).items, v)
                  /\ Leads(z, Safe, v, Tail(reqs), u)
<1>1. PICK g : Delivers(z, Safe, reqs, g) /\ g[0] = t /\ g[Len(reqs)] = u
  BY DEF Leads
<1> DEFINE n == Len(reqs) - 1
           p == Tail(reqs)
           h == [i \in 0..n |-> g[i + 1]]
<1>2. /\ n \in Nat /\ Len(reqs) = n + 1 /\ Len(p) = n
      /\ Head(reqs) = reqs[1] /\ \A i \in 1..n : p[i] = reqs[i + 1]
  OBVIOUS
<1>3. h \in [0..n -> ArchiveState \cap Safe]
  BY <1>1, <1>2 DEF Delivers
<1>4. \A i \in 0..n : h[i] = g[i + 1]
  OBVIOUS
<1> HIDE DEF h
<1>5. ASSUME NEW i \in 1..n
      PROVE  Runs(z, Without(z, h[i - 1], p[i].deletes), p[i].items, h[i])
  <2>1. i + 1 \in 1..Len(reqs) /\ (i + 1) - 1 = i /\ i - 1 \in 0..n /\ i \in 0..n /\ (i - 1) + 1 = i
    BY <1>2
  <2>2. Runs(z, Without(z, g[(i + 1) - 1], reqs[i + 1].deletes), reqs[i + 1].items, g[i + 1])
    BY <2>1, <1>1 DEF Delivers
  <2>3. h[i - 1] = g[i] /\ h[i] = g[i + 1] /\ p[i] = reqs[i + 1]
    BY <2>1, <1>2, <1>4
  <2> QED
    BY <2>1, <2>2, <2>3
<1>6. Delivers(z, Safe, p, h)
  BY <1>2, <1>3, <1>5 DEF Delivers
<1>7. h[0] = g[1] /\ h[n] = u
  BY <1>1, <1>2, <1>4
<1>8. Runs(z, Without(z, t, Head(reqs).deletes), Head(reqs).items, g[1])
  <2>1. 1 \in 1..Len(reqs) /\ 1 - 1 = 0
    BY <1>2
  <2> QED
    BY <2>1, <1>1, <1>2 DEF Delivers
<1> QED
  BY <1>2, <1>6, <1>7, <1>8 DEF Leads

\* A request that is sent, or is empty and is not.
LEMMA LeadsSent ==
    ASSUME ScanAssumption, NEW z \in Archives, NEW Safe, NEW t, NEW u,
           inbox \in Seq(ScanRequests), Leads(z, Safe, t, inbox, u),
           NEW dels \in SUBSET Files, NEW posts \in Seq(Items), NEW broken \in SUBSET Files,
           NEW v \in ArchiveState \cap Safe, Runs(z, Without(z, u, dels), posts, v)
    PROVE  Leads(z, Safe, t, Sent(dels, posts, broken), v)
<1>1. CASE dels = {} /\ posts = <<>> /\ broken = {}
  <2>1. Without(z, u, dels) = u /\ u \in ArchiveState
    BY <1>1, LeadsType DEF Without
  <2>2. v = u
    BY <1>1, <2>1, RunsNothing
  <2> QED
    BY <1>1, <2>2 DEF Sent
<1>2. CASE ~(dels = {} /\ posts = <<>> /\ broken = {})
  <2> DEFINE r == Request(dels, posts, broken)
  <2>1. r \in ScanRequests /\ r.deletes = dels /\ r.items = posts
    BY DEF Request, ScanRequests
  <2>2. Sent(dels, posts, broken) = Append(inbox, r)
    BY <1>2 DEF Sent
  <2> HIDE DEF r
  <2>3. Leads(z, Safe, t, Append(inbox, r), v)
    BY <2>1, LeadsAppend, Zenon
  <2> QED
    BY <2>2, <2>3
<1> QED
  BY <1>1, <1>2

-----------------------------------------------------------------------------
(* An archive with its real mtime has its members.                          *)

\* Scans that run at the same time share no archive.  Otherwise a completion of
\* one scan falls behind the sentinel of another: section 7 of the README.
ArchivesApart ==
    \A s, t \in Scanners : s # t => Scope[s] \cap Scope[t] \cap Archives = {}

Outdated(z, m) == disk[z] = 0 \/ disk[z] > m

Exactly(v) == [x \in Members |-> IF x \in MembersOf[v] THEN v ELSE 0]

\* The states of an archive CompleteArchives allows.
Sound(z) ==
    {t \in ArchiveState : t.row # NoRow =>
        /\ t.row.mtime <= ops + 1
        /\ \/ z \in spoiled
           \/ t.row.mtime = 0
           \/ Outdated(z, t.row.mtime)
           \/ t.ms = Exactly(t.row.mtime)}

\* Whatever its members are, the next scan looks at it.
Announced(z, t) ==
    t.row # NoRow => t.row.mtime = 0 \/ Outdated(z, t.row.mtime)

\* The members of a version that are not among those left.
SoFar(z, m, rest) ==
    [x \in Members |-> IF x \in MembersOf[m] /\ MemberItem(z, x, m) \notin rest THEN m ELSE 0]

\* The members that were sent and those that are left are the archive's, unless
\* the archive has changed or its extractor failed.
Streams(z, s, t) ==
    LET m == current[s].mtime
        rest == current[s].rest
    IN  \/ m = 0
        \/ z \in spoiled
        \/ Outdated(z, m)
        \/ /\ rest \subseteq MembersOut(z, m)
           /\ t.ms = SoFar(z, m, rest)

\* What the scanner has in its batch, after what is under way.
Prepares(z, s, t) ==
    /\ t \in Sound(z)
    /\ current[s].path = z =>
         /\ pc[s] = "unpack" =>
              Announced(z, t) /\ (t.ms = NoMembers \/ Outdated(z, current[s].mtime))
         /\ pc[s] = "members" => Announced(z, t) /\ Streams(z, s, t)

Now(z) == [row |-> rows[z], ms |-> members[z]]

Tracked(z) ==
    \E t : /\ Leads(z, Sound(z), Now(z), inbox, t)
           /\ \A s \in Scanners : z \in Scope[s] =>
                \E u : Runs(z, t, batch[s], u) /\ Prepares(z, s, u)

LEMMA SoundNow ==
    ASSUME ScanAssumption, ScanTyped, NEW z \in Archives, Tracked(z)
    PROVE  Now(z) \in Sound(z)
<1>1. PICK t : Leads(z, Sound(z), Now(z), inbox, t)
  BY DEF Tracked
<1>2. inbox \in Seq(ScanRequests)
  BY DEF ScanTyped, Shapes
<1> QED
  BY <1>1, <1>2, LeadsType

\* What a step of a scanner, or of find-watch, must keep.
LEMMA KeepsSound ==
    ASSUME NEW z \in Archives, UNCHANGED <<disk, ops>>, spoiled \subseteq spoiled'
    PROVE  Sound(z) \subseteq Sound(z)'
BY DEF Sound, Outdated

LEMMA KeepsPrepared ==
    ASSUME NEW z \in Archives, NEW s, UNCHANGED <<disk, ops>>, spoiled \subseteq spoiled',
           pc'[s] = pc[s], current'[s] = current[s], NEW u, Prepares(z, s, u)
    PROVE  Prepares(z, s, u)'
<1>1. u \in Sound(z)'
  BY KeepsSound DEF Prepares
<1>2. Streams(z, s, u) => Streams(z, s, u)'
  BY DEF Streams, Outdated
<1>3. Announced(z, u) => Announced(z, u)'
  BY DEF Announced, Outdated
<1> QED
  BY <1>1, <1>2, <1>3 DEF Prepares, Outdated

LEMMA TrackedInit ==
    ASSUME ScanAssumption, Init, NEW z \in Archives
    PROVE  Tracked(z)
<1> DEFINE t == Now(z)
<1>1. ScanTyped
  BY TypedInit
<1>2. z \in Files /\ z \notin OldRows
  BY DEF Files, ScanAssumption
<1>3. t = [row |-> NoRow, ms |-> NoMembers]
  BY <1>2 DEF Init, Now, NoMembers
<1>4. t \in ArchiveState /\ t \in Sound(z)
  BY <1>3, NoMembersType DEF ArchiveState, Sound
<1> HIDE DEF t
<1>5. Leads(z, Sound(z), t, inbox, t)
  BY <1>4, LeadsNowhere DEF Init
<1>6. ASSUME NEW s \in Scanners PROVE Runs(z, t, batch[s], t) /\ Prepares(z, s, t)
  BY <1>4, RunsNothing DEF Init, Prepares
<1> QED
  BY <1>5, <1>6 DEF Tracked, t

\* The file on disk only ever gets newer than what is under way.
LEMMA TrackedDisk ==
    ASSUME ScanAssumption, ScanTyped, NEW p \in Files, Write(p) \/ DeleteFile(p),
           NEW z \in Archives, Tracked(z)
    PROVE  Tracked(z)'
<1>1. /\ ops' = ops + 1 /\ UNCHANGED <<rows, members, inbox, scanVars, spoiled>>
      /\ disk' = [disk EXCEPT ![p] = ops + 2] \/ disk' = [disk EXCEPT ![p] = 0]
  BY DEF Write, DeleteFile
<1>2. z \in Files /\ ops \in Nat /\ disk \in [Files -> Version]
  BY DEF ScanTyped, Shapes, Files
<1>3. disk'[z] = disk[z] \/ disk'[z] = ops + 2 \/ disk'[z] = 0
  BY <1>1, <1>2
<1>4. \A m \in Nat : m <= ops + 1 /\ Outdated(z, m) => Outdated(z, m)'
  BY <1>2, <1>3 DEF Outdated
<1>5. \A t \in ArchiveState : t.row # NoRow => t.row.mtime \in Nat
  BY DEF ArchiveState, Row, Version
<1>6. Sound(z) \subseteq Sound(z)'
  BY <1>1, <1>2, <1>4, <1>5 DEF Sound
<1>7. ASSUME NEW s \in Scanners, NEW u, Prepares(z, s, u)
      PROVE  Prepares(z, s, u)'
  <2>1. pc' = pc /\ current' = current
    BY <1>1 DEF scanVars
  <2>2. ASSUME pc[s] = "members", Streams(z, s, u) PROVE Streams(z, s, u)'
    <3>1. current[s].mtime \in Nat /\ current[s].mtime <= ops + 1
      BY <2>2 DEF ScanTyped, InScope, AtFile, Processing, Version
    <3> QED
      BY <1>1, <1>4, <2>1, <2>2, <3>1 DEF Streams
  <2>3. ASSUME pc[s] = "unpack", Outdated(z, current[s].mtime)
        PROVE  Outdated(z, current[s].mtime)'
    <3>1. current[s].mtime \in Nat /\ current[s].mtime <= ops + 1
      BY <2>3 DEF ScanTyped, InScope, AtFile, Processing, Version
    <3> QED
      BY <1>4, <2>1, <2>3, <3>1
  <2>4. Announced(z, u) => Announced(z, u)'
    <3>1. u \in ArchiveState /\ (u.row # NoRow => u.row.mtime <= ops + 1)
      BY <1>7 DEF Prepares, Sound
    <3> QED
      BY <1>4, <1>5, <3>1 DEF Announced
  <2> QED
    BY <1>6, <1>7, <2>1, <2>2, <2>3, <2>4 DEF Prepares
<1>8. PICK t : /\ Leads(z, Sound(z), Now(z), inbox, t)
               /\ \A s \in Scanners : z \in Scope[s] =>
                    \E u : Runs(z, t, batch[s], u) /\ Prepares(z, s, u)
  BY DEF Tracked
<1>9. Leads(z, Sound(z)', Now(z), inbox, t)
  BY <1>6, <1>8, LeadsSafer DEF ScanTyped, Shapes
<1>10. Now(z)' = Now(z) /\ inbox' = inbox /\ batch' = batch
  BY <1>1 DEF Now, scanVars
<1>11. \A s \in Scanners : z \in Scope[s] => \E u : Runs(z, t, batch'[s], u) /\ Prepares(z, s, u)'
  BY <1>7, <1>8, <1>10
<1>12. Leads(z, Sound(z)', Now(z)', inbox', t)
  BY <1>9, <1>10
<1> QED
  BY <1>11, <1>12 DEF Tracked

\* The worker takes the next request, and the archive is where the replay says.
LEMMA TrackedIndex ==
    ASSUME ScanAssumption, ScanTyped, Index, NEW z \in Archives, Tracked(z)
    PROVE  Tracked(z)'
<1> DEFINE r == Head(inbox)
<1>1. PICK t : /\ Leads(z, Sound(z), Now(z), inbox, t)
               /\ \A s \in Scanners : z \in Scope[s] =>
                    \E u : Runs(z, t, batch[s], u) /\ Prepares(z, s, u)
  BY DEF Tracked
<1>2. inbox \in Seq(ScanRequests) /\ inbox # <<>>
  BY DEF ScanTyped, Shapes, Index
<1>3. r \in ScanRequests /\ r.items \in Seq(Items)
  <2>1. r \in ScanRequests
    BY <1>2
  <2> HIDE DEF r
  <2> QED
    BY <2>1 DEF ScanRequests
<1>4. PICK v : /\ Runs(z, Without(z, Now(z), r.deletes), r.items, v)
               /\ Leads(z, Sound(z), v, Tail(inbox), t)
  BY <1>1, <1>2, LeadsTail
<1>5. Cleared(r.deletes) \in ServerStates
  BY ClearedType, Zenon DEF ScanTyped
<1>6. Of(z, Cleared(r.deletes)) = Without(z, Now(z), r.deletes)
  BY DEF Of, Cleared, Without, Now, NoMembers, Files
<1>7. Runs(z, Without(z, Now(z), r.deletes), r.items, Of(z, Apply(r)))
  <2>1. Runs(z, Of(z, Cleared(r.deletes)), r.items, Of(z, Upserts(Cleared(r.deletes), r.items)))
    BY <1>3, <1>5, RunsItems, Zenon
  <2> QED
    BY <1>6, <2>1, ApplyFold
<1>8. v = Of(z, Apply(r))
  BY <1>3, <1>4, <1>7, RunsUnique
<1>9. Now(z)' = v /\ inbox' = Tail(inbox)
  BY <1>8 DEF Index, Of, Now
<1>10. UNCHANGED <<disk, ops, spoiled, batch, pc, current>>
  BY DEF Index, scanVars, envVars
<1>11. Sound(z)' = Sound(z)
  BY <1>10 DEF Sound, Outdated
<1>12. \A s \in Scanners : z \in Scope[s] => \E u : Runs(z, t, batch'[s], u) /\ Prepares(z, s, u)'
  BY <1>1, <1>10, KeepsPrepared
<1>13. Leads(z, Sound(z)', Now(z)', inbox', t)
  BY <1>4, <1>9, <1>11
<1> QED
  BY <1>12, <1>13 DEF Tracked

\* A step that sends nothing of the archive, by find-watch or a scanner it does
\* not belong to.
LEMMA TrackedElsewhere ==
    ASSUME ScanAssumption, ScanTyped, NEW z \in Archives, Tracked(z),
           UNCHANGED <<disk, ops, rows, members>>, spoiled \subseteq spoiled',
           \A s \in Scanners : z \in Scope[s] =>
                pc'[s] = pc[s] /\ current'[s] = current[s] /\ batch'[s] = batch[s],
           \/ inbox' = inbox
           \/ \E r \in ScanRequests :
                /\ inbox' = Append(inbox, r)
                /\ z \notin r.deletes
                /\ \A i \in 1..Len(r.items) : r.items[i].path # z
    PROVE  Tracked(z)'
<1>1. PICK t : /\ Leads(z, Sound(z), Now(z), inbox, t)
               /\ \A s \in Scanners : z \in Scope[s] =>
                    \E u : Runs(z, t, batch[s], u) /\ Prepares(z, s, u)
  BY DEF Tracked
<1>2. Sound(z) \subseteq Sound(z)' /\ Now(z)' = Now(z) /\ inbox \in Seq(ScanRequests)
  BY KeepsSound DEF Now, ScanTyped, Shapes
<1>3. Leads(z, Sound(z)', Now(z), inbox, t) /\ t \in ArchiveState \cap Sound(z)'
  BY <1>1, <1>2, LeadsSafer, LeadsType
<1>4. Leads(z, Sound(z)', Now(z)', inbox', t)
  <2>1. CASE inbox' = inbox
    BY <1>2, <1>3, <2>1
  <2>2. ASSUME NEW r \in ScanRequests, inbox' = Append(inbox, r), z \notin r.deletes,
               \A i \in 1..Len(r.items) : r.items[i].path # z
        PROVE  Leads(z, Sound(z)', Now(z)', inbox', t)
    <3>1. r.items \in Seq(Items) /\ Without(z, t, r.deletes) = t
      BY <2>2 DEF ScanRequests, Without
    <3>2. Runs(z, Without(z, t, r.deletes), r.items, t)
      BY <1>3, <2>2, <3>1, RunsElsewhere
    <3>3. Leads(z, Sound(z)', Now(z), Append(inbox, r), t)
      BY <1>2, <1>3, <3>2, LeadsAppend
    <3> QED
      BY <1>2, <2>2, <3>3
  <2> QED
    BY <2>1, <2>2
<1>5. \A s \in Scanners : z \in Scope[s] => \E u : Runs(z, t, batch'[s], u) /\ Prepares(z, s, u)'
  BY <1>1, KeepsPrepared
<1> QED
  BY <1>4, <1>5 DEF Tracked

\* What a batch says of a file is not ahead of the file system.
Dated(q) == \A i \in 1..Len(q) : "member" \in DOMAIN q[i] \/ q[i].mtime <= ops + 1

BatchesDated == \A s \in Scanners : Dated(batch[s])

LEMMA DatedInit ==
    ASSUME Init
    PROVE  BatchesDated
BY DEF Init, BatchesDated, Dated

LEMMA DatedAppend ==
    ASSUME NEW q \in Seq(Items), Dated(q), NEW item \in Items,
           "member" \in DOMAIN item \/ item.mtime <= ops + 1
    PROVE  Dated(Append(q, item))
<1> DEFINE p == Append(q, item)
<1>1. Len(p) = Len(q) + 1 /\ Len(q) \in Nat
      /\ \A i \in 1..Len(p) : IF i = Len(q) + 1 THEN p[i] = item
                              ELSE i \in 1..Len(q) /\ p[i] = q[i]
  OBVIOUS
<1> HIDE DEF p
<1>2. \A i \in 1..Len(p) : "member" \in DOMAIN p[i] \/ p[i].mtime <= ops + 1
  BY <1>1 DEF Dated
<1> QED
  BY <1>2 DEF Dated, p

LEMMA DatedScan ==
    ASSUME ScanAssumption, ScanTyped, BatchesDated, NEW s \in Scanners, Scan(s) \/ Abort(s)
    PROVE  BatchesDated'
<1> DEFINE p == current[s].path
           m == current[s].mtime
<1>0. /\ batch \in [Scanners -> Seq(Items)] /\ Dated(batch[s]) /\ Dated(<<>>)
      /\ ops \in Nat
  BY DEF ScanTyped, Shapes, BatchesDated, Dated
<1>1. /\ ops' = ops /\ (\A t \in Scanners \ {s} : batch'[t] = batch[t])
      /\ Dated(batch'[s])
  <2>1. CASE /\ ops' = ops /\ (UNCHANGED batch \/ batch' = [batch EXCEPT ![s] = <<>>])
    BY <1>0, <2>1
  <2>2. CASE FetchList(s) \/ Look(s) \/ Unpack(s)
    BY <2>1, <2>2 DEF FetchList, Look, Unpack, envVars
  <2>3. CASE WalkAndDelete(s) \/ SubprocessFails(s)
    BY <2>1, <2>3 DEF WalkAndDelete, SubprocessFails
  <2>4. CASE Flush(s) \/ Sentinel(s) \/ Finish(s) \/ Abort(s)
    BY <2>1, <2>4 DEF Flush, Sentinel, Announce, Finish, Abort, envVars
  <2>5. CASE Extract(s)
    <3>1. p \in Files /\ m \in Version /\ m <= ops + 1 /\ disk[p] \in Version /\ 0 \in Version
      BY <2>5, ScopeFiles
      DEF ScanTyped, Shapes, InScope, AtFile, Extract, Processing, ScanAssumption, Version
    <3>2. CASE UNCHANGED batch
      BY <2>1, <2>5, <3>2 DEF Extract
    <3>3. ASSUME NEW v \in Version, batch' = [batch EXCEPT ![s] = Append(@, FileItem(p, m, v))]
          PROVE  /\ ops' = ops /\ (\A t \in Scanners \ {s} : batch'[t] = batch[t])
                 /\ Dated(batch'[s])
      <4>1. FileItem(p, m, v) \in Items /\ FileItem(p, m, v).mtime <= ops + 1
        BY <3>1, FileItemType
      <4>2. Dated(Append(batch[s], FileItem(p, m, v)))
        BY <1>0, <4>1, DatedAppend
      <4>3. batch'[s] = Append(batch[s], FileItem(p, m, v))
        BY <1>0, <3>3
      <4> QED
        BY <1>0, <2>5, <3>3, <4>2, <4>3 DEF Extract
    <3> QED
      BY <2>5, <3>1, <3>2, <3>3 DEF Extract
  <2>6. CASE Member(s)
    <3>1. PICK item \in current[s].rest : batch' = [batch EXCEPT ![s] = Append(@, item)]
      BY <2>6 DEF Member
    <3>2. item \in Items /\ "member" \in DOMAIN item
      BY <2>6, ItemKinds DEF Member, ScanTyped, InScope, AtFile, Processing
    <3>3. Dated(Append(batch[s], item))
      BY <1>0, <3>2, DatedAppend
    <3>4. batch'[s] = Append(batch[s], item)
      BY <1>0, <3>1
    <3> QED
      BY <1>0, <2>6, <3>1, <3>3, <3>4 DEF Member, envVars
  <2>7. CASE Complete(s)
    <3> DEFINE item == FileItem(p, m, m)
    <3>1. p \in Files /\ m \in Version /\ m <= ops + 1
      BY <2>7, ScopeFiles DEF Complete, ScanTyped, InScope, AtFile, Processing
    <3>2. item \in Items /\ item.mtime <= ops + 1
      BY <3>1, FileItemType
    <3> HIDE DEF item
    <3>3. Dated(Append(<<>>, item))
      <4>1. <<>> \in Seq(Items)
        OBVIOUS
      <4> QED
        BY <1>0, <3>2, <4>1, DatedAppend
    <3>4. batch' = [batch EXCEPT ![s] = <<item>>] /\ Append(<<>>, item) = <<item>>
      BY <2>7 DEF Complete, item
    <3>5. batch'[s] = <<item>>
      BY <1>0, <3>4
    <3> QED
      BY <1>0, <2>7, <3>3, <3>4, <3>5 DEF Complete, envVars
  <2> QED
    BY <2>2, <2>3, <2>4, <2>5, <2>6, <2>7 DEF Scan
<1>2. ASSUME NEW t \in Scanners PROVE Dated(batch[t])'
  BY <1>0, <1>1, <1>2 DEF BatchesDated, Dated
<1> QED
  BY <1>2 DEF BatchesDated

LEMMA DatedNext ==
    ASSUME ScanAssumption, ScanTyped, BatchesDated, [Next]_vars
    PROVE  BatchesDated'
<1>0. batch \in [Scanners -> Seq(Items)] /\ ops \in Nat
  BY DEF ScanTyped, Shapes
<1>1. CASE UNCHANGED batch /\ (ops' = ops \/ ops' = ops + 1)
  <2>1. SUFFICES ASSUME NEW s \in Scanners, NEW i \in 1..Len(batch[s]),
                        "member" \notin DOMAIN batch[s][i]
                 PROVE  batch[s][i].mtime <= ops' + 1
    BY <1>1 DEF BatchesDated, Dated
  <2>2. batch[s][i] \in Items /\ batch[s][i].mtime <= ops + 1
    BY <1>0, <2>1 DEF BatchesDated, Dated
  <2>3. batch[s][i].mtime \in Nat
    BY <2>1, <2>2, ItemKinds DEF FileItems, Version
  <2> QED
    BY <1>0, <1>1, <2>2, <2>3
<1>2. CASE UNCHANGED vars
  BY <1>1, <1>2 DEF vars, scanVars
<1>3. CASE Index
  BY <1>1, <1>3 DEF Index, scanVars, envVars
<1>4. ASSUME NEW p \in Files, Write(p) \/ DeleteFile(p) \/ WatchRequest(p)
      PROVE  BatchesDated'
  BY <1>1, <1>4 DEF Write, DeleteFile, WatchRequest, scanVars
<1> QED
  BY <1>2, <1>3, <1>4, DatedScan DEF Next

\* What a batch makes of an archive that is gone.
Blank == [row |-> NoRow, ms |-> NoMembers]

LEMMA RunsFromGone ==
    ASSUME ScanAssumption, ScanTyped, NEW z \in Archives, NEW q \in Seq(Items), Dated(q)
    PROVE  \E w : Runs(z, Blank, q, w) /\ (w.row # NoRow => w.row.mtime <= ops + 1)
<1>1. Cleared(Files) \in ServerStates
  BY ClearedType, Zenon DEF ScanTyped
<1>2. Of(z, Cleared(Files)) = Blank
  BY DEF Of, Cleared, Blank, NoMembers, Files
<1>3. PICK w : Runs(z, Blank, q, w)
  BY <1>1, <1>2, RunsItems, Zenon
<1>4. PICK g : Replays(z, q, g) /\ g[0] = Blank /\ g[Len(q)] = w
  BY <1>3 DEF Runs
<1> DEFINE I == {i \in Nat : i <= Len(q) => (g[i].row # NoRow => g[i].row.mtime <= ops + 1)}
<1>5. 0 \in I
  BY <1>4 DEF Blank
<1>6. ASSUME NEW i \in Nat, i \in I PROVE i + 1 \in I
  <2> SUFFICES ASSUME i + 1 <= Len(q), g[i + 1].row # NoRow
               PROVE  g[i + 1].row.mtime <= ops + 1
    OBVIOUS
  <2> DEFINE item == q[i + 1]
  <2>1. /\ i + 1 \in 1..Len(q) /\ (i + 1) - 1 = i /\ i \in 0..Len(q)
        /\ g[i].row # NoRow => g[i].row.mtime <= ops + 1
    BY <1>6
  <2>2. g[i + 1] = Upserted(z, g[i], item) /\ g[i] \in ArchiveState /\ item \in Items
    BY <2>1, <1>4 DEF Replays
  <2>3. "member" \in DOMAIN item \/ item.mtime <= ops + 1
    BY <2>1 DEF Dated
  <2> HIDE DEF item
  <2>4. CASE item.path # z
    BY <2>1, <2>2, <2>4 DEF Upserted
  <2>5. CASE item.path = z /\ item \in MemberItems
    <3>1. g[i + 1].row = g[i].row
      BY <2>2, <2>5, UpsertedMember
    <3> QED
      BY <2>1, <3>1
  <2>6. CASE item.path = z /\ item \in FileItems
    <3>1. "member" \notin DOMAIN item
      BY <2>6, ItemKinds
    <3>2. g[i + 1] = g[i] \/ g[i + 1].row = IndexedRow(item)
      BY <2>2, <2>6, UpsertedFile
    <3>3. IndexedRow(item).mtime = item.mtime
      BY DEF IndexedRow
    <3> QED
      BY <2>1, <2>3, <3>1, <3>2, <3>3
  <2> QED
    BY <2>2, <2>4, <2>5, <2>6, ItemKinds
<1> HIDE DEF I
<1>7. Nat \subseteq I
  BY <1>5, <1>6, SetInduction
<1>8. Len(q) \in Nat
  OBVIOUS
<1> QED
  BY <1>3, <1>4, <1>7, <1>8 DEF I

\* An update of find-watch for the archive takes it out of account; a deletion
\* is sent when the file is gone, and whatever a scanner has of it is outdated.
LEMMA TrackedWatch ==
    ASSUME ScanAssumption, ScanTyped, BatchesDated, NEW p \in Files, WatchRequest(p),
           NEW z \in Archives, Tracked(z)
    PROVE  z \in bypassed' \/ Tracked(z)'
<1> DEFINE item == FileItem(p, disk[p], disk[p])
           gone == Request({p}, <<>>, {})
           new == Request({}, <<item>>, {})
<1>1. disk[p] \in Version
  BY DEF ScanTyped, Shapes
<1>2. item \in Items /\ item.path = p
  BY <1>1, FileItemType
<1> HIDE DEF item
<1>3. <<item>> \in Seq(Items) /\ <<>> \in Seq(Items) /\ Len(<<>>) = 0 /\ Len(<<item>>) = 1
  BY <1>2
<1>4. /\ gone \in ScanRequests /\ gone.deletes = {p} /\ gone.items = <<>>
      /\ new \in ScanRequests /\ new.deletes = {} /\ new.items = <<item>>
  BY <1>3 DEF Request, ScanRequests
<1>5. /\ inbox' = Append(inbox, IF disk[p] = 0 THEN gone ELSE new)
      /\ disk[p] # 0 /\ p \in Archives => p \in bypassed'
      /\ UNCHANGED <<disk, ops, rows, members, pc, current, batch, spoiled>>
  BY DEF WatchRequest, item, scanVars
<1> HIDE DEF gone, new
<1>6. CASE p # z
  <2>1. \E r \in ScanRequests :
          /\ inbox' = Append(inbox, r)
          /\ z \notin r.deletes
          /\ \A i \in 1..Len(r.items) : r.items[i].path # z
    BY <1>2, <1>3, <1>4, <1>5, <1>6
  <2> QED
    BY <1>5, <2>1, TrackedElsewhere
<1>7. CASE p = z /\ disk[z] # 0
  BY <1>5, <1>7
<1>8. CASE p = z /\ disk[z] = 0
  <2>1. PICK t : Leads(z, Sound(z), Now(z), inbox, t)
    BY DEF Tracked
  <2>2. inbox \in Seq(ScanRequests) /\ t \in ArchiveState
    BY <2>1, LeadsType DEF ScanTyped, Shapes
  <2>3. Blank \in ArchiveState /\ Blank \in Sound(z)
    BY NoMembersType DEF Blank, ArchiveState, Sound
  <2>4. Without(z, t, gone.deletes) = Blank
    BY <1>4, <1>8 DEF Without, Blank
  <2>5. Runs(z, Blank, gone.items, Blank)
    BY <1>4, <2>3, RunsNothing
  <2>6. Leads(z, Sound(z), Now(z), Append(inbox, gone), Blank)
    BY <1>4, <2>1, <2>2, <2>3, <2>4, <2>5, LeadsAppend
  <2>7. Sound(z)' = Sound(z) /\ Now(z)' = Now(z) /\ inbox' = Append(inbox, gone)
    BY <1>5, <1>8 DEF Now, Sound, Outdated
  <2>8. Leads(z, Sound(z)', Now(z)', inbox', Blank)
    BY <2>6, <2>7
  <2>9. ASSUME NEW s \in Scanners PROVE \E u : Runs(z, Blank, batch'[s], u) /\ Prepares(z, s, u)'
    <3>1. batch[s] \in Seq(Items) /\ Dated(batch[s])
      BY DEF ScanTyped, Shapes, BatchesDated
    <3>2. PICK u : Runs(z, Blank, batch[s], u) /\ (u.row # NoRow => u.row.mtime <= ops + 1)
      BY <3>1, RunsFromGone
    <3>3. u \in ArchiveState
      BY <3>1, <3>2, RunsType
    <3>4. disk'[z] = 0
      BY <1>5, <1>8
    <3>5. u \in Sound(z)'
      BY <1>5, <3>2, <3>3, <3>4 DEF Sound, Outdated
    <3>6. Prepares(z, s, u)'
      BY <3>4, <3>5 DEF Prepares, Announced, Streams, Outdated
    <3> QED
      BY <1>5, <3>2, <3>6
  <2> QED
    BY <2>8, <2>9 DEF Tracked
<1> QED
  BY <1>6, <1>7, <1>8

\* What a scanner sends is within its scope.
Sends(s) ==
    \E dels \in SUBSET Files, posts \in Seq(Items), broken \in SUBSET Files :
        /\ inbox' = Sent(dels, posts, broken)
        /\ dels \subseteq Scope[s]
        /\ \A i \in 1..Len(posts) : posts[i].path \in Scope[s]

LEMMA SendsBatch ==
    ASSUME ScanTyped, NEW s \in Scanners, inbox' = Sent({}, batch[s], fails[s])
    PROVE  Sends(s)
<1>1. /\ {} \in SUBSET Files /\ batch[s] \in Seq(Items) /\ fails[s] \in SUBSET Files
      /\ \A i \in 1..Len(batch[s]) : batch[s][i].path \in Scope[s]
  BY DEF ScanTyped, Shapes, InScope
<1> QED
  BY <1>1 DEF Sends

ScannerAlone(s) ==
    /\ UNCHANGED <<disk, ops, rows, members>> /\ spoiled \subseteq spoiled'
    /\ \A t \in Scanners \ {s} : pc'[t] = pc[t] /\ current'[t] = current[t] /\ batch'[t] = batch[t]
    /\ inbox' = inbox \/ Sends(s)

LEMMA ScanFrame ==
    ASSUME ScanAssumption, ScanTyped, NEW s \in Scanners, Scan(s) \/ Abort(s)
    PROVE  ScannerAlone(s)
<1> USE DEF ScannerAlone
<1>a. DOMAIN pc = Scanners /\ DOMAIN current = Scanners /\ DOMAIN batch = Scanners
  BY DEF ScanTyped, Shapes
<1>1. CASE FetchList(s)
  BY <1>a, <1>1 DEF FetchList, envVars
<1>2. CASE WalkAndDelete(s)
  <2>1. PICK local : inbox' = Sent(DOMAIN server_files[s] \ local, <<>>, {})
    BY <1>2 DEF WalkAndDelete
  <2>2. DOMAIN server_files[s] \subseteq Scope[s] /\ Scope[s] \subseteq Files
    BY ScopeFiles DEF ScanTyped, InScope
  <2> DEFINE dels == DOMAIN server_files[s] \ local
  <2>3. /\ <<>> \in Seq(Items) /\ {} \in SUBSET Files /\ dels \in SUBSET Files
        /\ dels \subseteq Scope[s] /\ \A i \in 1..Len(<<>>) : <<>>[i].path \in Scope[s]
    BY <2>2
  <2> HIDE DEF dels
  <2>4. Sends(s)
    BY <2>1, <2>3, Zenon DEF Sends, dels
  <2> QED
    BY <1>a, <1>2, <2>4 DEF WalkAndDelete
<1>3. CASE Look(s)
  BY <1>a, <1>3 DEF Look, envVars
<1>4. CASE Extract(s)
  BY <1>a, <1>4 DEF Extract
<1>5. CASE Flush(s)
  <2>1. Sends(s)
    BY <1>5, SendsBatch DEF Flush
  <2> QED
    BY <1>a, <1>5, <2>1 DEF Flush, envVars
<1>6. CASE Sentinel(s)
  <2> DEFINE item == FileItem(current[s].path, 0, 0)
             posts == Append(batch[s], item)
  <2>1. inbox' = Sent({}, posts, fails[s])
    BY <1>6 DEF Sentinel, Announce
  <2>2. item \in Items /\ item.path \in Scope[s]
    <3>1. current[s].path \in Scope[s] /\ current[s].path \in Files /\ 0 \in Version
      BY <1>6, ScopeFiles
      DEF ScanTyped, InScope, AtFile, Processing, Sentinel, Announce, ScanAssumption, Version
    <3> QED
      BY <3>1, FileItemType
  <2> HIDE DEF item
  <2>3. /\ batch[s] \in Seq(Items) /\ fails[s] \in SUBSET Files
        /\ \A i \in 1..Len(batch[s]) : batch[s][i].path \in Scope[s]
    BY DEF ScanTyped, Shapes, InScope
  <2>4. /\ posts \in Seq(Items) /\ Len(batch[s]) \in Nat
        /\ \A i \in 1..Len(posts) :
             IF i = Len(batch[s]) + 1 THEN posts[i] = item ELSE i \in 1..Len(batch[s]) /\ posts[i] = batch[s][i]
    BY <2>2, <2>3
  <2>5. \A i \in 1..Len(posts) : posts[i].path \in Scope[s]
    BY <2>2, <2>3, <2>4
  <2> HIDE DEF posts
  <2>6. Sends(s)
    BY <2>1, <2>3, <2>4, <2>5 DEF Sends
  <2> QED
    BY <1>a, <1>6, <2>6 DEF Sentinel, Announce, envVars
<1>7. CASE Unpack(s)
  BY <1>a, <1>7 DEF Unpack
<1>8. CASE Member(s)
  BY <1>a, <1>8 DEF Member, envVars
<1>9. CASE SubprocessFails(s)
  BY <1>a, <1>9 DEF SubprocessFails
<1>10. CASE Complete(s)
  <2>1. inbox' = inbox \/ Sends(s)
    BY <1>10, SendsBatch DEF Complete
  <2> QED
    BY <1>a, <1>10, <2>1 DEF Complete, envVars
<1>11. CASE Finish(s)
  <2>1. Sends(s)
    BY <1>11, SendsBatch DEF Finish
  <2> QED
    BY <1>a, <1>11, <2>1 DEF Finish, envVars
<1>12. CASE Abort(s)
  BY <1>a, <1>12 DEF Abort
<1> QED
  BY <1>1, <1>2, <1>3, <1>4, <1>5, <1>6, <1>7, <1>8, <1>9, <1>10, <1>11, <1>12 DEF Scan

LEMMA TrackedForeign ==
    ASSUME ScanAssumption, ScanTyped, NEW s \in Scanners, ScannerAlone(s),
           NEW z \in Archives, z \notin Scope[s], Tracked(z)
    PROVE  Tracked(z)'
<1>1. inbox' = inbox \/ \E r \in ScanRequests :
        /\ inbox' = Append(inbox, r)
        /\ z \notin r.deletes
        /\ \A i \in 1..Len(r.items) : r.items[i].path # z
  <2>1. CASE inbox' = inbox
    BY <2>1
  <2>2. CASE Sends(s)
    <3>1. PICK dels \in SUBSET Files, posts \in Seq(Items), broken \in SUBSET Files :
            /\ inbox' = Sent(dels, posts, broken)
            /\ dels \subseteq Scope[s]
            /\ \A i \in 1..Len(posts) : posts[i].path \in Scope[s]
      BY <2>2 DEF Sends
    <3> DEFINE r == Request(dels, posts, broken)
    <3>2. r \in ScanRequests /\ r.deletes = dels /\ r.items = posts
      BY DEF Request, ScanRequests
    <3>3. inbox' = inbox \/ inbox' = Append(inbox, r)
      BY <3>1 DEF Sent
    <3> HIDE DEF r
    <3> QED
      BY <3>1, <3>2, <3>3
  <2> QED
    BY <2>1, <2>2 DEF ScannerAlone
<1>2. \A t \in Scanners : z \in Scope[t] =>
         pc'[t] = pc[t] /\ current'[t] = current[t] /\ batch'[t] = batch[t]
  BY DEF ScannerAlone
<1> QED
  BY <1>1, <1>2, TrackedElsewhere DEF ScannerAlone

\* A step of the scanner an archive belongs to: u is what its batch leads to.
LEMMA TrackedOwn ==
    ASSUME ScanAssumption, ArchivesApart, NEW s \in Scanners, NEW z \in Archives, z \in Scope[s],
           NEW t, Leads(z, Sound(z)', Now(z)', inbox', t),
           NEW u, Runs(z, t, batch'[s], u), Prepares(z, s, u)'
    PROVE  Tracked(z)'
<1>1. \A r \in Scanners : z \in Scope[r] => r = s
  BY DEF ArchivesApart
<1>2. \A r \in Scanners : z \in Scope[r] => \E v : Runs(z, t, batch'[r], v) /\ Prepares(z, r, v)'
  BY <1>1
<1> QED
  BY <1>2 DEF Tracked

\* Where the scanner of an archive stands.
Stands(z, s, t, u) ==
    /\ Leads(z, Sound(z), Now(z), inbox, t)
    /\ Runs(z, t, batch[s], u)
    /\ Prepares(z, s, u)

LEMMA StandsType ==
    ASSUME ScanTyped, NEW z \in Archives, NEW s \in Scanners, NEW t, NEW u, Stands(z, s, t, u)
    PROVE  /\ inbox \in Seq(ScanRequests) /\ batch[s] \in Seq(Items) /\ fails[s] \in SUBSET Files
           /\ t \in ArchiveState /\ t \in Sound(z)
           /\ u \in ArchiveState /\ u \in Sound(z)
<1>1. inbox \in Seq(ScanRequests) /\ batch[s] \in Seq(Items) /\ fails[s] \in SUBSET Files
  BY DEF ScanTyped, Shapes
<1>2. t \in ArchiveState \cap Sound(z)
  BY <1>1, LeadsType DEF Stands
<1>3. u \in ArchiveState /\ u \in Sound(z)
  BY <1>1, RunsType DEF Stands, Prepares
<1> QED
  BY <1>1, <1>2, <1>3

\* The batch goes out, perhaps with one more item.
LEMMA StandsSent ==
    ASSUME ScanAssumption, ScanTyped, NEW z \in Archives, NEW s \in Scanners,
           NEW t, NEW u, Stands(z, s, t, u)
    PROVE  /\ Leads(z, Sound(z), Now(z), Sent({}, batch[s], fails[s]), u)
           /\ \A item \in Items : Upserted(z, u, item) \in Sound(z) =>
                Leads(z, Sound(z), Now(z), Sent({}, Append(batch[s], item), fails[s]),
                      Upserted(z, u, item))
<1>1. /\ inbox \in Seq(ScanRequests) /\ batch[s] \in Seq(Items) /\ fails[s] \in SUBSET Files
      /\ u \in ArchiveState \cap Sound(z) /\ {} \in SUBSET Files
  BY StandsType
<1>2. Without(z, t, {}) = t
  BY DEF Without
<1>3. Leads(z, Sound(z), Now(z), inbox, t) /\ Runs(z, Without(z, t, {}), batch[s], u)
  BY <1>2 DEF Stands
<1>4. ASSUME NEW item \in Items, Upserted(z, u, item) \in Sound(z)
      PROVE  Leads(z, Sound(z), Now(z), Sent({}, Append(batch[s], item), fails[s]),
                   Upserted(z, u, item))
  <2> DEFINE v == Upserted(z, u, item)
             posts == Append(batch[s], item)
  <2>1. v \in ArchiveState \cap Sound(z) /\ posts \in Seq(Items)
    BY <1>1, <1>4, UpsertedType
  <2>2. Runs(z, Without(z, t, {}), posts, v)
    BY <1>1, <1>3, RunsAppend
  <2> HIDE DEF v, posts
  <2> QED
    BY <1>1, <1>3, <2>1, <2>2, LeadsSent, Zenon DEF v, posts
<1> QED
  BY <1>1, <1>3, <1>4, LeadsSent, Zenon

LEMMA SameSound ==
    ASSUME NEW z, UNCHANGED <<disk, ops, spoiled>>
    PROVE  Sound(z)' = Sound(z)
BY DEF Sound, Outdated

\* Nothing is sent, and the batch and the file being processed stay.
LEMMA OwnIdle ==
    ASSUME ScanAssumption, ScanTyped, ArchivesApart, NEW s \in Scanners, NEW z \in Archives,
           z \in Scope[s], NEW t, NEW u, Stands(z, s, t, u),
           UNCHANGED <<disk, ops, rows, members, inbox, spoiled>>, batch'[s] = batch[s],
           pc'[s] \notin {"unpack", "members"}
    PROVE  Tracked(z)'
<1>1. Sound(z)' = Sound(z) /\ Now(z)' = Now(z)
  BY SameSound DEF Now
<1>2. Leads(z, Sound(z)', Now(z)', inbox', t) /\ Runs(z, t, batch'[s], u)
  BY <1>1 DEF Stands
<1>3. Prepares(z, s, u)'
  BY <1>1 DEF Stands, Prepares
<1> QED
  BY <1>2, <1>3, TrackedOwn

LEMMA OwnWalk ==
    ASSUME ScanAssumption, ScanTyped, ArchivesApart, NEW s \in Scanners, NEW z \in Archives,
           z \in Scope[s], NEW t, NEW u, Stands(z, s, t, u), WalkAndDelete(s)
    PROVE  Tracked(z)'
<1>1. PICK local : inbox' = Sent(DOMAIN server_files[s] \ local, <<>>, {})
  BY DEF WalkAndDelete
<1> DEFINE dels == DOMAIN server_files[s] \ local
<1>0. PICK v : v = Without(z, t, dels)
  OBVIOUS
<1>2. /\ pc[s] = "walk" /\ pc'[s] = "files" /\ batch' = batch
      /\ UNCHANGED <<disk, ops, rows, members, spoiled>>
  BY DEF WalkAndDelete, ScanTyped, Shapes
<1>3. batch[s] = <<>>
  BY <1>2 DEF ScanTyped, InScope
<1>4. /\ inbox \in Seq(ScanRequests) /\ <<>> \in Seq(Items) /\ {} \in SUBSET Files
      /\ dels \in SUBSET Files
  BY ScopeFiles DEF ScanTyped, Shapes, InScope
<1> HIDE DEF dels
<1>5. v \in ArchiveState /\ v \in Sound(z)
  <2>1. v \in ArchiveState /\ t \in Sound(z)
    BY <1>0, StandsType, WithoutType
  <2>2. v = t \/ v.row = NoRow
    BY <1>0 DEF Without
  <2> QED
    BY <2>1, <2>2 DEF Sound
<1>6. Runs(z, v, <<>>, v)
  BY <1>5, RunsNothing
<1>7. Sound(z)' = Sound(z) /\ Now(z)' = Now(z)
  BY <1>2, SameSound DEF Now
<1>8. Leads(z, Sound(z), Now(z), inbox, t)
  BY DEF Stands
<1>9. Leads(z, Sound(z), Now(z), Sent(dels, <<>>, {}), v)
  <2>1. v \in ArchiveState \cap Sound(z) /\ Runs(z, Without(z, t, dels), <<>>, v)
    BY <1>0, <1>5, <1>6
  <2> QED
    BY <1>4, <1>8, <2>1, LeadsSent, Zenon
<1>10. Prepares(z, s, v)'
  BY <1>2, <1>5, <1>7 DEF Prepares
<1>11. Leads(z, Sound(z)', Now(z)', inbox', v)
  BY <1>1, <1>7, <1>9 DEF dels
<1>12. Runs(z, v, batch'[s], v)
  BY <1>2, <1>3, <1>6
<1> QED
  BY <1>10, <1>11, <1>12, TrackedOwn

LEMMA OwnExtract ==
    ASSUME ScanAssumption, ScanTyped, ArchivesApart, NEW s \in Scanners, NEW z \in Archives,
           z \in Scope[s], NEW t, NEW u, Stands(z, s, t, u), Extract(s)
    PROVE  Tracked(z)'
<1> DEFINE p == current[s].path
           m == current[s].mtime
<1>1. p \in Plain /\ p \in Files /\ p # z /\ m \in Version /\ disk[p] \in Version /\ 0 \in Version
  BY ScopeFiles
  DEF ScanTyped, Shapes, InScope, AtFile, Extract, Processing, ScanAssumption, Version
<1>2. /\ \/ \E v \in Version : batch' = [batch EXCEPT ![s] = Append(@, FileItem(p, m, v))]
         \/ UNCHANGED batch
      /\ pc'[s] = "files"
      /\ spoiled \subseteq spoiled' /\ UNCHANGED <<disk, ops, rows, members, inbox>>
  BY <1>1 DEF Extract, ScanTyped, Shapes
<1>3. Sound(z) \subseteq Sound(z)' /\ Now(z)' = Now(z)
  BY <1>2, KeepsSound DEF Now
<1>4. Runs(z, t, batch'[s], u)
  <2>1. CASE UNCHANGED batch
    BY <2>1 DEF Stands
  <2>2. ASSUME NEW v \in Version, batch' = [batch EXCEPT ![s] = Append(@, FileItem(p, m, v))]
        PROVE  Runs(z, t, batch'[s], u)
    <3> DEFINE item == FileItem(p, m, v)
    <3>1. item \in Items /\ item.path = p
      BY <1>1, FileItemType
    <3>2. batch'[s] = Append(batch[s], item)
      BY <2>2 DEF ScanTyped, Shapes
    <3> HIDE DEF item
    <3>3. Upserted(z, u, item) = u
      BY <1>1, <3>1 DEF Upserted
    <3>4. Runs(z, t, Append(batch[s], item), Upserted(z, u, item))
      BY <3>1, StandsType, RunsAppend DEF Stands
    <3> QED
      BY <3>2, <3>3, <3>4
  <2> QED
    BY <1>2, <2>1, <2>2
<1>5. Leads(z, Sound(z)', Now(z)', inbox', t)
  BY <1>2, <1>3, LeadsSafer DEF Stands, ScanTyped, Shapes
<1>6. Prepares(z, s, u)'
  BY <1>2, <1>3 DEF Prepares, Stands
<1> QED
  BY <1>4, <1>5, <1>6, TrackedOwn

\* Flush, Finish: the batch goes out.
LEMMA OwnFlush ==
    ASSUME ScanAssumption, ScanTyped, ArchivesApart, NEW s \in Scanners, NEW z \in Archives,
           z \in Scope[s], NEW t, NEW u, Stands(z, s, t, u),
           inbox' = Sent({}, batch[s], fails[s]), batch'[s] = <<>>,
           UNCHANGED <<disk, ops, rows, members, spoiled>>,
           current'[s] = current[s], pc'[s] = pc[s] \/ pc'[s] = "idle"
    PROVE  Tracked(z)'
<1>1. Sound(z)' = Sound(z) /\ Now(z)' = Now(z)
  BY SameSound DEF Now
<1>2. Leads(z, Sound(z)', Now(z)', inbox', u)
  BY <1>1, StandsSent
<1>3. Runs(z, u, batch'[s], u)
  BY StandsType, RunsNothing
<1>4. /\ Streams(z, s, u) => Streams(z, s, u)'
      /\ Announced(z, u) => Announced(z, u)'
  BY DEF Streams, Announced, Outdated
<1>5. Prepares(z, s, u)'
  BY <1>1, <1>4 DEF Stands, Prepares, Outdated
<1> QED
  BY <1>2, <1>3, <1>5, TrackedOwn

LEMMA OwnSentinel ==
    ASSUME ScanAssumption, ScanTyped, ArchivesApart, NEW s \in Scanners, NEW z \in Archives,
           z \in Scope[s], NEW t, NEW u, Stands(z, s, t, u), Sentinel(s)
    PROVE  Tracked(z)'
<1> DEFINE y == current[s].path
           item == FileItem(y, 0, 0)
<1>1. /\ pc[s] = "sentinel" /\ pc'[s] = "unpack" /\ current' = current
      /\ inbox' = Sent({}, Append(batch[s], item), fails[s])
      /\ batch'[s] = <<>> /\ UNCHANGED <<disk, ops, rows, members, spoiled>>
  BY DEF Sentinel, Announce, envVars, ScanTyped, Shapes
<1>2. y \in Files /\ 0 \in Version /\ ops \in Nat
  BY <1>1, ScopeFiles
  DEF ScanTyped, Shapes, InScope, AtFile, Processing, ScanAssumption, Version
<1>3. /\ item \in FileItems /\ item \in Items /\ item.path = y /\ item.mtime = 0
  BY <1>2, FileItemType
<1> HIDE DEF item
<1>v. PICK v : v = Upserted(z, u, item)
  OBVIOUS
<1>4. u \in ArchiveState /\ u \in Sound(z)
  BY StandsType
<1>5. y = z => v.row = IndexedRow(item) /\ v.ms = NoMembers /\ v.row.mtime = 0
  <2> SUFFICES ASSUME y = z PROVE v.row = IndexedRow(item) /\ v.ms = NoMembers /\ v.row.mtime = 0
    OBVIOUS
  <2>1. v = [row |-> IndexedRow(item), ms |-> NoMembers]
    BY <1>v, <1>3, <1>4, UpsertedFile
  <2> QED
    BY <1>3, <2>1 DEF IndexedRow
<1>6. y # z => v = u
  BY <1>v, <1>3 DEF Upserted
<1>7. v \in ArchiveState
  BY <1>v, <1>3, <1>4, UpsertedType
<1>8. v \in Sound(z)
  BY <1>2, <1>4, <1>5, <1>6, <1>7 DEF Sound
<1>9. Sound(z)' = Sound(z) /\ Now(z)' = Now(z)
  BY <1>1, SameSound DEF Now
<1>10. Leads(z, Sound(z)', Now(z)', inbox', v)
  <2>1. Leads(z, Sound(z), Now(z), Sent({}, Append(batch[s], item), fails[s]), v)
    BY <1>v, <1>3, <1>8, StandsSent
  <2> QED
    BY <1>1, <1>9, <2>1
<1>11. Runs(z, v, batch'[s], v)
  BY <1>1, <1>7, RunsNothing
<1>12. Prepares(z, s, v)'
  BY <1>1, <1>5, <1>8, <1>9 DEF Prepares, Announced
<1> QED
  BY <1>10, <1>11, <1>12, TrackedOwn

\* No member has been streamed yet.
LEMMA NothingStreamed ==
    ASSUME ScanAssumption, NEW z \in Archives, NEW m \in Version, m # 0
    PROVE  NoMembers = SoFar(z, m, MembersOut(z, m))
BY DEF NoMembers, MembersOut, SoFar

LEMMA OwnUnpack ==
    ASSUME ScanAssumption, ScanTyped, ArchivesApart, NEW s \in Scanners, NEW z \in Archives,
           z \in Scope[s], NEW t, NEW u, Stands(z, s, t, u), Unpack(s)
    PROVE  Tracked(z)'
<1> DEFINE y == current[s].path
           m == current[s].mtime
           rest == IF disk[y] = 0 THEN {} ELSE MembersOut(y, disk[y])
<1>1. /\ pc[s] = "unpack"
      /\ \/ current' = [current EXCEPT ![s].rest = rest] /\ pc' = [pc EXCEPT ![s] = "members"]
         \/ pc' = [pc EXCEPT ![s] = "files"]
      /\ UNCHANGED <<disk, rows, members, inbox, batch, spoiled, ops>>
  BY DEF Unpack, MembersOut
<1>2. /\ current[s] \in [path : Scope[s], mtime : Version, rest : SUBSET MemberItems]
      /\ m \in Version /\ m \in Nat /\ z \in Files
      /\ disk \in [Files -> Version] /\ disk[z] \in Nat
      /\ y = z => disk[z] = 0 \/ m <= disk[z]
  BY <1>1, SMTT(20) DEF ScanTyped, Shapes, InScope, AtFile, Processing, Version, Files
<1>3. CASE pc' = [pc EXCEPT ![s] = "files"]
  <2>1. pc'[s] = "files" /\ batch'[s] = batch[s]
    BY <1>1, <1>3 DEF ScanTyped, Shapes
  <2> QED
    BY <1>1, <2>1, OwnIdle
<1>4. CASE current' = [current EXCEPT ![s].rest = rest] /\ pc' = [pc EXCEPT ![s] = "members"]
  <2>1. /\ pc'[s] = "members"
        /\ current'[s] = [current[s] EXCEPT !.rest = rest]
    BY <1>4 DEF ScanTyped, Shapes
  <2>2. current'[s].path = y /\ current'[s].mtime = m /\ current'[s].rest = rest
    <3> HIDE DEF rest
    <3> QED
      BY <1>2, <2>1
  <2>3. y = z => Announced(z, u) /\ (u.ms = NoMembers \/ Outdated(z, m))
    BY <1>1 DEF Stands, Prepares
  <2>4. ASSUME y = z PROVE Streams(z, s, u)'
    <3>1. CASE m = 0 \/ disk[z] = 0 \/ disk[z] > m
      BY <1>1, <2>2, <3>1 DEF Streams, Outdated
    <3>2. CASE m # 0 /\ disk[z] = m
      <4>1. rest = MembersOut(z, m)
        BY <2>4, <3>2
      <4>0. u.ms = NoMembers
        BY <1>2, <2>3, <2>4, <3>2 DEF Outdated
      <4>2. u.ms = SoFar(z, m, rest)
        BY <1>2, <2>4, <3>2, <4>0, <4>1, NothingStreamed
      <4> HIDE DEF rest, m
      <4> QED
        BY <2>2, <4>1, <4>2 DEF Streams
    <3> QED
      BY <1>2, <2>4, <3>1, <3>2
  <2>5. Sound(z)' = Sound(z) /\ Now(z)' = Now(z)
    BY <1>1, SameSound DEF Now
  <2>6. Leads(z, Sound(z)', Now(z)', inbox', t) /\ Runs(z, t, batch'[s], u)
    BY <1>1, <2>5 DEF Stands
  <2>7. Prepares(z, s, u)'
    <3>1. Announced(z, u) => Announced(z, u)'
      BY <1>1 DEF Announced, Outdated
    <3> QED
      BY <2>1, <2>2, <2>3, <2>4, <2>5, <3>1 DEF Prepares, Stands
  <2> QED
    BY <2>6, <2>7, TrackedOwn
<1> QED
  BY <1>1, <1>3, <1>4

\* A row that a scan looks at may have any members.
LEMMA AnnouncedSound ==
    ASSUME NEW z, NEW u \in Sound(z), Announced(z, u),
           NEW v \in ArchiveState, v.row = u.row
    PROVE  v \in Sound(z) /\ Announced(z, v)
BY DEF Sound, Announced

LEMMA MemberItemsApart ==
    ASSUME NEW z, NEW x, NEW y, NEW v, MemberItem(z, x, v) = MemberItem(z, y, v)
    PROVE  x = y
<1>1. MemberItem(z, x, v).member = x /\ MemberItem(z, y, v).member = y
  BY DEF MemberItem
<1> QED
  BY <1>1

\* One more member of the version has been sent.
LEMMA OneMoreStreamed ==
    ASSUME ScanAssumption, NEW z \in Archives, NEW m \in Version, m # 0, NEW rest,
           rest \subseteq MembersOut(z, m), NEW item \in rest, NEW ms, ms = SoFar(z, m, rest),
           NEW next, next = [ms EXCEPT ![item.member] = item.lines]
    PROVE  next = SoFar(z, m, rest \ {item})
<1>1. PICK y \in MembersOf[m] : item = MemberItem(z, y, m)
  BY DEF MembersOut
<1>2. y \in Members
  BY DEF ScanAssumption, Version
<1>3. item.member = y /\ item.lines = m
  BY <1>1 DEF MemberItem
<1>4. \A x \in Members : MemberItem(z, x, m) = item <=> x = y
  BY <1>1, MemberItemsApart
<1> DEFINE left(x) == MemberItem(z, x, m) \in rest
           others(x) == MemberItem(z, x, m) \in rest \ {item}
<1>5. \A x \in Members : others(x) <=> left(x) /\ x # y
  BY <1>4
<1> DEFINE before == [x \in Members |-> IF x \in MembersOf[m] /\ ~left(x) THEN m ELSE 0]
           after == [x \in Members |-> IF x \in MembersOf[m] /\ ~others(x) THEN m ELSE 0]
<1>6. before = SoFar(z, m, rest) /\ after = SoFar(z, m, rest \ {item})
  BY DEF SoFar
<1>7. [before EXCEPT ![y] = m] = after
  <2> HIDE DEF left, others
  <2> QED
    BY <1>1, <1>2, <1>5
<1> HIDE DEF before, after
<1> QED
  BY <1>3, <1>6, <1>7

LEMMA OwnMember ==
    ASSUME ScanAssumption, ScanTyped, ArchivesApart, NEW s \in Scanners, NEW z \in Archives,
           z \in Scope[s], NEW t, NEW u, Stands(z, s, t, u), Member(s)
    PROVE  Tracked(z)'
<1> DEFINE y == current[s].path
           m == current[s].mtime
<1>1. PICK item \in current[s].rest :
        /\ batch' = [batch EXCEPT ![s] = Append(@, item)]
        /\ current' = [current EXCEPT ![s].rest = @ \ {item}]
  BY DEF Member
<1>2. pc[s] = "members" /\ pc' = pc /\ UNCHANGED <<disk, ops, rows, members, inbox, spoiled>>
  BY DEF Member, envVars
<1>3. /\ current[s] \in [path : Scope[s], mtime : Version, rest : SUBSET MemberItems]
      /\ m \in Version /\ item \in MemberItems /\ item \in Items /\ item.path = y
  BY <1>2, ItemKinds DEF ScanTyped, InScope, AtFile, Processing
<1>4. /\ batch'[s] = Append(batch[s], item)
      /\ current'[s] = [current[s] EXCEPT !.rest = @ \ {item}]
  BY <1>1 DEF ScanTyped, Shapes
<1>5. current'[s].path = y /\ current'[s].mtime = m /\ current'[s].rest = current[s].rest \ {item}
  BY <1>3, <1>4
<1>6. PICK v : v = Upserted(z, u, item)
  OBVIOUS
<1>7. u \in ArchiveState /\ u \in Sound(z) /\ v \in ArchiveState
  BY <1>3, <1>6, StandsType, UpsertedType
<1>8. Sound(z)' = Sound(z) /\ Now(z)' = Now(z)
  BY <1>2, SameSound DEF Now
<1>9. Leads(z, Sound(z)', Now(z)', inbox', t)
  BY <1>2, <1>8 DEF Stands
<1>10. Runs(z, t, batch'[s], v)
  <2>1. batch[s] \in Seq(Items) /\ Runs(z, t, batch[s], u)
    BY StandsType DEF Stands
  <2>2. Runs(z, t, Append(batch[s], item), Upserted(z, u, item))
    BY <1>3, <2>1, RunsAppend
  <2> QED
    BY <1>4, <1>6, <2>2
<1>11. Prepares(z, s, v)'
  <2>1. CASE y # z
    <3>1. v = u
      BY <1>3, <1>6, <2>1 DEF Upserted
    <3> QED
      BY <1>5, <1>7, <1>8, <2>1, <3>1 DEF Prepares
  <2>2. CASE y = z
    <3>1. Announced(z, u) /\ Streams(z, s, u)
      BY <1>2, <2>2 DEF Stands, Prepares
    <3>2. v.row = u.row /\ v.ms = [u.ms EXCEPT ![item.member] = item.lines]
      <4>1. v = [row |-> u.row, ms |-> [u.ms EXCEPT ![item.member] = item.lines]]
        BY <1>3, <1>6, <1>7, <2>2, UpsertedMember
      <4> QED
        BY <4>1
    <3>3. v \in Sound(z) /\ Announced(z, v)
      BY <1>7, <3>1, <3>2, AnnouncedSound
    <3>4. Announced(z, v)'
      BY <1>2, <3>3 DEF Announced, Outdated
    <3>5. Streams(z, s, v)'
      <4>1. CASE m = 0 \/ z \in spoiled \/ Outdated(z, m)
        BY <1>2, <1>5, <4>1 DEF Streams, Outdated
      <4>2. CASE ~(m = 0 \/ z \in spoiled \/ Outdated(z, m))
        <5>1. /\ current[s].rest \subseteq MembersOut(z, m)
              /\ u.ms = SoFar(z, m, current[s].rest)
          BY <3>1, <4>2 DEF Streams
        <5>2. m \in Version /\ m # 0 /\ item \in current[s].rest
          BY <1>1, <1>3, <4>2
        <5>3. v.ms = SoFar(z, m, current[s].rest \ {item})
          <6> HIDE DEF m
          <6> QED
            BY <3>2, <5>1, <5>2, OneMoreStreamed
        <5> HIDE DEF m
        <5> QED
          BY <1>5, <5>1, <5>3 DEF Streams
      <4> QED
        BY <4>1, <4>2
    <3> QED
      BY <1>2, <1>8, <3>3, <3>4, <3>5 DEF Prepares
  <2> QED
    BY <2>1, <2>2
<1> QED
  BY <1>9, <1>10, <1>11, TrackedOwn

LEMMA OwnSubprocessFails ==
    ASSUME ScanAssumption, ScanTyped, ArchivesApart, NEW s \in Scanners, NEW z \in Archives,
           z \in Scope[s], NEW t, NEW u, Stands(z, s, t, u), SubprocessFails(s)
    PROVE  Tracked(z)'
<1>1. /\ pc[s] = "members" /\ pc' = pc
      /\ current' = [current EXCEPT ![s].rest = {}]
      /\ spoiled' = spoiled \cup {current[s].path}
      /\ UNCHANGED <<disk, ops, rows, members, inbox, batch>>
  BY DEF SubprocessFails
<1>2. current'[s].path = current[s].path
  <2>1. current'[s] = [current[s] EXCEPT !.rest = {}]
    BY <1>1 DEF ScanTyped, Shapes
  <2>2. current[s] \in [path : Scope[s], mtime : Version, rest : SUBSET MemberItems]
    BY <1>1 DEF ScanTyped, InScope, AtFile, Processing
  <2> QED
    BY <2>1, <2>2
<1>3. Sound(z) \subseteq Sound(z)' /\ Now(z)' = Now(z)
  BY <1>1, KeepsSound DEF Now
<1>4. Leads(z, Sound(z)', Now(z)', inbox', t)
  BY <1>1, <1>3, LeadsSafer DEF Stands, ScanTyped, Shapes
<1>5. current[s].path = z => Streams(z, s, u)'
  BY <1>1 DEF Streams
<1>6. Prepares(z, s, u)'
  <2>1. Announced(z, u) => Announced(z, u)'
    BY <1>1 DEF Announced, Outdated
  <2> QED
    BY <1>1, <1>2, <1>3, <1>5, <2>1 DEF Prepares, Stands
<1>7. Runs(z, t, batch'[s], u)
  BY <1>1 DEF Stands
<1> QED
  BY <1>4, <1>6, <1>7, TrackedOwn

LEMMA OwnComplete ==
    ASSUME ScanAssumption, ScanTyped, ArchivesApart, NEW s \in Scanners, NEW z \in Archives,
           z \in Scope[s], NEW t, NEW u, Stands(z, s, t, u), Complete(s)
    PROVE  Tracked(z)'
<1> DEFINE y == current[s].path
           m == current[s].mtime
           item == FileItem(y, m, m)
<1>1. /\ pc[s] = "members" /\ pc'[s] = "files" /\ current[s].rest = {}
      /\ inbox' = IF batch[s] = <<>> THEN inbox ELSE Sent({}, batch[s], fails[s])
      /\ batch'[s] = <<item>> /\ UNCHANGED <<disk, ops, rows, members, spoiled>>
  BY DEF Complete, envVars, ScanTyped, Shapes
<1>2. y \in Files /\ m \in Version /\ m \in Nat /\ m <= ops + 1
  BY <1>1, ScopeFiles DEF ScanTyped, InScope, AtFile, Processing, Version
<1>3. item \in FileItems /\ item \in Items /\ item.path = y /\ item.mtime = m
  BY <1>2, FileItemType
<1>4. u \in ArchiveState /\ u \in Sound(z) /\ t \in ArchiveState
  BY StandsType
<1>5. Sound(z)' = Sound(z) /\ Now(z)' = Now(z)
  BY <1>1, SameSound DEF Now
<1>6. Leads(z, Sound(z)', Now(z)', inbox', u)
  <2>1. CASE batch[s] = <<>>
    <3>1. u = t
      BY <1>4, <2>1, RunsNothing DEF Stands
    <3> QED
      BY <1>1, <1>5, <2>1, <3>1 DEF Stands
  <2>2. CASE batch[s] # <<>>
    BY <1>1, <1>5, <2>2, StandsSent
  <2> QED
    BY <2>1, <2>2
<1>7. PICK v : v = Upserted(z, u, item)
  OBVIOUS
<1> HIDE DEF item
<1>8. Runs(z, u, batch'[s], v)
  <2>1. Append(<<>>, item) = <<item>> /\ <<>> \in Seq(Items)
    BY <1>3
  <2>2. Runs(z, u, <<>>, u)
    BY <1>4, RunsNothing
  <2>3. Runs(z, u, Append(<<>>, item), v)
    BY <1>3, <1>7, <2>1, <2>2, RunsAppend
  <2> QED
    BY <1>1, <2>1, <2>3
<1>9. v \in ArchiveState
  BY <1>3, <1>4, <1>7, UpsertedType
<1>10. v \in Sound(z)
  <2>1. CASE y # z
    BY <1>3, <1>4, <1>7, <2>1 DEF Upserted
  <2>2. CASE y = z
    <3>1. Announced(z, u) /\ Streams(z, s, u)
      BY <1>1, <2>2 DEF Stands, Prepares
    <3>2. v = u \/ v = [row |-> IndexedRow(item), ms |-> IF m = 0 THEN NoMembers ELSE u.ms]
      <4> HIDE DEF m
      <4> QED
        BY <1>3, <1>4, <1>7, <2>2, UpsertedFile
    <3> SUFFICES ASSUME v = [row |-> IndexedRow(item),
                             ms |-> IF m = 0 THEN NoMembers ELSE u.ms]
                 PROVE  v \in Sound(z)
      BY <1>4, <3>2
    <3>3. v.row.mtime = m /\ (m # 0 => v.ms = u.ms)
      BY <1>3 DEF IndexedRow
    <3>4. m = 0 \/ z \in spoiled \/ Outdated(z, m) \/ v.ms = Exactly(m)
      BY <1>1, <3>1, <3>3 DEF Streams, SoFar, Exactly
    <3> HIDE DEF m
    <3> QED
      BY <1>2, <1>9, <3>3, <3>4 DEF Sound
  <2> QED
    BY <2>1, <2>2
<1>11. Prepares(z, s, v)'
  BY <1>1, <1>5, <1>10 DEF Prepares
<1> QED
  BY <1>6, <1>8, <1>11, TrackedOwn

\* What was in the batch of an aborted scan is gone.
LEMMA OwnAbort ==
    ASSUME ScanAssumption, ScanTyped, ArchivesApart, NEW s \in Scanners, NEW z \in Archives,
           z \in Scope[s], NEW t, NEW u, Stands(z, s, t, u), Abort(s)
    PROVE  Tracked(z)'
<1>1. /\ pc'[s] = "idle" /\ batch'[s] = <<>>
      /\ UNCHANGED <<disk, ops, rows, members, inbox, spoiled>>
  BY DEF Abort, ScanTyped, Shapes
<1>2. t \in ArchiveState /\ t \in Sound(z)
  BY StandsType
<1>3. Sound(z)' = Sound(z) /\ Now(z)' = Now(z)
  BY <1>1, SameSound DEF Now
<1>4. Leads(z, Sound(z)', Now(z)', inbox', t)
  BY <1>1, <1>3 DEF Stands
<1>5. Runs(z, t, batch'[s], t)
  BY <1>1, <1>2, RunsNothing
<1>6. Prepares(z, s, t)'
  BY <1>1, <1>2, <1>3 DEF Prepares
<1> QED
  BY <1>4, <1>5, <1>6, TrackedOwn

LEMMA TrackedScan ==
    ASSUME ScanAssumption, ScanTyped, ArchivesApart, NEW s \in Scanners, NEW z \in Archives,
           Scan(s) \/ Abort(s), Tracked(z)
    PROVE  Tracked(z)'
<1>1. CASE z \notin Scope[s]
  BY <1>1, ScanFrame, TrackedForeign
<1>2. CASE z \in Scope[s]
  <2>1. PICK t, u : Stands(z, s, t, u)
    BY <1>2 DEF Tracked, Stands
  <2>2. CASE FetchList(s)
    <3>1. /\ pc'[s] = "walk" /\ batch'[s] = batch[s]
          /\ UNCHANGED <<disk, ops, rows, members, inbox, spoiled>>
      BY <2>2 DEF FetchList, envVars, ScanTyped, Shapes
    <3> QED
      BY <1>2, <2>1, <3>1, OwnIdle
  <2>3. CASE Look(s)
    <3>1. /\ pc'[s] \in {"files", "extract", "sentinel"} /\ batch'[s] = batch[s]
          /\ UNCHANGED <<disk, ops, rows, members, inbox, spoiled>>
      BY <2>3 DEF Look, envVars, ScanTyped, Shapes
    <3> QED
      BY <1>2, <2>1, <3>1, OwnIdle
  <2>4. CASE Flush(s)
    <3>1. /\ inbox' = Sent({}, batch[s], fails[s]) /\ batch'[s] = <<>>
          /\ UNCHANGED <<disk, ops, rows, members, spoiled>>
          /\ current'[s] = current[s] /\ pc'[s] = pc[s]
      BY <2>4 DEF Flush, envVars, ScanTyped, Shapes
    <3> QED
      BY <1>2, <2>1, <3>1, OwnFlush
  <2>5. CASE Finish(s)
    <3>1. /\ inbox' = Sent({}, batch[s], fails[s]) /\ batch'[s] = <<>>
          /\ UNCHANGED <<disk, ops, rows, members, spoiled>>
          /\ current'[s] = current[s] /\ pc'[s] = "idle"
      BY <2>5 DEF Finish, envVars, ScanTyped, Shapes
    <3> QED
      BY <1>2, <2>1, <3>1, OwnFlush
  <2> QED
    BY <1>2, <2>1, <2>2, <2>3, <2>4, <2>5, OwnWalk, OwnExtract, OwnSentinel, OwnUnpack, OwnMember,
       OwnSubprocessFails, OwnComplete, OwnAbort DEF Scan
<1> QED
  BY <1>1, <1>2

AllTracked == \A z \in Archives : z \in bypassed \/ Tracked(z)

LEMMA TrackedNext ==
    ASSUME ScanAssumption, ScanTyped, BatchesDated, ArchivesApart, AllTracked, [Next]_vars
    PROVE  AllTracked'
<1> SUFFICES ASSUME NEW z \in Archives PROVE z \in bypassed' \/ Tracked(z)'
  BY DEF AllTracked
<1>0. bypassed \subseteq bypassed'
  BY DEF Next, vars, Index, Write, DeleteFile, WatchRequest, Scan, FetchList, WalkAndDelete,
         Look, Extract, Flush, Sentinel, Announce, Unpack, Member, SubprocessFails, Complete,
         Finish, Abort
<1>1. CASE z \in bypassed
  BY <1>0, <1>1
<1>2. CASE Tracked(z)
  <2>1. CASE UNCHANGED vars
    BY <1>2, <2>1, TrackedElsewhere DEF vars, scanVars
  <2>2. ASSUME NEW s \in Scanners, Scan(s) \/ Abort(s) PROVE Tracked(z)'
    BY <1>2, <2>2, TrackedScan
  <2>3. CASE Index
    BY <1>2, <2>3, TrackedIndex
  <2>4. ASSUME NEW p \in Files, Write(p) \/ DeleteFile(p) PROVE Tracked(z)'
    BY <1>2, <2>4, TrackedDisk
  <2>5. ASSUME NEW p \in Files, WatchRequest(p) PROVE z \in bypassed' \/ Tracked(z)'
    BY <1>2, <2>5, TrackedWatch
  <2> QED
    BY <2>1, <2>2, <2>3, <2>4, <2>5 DEF Next
<1> QED
  BY <1>1, <1>2 DEF AllTracked

LEMMA SoundComplete ==
    ASSUME ScanAssumption, ScanTyped, AllTracked
    PROVE  CompleteArchives
<1> SUFFICES ASSUME NEW z \in Archives, z \notin bypassed
             PROVE  CompleteArchive(z) \/ z \in spoiled
  BY DEF CompleteArchives
<1>1. Now(z) \in Sound(z)
  BY SoundNow DEF AllTracked
<1>2. Now(z).row = rows[z] /\ Now(z).ms = members[z]
  BY DEF Now
<1> QED
  BY <1>1, <1>2 DEF Sound, Outdated, Exactly, CompleteArchive

\* An archive that has its real mtime has exactly the members of that version,
\* or is newer on disk, or its extractor failed, or find-watch has sent an
\* update for it: whatever is cut off, delayed or changed between the sentinel,
\* the members and the completion, and whatever find-watch deletes meanwhile.
\* Scans that share an archive are left out: there it does not hold.
THEOREM ArchivesAreComplete ==
    ASSUME ScanAssumption, ArchivesApart
    PROVE  Spec => []CompleteArchives
<1>1. Init => ScanTyped /\ BatchesDated /\ AllTracked
  BY TypedInit, DatedInit, TrackedInit DEF AllTracked
<1>2. ScanTyped /\ BatchesDated /\ AllTracked /\ [Next]_vars
      => (ScanTyped /\ BatchesDated /\ AllTracked)'
  BY TypedNext, DatedNext, TrackedNext
<1>3. ScanTyped /\ AllTracked => CompleteArchives
  BY SoundComplete
<1> QED
  BY <1>1, <1>2, <1>3, PTL DEF Spec

-----------------------------------------------------------------------------
(* ArchiveScan: what is under way between the extractor and the rows.       *)

Paths == Seq(EntryNames)
Texts == {"name", "own", "foreign"}

MemberBatches ==
    {b \in [path : Paths, lines : Texts \cup {"none"}, skip_reason : BOOLEAN, delegate : BOOLEAN] :
       /\ b.lines = "none" <=> b.path = <<>>
       /\ ~(b.skip_reason /\ b.delegate)}

StreamsTyped == \A a \in Tops : StreamOf(a) \in Seq(MemberBatches)

\* The members of an archive that have lines, and the texts they have.
Listable(a) == {i \in DOMAIN StreamOf(a) : StreamOf(a)[i].lines # "none"}
MemberNames(a) == {StreamOf(a)[i].path : i \in Listable(a)}
MemberTexts(a) == {"own"} \cup {StreamOf(a)[i].lines : i \in Listable(a)}

MemberItemsOf(a) == [path : MemberNames(a), lines : MemberTexts(a)]
Completion == ArchiveItem(OuterPath, "complete")
ItemsOf(a) == MemberItemsOf(a) \cup {Completion}
RequestsOf(a) == [items : Seq(ItemsOf(a)), failed : SUBSET Paths]
ListingsOf(a) == UNION {[D -> MemberTexts(a)] : D \in SUBSET MemberNames(a)}

IsSentinel(r) == r.items = <<ArchiveItem(OuterPath, "sentinel")>>

\* The server has applied the sentinel.
Started == stage # "announce" /\ ~(requests # <<>> /\ IsSentinel(requests[1]))

PathsOf(q) == {q[i].path : i \in DOMAIN q}
Has(r, what) == \E i \in DOMAIN r.items : r.items[i].lines = what
Completes == Native \/ proc = "ok"

StreamShape ==
    /\ archive \in Tops
    /\ stage \in {"announce", "stream", "submit", "done"}
    /\ proc \in {"running", "ok", "failed", "missing"}
    /\ sent \in 0..Len(StreamOf(archive))
    /\ channel \in Seq(MemberBatches)
    /\ \A j \in DOMAIN channel : \E i \in DOMAIN StreamOf(archive) : channel[j] = StreamOf(archive)[i]
    /\ Native => /\ Len(channel) <= sent
                 /\ \A j \in DOMAIN channel : channel[j] = StreamOf(archive)[sent - Len(channel) + j]
                 /\ proc # "missing"
                 /\ proc = "ok" => sent = Len(StreamOf(archive)) /\ ~ExtractionFails(Contents[archive])

ClientShape ==
    /\ failed \in SUBSET Paths
    /\ uploads \in SUBSET MemberNames(archive)
    /\ items \in Seq(ItemsOf(archive))
    /\ stage = "announce" => /\ sent = 0 /\ proc = "running" /\ channel = <<>>
                             /\ failed = {} /\ uploads = {} /\ requests = <<>>
    /\ stage \in {"announce", "done"} => items = <<>> /\ failed = {}
    /\ stage = "stream" => items \in Seq(MemberItemsOf(archive))
    /\ stage = "submit" => items = IF Completes THEN <<Completion>> ELSE <<>>
    /\ stage \in {"submit", "done"} => channel = <<>> /\ proc # "running"

\* The sentinel is the first request, and nothing else clears the rows.
ServerShape ==
    /\ requests \in Seq([items : Seq(ItemsOf(archive) \cup {ArchiveItem(OuterPath, "sentinel")}),
                         failed : SUBSET Paths])
    /\ \A k \in DOMAIN requests : \/ requests[k] \in RequestsOf(archive)
                                  \/ k = 1 /\ IsSentinel(requests[k])
    /\ outer_mtime \in {"zero", "real"}
    /\ errors \in SUBSET Paths
    /\ Started => listed \in ListingsOf(archive)

\* An archive is completed by the last request of the scan, or not at all.
CompletionShape ==
    /\ stage = "done" /\ Completes =>
         \/ \E k \in DOMAIN requests : Has(requests[k], "complete")
         \/ Started /\ outer_mtime = "real"
    /\ ~Completes /\ stage # "announce" =>
         /\ channel = <<>> /\ items = <<>> /\ uploads = {}
         /\ \A k \in DOMAIN requests : requests[k].items = <<>> \/ IsSentinel(requests[k])
         /\ Started => listed = <<>> /\ outer_mtime = "zero"

ArchiveTyped == StreamShape /\ ClientShape /\ ServerShape /\ CompletionShape

-----------------------------------------------------------------------------
LEMMA StreamTexts ==
    ASSUME StreamsTyped, NEW a \in Tops
    PROVE  /\ StreamOf(a) \in Seq(MemberBatches)
           /\ \A i \in DOMAIN StreamOf(a) :
                /\ StreamOf(a)[i] \in MemberBatches
                /\ StreamOf(a)[i].lines # "none" =>
                     StreamOf(a)[i].path \in MemberNames(a) /\ StreamOf(a)[i].lines \in MemberTexts(a)
           /\ MemberNames(a) \subseteq Paths /\ OuterPath \notin MemberNames(a)
           /\ MemberTexts(a) \subseteq Texts
<1>1. StreamOf(a) \in Seq(MemberBatches)
  BY DEF StreamsTyped
<1>2. \A i \in DOMAIN StreamOf(a) : StreamOf(a)[i] \in MemberBatches
  BY <1>1
<1>3. \A i \in DOMAIN StreamOf(a) : StreamOf(a)[i].lines # "none" =>
        StreamOf(a)[i].path \in MemberNames(a) /\ StreamOf(a)[i].lines \in MemberTexts(a)
  BY DEF MemberNames, MemberTexts, Listable
<1>4. \A i \in Listable(a) :
        StreamOf(a)[i].path \in Paths /\ StreamOf(a)[i].path # <<>> /\ StreamOf(a)[i].lines \in Texts
  BY <1>2 DEF MemberBatches, Listable
<1> QED
  BY <1>1, <1>2, <1>3, <1>4 DEF MemberNames, MemberTexts, OuterPath, Texts

LEMMA ItemKinds2 ==
    ASSUME StreamsTyped, NEW a \in Tops
    PROVE  /\ \A x \in MemberItemsOf(a) :
                /\ x.path \in MemberNames(a) /\ x.lines \in MemberTexts(a)
                /\ x.lines \notin {"sentinel", "complete", "none"} /\ x.path # OuterPath
           /\ Completion.path = OuterPath /\ Completion.lines = "complete"
           /\ \A r \in RequestsOf(a) : ~IsSentinel(r)
<1>1. \A x \in MemberItemsOf(a) :
        /\ x.path \in MemberNames(a) /\ x.lines \in MemberTexts(a)
        /\ x.lines \notin {"sentinel", "complete", "none"} /\ x.path # OuterPath
  BY StreamTexts DEF MemberItemsOf, Texts
<1>2. Completion.path = OuterPath /\ Completion.lines = "complete"
  BY DEF Completion, ArchiveItem
<1>3. \A r \in RequestsOf(a) : ~IsSentinel(r)
  <2> SUFFICES ASSUME NEW r \in RequestsOf(a), IsSentinel(r) PROVE FALSE
    OBVIOUS
  <2>1. r.items \in Seq(ItemsOf(a)) /\ r.items = <<ArchiveItem(OuterPath, "sentinel")>>
    BY DEF RequestsOf, IsSentinel
  <2>2. r.items[1] \in ItemsOf(a) /\ r.items[1].lines = "sentinel"
    BY <2>1 DEF ArchiveItem
  <2> QED
    BY <1>1, <1>2, <2>2 DEF ItemsOf
<1> QED
  BY <1>1, <1>2, <1>3

LEMMA ArchiveTypedInit ==
    ASSUME StreamsTyped, ArchiveInit
    PROVE  ArchiveTyped
<1>1. archive \in Tops /\ StreamOf(archive) \in Seq(MemberBatches)
  BY StreamTexts DEF ArchiveInit
<1>2. StreamShape
  BY <1>1 DEF ArchiveInit, StreamShape
<1>3. ClientShape
  BY <1>1 DEF ArchiveInit, ClientShape
<1>4. ServerShape
  BY <1>1 DEF ArchiveInit, ServerShape, Started
<1>5. CompletionShape
  BY DEF ArchiveInit, CompletionShape
<1> QED
  BY <1>2, <1>3, <1>4, <1>5 DEF ArchiveTyped

\* A request of the client, or none, behind those of the inbox.
Posts ==
    /\ stage # "announce" /\ stage' # "announce"
    /\ UNCHANGED <<archive, listed, outer_mtime, errors>>
    /\ requests' = requests \/ \E r \in RequestsOf(archive) : requests' = Append(requests, r)

LEMMA SubmittedPosts ==
    ASSUME NEW its \in Seq(ItemsOf(archive)), NEW noted \in SUBSET Paths
    PROVE  \/ Submitted(its, noted) = requests /\ its = <<>> /\ noted = {}
           \/ /\ ArchiveRequest(its, noted) \in RequestsOf(archive)
              /\ Submitted(its, noted) = Append(requests, ArchiveRequest(its, noted))
BY DEF Submitted, ArchiveRequest, RequestsOf

LEMMA PostsShape ==
    ASSUME StreamsTyped, ArchiveTyped, Posts
    PROVE  ServerShape' /\ (Started' <=> Started)
<1>0. archive \in Tops /\ archive' = archive
  BY DEF ArchiveTyped, StreamShape, Posts
<1>1. CASE requests' = requests
  BY <1>0, <1>1 DEF Posts, ServerShape, Started, ArchiveTyped
<1>2. ASSUME NEW r \in RequestsOf(archive), requests' = Append(requests, r)
      PROVE  ServerShape' /\ (Started' <=> Started)
  <2> DEFINE R == [items : Seq(ItemsOf(archive) \cup {ArchiveItem(OuterPath, "sentinel")}), failed : SUBSET Paths]
  <2>1. ~IsSentinel(r) /\ r \in R
    BY <1>0, ItemKinds2 DEF RequestsOf
  <2>2. requests \in Seq(R)
    BY DEF ArchiveTyped, ServerShape
  <2> HIDE DEF R
  <2>3. /\ requests' \in Seq(R) /\ Len(requests') = Len(requests) + 1
        /\ \A k \in 1..Len(requests) : requests'[k] = requests[k]
        /\ requests'[Len(requests) + 1] = r
        /\ DOMAIN requests' = 1..(Len(requests) + 1) /\ DOMAIN requests = 1..Len(requests)
        /\ Len(requests) \in Nat
    BY <1>2, <2>1, <2>2
  <2>4. requests # <<>> <=> 1 \in 1..Len(requests)
    BY <2>2
  <2>5. requests' # <<>> /\ requests'[1] = IF requests = <<>> THEN r ELSE requests[1]
    BY <2>3, <2>4
  <2>6. Started' <=> Started
    BY <2>1, <2>5 DEF Posts, Started
  <2>7. ASSUME NEW k \in DOMAIN requests'
        PROVE  requests'[k] \in RequestsOf(archive) \/ (k = 1 /\ IsSentinel(requests'[k]))
    <3>1. k \in DOMAIN requests \/ k = Len(requests) + 1
      BY <2>3
    <3> QED
      BY <1>2, <2>3, <3>1 DEF ArchiveTyped, ServerShape
  <2> QED
    BY <1>0, <2>3, <2>6, <2>7 DEF ArchiveTyped, ServerShape, Posts, R
<1> QED
  BY <1>1, <1>2 DEF Posts

\* The facts of the invariant that every step starts from.
LEMMA ArchiveFacts ==
    ASSUME StreamsTyped, ArchiveTyped
    PROVE  /\ archive \in Tops
           /\ StreamOf(archive) \in Seq(MemberBatches) /\ Out = StreamOf(archive)
           /\ channel \in Seq(MemberBatches) /\ items \in Seq(ItemsOf(archive))
           /\ failed \in SUBSET Paths /\ OuterPath \in Paths
BY StreamTexts DEF ArchiveTyped, StreamShape, ClientShape, Out, Native, StreamOf, OuterPath, Paths

LEMMA TypedAnnounce ==
    ASSUME StreamsTyped, ArchiveTyped, AnnounceArchive
    PROVE  ArchiveTyped'
<1> DEFINE r == ArchiveRequest(<<ArchiveItem(OuterPath, "sentinel")>>, failed)
<1>1. /\ stage = "announce" /\ stage' = "stream" /\ requests' = <<r>>
      /\ requests = <<>> /\ failed = {}
      /\ UNCHANGED <<archive, sent, proc, channel, items, failed, uploads, listed,
                     outer_mtime, errors>>
  BY DEF AnnounceArchive, Submitted, ArchiveTyped, ClientShape
<1>2. IsSentinel(r) /\ r \in [items : Seq(ItemsOf(archive) \cup {ArchiveItem(OuterPath, "sentinel")}),
                            failed : SUBSET Paths]
  BY <1>1 DEF ArchiveRequest, IsSentinel
<1> HIDE DEF r
<1>3. StreamShape'
  BY <1>1 DEF ArchiveTyped, StreamShape, Native
<1>4. ClientShape'
  BY <1>1 DEF ArchiveTyped, ClientShape
<1>5. ~Started'
  BY <1>1, <1>2 DEF Started
<1>6. ServerShape'
  BY <1>1, <1>2, <1>5 DEF ArchiveTyped, ServerShape
<1>7. CompletionShape'
  BY <1>1, <1>2, <1>5 DEF ArchiveTyped, ClientShape, CompletionShape
<1> QED
  BY <1>3, <1>4, <1>6, <1>7 DEF ArchiveTyped

\* A step of the extractor before its end.
LEMMA TypedExtractor ==
    ASSUME StreamsTyped, ArchiveTyped,
           ExtractMember \/ Exit \/ ExtractorDies \/ (\E outcome \in {"ok", "failed", "missing"} : ExtractorEnds(outcome))
    PROVE  ArchiveTyped'
<1>1. /\ stage = "stream" /\ proc = "running"
      /\ UNCHANGED <<archive, stage, items, failed, uploads, serverVars>>
  BY DEF ExtractMember, Exit, ExtractorDies, ExtractorEnds
<1>2. StreamShape'
  <2>1. CASE ExtractMember
    <3> DEFINE b == StreamOf(archive)[sent + 1]
    <3>1. /\ sent \in Nat /\ sent + 1 \in 1..Len(StreamOf(archive)) /\ sent' = sent + 1
          /\ Native /\ proc' = proc /\ channel' = Append(channel, b)
      BY <2>1, ArchiveFacts DEF ExtractMember, ArchiveTyped, StreamShape
    <3>2. b \in MemberBatches /\ sent + 1 \in DOMAIN StreamOf(archive)
      BY <3>1, ArchiveFacts
    <3> HIDE DEF b
    <3>3. /\ channel' \in Seq(MemberBatches) /\ Len(channel') = Len(channel) + 1
          /\ DOMAIN channel' = 1..(Len(channel) + 1) /\ DOMAIN channel = 1..Len(channel)
          /\ \A j \in 1..Len(channel) : channel'[j] = channel[j]
          /\ channel'[Len(channel) + 1] = b
          /\ Len(channel) \in Nat
      BY <3>1, <3>2, ArchiveFacts
    <3>4. \A j \in DOMAIN channel' : \E i \in DOMAIN StreamOf(archive) : channel'[j] = StreamOf(archive)[i]
      <4>1. \A j \in DOMAIN channel : \E i \in DOMAIN StreamOf(archive) : channel[j] = StreamOf(archive)[i]
        BY DEF ArchiveTyped, StreamShape
      <4>2. b = StreamOf(archive)[sent + 1]
        BY DEF b
      <4> QED
        BY <3>2, <3>3, <4>1, <4>2
    <3>5. /\ Len(channel) <= sent
          /\ \A j \in DOMAIN channel : channel[j] = StreamOf(archive)[sent - Len(channel) + j]
      BY <3>1 DEF ArchiveTyped, StreamShape
    <3>6. \A j \in DOMAIN channel' : channel'[j] = StreamOf(archive)[sent' - Len(channel') + j]
      BY <3>1, <3>3, <3>5 DEF b
    <3> QED
      BY <1>1, <3>1, <3>3, <3>4, <3>5, <3>6 DEF ArchiveTyped, StreamShape, Native
  <2>2. CASE Exit \/ ExtractorDies
    BY <1>1, <2>2, ArchiveFacts DEF Exit, ExtractorDies, ArchiveTyped, StreamShape, Native
  <2>3. CASE \E outcome \in {"ok", "failed", "missing"} : ExtractorEnds(outcome)
    <3>1. channel' \in {<<>>, StreamOf(archive)} /\ ~Native /\ sent' = sent /\ proc' \in {"ok", "failed", "missing"}
      BY <2>3, ArchiveFacts DEF ExtractorEnds
    <3>2. channel' \in Seq(MemberBatches)
      <4>1. <<>> \in Seq(MemberBatches) /\ StreamOf(archive) \in Seq(MemberBatches)
        BY ArchiveFacts
      <4> QED
        BY <3>1, <4>1
    <3>3. \A j \in DOMAIN channel' : \E i \in DOMAIN StreamOf(archive) : channel'[j] = StreamOf(archive)[i]
      BY <3>1
    <3>4. ~Native' /\ archive' = archive /\ stage' = stage
      BY <1>1, <3>1 DEF Native
    <3> QED
      BY <3>1, <3>2, <3>3, <3>4 DEF ArchiveTyped, StreamShape
  <2> QED
    BY <2>1, <2>2, <2>3
<1>3. ClientShape'
  BY <1>1 DEF ArchiveTyped, ClientShape
<1>4. ServerShape'
  BY <1>1 DEF ArchiveTyped, ServerShape, serverVars, Started
<1>5. CompletionShape'
  <2>1. CASE Native
    BY <1>1, <2>1 DEF CompletionShape, Completes, Native
  <2>2. CASE ~Native
    <3>1. ~Completes
      BY <1>1, <2>2 DEF Completes
    <3>2. \/ proc' = "ok"
          \/ channel' = <<>>
      BY <2>2 DEF ExtractMember, Exit, ExtractorDies, ExtractorEnds
    <3>3. Started' <=> Started
      BY <1>1 DEF Started, serverVars
    <3> QED
      BY <1>1, <3>1, <3>2, <3>3 DEF ArchiveTyped, CompletionShape, Completes, serverVars
  <2> QED
    BY <2>1, <2>2
<1> QED
  BY <1>2, <1>3, <1>4, <1>5 DEF ArchiveTyped

\* What the client posts keeps the archive's completion, once sent.
LEMMA PostsKeeps ==
    ASSUME StreamsTyped, ArchiveTyped, Posts, NEW k \in DOMAIN requests
    PROVE  k \in DOMAIN requests' /\ requests'[k] = requests[k]
<1>1. requests \in Seq([items : Seq(ItemsOf(archive) \cup {ArchiveItem(OuterPath, "sentinel")}),
                         failed : SUBSET Paths])
  BY DEF ArchiveTyped, ServerShape
<1>2. ASSUME NEW r \in RequestsOf(archive), requests' = Append(requests, r)
      PROVE  k \in DOMAIN requests' /\ requests'[k] = requests[k]
  <2> DEFINE R == [items : Seq(ItemsOf(archive) \cup {ArchiveItem(OuterPath, "sentinel")}), failed : SUBSET Paths]
  <2>1. requests \in Seq(R) /\ r \in R
    BY <1>1, <1>2 DEF RequestsOf
  <2> HIDE DEF R
  <2> QED
    BY <1>2, <2>1
<1> QED
  BY <1>2 DEF Posts

\* A batch taken from the channel: the first one, and what is left.
LEMMA Received ==
    ASSUME StreamsTyped, ArchiveTyped, channel # <<>>, channel' = Tail(channel),
           UNCHANGED <<archive, sent, proc, stage>>
    PROVE  /\ StreamShape'
           /\ Head(channel) \in MemberBatches
           /\ Head(channel).lines # "none" =>
                ArchiveItem(Head(channel).path, Head(channel).lines) \in MemberItemsOf(archive)
<1>1. /\ Head(channel) = channel[1] /\ 1 \in DOMAIN channel /\ Len(channel) \in Nat
      /\ channel' \in Seq(MemberBatches) /\ Len(channel') = Len(channel) - 1
      /\ \A j \in DOMAIN channel' : j + 1 \in DOMAIN channel /\ channel'[j] = channel[j + 1] /\ j \in Nat
      /\ channel[1] \in MemberBatches
  BY ArchiveFacts
<1>2. PICK i \in DOMAIN StreamOf(archive) : channel[1] = StreamOf(archive)[i]
  BY <1>1 DEF ArchiveTyped, StreamShape
<1>3. channel[1].lines # "none" =>
        channel[1].path \in MemberNames(archive) /\ channel[1].lines \in MemberTexts(archive)
  BY <1>2, ArchiveFacts, StreamTexts
<1>4. \A j \in DOMAIN channel' : \E k \in DOMAIN StreamOf(archive) : channel'[j] = StreamOf(archive)[k]
  BY <1>1 DEF ArchiveTyped, StreamShape
<1>5. Native => \A j \in DOMAIN channel' : channel'[j] = StreamOf(archive)[sent - Len(channel') + j]
  BY <1>1 DEF ArchiveTyped, StreamShape
<1>6. StreamShape'
  BY <1>1, <1>4, <1>5 DEF ArchiveTyped, StreamShape, Native
<1> QED
  BY <1>1, <1>3, <1>6 DEF ArchiveItem, MemberItemsOf

LEMMA TypedReceive ==
    ASSUME StreamsTyped, ArchiveTyped, NEW now \in BOOLEAN, NEW uploaded \in BOOLEAN,
           ReceiveBatch(now, uploaded)
    PROVE  ArchiveTyped' /\ Posts
<1> DEFINE b == Head(channel)
           item == ArchiveItem(b.path, b.lines)
           noted == failed \cup (IF Native /\ b.skip_reason THEN {b.path} ELSE {})
<1>1. /\ stage = "stream" /\ channel # <<>> /\ channel' = Tail(channel)
      /\ UNCHANGED <<archive, sent, proc, stage, listed, outer_mtime, errors>>
  BY DEF ReceiveBatch
<1>2. /\ StreamShape' /\ b \in MemberBatches
      /\ b.lines # "none" => item \in MemberItemsOf(archive)
  BY <1>1, Received
<1>3. items \in Seq(MemberItemsOf(archive)) /\ MemberItemsOf(archive) \subseteq ItemsOf(archive)
  BY <1>1 DEF ArchiveTyped, ClientShape, ItemsOf
<1>4. b.path \in Paths /\ OuterPath \in Paths
  BY <1>2, ArchiveFacts DEF MemberBatches
<1>5. ASSUME b.lines = "none"
      PROVE  /\ items' \in Seq(MemberItemsOf(archive)) /\ failed' \in SUBSET Paths
             /\ uploads' \in SUBSET MemberNames(archive)
             /\ requests' = requests
  <2>1. /\ failed' \in SUBSET Paths
        /\ UNCHANGED <<items, requests, uploads>>
    BY <1>4, <1>5, ArchiveFacts DEF ReceiveBatch
  <2> QED
    BY <1>3, <2>1 DEF ArchiveTyped, ClientShape
<1>6. ASSUME b.lines # "none"
      PROVE  /\ items' \in Seq(MemberItemsOf(archive)) /\ failed' \in SUBSET Paths
             /\ uploads' \in SUBSET MemberNames(archive)
             /\ requests' = requests \/ \E r \in RequestsOf(archive) : requests' = Append(requests, r)
  <2>1. Push(Append(items, item), noted, now)
    BY <1>6 DEF ReceiveBatch
  <2>2. uploads' \in {uploads, uploads \cup {b.path}}
    BY <1>6 DEF ReceiveBatch
  <2>3. item \in MemberItemsOf(archive) /\ b.path \in MemberNames(archive)
    BY <1>2, <1>6, ArchiveFacts, ItemKinds2 DEF ArchiveItem
  <2>4. Append(items, item) \in Seq(MemberItemsOf(archive)) /\ noted \in SUBSET Paths
    BY <1>3, <1>4, <2>3, ArchiveFacts
  <2>5. Append(items, item) \in Seq(ItemsOf(archive))
    BY <1>3, <2>4
  <2> HIDE DEF item, noted
  <2>6. \/ Submitted(Append(items, item), noted) = requests
        \/ \E r \in RequestsOf(archive) : Submitted(Append(items, item), noted) = Append(requests, r)
    BY <2>4, <2>5, SubmittedPosts
  <2>7. <<>> \in Seq(MemberItemsOf(archive))
    OBVIOUS
  <2> QED
    BY <2>1, <2>2, <2>3, <2>4, <2>6, <2>7 DEF Push, ArchiveTyped, ClientShape
<1>7. /\ items' \in Seq(MemberItemsOf(archive)) /\ failed' \in SUBSET Paths
      /\ uploads' \in SUBSET MemberNames(archive)
      /\ requests' = requests \/ \E r \in RequestsOf(archive) : requests' = Append(requests, r)
  BY <1>5, <1>6
<1>8. Posts
  BY <1>1, <1>7 DEF Posts
<1>9. ServerShape' /\ (Started' <=> Started)
  BY <1>8, PostsShape
<1>10. ClientShape'
  <2>1. items' \in Seq(ItemsOf(archive))
    BY <1>3, <1>7
  <2> QED
    BY <1>1, <1>7, <2>1 DEF ArchiveTyped, ClientShape
<1>11. CompletionShape'
  BY <1>1 DEF ArchiveTyped, CompletionShape, Completes, Native
<1> QED
  BY <1>2, <1>8, <1>9, <1>10, <1>11 DEF ArchiveTyped

LEMMA TypedFinishes ==
    ASSUME StreamsTyped, ArchiveTyped, FinishArchive
    PROVE  ArchiveTyped' /\ Posts
<1> DEFINE noted == IF proc = "failed" THEN failed \cup {OuterPath} ELSE failed
<1>1. /\ stage = "stream" /\ stage' = "submit" /\ channel = <<>> /\ proc # "running"
      /\ requests' = IF items # <<>> THEN Submitted(items, noted) ELSE requests
      /\ failed' = IF items # <<>> THEN {} ELSE noted
      /\ items' = IF Completes THEN <<Completion>> ELSE <<>>
      /\ UNCHANGED <<archive, sent, proc, channel, uploads, listed, outer_mtime, errors>>
  BY DEF FinishArchive, Completes, Completion
<1>2. noted \in SUBSET Paths /\ items \in Seq(ItemsOf(archive))
  BY ArchiveFacts
<1> HIDE DEF noted
<1>3. failed' \in SUBSET Paths
  BY <1>1, <1>2
<1>4. Posts
  BY <1>1, <1>2, SubmittedPosts DEF Posts
<1>5. ServerShape' /\ (Started' <=> Started)
  BY <1>4, PostsShape
<1>6. items' \in Seq(ItemsOf(archive))
  <2>1. <<>> \in Seq(ItemsOf(archive)) /\ <<Completion>> \in Seq(ItemsOf(archive))
    BY DEF ItemsOf
  <2> QED
    BY <1>1, <2>1
<1>7. ClientShape'
  BY <1>1, <1>3, <1>6 DEF ArchiveTyped, ClientShape, Completes, Native
<1>8. StreamShape'
  BY <1>1 DEF ArchiveTyped, StreamShape, Native
<1>9. CompletionShape'
  <2>1. CASE Completes
    BY <1>1, <2>1 DEF CompletionShape, Completes, Native
  <2>2. CASE ~Completes
    <3>1. items = <<>> /\ ~Completes'
      BY <1>1, <2>2 DEF ArchiveTyped, CompletionShape, Completes, Native
    <3>2. requests' = requests /\ items' = <<>>
      BY <1>1, <2>2, <3>1
    <3> QED
      BY <1>1, <1>5, <2>2, <3>1, <3>2 DEF ArchiveTyped, CompletionShape
  <2> QED
    BY <2>1, <2>2
<1> QED
  BY <1>4, <1>5, <1>7, <1>8, <1>9 DEF ArchiveTyped

LEMMA TypedClose ==
    ASSUME StreamsTyped, ArchiveTyped, CloseArchive
    PROVE  ArchiveTyped' /\ Posts
<1>1. /\ stage = "submit" /\ stage' = "done" /\ channel = <<>> /\ proc # "running"
      /\ requests' = Submitted(items, failed) /\ items' = <<>> /\ failed' = {}
      /\ items = IF Completes THEN <<Completion>> ELSE <<>>
      /\ UNCHANGED <<archive, sent, proc, channel, uploads, listed, outer_mtime, errors>>
  BY DEF CloseArchive, ArchiveTyped, ClientShape
<1>2. failed \in SUBSET Paths /\ items \in Seq(ItemsOf(archive))
  BY ArchiveFacts
<1>3. Posts
  BY <1>1, <1>2, SubmittedPosts DEF Posts
<1>4. ServerShape' /\ (Started' <=> Started)
  BY <1>3, PostsShape
<1>5. ClientShape'
  BY <1>1 DEF ArchiveTyped, ClientShape
<1>6. StreamShape'
  BY <1>1 DEF ArchiveTyped, StreamShape, Native
<1> DEFINE r == ArchiveRequest(items, failed)
<1>7. requests \in Seq([items : Seq(ItemsOf(archive) \cup {ArchiveItem(OuterPath, "sentinel")}),
                         failed : SUBSET Paths])
  BY DEF ArchiveTyped, ServerShape
<1>8. CompletionShape'
  <2>1. CASE Completes
    <3>1. items # <<>> /\ items[1].lines = "complete" /\ 1 \in DOMAIN items
      BY <1>1, <2>1 DEF Completion, ArchiveItem
    <3>2. r \in RequestsOf(archive) /\ requests' = Append(requests, r)
      BY <1>1, <1>2, <3>1, SubmittedPosts
    <3>3. Has(r, "complete")
      BY <3>1 DEF Has, ArchiveRequest
    <3> HIDE DEF r
    <3>4. Len(requests) + 1 \in DOMAIN requests' /\ requests'[Len(requests) + 1] = r
      <4> DEFINE R == [items : Seq(ItemsOf(archive) \cup {ArchiveItem(OuterPath, "sentinel")}), failed : SUBSET Paths]
      <4>1. requests \in Seq(R) /\ r \in R
        BY <1>7, <3>2 DEF RequestsOf
      <4> HIDE DEF R
      <4> QED
        BY <3>2, <4>1
    <3>5. Completes'
      BY <1>1, <2>1 DEF Completes, Native
    <3> QED
      BY <3>3, <3>4, <3>5 DEF CompletionShape
  <2>2. CASE ~Completes
    <3>1. ~Completes' /\ items = <<>>
      BY <1>1, <2>2 DEF Completes, Native
    <3>2. requests' = requests \/ requests' = Append(requests, r)
      BY <1>1 DEF Submitted
    <3>3. r.items = <<>>
      BY <3>1 DEF ArchiveRequest
    <3>4. \A k \in DOMAIN requests : requests[k].items = <<>> \/ IsSentinel(requests[k])
      BY <1>1, <2>2 DEF ArchiveTyped, CompletionShape
    <3>5. \A k \in DOMAIN requests' : requests'[k].items = <<>> \/ IsSentinel(requests'[k])
      <4> DEFINE R == [items : Seq(ItemsOf(archive) \cup {ArchiveItem(OuterPath, "sentinel")}), failed : SUBSET Paths]
      <4>1. requests \in Seq(R)
        BY <1>7
      <4>2. r \in R
        BY <1>2 DEF ArchiveRequest
      <4> HIDE DEF R, r
      <4> QED
        BY <3>2, <3>3, <3>4, <4>1, <4>2
    <3> QED
      BY <1>1, <1>4, <2>2, <3>1, <3>5 DEF ArchiveTyped, CompletionShape
  <2> QED
    BY <2>1, <2>2
<1> QED
  BY <1>3, <1>4, <1>5, <1>6, <1>8 DEF ArchiveTyped

LEMMA TypedServerExtract ==
    ASSUME StreamsTyped, ArchiveTyped, NEW p \in uploads, ServerExtract(p)
    PROVE  ArchiveTyped' /\ Posts
<1> DEFINE r == ArchiveRequest(<<ArchiveItem(p, "own")>>, {})
<1>1. /\ uploads' = uploads \ {p} /\ requests' = Append(requests, r)
      /\ UNCHANGED <<archive, stage, sent, proc, channel, items, failed, listed,
                     outer_mtime, errors>>
  BY DEF ServerExtract, clientVars
<1>2. p \in MemberNames(archive) /\ stage # "announce"
  BY DEF ArchiveTyped, ClientShape
<1>3. ArchiveItem(p, "own") \in ItemsOf(archive)
  BY <1>2 DEF ItemsOf, MemberItemsOf, MemberTexts, ArchiveItem
<1>4. r \in RequestsOf(archive)
  BY <1>3 DEF RequestsOf, ArchiveRequest
<1> HIDE DEF r
<1>5. Posts
  BY <1>1, <1>2, <1>4 DEF Posts
<1>6. ServerShape' /\ (Started' <=> Started)
  BY <1>5, PostsShape
<1>7. ClientShape'
  BY <1>1, <1>2 DEF ArchiveTyped, ClientShape, Completes, Native
<1>8. StreamShape'
  BY <1>1 DEF ArchiveTyped, StreamShape, Native
<1>9. CompletionShape'
  <2>1. Completes
    BY <1>2 DEF ArchiveTyped, CompletionShape
  <2>2. \A k \in DOMAIN requests : k \in DOMAIN requests' /\ requests'[k] = requests[k]
    BY <1>5, PostsKeeps
  <2> QED
    BY <1>1, <1>6, <2>1, <2>2 DEF ArchiveTyped, CompletionShape, Completes, Native
<1> QED
  BY <1>5, <1>6, <1>7, <1>8, <1>9 DEF ArchiveTyped

-----------------------------------------------------------------------------
(* What a request makes of the rows.                                        *)

RowsAfter(seen, q) == FoldLeft(WithItem, seen, q)

LEMMA WithItemType ==
    ASSUME StreamsTyped, NEW a \in Tops, NEW s \in ListingsOf(a), NEW x \in ItemsOf(a)
    PROVE  /\ WithItem(s, x) \in ListingsOf(a)
           /\ DOMAIN WithItem(s, x) = DOMAIN s \cup ({x.path} \ {OuterPath})
<1>1. PICK D \in SUBSET MemberNames(a) : s \in [D -> MemberTexts(a)]
  BY DEF ListingsOf
<1>2. CASE x = Completion
  <2>1. WithItem(s, x) = s /\ x.path = OuterPath
    BY <1>2, ItemKinds2 DEF WithItem
  <2> QED
    BY <2>1
<1>3. CASE x \in MemberItemsOf(a)
  <2>1. /\ x.path \in MemberNames(a) /\ x.lines \in MemberTexts(a)
        /\ x.lines \notin {"sentinel", "complete"} /\ x.path # OuterPath
    BY <1>3, ItemKinds2
  <2> DEFINE E == D \cup {x.path}
             t == [p \in E |-> IF p = x.path THEN x.lines ELSE s[p]]
  <2>2. WithItem(s, x) = t
    BY <1>1, <2>1 DEF WithItem
  <2>3. E \in SUBSET MemberNames(a) /\ t \in [E -> MemberTexts(a)]
    BY <1>1, <2>1
  <2>4. t \in ListingsOf(a)
    <3> HIDE DEF t, E
    <3> QED
      BY <2>3 DEF ListingsOf
  <2> QED
    BY <1>1, <2>1, <2>2, <2>4
<1> QED
  BY <1>2, <1>3 DEF ItemsOf

LEMMA RowsApply ==
    ASSUME StreamsTyped, NEW a \in Tops, NEW b \in ListingsOf(a), NEW q \in Seq(ItemsOf(a))
    PROVE  \E g \in [0..Len(q) -> ListingsOf(a)] :
             /\ g[0] = b
             /\ \A i \in 1..Len(q) : g[i] = WithItem(g[i - 1], q[i])
             /\ RowsAfter(b, q) = g[Len(q)]
<1> DEFINE n == Len(q)
           D == 1..n
           Folds(it) == it = [s \in SUBSET D |->
                           IF s = {} THEN b
                           ELSE WithItem(it[s \ {Max(s)}], q[Max(s)])]
           c == [s \in SUBSET D |-> Max(s)]
           A == [t \in ListingsOf(a) \X D |-> WithItem(t[1], q[t[2]])]
<1>1. n \in Nat /\ DOMAIN q = D /\ \A i \in D : q[i] \in ItemsOf(a)
  OBVIOUS
<1>2. FoldLeft(WithItem, b, q) = (CHOOSE it : Folds(it))[D]
  <2>1. FoldLeft(WithItem, b, q)
          = (CHOOSE it : it = [s \in SUBSET (DOMAIN q) |->
                           IF s = {} THEN b
                           ELSE WithItem(it[s \ {Max(s)}], q[Max(s)])])[DOMAIN q]
    BY DEF FoldLeft, MapThenFoldSet
  <2> QED
    BY <1>1, <2>1
<1>3. \A s \in SUBSET D : s # {} => Max(s) \in s
  BY <1>1, MaxOfSome
<1>4. \E it : Folds(it)
  <2>1. \A s \in SUBSET D : s # {} => c[s] \in s
    BY <1>3
  <2>2. A \in [ListingsOf(a) \X D -> ListingsOf(a)]
    BY <1>1, WithItemType
  <2>3. IsFiniteSet(D)
    BY <1>1, FS_Interval
  <2>4. PICK it : FoldOf(D, ListingsOf(a), b, A, c, it)
    <3> HIDE DEF A, c, D
    <3> QED
      BY <2>1, <2>2, <2>3, FoldExists, Zenon
  <2>5. ASSUME NEW s \in SUBSET D
        PROVE  it[s] = IF s = {} THEN b ELSE WithItem(it[s \ {Max(s)}], q[Max(s)])
    <3>1. it[s] = FoldStep(b, A, c, it, s)
      BY <2>4 DEF FoldOf
    <3>2. CASE s = {}
      BY <3>1, <3>2 DEF FoldStep
    <3>3. CASE s # {}
      <4>1. it[s] = A[<<it[s \ {c[s]}], c[s]>>]
        BY <3>1, <3>3 DEF FoldStep
      <4>2. c[s] = Max(s) /\ Max(s) \in D
        BY <1>3, <3>3
      <4>3. it[s \ {Max(s)}] \in ListingsOf(a)
        BY <2>4 DEF FoldOf
      <4> HIDE DEF c, D
      <4>4. A[<<it[s \ {Max(s)}], Max(s)>>] = WithItem(it[s \ {Max(s)}], q[Max(s)])
        BY <4>2, <4>3
      <4> QED
        BY <3>3, <4>1, <4>2, <4>4
    <3> QED
      BY <3>2, <3>3
  <2>6. it = [s \in SUBSET D |-> it[s]]
    BY <2>4 DEF FoldOf
  <2>7. Folds(it)
    BY <2>5, <2>6
  <2> QED
    BY <2>7
<1> DEFINE it == CHOOSE it : Folds(it)
<1>5. Folds(it)
  <2> HIDE DEF Folds
  <2> QED
    BY <1>4
<1> HIDE DEF it
<1>6. it[{}] = b
  BY <1>5
<1>7. ASSUME NEW i \in D
      PROVE  it[1..i] = WithItem(it[1..(i - 1)], q[i])
  <2>0. i \in Nat /\ i \in 1..i /\ i <= n
    BY <1>1
  <2>1. 1..i \in SUBSET D /\ 1..i # {}
    <3>1. \A j \in 1..i : j \in D
      BY <1>1, <2>0
    <3> QED
      BY <2>0, <3>1
  <2>2. Max(1..i) = i
    <3>1. Max(1..i) \in 1..i /\ i <= Max(1..i)
      BY <2>0, <2>1, <1>1, MaxOfSome
    <3> QED
      BY <2>0, <3>1
  <2>3. (1..i) \ {i} = 1..(i - 1)
    BY <1>1
  <2> QED
    BY <1>5, <2>1, <2>2, <2>3
<1> DEFINE I == {i \in Nat : i <= n => it[1..i] \in ListingsOf(a)}
<1>8. Nat \subseteq I
  <2>1. 0 \in I
    <3>1. 1..0 = {}
      OBVIOUS
    <3> QED
      BY <1>6, <3>1
  <2>2. ASSUME NEW i \in Nat, i \in I PROVE i + 1 \in I
    <3>1. CASE i + 1 <= n
      <4>1. it[1..i] \in ListingsOf(a) /\ i + 1 \in D /\ (i + 1) - 1 = i
        BY <1>1, <2>2, <3>1
      <4>2. it[1..(i + 1)] = WithItem(it[1..i], q[i + 1])
        BY <1>7, <4>1
      <4>3. it[1..(i + 1)] \in ListingsOf(a)
        <5>1. q[i + 1] \in ItemsOf(a)
          BY <1>1, <4>1
        <5>2. WithItem(it[1..i], q[i + 1]) \in ListingsOf(a)
          BY <4>1, <5>1, WithItemType
        <5> QED
          BY <4>2, <5>2
      <4> QED
        BY <4>3
    <3>2. CASE ~(i + 1 <= n)
      BY <3>2
    <3> QED
      BY <3>1, <3>2
  <2> HIDE DEF I
  <2> QED
    BY <2>1, <2>2, SetInduction
<1> DEFINE g == [i \in 0..n |-> it[1..i]]
<1>9. g \in [0..n -> ListingsOf(a)]
  BY <1>1, <1>8
<1>10. g[0] = b
  <2>1. 1..0 = {}
    OBVIOUS
  <2> QED
    BY <1>1, <1>6, <2>1
<1>11. \A i \in D : g[i] = WithItem(g[i - 1], q[i])
  <2> SUFFICES ASSUME NEW i \in D PROVE g[i] = WithItem(g[i - 1], q[i])
    OBVIOUS
  <2>1. g[i] = it[1..i] /\ g[i - 1] = it[1..(i - 1)]
    BY <1>1
  <2> QED
    BY <1>7, <2>1
<1>12. RowsAfter(b, q) = g[n]
  BY <1>1, <1>2 DEF it, RowsAfter
<1> HIDE DEF g, it
<1> QED
  BY <1>9, <1>10, <1>11, <1>12


\* The rows a request of members adds: those of its items.
LEMMA RowsGrow ==
    ASSUME StreamsTyped, NEW a \in Tops, NEW s \in ListingsOf(a), NEW q \in Seq(ItemsOf(a))
    PROVE  /\ RowsAfter(s, q) \in ListingsOf(a)
           /\ DOMAIN RowsAfter(s, q) = DOMAIN s \cup (PathsOf(q) \ {OuterPath})
<1> DEFINE n == Len(q)
<1>1. PICK g \in [0..n -> ListingsOf(a)] :
        /\ g[0] = s
        /\ \A i \in 1..n : g[i] = WithItem(g[i - 1], q[i])
        /\ RowsAfter(s, q) = g[n]
  BY RowsApply
<1>2. n \in Nat /\ DOMAIN q = 1..n /\ \A i \in 1..n : q[i] \in ItemsOf(a)
  OBVIOUS
<1> DEFINE Upto(k) == DOMAIN s \cup ({q[i].path : i \in 1..k} \ {OuterPath})
           I == {k \in Nat : k <= n => DOMAIN g[k] = Upto(k)}
<1>3. 0 \in I
  <2>1. 1..0 = {}
    OBVIOUS
  <2> QED
    BY <1>1, <2>1
<1>4. ASSUME NEW k \in Nat, k \in I PROVE k + 1 \in I
  <2> SUFFICES ASSUME k + 1 <= n PROVE DOMAIN g[k + 1] = Upto(k + 1)
    OBVIOUS
  <2>1. /\ k \in 0..n /\ k + 1 \in 1..n /\ (k + 1) - 1 = k /\ g[k] \in ListingsOf(a)
        /\ DOMAIN g[k] = Upto(k)
    BY <1>1, <1>2, <1>4
  <2>2. g[k + 1] = WithItem(g[k], q[k + 1]) /\ q[k + 1] \in ItemsOf(a)
    BY <1>1, <1>2, <2>1
  <2>3. DOMAIN g[k + 1] = DOMAIN g[k] \cup ({q[k + 1].path} \ {OuterPath})
    BY <2>1, <2>2, WithItemType
  <2>4. {q[i].path : i \in 1..(k + 1)} = {q[i].path : i \in 1..k} \cup {q[k + 1].path}
    <3>1. 1..(k + 1) = (1..k) \cup {k + 1}
      OBVIOUS
    <3> QED
      BY <3>1
  <2> QED
    BY <2>1, <2>3, <2>4
<1>5. n \in I
  <2> HIDE DEF I
  <2> QED
    BY <1>2, <1>3, <1>4, SetInduction
<1>6. DOMAIN g[n] = Upto(n) /\ g[n] \in ListingsOf(a)
  BY <1>1, <1>2, <1>5
<1>7. PathsOf(q) = {q[i].path : i \in 1..n}
  BY <1>2 DEF PathsOf
<1> QED
  BY <1>1, <1>6, <1>7

\* A sequence of items with one item only.
LEMMA RowsAfterOne ==
    ASSUME NEW s, NEW x
    PROVE  RowsAfter(s, <<x>>) = WithItem(s, x)
<1> DEFINE q == <<x>>
           D == {1}
           Folds(it) == it = [u \in SUBSET D |->
                           IF u = {} THEN s
                           ELSE WithItem(it[u \ {Max(u)}], q[Max(u)])]
           F == [u \in SUBSET D |-> IF u = {} THEN s ELSE WithItem(s, x)]
<1>1. DOMAIN q = D /\ q[1] = x /\ SUBSET D = {{}, {1}}
  <2>1. q \in Seq({x}) /\ Len(q) = 1 /\ q[1] = x
    OBVIOUS
  <2>2. DOMAIN q = 1..Len(q)
    BY <2>1
  <2>3. 1..1 = {1}
    <3>1. \A i \in 1..1 : i = 1
      OBVIOUS
    <3>2. 1 \in 1..1
      OBVIOUS
    <3> QED
      BY <3>1, <3>2
  <2>4. SUBSET D = {{}, {1}}
    BY Zenon
  <2> QED
    BY <2>1, <2>2, <2>3, <2>4
<1>2. FoldLeft(WithItem, s, q) = (CHOOSE it : Folds(it))[D]
  <2>1. FoldLeft(WithItem, s, q)
          = (CHOOSE it : it = [u \in SUBSET (DOMAIN q) |->
                           IF u = {} THEN s
                           ELSE WithItem(it[u \ {Max(u)}], q[Max(u)])])[DOMAIN q]
    BY DEF FoldLeft, MapThenFoldSet
  <2> QED
    BY <1>1, <2>1
<1>3. Max({1}) = 1 /\ {1} \ {1} = {}
  <2>1. {1} \in SUBSET (1..1) /\ {1} # {}
    OBVIOUS
  <2> QED
    BY <2>1, MaxOfSome
<1>4. Folds(F)
  <2>1. \A u \in SUBSET D : F[u] = IF u = {} THEN s ELSE WithItem(F[u \ {Max(u)}], q[Max(u)])
    <3> SUFFICES ASSUME NEW u \in SUBSET D
                 PROVE  F[u] = IF u = {} THEN s ELSE WithItem(F[u \ {Max(u)}], q[Max(u)])
      OBVIOUS
    <3>1. CASE u = {}
      BY <3>1
    <3>2. CASE u = {1}
      <4>1. F[u] = WithItem(s, x) /\ F[{}] = s
        BY <3>2
      <4>2. u \ {Max(u)} = {} /\ q[Max(u)] = x
        BY <3>2, <1>1, <1>3
      <4> HIDE DEF F, q
      <4> QED
        BY <3>2, <4>1, <4>2
    <3> QED
      BY <1>1, <3>1, <3>2
  <2>2. F = [u \in SUBSET D |-> F[u]]
    OBVIOUS
  <2> HIDE DEF F
  <2> QED
    BY <2>1, <2>2
<1> DEFINE it == CHOOSE it : Folds(it)
<1>5. Folds(it)
  <2> HIDE DEF Folds
  <2> QED
    BY <1>4
<1> HIDE DEF it
<1>6. it[{}] = s
  BY <1>5
<1>7. it[{1}] = WithItem(it[{}], x)
  BY <1>1, <1>3, <1>5
<1>8. FoldLeft(WithItem, s, q) = it[{1}]
  BY <1>2 DEF it
<1> QED
  BY <1>6, <1>7, <1>8 DEF RowsAfter

\* Tail
LEMMA FirstTaken ==
    ASSUME StreamsTyped, ArchiveTyped, requests # <<>>
    PROVE  /\ Head(requests) = requests[1] /\ 1 \in DOMAIN requests
           /\ requests[1] \in RequestsOf(archive) \/ IsSentinel(requests[1])
           /\ Len(requests) \in Nat /\ Len(Tail(requests)) = Len(requests) - 1
           /\ DOMAIN requests = 1..Len(requests) /\ DOMAIN Tail(requests) = 1..(Len(requests) - 1)
           /\ \A k \in DOMAIN Tail(requests) : k \in Nat /\ k + 1 \in DOMAIN requests
           /\ \A k \in DOMAIN Tail(requests) : Tail(requests)[k] = requests[k + 1]
           /\ \A k \in DOMAIN Tail(requests) : Tail(requests)[k] \in RequestsOf(archive)
           /\ \A k \in DOMAIN requests : k = 1 \/ (k - 1 \in DOMAIN Tail(requests) /\ requests[k] = Tail(requests)[k - 1])
           /\ Tail(requests) \in Seq([items : Seq(ItemsOf(archive) \cup {ArchiveItem(OuterPath, "sentinel")}),
                                      failed : SUBSET Paths])
<1> DEFINE R == [items : Seq(ItemsOf(archive) \cup {ArchiveItem(OuterPath, "sentinel")}), failed : SUBSET Paths]
<1>1. requests \in Seq(R)
  BY DEF ArchiveTyped, ServerShape
<1>2. \A k \in DOMAIN requests : requests[k] \in RequestsOf(archive) \/ (k = 1 /\ IsSentinel(requests[k]))
  BY DEF ArchiveTyped, ServerShape
<1> HIDE DEF R
<1>3. /\ Head(requests) = requests[1] /\ 1 \in DOMAIN requests
      /\ Len(requests) \in Nat /\ Len(Tail(requests)) = Len(requests) - 1
      /\ DOMAIN requests = 1..Len(requests) /\ DOMAIN Tail(requests) = 1..(Len(requests) - 1)
      /\ Tail(requests) \in Seq(R)
  BY <1>1
<1>4. \A k \in DOMAIN Tail(requests) : k \in Nat /\ k + 1 \in DOMAIN requests
  BY <1>3
<1>5. \A k \in DOMAIN Tail(requests) : Tail(requests)[k] = requests[k + 1]
  BY <1>1, <1>3
<1>6. \A k \in DOMAIN Tail(requests) : Tail(requests)[k] \in RequestsOf(archive)
  BY <1>2, <1>3, <1>4, <1>5
<1>7. \A k \in DOMAIN requests : k = 1 \/ (k - 1 \in DOMAIN Tail(requests) /\ requests[k] = Tail(requests)[k - 1])
  <2> SUFFICES ASSUME NEW k \in DOMAIN requests, k # 1 PROVE k - 1 \in DOMAIN Tail(requests) /\ requests[k] = Tail(requests)[k - 1]
    OBVIOUS
  <2>1. k - 1 \in DOMAIN Tail(requests) /\ (k - 1) + 1 = k
    BY <1>3
  <2> QED
    BY <1>5, <2>1
<1> QED
  BY <1>2, <1>3, <1>4, <1>5, <1>6, <1>7 DEF R

LEMMA SentinelClears ==
    ASSUME NEW s
    PROVE  RowsAfter(s, <<ArchiveItem(OuterPath, "sentinel")>>) = <<>>
<1>1. RowsAfter(s, <<ArchiveItem(OuterPath, "sentinel")>>) = WithItem(s, ArchiveItem(OuterPath, "sentinel"))
  BY RowsAfterOne
<1>2. WithItem(s, ArchiveItem(OuterPath, "sentinel")) = [p \in {} |-> "own"]
  BY DEF WithItem, ArchiveItem
<1>3. [p \in {} |-> "own"] = <<>>
  OBVIOUS
<1> QED
  BY <1>1, <1>2, <1>3

LEMMA EmptyListing ==
    ASSUME NEW a
    PROVE  <<>> \in ListingsOf(a) /\ DOMAIN <<>> = {}
<1>1. <<>> \in [{} -> MemberTexts(a)] /\ {} \in SUBSET MemberNames(a) /\ DOMAIN <<>> = {}
  OBVIOUS
<1> QED
  BY <1>1 DEF ListingsOf

\* What Process makes of the rows, with the sentinel and without.
LEMMA ProcessRows ==
    ASSUME StreamsTyped, ArchiveTyped, Process
    PROVE  /\ archive \in Tops /\ stage # "announce" /\ requests # <<>> /\ requests' = Tail(requests) /\ Started'
           /\ UNCHANGED <<archive, stage, sent, proc, channel, items, failed, uploads>>
           /\ errors' = Cleanup(requests[1])
           /\ \/ /\ IsSentinel(requests[1]) /\ ~Started
                 /\ listed' = <<>> /\ outer_mtime' = "zero"
              \/ /\ requests[1] \in RequestsOf(archive) /\ Started
                 /\ listed \in ListingsOf(archive)
                 /\ listed' = RowsAfter(listed, requests[1].items)
                 /\ outer_mtime' = IF Has(requests[1], "complete") THEN "real" ELSE outer_mtime
<1>1. /\ requests # <<>> /\ requests' = Tail(requests) /\ archive \in Tops
      /\ UNCHANGED <<archive, stage, sent, proc, channel, items, failed, uploads>>
      /\ errors' = Cleanup(Head(requests))
      /\ listed' = FoldLeft(WithItem, listed, Head(requests).items)
      /\ outer_mtime' = IF Has(Head(requests), "complete") THEN "real"
                        ELSE IF Has(Head(requests), "sentinel") THEN "zero" ELSE outer_mtime
  BY DEF Process, Has, clientVars, ArchiveTyped, StreamShape
<1>2. stage # "announce"
  BY <1>1 DEF ArchiveTyped, ClientShape
<1>3. Head(requests) = requests[1] /\ (requests[1] \in RequestsOf(archive) \/ IsSentinel(requests[1]))
  BY <1>1, FirstTaken
<1>4. listed' = RowsAfter(listed, requests[1].items)
  BY <1>1, <1>3 DEF RowsAfter
<1>5. Started'
  <2>1. ASSUME requests' # <<>> PROVE ~IsSentinel(requests'[1])
    <3>1. 1 \in DOMAIN Tail(requests) => Tail(requests)[1] \in RequestsOf(archive)
      BY <1>1, FirstTaken
    <3>2. 1 \in DOMAIN Tail(requests)
      BY <1>1, <2>1, FirstTaken
    <3> QED
      BY <1>1, <3>1, <3>2, ItemKinds2
  <2> QED
    BY <1>1, <1>2, <2>1 DEF Started
<1>6. CASE IsSentinel(requests[1])
  <2>1. requests[1].items = <<ArchiveItem(OuterPath, "sentinel")>>
    BY <1>6 DEF IsSentinel
  <2>2. listed' = <<>>
    BY <1>4, <2>1, SentinelClears
  <2>3. ~Has(requests[1], "complete") /\ Has(requests[1], "sentinel")
    BY <2>1 DEF Has, ArchiveItem
  <2> QED
    BY <1>1, <1>2, <1>3, <1>5, <1>6, <2>2, <2>3 DEF Started
<1>7. CASE requests[1] \in RequestsOf(archive)
  <2>1. ~IsSentinel(requests[1])
    BY <1>1, <1>7, ItemKinds2
  <2>2. Started
    BY <1>2, <2>1 DEF Started
  <2>3. ~Has(requests[1], "sentinel")
    <3>1. requests[1].items \in Seq(ItemsOf(archive))
      BY <1>7 DEF RequestsOf
    <3>2. \A i \in DOMAIN requests[1].items : requests[1].items[i] \in ItemsOf(archive)
      BY <3>1
    <3>3. \A x \in ItemsOf(archive) : x.lines # "sentinel"
      BY <1>1, ItemKinds2 DEF ItemsOf
    <3> QED
      BY <3>2, <3>3 DEF Has
  <2> QED
    BY <1>1, <1>2, <1>3, <1>4, <1>5, <1>7, <2>2, <2>3 DEF ArchiveTyped, ServerShape
<1> QED
  BY <1>3, <1>6, <1>7

LEMMA TypedProcess ==
    ASSUME StreamsTyped, ArchiveTyped, Process
    PROVE  ArchiveTyped'
<1> DEFINE r == requests[1]
<1>1. /\ archive \in Tops /\ stage # "announce" /\ requests # <<>> /\ requests' = Tail(requests) /\ Started'
      /\ UNCHANGED <<archive, stage, sent, proc, channel, items, failed, uploads>>
      /\ errors' = Cleanup(r)
      /\ \/ /\ IsSentinel(r) /\ ~Started
            /\ listed' = <<>> /\ outer_mtime' = "zero"
         \/ /\ r \in RequestsOf(archive) /\ Started /\ listed \in ListingsOf(archive)
            /\ listed' = RowsAfter(listed, r.items)
            /\ outer_mtime' = IF Has(r, "complete") THEN "real" ELSE outer_mtime
  BY ProcessRows
<1> DEFINE R == [items : Seq(ItemsOf(archive) \cup {ArchiveItem(OuterPath, "sentinel")}), failed : SUBSET Paths]
<1>2. /\ 1 \in DOMAIN requests /\ r \in R
      /\ Tail(requests) \in Seq(R)
      /\ \A k \in DOMAIN Tail(requests) : Tail(requests)[k] \in RequestsOf(archive)
      /\ \A k \in DOMAIN requests : k = 1 \/ (k - 1 \in DOMAIN Tail(requests) /\ requests[k] = Tail(requests)[k - 1])
      /\ \A k \in DOMAIN Tail(requests) : k + 1 \in DOMAIN requests /\ Tail(requests)[k] = requests[k + 1]
  <2>1. requests \in Seq(R)
    BY DEF ArchiveTyped, ServerShape
  <2>2. 1 \in DOMAIN requests
    BY <1>1, FirstTaken
  <2>3. r \in R
    <3> HIDE DEF R
    <3> QED
      BY <2>1, <2>2
  <2> HIDE DEF r
  <2> QED
    BY <1>1, <2>2, <2>3, FirstTaken
<1>3. r.failed \in SUBSET Paths
  BY <1>2
<1> HIDE DEF r, R
<1>4. errors' \in SUBSET Paths
  BY <1>1, <1>3 DEF Cleanup, ArchiveTyped, ServerShape
<1>5. listed' \in ListingsOf(archive)
  <2>1. CASE listed' = <<>>
    BY <2>1, EmptyListing
  <2>2. ASSUME r \in RequestsOf(archive), listed \in ListingsOf(archive)
        PROVE  RowsAfter(listed, r.items) \in ListingsOf(archive)
    <3>1. r.items \in Seq(ItemsOf(archive))
      BY <2>2 DEF RequestsOf
    <3> QED
      BY <1>1, <2>2, <3>1, RowsGrow
  <2> QED
    BY <1>1, <2>1, <2>2
<1>6. ServerShape'
  BY <1>1, <1>2, <1>4, <1>5 DEF ArchiveTyped, ServerShape, R
<1>7. StreamShape'
  BY <1>1 DEF ArchiveTyped, StreamShape, Native
<1>8. ClientShape'
  BY <1>1 DEF ArchiveTyped, ClientShape, Completes, Native
<1>9. CompletionShape'
  <2>1. Completes' <=> Completes
    BY <1>1 DEF Completes, Native
  <2>2. ASSUME stage = "done", Completes
        PROVE  (\E k \in DOMAIN requests' : Has(requests'[k], "complete")) \/ (Started' /\ outer_mtime' = "real")
    <3>1. CASE \E k \in DOMAIN requests : Has(requests[k], "complete")
      <4>1. PICK k \in DOMAIN requests : Has(requests[k], "complete")
        BY <3>1
      <4>2. CASE k = 1
        <5>1. Has(r, "complete")
          BY <4>1, <4>2 DEF r
        <5>2. ~IsSentinel(r)
          BY <5>1 DEF Has, IsSentinel, ArchiveItem
        <5> QED
          BY <1>1, <5>1, <5>2
      <4>3. CASE k # 1
        BY <1>1, <1>2, <4>1, <4>3
      <4> QED
        BY <4>2, <4>3
    <3>2. CASE Started /\ outer_mtime = "real"
      BY <1>1, <3>2
    <3> QED
      BY <2>2, <3>1, <3>2 DEF ArchiveTyped, CompletionShape
  <2>3. ASSUME ~Completes
        PROVE  /\ channel' = <<>> /\ items' = <<>> /\ uploads' = {}
               /\ \A k \in DOMAIN requests' : requests'[k].items = <<>> \/ IsSentinel(requests'[k])
               /\ listed' = <<>> /\ outer_mtime' = "zero"
    <3>1. /\ channel = <<>> /\ items = <<>> /\ uploads = {}
          /\ \A k \in DOMAIN requests : requests[k].items = <<>> \/ IsSentinel(requests[k])
          /\ Started => listed = <<>> /\ outer_mtime = "zero"
      BY <1>1, <2>3 DEF ArchiveTyped, CompletionShape
    <3>2. \A k \in DOMAIN requests' : requests'[k].items = <<>> \/ IsSentinel(requests'[k])
      BY <1>1, <1>2, <3>1
    <3>3. listed' = <<>> /\ outer_mtime' = "zero"
      <4>1. CASE IsSentinel(r) /\ ~Started
        BY <1>1, <4>1
      <4>2. CASE r \in RequestsOf(archive) /\ Started
        <5>1. ~IsSentinel(r)
          BY <1>1, <4>2, ItemKinds2
        <5>2. r.items = <<>>
          BY <1>2, <3>1, <5>1 DEF r
        <5>3. RowsAfter(listed, <<>>) = listed
          <6>1. listed \in ListingsOf(archive) /\ <<>> \in Seq(ItemsOf(archive)) /\ Len(<<>>) = 0
            BY <1>1, <4>2
          <6>2. PICK g \in [0..Len(<<>>) -> ListingsOf(archive)] : g[0] = listed /\ RowsAfter(listed, <<>>) = g[Len(<<>>)]
            <7> DEFINE e == <<>>
            <7>1. e \in Seq(ItemsOf(archive))
              BY <6>1
            <7> HIDE DEF e
            <7>2. PICK g \in [0..Len(e) -> ListingsOf(archive)] : g[0] = listed /\ RowsAfter(listed, e) = g[Len(e)]
              BY <1>1, <6>1, <7>1, RowsApply
            <7> QED
              BY <7>2 DEF e
          <6> QED
            BY <6>1, <6>2
        <5>4. ~Has(r, "complete")
          BY <5>2 DEF Has
        <5> QED
          BY <1>1, <3>1, <4>2, <5>1, <5>2, <5>3, <5>4
      <4> QED
        BY <1>1, <4>1, <4>2
    <3> QED
      BY <1>1, <3>1, <3>2, <3>3
  <2> QED
    BY <1>1, <2>1, <2>2, <2>3 DEF CompletionShape
<1> QED
  BY <1>6, <1>7, <1>8, <1>9 DEF ArchiveTyped

LEMMA ArchiveTypedNext ==
    ASSUME StreamsTyped, ArchiveTyped, [ArchiveNext]_archiveVars
    PROVE  ArchiveTyped'
<1>1. CASE ArchiveNext
  BY <1>1, TypedAnnounce, TypedExtractor, TypedReceive, TypedFinishes, TypedClose,
     TypedServerExtract, TypedProcess DEF ArchiveNext
<1>2. CASE UNCHANGED archiveVars
  BY <1>2 DEF archiveVars, clientVars, serverVars, ArchiveTyped, StreamShape, ClientShape,
              ServerShape, CompletionShape, Started, Completes, Native
<1> QED
  BY <1>1, <1>2

-----------------------------------------------------------------------------
(* Every member that left the channel is on its way to the rows.            *)

Reaches(p) ==
    \/ p \in PathsOf(items)
    \/ \E k \in DOMAIN requests : p \in PathsOf(requests[k].items)
    \/ Started /\ p \in DOMAIN listed

\* Batches the client has taken from the channel.
Taken == {i \in DOMAIN StreamOf(archive) : i <= sent - Len(channel)}

Delivered ==
    Native => \A i \in Taken : StreamOf(archive)[i].lines # "none" => Reaches(StreamOf(archive)[i].path)

LEMMA SubmittedLast ==
    ASSUME StreamsTyped, ArchiveTyped, NEW its \in Seq(ItemsOf(archive)), NEW noted \in SUBSET Paths,
           requests' = Submitted(its, noted), its # <<>> \/ noted # {}
    PROVE  /\ Len(requests) \in Nat /\ DOMAIN requests = 1..Len(requests)
           /\ DOMAIN requests' = 1..(Len(requests) + 1)
           /\ requests'[Len(requests) + 1].items = its
           /\ requests'[Len(requests) + 1].failed = noted
           /\ \A k \in DOMAIN requests : requests'[k] = requests[k]
<1> DEFINE R == [items : Seq(ItemsOf(archive) \cup {ArchiveItem(OuterPath, "sentinel")}), failed : SUBSET Paths]
           r == ArchiveRequest(its, noted)
<1>1. r \in R /\ requests \in Seq(R) /\ requests' = Append(requests, r)
      /\ r.items = its /\ r.failed = noted
  BY DEF Submitted, ArchiveRequest, ArchiveTyped, ServerShape
<1> HIDE DEF R, r
<1> QED
  BY <1>1

\* Posting keeps what was on its way there.
LEMMA ReachesPosted ==
    ASSUME StreamsTyped, ArchiveTyped, Posts, NEW p, Reaches(p),
           p \in PathsOf(items) => \/ p \in PathsOf(items')
                                   \/ \E k \in DOMAIN requests' : p \in PathsOf(requests'[k].items)
    PROVE  Reaches(p)'
<1>1. (Started' <=> Started) /\ listed' = listed
  BY PostsShape DEF Posts
<1>2. \A k \in DOMAIN requests : k \in DOMAIN requests' /\ requests'[k] = requests[k]
  BY PostsKeeps
<1> QED
  BY <1>1, <1>2 DEF Reaches

LEMMA ReachesSubmitted ==
    ASSUME StreamsTyped, ArchiveTyped, NEW its \in Seq(ItemsOf(archive)), NEW noted \in SUBSET Paths,
           requests' = Submitted(its, noted), NEW p \in PathsOf(its)
    PROVE  \E k \in DOMAIN requests' : p \in PathsOf(requests'[k].items)
<1>1. its # <<>>
  BY DEF PathsOf
<1>2. /\ Len(requests) + 1 \in DOMAIN requests' /\ requests'[Len(requests) + 1].items = its
  BY <1>1, SubmittedLast
<1> QED
  BY <1>2

LEMMA AppendPaths ==
    ASSUME NEW S, NEW q \in Seq(S), NEW x \in S
    PROVE  PathsOf(Append(q, x)) = PathsOf(q) \cup {x.path}
<1>1. /\ DOMAIN Append(q, x) = DOMAIN q \cup {Len(q) + 1}
      /\ \A i \in DOMAIN q : Append(q, x)[i] = q[i]
      /\ Append(q, x)[Len(q) + 1] = x
  OBVIOUS
<1> QED
  BY <1>1 DEF PathsOf

LEMMA DeliveredInit ==
    ASSUME StreamsTyped, ArchiveInit
    PROVE  Delivered
<1>1. sent = 0 /\ Len(channel) = 0 /\ archive \in Tops
  BY DEF ArchiveInit
<1>2. DOMAIN StreamOf(archive) = 1..Len(StreamOf(archive)) /\ Len(StreamOf(archive)) \in Nat
  BY <1>1, StreamTexts
<1>3. Taken = {}
  BY <1>1, <1>2 DEF Taken
<1> QED
  BY <1>3 DEF Delivered

\* The extractor takes nothing from the channel.
LEMMA TakenStays ==
    ASSUME StreamsTyped, ArchiveTyped, Native,
           ExtractMember \/ Exit \/ ExtractorDies \/ (\E outcome \in {"ok", "failed", "missing"} : ExtractorEnds(outcome))
    PROVE  Taken' = Taken /\ UNCHANGED <<archive, stage, items, failed, uploads, serverVars>>
<1>1. UNCHANGED <<archive, stage, items, failed, uploads, serverVars>>
  BY DEF ExtractMember, Exit, ExtractorDies, ExtractorEnds
<1>2. CASE ExtractMember
  <2>1. sent + 1 \in DOMAIN StreamOf(archive) /\ Out = StreamOf(archive)
        /\ sent \in Nat /\ StreamOf(archive) \in Seq(MemberBatches) /\ channel \in Seq(MemberBatches)
    BY <1>2, ArchiveFacts DEF ExtractMember, ArchiveTyped, StreamShape
  <2>2. StreamOf(archive)[sent + 1] \in MemberBatches
    BY <2>1
  <2>3. Len(channel') = Len(channel) + 1 /\ sent' = sent + 1 /\ Len(channel) \in Nat
    BY <1>2, <2>1, <2>2 DEF ExtractMember
  <2>4. sent' - Len(channel') = sent - Len(channel)
    BY <2>1, <2>3
  <2> QED
    BY <1>1, <2>4 DEF Taken
<1>3. CASE Exit \/ ExtractorDies
  <2>1. sent' = sent /\ channel' = channel /\ archive' = archive
    BY <1>3 DEF Exit, ExtractorDies
  <2> QED
    BY <1>1, <2>1 DEF Taken
<1> QED
  BY <1>1, <1>2, <1>3 DEF ExtractorEnds

\* What is taken with a batch: its position, and nothing else.
LEMMA TakenOne ==
    ASSUME StreamsTyped, ArchiveTyped, Native, channel # <<>>, channel' = Tail(channel),
           UNCHANGED <<archive, sent>>
    PROVE  \E i \in DOMAIN StreamOf(archive) :
             i \notin Taken /\ Taken' = Taken \cup {i} /\ Head(channel) = StreamOf(archive)[i]
<1>1. /\ Len(channel) <= sent /\ sent \in Nat /\ sent <= Len(StreamOf(archive))
      /\ \A j \in DOMAIN channel : channel[j] = StreamOf(archive)[sent - Len(channel) + j]
  BY DEF ArchiveTyped, StreamShape
<1>2. /\ Head(channel) = channel[1] /\ 1 \in DOMAIN channel /\ Len(channel) \in Nat \ {0}
      /\ Len(channel') = Len(channel) - 1
      /\ DOMAIN StreamOf(archive) = 1..Len(StreamOf(archive)) /\ Len(StreamOf(archive)) \in Nat
  BY ArchiveFacts
<1> DEFINE i == sent - Len(channel) + 1
<1>3. i \in DOMAIN StreamOf(archive) /\ Head(channel) = StreamOf(archive)[i]
  BY <1>1, <1>2
<1>4. i \notin Taken
  BY <1>1, <1>2 DEF Taken
<1>5. sent' - Len(channel') = i /\ archive' = archive
  BY <1>1, <1>2
<1>6. \A n \in DOMAIN StreamOf(archive) : n <= i <=> (n <= sent - Len(channel) \/ n = i)
  BY <1>1, <1>2
<1> QED
  BY <1>3, <1>4, <1>5, <1>6 DEF Taken

LEMMA DeliveredReceive ==
    ASSUME StreamsTyped, ArchiveTyped, Delivered, NEW now \in BOOLEAN, NEW uploaded \in BOOLEAN,
           ReceiveBatch(now, uploaded)
    PROVE  Delivered'
<1> SUFFICES ASSUME Native PROVE Delivered'
  BY DEF Delivered, Native, ReceiveBatch
<1> DEFINE b == Head(channel)
           item == ArchiveItem(b.path, b.lines)
           noted == failed \cup (IF Native /\ b.skip_reason THEN {b.path} ELSE {})
<1>1. /\ stage = "stream" /\ channel # <<>> /\ channel' = Tail(channel)
      /\ UNCHANGED <<archive, sent, proc, stage, listed, outer_mtime, errors>>
  BY DEF ReceiveBatch
<1>2. /\ b \in MemberBatches
      /\ b.lines # "none" => item \in MemberItemsOf(archive)
  BY <1>1, Received
<1>3. Posts
  BY TypedReceive
<1>4. PICK i \in DOMAIN StreamOf(archive) : Taken' = Taken \cup {i} /\ b = StreamOf(archive)[i]
  BY <1>1, TakenOne
<1>5. \A p : /\ p \in PathsOf(items) => \/ p \in PathsOf(items')
                                         \/ \E k \in DOMAIN requests' : p \in PathsOf(requests'[k].items)
             /\ b.lines # "none" /\ p = b.path =>
                  \/ p \in PathsOf(items')
                  \/ \E k \in DOMAIN requests' : p \in PathsOf(requests'[k].items)
  <2>1. CASE b.lines = "none"
    BY <2>1 DEF ReceiveBatch
  <2>2. CASE b.lines # "none"
    <3>1. Push(Append(items, item), noted, now)
      BY <2>2 DEF ReceiveBatch
    <3>2. /\ items \in Seq(ItemsOf(archive)) /\ item \in ItemsOf(archive) /\ noted \in SUBSET Paths /\ item.path = b.path
      BY <1>2, <2>2, ArchiveFacts DEF ItemsOf, MemberBatches, ArchiveItem
    <3> HIDE DEF item, noted
    <3>3. PathsOf(Append(items, item)) = PathsOf(items) \cup {b.path}
      BY <3>2, AppendPaths
    <3>4. Append(items, item) \in Seq(ItemsOf(archive))
      BY <3>2
    <3>5. requests' = Submitted(Append(items, item), noted) \/ items' = Append(items, item)
      BY <3>1 DEF Push
    <3>6. ASSUME NEW p \in PathsOf(Append(items, item))
          PROVE  \/ p \in PathsOf(items')
                 \/ \E k \in DOMAIN requests' : p \in PathsOf(requests'[k].items)
      BY <3>2, <3>4, <3>5, ReachesSubmitted
    <3> QED
      BY <3>3, <3>6
  <2> QED
    BY <2>1, <2>2
<1>6. ASSUME NEW n \in Taken', StreamOf(archive)[n].lines # "none"
      PROVE  Reaches(StreamOf(archive)[n].path)'
  <2>1. CASE n \in Taken
    <3>1. Reaches(StreamOf(archive)[n].path)
      BY <1>6, <2>1 DEF Delivered
    <3>2. PICK p : p = StreamOf(archive)[n].path
      OBVIOUS
    <3>3. Reaches(p)'
      BY <1>3, <1>5, <3>1, <3>2, ReachesPosted
    <3>4. p = StreamOf(archive')[n].path
      BY <1>1, <3>2
    <3> QED
      BY <3>2, <3>3, <1>1 DEF Reaches
  <2>2. CASE n = i
    BY <1>1, <1>4, <1>5, <1>6, <2>2 DEF Reaches
  <2> QED
    BY <1>4, <2>1, <2>2
<1> QED
  BY <1>1, <1>6 DEF Delivered

\* Delivered, after a step that leaves the stream alone.
LEMMA DeliveredKept ==
    ASSUME StreamsTyped, ArchiveTyped, Delivered, Posts, UNCHANGED <<sent, channel>>,
           \A p : p \in PathsOf(items) /\ p # OuterPath =>
                    \/ p \in PathsOf(items')
                    \/ \E k \in DOMAIN requests' : p \in PathsOf(requests'[k].items)
    PROVE  Delivered'
<1>1. archive' = archive /\ Taken' = Taken
  BY DEF Posts, Taken
<1>2. ASSUME Native, NEW n \in Taken, StreamOf(archive)[n].lines # "none"
      PROVE  Reaches(StreamOf(archive)[n].path)'
  <2>1. Reaches(StreamOf(archive)[n].path)
    BY <1>2 DEF Delivered
  <2>2. PICK p : p = StreamOf(archive)[n].path
    OBVIOUS
  <2>3. p # OuterPath
    <3>1. n \in DOMAIN StreamOf(archive)
      BY DEF Taken
    <3> QED
      BY <1>2, <2>2, <3>1, ArchiveFacts, StreamTexts
  <2>4. Reaches(p)'
    BY <2>1, <2>2, <2>3, ReachesPosted
  <2>5. p = StreamOf(archive')[n].path
    BY <1>1, <2>2
  <2> QED
    BY <2>4, <2>5, <1>1 DEF Reaches
<1> QED
  BY <1>1, <1>2 DEF Delivered, Native

LEMMA DeliveredProcess ==
    ASSUME StreamsTyped, ArchiveTyped, Delivered, Process
    PROVE  Delivered'
<1> DEFINE r == requests[1]
<1>1. /\ archive \in Tops /\ requests # <<>> /\ requests' = Tail(requests) /\ Started'
      /\ UNCHANGED <<archive, stage, sent, proc, channel, items, failed, uploads>>
      /\ \/ IsSentinel(r) /\ ~Started
         \/ /\ r \in RequestsOf(archive) /\ Started /\ listed \in ListingsOf(archive)
            /\ listed' = RowsAfter(listed, r.items)
  BY ProcessRows
<1>2. /\ 1 \in DOMAIN requests
      /\ \A k \in DOMAIN requests : k = 1 \/ (k - 1 \in DOMAIN Tail(requests) /\ requests[k] = Tail(requests)[k - 1])
  BY <1>1, FirstTaken
<1> HIDE DEF r
<1>3. ASSUME NEW p, p # OuterPath, Reaches(p)
      PROVE  Reaches(p)'
  <2>1. CASE p \in PathsOf(items)
    BY <1>1, <2>1 DEF Reaches
  <2>2. CASE \E k \in DOMAIN requests : k # 1 /\ p \in PathsOf(requests[k].items)
    BY <1>1, <1>2, <2>2 DEF Reaches
  <2>3. CASE p \in PathsOf(r.items)
    <3>1. CASE IsSentinel(r)
      <4>1. r.items = <<ArchiveItem(OuterPath, "sentinel")>>
        BY <3>1 DEF IsSentinel
      <4>2. PathsOf(r.items) = {OuterPath}
        BY <4>1 DEF PathsOf, ArchiveItem
      <4> QED
        BY <1>3, <2>3, <4>2
    <3>2. CASE /\ r \in RequestsOf(archive) /\ Started /\ listed \in ListingsOf(archive)
               /\ listed' = RowsAfter(listed, r.items)
      <4>1. r.items \in Seq(ItemsOf(archive))
        BY <3>2 DEF RequestsOf
      <4>2. DOMAIN RowsAfter(listed, r.items) = DOMAIN listed \cup (PathsOf(r.items) \ {OuterPath})
        BY <1>1, <3>2, <4>1, RowsGrow
      <4> QED
        BY <1>1, <1>3, <2>3, <3>2, <4>2 DEF Reaches
    <3> QED
      BY <1>1, <3>1, <3>2
  <2>4. CASE Started /\ p \in DOMAIN listed
    <3>1. r \in RequestsOf(archive) /\ listed \in ListingsOf(archive) /\ listed' = RowsAfter(listed, r.items)
      BY <1>1, <2>4
    <3>2. r.items \in Seq(ItemsOf(archive))
      BY <3>1 DEF RequestsOf
    <3>3. DOMAIN RowsAfter(listed, r.items) = DOMAIN listed \cup (PathsOf(r.items) \ {OuterPath})
      BY <1>1, <3>1, <3>2, RowsGrow
    <3> QED
      BY <1>1, <2>4, <3>1, <3>3 DEF Reaches
  <2> QED
    BY <1>3, <2>1, <2>2, <2>3, <2>4 DEF Reaches, r
<1>4. Taken' = Taken
  BY <1>1 DEF Taken
<1>5. ASSUME Native, NEW n \in Taken, StreamOf(archive)[n].lines # "none"
      PROVE  Reaches(StreamOf(archive)[n].path)'
  <2>1. Reaches(StreamOf(archive)[n].path)
    BY <1>5 DEF Delivered
  <2>2. PICK p : p = StreamOf(archive)[n].path
    OBVIOUS
  <2>3. p # OuterPath
    <3>1. n \in DOMAIN StreamOf(archive)
      BY DEF Taken
    <3> QED
      BY <1>5, <2>2, <3>1, ArchiveFacts, StreamTexts
  <2>4. Reaches(p)'
    BY <1>3, <2>1, <2>2, <2>3
  <2>5. p = StreamOf(archive')[n].path
    BY <1>1, <2>2
  <2> QED
    BY <2>4, <2>5, <1>1 DEF Reaches
<1> QED
  BY <1>1, <1>4, <1>5 DEF Delivered, Native

LEMMA DeliveredNext ==
    ASSUME StreamsTyped, ArchiveTyped, Delivered, [ArchiveNext]_archiveVars
    PROVE  Delivered'
<1>1. CASE AnnounceArchive
  <2>1. archive' = archive /\ sent' = sent /\ channel' = channel /\ sent = 0 /\ channel = <<>> /\ archive \in Tops
    BY <1>1 DEF AnnounceArchive, ArchiveTyped, ClientShape, StreamShape
  <2>2. DOMAIN StreamOf(archive) = 1..Len(StreamOf(archive)) /\ Len(StreamOf(archive)) \in Nat
    BY <2>1, StreamTexts
  <2>3. Taken' = {}
    BY <2>1, <2>2 DEF Taken
  <2> QED
    BY <2>3 DEF Delivered
<1>2. CASE ExtractMember \/ Exit \/ ExtractorDies \/ (\E outcome \in {"ok", "failed", "missing"} : ExtractorEnds(outcome))
  <2>1. CASE ~Native
    BY <1>2, <2>1 DEF Delivered, Native, ExtractMember, Exit, ExtractorDies, ExtractorEnds
  <2>2. CASE Native
    <3>1. Taken' = Taken /\ UNCHANGED <<archive, stage, items, failed, uploads, serverVars>>
      BY <1>2, <2>2, TakenStays
    <3> QED
      BY <3>1 DEF Delivered, Reaches, Started, serverVars, Native
  <2> QED
    BY <2>1, <2>2
<1>3. CASE \E now, uploaded \in BOOLEAN : ReceiveBatch(now, uploaded)
  BY <1>3, DeliveredReceive
<1>4. CASE FinishArchive
  <2> DEFINE noted == IF proc = "failed" THEN failed \cup {OuterPath} ELSE failed
  <2>1. items \in Seq(ItemsOf(archive)) /\ noted \in SUBSET Paths
    BY ArchiveFacts
  <2>2. requests' = (IF items # <<>> THEN Submitted(items, noted) ELSE requests) /\ UNCHANGED <<
                                                                                                sent,
                                                                                                channel>>
    BY <1>4 DEF FinishArchive
  <2> HIDE DEF noted
  <2>3. \A p : p \in PathsOf(items) => \E k \in DOMAIN requests' : p \in PathsOf(requests'[k].items)
    <3>1. CASE items = <<>>
      BY <3>1 DEF PathsOf
    <3>2. CASE items # <<>>
      BY <2>1, <2>2, <3>2, ReachesSubmitted
    <3> QED
      BY <3>1, <3>2
  <2> QED
    BY <1>4, <2>2, <2>3, TypedFinishes, DeliveredKept
<1>5. CASE CloseArchive
  <2>1. /\ items \in Seq(ItemsOf(archive)) /\ failed \in SUBSET Paths
        /\ requests' = Submitted(items, failed) /\ UNCHANGED <<sent, channel>>
    BY <1>5, ArchiveFacts DEF CloseArchive
  <2>2. \A p : p \in PathsOf(items) => \E k \in DOMAIN requests' : p \in PathsOf(requests'[k].items)
    BY <2>1, ReachesSubmitted
  <2> QED
    BY <1>5, <2>1, <2>2, TypedClose, DeliveredKept
<1>6. CASE \E p \in uploads : ServerExtract(p)
  <2>1. Posts /\ UNCHANGED <<sent, channel, items>>
    BY <1>6, TypedServerExtract DEF ServerExtract, clientVars
  <2> QED
    BY <2>1, DeliveredKept
<1>7. CASE Process
  BY <1>7, DeliveredProcess
<1>8. CASE UNCHANGED archiveVars
  BY <1>8 DEF archiveVars, clientVars, serverVars, Delivered, Taken, Reaches, Started, Native
<1> QED
  BY <1>1, <1>2, <1>3, <1>4, <1>5, <1>6, <1>7, <1>8 DEF ArchiveNext

-----------------------------------------------------------------------------
(* What the extractor said of a member stays said.                          *)

\* The failure of p is in the inbox or in the list, and no item for p follows.
Recorded(p) ==
    \/ \E k \in DOMAIN requests :
         /\ p \in requests[k].failed
         /\ \A j \in DOMAIN requests : j > k => p \notin PathsOf(requests[j].items)
    \/ /\ p \in errors
       /\ \A j \in DOMAIN requests : p \notin PathsOf(requests[j].items)

Told(p) == p \in failed \/ (p \notin PathsOf(items) /\ Recorded(p))

\* Members with a reason, of those taken from the channel.
Reasons == {i \in Taken : StreamOf(archive)[i].skip_reason /\ StreamOf(archive)[i].path # OuterPath}

ReasonsTold == Native => \A i \in Reasons : Told(StreamOf(archive)[i].path)

\* Only delegated members are uploaded.
UploadsDelegated ==
    \A p \in uploads : \E i \in DOMAIN StreamOf(archive) :
                         StreamOf(archive)[i].delegate /\ StreamOf(archive)[i].path = p

LEMMA RecordedSubmitted ==
    ASSUME StreamsTyped, ArchiveTyped, NEW its \in Seq(ItemsOf(archive)), NEW noted \in SUBSET Paths,
           requests' = Submitted(its, noted), errors' = errors, NEW p,
           p \in noted \/ (p \notin PathsOf(its) /\ Recorded(p))
    PROVE  Recorded(p)'
<1>1. CASE its = <<>> /\ noted = {}
  <2>1. requests' = requests
    BY <1>1 DEF Submitted
  <2> QED
    BY <1>1, <2>1 DEF Recorded
<1>2. CASE its # <<>> \/ noted # {}
  <2> DEFINE n == Len(requests) + 1
  <2>1. /\ Len(requests) \in Nat /\ DOMAIN requests = 1..Len(requests)
        /\ DOMAIN requests' = 1..n /\ requests'[n].items = its /\ requests'[n].failed = noted
        /\ \A k \in DOMAIN requests : requests'[k] = requests[k]
    BY <1>2, SubmittedLast
  <2>2. /\ n \in DOMAIN requests' /\ \A k \in DOMAIN requests' : k \in DOMAIN requests \/ k = n
        /\ \A k \in DOMAIN requests' : ~(k > n)
        /\ \A k \in DOMAIN requests : k \in DOMAIN requests'
    BY <2>1
  <2> HIDE DEF n
  <2>3. CASE p \in noted
    BY <2>1, <2>2, <2>3 DEF Recorded
  <2>4. CASE p \notin PathsOf(its) /\ Recorded(p)
    BY <2>1, <2>2, <2>4 DEF Recorded
  <2> QED
    BY <2>3, <2>4
<1> QED
  BY <1>1, <1>2

\* The reports stay when the steps keep those of each path.
LEMMA ReasonsKept ==
    ASSUME Native => archive' = archive /\ Reasons' = Reasons,
           Native' <=> Native, ReasonsTold,
           \A p : Native /\ p # OuterPath /\ Told(p) => Told(p)'
    PROVE  ReasonsTold'
<1> SUFFICES ASSUME Native, NEW i \in Reasons
             PROVE  Told(StreamOf(archive)[i].path)'
  BY DEF ReasonsTold
<1>1. PICK p : p = StreamOf(archive)[i].path
  OBVIOUS
<1>2. Told(p) /\ p # OuterPath
  BY <1>1 DEF ReasonsTold, Reasons
<1>3. Told(p)'
  BY <1>2
<1>4. p = StreamOf(archive')[i].path
  BY <1>1
<1> QED
  BY <1>1, <1>3, <1>4 DEF Told, Recorded

LEMMA ReasonsReceive ==
    ASSUME StreamsTyped, ArchiveTyped, ReasonsTold, NamedOnce(archive),
           NEW now \in BOOLEAN, NEW uploaded \in BOOLEAN, ReceiveBatch(now, uploaded)
    PROVE  ReasonsTold'
<1> SUFFICES ASSUME Native PROVE ReasonsTold'
  BY DEF ReasonsTold, Native, ReceiveBatch
<1> DEFINE b == Head(channel)
           item == ArchiveItem(b.path, b.lines)
           reported == IF Native /\ b.skip_reason THEN {b.path} ELSE {}
           noted == failed \cup reported
<1>1. /\ stage = "stream" /\ channel # <<>> /\ channel' = Tail(channel)
      /\ UNCHANGED <<archive, sent, proc, stage, listed, outer_mtime, errors>>
  BY DEF ReceiveBatch
<1>2. /\ b \in MemberBatches
      /\ b.lines # "none" => item \in MemberItemsOf(archive)
  BY <1>1, Received
<1>3. PICK i \in DOMAIN StreamOf(archive) :
        i \notin Taken /\ Taken' = Taken \cup {i} /\ b = StreamOf(archive)[i]
  BY <1>1, TakenOne
<1>4. b.lines = "none" <=> b.path = <<>>
  BY <1>2 DEF MemberBatches
<1>5. ASSUME b.lines # "none", NEW p, p \in noted \/ (p # b.path /\ Told(p))
      PROVE  Told(p)'
  <2>1. Push(Append(items, item), noted, now)
    BY <1>5 DEF ReceiveBatch
  <2>2. /\ items \in Seq(ItemsOf(archive)) /\ item \in ItemsOf(archive) /\ noted \in SUBSET Paths /\ item.path = b.path
    BY <1>2, <1>5, ArchiveFacts DEF ItemsOf, MemberBatches, ArchiveItem
  <2>3. failed \subseteq noted
    OBVIOUS
  <2> HIDE DEF item, noted
  <2>4. PathsOf(Append(items, item)) = PathsOf(items) \cup {b.path}
    BY <2>2, AppendPaths
  <2>5. Append(items, item) \in Seq(ItemsOf(archive))
    BY <2>2
  <2>6. p \in noted \/ (p \notin PathsOf(Append(items, item)) /\ Recorded(p))
    BY <1>5, <2>3, <2>4 DEF Told
  <2>7. \/ requests' = Submitted(Append(items, item), noted) /\ items' = <<>>
        \/ items' = Append(items, item) /\ failed' = noted /\ requests' = requests
    BY <2>1 DEF Push
  <2>8. CASE requests' = Submitted(Append(items, item), noted) /\ items' = <<>>
    <3>1. Recorded(p)'
      BY <1>1, <2>2, <2>5, <2>6, <2>8, RecordedSubmitted
    <3>2. p \notin PathsOf(items')
      BY <2>8 DEF PathsOf
    <3> QED
      BY <3>1, <3>2 DEF Told
  <2>9. CASE items' = Append(items, item) /\ failed' = noted /\ requests' = requests
    BY <1>1, <2>6, <2>9 DEF Told, Recorded
  <2> QED
    BY <2>7, <2>8, <2>9
<1>6. ASSUME NEW n \in Reasons', NEW p, p = StreamOf(archive)[n].path
      PROVE  Told(p)'
  <2>0. n \in Taken' /\ StreamOf(archive)[n].skip_reason /\ p # OuterPath
    BY <1>1, <1>6 DEF Reasons
  <2>1. CASE n \in Taken
    <3>1. Told(p)
      BY <1>6, <2>0, <2>1 DEF ReasonsTold, Reasons
    <3>2. CASE b.lines = "none"
      <4>1. failed \subseteq failed' /\ UNCHANGED <<items, requests, errors>>
        BY <1>1, <3>2 DEF ReceiveBatch
      <4> QED
        BY <3>1, <4>1 DEF Told, Recorded
    <3>3. CASE b.lines # "none"
      <4>1. n \in DOMAIN StreamOf(archive) /\ n # i
        BY <1>3, <2>1 DEF Taken
      <4>2. p # b.path
        BY <1>3, <1>6, <2>0, <4>1 DEF NamedOnce
      <4> HIDE DEF b
      <4> QED
        BY <1>5, <3>1, <3>3, <4>2
    <3> QED
      BY <3>2, <3>3
  <2>2. CASE n = i
    <3>1. b.skip_reason /\ p = b.path /\ b.lines # "none"
      BY <1>3, <1>4, <1>6, <2>0, <2>2 DEF OuterPath
    <3> QED
      BY <1>5, <3>1
  <2> QED
    BY <1>3, <2>0, <2>1, <2>2
<1>7. ASSUME NEW n \in Reasons' PROVE Told(StreamOf(archive)[n].path)'
  <2>1. PICK p : p = StreamOf(archive)[n].path
    OBVIOUS
  <2>2. Told(p)' /\ p = StreamOf(archive')[n].path
    BY <1>1, <1>6, <2>1
  <2> QED
    BY <2>1, <2>2, <1>1 DEF Told, Recorded
<1> QED
  BY <1>1, <1>7 DEF ReasonsTold

LEMMA ReasonsProcess ==
    ASSUME StreamsTyped, ArchiveTyped, ReasonsTold, Process
    PROVE  ReasonsTold'
<1> DEFINE r == requests[1]
<1>1. /\ requests # <<>> /\ requests' = Tail(requests) /\ errors' = Cleanup(r)
      /\ UNCHANGED <<archive, stage, sent, proc, channel, items, failed, uploads>>
  BY ProcessRows
<1>2. /\ 1 \in DOMAIN requests /\ DOMAIN requests = 1..Len(requests) /\ Len(requests) \in Nat
      /\ \A k \in DOMAIN requests : k = 1 \/ (k - 1 \in DOMAIN Tail(requests) /\ requests[k] = Tail(requests)[k - 1])
      /\ \A k \in DOMAIN Tail(requests) : k \in Nat /\ k + 1 \in DOMAIN requests
      /\ \A k \in DOMAIN Tail(requests) : Tail(requests)[k] = requests[k + 1]
      /\ DOMAIN Tail(requests) = 1..(Len(requests) - 1)
  BY <1>1, FirstTaken
<1> HIDE DEF r
<1>3. errors' = (errors \ PathsOf(r.items)) \cup r.failed
  BY <1>1 DEF Cleanup, PathsOf
<1>4. ASSUME NEW p, Recorded(p)
      PROVE  Recorded(p)'
  <2>1. CASE /\ p \in errors
             /\ \A j \in DOMAIN requests : p \notin PathsOf(requests[j].items)
    BY <1>1, <1>2, <1>3, <2>1 DEF Recorded, r
  <2>2. ASSUME NEW k \in DOMAIN requests, p \in requests[k].failed,
               \A j \in DOMAIN requests : j > k => p \notin PathsOf(requests[j].items)
        PROVE  Recorded(p)'
    <3>1. CASE k = 1
      <4>1. p \in errors'
        BY <1>3, <2>2, <3>1 DEF r
      <4>2. ASSUME NEW j \in DOMAIN requests' PROVE p \notin PathsOf(requests'[j].items)
        <5>1. j + 1 \in DOMAIN requests /\ requests'[j] = requests[j + 1] /\ j + 1 > 1
          BY <1>1, <1>2, <4>2
        <5> QED
          BY <2>2, <3>1, <5>1
      <4> QED
        BY <4>1, <4>2 DEF Recorded
    <3>2. CASE k # 1
      <4>1. k - 1 \in DOMAIN requests' /\ p \in requests'[k - 1].failed
        BY <1>1, <1>2, <2>2, <3>2
      <4>2. ASSUME NEW j \in DOMAIN requests', j > k - 1 PROVE p \notin PathsOf(requests'[j].items)
        <5>1. j + 1 \in DOMAIN requests /\ requests'[j] = requests[j + 1] /\ j + 1 > k
          BY <1>1, <1>2, <4>2
        <5> QED
          BY <2>2, <5>1
      <4> QED
        BY <4>1, <4>2 DEF Recorded
    <3> QED
      BY <3>1, <3>2
  <2> QED
    BY <1>4, <2>1, <2>2 DEF Recorded
<1>5. \A p : Told(p) => Told(p)'
  BY <1>1, <1>4 DEF Told
<1>6. Reasons' = Reasons /\ (Native' <=> Native)
  BY <1>1 DEF Reasons, Taken, Native
<1> QED
  BY <1>1, <1>5, <1>6, ReasonsKept

LEMMA UploadsNext ==
    ASSUME StreamsTyped, ArchiveTyped, UploadsDelegated, [ArchiveNext]_archiveVars
    PROVE  UploadsDelegated' /\ archive' = archive
<1>1. CASE \E now, uploaded \in BOOLEAN : ReceiveBatch(now, uploaded)
  <2>1. PICK now, uploaded \in BOOLEAN : ReceiveBatch(now, uploaded)
    BY <1>1
  <2>2. 1 \in DOMAIN channel /\ Head(channel) = channel[1] /\ archive' = archive
    BY <2>1, ArchiveFacts DEF ReceiveBatch
  <2>3. PICK i \in DOMAIN StreamOf(archive) : Head(channel) = StreamOf(archive)[i]
    BY <2>2 DEF ArchiveTyped, StreamShape
  <2>4. \A p \in uploads' \ uploads : Head(channel).delegate /\ p = Head(channel).path
    BY <2>1 DEF ReceiveBatch
  <2> QED
    BY <2>2, <2>3, <2>4 DEF UploadsDelegated
<1>2. CASE ~(\E now, uploaded \in BOOLEAN : ReceiveBatch(now, uploaded))
  <2>1. archive' = archive /\ uploads' \subseteq uploads
    BY <1>2 DEF ArchiveNext, AnnounceArchive, ExtractMember, Exit, ExtractorDies, FinishArchive, CloseArchive,
                Process, ExtractorEnds, ServerExtract, archiveVars, clientVars, serverVars
  <2> QED
    BY <2>1 DEF UploadsDelegated
<1> QED
  BY <1>1, <1>2

LEMMA ReasonsNext ==
    ASSUME StreamsTyped, ArchiveTyped, ReasonsTold, UploadsDelegated, NamedOnce(archive),
           [ArchiveNext]_archiveVars
    PROVE  ReasonsTold'
<1>1. CASE AnnounceArchive
  <2>1. archive' = archive /\ sent' = sent /\ channel' = channel /\ sent = 0 /\ channel = <<>> /\ archive \in Tops
    BY <1>1 DEF AnnounceArchive, ArchiveTyped, ClientShape, StreamShape
  <2>2. DOMAIN StreamOf(archive) = 1..Len(StreamOf(archive)) /\ Len(StreamOf(archive)) \in Nat
    BY <2>1, StreamTexts
  <2>3. Taken' = {}
    BY <2>1, <2>2 DEF Taken
  <2> QED
    BY <2>3 DEF ReasonsTold, Reasons
<1>2. CASE ExtractMember \/ Exit \/ ExtractorDies \/ (\E outcome \in {"ok", "failed", "missing"} : ExtractorEnds(outcome))
  <2>1. CASE ~Native
    BY <1>2, <2>1 DEF ReasonsTold, Native, ExtractMember, Exit, ExtractorDies, ExtractorEnds
  <2>2. CASE Native
    <3>1. Taken' = Taken /\ UNCHANGED <<archive, stage, items, failed, uploads, serverVars>>
      BY <1>2, <2>2, TakenStays
    <3> QED
      BY <3>1 DEF ReasonsTold, Reasons, Told, Recorded, serverVars, Native
  <2> QED
    BY <2>1, <2>2
<1>3. CASE \E now, uploaded \in BOOLEAN : ReceiveBatch(now, uploaded)
  BY <1>3, ReasonsReceive
<1>4. CASE FinishArchive
  <2> DEFINE noted == IF proc = "failed" THEN failed \cup {OuterPath} ELSE failed
  <2>1. items \in Seq(ItemsOf(archive)) /\ noted \in SUBSET Paths
    BY ArchiveFacts
  <2>2. /\ requests' = (IF items # <<>> THEN Submitted(items, noted) ELSE requests)
        /\ failed' = (IF items # <<>> THEN {} ELSE noted)
        /\ items' = <<>> \/ items' = <<Completion>>
        /\ failed \subseteq noted
        /\ UNCHANGED <<archive, sent, channel, errors>>
    BY <1>4 DEF FinishArchive, Completion
  <2> HIDE DEF noted
  <2>3. PathsOf(items') \subseteq {OuterPath}
    BY <2>2 DEF PathsOf, Completion, ArchiveItem
  <2>4. ASSUME NEW p, p # OuterPath, Told(p) PROVE Told(p)'
    <3>1. CASE items = <<>>
      BY <2>2, <2>3, <2>4, <3>1 DEF Told, Recorded
    <3>2. CASE items # <<>>
      <4>1. Recorded(p)'
        BY <2>1, <2>2, <2>4, <3>2, RecordedSubmitted DEF Told
      <4> QED
        BY <2>3, <2>4, <4>1 DEF Told
    <3> QED
      BY <3>1, <3>2
  <2>5. Reasons' = Reasons /\ (Native' <=> Native)
    BY <2>2 DEF Reasons, Taken, Native
  <2> QED
    BY <2>2, <2>4, <2>5, ReasonsKept
<1>5. CASE CloseArchive
  <2>1. /\ items \in Seq(ItemsOf(archive)) /\ failed \in SUBSET Paths
        /\ requests' = Submitted(items, failed) /\ items' = <<>> /\ UNCHANGED <<archive,
                                                                                sent,
                                                                                channel,
                                                                                errors>>
    BY <1>5, ArchiveFacts DEF CloseArchive
  <2>2. ASSUME NEW p, Told(p) PROVE Told(p)'
    <3>1. Recorded(p)'
      BY <2>1, <2>2, RecordedSubmitted DEF Told
    <3>2. PathsOf(items') = {}
      BY <2>1 DEF PathsOf
    <3> QED
      BY <3>1, <3>2 DEF Told
  <2>3. Reasons' = Reasons /\ (Native' <=> Native)
    BY <2>1 DEF Reasons, Taken, Native
  <2> QED
    BY <2>1, <2>2, <2>3, ReasonsKept
<1>6. ASSUME NEW q \in uploads, ServerExtract(q) PROVE ReasonsTold'
  <2> DEFINE its == <<ArchiveItem(q, "own")>>
  <2>1. /\ requests' = Append(requests, ArchiveRequest(its, {})) /\ its # <<>>
        /\ UNCHANGED <<archive, sent, channel, items, failed, errors>>
    BY <1>6 DEF ServerExtract, clientVars
  <2>2. q \in MemberNames(archive)
    BY DEF ArchiveTyped, ClientShape
  <2>3. its \in Seq(ItemsOf(archive)) /\ PathsOf(its) = {q} /\ {} \in SUBSET Paths
    <3>1. ArchiveItem(q, "own") \in ItemsOf(archive) /\ ArchiveItem(q, "own").path = q
      BY <2>2 DEF ItemsOf, MemberItemsOf, MemberTexts, ArchiveItem
    <3> QED
      BY <3>1 DEF PathsOf
  <2>4. requests' = Submitted(its, {})
    BY <2>1 DEF Submitted
  <2> HIDE DEF its
  <2>5. ASSUME NEW p, p # q, Told(p) PROVE Told(p)'
    <3>1. CASE p \in failed
      BY <2>1, <3>1 DEF Told
    <3>2. CASE p \notin PathsOf(items) /\ Recorded(p)
      <4>1. Recorded(p)'
        BY <2>1, <2>3, <2>4, <2>5, <3>2, RecordedSubmitted
      <4> QED
        BY <2>1, <3>2, <4>1 DEF Told
    <3> QED
      BY <2>5, <3>1, <3>2 DEF Told
  <2>6. PICK j \in DOMAIN StreamOf(archive) : StreamOf(archive)[j].delegate /\ StreamOf(archive)[j].path = q
    BY DEF UploadsDelegated
  <2>7. ASSUME NEW i \in Reasons PROVE StreamOf(archive)[i].path # q
    <3>1. i \in DOMAIN StreamOf(archive) /\ StreamOf(archive)[i].skip_reason /\ StreamOf(archive)[i].path # OuterPath
      BY <2>7 DEF Reasons, Taken
    <3>2. StreamOf(archive)[j] \in MemberBatches
      BY ArchiveFacts
    <3>3. ~StreamOf(archive)[j].skip_reason
      BY <2>6, <3>2 DEF MemberBatches
    <3>4. i # j
      BY <3>1, <3>3
    <3> QED
      BY <2>6, <3>1, <3>4 DEF NamedOnce
  <2>8. Reasons' = Reasons /\ (Native' <=> Native) /\ archive' = archive
    BY <2>1 DEF Reasons, Taken, Native
  <2>9. ASSUME Native, NEW i \in Reasons PROVE Told(StreamOf(archive)[i].path)'
    <3>1. PICK p : p = StreamOf(archive)[i].path
      OBVIOUS
    <3>2. Told(p) /\ p # q
      BY <2>7, <2>9, <3>1 DEF ReasonsTold
    <3>3. Told(p)' /\ p = StreamOf(archive')[i].path
      BY <2>5, <2>8, <3>1, <3>2
    <3> QED
      BY <3>1, <3>3, <2>8 DEF Told, Recorded
  <2> QED
    BY <2>8, <2>9 DEF ReasonsTold
<1>7. CASE Process
  BY <1>7, ReasonsProcess
<1>8. CASE UNCHANGED archiveVars
  BY <1>8 DEF archiveVars, clientVars, serverVars, ReasonsTold, Reasons, Taken, Told, Recorded, Native
<1> QED
  BY <1>1, <1>2, <1>3, <1>4, <1>5, <1>6, <1>7, <1>8 DEF ArchiveNext

LEMMA ArchiveInvariant ==
    ASSUME StreamsTyped
    PROVE  ArchiveSpec => []ArchiveTyped
<1>1. ArchiveInit => ArchiveTyped
  BY ArchiveTypedInit
<1>2. ArchiveTyped /\ [ArchiveNext]_archiveVars => ArchiveTyped'
  BY ArchiveTypedNext
<1> QED
  BY <1>1, <1>2, PTL DEF ArchiveSpec

\* Nothing under way: what the stream holds is in the rows and in the list.
LEMMA SettledStage ==
    ASSUME StreamsTyped, ArchiveTyped, Settled, proc = "ok"
    PROVE  /\ stage = "done" /\ requests = <<>> /\ archive \in Tops /\ Started
           /\ items = <<>> /\ failed = {} /\ channel = <<>>
           /\ outer_mtime = "real" /\ listed \in ListingsOf(archive)
           /\ Native => Taken = DOMAIN StreamOf(archive) /\ ~ExtractionFails(Contents[archive])
<1>1. /\ stage = "done" /\ requests = <<>> /\ archive \in Tops /\ Started
      /\ items = <<>> /\ failed = {} /\ channel = <<>>
  BY DEF Settled, ArchiveTyped, ClientShape, StreamShape, Started
<1>2. outer_mtime = "real" /\ listed \in ListingsOf(archive)
  BY <1>1 DEF ArchiveTyped, CompletionShape, Completes, ServerShape
<1>3. ASSUME Native
      PROVE  Taken = DOMAIN StreamOf(archive) /\ ~ExtractionFails(Contents[archive])
  <2>1. sent = Len(StreamOf(archive)) /\ ~ExtractionFails(Contents[archive])
    BY <1>3 DEF ArchiveTyped, StreamShape
  <2>2. DOMAIN StreamOf(archive) = 1..Len(StreamOf(archive)) /\ Len(StreamOf(archive)) \in Nat
    BY <1>1, StreamTexts
  <2>3. sent - Len(channel) = Len(StreamOf(archive))
    BY <1>1, <2>1, <2>2
  <2> QED
    BY <2>1, <2>2, <2>3 DEF Taken
<1> QED
  BY <1>1, <1>2, <1>3

LEMMA SettledListing ==
    ASSUME StreamsTyped, ArchiveTyped, Delivered, Settled, proc = "ok"
    PROVE  /\ outer_mtime = "real"
           /\ Native => DOMAIN listed = MemberNames(archive) /\ ~ExtractionFails(Contents[archive])
<1>1. PICK D \in SUBSET MemberNames(archive) : listed \in [D -> MemberTexts(archive)]
  BY SettledStage DEF ListingsOf
<1>2. ASSUME Native, NEW i \in DOMAIN StreamOf(archive), StreamOf(archive)[i].lines # "none"
      PROVE  StreamOf(archive)[i].path \in DOMAIN listed
  BY SettledStage, <1>2 DEF Delivered, Reaches, PathsOf
<1>3. Native => MemberNames(archive) \subseteq DOMAIN listed
  BY <1>2 DEF MemberNames, Listable
<1> QED
  BY SettledStage, <1>1, <1>3

LEMMA SettledReasons ==
    ASSUME StreamsTyped, ArchiveTyped, ReasonsTold, Settled, proc = "ok", Native,
           NEW i \in DOMAIN StreamOf(archive),
           StreamOf(archive)[i].skip_reason, StreamOf(archive)[i].path # OuterPath
    PROVE  StreamOf(archive)[i].path \in errors
  BY SettledStage DEF ReasonsTold, Reasons, Told, Recorded

-----------------------------------------------------------------------------
(* Functions defined by recursion on a number.                              *)

RecursionOf(n, V, b, A, g) ==
    g \in [0..n -> V] /\ g[0] = b /\ \A i \in 1..n : g[i] = A[<<g[i - 1], i>>]

\* b, and what A makes of the value before and the position.
LEMMA RecursionExists ==
    ASSUME NEW n \in Nat, NEW V, NEW b \in V, NEW A \in [V \X (1..n) -> V]
    PROVE  \E g : RecursionOf(n, V, b, A, g)
<1> DEFINE Upto(k) == \E g \in [0..k -> V] : g[0] = b /\ \A i \in 1..k : g[i] = A[<<g[i - 1], i>>]
           I == {k \in Nat : k <= n => Upto(k)}
<1>1. 0 \in I
  <2>1. [i \in 0..0 |-> b] \in [0..0 -> V] /\ [i \in 0..0 |-> b][0] = b
    OBVIOUS
  <2>2. \A i \in 1..0 : FALSE
    OBVIOUS
  <2>3. Upto(0)
    BY <2>1, <2>2, Zenon
  <2> QED
    BY <2>3
<1>2. ASSUME NEW k \in Nat, k \in I PROVE k + 1 \in I
  <2> SUFFICES ASSUME k + 1 <= n PROVE Upto(k + 1)
    OBVIOUS
  <2>1. PICK g \in [0..k -> V] : g[0] = b /\ \A i \in 1..k : g[i] = A[<<g[i - 1], i>>]
    BY <1>2
  <2>2. k \in 0..k /\ k + 1 \in 1..n /\ g[k] \in V
    BY <2>1
  <2>3. A[<<g[k], k + 1>>] \in V
    BY <2>2
  <2> DEFINE h == [i \in 0..(k + 1) |-> IF i = k + 1 THEN A[<<g[k], k + 1>>] ELSE g[i]]
  <2>4. h \in [0..(k + 1) -> V]
    BY <2>1, <2>3
  <2>5. h[0] = b
    BY <2>1
  <2>6. ASSUME NEW i \in 1..(k + 1) PROVE h[i] = A[<<h[i - 1], i>>]
    <3>1. i - 1 \in 0..k /\ i - 1 # k + 1 /\ h[i - 1] = g[i - 1]
      OBVIOUS
    <3>2. CASE i = k + 1
      <4>1. h[i] = A[<<g[k], k + 1>>] /\ i - 1 = k
        BY <3>2
      <4> HIDE DEF h
      <4> QED
        BY <3>1, <3>2, <4>1
    <3>3. CASE i # k + 1
      <4>1. i \in 1..k /\ h[i] = g[i]
        BY <3>3
      <4>2. g[i] = A[<<g[i - 1], i>>]
        BY <2>1, <4>1
      <4> HIDE DEF h
      <4> QED
        BY <3>1, <4>1, <4>2
    <3> QED
      BY <3>2, <3>3
  <2> HIDE DEF h
  <2> QED
    BY <2>4, <2>5, <2>6
<1>3. n \in I
  <2> HIDE DEF I
  <2> QED
    BY <1>1, <1>2, SetInduction
<1> QED
  BY <1>3 DEF RecursionOf

-----------------------------------------------------------------------------
(* Sequences by their elements.                                             *)

Elems(s) == {s[i] : i \in DOMAIN s}

LEMMA ElemsConcat ==
    ASSUME NEW S, NEW s \in Seq(S), NEW t \in Seq(S)
    PROVE  s \o t \in Seq(S) /\ Elems(s \o t) = Elems(s) \cup Elems(t)
<1>1. /\ DOMAIN (s \o t) = 1..(Len(s) + Len(t))
      /\ DOMAIN s = 1..Len(s) /\ DOMAIN t = 1..Len(t) /\ Len(s) \in Nat /\ Len(t) \in Nat
      /\ s \o t \in Seq(S)
      /\ \A i \in 1..Len(s) : (s \o t)[i] = s[i]
      /\ \A i \in 1..(Len(s) + Len(t)) : ~(i <= Len(s)) => (s \o t)[i] = t[i - Len(s)]
  OBVIOUS
<1>2. \A j \in 1..Len(t) : (s \o t)[Len(s) + j] = t[j]
  OBVIOUS
<1>3. \A x \in Elems(s \o t) : x \in Elems(s) \cup Elems(t)
  BY <1>1 DEF Elems
<1>4. \A x \in Elems(s) : x \in Elems(s \o t)
  BY <1>1 DEF Elems
<1>5. \A x \in Elems(t) : x \in Elems(s \o t)
  <2>1. \A j \in 1..Len(t) : Len(s) + j \in DOMAIN (s \o t)
    BY <1>1
  <2> QED
    BY <1>1, <1>2, <2>1, SMTT(20) DEF Elems
<1> QED
  BY <1>1, <1>3, <1>4, <1>5

\* g[i] is the concatenation of the first i of the sequences q.
ConcatsOf(n, V, q, g) ==
    /\ g \in [0..n -> V]
    /\ g[0] = <<>>
    /\ \A i \in 1..n : g[i] = g[i - 1] \o q[i]
    /\ FlattenSeq(q) = g[n]

\* What FlattenSeq computes, part by part; V holds the sequences.
LEMMA FlattenSteps ==
    ASSUME NEW V, <<>> \in V,
           \A s, t \in V : s \o t \in V, \A t \in V : <<>> \o t = t,
           NEW n \in Nat, NEW q, Len(q) = n, \A i \in 1..n : q[i] \in V, n = 0 => q = <<>>
    PROVE  \E g : ConcatsOf(n, V, q, g)
<1> DEFINE A == [x \in V \X (1..n) |-> x[1] \o q[x[2]]]
<1>3. A \in [V \X (1..n) -> V]
  OBVIOUS
<1>4. PICK g \in [0..n -> V] : g[0] = <<>> /\ \A i \in 1..n : g[i] = A[<<g[i - 1], i>>]
  <2> HIDE DEF A
  <2>1. PICK b : b = <<>>
    OBVIOUS
  <2>2. b \in V
    BY <2>1
  <2>3. PICK g : RecursionOf(n, V, b, A, g)
    BY <1>3, <2>2, RecursionExists
  <2> QED
    BY <2>1, <2>3 DEF RecursionOf
<1>5. \A i \in 1..n : i - 1 \in 0..n /\ i \in 0..n
  OBVIOUS
<1>6. \A i \in 1..n : g[i - 1] \in V /\ g[i] \in V
  BY <1>5
<1>7. \A i \in 1..n : g[i] = g[i - 1] \o q[i]
  BY <1>4, <1>6
<1> HIDE DEF A
<1>8. CASE n = 0
  <2>1. FlattenSeq(q) = q
    BY <1>8 DEF FlattenSeq
  <2> QED
    BY <1>4, <1>7, <1>8, <2>1 DEF ConcatsOf
<1>9. CASE n # 0
  <2> DEFINE Flat(h) == h = [i \in 1..n |-> IF i = 1 THEN q[1] ELSE h[i - 1] \o q[i]]
             F == [i \in 1..n |-> g[i]]
             f == CHOOSE h : Flat(h)
  <2>1. FlattenSeq(q) = f[n]
    <3>1. n # 0 /\ Len(q) = n
      BY <1>9
    <3> QED
      BY <3>1 DEF FlattenSeq
  <2>n. 1 \in 1..n /\ n \in 1..n /\ g[1] = q[1]
    <3>1. 1 \in 1..n /\ n \in 1..n /\ 1 - 1 = 0
      BY <1>9
    <3>2. g[1] = g[0] \o q[1] /\ q[1] \in V
      <4>1. \A i \in 1..n : i = 1 => g[1] = g[i - 1] \o q[1] /\ i - 1 = 0
        BY <1>7
      <4> QED
        BY <3>1, <4>1
    <3> QED
      BY <1>4, <3>1, <3>2
  <2>2. Flat(F)
    <3>1. ASSUME NEW i \in 1..n PROVE F[i] = IF i = 1 THEN q[1] ELSE F[i - 1] \o q[i]
      <4>1. CASE i = 1
        BY <2>n, <4>1
      <4>2. CASE i # 1
        <5>1. i - 1 \in 1..n
          BY <4>2
        <5>2. F[i - 1] = g[i - 1] /\ F[i] = g[i]
          BY <5>1
        <5> QED
          BY <1>7, <4>2, <5>2
      <4> QED
        BY <4>1, <4>2
    <3> QED
      BY <3>1
  <2>3. Flat(f)
    <3> HIDE DEF Flat, F
    <3> QED
      BY <2>2
  <2>4. \A i \in 1..n : f[i] = IF i = 1 THEN q[1] ELSE f[i - 1] \o q[i]
    <3> HIDE DEF f
    <3>1. PICK h : h = f
      OBVIOUS
    <3>2. h = [i \in 1..n |-> IF i = 1 THEN q[1] ELSE h[i - 1] \o q[i]]
      BY <2>3, <3>1
    <3>3. \A i \in 1..n : h[i] = IF i = 1 THEN q[1] ELSE h[i - 1] \o q[i]
      BY <3>2, Zenon
    <3> QED
      BY <3>1, <3>3
  <2> HIDE DEF f, F, Flat
  <2> DEFINE I == {i \in Nat : i \in 1..n => f[i] = g[i]}
  <2>5. 0 \in I
    OBVIOUS
  <2>6. ASSUME NEW i \in Nat, i \in I PROVE i + 1 \in I
    <3> SUFFICES ASSUME i + 1 \in 1..n PROVE f[i + 1] = g[i + 1]
      OBVIOUS
    <3>1. CASE i = 0
      BY <2>4, <2>n, <3>1
    <3>2. CASE i # 0
      <4>1. i \in 1..n /\ (i + 1) - 1 = i /\ i + 1 # 1
        BY <3>2
      <4>2. f[i] = g[i]
        BY <2>6, <4>1
      <4>3. f[i + 1] = f[i] \o q[i + 1] /\ g[i + 1] = g[i] \o q[i + 1]
        BY <1>7, <2>4, <4>1
      <4> QED
        BY <4>2, <4>3
    <3> QED
      BY <3>1, <3>2
  <2>7. n \in I
    <3> HIDE DEF I
    <3> QED
      BY <2>5, <2>6, SetInduction
  <2> QED
    BY <1>4, <1>7, <2>1, <2>n, <2>7 DEF ConcatsOf
<1> QED
  BY <1>8, <1>9

LEMMA FlattenElems ==
    ASSUME NEW S, NEW q \in Seq(Seq(S))
    PROVE  FlattenSeq(q) \in Seq(S) /\ Elems(FlattenSeq(q)) = UNION {Elems(q[i]) : i \in DOMAIN q}
<1> DEFINE n == Len(q)
<1>1. n \in Nat /\ DOMAIN q = 1..n /\ \A i \in 1..n : q[i] \in Seq(S)
  OBVIOUS
<1>2. PICK g \in [0..n -> Seq(S)] :
        /\ g[0] = <<>>
        /\ \A i \in 1..n : g[i] = g[i - 1] \o q[i]
        /\ FlattenSeq(q) = g[n]
  <2>1. PICK V : V = Seq(S)
    OBVIOUS
  <2>2. /\ <<>> \in V
        /\ \A s, t \in V : s \o t \in V
        /\ \A t \in V : <<>> \o t = t
        /\ \A i \in 1..n : q[i] \in V
    BY <1>1, <2>1
  <2>3. n = 0 => q = <<>>
    OBVIOUS
  <2>4. Len(q) = n
    OBVIOUS
  <2> HIDE DEF n
  <2>5. \E g : ConcatsOf(n, V, q, g)
    BY <1>1, <2>2, <2>3, <2>4, FlattenSteps
  <2> QED
    BY <2>1, <2>5 DEF ConcatsOf
<1> DEFINE I == {k \in Nat : k <= n => Elems(g[k]) = UNION {Elems(q[i]) : i \in 1..k}}
<1> HIDE DEF n
<1>3. 0 \in I
  <2>1. Elems(g[0]) = {} /\ 1..0 = {}
    BY <1>2 DEF Elems
  <2> QED
    BY <2>1
<1>4. ASSUME NEW k \in Nat, k \in I PROVE k + 1 \in I
  <2> SUFFICES ASSUME k + 1 <= n PROVE Elems(g[k + 1]) = UNION {Elems(q[i]) : i \in 1..(k + 1)}
    OBVIOUS
  <2>1. k \in 0..n /\ k + 1 \in 1..n /\ (k + 1) - 1 = k /\ g[k] \in Seq(S) /\ q[k + 1] \in Seq(S)
    BY <1>1
  <2>2. g[k + 1] = g[k] \o q[k + 1]
    BY <1>2, <2>1
  <2>3. Elems(g[k + 1]) = Elems(g[k]) \cup Elems(q[k + 1])
    BY <2>1, <2>2, ElemsConcat
  <2>4. Elems(g[k]) = UNION {Elems(q[i]) : i \in 1..k}
    BY <1>1, <1>4
  <2>5. 1..(k + 1) = (1..k) \cup {k + 1}
    OBVIOUS
  <2>6. UNION {Elems(q[i]) : i \in 1..(k + 1)} = (UNION {Elems(q[i]) : i \in 1..k}) \cup Elems(q[k + 1])
    BY <2>5
  <2> QED
    BY <2>3, <2>4, <2>6
<1>5. n \in I
  <2> HIDE DEF I
  <2> QED
    BY <1>1, <1>3, <1>4, SetInduction
<1>6. g[n] \in Seq(S)
  BY <1>1, <1>2
<1>7. Elems(g[n]) = UNION {Elems(q[i]) : i \in 1..n}
  BY <1>1, <1>5
<1> QED
  BY <1>1, <1>2, <1>6, <1>7

-----------------------------------------------------------------------------
(* What the extractor streams.                                              *)

\* The batches whose text is one of some.
BatchesWith(T) == {b \in MemberBatches : b.lines \in T \cup {"none"}}

Allowed(T) == {"name", "own"} \subseteq T /\ T \subseteq Texts

IsEntry(e) ==
    /\ e = [name |-> e.name, inner |-> e.inner, flags |-> e.flags, read |-> e.read, block |-> e.block]
    /\ e.name \in EntryNames
    /\ e.inner \in ArchiveIds \cup {NoArchive}

LEMMA EntriesKnown ==
    ASSUME NEW a \in ArchiveIds
    PROVE  /\ Contents[a].entries \in Seq({Contents[a].entries[i] : i \in DOMAIN Contents[a].entries})
           /\ DOMAIN Contents[a].entries = 1..Len(Contents[a].entries)
           /\ Len(Contents[a].entries) \in Nat
           /\ \A i \in DOMAIN Contents[a].entries : IsEntry(Contents[a].entries[i])
<1> DEFINE es == Contents[a].entries
           E == {es[i] : i \in DOMAIN es}
<1>1. /\ es \in Seq(E)
      /\ \A e \in E : /\ e = [name |-> e.name, inner |-> e.inner, flags |-> e.flags,
                              read |-> e.read, block |-> e.block]
                      /\ e.inner \in ArchiveIds \cup {NoArchive}
  BY ContentsAssumption, Zenon
<1>2. \A i \in DOMAIN es : es[i] \in E /\ es[i].name \in EntryNames
  BY DEF EntryNames
<1> HIDE DEF es, E
<1>3. DOMAIN es = 1..Len(es) /\ Len(es) \in Nat
  BY <1>1
<1>4. \A i \in DOMAIN es : IsEntry(es[i])
  BY <1>1, <1>2 DEF IsEntry
<1> QED
  BY <1>1, <1>3, <1>4 DEF es, E

LEMMA EntryFlags ==
    ASSUME NEW e, IsEntry(e), NEW flags
    PROVE  /\ IsEntry([e EXCEPT !.flags = flags])
           /\ [e EXCEPT !.flags = flags].name = e.name
           /\ [e EXCEPT !.flags = flags].inner = e.inner
           /\ [e EXCEPT !.flags = flags].flags = flags
           /\ [e EXCEPT !.flags = flags].read = e.read
<1>1. e = [name |-> e.name, inner |-> e.inner, flags |-> e.flags, read |-> e.read, block |-> e.block]
  BY DEF IsEntry
<1>2. [e EXCEPT !.flags = flags] = [name |-> e.name, inner |-> e.inner, flags |-> flags, read |-> e.read, block |-> e.block]
  BY <1>1
<1> QED
  BY <1>2 DEF IsEntry

LEMMA BatchRecord ==
    ASSUME NEW p, NEW lines, NEW skip, NEW delegate, NEW new,
           NEW b, b = [path |-> p, lines |-> lines, skip_reason |-> skip, delegate |-> delegate]
    PROVE  /\ [b EXCEPT !.skip_reason = new]
                = [path |-> p, lines |-> lines, skip_reason |-> new, delegate |-> delegate]
           /\ [b EXCEPT !.delegate = new]
                = [path |-> p, lines |-> lines, skip_reason |-> skip, delegate |-> new]
OBVIOUS

LEMMA BatchFields ==
    ASSUME NEW T, Allowed(T), NEW p \in Paths, NEW lines \in T \cup {"none"},
           lines = "none" <=> p = <<>>, NEW skip \in BOOLEAN
    PROVE  /\ Batch(p, lines) \in BatchesWith(T)
           /\ [Batch(p, lines) EXCEPT !.skip_reason = skip] \in BatchesWith(T)
           /\ [Batch(p, lines) EXCEPT !.delegate = skip] \in BatchesWith(T)
           /\ Batch(p, lines).path = p
           /\ [Batch(p, lines) EXCEPT !.skip_reason = skip].path = p
           /\ [Batch(p, lines) EXCEPT !.delegate = skip].path = p
<1>1. /\ Batch(p, lines) = [path |-> p, lines |-> lines, skip_reason |-> FALSE, delegate |-> FALSE]
      /\ [Batch(p, lines) EXCEPT !.skip_reason = skip]
           = [path |-> p, lines |-> lines, skip_reason |-> skip, delegate |-> FALSE]
      /\ [Batch(p, lines) EXCEPT !.delegate = skip]
           = [path |-> p, lines |-> lines, skip_reason |-> FALSE, delegate |-> skip]
  <2>1. PICK b : b = [path |-> p, lines |-> lines, skip_reason |-> FALSE, delegate |-> FALSE]
    OBVIOUS
  <2>2. Batch(p, lines) = b
    BY <2>1 DEF Batch
  <2>3. /\ [b EXCEPT !.skip_reason = skip]
             = [path |-> p, lines |-> lines, skip_reason |-> skip, delegate |-> FALSE]
        /\ [b EXCEPT !.delegate = skip]
             = [path |-> p, lines |-> lines, skip_reason |-> FALSE, delegate |-> skip]
    <3>1. PICK no : no = FALSE
      OBVIOUS
    <3>2. PICK new : new = skip
      OBVIOUS
    <3>3. b = [path |-> p, lines |-> lines, skip_reason |-> no, delegate |-> no]
      BY <2>1, <3>1
    <3>4. /\ [b EXCEPT !.skip_reason = new]
               = [path |-> p, lines |-> lines, skip_reason |-> new, delegate |-> no]
          /\ [b EXCEPT !.delegate = new]
               = [path |-> p, lines |-> lines, skip_reason |-> no, delegate |-> new]
      BY <3>3, BatchRecord
    <3> QED
      BY <3>1, <3>2, <3>4
  <2> QED
    BY <2>1, <2>2, <2>3
<1>2. lines \in Texts \cup {"none"}
  BY DEF Allowed
<1>3. ASSUME NEW s \in BOOLEAN, NEW d \in BOOLEAN, ~(s /\ d)
      PROVE  [path |-> p, lines |-> lines, skip_reason |-> s, delegate |-> d] \in BatchesWith(T)
  <2>1. PICK b : b = [path |-> p, lines |-> lines, skip_reason |-> s, delegate |-> d]
    OBVIOUS
  <2>2. b \in [path : Paths, lines : Texts \cup {"none"}, skip_reason : BOOLEAN, delegate : BOOLEAN]
    BY <1>2, <2>1
  <2>3. /\ b.lines = lines /\ b.path = p
        /\ b.skip_reason = s /\ b.delegate = d
    BY <2>1
  <2>4. b \in MemberBatches
    BY <1>3, <2>2, <2>3 DEF MemberBatches
  <2> QED
    BY <2>1, <2>3, <2>4 DEF BatchesWith
<1>4. PICK x, y, z : /\ x = Batch(p, lines)
                     /\ y = [Batch(p, lines) EXCEPT !.skip_reason = skip]
                     /\ z = [Batch(p, lines) EXCEPT !.delegate = skip]
  OBVIOUS
<1>5. x \in BatchesWith(T) /\ x.path = p
  BY <1>1, <1>3, <1>4
<1>6. y \in BatchesWith(T) /\ y.path = p
  BY <1>1, <1>3, <1>4
<1>7. z \in BatchesWith(T) /\ z.path = p
  BY <1>1, <1>3, <1>4
<1> QED
  BY ONLY <1>4, <1>5, <1>6, <1>7

LEMMA EntryBatches ==
    ASSUME NEW T, Allowed(T), NEW e, IsEntry(e)
    PROVE  /\ <<e.name>> \in Paths /\ <<e.name>> # <<>>
           /\ NameBatch(e) \in BatchesWith(T) /\ NameBatch(e).path = <<e.name>>
           /\ \A why \in BOOLEAN : /\ [NameBatch(e) EXCEPT !.skip_reason = why] \in BatchesWith(T)
                                   /\ [NameBatch(e) EXCEPT !.skip_reason = why].path = <<e.name>>
           /\ DelegateBatch(e) \in BatchesWith(T) /\ DelegateBatch(e).path = <<e.name>>
           /\ Summary \in BatchesWith(T) /\ Summary.path = <<>>
<1>1. <<e.name>> \in Paths /\ <<e.name>> # <<>> /\ <<>> \in Paths
  BY DEF IsEntry, Paths
<1>2. "name" \in T
  BY DEF Allowed
<1>3. /\ NameBatch(e) \in BatchesWith(T) /\ NameBatch(e).path = <<e.name>>
      /\ \A why \in BOOLEAN : /\ [NameBatch(e) EXCEPT !.skip_reason = why] \in BatchesWith(T)
                              /\ [NameBatch(e) EXCEPT !.skip_reason = why].path = <<e.name>>
                              /\ [NameBatch(e) EXCEPT !.delegate = why] \in BatchesWith(T)
                              /\ [NameBatch(e) EXCEPT !.delegate = why].path = <<e.name>>
  <2>1. PICK p : p = <<e.name>>
    OBVIOUS
  <2>2. p \in Paths /\ "name" \in T \cup {"none"} /\ ("name" = "none" <=> p = <<>>) /\ NameBatch(e) = Batch(p, "name")
    BY <1>1, <1>2, <2>1 DEF NameBatch
  <2>3. ASSUME NEW why \in BOOLEAN
        PROVE  /\ Batch(p, "name") \in BatchesWith(T)
               /\ [Batch(p, "name") EXCEPT !.skip_reason = why] \in BatchesWith(T)
               /\ [Batch(p, "name") EXCEPT !.delegate = why] \in BatchesWith(T)
               /\ Batch(p, "name").path = p
               /\ [Batch(p, "name") EXCEPT !.skip_reason = why].path = p
               /\ [Batch(p, "name") EXCEPT !.delegate = why].path = p
    BY <2>2, BatchFields
  <2> QED
    BY <2>1, <2>2, <2>3
<1>4. DelegateBatch(e) \in BatchesWith(T) /\ DelegateBatch(e).path = <<e.name>>
  BY <1>3 DEF DelegateBatch
<1>5. Summary \in BatchesWith(T) /\ Summary.path = <<>>
  BY <1>1, BatchFields DEF Summary
<1> QED
  BY <1>1, <1>3, <1>4, <1>5

LEMMA MemberBatchKnown ==
    ASSUME NEW T, Allowed(T), NEW e, IsEntry(e), NEW kind, NEW external \in BOOLEAN,
           NEW insync \in BOOLEAN, insync \/ "foreign" \in T
    PROVE  /\ MemberBatch(e, kind, external, insync) \in BatchesWith(T)
           /\ ~external => MemberBatch(e, kind, external, insync).path = <<e.name>>
<1> DEFINE lines == MemberLines(e, external, insync)
           p == IF lines = "none" THEN <<>> ELSE <<e.name>>
<1>1. lines \in T \cup {"none"} /\ (~external => lines # "none")
  BY DEF MemberLines, Allowed
<1>2. p \in Paths /\ (lines = "none" <=> p = <<>>)
  BY EntryBatches DEF Paths
<1>3. SkipReason(e, kind) \in BOOLEAN
  BY DEF SkipReason
<1>4. MemberBatch(e, kind, external, insync) = [Batch(p, lines) EXCEPT !.skip_reason = SkipReason(e, kind)]
  BY DEF MemberBatch
<1> HIDE DEF lines, p
<1>5. /\ [Batch(p, lines) EXCEPT !.skip_reason = SkipReason(e, kind)] \in BatchesWith(T)
      /\ [Batch(p, lines) EXCEPT !.skip_reason = SkipReason(e, kind)].path = p
  BY <1>1, <1>2, <1>3, BatchFields
<1> QED
  BY <1>1, <1>4, <1>5 DEF p

\* The members that batches name.
NamesIn(E) == {b.path : b \in {c \in E : c.path # <<>>}}

StreamMaps(T) == [ArchiveIds -> Seq(BatchesWith(T))]

\* The archives in an archive that are looked into.
Opened(e) ==
    /\ e.inner # NoArchive /\ Multifile(e.inner)
    /\ ~(Contents[e.inner].kind = "7z" /\ "huge" \in e.flags)

Under(e, names) == {<<e.name>> \o p : p \in names}

LEMMA BatchKnown ==
    ASSUME NEW T, Allowed(T), NEW b \in BatchesWith(T)
    PROVE  /\ b = [path |-> b.path, lines |-> b.lines, skip_reason |-> b.skip_reason, delegate |-> b.delegate]
           /\ b.path \in Paths /\ b.lines \in T \cup {"none"}
           /\ b.skip_reason \in BOOLEAN /\ b.delegate \in BOOLEAN
           /\ b.lines = "none" <=> b.path = <<>>
           /\ ~(b.skip_reason /\ b.delegate)
<1>1. /\ b \in [path : Paths, lines : Texts \cup {"none"}, skip_reason : BOOLEAN, delegate : BOOLEAN]
      /\ b.lines = "none" <=> b.path = <<>>
      /\ ~(b.skip_reason /\ b.delegate) /\ b.lines \in T \cup {"none"}
  BY DEF BatchesWith, MemberBatches
<1> QED
  BY <1>1

LEMMA LongerPaths ==
    ASSUME NEW e, IsEntry(e), NEW p \in Paths
    PROVE  <<e.name>> \o p \in Paths /\ <<e.name>> \o p # <<>>
<1>1. <<e.name>> \in Seq(EntryNames) /\ p \in Seq(EntryNames) /\ Len(<<e.name>>) = 1
  BY DEF IsEntry, Paths
<1>2. <<e.name>> \o p \in Seq(EntryNames) /\ Len(<<e.name>> \o p) = 1 + Len(p) /\ Len(p) \in Nat
  BY <1>1
<1> QED
  BY <1>2 DEF Paths

LEMMA UnderNameKnown ==
    ASSUME NEW T, Allowed(T), NEW e, IsEntry(e), NEW b \in BatchesWith(T)
    PROVE  /\ UnderName(e, b) \in BatchesWith(T)
           /\ UnderName(e, b).path = IF b.path = <<>> THEN <<>> ELSE <<e.name>> \o b.path
<1>1. CASE b.path = <<>>
  BY <1>1 DEF UnderName
<1>2. CASE b.path # <<>>
  <2>1. PICK p : p = <<e.name>> \o b.path
    OBVIOUS
  <2>2. p \in Paths /\ p # <<>>
    BY <2>1, BatchKnown, LongerPaths
  <2>3. UnderName(e, b) = [b EXCEPT !.path = p]
    BY <1>2, <2>1 DEF UnderName
  <2>4. b = [path |-> b.path, lines |-> b.lines, skip_reason |-> b.skip_reason, delegate |-> b.delegate]
    BY BatchKnown
  <2>5. [b EXCEPT !.path = p] =
          [path |-> p, lines |-> b.lines, skip_reason |-> b.skip_reason, delegate |-> b.delegate]
    BY <2>4
  <2>6. /\ b.lines \in T \cup {"none"} /\ b.lines \in Texts \cup {"none"} /\ b.lines # "none"
        /\ b.skip_reason \in BOOLEAN /\ b.delegate \in BOOLEAN /\ ~(b.skip_reason /\ b.delegate)
    BY <1>2, BatchKnown DEF Allowed
  <2>7. [b EXCEPT !.path = p] \in BatchesWith(T) /\ [b EXCEPT !.path = p].path = p
    BY <2>2, <2>5, <2>6 DEF BatchesWith, MemberBatches
  <2> QED
    BY <1>2, <2>1, <2>3, <2>7
<1> QED
  BY <1>1, <1>2

LEMMA ElemsOne ==
    ASSUME NEW S, NEW x \in S
    PROVE  <<x>> \in Seq(S) /\ Elems(<<x>>) = {x} /\ <<>> \in Seq(S) /\ Elems(<<>>) = {}
BY DEF Elems

LEMMA NestedKnown ==
    ASSUME NEW T, Allowed(T), NEW e, IsEntry(e), e.inner \in ArchiveIds,
           NEW sub \in StreamMaps(T)
    PROVE  /\ Nested(e, sub) \in Seq(BatchesWith(T))
           /\ NamesIn(Elems(Nested(e, sub))) =
                {<<e.name>>} \cup IF Contents[e.inner].kind = "7z" /\ "huge" \in e.flags THEN {}
                                  ELSE Under(e, NamesIn(Elems(sub[e.inner])))
<1> DEFINE skip == Contents[e.inner].kind = "7z" /\ "huge" \in e.flags
           inside == IF skip THEN <<>> ELSE sub[e.inner]
           under == [i \in DOMAIN inside |-> UnderName(e, inside[i])]
           first == NameBatch(e)
<1>1. inside \in Seq(BatchesWith(T))
  <2>1. sub[e.inner] \in Seq(BatchesWith(T)) /\ <<>> \in Seq(BatchesWith(T))
    BY DEF StreamMaps
  <2> QED
    BY <2>1
<1>2. Nested(e, sub) = <<first>> \o under
  BY DEF Nested
<1>3. first \in BatchesWith(T) /\ first.path = <<e.name>> /\ first.path # <<>>
  BY EntryBatches
<1>n. inside = IF skip THEN <<>> ELSE sub[e.inner]
  OBVIOUS
<1> HIDE DEF inside, first, skip
<1>4. \A i \in DOMAIN inside : inside[i] \in BatchesWith(T)
  BY <1>1
<1>5. \A i \in DOMAIN inside :
        /\ UnderName(e, inside[i]) \in BatchesWith(T)
        /\ UnderName(e, inside[i]).path = IF inside[i].path = <<>> THEN <<>> ELSE <<e.name>> \o inside[i].path
        /\ <<e.name>> \o inside[i].path # <<>>
  BY <1>4, UnderNameKnown, BatchKnown, LongerPaths
<1>6. under \in Seq(BatchesWith(T))
  BY <1>1, <1>5
<1>7. /\ Nested(e, sub) \in Seq(BatchesWith(T))
      /\ Elems(Nested(e, sub)) = {first} \cup {UnderName(e, inside[i]) : i \in DOMAIN inside}
  <2>1. <<first>> \in Seq(BatchesWith(T)) /\ Elems(<<first>>) = {first}
    BY <1>3, ElemsOne
  <2>2. Elems(under) = {UnderName(e, inside[i]) : i \in DOMAIN inside}
    BY DEF Elems
  <2>3. PICK s : s = <<first>>
    OBVIOUS
  <2>4. PICK t : t = under
    OBVIOUS
  <2> HIDE DEF under
  <2>5. s \in Seq(BatchesWith(T)) /\ t \in Seq(BatchesWith(T)) /\ Nested(e, sub) = s \o t
    BY <1>2, <1>6, <2>1, <2>3, <2>4
  <2>6. s \o t \in Seq(BatchesWith(T)) /\ Elems(s \o t) = Elems(s) \cup Elems(t)
    BY <2>5, ElemsConcat
  <2>7. Elems(s) = {first} /\ Elems(t) = {UnderName(e, inside[i]) : i \in DOMAIN inside}
    BY <2>1, <2>2, <2>3, <2>4
  <2> QED
    BY <2>5, <2>6, <2>7
<1>8. NamesIn(Elems(Nested(e, sub))) = {<<e.name>>} \cup Under(e, NamesIn(Elems(inside)))
  <2> DEFINE U == {UnderName(e, inside[i]) : i \in DOMAIN inside}
  <2>1. NamesIn(U) = Under(e, NamesIn(Elems(inside)))
    <3>1. ASSUME NEW i \in DOMAIN inside, UnderName(e, inside[i]).path # <<>>
          PROVE  UnderName(e, inside[i]).path \in Under(e, NamesIn(Elems(inside)))
      <4>1. inside[i] \in Elems(inside) /\ inside[i].path # <<>>
        BY <1>5, <3>1 DEF Elems
      <4>2. inside[i].path \in NamesIn(Elems(inside))
        BY <4>1 DEF NamesIn
      <4> QED
        BY <1>5, <4>1, <4>2 DEF Under
    <3>2. ASSUME NEW i \in DOMAIN inside, inside[i].path # <<>>
          PROVE  <<e.name>> \o inside[i].path \in NamesIn(U)
      <4>1. UnderName(e, inside[i]) \in U /\ UnderName(e, inside[i]).path = <<e.name>> \o inside[i].path
            /\ UnderName(e, inside[i]).path # <<>>
        BY <1>5, <3>2
      <4> QED
        BY <4>1 DEF NamesIn
    <3>3. ASSUME NEW p \in NamesIn(U) PROVE p \in Under(e, NamesIn(Elems(inside)))
      <4>1. PICK b \in U : b.path # <<>> /\ p = b.path
        BY <3>3 DEF NamesIn
      <4>2. PICK i \in DOMAIN inside : b = UnderName(e, inside[i])
        BY <4>1
      <4> QED
        BY <3>1, <4>1, <4>2
    <3>4. ASSUME NEW p \in Under(e, NamesIn(Elems(inside))) PROVE p \in NamesIn(U)
      <4>1. PICK q \in NamesIn(Elems(inside)) : p = <<e.name>> \o q
        BY <3>4 DEF Under
      <4>2. PICK c \in Elems(inside) : c.path # <<>> /\ q = c.path
        BY <4>1 DEF NamesIn
      <4>3. PICK i \in DOMAIN inside : c = inside[i]
        BY <4>2 DEF Elems
      <4> QED
        BY <3>2, <4>1, <4>2, <4>3
    <3> QED
      BY <3>3, <3>4
  <2>2. NamesIn({first} \cup U) = {<<e.name>>} \cup NamesIn(U)
    BY <1>3 DEF NamesIn
  <2> QED
    BY <1>7, <2>1, <2>2
<1>9. skip => Under(e, NamesIn(Elems(inside))) = {}
  BY <1>n DEF Under, NamesIn, Elems
<1> QED
  BY <1>7, <1>8, <1>9, <1>n DEF skip

\* What one entry gives.
NamesOfEntry(e, kind, sub) ==
    IF "dir" \in e.flags \/ ~Shown(e) \/ (kind # "7z" /\ "unreadable" \in e.flags) THEN {}
    ELSE {<<e.name>>} \cup IF Opened(e) THEN Under(e, NamesIn(Elems(sub[e.inner]))) ELSE {}

LEMMA NamesOfOne ==
    ASSUME NEW b, b.path # <<>>
    PROVE  NamesIn({b}) = {b.path}
BY DEF NamesIn

LEMMA EntryStreams ==
    ASSUME NEW T, Allowed(T), NEW e, IsEntry(e), NEW sub \in StreamMaps(T), NEW kind,
           NEW external \in BOOLEAN, NEW insync \in BOOLEAN, insync \/ "foreign" \in T
    PROVE  /\ Entry(e, kind, sub, external, insync) \in Seq(BatchesWith(T))
           /\ ~external => NamesIn(Elems(Entry(e, kind, sub, external, insync))) = NamesOfEntry(e, kind, sub)
<1>1. CASE "dir" \in e.flags \/ ~Shown(e) \/ (kind # "7z" /\ "unreadable" \in e.flags)
  <2>1. Entry(e, kind, sub, external, insync) = <<>>
    BY <1>1 DEF Entry
  <2>2. <<>> \in Seq(BatchesWith(T)) /\ NamesIn(Elems(<<>>)) = {}
    BY DEF NamesIn, Elems
  <2> QED
    BY <1>1, <2>1, <2>2 DEF NamesOfEntry
<1>2. CASE ~("dir" \in e.flags \/ ~Shown(e) \/ (kind # "7z" /\ "unreadable" \in e.flags))
  <2>1. CASE e.inner # NoArchive /\ Multifile(e.inner)
    <3>1. e.inner \in ArchiveIds /\ Entry(e, kind, sub, external, insync) = Nested(e, sub)
      BY <1>2, <2>1 DEF Entry, IsEntry
    <3> QED
      BY <1>2, <2>1, <3>1, NestedKnown DEF NamesOfEntry, Opened
  <2>2. CASE ~(e.inner # NoArchive /\ Multifile(e.inner))
    <3> DEFINE b == IF "server_only" \in e.flags THEN DelegateBatch(e)
                    ELSE MemberBatch(e, kind, external, insync)
    <3>1. Entry(e, kind, sub, external, insync) = <<b>>
      BY <1>2, <2>2 DEF Entry
    <3>2. b \in BatchesWith(T) /\ (~external => b.path = <<e.name>> /\ b.path # <<>>)
      <4>1. DelegateBatch(e) \in BatchesWith(T) /\ DelegateBatch(e).path = <<e.name>> /\ <<e.name>> # <<>>
        BY EntryBatches
      <4>2. /\ MemberBatch(e, kind, external, insync) \in BatchesWith(T)
            /\ ~external => MemberBatch(e, kind, external, insync).path = <<e.name>>
        BY MemberBatchKnown
      <4> QED
        BY <4>1, <4>2
    <3> HIDE DEF b
    <3>3. <<b>> \in Seq(BatchesWith(T)) /\ Elems(<<b>>) = {b}
      BY <3>2, ElemsOne
    <3>4. ~external => NamesIn(Elems(<<b>>)) = {<<e.name>>}
      BY <3>2, <3>3, NamesOfOne
    <3>5. NamesOfEntry(e, kind, sub) = {<<e.name>>}
      BY <1>2, <2>2 DEF NamesOfEntry, Opened
    <3> QED
      BY <3>1, <3>3, <3>4, <3>5
  <2> QED
    BY <2>1, <2>2
<1> QED
  BY <1>1, <1>2

LEMMA FlattenNames ==
    ASSUME NEW S, NEW n \in Nat, NEW F \in [1..n -> Seq(S)]
    PROVE  /\ FlattenSeq(F) \in Seq(S)
           /\ Elems(FlattenSeq(F)) = UNION {Elems(F[i]) : i \in 1..n}
           /\ NamesIn(Elems(FlattenSeq(F))) = UNION {NamesIn(Elems(F[i])) : i \in 1..n}
<1>1. F \in Seq(Seq(S)) /\ DOMAIN F = 1..n
  OBVIOUS
<1>2. FlattenSeq(F) \in Seq(S) /\ Elems(FlattenSeq(F)) = UNION {Elems(F[i]) : i \in 1..n}
  BY <1>1, FlattenElems
<1>3. NamesIn(UNION {Elems(F[i]) : i \in 1..n}) = UNION {NamesIn(Elems(F[i])) : i \in 1..n}
  BY DEF NamesIn
<1> QED
  BY <1>2, <1>3

\* The entries at the positions P up to k, in their order.
OrderedAt(es, P, s, k) ==
    /\ Elems(s) = {es[i] : i \in (1..k) \cap P}
    /\ \A b \in DOMAIN s : \A a \in 1..(b - 1) : \E i, j \in (1..k) \cap P :
         i < j /\ s[a] = es[i] /\ s[b] = es[j]

LEMMA OrderedMore ==
    ASSUME NEW E, NEW es \in Seq(E), NEW P, NEW k \in Nat, k + 1 \in DOMAIN es,
           NEW s \in Seq(E), OrderedAt(es, P, s, k)
    PROVE  /\ k + 1 \in P => OrderedAt(es, P, s \o <<es[k + 1]>>, k + 1)
           /\ k + 1 \notin P => OrderedAt(es, P, s \o <<>>, k + 1)
<1>1. CASE k + 1 \in P
  <2>1. PICK x : x = es[k + 1]
    OBVIOUS
  <2>2. x \in E /\ <<x>> \in Seq(E) /\ Elems(<<x>>) = {x}
    BY <2>1, ElemsOne
  <2>3. PICK t : t = s \o <<x>>
    OBVIOUS
  <2>4. Elems(t) = Elems(s) \cup {x}
    <3>1. PICK u : u = <<x>>
      OBVIOUS
    <3>2. u \in Seq(E) /\ t = s \o u /\ Elems(u) = {x}
      BY <2>2, <2>3, <3>1
    <3> QED
      BY <3>2, ElemsConcat
  <2>5. (1..(k + 1)) \cap P = ((1..k) \cap P) \cup {k + 1}
    BY <1>1
  <2>6. Elems(t) = {es[i] : i \in (1..(k + 1)) \cap P}
    BY <2>1, <2>4, <2>5 DEF OrderedAt
  <2>7. /\ DOMAIN t = 1..(Len(s) + 1) /\ DOMAIN s = 1..Len(s) /\ Len(s) \in Nat
        /\ \A i \in 1..Len(s) : t[i] = s[i]
        /\ t[Len(s) + 1] = x
    BY <2>2, <2>3
  <2>8. ASSUME NEW b \in DOMAIN t, NEW a \in 1..(b - 1)
        PROVE  \E i, j \in (1..(k + 1)) \cap P : i < j /\ t[a] = es[i] /\ t[b] = es[j]
    <3>1. a \in 1..Len(s) /\ t[a] = s[a] /\ a \in DOMAIN s
      BY <2>7, <2>8
    <3>2. CASE b \in DOMAIN s
      <4>1. PICK i, j \in (1..k) \cap P : i < j /\ s[a] = es[i] /\ s[b] = es[j]
        BY <3>2 DEF OrderedAt
      <4>2. t[b] = s[b] /\ i \in (1..(k + 1)) \cap P /\ j \in (1..(k + 1)) \cap P
        BY <2>5, <2>7, <3>2
      <4> QED
        BY <3>1, <4>1, <4>2
    <3>3. CASE b \notin DOMAIN s
      <4>1. t[b] = x
        BY <2>7, <3>3
      <4>2. s[a] \in Elems(s)
        BY <3>1 DEF Elems
      <4>3. PICK i \in (1..k) \cap P : s[a] = es[i]
        BY <4>2 DEF OrderedAt
      <4>4. i < k + 1 /\ i \in (1..(k + 1)) \cap P /\ k + 1 \in (1..(k + 1)) \cap P
        BY <2>5, <4>3
      <4> QED
        BY <2>1, <3>1, <4>1, <4>3, <4>4
    <3> QED
      BY <3>2, <3>3
  <2> QED
    BY <1>1, <2>1, <2>3, <2>6, <2>8 DEF OrderedAt
<1>2. CASE k + 1 \notin P
  <2>1. s \o <<>> = s
    OBVIOUS
  <2>2. (1..(k + 1)) \cap P = (1..k) \cap P
    BY <1>2
  <2> QED
    BY <1>2, <2>1, <2>2 DEF OrderedAt
<1> QED
  BY <1>1, <1>2

LEMMA EntriesAtOrder ==
    ASSUME NEW E, NEW es \in Seq(E), NEW P
    PROVE  /\ EntriesAt(es, P) \in Seq(E)
           /\ OrderedAt(es, P, EntriesAt(es, P), Len(es))
<1> DEFINE F == [i \in DOMAIN es |-> IF i \in P THEN <<es[i]>> ELSE <<>>]
<1>1. PICK n \in Nat : n = Len(es) /\ DOMAIN es = 1..n
  OBVIOUS
<1>2. PICK V : V = Seq(E)
  OBVIOUS
<1>3. /\ <<>> \in V
      /\ \A s, t \in V : s \o t \in V
      /\ \A t \in V : <<>> \o t = t
  BY <1>2
<1>4. \A i \in 1..n : es[i] \in E /\ <<es[i]>> \in V
  BY <1>1, <1>2
<1>5. PICK q : q = F
  OBVIOUS
<1>6. Len(q) = n /\ (\A i \in 1..n : q[i] \in V) /\ (n = 0 => q = <<>>)
  BY <1>1, <1>3, <1>4, <1>5
<1>7. \A i \in 1..n : q[i] = IF i \in P THEN <<es[i]>> ELSE <<>>
  BY <1>1, <1>5
<1>8. EntriesAt(es, P) = FlattenSeq(q)
  BY <1>5 DEF EntriesAt
<1> HIDE DEF F
<1>9. PICK g : ConcatsOf(n, V, q, g)
  BY <1>3, <1>6, FlattenSteps
<1>10. /\ g \in [0..n -> V] /\ g[0] = <<>> /\ FlattenSeq(q) = g[n]
       /\ \A i \in 1..n : g[i] = g[i - 1] \o q[i]
  BY <1>9 DEF ConcatsOf
<1> DEFINE I == {k \in Nat : k <= n => OrderedAt(es, P, g[k], k)}
<1>11. 0 \in I
  <2>1. Elems(g[0]) = {} /\ 1..0 = {} /\ DOMAIN g[0] = {}
    BY <1>10 DEF Elems
  <2> QED
    BY <2>1 DEF OrderedAt
<1>12. ASSUME NEW k \in Nat, k \in I PROVE k + 1 \in I
  <2> SUFFICES ASSUME k + 1 <= n PROVE OrderedAt(es, P, g[k + 1], k + 1)
    OBVIOUS
  <2>1. k \in 0..n /\ k + 1 \in 1..n /\ (k + 1) - 1 = k /\ g[k] \in V /\ OrderedAt(es, P, g[k], k)
    BY <1>10, <1>12
  <2>2. g[k + 1] = g[k] \o q[k + 1]
    BY <1>10, <2>1
  <2>3. q[k + 1] = IF k + 1 \in P THEN <<es[k + 1]>> ELSE <<>>
    BY <1>7, <2>1
  <2>4. g[k] \in Seq(E) /\ k + 1 \in DOMAIN es
    BY <1>1, <1>2, <2>1
  <2>5. /\ k + 1 \in P => OrderedAt(es, P, g[k] \o <<es[k + 1]>>, k + 1)
        /\ k + 1 \notin P => OrderedAt(es, P, g[k] \o <<>>, k + 1)
    BY <2>1, <2>4, OrderedMore
  <2> QED
    BY <2>2, <2>3, <2>5
<1>13. n \in I
  <2> HIDE DEF I
  <2> QED
    BY <1>11, <1>12, SetInduction
<1>14. g[n] \in Seq(E)
  BY <1>2, <1>10
<1> QED
  BY <1>1, <1>8, <1>10, <1>13, <1>14

Readable(e) == "unreadable" \notin e.flags

\* No entry at the positions P but the last keeps the others from being read.
Packed(es, P) ==
    \A i, j \in DOMAIN es \cap P : i < j => Readable(es[i]) /\ ReadToEnd(es[i], 1)

LEMMA DecodeStreams ==
    ASSUME NEW T, Allowed(T), NEW E, \A e \in E : IsEntry(e), NEW es \in Seq(E), NEW P,
           NEW sub \in StreamMaps(T), NEW depth \in Nat, NEW external \in BOOLEAN,
           "foreign" \in T \/ Packed(es, P)
    PROVE  /\ DecodeBlock(EntriesAt(es, P), depth, sub, external) \in Seq(BatchesWith(T))
           /\ ~external /\ Packed(es, P) =>
                NamesIn(Elems(DecodeBlock(EntriesAt(es, P), depth, sub, external))) =
                  UNION {NamesOfEntry(es[i], "7z", sub) :
                           i \in {j \in DOMAIN es : j \in P /\ Readable(es[j])}}
<1> DEFINE decoded(q, i) == \A j \in 1..i : "unreadable" \notin q[j].flags
           insync(q, i) == \A j \in 1..(i - 1) : ReadToEnd(q[j], depth)
           part(q, i) == IF decoded(q, i) THEN Entry(q[i], "7z", sub, external, insync(q, i)) ELSE <<>>
<1>1. PICK q : q = EntriesAt(es, P)
  OBVIOUS
<1>2. q \in Seq(E) /\ OrderedAt(es, P, q, Len(es))
  BY <1>1, EntriesAtOrder
<1>3. PICK n \in Nat : n = Len(q) /\ DOMAIN q = 1..n
  BY <1>2
<1>4. PICK D : D = DOMAIN es /\ D = 1..Len(es)
  OBVIOUS
<1>5. \A i \in 1..n : q[i] \in E /\ IsEntry(q[i])
  BY <1>2, <1>3
<1>6. \A i \in 1..n : \A j \in 1..(i - 1) : \E k, l \in D \cap P : k < l /\ q[j] = es[k] /\ q[i] = es[l]
  <2>1. \A b \in DOMAIN q : \A a \in 1..(b - 1) : \E i, j \in (1..Len(es)) \cap P :
          i < j /\ q[a] = es[i] /\ q[b] = es[j]
    BY <1>2 DEF OrderedAt
  <2> SUFFICES ASSUME NEW i \in 1..n, NEW j \in 1..(i - 1)
               PROVE  \E k, l \in D \cap P : k < l /\ q[j] = es[k] /\ q[i] = es[l]
    OBVIOUS
  <2>2. PICK k, l \in (1..Len(es)) \cap P : k < l /\ q[j] = es[k] /\ q[i] = es[l]
    BY <1>3, <2>1
  <2> QED
    BY <1>4, <2>2
<1>7. Elems(q) = {es[i] : i \in D \cap P}
  BY <1>2, <1>4 DEF OrderedAt
<1>8. ASSUME Packed(es, P), NEW i \in 1..n
      PROVE  (\A j \in 1..(i - 1) : Readable(q[j])) /\ insync(q, i)
  <2> SUFFICES ASSUME NEW j \in 1..(i - 1) PROVE Readable(q[j]) /\ ReadToEnd(q[j], depth)
    OBVIOUS
  <2>1. PICK k, l \in D \cap P : k < l /\ q[j] = es[k] /\ q[i] = es[l]
    BY <1>6
  <2>2. Readable(q[j]) /\ ReadToEnd(q[j], 1)
    BY <1>4, <1>8, <2>1 DEF Packed
  <2> QED
    BY <2>2 DEF ReadToEnd
<1>9. ASSUME Packed(es, P), NEW i \in 1..n
      PROVE  decoded(q, i) <=> Readable(q[i])
  <2>1. \A j \in 1..(i - 1) : Readable(q[j])
    BY <1>8, <1>9
  <2>2. \A j \in 1..i : j = i \/ j \in 1..(i - 1)
    OBVIOUS
  <2>3. i \in 1..i
    OBVIOUS
  <2> QED
    BY <2>1, <2>2, <2>3 DEF Readable
<1>10. DecodeBlock(q, depth, sub, external) = FlattenSeq([i \in 1..n |-> part(q, i)])
  BY <1>3 DEF DecodeBlock
<1>11. \A i \in 1..n : insync(q, i) \in BOOLEAN /\ (insync(q, i) \/ "foreign" \in T)
  BY <1>8
<1> HIDE DEF insync, decoded
<1>12. \A i \in 1..n :
         /\ part(q, i) \in Seq(BatchesWith(T))
         /\ ~external => NamesIn(Elems(part(q, i))) =
                           IF decoded(q, i) THEN NamesOfEntry(q[i], "7z", sub) ELSE {}
  <2> SUFFICES ASSUME NEW i \in 1..n
               PROVE  /\ part(q, i) \in Seq(BatchesWith(T))
                      /\ ~external => NamesIn(Elems(part(q, i))) =
                           IF decoded(q, i) THEN NamesOfEntry(q[i], "7z", sub) ELSE {}
    OBVIOUS
  <2>1. CASE decoded(q, i)
    BY <1>5, <1>11, <2>1, EntryStreams
  <2>2. CASE ~decoded(q, i)
    BY <2>2 DEF NamesIn, Elems
  <2> QED
    BY <2>1, <2>2
<1> DEFINE F == [i \in 1..n |-> part(q, i)]
<1>13. F \in [1..n -> Seq(BatchesWith(T))] /\ \A i \in 1..n : F[i] = part(q, i)
  BY <1>12
<1> HIDE DEF F, part
<1>14. /\ FlattenSeq(F) \in Seq(BatchesWith(T))
       /\ NamesIn(Elems(FlattenSeq(F))) = UNION {NamesIn(Elems(F[i])) : i \in 1..n}
  <2>1. PICK S : S = BatchesWith(T)
    OBVIOUS
  <2>2. F \in [1..n -> Seq(S)]
    BY <1>13, <2>1
  <2>3. /\ FlattenSeq(F) \in Seq(S)
        /\ NamesIn(Elems(FlattenSeq(F))) = UNION {NamesIn(Elems(F[i])) : i \in 1..n}
    BY <2>2, FlattenNames, SMTT(20)
  <2> QED
    BY <2>1, <2>3
<1>15. ASSUME ~external, Packed(es, P)
       PROVE  UNION {NamesIn(Elems(F[i])) : i \in 1..n} =
                UNION {NamesOfEntry(es[i], "7z", sub) : i \in {j \in DOMAIN es : j \in P /\ Readable(es[j])}}
  <2>1. \A i \in 1..n : NamesIn(Elems(F[i])) = IF Readable(q[i]) THEN NamesOfEntry(q[i], "7z", sub) ELSE {}
    BY <1>9, <1>12, <1>13, <1>15
  <2>2. \A i \in 1..n : \E j \in D \cap P : q[i] = es[j]
    BY <1>3, <1>7 DEF Elems
  <2>3. \A j \in D \cap P : \E i \in 1..n : q[i] = es[j]
    BY <1>3, <1>7 DEF Elems
  <2> DEFINE R == {j \in DOMAIN es : j \in P /\ Readable(es[j])}
             L == UNION {NamesIn(Elems(F[i])) : i \in 1..n}
             M == UNION {NamesOfEntry(es[i], "7z", sub) : i \in R}
  <2>4. ASSUME NEW i \in 1..n PROVE NamesIn(Elems(F[i])) \subseteq M
    <3>1. CASE Readable(q[i])
      <4>1. PICK j \in D \cap P : q[i] = es[j]
        BY <2>2
      <4>2. j \in R
        BY <1>4, <3>1, <4>1
      <4>3. NamesIn(Elems(F[i])) = NamesOfEntry(es[j], "7z", sub)
        BY <2>1, <3>1, <4>1
      <4> QED
        BY <4>2, <4>3
    <3>2. CASE ~Readable(q[i])
      BY <2>1, <3>2
    <3> QED
      BY <3>1, <3>2
  <2>5. ASSUME NEW j \in R PROVE NamesOfEntry(es[j], "7z", sub) \subseteq L
    <3>1. PICK i \in 1..n : q[i] = es[j]
      BY <1>4, <2>3
    <3>2. NamesIn(Elems(F[i])) = NamesOfEntry(es[j], "7z", sub)
      BY <2>1, <2>5, <3>1
    <3> QED
      BY <3>2
  <2> HIDE DEF R
  <2>6. L \subseteq M /\ M \subseteq L
    BY <2>4, <2>5
  <2> QED
    BY <2>6 DEF R
<1> QED
  BY <1>1, <1>10, <1>14, <1>15 DEF F

\* The entries of some blocks, by name.
NamesAt(es, P, why) ==
    FlattenSeq([i \in DOMAIN es |->
      IF i \in P /\ "dir" \notin es[i].flags
      THEN <<[NameBatch(es[i]) EXCEPT !.skip_reason = why]>> ELSE <<>>])

LEMMA NamesStreams ==
    ASSUME NEW T, Allowed(T), NEW E, \A e \in E : IsEntry(e), NEW es \in Seq(E), NEW P,
           NEW why \in BOOLEAN
    PROVE  /\ NamesAt(es, P, why) \in Seq(BatchesWith(T))
           /\ NamesIn(Elems(NamesAt(es, P, why))) =
                {<<es[i].name>> : i \in {j \in DOMAIN es : j \in P /\ "dir" \notin es[j].flags}}
<1> DEFINE part(i) == IF i \in P /\ "dir" \notin es[i].flags
                      THEN <<[NameBatch(es[i]) EXCEPT !.skip_reason = why]>> ELSE <<>>
           F == [i \in DOMAIN es |-> part(i)]
<1>1. PICK S : S = BatchesWith(T)
  OBVIOUS
<1>2. PICK n \in Nat : n = Len(es) /\ DOMAIN es = 1..n
  OBVIOUS
<1>3. ASSUME NEW i \in DOMAIN es
      PROVE  /\ part(i) \in Seq(S)
             /\ NamesIn(Elems(part(i))) =
                  IF i \in P /\ "dir" \notin es[i].flags THEN {<<es[i].name>>} ELSE {}
  <2>1. es[i] \in E /\ IsEntry(es[i])
    OBVIOUS
  <2>2. PICK b : b = [NameBatch(es[i]) EXCEPT !.skip_reason = why]
    OBVIOUS
  <2>3. b \in S /\ b.path = <<es[i].name>> /\ b.path # <<>>
    BY <1>1, <2>1, <2>2, EntryBatches
  <2>4. <<b>> \in Seq(S) /\ NamesIn(Elems(<<b>>)) = {<<es[i].name>>}
    BY <2>3, ElemsOne, NamesOfOne
  <2>5. <<>> \in Seq(S) /\ NamesIn(Elems(<<>>)) = {}
    BY DEF NamesIn, Elems
  <2> QED
    BY <2>2, <2>4, <2>5
<1> HIDE DEF part
<1>4. PICK G : G = F
  OBVIOUS
<1>5. G \in [1..n -> Seq(S)] /\ \A i \in 1..n : G[i] = part(i)
  BY <1>2, <1>3, <1>4
<1>6. NamesAt(es, P, why) = FlattenSeq(G)
  BY <1>4 DEF NamesAt, part
<1> HIDE DEF F
<1>7. /\ FlattenSeq(G) \in Seq(S)
      /\ NamesIn(Elems(FlattenSeq(G))) = UNION {NamesIn(Elems(G[i])) : i \in 1..n}
  BY <1>5, FlattenNames
<1>8. UNION {NamesIn(Elems(G[i])) : i \in 1..n} =
        {<<es[i].name>> : i \in {j \in DOMAIN es : j \in P /\ "dir" \notin es[j].flags}}
  BY <1>2, <1>3, <1>5
<1> QED
  BY <1>1, <1>6, <1>7, <1>8

\* The entries without a block; the flag of a block does not matter to them.
EmptyAt(es, sub, external) ==
    FlattenSeq([i \in DOMAIN es |->
      IF es[i].block = 0
      THEN Entry([es[i] EXCEPT !.flags = @ \ {"unreadable"}], "7z", sub, external, TRUE) ELSE <<>>])

LEMMA EmptyStreams ==
    ASSUME NEW T, Allowed(T), NEW E, \A e \in E : IsEntry(e), NEW es \in Seq(E),
           NEW sub \in StreamMaps(T), NEW external \in BOOLEAN
    PROVE  /\ EmptyAt(es, sub, external) \in Seq(BatchesWith(T))
           /\ ~external => NamesIn(Elems(EmptyAt(es, sub, external))) =
                UNION {NamesOfEntry(es[i], "7z", sub) : i \in {j \in DOMAIN es : es[j].block = 0}}
<1> DEFINE part(i) == IF es[i].block = 0
                      THEN Entry([es[i] EXCEPT !.flags = @ \ {"unreadable"}], "7z", sub, external, TRUE)
                      ELSE <<>>
           F == [i \in DOMAIN es |-> part(i)]
<1>1. PICK S : S = BatchesWith(T)
  OBVIOUS
<1>2. PICK n \in Nat : n = Len(es) /\ DOMAIN es = 1..n
  OBVIOUS
<1>3. ASSUME NEW i \in DOMAIN es
      PROVE  /\ part(i) \in Seq(S)
             /\ ~external => NamesIn(Elems(part(i))) =
                  IF es[i].block = 0 THEN NamesOfEntry(es[i], "7z", sub) ELSE {}
  <2>1. PICK e : e = es[i]
    OBVIOUS
  <2>2. IsEntry(e)
    BY <2>1
  <2>3. PICK flags : flags = e.flags \ {"unreadable"}
    OBVIOUS
  <2>4. PICK f : f = [e EXCEPT !.flags = flags]
    OBVIOUS
  <2>5. IsEntry(f) /\ f.name = e.name /\ f.inner = e.inner /\ f.flags = flags
    BY <2>2, <2>4, EntryFlags
  <2>6. f = [es[i] EXCEPT !.flags = @ \ {"unreadable"}]
    BY <2>1, <2>3, <2>4
  <2>7. /\ Entry(f, "7z", sub, external, TRUE) \in Seq(S)
        /\ ~external => NamesIn(Elems(Entry(f, "7z", sub, external, TRUE))) = NamesOfEntry(f, "7z", sub)
    BY <1>1, <2>5, EntryStreams
  <2>8. \A x \in {"dir", "excluded", "hidden", "huge"} : x \in f.flags <=> x \in e.flags
    BY <2>3, <2>5
  <2>9. Shown(f) <=> Shown(e)
    BY <2>8 DEF Shown
  <2>10. Opened(f) <=> Opened(e)
    BY <2>5, <2>8 DEF Opened
  <2>11. NamesOfEntry(f, "7z", sub) = NamesOfEntry(e, "7z", sub)
    BY <2>5, <2>8, <2>9, <2>10 DEF NamesOfEntry, Under
  <2>12. <<>> \in Seq(S) /\ NamesIn(Elems(<<>>)) = {}
    BY DEF NamesIn, Elems
  <2>13. part(i) = IF e.block = 0 THEN Entry(f, "7z", sub, external, TRUE) ELSE <<>>
    BY <2>1, <2>6
  <2> HIDE DEF part
  <2> QED
    BY <2>1, <2>7, <2>11, <2>12, <2>13
<1> HIDE DEF part
<1>4. PICK G : G = F
  OBVIOUS
<1>5. G \in [1..n -> Seq(S)] /\ \A i \in 1..n : G[i] = part(i)
  BY <1>2, <1>3, <1>4
<1>6. EmptyAt(es, sub, external) = FlattenSeq(G)
  BY <1>4 DEF EmptyAt, part
<1> HIDE DEF F
<1>7. /\ FlattenSeq(G) \in Seq(S)
      /\ NamesIn(Elems(FlattenSeq(G))) = UNION {NamesIn(Elems(G[i])) : i \in 1..n}
  BY <1>5, FlattenNames, SMTT(20)
<1>8. ~external => UNION {NamesIn(Elems(G[i])) : i \in 1..n} =
        UNION {NamesOfEntry(es[i], "7z", sub) : i \in {j \in DOMAIN es : es[j].block = 0}}
  BY <1>2, <1>3, <1>5
<1> QED
  BY <1>1, <1>6, <1>7, <1>8

\* One block.
BlockAt(c, b, depth, sub, external) ==
    IF b \in c.oversized THEN <<>>
    ELSE IF b \in c.tight THEN NamesAt(c.entries, {i \in DOMAIN c.entries : c.entries[i].block = b}, TRUE)
    ELSE DecodeBlock(EntriesAt(c.entries, {i \in DOMAIN c.entries : c.entries[i].block = b}), depth, sub, external)

FirstOf7z(c) ==
    IF c.oversized = {} THEN <<>>
    ELSE <<Summary>> \o NamesAt(c.entries, {i \in DOMAIN c.entries : c.entries[i].block \in c.oversized}, FALSE)

LEMMA SevenZipParts ==
    ASSUME NEW c, NEW depth, NEW sub, NEW external
    PROVE  SevenZip(c, depth, sub, external) =
             FirstOf7z(c) \o FlattenSeq([b \in 1..c.blocks |-> BlockAt(c, b, depth, sub, external)])
               \o EmptyAt(c.entries, sub, external)
<1>1. \A b : {i \in DOMAIN c.entries : c.entries[i].block \in {b}} = {i \in DOMAIN c.entries : c.entries[i].block = b}
  OBVIOUS
<1> QED
  BY <1>1 DEF SevenZip, FirstOf7z, BlockAt, EmptyAt, NamesAt

-----------------------------------------------------------------------------
\* What an entry of an archive shows of it.
NamesOfMember(c, e, sub) ==
    IF ~Shown(e) \/ e.flags \cap {"dir", "unreadable"} # {} THEN {}
    ELSE {<<e.name>>} \cup IF Opened(e) /\ e.block \notin c.oversized \cup c.tight
                           THEN Under(e, NamesIn(Elems(sub[e.inner]))) ELSE {}

NamesOfArchive(c, sub) == UNION {NamesOfMember(c, c.entries[i], sub) : i \in DOMAIN c.entries}

\* A 7z archive that is well packed, entry by entry.
LEMMA WellPacked7z ==
    ASSUME NEW a \in ArchiveIds, Contents[a].kind = "7z", WellPacked(Contents[a]),
           NEW i \in DOMAIN Contents[a].entries, NEW sub
    PROVE  LET c == Contents[a]
               e == c.entries[i]
           IN /\ c.oversized \cup c.tight \subseteq 1..c.blocks
              /\ e.block \in 0..c.blocks
              /\ e.block \in c.oversized \cup c.tight =>
                   NamesOfMember(c, e, sub) = IF "dir" \in e.flags THEN {} ELSE {<<e.name>>}
              /\ e.block \notin c.oversized \cup c.tight =>
                   NamesOfMember(c, e, sub) = IF Readable(e) THEN NamesOfEntry(e, "7z", sub) ELSE {}
              /\ e.block = 0 => Readable(e)
              /\ \A j \in DOMAIN c.entries : j > i /\ c.entries[j].block = e.block /\ e.block # 0 =>
                   Readable(e) /\ ReadToEnd(e, 1)
<1>1. PICK c : c = Contents[a]
  OBVIOUS
<1>2. PICK e : e = c.entries[i]
  OBVIOUS
<1>3. c.kind = "7z" /\ WellPacked(c) /\ i \in DOMAIN c.entries
  BY <1>1
<1>4. /\ c.oversized \cup c.tight \subseteq 1..c.blocks
      /\ e.block \in 0..c.blocks
      /\ e.block = 0 => Readable(e)
      /\ e.block \in c.oversized \cup c.tight => Readable(e) /\ ("dir" \in e.flags \/ Shown(e))
      /\ \A j \in DOMAIN c.entries : j > i /\ c.entries[j].block = e.block /\ e.block # 0 =>
           Readable(e) /\ EndsInStep(e)
  BY <1>2, <1>3 DEF WellPacked, Readable
<1>5. EndsInStep(e) => ReadToEnd(e, 1)
  BY DEF EndsInStep, ReadToEnd
<1>6. e.flags \cap {"dir", "unreadable"} # {} <=> "dir" \in e.flags \/ ~Readable(e)
  BY DEF Readable
<1>7. e.block \in c.oversized \cup c.tight =>
        NamesOfMember(c, e, sub) = IF "dir" \in e.flags THEN {} ELSE {<<e.name>>}
  BY <1>4, <1>6 DEF NamesOfMember
<1>8. e.block \notin c.oversized \cup c.tight =>
        NamesOfMember(c, e, sub) = IF Readable(e) THEN NamesOfEntry(e, "7z", sub) ELSE {}
  BY <1>6 DEF NamesOfMember, NamesOfEntry
<1> QED
  BY <1>1, <1>2, <1>4, <1>5, <1>7, <1>8

NamesOfBlock(c, b, sub) ==
    IF b \in c.oversized THEN {}
    ELSE UNION {NamesOfMember(c, c.entries[i], sub) :
                  i \in {j \in DOMAIN c.entries : c.entries[j].block = b}}

LEMMA BlockStreams ==
    ASSUME NEW T, Allowed(T), NEW a \in ArchiveIds, Contents[a].kind = "7z",
           "foreign" \in T \/ WellPacked(Contents[a]),
           NEW sub \in StreamMaps(T), NEW depth \in Nat, NEW external \in BOOLEAN,
           NEW c, c = Contents[a], NEW b \in 1..c.blocks
    PROVE  /\ BlockAt(c, b, depth, sub, external) \in Seq(BatchesWith(T))
           /\ ~external /\ WellPacked(c) =>
                NamesIn(Elems(BlockAt(c, b, depth, sub, external))) = NamesOfBlock(c, b, sub)
<1>1. c = Contents[a]
  OBVIOUS
<1>2. PICK es : es = c.entries
  OBVIOUS
<1>3. PICK E : E = {es[i] : i \in DOMAIN es}
  OBVIOUS
<1>4. es \in Seq(E) /\ \A e \in E : IsEntry(e)
  BY <1>1, <1>2, <1>3, EntriesKnown
<1>5. PICK P : P = {i \in DOMAIN es : es[i].block = b}
  OBVIOUS
<1>6. b # 0
  OBVIOUS
<1>7. WellPacked(c) => Packed(es, P)
  <2> SUFFICES ASSUME WellPacked(c), NEW i \in DOMAIN es \cap P, NEW j \in DOMAIN es \cap P, i < j
               PROVE  Readable(es[i]) /\ ReadToEnd(es[i], 1)
    BY DEF Packed
  <2>1. i \in DOMAIN es /\ j \in DOMAIN es /\ j > i /\ es[j].block = es[i].block /\ es[i].block # 0
    <3>1. DOMAIN es \subseteq Int
      BY <1>4
    <3> QED
      BY <1>5, <1>6, <3>1
  <2> QED
    BY <1>1, <1>2, <2>1, WellPacked7z
<1>8. PICK s : s = BlockAt(c, b, depth, sub, external)
  OBVIOUS
<1> DEFINE names == UNION {NamesOfMember(c, es[i], sub) : i \in P}
<1>n. NamesOfBlock(c, b, sub) = IF b \in c.oversized THEN {} ELSE names
  BY <1>2, <1>5 DEF NamesOfBlock
<1> DEFINE Goal == /\ s \in Seq(BatchesWith(T))
                   /\ ~external /\ WellPacked(c) => NamesIn(Elems(s)) = NamesOfBlock(c, b, sub)
<1>9. ASSUME b \in c.oversized PROVE Goal
  <2>1. s = <<>> /\ <<>> \in Seq(BatchesWith(T)) /\ NamesIn(Elems(<<>>)) = {}
    BY <1>8, <1>9 DEF BlockAt, NamesIn, Elems
  <2> QED
    BY <1>9, <1>n, <2>1
<1>10. ASSUME b \notin c.oversized /\ b \in c.tight PROVE Goal
  <2>1. s = NamesAt(es, P, TRUE)
    BY <1>2, <1>5, <1>8, <1>10 DEF BlockAt
  <2>2. /\ s \in Seq(BatchesWith(T))
        /\ NamesIn(Elems(s)) = {<<es[i].name>> : i \in {j \in DOMAIN es : j \in P /\ "dir" \notin es[j].flags}}
    BY <1>4, <2>1, NamesStreams
  <2>3. ASSUME WellPacked(c), NEW i \in P
        PROVE  NamesOfMember(c, es[i], sub) = IF "dir" \in es[i].flags THEN {} ELSE {<<es[i].name>>}
    <3>1. i \in DOMAIN es /\ es[i].block \in c.oversized \cup c.tight
      BY <1>5, <1>10
    <3> QED
      BY <1>1, <1>2, <2>3, <3>1, WellPacked7z
  <2>4. WellPacked(c) => NamesIn(Elems(s)) = names
    <3> SUFFICES ASSUME WellPacked(c) PROVE NamesIn(Elems(s)) = names
      OBVIOUS
    <3>1. names = UNION {IF "dir" \in es[i].flags THEN {} ELSE {<<es[i].name>>} : i \in P}
      BY <2>3
    <3>2. UNION {IF "dir" \in es[i].flags THEN {} ELSE {<<es[i].name>>} : i \in P} =
            {<<es[i].name>> : i \in {j \in DOMAIN es : j \in P /\ "dir" \notin es[j].flags}}
      BY <1>5
    <3> QED
      BY <2>2, <3>1, <3>2
  <2> QED
    BY <1>10, <1>n, <2>2, <2>4
<1>11. ASSUME b \notin c.oversized /\ b \notin c.tight PROVE Goal
  <2>1. s = DecodeBlock(EntriesAt(es, P), depth, sub, external)
    BY <1>2, <1>5, <1>8, <1>11 DEF BlockAt
  <2>2. "foreign" \in T \/ Packed(es, P)
    BY <1>1, <1>7
  <2>3. /\ s \in Seq(BatchesWith(T))
        /\ ~external /\ Packed(es, P) => NamesIn(Elems(s)) =
             UNION {NamesOfEntry(es[i], "7z", sub) : i \in {j \in DOMAIN es : j \in P /\ Readable(es[j])}}
    <3>1. /\ DecodeBlock(EntriesAt(es, P), depth, sub, external) \in Seq(BatchesWith(T))
          /\ ~external /\ Packed(es, P) =>
               NamesIn(Elems(DecodeBlock(EntriesAt(es, P), depth, sub, external))) =
                 UNION {NamesOfEntry(es[i], "7z", sub) : i \in {j \in DOMAIN es : j \in P /\ Readable(es[j])}}
      <4>1. \A e \in E : IsEntry(e)
        BY <1>4
      <4>2. es \in Seq(E)
        BY <1>4
      <4> HIDE DEF names, Goal
      <4> QED
        BY ONLY Allowed(T), <4>1, <4>2, <2>2, sub \in StreamMaps(T), depth \in Nat, external \in BOOLEAN, DecodeStreams
    <3> QED
      BY <2>1, <3>1
  <2>4. ASSUME WellPacked(c), NEW i \in P
        PROVE  NamesOfMember(c, es[i], sub) = IF Readable(es[i]) THEN NamesOfEntry(es[i], "7z", sub) ELSE {}
    <3>1. i \in DOMAIN es /\ es[i].block \notin c.oversized \cup c.tight
      BY <1>5, <1>11
    <3>2. WellPacked(Contents[a]) /\ i \in DOMAIN Contents[a].entries
      BY <1>1, <1>2, <2>4, <3>1
    <3>3. es[i].block \notin c.oversized \cup c.tight =>
            NamesOfMember(c, es[i], sub) = IF Readable(es[i]) THEN NamesOfEntry(es[i], "7z", sub) ELSE {}
      BY ONLY a \in ArchiveIds, Contents[a].kind = "7z", <1>1, <1>2, <3>2, WellPacked7z
    <3> QED
      BY <3>1, <3>3
  <2>5. ~external /\ WellPacked(c) =>
          NamesIn(Elems(s)) = names
    <3> SUFFICES ASSUME ~external, WellPacked(c)
                 PROVE  NamesIn(Elems(s)) = names
      OBVIOUS
    <3>1. NamesIn(Elems(s)) =
            UNION {NamesOfEntry(es[i], "7z", sub) : i \in {j \in DOMAIN es : j \in P /\ Readable(es[j])}}
      BY <1>7, <2>3
    <3>2. P \subseteq DOMAIN es
      BY <1>5
    <3> QED
      BY <2>4, <3>1, <3>2
  <2> QED
    BY <1>11, <1>n, <2>3, <2>5
<1>12. Goal
  BY <1>9, <1>10, <1>11
<1> QED
  BY <1>8, <1>12

LEMMA SevenZipStreams ==
    ASSUME NEW T, Allowed(T), NEW a \in ArchiveIds, Contents[a].kind = "7z",
           "foreign" \in T \/ WellPacked(Contents[a]),
           NEW sub \in StreamMaps(T), NEW depth \in Nat, NEW external \in BOOLEAN
    PROVE  LET c == Contents[a]
               s == SevenZip(c, depth, sub, external)
           IN /\ s \in Seq(BatchesWith(T))
              /\ ~external /\ WellPacked(c) => NamesIn(Elems(s)) = NamesOfArchive(c, sub)
<1>1. PICK c : c = Contents[a]
  OBVIOUS
<1>2. PICK es : es = c.entries
  OBVIOUS
<1>3. PICK E : E = {es[i] : i \in DOMAIN es}
  OBVIOUS
<1>4. es \in Seq(E) /\ (\A e \in E : IsEntry(e)) /\ c.blocks \in Nat
  BY <1>1, <1>2, <1>3, EntriesKnown, ContentsAssumption
<1>5. PICK S : S = BatchesWith(T)
  OBVIOUS
<1> DEFINE of(P) == UNION {NamesOfMember(c, es[i], sub) : i \in P}
           at(blocks) == {i \in DOMAIN es : es[i].block \in blocks}
<1>6. PICK one : one = FirstOf7z(c)
  OBVIOUS
<1>7. one \in Seq(S) /\ (WellPacked(c) => NamesIn(Elems(one)) = of(at(c.oversized)))
  <2>1. CASE c.oversized = {}
    <3>1. one = <<>> /\ <<>> \in Seq(S) /\ NamesIn(Elems(<<>>)) = {}
      BY <1>6, <2>1 DEF FirstOf7z, NamesIn, Elems
    <3> QED
      BY <2>1, <3>1
  <2>2. CASE c.oversized # {}
    <3>1. PICK P : P = at(c.oversized)
      OBVIOUS
    <3>2. PICK t : t = NamesAt(es, P, FALSE)
      OBVIOUS
    <3>3. PICK u : u = <<Summary>>
      OBVIOUS
    <3>4. one = u \o t
      BY <1>2, <1>6, <2>2, <3>1, <3>2, <3>3 DEF FirstOf7z
    <3>5. /\ t \in Seq(S)
          /\ NamesIn(Elems(t)) = {<<es[i].name>> : i \in {j \in DOMAIN es : j \in P /\ "dir" \notin es[j].flags}}
      BY <1>4, <1>5, <3>2, NamesStreams
    <3>6. u \in Seq(S) /\ NamesIn(Elems(u)) = {}
      <4>1. Summary \in S /\ Summary.path = <<>>
        <5>1. <<>> \in Paths
          BY DEF Paths
        <5> QED
          BY <1>5, <5>1, BatchFields DEF Summary
      <4>2. u \in Seq(S) /\ Elems(u) = {Summary}
        BY <3>3, <4>1, ElemsOne
      <4> QED
        BY <4>1, <4>2 DEF NamesIn
    <3>7. one \in Seq(S) /\ NamesIn(Elems(one)) = NamesIn(Elems(t))
      <4>1. one \in Seq(S) /\ Elems(one) = Elems(u) \cup Elems(t)
        BY <3>4, <3>5, <3>6, ElemsConcat
      <4>2. NamesIn(Elems(one)) = NamesIn(Elems(u)) \cup NamesIn(Elems(t))
        BY <4>1 DEF NamesIn
      <4> QED
        BY <3>6, <4>1, <4>2
    <3>8. ASSUME WellPacked(c), NEW i \in P
          PROVE  NamesOfMember(c, es[i], sub) = IF "dir" \in es[i].flags THEN {} ELSE {<<es[i].name>>}
      <4>1. i \in DOMAIN es /\ es[i].block \in c.oversized \cup c.tight
        BY <3>1
      <4> QED
        BY <1>1, <1>2, <3>8, <4>1, WellPacked7z
    <3>9. P \subseteq DOMAIN es
      BY <3>1
    <3>10. WellPacked(c) => NamesIn(Elems(t)) = of(P)
      <4> SUFFICES ASSUME WellPacked(c) PROVE NamesIn(Elems(t)) = of(P)
        OBVIOUS
      <4>1. of(P) = UNION {IF "dir" \in es[i].flags THEN {} ELSE {<<es[i].name>>} : i \in P}
        BY <3>8
      <4>2. UNION {IF "dir" \in es[i].flags THEN {} ELSE {<<es[i].name>>} : i \in P} =
              {<<es[i].name>> : i \in {j \in DOMAIN es : j \in P /\ "dir" \notin es[j].flags}}
        BY <3>9
      <4> QED
        BY <3>5, <4>1, <4>2
    <3> QED
      BY <3>1, <3>7, <3>10
  <2> QED
    BY <2>1, <2>2
<1> DEFINE F == [b \in 1..c.blocks |-> BlockAt(c, b, depth, sub, external)]
<1>8. PICK two : two = FlattenSeq(F)
  OBVIOUS
<1>9. /\ two \in Seq(S)
      /\ ~external /\ WellPacked(c) =>
           NamesIn(Elems(two)) = UNION {of(at({b})) : b \in (1..c.blocks) \ c.oversized}
  <2>1. \A b \in 1..c.blocks :
          /\ BlockAt(c, b, depth, sub, external) \in Seq(S)
          /\ ~external /\ WellPacked(c) =>
               NamesIn(Elems(BlockAt(c, b, depth, sub, external))) = NamesOfBlock(c, b, sub)
    <3> SUFFICES ASSUME NEW b \in 1..c.blocks
                 PROVE  /\ BlockAt(c, b, depth, sub, external) \in Seq(S)
                        /\ ~external /\ WellPacked(c) =>
                             NamesIn(Elems(BlockAt(c, b, depth, sub, external))) = NamesOfBlock(c, b, sub)
      OBVIOUS
    <3>1. "foreign" \in T \/ WellPacked(Contents[a])
      OBVIOUS
    <3> HIDE DEF F, of, at
    <3> QED
      BY <1>1, <1>5, <3>1, BlockStreams
  <2>2. \A b : at({b}) = {j \in DOMAIN es : es[j].block = b}
    OBVIOUS
  <2>3. \A b \in 1..c.blocks :
          /\ F[b] \in Seq(S)
          /\ ~external /\ WellPacked(c) =>
               NamesIn(Elems(F[b])) = IF b \in c.oversized THEN {} ELSE of(at({b}))
    <3> SUFFICES ASSUME NEW b \in 1..c.blocks
                 PROVE  /\ F[b] \in Seq(S)
                        /\ ~external /\ WellPacked(c) =>
                             NamesIn(Elems(F[b])) = IF b \in c.oversized THEN {} ELSE of(at({b}))
      OBVIOUS
    <3>1. F[b] = BlockAt(c, b, depth, sub, external)
      OBVIOUS
    <3>2. of(at({b})) = UNION {NamesOfMember(c, c.entries[i], sub) :
                                 i \in {j \in DOMAIN c.entries : c.entries[j].block = b}}
      BY <1>2, <2>2
    <3> HIDE DEF F, of, at
    <3> QED
      BY <2>1, <3>1, <3>2 DEF NamesOfBlock
  <2>4. PICK G : G = F
    OBVIOUS
  <2>5. G \in [1..c.blocks -> Seq(S)]
    BY <2>3, <2>4
  <2> HIDE DEF F
  <2>6. /\ FlattenSeq(G) \in Seq(S)
        /\ NamesIn(Elems(FlattenSeq(G))) = UNION {NamesIn(Elems(G[i])) : i \in 1..c.blocks}
    <3>1. PICK n \in Nat : n = c.blocks
      BY <1>4
    <3>2. G \in [1..n -> Seq(S)]
      BY <2>5, <3>1
    <3>3. /\ FlattenSeq(G) \in Seq(S)
          /\ NamesIn(Elems(FlattenSeq(G))) = UNION {NamesIn(Elems(G[i])) : i \in 1..n}
      BY <3>2, FlattenNames
    <3> QED
      BY <3>1, <3>3
  <2> HIDE DEF of, at
  <2>7. ~external /\ WellPacked(c) =>
          UNION {NamesIn(Elems(G[i])) : i \in 1..c.blocks} = UNION {of(at({b})) : b \in (1..c.blocks) \ c.oversized}
    BY <2>3, <2>4
  <2> QED
    BY <1>8, <2>4, <2>6, <2>7
<1>10. PICK three : three = EmptyAt(es, sub, external)
  OBVIOUS
<1>11. /\ three \in Seq(S)
       /\ ~external /\ WellPacked(c) => NamesIn(Elems(three)) = of(at({0}))
  <2>1. /\ three \in Seq(S)
        /\ ~external => NamesIn(Elems(three)) =
             UNION {NamesOfEntry(es[i], "7z", sub) : i \in {j \in DOMAIN es : es[j].block = 0}}
    BY <1>4, <1>5, <1>10, EmptyStreams
  <2>2. ASSUME WellPacked(c), NEW i \in at({0})
        PROVE  NamesOfMember(c, es[i], sub) = NamesOfEntry(es[i], "7z", sub)
    <3>1. i \in DOMAIN es /\ es[i].block = 0
      OBVIOUS
    <3>2. /\ c.oversized \cup c.tight \subseteq 1..c.blocks
          /\ Readable(es[i])
          /\ es[i].block \notin c.oversized \cup c.tight =>
               NamesOfMember(c, es[i], sub) = IF Readable(es[i]) THEN NamesOfEntry(es[i], "7z", sub) ELSE {}
      BY <1>1, <1>2, <2>2, <3>1, WellPacked7z
    <3>3. 0 \notin 1..c.blocks
      BY <1>4
    <3> QED
      BY <3>1, <3>2, <3>3
  <2>3. at({0}) = {j \in DOMAIN es : es[j].block = 0}
    OBVIOUS
  <2> QED
    BY <2>1, <2>2, <2>3
<1>12. PICK s : s = SevenZip(c, depth, sub, external)
  OBVIOUS
<1>13. s = one \o two \o three
  BY <1>2, <1>6, <1>8, <1>10, <1>12, SevenZipParts
<1> HIDE DEF F, of, at
<1>14. s \in Seq(S) /\ Elems(s) = Elems(one) \cup Elems(two) \cup Elems(three)
  <2>1. PICK r : r = one \o two
    OBVIOUS
  <2>2. r \in Seq(S) /\ Elems(r) = Elems(one) \cup Elems(two)
    BY <1>7, <1>9, <2>1, ElemsConcat
  <2>3. s = r \o three
    BY <1>13, <2>1
  <2>4. s \in Seq(S) /\ Elems(s) = Elems(r) \cup Elems(three)
    BY <1>11, <2>2, <2>3, ElemsConcat
  <2> QED
    BY <2>2, <2>4
<1>15. NamesIn(Elems(s)) = NamesIn(Elems(one)) \cup NamesIn(Elems(two)) \cup NamesIn(Elems(three))
  BY <1>14 DEF NamesIn
<1>16. ASSUME ~external, WellPacked(c) PROVE NamesIn(Elems(s)) = of(DOMAIN es)
  <2>1. NamesIn(Elems(s)) = of(at(c.oversized)) \cup (UNION {of(at({b})) : b \in (1..c.blocks) \ c.oversized})
                              \cup of(at({0}))
    BY <1>7, <1>9, <1>11, <1>15, <1>16
  <2>2. \A i \in DOMAIN es : es[i].block \in 0..c.blocks
    BY <1>1, <1>2, <1>16, WellPacked7z
  <2>3. \A i \in DOMAIN es : \/ i \in at(c.oversized)
                             \/ i \in at({0})
                             \/ \E b \in (1..c.blocks) \ c.oversized : i \in at({b})
    <3> SUFFICES ASSUME NEW i \in DOMAIN es, i \notin at(c.oversized), i \notin at({0})
                 PROVE  \E b \in (1..c.blocks) \ c.oversized : i \in at({b})
      OBVIOUS
    <3>1. es[i].block \in (1..c.blocks) \ c.oversized
      BY <1>4, <2>2 DEF at
    <3> QED
      BY <3>1 DEF at
  <2>4. \A blocks : at(blocks) \subseteq DOMAIN es
    BY DEF at
  <2>5. \A P \in SUBSET (DOMAIN es) : of(P) \subseteq of(DOMAIN es)
    BY DEF of
  <2>6. NamesIn(Elems(s)) \subseteq of(DOMAIN es)
    BY <2>1, <2>4, <2>5
  <2>7. ASSUME NEW i \in DOMAIN es PROVE NamesOfMember(c, es[i], sub) \subseteq NamesIn(Elems(s))
    <3>1. \A P : i \in P => NamesOfMember(c, es[i], sub) \subseteq of(P)
      BY DEF of
    <3>2. CASE i \in at(c.oversized)
      BY <2>1, <3>1, <3>2
    <3>3. CASE i \in at({0})
      BY <2>1, <3>1, <3>3
    <3>4. ASSUME NEW b \in (1..c.blocks) \ c.oversized, i \in at({b})
          PROVE  NamesOfMember(c, es[i], sub) \subseteq NamesIn(Elems(s))
      <4>1. NamesOfMember(c, es[i], sub) \subseteq of(at({b}))
        BY <3>1, <3>4
      <4>2. of(at({b})) \subseteq UNION {of(at({d})) : d \in (1..c.blocks) \ c.oversized}
        BY <3>4
      <4> QED
        BY <2>1, <4>1, <4>2
    <3> QED
      BY <2>3, <3>2, <3>3, <3>4
  <2>8. of(DOMAIN es) \subseteq NamesIn(Elems(s))
    BY <2>7 DEF of
  <2> QED
    BY <2>6, <2>8
<1> QED
  <2>1. of(DOMAIN es) = NamesOfArchive(c, sub)
    BY <1>2 DEF NamesOfArchive, of
  <2> HIDE DEF of
  <2> QED
    BY <1>1, <1>5, <1>12, <1>14, <1>16, <2>1

Torn(c) == c.kind = "single" /\ c.entries[1].read # "whole"

NamesOfFormat(c, sub) == IF c.corrupt THEN {} ELSE NamesOfArchive(c, sub)

EntryList(c, sub, external) ==
    FlattenSeq([i \in DOMAIN c.entries |-> Entry(c.entries[i], c.kind, sub, external, TRUE)])

NamesOfEntries(c, sub) == UNION {NamesOfEntry(c.entries[i], c.kind, sub) : i \in DOMAIN c.entries}

LEMMA EntryListStreams ==
    ASSUME NEW T, Allowed(T), NEW a \in ArchiveIds, NEW c, c = Contents[a],
           NEW sub \in StreamMaps(T), NEW external \in BOOLEAN
    PROVE  /\ EntryList(c, sub, external) \in Seq(BatchesWith(T))
           /\ ~external => NamesIn(Elems(EntryList(c, sub, external))) = NamesOfEntries(c, sub)
<1>1. PICK S : S = BatchesWith(T)
  OBVIOUS
<1>2. PICK n \in Nat : n = Len(c.entries) /\ DOMAIN c.entries = 1..n
  BY EntriesKnown
<1>3. PICK es : es = c.entries
  OBVIOUS
<1>4. \A i \in 1..n : IsEntry(es[i])
  BY <1>2, <1>3, EntriesKnown
<1>5. \A i \in 1..n :
        /\ Entry(es[i], c.kind, sub, external, TRUE) \in Seq(S)
        /\ ~external => NamesIn(Elems(Entry(es[i], c.kind, sub, external, TRUE))) = NamesOfEntry(es[i], c.kind, sub)
  BY <1>1, <1>4, EntryStreams
<1>6. PICK G : G = [i \in 1..n |-> Entry(es[i], c.kind, sub, external, TRUE)]
  OBVIOUS
<1>7. G \in [1..n -> Seq(S)] /\ \A i \in 1..n : G[i] = Entry(es[i], c.kind, sub, external, TRUE)
  BY <1>5, <1>6
<1>8. /\ FlattenSeq(G) \in Seq(S)
      /\ NamesIn(Elems(FlattenSeq(G))) = UNION {NamesIn(Elems(G[i])) : i \in 1..n}
  BY <1>7, FlattenNames
<1>9. ~external => UNION {NamesIn(Elems(G[i])) : i \in 1..n} =
        UNION {NamesOfEntry(es[i], c.kind, sub) : i \in 1..n}
  BY <1>5, <1>7
<1>10. EntryList(c, sub, external) = FlattenSeq(G)
  BY <1>2, <1>3, <1>6 DEF EntryList
<1>11. NamesOfEntries(c, sub) = UNION {NamesOfEntry(es[i], c.kind, sub) : i \in 1..n}
  BY <1>2, <1>3 DEF NamesOfEntries
<1> QED
  BY <1>1, <1>8, <1>9, <1>10, <1>11

\* An archive of one entry, which is shown.
LEMMA AloneStreams ==
    ASSUME NEW T, Allowed(T), NEW a \in ArchiveIds, NEW c, c = Contents[a],
           NEW sub, NEW kind, NEW external \in BOOLEAN, c.entries # <<>>
    PROVE  LET e == c.entries[1]
               s == <<MemberBatch(e, kind, external, TRUE)>>
           IN /\ s \in Seq(BatchesWith(T))
              /\ /\ ~external /\ DOMAIN c.entries = {1}
                 /\ Shown(e) /\ Readable(e) /\ "dir" \notin e.flags
                 /\ e.inner = NoArchive \/ ~Multifile(e.inner)
                 => NamesIn(Elems(s)) = NamesOfArchive(c, sub)
<1>1. PICK S : S = BatchesWith(T)
  OBVIOUS
<1>2. PICK e : e = c.entries[1]
  OBVIOUS
<1>3. IsEntry(e)
  <2>1. /\ c.entries \in Seq({c.entries[i] : i \in DOMAIN c.entries})
        /\ \A i \in DOMAIN c.entries : IsEntry(c.entries[i])
    BY EntriesKnown
  <2>2. 1 \in DOMAIN c.entries
    BY <2>1
  <2> QED
    BY <1>2, <2>1, <2>2
<1>4. PICK b : b = MemberBatch(e, kind, external, TRUE)
  OBVIOUS
<1>5. b \in S /\ (~external => b.path = <<e.name>> /\ b.path # <<>>)
  <2>1. <<e.name>> # <<>>
    OBVIOUS
  <2>2. /\ MemberBatch(e, kind, external, TRUE) \in BatchesWith(T)
        /\ ~external => MemberBatch(e, kind, external, TRUE).path = <<e.name>>
    BY <1>3, MemberBatchKnown
  <2> QED
    BY <1>1, <1>4, <2>1, <2>2
<1>6. <<b>> \in Seq(S) /\ Elems(<<b>>) = {b}
  BY <1>5, ElemsOne
<1>7. ASSUME ~external, DOMAIN c.entries = {1},
             Shown(e), Readable(e), "dir" \notin e.flags, e.inner = NoArchive \/ ~Multifile(e.inner)
      PROVE  NamesIn(Elems(<<b>>)) = NamesOfArchive(c, sub)
  <2>1. NamesIn(Elems(<<b>>)) = {<<e.name>>}
    BY <1>5, <1>6, <1>7, NamesOfOne
  <2>2. e.flags \cap {"dir", "unreadable"} = {}
    BY <1>7 DEF Readable
  <2>3. NamesOfMember(c, e, sub) = {<<e.name>>}
    BY <1>7, <2>2 DEF NamesOfMember, Opened
  <2>4. NamesOfArchive(c, sub) = NamesOfMember(c, e, sub)
    BY <1>2, <1>7 DEF NamesOfArchive
  <2> QED
    BY <2>1, <2>3, <2>4
<1> QED
  BY <1>1, <1>2, <1>4, <1>6, <1>7

FormatNames(c, depth, sub, external) ==
    ~external /\ WellPacked(c) /\ ~Torn(c) =>
      NamesIn(Elems(Format(c, depth, sub, external))) = NamesOfFormat(c, sub)

LEMMA FormatStreams ==
    ASSUME NEW T, Allowed(T), NEW a \in ArchiveIds, NEW c, c = Contents[a],
           "foreign" \in T \/ WellPacked(c),
           NEW sub \in StreamMaps(T), NEW depth \in Nat, NEW external \in BOOLEAN
    PROVE  /\ Format(c, depth, sub, external) \in Seq(BatchesWith(T))
           /\ FormatNames(c, depth, sub, external)
<1>1. PICK s : s = Format(c, depth, sub, external)
  OBVIOUS
<1>2. c.kind \in {"zip", "tar", "7z", "single", "iwork"} /\ (c.kind = "single" => c.entries # <<>>)
  BY ContentsAssumption
<1>3. <<>> \in Seq(BatchesWith(T)) /\ NamesIn(Elems(<<>>)) = {}
  BY DEF NamesIn, Elems
<1> DEFINE Goal == /\ s \in Seq(BatchesWith(T))
                   /\ ~external /\ WellPacked(c) /\ ~Torn(c) => NamesIn(Elems(s)) = NamesOfFormat(c, sub)
<1>4. ASSUME c.corrupt PROVE Goal
  <2>1. s = <<>> /\ NamesOfFormat(c, sub) = {}
    BY <1>1, <1>4 DEF Format, NamesOfFormat
  <2> QED
    BY <1>3, <2>1
<1>5. ASSUME ~c.corrupt, c.kind \in {"zip", "tar"} PROVE Goal
  <2>1. s = EntryList(c, sub, external)
    BY <1>1, <1>5 DEF Format, EntryList
  <2>2. /\ s \in Seq(BatchesWith(T))
        /\ ~external => NamesIn(Elems(s)) = NamesOfEntries(c, sub)
    BY <2>1, EntryListStreams
  <2>3. WellPacked(c) => c.oversized = {} /\ c.tight = {}
    BY <1>5 DEF WellPacked
  <2>4. ASSUME WellPacked(c), NEW i \in DOMAIN c.entries
        PROVE  NamesOfMember(c, c.entries[i], sub) = NamesOfEntry(c.entries[i], c.kind, sub)
    <3>1. PICK e : e = c.entries[i]
      OBVIOUS
    <3>2. e.block \notin c.oversized \cup c.tight /\ c.kind # "7z"
      BY <1>5, <2>3, <2>4
    <3>3. NamesOfMember(c, e, sub) = NamesOfEntry(e, c.kind, sub)
      BY <3>2 DEF NamesOfMember, NamesOfEntry
    <3> QED
      BY <3>1, <3>3
  <2>5. WellPacked(c) => NamesOfArchive(c, sub) = NamesOfEntries(c, sub)
    BY <2>4 DEF NamesOfArchive, NamesOfEntries
  <2> QED
    BY <1>5, <2>2, <2>5 DEF NamesOfFormat
<1>6. ASSUME ~c.corrupt, c.kind = "7z" PROVE Goal
  <2>1. s = SevenZip(c, depth, sub, external)
    BY <1>1, <1>6 DEF Format
  <2>2. /\ s \in Seq(BatchesWith(T))
        /\ ~external /\ WellPacked(c) => NamesIn(Elems(s)) = NamesOfArchive(c, sub)
    BY <1>6, <2>1, SevenZipStreams
  <2> QED
    BY <1>6, <2>2 DEF NamesOfFormat
<1>7. ASSUME ~c.corrupt, c.kind = "single" PROVE Goal
  <2>1. s = IF Torn(c) THEN <<>> ELSE <<MemberBatch(c.entries[1], "single", external, TRUE)>>
    BY <1>1, <1>7 DEF Format, Single, Torn
  <2>2. WellPacked(c) =>
          /\ DOMAIN c.entries = {1}
          /\ Shown(c.entries[1]) /\ Readable(c.entries[1]) /\ "dir" \notin c.entries[1].flags
          /\ c.entries[1].inner = NoArchive \/ ~Multifile(c.entries[1].inner)
    BY <1>7 DEF WellPacked, Readable
  <2>3. CASE Torn(c)
    BY <1>3, <2>1, <2>3
  <2>4. CASE ~Torn(c)
    <3>1. /\ s \in Seq(BatchesWith(T))
          /\ /\ ~external /\ DOMAIN c.entries = {1}
             /\ Shown(c.entries[1]) /\ Readable(c.entries[1]) /\ "dir" \notin c.entries[1].flags
             /\ c.entries[1].inner = NoArchive \/ ~Multifile(c.entries[1].inner)
             => NamesIn(Elems(s)) = NamesOfArchive(c, sub)
      BY <1>2, <1>7, <2>1, <2>4, AloneStreams
    <3> QED
      BY <1>7, <2>2, <3>1 DEF NamesOfFormat
  <2> QED
    BY <2>3, <2>4
<1>8. ASSUME ~c.corrupt, c.kind = "iwork" PROVE Goal
  <2>1. s = IF c.entries = <<>> \/ c.entries[1].read # "whole" THEN <<>>
            ELSE <<MemberBatch(c.entries[1], "iwork", external, TRUE)>>
    BY <1>1, <1>8 DEF Format, Preview
  <2>2. CASE c.entries = <<>>
    <3>1. s = <<>> /\ NamesOfArchive(c, sub) = {}
      BY <2>1, <2>2 DEF NamesOfArchive
    <3> QED
      BY <1>3, <1>8, <3>1 DEF NamesOfFormat
  <2>3. CASE c.entries # <<>>
    <3>0. 1 \in DOMAIN c.entries
      <4>1. PICK E : E = {c.entries[i] : i \in DOMAIN c.entries}
        OBVIOUS
      <4>2. c.entries \in Seq(E)
        BY <4>1, EntriesKnown
      <4> QED
        BY <2>3, <4>2
    <3>1. WellPacked(c) =>
            /\ DOMAIN c.entries = {1} /\ c.entries[1].read = "whole"
            /\ Shown(c.entries[1]) /\ Readable(c.entries[1]) /\ "dir" \notin c.entries[1].flags
            /\ c.entries[1].inner = NoArchive \/ ~Multifile(c.entries[1].inner)
      BY <1>8, <3>0 DEF WellPacked, Readable
    <3>2. CASE c.entries[1].read # "whole"
      BY <1>3, <2>1, <3>1, <3>2
    <3>3. CASE c.entries[1].read = "whole"
      <4>1. /\ s \in Seq(BatchesWith(T))
            /\ /\ ~external /\ DOMAIN c.entries = {1}
               /\ Shown(c.entries[1]) /\ Readable(c.entries[1]) /\ "dir" \notin c.entries[1].flags
               /\ c.entries[1].inner = NoArchive \/ ~Multifile(c.entries[1].inner)
               => NamesIn(Elems(s)) = NamesOfArchive(c, sub)
        BY <2>1, <2>3, <3>3, AloneStreams
      <4> QED
        BY <1>8, <3>1, <4>1 DEF NamesOfFormat
    <3> QED
      BY <3>2, <3>3
  <2> QED
    BY <2>2, <2>3
<1>9. Goal
  BY <1>2, <1>4, <1>5, <1>6, <1>7, <1>8
<1> QED
  BY <1>1, <1>9 DEF FormatNames

NoStreams == [a \in ArchiveIds |-> <<>>]

\* The streams of all archives with d levels of nesting left, from those with
\* one level less.
NextStreams(v, d, external) == [a \in ArchiveIds |-> Format(Contents[a], d, v, external)]

StreamsBelow(f, d) == IF d = 0 THEN NoStreams ELSE f[d - 1]

IsStreamed(f, external) ==
    f = [d \in 0..max_depth |-> NextStreams(StreamsBelow(f, d), d, external)]

LEMMA NextStreamsTyped ==
    ASSUME NEW T, Allowed(T), "foreign" \in T \/ \A a \in ArchiveIds : WellPacked(Contents[a]),
           NEW v \in StreamMaps(T), NEW d \in Nat, NEW external \in BOOLEAN
    PROVE  NextStreams(v, d, external) \in StreamMaps(T)
<1>1. ASSUME NEW a \in ArchiveIds PROVE Format(Contents[a], d, v, external) \in Seq(BatchesWith(T))
  <2>1. PICK c : c = Contents[a]
    OBVIOUS
  <2>2. "foreign" \in T \/ WellPacked(c)
    BY <2>1
  <2> QED
    BY <2>1, <2>2, FormatStreams
<1> QED
  BY <1>1 DEF NextStreams, StreamMaps

LEMMA NoStreamsTyped ==
    ASSUME NEW T
    PROVE  NoStreams \in StreamMaps(T)
<1>1. <<>> \in Seq(BatchesWith(T))
  OBVIOUS
<1> QED
  BY <1>1 DEF NoStreams, StreamMaps

LEMMA StreamedExists ==
    ASSUME NEW external \in BOOLEAN
    PROVE  \E f : IsStreamed(f, external)
<1>1. PICK n \in Nat : n = max_depth
  BY ContentsAssumption
<1>2. PICK T : T = Texts
  OBVIOUS
<1>3. Allowed(T) /\ "foreign" \in T
  BY <1>2 DEF Allowed, Texts
<1>4. PICK V : V = StreamMaps(T)
  OBVIOUS
<1>5. PICK b : b = NextStreams(NoStreams, 0, external)
  OBVIOUS
<1>6. b \in V
  BY <1>3, <1>4, <1>5, NextStreamsTyped, NoStreamsTyped
<1>7. PICK A : A = [x \in V \X (1..n) |-> NextStreams(x[1], x[2], external)]
  OBVIOUS
<1>8. \A v \in V, d \in 1..n : NextStreams(v, d, external) \in V
  BY <1>3, <1>4, NextStreamsTyped
<1>9. A \in [V \X (1..n) -> V]
  BY <1>7, <1>8
<1>10. PICK g : RecursionOf(n, V, b, A, g)
  BY <1>6, <1>9, RecursionExists
<1>11. g \in [0..n -> V] /\ g[0] = b /\ \A i \in 1..n : g[i] = A[<<g[i - 1], i>>]
  BY <1>10 DEF RecursionOf
<1>12. ASSUME NEW d \in 0..n PROVE g[d] = NextStreams(StreamsBelow(g, d), d, external)
  <2>1. CASE d = 0
    BY <1>5, <1>11, <2>1 DEF StreamsBelow
  <2>2. CASE d # 0
    <3>1. d \in 1..n /\ d - 1 \in 0..n
      BY <2>2
    <3>2. g[d - 1] \in V /\ g[d] = A[<<g[d - 1], d>>]
      BY <1>11, <3>1
    <3>3. A[<<g[d - 1], d>>] = NextStreams(g[d - 1], d, external)
      BY <1>7, <3>1, <3>2
    <3> QED
      BY <2>2, <3>2, <3>3 DEF StreamsBelow
  <2> QED
    BY <2>1, <2>2
<1>13. g = [d \in 0..n |-> NextStreams(StreamsBelow(g, d), d, external)]
  BY <1>11, <1>12
<1> QED
  BY <1>1, <1>13 DEF IsStreamed

LEMMA StreamedSteps ==
    ASSUME NEW external \in BOOLEAN
    PROVE  IsStreamed(Streamed(external), external)
<1>1. Streamed(external) = CHOOSE f : IsStreamed(f, external)
  BY DEF Streamed, IsStreamed, NextStreams, StreamsBelow, NoStreams
<1> QED
  BY <1>1, StreamedExists

LEMMA StreamedTyped ==
    ASSUME NEW T, Allowed(T), "foreign" \in T \/ \A a \in ArchiveIds : WellPacked(Contents[a]),
           NEW external \in BOOLEAN, NEW d \in 0..max_depth
    PROVE  /\ Streamed(external)[d] = NextStreams(StreamsBelow(Streamed(external), d), d, external)
           /\ Streamed(external)[d] \in StreamMaps(T)
           /\ StreamsBelow(Streamed(external), d) \in StreamMaps(T)
<1>1. PICK f : f = Streamed(external)
  OBVIOUS
<1>2. \A i \in 0..max_depth : f[i] = NextStreams(StreamsBelow(f, i), i, external)
  BY <1>1, StreamedSteps DEF IsStreamed
<1>3. max_depth \in Nat
  BY ContentsAssumption
<1> DEFINE I == {i \in Nat : i <= max_depth => f[i] \in StreamMaps(T) /\ StreamsBelow(f, i) \in StreamMaps(T)}
<1>4. 0 \in I
  <2>1. StreamsBelow(f, 0) \in StreamMaps(T)
    BY NoStreamsTyped DEF StreamsBelow
  <2>2. f[0] = NextStreams(StreamsBelow(f, 0), 0, external)
    BY <1>2, <1>3
  <2>3. f[0] \in StreamMaps(T)
    BY <2>1, <2>2, NextStreamsTyped
  <2> QED
    BY <2>1, <2>3
<1>5. ASSUME NEW i \in Nat, i \in I PROVE i + 1 \in I
  <2> SUFFICES ASSUME i + 1 <= max_depth
               PROVE  f[i + 1] \in StreamMaps(T) /\ StreamsBelow(f, i + 1) \in StreamMaps(T)
    OBVIOUS
  <2>1. i \in 0..max_depth /\ i + 1 \in 0..max_depth /\ (i + 1) - 1 = i /\ i + 1 # 0 /\ i + 1 \in Nat
    BY <1>3
  <2>2. StreamsBelow(f, i + 1) \in StreamMaps(T)
    BY <1>5, <2>1 DEF StreamsBelow
  <2>3. f[i + 1] = NextStreams(StreamsBelow(f, i + 1), i + 1, external)
    BY <1>2, <2>1
  <2>4. f[i + 1] \in StreamMaps(T)
    BY <2>1, <2>2, <2>3, NextStreamsTyped
  <2> QED
    BY <2>2, <2>4
<1>6. d \in Nat /\ d <= max_depth
  BY <1>3
<1>7. d \in I
  <2> HIDE DEF I
  <2> QED
    BY <1>4, <1>5, <1>6, SetInduction
<1> QED
  BY <1>1, <1>2, <1>6, <1>7

\* What an external extractor's directory gives.
LEMMA UnpackedTyped ==
    ASSUME NEW T, Allowed(T), "foreign" \in T \/ \A a \in ArchiveIds : WellPacked(Contents[a]),
           NEW a \in ArchiveIds
    PROVE  Unpacked(a) \in Seq(BatchesWith(T))
<1>1. PICK c : c = Contents[a]
  OBVIOUS
<1>2. PICK S : S = BatchesWith(T)
  OBVIOUS
<1>3. PICK n \in Nat : n = Len(c.entries) /\ DOMAIN c.entries = 1..n
  BY <1>1, EntriesKnown
<1>4. \A i \in 1..n : IsEntry(c.entries[i])
  BY <1>1, <1>3, EntriesKnown
<1>5. PICK sub : sub = IF max_depth = 0 THEN [x \in ArchiveIds |-> <<>>] ELSE Streamed(TRUE)[max_depth - 1]
  OBVIOUS
<1>6. sub \in StreamMaps(T)
  <2>1. CASE max_depth = 0
    BY <1>5, <2>1, NoStreamsTyped DEF NoStreams
  <2>2. CASE max_depth # 0
    <3>1. max_depth - 1 \in 0..max_depth
      BY <2>2, ContentsAssumption
    <3>2. Streamed(TRUE)[max_depth - 1] \in StreamMaps(T)
      BY <3>1, StreamedTyped
    <3> QED
      BY <1>5, <2>2, <3>2
  <2> QED
    BY <2>1, <2>2
<1> DEFINE Archive(e) == e.inner # NoArchive /\ max_depth > 0
           File(e) ==
             IF "dir" \in e.flags \/ e.read # "whole" THEN <<>>
             ELSE IF Archive(e) /\ ~Contents[e.inner].corrupt
             THEN Nested([e EXCEPT !.flags = @ \ {"huge"}], sub)
             ELSE (IF Archive(e) THEN <<NameBatch(e)>> ELSE <<>>)
                  \o <<MemberBatch(e, "zip", FALSE, TRUE)>>
<1>7. ASSUME NEW e, IsEntry(e) PROVE File(e) \in Seq(S)
  <2>1. <<>> \in Seq(S)
    OBVIOUS
  <2>2. ASSUME Archive(e) PROVE Nested([e EXCEPT !.flags = @ \ {"huge"}], sub) \in Seq(S)
    <3>1. PICK f : f = [e EXCEPT !.flags = e.flags \ {"huge"}]
      OBVIOUS
    <3>2. IsEntry(f) /\ f.inner = e.inner
      BY <1>7, <3>1, EntryFlags
    <3>3. f.inner \in ArchiveIds
      BY <2>2, <3>2 DEF IsEntry
    <3>4. Nested(f, sub) \in Seq(S)
      BY <1>2, <1>6, <3>2, <3>3, NestedKnown
    <3> QED
      BY <3>1, <3>4
  <2>3. NameBatch(e) \in S /\ MemberBatch(e, "zip", FALSE, TRUE) \in S
    BY <1>2, <1>7, EntryBatches, MemberBatchKnown
  <2>4. (IF Archive(e) THEN <<NameBatch(e)>> ELSE <<>>) \o <<MemberBatch(e, "zip", FALSE, TRUE)>> \in Seq(S)
    <3>1. PICK s : s = IF Archive(e) THEN <<NameBatch(e)>> ELSE <<>>
      OBVIOUS
    <3>2. PICK t : t = <<MemberBatch(e, "zip", FALSE, TRUE)>>
      OBVIOUS
    <3>3. s \in Seq(S) /\ t \in Seq(S)
      BY <2>3, <3>1, <3>2, ElemsOne
    <3>4. s \o t \in Seq(S)
      BY <3>3, ElemsConcat
    <3> QED
      BY <3>1, <3>2, <3>4
  <2> QED
    BY <2>1, <2>2, <2>4
<1>8. Unpacked(a) = FlattenSeq([i \in DOMAIN c.entries |-> File(c.entries[i])])
  BY <1>1, <1>5 DEF Unpacked
<1> HIDE DEF File
<1>9. PICK G : G = [i \in 1..n |-> File(c.entries[i])]
  OBVIOUS
<1>10. G \in [1..n -> Seq(S)]
  BY <1>4, <1>7, <1>9
<1>11. FlattenSeq(G) \in Seq(S)
  BY <1>10, FlattenNames
<1> QED
  BY <1>2, <1>3, <1>8, <1>9, <1>11

LEMMA StreamsKnown ==
    ASSUME NEW T, Allowed(T), "foreign" \in T \/ \A a \in ArchiveIds : WellPacked(Contents[a]),
           NEW a \in ArchiveIds
    PROVE  StreamOf(a) \in Seq(BatchesWith(T))
<1>1. Extraction(a) \in Seq(BatchesWith(T))
  <2>1. max_depth \in 0..max_depth
    BY ContentsAssumption
  <2>2. Streamed(FALSE)[max_depth] \in StreamMaps(T)
    BY <2>1, StreamedTyped
  <2> QED
    BY <2>2 DEF Extraction, StreamMaps
<1> QED
  BY <1>1, UnpackedTyped DEF StreamOf

-----------------------------------------------------------------------------
(* The members streamed are those to be shown.                              *)

\* What ShownMembers takes from an archive, given the names in the archives in
\* it, deep: whether those are looked into.
Here(c) == {i \in DOMAIN c.entries :
              Shown(c.entries[i]) /\ c.entries[i].flags \cap {"dir", "unreadable"} = {}}
Deeper(c, d) ==
    {i \in Here(c) : d > 0 /\ c.entries[i].inner # NoArchive /\ Multifile(c.entries[i].inner)
       /\ ~("huge" \in c.entries[i].flags /\ Contents[c.entries[i].inner].kind = "7z")
       /\ c.entries[i].block \notin c.oversized \cup c.tight}

NamesBelow(v, c, d) ==
    UNION {{<<c.entries[i].name>> \o p : p \in v[c.entries[i].inner]} : i \in Deeper(c, d)}

ShownAt(f, d) ==
    [x \in ArchiveIds |->
       IF Contents[x].corrupt THEN {}
       ELSE {<<Contents[x].entries[i].name>> : i \in Here(Contents[x])}
            \cup NamesBelow(f[d - 1], Contents[x], d)]

IsShown(f) == f = [d \in 0..max_depth |-> ShownAt(f, d)]

NameSets == [ArchiveIds -> SUBSET Paths]

\* The step depends on the level below alone.
LEMMA ShownStep ==
    ASSUME NEW d \in Nat, NEW f, NEW g, d > 0 => f[d - 1] = g[d - 1]
    PROVE  ShownAt(f, d) = ShownAt(g, d)
<1>1. CASE d > 0
  BY <1>1 DEF ShownAt
<1>2. CASE ~(d > 0)
  <2>1. \A c : Deeper(c, d) = {}
    BY <1>2 DEF Deeper
  <2>2. \A c, v : NamesBelow(v, c, d) = {}
    BY <2>1 DEF NamesBelow
  <2> QED
    BY <2>2 DEF ShownAt
<1> QED
  BY <1>1, <1>2

LEMMA ShownTyped ==
    ASSUME NEW d \in Nat, NEW f, d > 0 => f[d - 1] \in NameSets
    PROVE  ShownAt(f, d) \in NameSets
<1>1. ASSUME NEW x \in ArchiveIds, NEW i \in Here(Contents[x])
      PROVE  /\ <<Contents[x].entries[i].name>> \in Paths
             /\ i \in Deeper(Contents[x], d) => Contents[x].entries[i].inner \in ArchiveIds /\ d > 0
             /\ \A p \in Paths : <<Contents[x].entries[i].name>> \o p \in Paths
  <2>1. i \in DOMAIN Contents[x].entries
    BY <1>1 DEF Here
  <2>2. PICK e : e = Contents[x].entries[i]
    OBVIOUS
  <2>3. IsEntry(e)
    BY <2>1, <2>2, EntriesKnown
  <2>4. <<e.name>> \in Paths
    BY <2>3 DEF IsEntry, Paths
  <2>5. i \in Deeper(Contents[x], d) => e.inner \in ArchiveIds /\ d > 0
    BY <2>2, <2>3 DEF Deeper, IsEntry
  <2>6. \A p \in Paths : <<e.name>> \o p \in Paths
    BY <2>3, LongerPaths
  <2> QED
    BY <2>2, <2>4, <2>5, <2>6
<1>2. ASSUME NEW x \in ArchiveIds PROVE ShownAt(f, d)[x] \in SUBSET Paths
  <2>1. \A i \in Deeper(Contents[x], d) :
          /\ i \in Here(Contents[x])
          /\ f[d - 1][Contents[x].entries[i].inner] \in SUBSET Paths
    <3>1. \A i \in Deeper(Contents[x], d) : i \in Here(Contents[x])
      BY DEF Deeper
    <3> QED
      BY <1>1, <3>1 DEF NameSets
  <2>2. ASSUME NEW q \in NamesBelow(f[d - 1], Contents[x], d) PROVE q \in Paths
    <3>1. PICK i \in Deeper(Contents[x], d) :
            q \in {<<Contents[x].entries[i].name>> \o p : p \in f[d - 1][Contents[x].entries[i].inner]}
      BY <2>2 DEF NamesBelow
    <3>2. PICK p \in f[d - 1][Contents[x].entries[i].inner] : q = <<Contents[x].entries[i].name>> \o p
      BY <3>1
    <3> QED
      BY <1>1, <2>1, <3>2
  <2>3. {<<Contents[x].entries[i].name>> : i \in Here(Contents[x])} \subseteq Paths
    BY <1>1
  <2> QED
    BY <2>2, <2>3 DEF ShownAt
<1> QED
  BY <1>2 DEF NameSets, ShownAt

LEMMA ShownExists == \E f : IsShown(f)
<1>1. PICK n \in Nat : n = max_depth
  BY ContentsAssumption
<1>2. PICK V : V = NameSets
  OBVIOUS
<1> DEFINE at(v, d) == ShownAt([i \in {d - 1} |-> v], d)
<1>3. \A v \in V, d \in Nat : at(v, d) \in V
  <2> SUFFICES ASSUME NEW v \in V, NEW d \in Nat PROVE at(v, d) \in V
    OBVIOUS
  <2>1. PICK f : f = [i \in {d - 1} |-> v]
    OBVIOUS
  <2>2. f[d - 1] \in NameSets
    BY <1>2, <2>1
  <2> QED
    BY <1>2, <2>1, <2>2, ShownTyped
<1> HIDE DEF at
<1>4. PICK v0 \in V : TRUE
  <2>1. [x \in ArchiveIds |-> {}] \in NameSets
    BY DEF NameSets
  <2> QED
    BY <1>2, <2>1
<1>5. PICK b : b = at(v0, 0)
  OBVIOUS
<1>6. PICK A : A = [x \in V \X (1..n) |-> at(x[1], x[2])]
  OBVIOUS
<1>7. b \in V
  BY <1>3, <1>5
<1>8. A \in [V \X (1..n) -> V]
  <2>1. \A d \in 1..n : d \in Nat
    OBVIOUS
  <2> QED
    BY <1>3, <1>6, <2>1
<1>9. PICK g : RecursionOf(n, V, b, A, g)
  BY <1>7, <1>8, RecursionExists
<1>10. g \in [0..n -> V] /\ g[0] = b /\ \A i \in 1..n : g[i] = A[<<g[i - 1], i>>]
  BY <1>9 DEF RecursionOf
<1>11. ASSUME NEW d \in 0..n PROVE g[d] = ShownAt(g, d)
  <2>1. CASE d = 0
    <3>1. g[d] = ShownAt([i \in {d - 1} |-> v0], d)
      BY <1>5, <1>10, <2>1 DEF at
    <3>2. PICK f : f = [i \in {d - 1} |-> v0]
      OBVIOUS
    <3>3. d \in Nat /\ ~(d > 0)
      BY <2>1
    <3> QED
      BY <3>1, <3>2, <3>3, ShownStep
  <2>2. CASE d # 0
    <3>1. d \in 1..n /\ d - 1 \in 0..n /\ d \in Nat
      BY <2>2
    <3>2. g[d - 1] \in V /\ g[d] = A[<<g[d - 1], d>>]
      BY <1>10, <3>1
    <3>3. g[d] = at(g[d - 1], d)
      BY <1>6, <3>1, <3>2
    <3>4. PICK f : f = [i \in {d - 1} |-> g[d - 1]]
      OBVIOUS
    <3>5. f[d - 1] = g[d - 1] /\ g[d] = ShownAt(f, d)
      BY <3>3, <3>4 DEF at
    <3> QED
      BY <3>1, <3>5, ShownStep
  <2> QED
    BY <2>1, <2>2
<1>12. g = [d \in 0..n |-> ShownAt(g, d)]
  BY <1>10, <1>11
<1> QED
  BY <1>1, <1>12 DEF IsShown

LEMMA ShownSteps ==
    \E f : IsShown(f) /\ \A a : ShownMembers(a) = f[max_depth][a]
<1>1. PICK f : f = CHOOSE g : IsShown(g)
  OBVIOUS
<1>2. IsShown(f)
  BY <1>1, ShownExists
<1>3. \A a : ShownMembers(a) = f[max_depth][a]
  BY <1>1 DEF ShownMembers, IsShown, ShownAt, NamesBelow, Here, Deeper
<1> QED
  BY <1>2, <1>3

AllWellPacked == \A a \in ArchiveIds : WellPacked(Contents[a])

\* One level: the names streamed are those shown, if they are one level down.
LEMMA ShownLevel ==
    ASSUME AllWellPacked, NEW x \in ArchiveIds, NEW d \in Nat, NEW f, NEW sub \in StreamMaps({"name", "own"}),
           d = 0 => sub = NoStreams,
           d > 0 => \A y \in ArchiveIds : ~Torn(Contents[y]) => NamesIn(Elems(sub[y])) = f[d - 1][y],
           ~Torn(Contents[x])
    PROVE  NamesIn(Elems(Format(Contents[x], d, sub, FALSE))) = ShownAt(f, d)[x]
<1>1. PICK c : c = Contents[x]
  OBVIOUS
<1>2. WellPacked(c) /\ ~Torn(c)
  BY <1>1 DEF AllWellPacked
<1>3. PICK T : T = {"name", "own"}
  OBVIOUS
<1>4. NamesIn(Elems(Format(c, d, sub, FALSE))) = NamesOfFormat(c, sub)
  <2>1. Allowed(T) /\ sub \in StreamMaps(T) /\ ("foreign" \in T \/ WellPacked(c)) /\ FALSE \in BOOLEAN
    BY <1>2, <1>3 DEF Allowed, Texts
  <2>2. FormatNames(c, d, sub, FALSE)
    BY ONLY <1>1, <2>1, x \in ArchiveIds, d \in Nat, FormatStreams
  <2> QED
    BY <1>2, <2>2 DEF FormatNames
<1>5. ShownAt(f, d)[x] = IF c.corrupt THEN {}
                         ELSE {<<c.entries[i].name>> : i \in Here(c)} \cup NamesBelow(f[d - 1], c, d)
  BY <1>1 DEF ShownAt
<1>6. ASSUME NEW i \in DOMAIN c.entries, NEW e, e = c.entries[i]
      PROVE  /\ i \notin Here(c) => NamesOfMember(c, e, sub) = {}
             /\ i \in Here(c) /\ i \notin Deeper(c, d) => NamesOfMember(c, e, sub) = {<<e.name>>}
             /\ i \in Deeper(c, d) =>
                  NamesOfMember(c, e, sub) = {<<e.name>>} \cup {<<e.name>> \o p : p \in f[d - 1][e.inner]}
  <2>1. IsEntry(e)
    BY <1>1, <1>6, EntriesKnown
  <2>2. i \in Here(c) <=> Shown(e) /\ e.flags \cap {"dir", "unreadable"} = {}
    BY <1>6 DEF Here
  <2>3. i \in Deeper(c, d) <=> i \in Here(c) /\ d > 0 /\ Opened(e) /\ e.block \notin c.oversized \cup c.tight
    BY <1>6 DEF Deeper, Opened
  <2>4. CASE i \notin Here(c)
    BY <2>2, <2>3, <2>4 DEF NamesOfMember
  <2>5. CASE i \in Here(c) /\ i \notin Deeper(c, d)
    <3>1. CASE Opened(e) /\ e.block \notin c.oversized \cup c.tight
      <4>1. d = 0 /\ e.inner \in ArchiveIds
        BY <2>1, <2>3, <2>5, <3>1 DEF Opened, IsEntry
      <4>2. sub[e.inner] = <<>>
        BY <4>1 DEF NoStreams
      <4>3. Under(e, NamesIn(Elems(sub[e.inner]))) = {}
        BY <4>2 DEF Under, NamesIn, Elems
      <4> QED
        BY <2>2, <2>5, <4>3 DEF NamesOfMember
    <3>2. CASE ~(Opened(e) /\ e.block \notin c.oversized \cup c.tight)
      BY <2>2, <2>5, <3>2 DEF NamesOfMember
    <3> QED
      BY <2>5, <3>1, <3>2
  <2>6. CASE i \in Deeper(c, d)
    <3>1. d > 0 /\ e.inner \in ArchiveIds /\ Multifile(e.inner)
      BY <2>1, <2>3, <2>6 DEF Opened, IsEntry
    <3>2. ~Torn(Contents[e.inner])
      BY <3>1 DEF Multifile, Torn
    <3>3. NamesIn(Elems(sub[e.inner])) = f[d - 1][e.inner]
      BY <3>1, <3>2
    <3> QED
      BY <2>2, <2>3, <2>6, <3>3 DEF NamesOfMember, Under
  <2> QED
    BY <2>4, <2>5, <2>6
<1>7. NamesOfArchive(c, sub) = {<<c.entries[i].name>> : i \in Here(c)} \cup NamesBelow(f[d - 1], c, d)
  <2>1. Here(c) \subseteq DOMAIN c.entries /\ Deeper(c, d) \subseteq Here(c)
    BY DEF Here, Deeper
  <2> DEFINE R == {<<c.entries[i].name>> : i \in Here(c)} \cup NamesBelow(f[d - 1], c, d)
  <2>2. ASSUME NEW i \in DOMAIN c.entries PROVE NamesOfMember(c, c.entries[i], sub) \subseteq R
    <3>1. CASE i \notin Here(c)
      BY <1>6, <3>1
    <3>2. CASE i \in Here(c) /\ i \notin Deeper(c, d)
      <4>1. NamesOfMember(c, c.entries[i], sub) = {<<c.entries[i].name>>}
        BY <1>6, <3>2
      <4> QED
        BY <3>2, <4>1
    <3>3. CASE i \in Deeper(c, d)
      <4>1. NamesOfMember(c, c.entries[i], sub) =
              {<<c.entries[i].name>>} \cup {<<c.entries[i].name>> \o p : p \in f[d - 1][c.entries[i].inner]}
        BY <1>6, <3>3
      <4>2. {<<c.entries[i].name>> \o p : p \in f[d - 1][c.entries[i].inner]} \subseteq NamesBelow(f[d - 1], c, d)
        BY <3>3 DEF NamesBelow
      <4>3. <<c.entries[i].name>> \in {<<c.entries[j].name>> : j \in Here(c)}
        BY <2>1, <3>3
      <4> QED
        BY <4>1, <4>2, <4>3
    <3> QED
      BY <3>1, <3>2, <3>3
  <2>3. ASSUME NEW i \in Here(c) PROVE <<c.entries[i].name>> \in NamesOfMember(c, c.entries[i], sub)
    <3>1. i \in DOMAIN c.entries
      BY <2>1
    <3>2. CASE i \in Deeper(c, d)
      BY <1>6, <3>1, <3>2
    <3>3. CASE i \notin Deeper(c, d)
      BY <1>6, <3>1, <3>3
    <3> QED
      BY <3>2, <3>3
  <2>4. ASSUME NEW i \in Deeper(c, d)
        PROVE  {<<c.entries[i].name>> \o p : p \in f[d - 1][c.entries[i].inner]}
                 \subseteq NamesOfMember(c, c.entries[i], sub)
    BY <1>6, <2>1
  <2>5. NamesOfArchive(c, sub) \subseteq R
    BY <2>2 DEF NamesOfArchive
  <2>6. R \subseteq NamesOfArchive(c, sub)
    <3>1. {<<c.entries[i].name>> : i \in Here(c)} \subseteq NamesOfArchive(c, sub)
      BY <2>1, <2>3 DEF NamesOfArchive
    <3>2. NamesBelow(f[d - 1], c, d) \subseteq NamesOfArchive(c, sub)
      BY <2>1, <2>4 DEF NamesOfArchive, NamesBelow
    <3> QED
      BY <3>1, <3>2
  <2> QED
    BY <2>5, <2>6
<1> QED
  BY <1>1, <1>4, <1>5, <1>7 DEF NamesOfFormat

LEMMA ShownStreamed ==
    ASSUME AllWellPacked, NEW a \in ArchiveIds, ~Torn(Contents[a])
    PROVE  NamesIn(Elems(Extraction(a))) = ShownMembers(a)
<1>1. PICK f : IsShown(f) /\ \A b : ShownMembers(b) = f[max_depth][b]
  BY ShownSteps
<1>2. PICK F : F = Streamed(FALSE)
  OBVIOUS
<1>3. PICK T : T = {"name", "own"}
  OBVIOUS
<1>4. max_depth \in Nat
  BY ContentsAssumption
<1>5. ASSUME NEW d \in 0..max_depth
      PROVE  F[d] = NextStreams(StreamsBelow(F, d), d, FALSE) /\ StreamsBelow(F, d) \in StreamMaps(T)
  <2>1. Allowed(T) /\ FALSE \in BOOLEAN
    BY <1>3 DEF Allowed, Texts
  <2> QED
    BY <1>2, <2>1, StreamedTyped DEF AllWellPacked
<1>6. \A d \in 0..max_depth : f[d] = ShownAt(f, d)
  BY <1>1 DEF IsShown
<1> DEFINE Same(d) == \A y \in ArchiveIds : ~Torn(Contents[y]) => NamesIn(Elems(F[d][y])) = f[d][y]
<1>7. ASSUME NEW d \in 0..max_depth, d > 0 => Same(d - 1) PROVE Same(d)
  <2> SUFFICES ASSUME NEW y \in ArchiveIds, ~Torn(Contents[y])
               PROVE  NamesIn(Elems(F[d][y])) = f[d][y]
    OBVIOUS
  <2>1. PICK sub : sub = StreamsBelow(F, d)
    OBVIOUS
  <2>2. d \in Nat /\ sub \in StreamMaps({"name", "own"}) /\ (d = 0 => sub = NoStreams) /\ (d > 0 => sub = F[d - 1])
    <3>1. d \in Nat /\ (d > 0 => d # 0)
      BY <1>4
    <3>2. sub \in StreamMaps(T)
      BY <1>5, <2>1
    <3>3. sub \in StreamMaps({"name", "own"})
      BY <1>3, <3>2
    <3> QED
      BY <2>1, <3>1, <3>3 DEF StreamsBelow
  <2>3. d > 0 => \A z \in ArchiveIds : ~Torn(Contents[z]) => NamesIn(Elems(sub[z])) = f[d - 1][z]
    BY <1>7, <2>2
  <2>4. NamesIn(Elems(Format(Contents[y], d, sub, FALSE))) = ShownAt(f, d)[y]
    BY <2>2, <2>3, ShownLevel
  <2>5. F[d][y] = Format(Contents[y], d, sub, FALSE)
    BY <1>5, <2>1 DEF NextStreams
  <2> QED
    BY <1>6, <2>4, <2>5
<1> HIDE DEF Same
<1> DEFINE I == {d \in Nat : d <= max_depth => Same(d)}
<1>8. 0 \in I
  <2>1. 0 \in 0..max_depth
    BY <1>4
  <2> QED
    BY <1>7, <2>1
<1>9. ASSUME NEW d \in Nat, d \in I PROVE d + 1 \in I
  <2> SUFFICES ASSUME d + 1 <= max_depth PROVE Same(d + 1)
    OBVIOUS
  <2>1. d + 1 \in 0..max_depth /\ (d + 1) - 1 = d /\ Same(d)
    BY <1>4, <1>9
  <2> QED
    BY <1>7, <2>1
<1>10. max_depth \in I
  <2> HIDE DEF I
  <2> QED
    BY <1>4, <1>8, <1>9, SetInduction
<1>11. NamesIn(Elems(F[max_depth][a])) = f[max_depth][a]
  BY <1>4, <1>10 DEF Same
<1> QED
  BY <1>1, <1>2, <1>11 DEF Extraction

LEMMA StreamsAreTyped == StreamsTyped
<1>1. PICK T : T = Texts
  OBVIOUS
<1>2. Allowed(T) /\ "foreign" \in T
  BY <1>1 DEF Allowed, Texts
<1>3. \A a \in ArchiveIds : StreamOf(a) \in Seq(BatchesWith(T))
  BY <1>2, StreamsKnown
<1>4. BatchesWith(T) = MemberBatches
  BY <1>1 DEF BatchesWith, MemberBatches
<1> QED
  BY <1>3, <1>4, ArchiveScanAssumption DEF StreamsTyped

\* The names and texts the rows of a well-packed archive can have.
LEMMA WellPackedNames ==
    ASSUME AllWellPacked, NEW a \in Tops
    PROVE  /\ "foreign" \notin MemberTexts(a)
           /\ Gone \notin MemberNames(a)
           /\ a \notin External /\ ~ExtractionFails(Contents[a]) => MemberNames(a) = ShownMembers(a)
<1>1. a \in ArchiveIds /\ StreamOf(a) \in Seq(MemberBatches)
  BY StreamsAreTyped, StreamTexts, ArchiveScanAssumption
<1>2. PICK s : s = StreamOf(a)
  OBVIOUS
<1>3. \A i \in DOMAIN s : s[i].lines \in {"name", "own", "none"}
  <2>1. PICK T : T = {"name", "own"}
    OBVIOUS
  <2>2. Allowed(T)
    BY <2>1 DEF Allowed, Texts
  <2>3. s \in Seq(BatchesWith(T))
    BY <1>1, <1>2, <2>2, StreamsKnown DEF AllWellPacked
  <2>4. \A i \in DOMAIN s : s[i] \in BatchesWith(T)
    BY <2>3
  <2> QED
    BY <2>1, <2>4 DEF BatchesWith
<1>4. "foreign" \notin MemberTexts(a)
  BY <1>2, <1>3 DEF MemberTexts, Listable
<1>5. Gone \notin MemberNames(a)
  <2>1. MemberNames(a) \subseteq Seq(EntryNames)
    BY StreamsAreTyped, StreamTexts DEF Paths
  <2>2. <<"gone">> \in Seq(EntryNames) => "gone" \in EntryNames
    <3> SUFFICES ASSUME <<"gone">> \in Seq(EntryNames) PROVE "gone" \in EntryNames
      OBVIOUS
    <3>1. 1 \in DOMAIN <<"gone">> /\ <<"gone">>[1] = "gone"
      OBVIOUS
    <3> QED
      BY <3>1
  <2> QED
    BY <2>1, <2>2, ArchiveScanAssumption DEF Gone
<1>6. \A i \in DOMAIN s : s[i].lines = "none" <=> s[i].path = <<>>
  <2>1. \A i \in DOMAIN s : s[i] \in MemberBatches
    BY <1>1, <1>2
  <2> QED
    BY <2>1 DEF MemberBatches
<1>7. MemberNames(a) = NamesIn(Elems(s))
  <2>1. Listable(a) = {i \in DOMAIN s : s[i].path # <<>>}
    BY <1>2, <1>6 DEF Listable
  <2>2. MemberNames(a) = {s[i].path : i \in {j \in DOMAIN s : s[j].path # <<>>}}
    BY <1>2, <2>1 DEF MemberNames
  <2> QED
    BY <2>2 DEF NamesIn, Elems
<1>8. ASSUME a \notin External, ~ExtractionFails(Contents[a]) PROVE MemberNames(a) = ShownMembers(a)
  <2>1. s = Extraction(a)
    BY <1>2, <1>8 DEF StreamOf
  <2>2. ~Torn(Contents[a])
    BY <1>8 DEF ExtractionFails, Torn
  <2> QED
    BY <1>1, <1>7, <2>1, <2>2, ShownStreamed
<1> QED
  BY <1>4, <1>5, <1>8

LEMMA SettledNames ==
    ASSUME AllWellPacked, ArchiveTyped, Delivered
    PROVE  MembersListed
<1> SUFFICES ASSUME Settled
             PROVE  /\ proc = "ok" => /\ outer_mtime = "real"
                                      /\ Native => DOMAIN listed = ShownMembers(archive)
                                      /\ \A p \in DOMAIN listed : listed[p] # "foreign"
                    /\ Gone \notin DOMAIN listed
                    /\ ~Native /\ proc # "ok" => outer_mtime = "zero" /\ listed = <<>>
  BY DEF MembersListed
<1>1. StreamsTyped /\ archive \in Tops
  BY StreamsAreTyped DEF ArchiveTyped, StreamShape
<1>2. stage = "done" /\ requests = <<>> /\ Started
  BY DEF Settled, Started
<1>3. listed \in ListingsOf(archive)
  BY <1>2 DEF ArchiveTyped, ServerShape
<1>4. PICK D \in SUBSET MemberNames(archive) : listed \in [D -> MemberTexts(archive)]
  BY <1>3 DEF ListingsOf
<1>5. /\ "foreign" \notin MemberTexts(archive)
      /\ Gone \notin MemberNames(archive)
      /\ Native /\ ~ExtractionFails(Contents[archive]) => MemberNames(archive) = ShownMembers(archive)
  BY <1>1, WellPackedNames DEF Native
<1>6. Gone \notin DOMAIN listed /\ \A p \in DOMAIN listed : listed[p] # "foreign"
  BY <1>4, <1>5
<1>7. ASSUME proc = "ok"
      PROVE  outer_mtime = "real" /\ (Native => DOMAIN listed = ShownMembers(archive))
  BY <1>1, <1>5, <1>7, SettledListing
<1>8. ASSUME ~Native, proc # "ok" PROVE outer_mtime = "zero" /\ listed = <<>>
  BY <1>2, <1>8 DEF ArchiveTyped, CompletionShape, Completes
<1> QED
  BY <1>6, <1>7, <1>8

\* src/crates/client/src/scan.rs:674-870 with the extractor: whatever is in the
\* archives, as long as they are well packed, an archive that has its mtime
\* shows exactly its members when its extractor did not fail, and an archive
\* whose external extractor failed is left to be tried again.
THEOREM MembersAreListed ==
    ASSUME AllWellPacked
    PROVE  ArchiveSpec => []MembersListed
<1>1. ArchiveInit => ArchiveTyped /\ Delivered
  BY StreamsAreTyped, ArchiveTypedInit, DeliveredInit
<1>2. ArchiveTyped /\ Delivered /\ [ArchiveNext]_archiveVars => ArchiveTyped' /\ Delivered'
  BY StreamsAreTyped, ArchiveTypedNext, DeliveredNext
<1>3. ArchiveTyped /\ Delivered => MembersListed
  BY SettledNames
<1> QED
  BY <1>1, <1>2, <1>3, PTL DEF ArchiveSpec

\* Nothing is told or uploaded at first.
LEMMA ReasonsInit ==
    ASSUME ArchiveInit
    PROVE  ReasonsTold /\ UploadsDelegated
<1>1. sent = 0 /\ Len(channel) = 0 /\ archive \in Tops /\ uploads = {}
  BY DEF ArchiveInit
<1>2. DOMAIN StreamOf(archive) = 1..Len(StreamOf(archive)) /\ Len(StreamOf(archive)) \in Nat
  BY <1>1, StreamsAreTyped, StreamTexts
<1>3. Taken = {}
  BY <1>1, <1>2 DEF Taken
<1> QED
  BY <1>1, <1>3 DEF ReasonsTold, Reasons, UploadsDelegated

\* scan.rs:748-757 with request.rs:236: whatever a scan does and however its
\* requests fall, a member whose text could not be read is in the list of
\* errors when the scan is over, if no other member has its name.
THEOREM MemberErrorsAreShown ==
    ASSUME \A a \in Tops \ External : NamedOnce(a)
    PROVE  ArchiveSpec => []MemberErrorsShown
<1> DEFINE Inv == ArchiveTyped /\ Delivered /\ ReasonsTold /\ UploadsDelegated
<1>1. ArchiveInit => Inv
  BY StreamsAreTyped, ArchiveTypedInit, DeliveredInit, ReasonsInit
<1>2. Inv /\ [ArchiveNext]_archiveVars => Inv'
  <2> SUFFICES ASSUME Inv, [ArchiveNext]_archiveVars PROVE Inv'
    OBVIOUS
  <2>1. ArchiveTyped' /\ Delivered' /\ UploadsDelegated' /\ archive' = archive
    BY StreamsAreTyped, ArchiveTypedNext, DeliveredNext, UploadsNext
  <2>2. ReasonsTold'
    <3>1. CASE Native
      <4>1. NamedOnce(archive)
        BY <3>1 DEF ArchiveTyped, StreamShape, Native
      <4> QED
        BY <4>1, StreamsAreTyped, ReasonsNext
    <3>2. CASE ~Native
      BY <2>1, <3>2 DEF ReasonsTold, Native
    <3> QED
      BY <3>1, <3>2
  <2> QED
    BY <2>1, <2>2
<1>3. Inv => MemberErrorsShown
  <2> SUFFICES ASSUME Inv, Settled, Native, proc = "ok", NEW i \in DOMAIN StreamOf(archive),
                      StreamOf(archive)[i].skip_reason, StreamOf(archive)[i].path # <<>>
               PROVE  StreamOf(archive)[i].path \in errors
    BY DEF MemberErrorsShown, Out
  <2> QED
    BY StreamsAreTyped, SettledReasons DEF OuterPath
<1> QED
  BY <1>1, <1>2, <1>3, PTL DEF ArchiveSpec
===============================================================================
