-------------------------- MODULE WatchLoop_proofs --------------------------
(***************************************************************************)
(* Proofs about WatchLoop, for any directories, names, globs, batch limit  *)
(* and number of operations and failures.  The invariant says of every     *)
(* file who still knows of a difference between its row and the disk: the  *)
(* next scan (left), an event in the channel, an entry of the window or of *)
(* the batch, the extraction, or the event of a directory that has no      *)
(* watch yet.  An entry can outlive what it says, so the rest of the       *)
(* invariant is about stale entries: one that takes a missing file for an  *)
(* existing one, or a missing directory, is followed by another event.     *)
(*                                                                         *)
(* And about the walk of Selection, for any tree and configuration: at     *)
(* every depth at which a directory is being read the two stacks, cut off  *)
(* there, are what the control files of the directory and of those above   *)
(* it say, and what the walk has not found yet is below an entry that is   *)
(* still to be read.                                                       *)
(***************************************************************************)
EXTENDS WatchLoop, Selection, WellFoundedInduction, TLAPS

\* A row for a missing file is of no harm.
Gone(p) == index[p] = NoRow \/ p \notin SourceIncludes \ Excluded \/ p \in left

\* What the channel still holds, and whether the last it says of a path is a
\* rename or a removal.
Reported == {channel[i].path : i \in DOMAIN channel}
Later(i, q) == \E j \in DOMAIN channel : j > i /\ channel[j].path = q
Closed(q) ==
    \A i \in DOMAIN channel :
        channel[i].path = q /\ channel[i].kind \in {"create", "data"} => Later(i, q)

\* What the events say and the entries that came of them.
Heard == Reported \cup DOMAIN pending \cup DOMAIN batch

\* A directory that has no watch but an event on its way.
DirComing(d) == d \notin watched /\ DirPath(d) \in Heard

\* The file system has changed the path behind the back of the flush.
Changed(p) ==
    IF Parent(p) \in watched THEN p \in Reported /\ (disk[p] = 0 => Closed(p))
    ELSE {p} \cup Governed(p) \subseteq left \/ DirPath(Parent(p)) \in Reported

DirGone(d) == d \notin watched /\ (d \in dirs => DirPath(d) \in Reported)

-----------------------------------------------------------------------------
(* The invariant.                                                           *)

Shapes ==
    /\ TypeOK
    /\ \A i \in DOMAIN channel : channel[i].kind = "remove" => channel[i].path \in Files

WellPlaced ==
    /\ Root \in watched /\ watched \subseteq dirs \cup {Root}
    /\ \A p \in Files : disk[p] # 0 => Parent(p) \in dirs \cup {Root}

\* What the phases leave empty.
PhaseInv ==
    /\ phase \in {"wait", "drain"} =>
            DOMAIN batch = {} /\ pairs = {} /\ dirs_needing_watch = {}
    /\ phase \notin {"wait", "drain"} => DOMAIN pending = {}
    /\ phase # "entries" => to_index = {} /\ extracting = Idle
    /\ phase = "entries" => pairs = {} /\ dirs_needing_watch = {}

\* Accounted, with the condition under which the event of a directory counts; a
\* control file counts as long as its own event is to come, and not for being
\* indexed itself.
Acc(p) ==
    \/ Agrees(p) \/ p \in left
    \/ p \in Coming \/ <<Parent(p), Ctl>> \in Heard \/ <<Root, Ctl>> \in Heard
    \/ DirComing(Parent(p))
AllAcc == \A p \in Files : Acc(p)

\* Entries and events of a missing directory are followed by another event, and
\* a directory that an entry calls deleted has no watch.
DirEvents == \A d \in Dirs :
    /\ d \notin dirs => Closed(DirPath(d))
    /\ d \notin dirs /\ DirPath(d) \in Upserted(pending) \cup Upserted(batch) =>
            DirPath(d) \in Reported
    /\ DirPath(d) \in Deleted(pending) => DirGone(d)

\* Entries and events of a missing file.
GoneInv == \A p \in Files : disk[p] = 0 =>
    /\ p \in Upserted(pending) \cup Upserted(batch) =>
            Gone(p) \/ p \in Reported \/ DirComing(Parent(p))
    /\ Closed(p) \/ Gone(p) \/ DirComing(Parent(p))

\* At most one pair of directories; the old one is gone.
DirPairInv == phase = "dirs" =>
    /\ \A x \in pairs :
        /\ \E d \in Dirs : x[2] = DirPath(d)
        /\ x[1] \in Paths /\ Parent(x[1]) = Root /\ x[1] # x[2]
        /\ x[1] \in Files \/ DirGone(x[1][2])
        /\ \A y \in pairs : x = y
    /\ pairs # {} => dirs_needing_watch = {}

\* The old path of a pair is missing and the new one is there, or this is known.
FilePairInv == phase = "files" =>
    \A x \in pairs :
        /\ x \in Paths \X Files /\ x[1] # x[2]
        /\ Parent(x[1]) = Parent(x[2]) /\ Parent(x[1]) \notin dirs_needing_watch
        /\ x[1] \in Files /\ disk[x[1]] # 0 => Changed(x[1])
        /\ disk[x[2]] = 0 => Changed(x[2])

\* What was extracted is what is on disk, or this is known.
ExtractInv == extracting # Idle =>
    extracting.lines \in {0, disk[extracting.path]} \/ Changed(extracting.path)

\* A renamed directory without a watch is as its request left it, and the batch
\* has nothing in it.
NeedInv ==
    /\ \A p \in Files :
        Parent(p) \in dirs_needing_watch /\ Parent(p) \in dirs /\ Parent(p) \notin watched =>
            /\ disk[p] = 0 => Gone(p)
            /\ Agrees(p) \/ p \in left \/ <<Root, Ctl>> \in Reported
    /\ \A p \in DOMAIN batch : Parent(p) \notin dirs_needing_watch

IInv ==
    /\ Shapes /\ WellPlaced /\ PhaseInv
    /\ AllAcc /\ DirEvents /\ GoneInv
    /\ DirPairInv /\ FilePairInv /\ ExtractInv /\ NeedInv

-----------------------------------------------------------------------------
(* Paths.                                                                   *)

LEMMA FilePaths ==
  /\ \A p \in Files : /\ Parent(p) \in Places /\ p[2] \in Names
                      /\ p = <<Parent(p), p[2]>> /\ p \in Paths
                      /\ \A d \in Dirs : p # DirPath(d)
  /\ \A d \in Places, n \in Names : <<d, n>> \in Files /\ Parent(<<d, n>>) = d /\ <<d, n>>[2] = n
BY WatchAssumption DEF Files, Paths, Places, Parent, DirPath

LEMMA DirPaths ==
  /\ \A d \in Dirs : /\ d \in Places /\ d # Root
                     /\ DirPath(d) \in Paths /\ DirPath(d) \notin Files
                     /\ Parent(DirPath(d)) = Root /\ DirPath(d)[2] = d
  /\ \A d, e \in Dirs : DirPath(d) = DirPath(e) => d = e
  /\ \A p \in Paths : p \in Files \/ (p[2] \in Dirs /\ p = DirPath(p[2]))
  /\ \A d \in Places : DirPath(d) \in Paths => d \in Dirs
BY WatchAssumption DEF Files, Paths, Places, Parent, DirPath

LEMMA Below ==
  /\ \A d \in Places : FilesIn(d) = {p \in Files : Parent(p) = d}
  /\ \A p \in Paths : Governed(p) \subseteq Files
  /\ \A p \in Files : Governed(p) = {q \in Files : p[2] = Ctl /\ Parent(p) \in {Root, Parent(q)}}
<1>1. ASSUME NEW d \in Places
      PROVE  FilesIn(d) = {p \in Files : Parent(p) = d}
  BY FilePaths DEF FilesIn, Files, Parent
<1>2. ASSUME NEW p \in Files
      PROVE  Governed(p) = {q \in Files : p[2] = Ctl /\ Parent(p) \in {Root, Parent(q)}}
  BY <1>1, FilePaths DEF Governed
<1>3. ASSUME NEW d \in Dirs
      PROVE  Governed(DirPath(d)) = {}
  BY DirPaths, WatchAssumption DEF Governed
<1> QED
  BY <1>1, <1>2, <1>3, DirPaths

\* The control files that decide about a file.
LEMMA Controls ==
  ASSUME NEW p \in Files
  PROVE  /\ <<Root, Ctl>> \in Files /\ p \in Governed(<<Root, Ctl>>)
         /\ <<Parent(p), Ctl>> \in Files /\ p \in Governed(<<Parent(p), Ctl>>)
         /\ Parent(<<Parent(p), Ctl>>) = Parent(p) /\ Parent(<<Root, Ctl>>) = Root
BY FilePaths, Below, WatchAssumption DEF Places

-----------------------------------------------------------------------------
(* What the file system may do, as far as the invariant is concerned.       *)

\* The channel gets the events of E whose place is watched, and no other.
Grows(E) ==
    /\ channel' \in Seq(Events) /\ Len(channel') >= Len(channel)
    /\ \A i \in 1..Len(channel) : channel'[i] = channel[i]
    /\ \A i \in 1..Len(channel') : i > Len(channel) => channel'[i] \in E
    /\ \A e \in E : Parent(e.path) \in watched =>
            \E i \in 1..Len(channel') : i > Len(channel) /\ channel'[i] = e

\* A path is reported anew.
News(q) == \E i \in 1..Len(channel') : i > Len(channel) /\ channel'[i].path = q

\* A change of a file is reported, or left to a scan with what it governs, or is
\* that of a directory that comes or goes.
Noticed(p) ==
    \/ Parent(p) \in watched' /\ News(p)
    \/ Parent(p) \notin watched' /\ {p} \cup Governed(p) \subseteq left'
    \/ /\ Parent(p) \in Dirs \ watched' /\ News(DirPath(Parent(p)))
       /\ Parent(p) \notin dirs \/ Parent(p) \notin dirs'

FsEffect ==
    /\ disk' \in [Files -> Version] /\ dirs' \subseteq Dirs /\ ops' \in 0..MaxOps
    /\ \A p \in Files : disk'[p] # 0 => Parent(p) \in dirs' \cup {Root}
    /\ Root \in watched' /\ watched' \subseteq watched \cap (dirs' \cup {Root})
    /\ watched \ watched' \subseteq dirs \ dirs'
    /\ left \subseteq left' /\ left' \subseteq Files
    /\ channel' \in Seq(Events) /\ Len(channel') >= Len(channel)
    /\ \A i \in 1..Len(channel) : channel'[i] = channel[i]
    /\ \A i \in 1..Len(channel') : i > Len(channel) =>
            /\ channel'[i].kind = "remove" => channel'[i].path \in Files
            /\ (channel[i].kind \in {"create", "data"} => Exists(channel[i].path))'
    /\ \A p \in Files : disk'[p] # disk[p] => Noticed(p)
    /\ \A d \in Dirs : (d \in dirs) # (d \in dirs') => News(DirPath(d))
    /\ \A d \in (dirs' \ dirs) \cap dirs_needing_watch : FilesIn(d) \subseteq left'

LEMMA SeenEvent ==
  ASSUME NEW c \in Seq(Events), NEW e \in Events
  PROVE  /\ Seen(c, e) \in Seq(Events) /\ Len(Seen(c, e)) >= Len(c)
         /\ \A i \in 1..Len(c) : Seen(c, e)[i] = c[i]
         /\ \A i \in 1..Len(Seen(c, e)) : i > Len(c) => Seen(c, e)[i] = e
         /\ Parent(e.path) \in watched =>
                \E i \in 1..Len(Seen(c, e)) : i > Len(c) /\ Seen(c, e)[i] = e
<1>1. CASE Parent(e.path) \in watched
  <2>1. Len(Append(c, e)) = Len(c) + 1 /\ Append(c, e)[Len(c) + 1] = e
    OBVIOUS
  <2> QED
    BY <1>1, <2>1 DEF Seen
<1>2. CASE Parent(e.path) \notin watched
  BY <1>2 DEF Seen
<1> QED
  BY <1>1, <1>2

LEMMA ReportGrows ==
  ASSUME channel \in Seq(Events), NEW e \in Events, Report(e)
  PROVE  Grows({e})
<1> DEFINE c == Seen(channel, e)
<1>1. /\ c \in Seq(Events) /\ Len(c) >= Len(channel)
      /\ \A i \in 1..Len(channel) : c[i] = channel[i]
      /\ \A i \in 1..Len(c) : i > Len(channel) => c[i] = e
      /\ Parent(e.path) \in watched =>
            \E i \in 1..Len(c) : i > Len(channel) /\ c[i] = e
  BY SeenEvent
<1>2. channel' = c
  BY DEF Report
<1> HIDE DEF c
<1> QED
  BY <1>1, <1>2 DEF Grows

LEMMA ReportBothGrows ==
  ASSUME channel \in Seq(Events), NEW e \in Events, NEW f \in Events, ReportBoth(e, f)
  PROVE  Grows({e, f})
<1> DEFINE c == Seen(channel, e)
<1>1. /\ c \in Seq(Events) /\ Len(c) >= Len(channel)
      /\ \A i \in 1..Len(channel) : c[i] = channel[i]
      /\ \A i \in 1..Len(c) : i > Len(channel) => c[i] = e
      /\ Parent(e.path) \in watched =>
            \E i \in 1..Len(c) : i > Len(channel) /\ c[i] = e
  BY SeenEvent
<1> HIDE DEF c
<1>2. /\ channel' = Seen(c, f)
      /\ Seen(c, f) \in Seq(Events) /\ Len(Seen(c, f)) >= Len(c)
      /\ \A i \in 1..Len(c) : Seen(c, f)[i] = c[i]
      /\ \A i \in 1..Len(Seen(c, f)) : i > Len(c) => Seen(c, f)[i] = f
      /\ Parent(f.path) \in watched =>
            \E i \in 1..Len(Seen(c, f)) : i > Len(c) /\ Seen(c, f)[i] = f
  BY <1>1, SeenEvent DEF ReportBoth, c
<1>3. Len(channel) \in Nat /\ Len(c) \in Nat /\ Len(channel') \in Nat
  BY <1>1, <1>2
<1> DEFINE old == Len(channel)
           mid == Len(c)
           new == Len(channel')
<1>4. \A i \in 1..old : channel'[i] = channel[i]
  BY <1>1, <1>2, <1>3
<1>5. \A i \in 1..new : i > old => channel'[i] \in {e, f}
  BY <1>1, <1>2, <1>3
<1>6. ASSUME Parent(e.path) \in watched
      PROVE  \E i \in 1..new : i > old /\ channel'[i] = e
  BY <1>1, <1>2, <1>3, <1>6
<1>7. ASSUME Parent(f.path) \in watched
      PROVE  \E i \in 1..new : i > old /\ channel'[i] = f
  <2>1. PICK i \in 1..new : i > mid /\ channel'[i] = f
    BY <1>2, <1>7
  <2> QED
    BY <1>1, <1>3, <2>1
<1> QED
  BY <1>1, <1>2, <1>4, <1>5, <1>6, <1>7 DEF Grows

LEMMA GrowsNews ==
  ASSUME NEW E, Grows(E), NEW e \in E, Parent(e.path) \in watched
  PROVE  News(e.path)
BY DEF Grows, News

LEMMA UnseenLeft ==
  ASSUME left \subseteq Files, NEW S \in SUBSET Files, Unseen(S)
  PROVE  /\ left \subseteq left' /\ left' \subseteq Files
         /\ \A p \in S : Parent(p) \notin watched => {p} \cup Governed(p) \subseteq left'
<1>1. \A p \in S : {p} \cup Governed(p) \subseteq Files
  BY Below, FilePaths
<1> QED
  BY <1>1 DEF Unseen

\* What Write, Unlink and Move have in common: the files of S are touched.
LEMMA FileEffect ==
  ASSUME Shapes, WellPlaced, FsStep, NEW S \in SUBSET Files, NEW E, Grows(E),
         \A e \in E : e.path \in S /\ (e.kind \in {"create", "data"} => disk'[e.path] # 0),
         \A p \in S : \E e \in E : e.path = p,
         Unseen(S),
         disk' \in [Files -> Version],
         \A p \in Files : disk'[p] # 0 => Parent(p) \in dirs \cup {Root},
         \A p \in Files \ S : disk'[p] = disk[p],
         dirs' = dirs, watched' = watched
  PROVE  FsEffect
<1>1. /\ left \subseteq left' /\ left' \subseteq Files
      /\ \A p \in S : Parent(p) \notin watched => {p} \cup Governed(p) \subseteq left'
  BY UnseenLeft DEF Shapes, TypeOK
<1>2. ASSUME NEW p \in Files, disk'[p] # disk[p]
      PROVE  Noticed(p)
  <2>1. PICK e \in E : e.path = p
    BY <1>2
  <2> QED
    BY <1>1, <1>2, <2>1, GrowsNews DEF Noticed
<1>3. ASSUME NEW i \in 1..Len(channel'), i > Len(channel)
      PROVE  /\ channel'[i].kind = "remove" => channel'[i].path \in Files
             /\ (channel[i].kind \in {"create", "data"} => Exists(channel[i].path))'
  <2>1. channel'[i] \in E
    BY <1>3 DEF Grows
  <2> QED
    BY <2>1 DEF Exists
<1>4. ops' \in 0..MaxOps /\ dirs' \subseteq Dirs
  BY WatchAssumption DEF FsStep, Shapes, TypeOK
<1>5. /\ Root \in watched' /\ watched' \subseteq watched \cap (dirs' \cup {Root})
      /\ watched \ watched' \subseteq dirs \ dirs'
  BY DEF WellPlaced
<1>6. /\ channel' \in Seq(Events) /\ Len(channel') >= Len(channel)
      /\ \A i \in 1..Len(channel) : channel'[i] = channel[i]
  BY DEF Grows
<1> QED
  BY <1>1, <1>2, <1>3, <1>4, <1>5, <1>6 DEF FsEffect

LEMMA WriteEffect ==
  ASSUME Shapes, WellPlaced, NEW p \in Files, Write(p)
  PROVE  FsEffect
<1>1. channel \in Seq(Events) /\ disk \in [Files -> Version] /\ p \in Paths
  BY FilePaths DEF Shapes, TypeOK
<1>2. /\ Ev("create", p) \in Events /\ Ev("data", p) \in Events
      /\ Ev("create", p).path = p /\ Ev("data", p).path = p
  BY <1>1 DEF Ev, Events
<1>3. PICK E : /\ Grows(E) /\ \A e \in E : e.path = p
               /\ \E e \in E : e.path = p
  <2>1. CASE disk[p] = 0
    BY <1>1, <1>2, <2>1, ReportBothGrows DEF Write
  <2>2. CASE disk[p] # 0
    BY <1>1, <1>2, <2>2, ReportGrows DEF Write
  <2> QED
    BY <2>1, <2>2
<1>4. ops + 2 \in Version /\ ops + 2 # 0
  BY WatchAssumption DEF Write, FsStep, Shapes, TypeOK, Version
<1>5. disk' \in [Files -> Version] /\ disk'[p] # 0
  BY <1>1, <1>4 DEF Write
<1>6. /\ FsStep /\ Unseen({p}) /\ dirs' = dirs /\ watched' = watched
      /\ Parent(p) \in dirs \cup {Root}
      /\ \A q \in Files \ {p} : disk'[q] = disk[q]
  BY <1>1 DEF Write
<1>7. \A q \in Files : disk'[q] # 0 => Parent(q) \in dirs \cup {Root}
  BY <1>6 DEF WellPlaced
<1> QED
  BY <1>3, <1>5, <1>6, <1>7, FileEffect

LEMMA RemoveEffect ==
  ASSUME Shapes, WellPlaced, NEW p \in Files, Unlink(p)
  PROVE  FsEffect
<1>1. channel \in Seq(Events) /\ disk \in [Files -> Version] /\ p \in Paths
  BY FilePaths DEF Shapes, TypeOK
<1>2. /\ Ev("remove", p) \in Events /\ Ev("remove", p).path = p
      /\ Ev("remove", p).kind \notin {"create", "data"}
  BY <1>1 DEF Ev, Events
<1>3. Grows({Ev("remove", p)})
  BY <1>1, <1>2, ReportGrows DEF Unlink
<1>4. /\ FsStep /\ Unseen({p}) /\ dirs' = dirs /\ watched' = watched
      /\ disk' \in [Files -> Version] /\ disk'[p] = 0
      /\ \A q \in Files \ {p} : disk'[q] = disk[q]
  BY <1>1, WatchAssumption DEF Unlink, Version
<1>5. \A q \in Files : disk'[q] # 0 => Parent(q) \in dirs \cup {Root}
  BY <1>4 DEF WellPlaced
<1> DEFINE E == {Ev("remove", p)}
<1>6. /\ \A e \in E : e.path \in {p} /\ (e.kind \in {"create", "data"} => disk'[e.path] # 0)
      /\ \A q \in {p} : \E e \in E : e.path = q
  BY <1>2
<1> HIDE DEF E
<1> QED
  BY <1>3, <1>4, <1>5, <1>6, FileEffect DEF E

LEMMA MoveEffect ==
  ASSUME Shapes, WellPlaced, NEW p \in Files, NEW q \in Files, Move(p, q)
  PROVE  FsEffect
<1>1. channel \in Seq(Events) /\ disk \in [Files -> Version] /\ p \in Paths /\ q \in Paths
  BY FilePaths DEF Shapes, TypeOK
<1> DEFINE E == {Ev("name", p), Ev("name", q)}
<1>2. /\ Ev("name", p) \in Events /\ Ev("name", p).path = p
      /\ Ev("name", q) \in Events /\ Ev("name", q).path = q
      /\ \A e \in E : e.path \in {p, q} /\ e.kind \notin {"create", "data"}
      /\ \A r \in {p, q} : \E e \in E : e.path = r
  BY <1>1 DEF Ev, Events
<1>3. Grows(E)
  BY <1>1, <1>2, ReportBothGrows DEF Move
<1> HIDE DEF E
<1>4. /\ FsStep /\ Unseen({p, q}) /\ dirs' = dirs /\ watched' = watched
      /\ disk' \in [Files -> Version]
      /\ \A r \in Files \ {p, q} : disk'[r] = disk[r]
      /\ Parent(q) \in dirs \cup {Root} /\ disk[p] # 0
  BY <1>1, WatchAssumption DEF Move, Version
<1>5. \A r \in Files : disk'[r] # 0 => Parent(r) \in dirs \cup {Root}
  BY <1>4 DEF WellPlaced
<1>6. {p, q} \in SUBSET Files
  OBVIOUS
<1> QED
  BY <1>2, <1>3, <1>4, <1>5, <1>6, FileEffect

LEMMA MakeDirEffect ==
  ASSUME Shapes, WellPlaced, dirs_needing_watch \subseteq Dirs, NEW d \in Dirs, MakeDir(d)
  PROVE  FsEffect
<1>1. channel \in Seq(Events) /\ dirs \subseteq Dirs /\ left \subseteq Files
  BY DEF Shapes, TypeOK
<1>2. /\ Ev("create", DirPath(d)) \in Events /\ Ev("create", DirPath(d)).path = DirPath(d)
      /\ Ev("create", DirPath(d)).kind = "create"
  BY DirPaths DEF Ev, Events
<1>3. Grows({Ev("create", DirPath(d))})
  BY <1>1, <1>2, ReportGrows DEF MakeDir
<1>4. dirs' = dirs \cup {d} /\ disk' = disk /\ watched' = watched
  BY DEF MakeDir
<1>5. News(DirPath(d))
  BY <1>2, <1>3, GrowsNews, DirPaths DEF WellPlaced
<1>6. ASSUME NEW i \in 1..Len(channel'), i > Len(channel)
      PROVE  /\ channel'[i].kind = "remove" => channel'[i].path \in Files
             /\ (channel[i].kind \in {"create", "data"} => Exists(channel[i].path))'
  <2>1. channel'[i] = Ev("create", DirPath(d))
    BY <1>3, <1>6 DEF Grows
  <2>2. d \in dirs' /\ DirPath(d)[2] = d /\ DirPath(d) \notin Files
    BY <1>4, DirPaths
  <2> QED
    BY <1>2, <2>1, <2>2 DEF Exists
<1>7. /\ left \subseteq left' /\ left' \subseteq Files
      /\ \A e \in (dirs' \ dirs) \cap dirs_needing_watch : FilesIn(e) \subseteq left'
  BY <1>1, <1>4, Below, DirPaths DEF MakeDir, TakesPlace
<1>8. ops' \in 0..MaxOps
  BY WatchAssumption DEF MakeDir, FsStep, Shapes, TypeOK
<1> QED
  BY <1>1, <1>3, <1>4, <1>5, <1>6, <1>7, <1>8 DEF FsEffect, Grows, Shapes, TypeOK, WellPlaced

LEMMA MoveDirEffect ==
  ASSUME Shapes, WellPlaced, dirs_needing_watch \subseteq Dirs,
         NEW d \in Dirs, NEW e \in Dirs, MoveDir(d, e)
  PROVE  FsEffect
<1>1. /\ channel \in Seq(Events) /\ dirs \subseteq Dirs /\ left \subseteq Files
      /\ disk \in [Files -> Version]
  BY DEF Shapes, TypeOK
<1> DEFINE E == {Ev("name", DirPath(d)), Ev("name", DirPath(e))}
<1>2. /\ Ev("name", DirPath(d)) \in Events /\ Ev("name", DirPath(e)) \in Events
      /\ Ev("name", DirPath(d)).path = DirPath(d) /\ Ev("name", DirPath(e)).path = DirPath(e)
      /\ \A f \in E : f.kind = "name"
  BY DirPaths DEF Ev, Events
<1>3. Grows(E)
  BY <1>1, <1>2, ReportBothGrows DEF MoveDir
<1>4. /\ dirs' = (dirs \ {d}) \cup {e} /\ d \in dirs /\ e \notin dirs /\ d # e
      /\ watched' = watched \ {d} /\ e \notin watched
  BY DirPaths DEF MoveDir, WellPlaced
<1>5. News(DirPath(d)) /\ News(DirPath(e))
  BY <1>2, <1>3, GrowsNews, DirPaths DEF WellPlaced
<1> HIDE DEF E
<1>6. /\ \A p \in Files : <<d, p[2]>> \in Files
      /\ disk' = [p \in Files |-> CASE Parent(p) = d -> 0
                                    [] Parent(p) = e -> disk[<<d, p[2]>>]
                                    [] OTHER -> disk[p]]
  BY DirPaths, FilePaths DEF MoveDir
<1>7. /\ disk' \in [Files -> Version]
      /\ \A p \in Files : Parent(p) \notin {d, e} => disk'[p] = disk[p]
      /\ \A p \in Files : Parent(p) = d => disk'[p] = 0
  BY <1>1, <1>4, <1>6, WatchAssumption DEF Version
<1>8. \A p \in Files : disk'[p] # 0 => Parent(p) \in dirs' \cup {Root}
  BY <1>4, <1>7 DEF WellPlaced
<1>9. \A p \in Files : disk'[p] # disk[p] => Noticed(p)
  BY <1>4, <1>5, <1>7 DEF Noticed
<1>10. ASSUME NEW i \in 1..Len(channel'), i > Len(channel)
       PROVE  /\ channel'[i].kind = "remove" => channel'[i].path \in Files
              /\ (channel[i].kind \in {"create", "data"} => Exists(channel[i].path))'
  BY <1>2, <1>3, <1>10 DEF Grows
<1>11. /\ left \subseteq left' /\ left' \subseteq Files
       /\ \A f \in (dirs' \ dirs) \cap dirs_needing_watch : FilesIn(f) \subseteq left'
  BY <1>1, <1>4, Below, DirPaths DEF MoveDir, TakesPlace
<1>12. ops' \in 0..MaxOps
  BY WatchAssumption DEF MoveDir, FsStep, Shapes, TypeOK
<1>13. /\ Root \in watched' /\ watched' \subseteq watched \cap (dirs' \cup {Root})
       /\ watched \ watched' \subseteq dirs \ dirs' /\ dirs' \subseteq Dirs
  BY <1>1, <1>4, DirPaths DEF WellPlaced
<1>14. \A f \in Dirs : (f \in dirs) # (f \in dirs') => News(DirPath(f))
  BY <1>4, <1>5
<1>15. /\ channel' \in Seq(Events) /\ Len(channel') >= Len(channel)
       /\ \A i \in 1..Len(channel) : channel'[i] = channel[i]
  BY <1>3 DEF Grows
<1> QED
  BY <1>7, <1>8, <1>9, <1>10, <1>11, <1>12, <1>13, <1>14, <1>15 DEF FsEffect

LEMMA FileSystemEffect ==
  ASSUME Shapes, WellPlaced, FileSystem
  PROVE  FsEffect /\ ClientIdle
<1>1. dirs_needing_watch \subseteq Dirs
  BY DEF Shapes, TypeOK
<1>2. FsEffect
  BY <1>1, WriteEffect, RemoveEffect, MoveEffect, MakeDirEffect, MoveDirEffect DEF FileSystem
<1>3. ClientIdle
  BY DEF FileSystem, Write, Unlink, Move, MakeDir, MoveDir
<1> QED
  BY <1>2, <1>3

-----------------------------------------------------------------------------
(* The file system keeps the invariant.                                     *)

LEMMA FsReports ==
  ASSUME FsEffect
  PROVE  /\ Reported \subseteq Reported'
         /\ \A q : News(q) => q \in Reported'
BY DEF FsEffect, Reported, News

LEMMA FsComing ==
  ASSUME FsEffect, ClientIdle
  PROVE  /\ Coming \subseteq Coming' /\ Heard \subseteq Heard'
         /\ \A q : News(q) => q \in Coming' /\ q \in Heard'
<1>1. Coming = Heard \cup to_index \cup IF extracting = Idle THEN {} ELSE {extracting.path}
  BY DEF Coming, Heard, Reported
<1>2. Coming' = Heard' \cup to_index \cup IF extracting = Idle THEN {} ELSE {extracting.path}
  BY DEF Coming, Heard, Reported, ClientIdle, flushVars
<1>3. Heard' = Reported' \cup DOMAIN pending \cup DOMAIN batch
  BY DEF Heard, ClientIdle, flushVars
<1> QED
  BY <1>1, <1>2, <1>3, FsReports DEF Heard

\* Nothing is created or written under a path that is missing afterwards.
LEMMA FsClosed ==
  ASSUME Shapes, FsEffect, NEW q, ~Exists(q)', Closed(q) \/ News(q)
  PROVE  Closed(q)'
<1>1. SUFFICES ASSUME NEW i \in DOMAIN channel',
                      channel'[i].path = q, channel'[i].kind \in {"create", "data"}
               PROVE  \E j \in DOMAIN channel' : j > i /\ channel'[j].path = q
  BY DEF Closed, Later
<1>2. /\ channel \in Seq(Events) /\ channel' \in Seq(Events) /\ Len(channel') >= Len(channel)
      /\ \A j \in 1..Len(channel) : channel'[j] = channel[j]
  BY DEF FsEffect, Shapes, TypeOK
<1>3. i \in 1..Len(channel)
  <2>1. i \in 1..Len(channel')
    BY <1>1, <1>2
  <2>2. ~(i > Len(channel))
    <3>1. i > Len(channel) => (channel[i].kind \in {"create", "data"} => Exists(channel[i].path))'
      BY <2>1 DEF FsEffect
    <3>2. channel'[i].path = q /\ channel'[i].kind \in {"create", "data"}
      BY <1>1
    <3> QED
      BY <3>1, <3>2
  <2> QED
    BY <1>2, <2>1, <2>2
<1>4. CASE News(q)
  BY <1>2, <1>3, <1>4 DEF News
<1>5. CASE Closed(q)
  <2>1. channel[i].path = q /\ channel[i].kind \in {"create", "data"} /\ i \in DOMAIN channel
    BY <1>1, <1>2, <1>3
  <2>2. PICK j \in DOMAIN channel : j > i /\ channel[j].path = q
    BY <1>5, <2>1 DEF Closed, Later
  <2> QED
    BY <1>2, <2>2
<1> QED
  BY <1>4, <1>5

LEMMA FsNoticed ==
  ASSUME Shapes, FsEffect, NEW p \in Files, Noticed(p)
  PROVE  Changed(p)'
<1>1. Exists(p)' = (disk'[p] # 0)
  BY DEF Exists
<1>2. CASE Parent(p) \in watched' /\ News(p)
  BY <1>1, <1>2, FsReports, FsClosed DEF Changed
<1>3. CASE Parent(p) \notin watched' /\ {p} \cup Governed(p) \subseteq left'
  <2>1. Governed(p)' = Governed(p)
    BY DEF Governed
  <2> QED
    BY <1>3, <2>1 DEF Changed
<1>4. CASE Parent(p) \in Dirs \ watched' /\ News(DirPath(Parent(p)))
  BY <1>4, FsReports DEF Changed
<1> QED
  BY <1>2, <1>3, <1>4 DEF Noticed

LEMMA FsChanged ==
  ASSUME Shapes, WellPlaced, FsEffect, NEW p \in Files, Changed(p)
  PROVE  Changed(p)'
<1>1. CASE disk'[p] # disk[p]
  BY <1>1, FsNoticed DEF FsEffect
<1>2. CASE disk'[p] = disk[p] /\ Parent(p) \in watched /\ Parent(p) \in watched'
  <2>1. Exists(p)' = (disk'[p] # 0)
    BY DEF Exists
  <2> QED
    BY <1>2, <2>1, FsReports, FsClosed DEF Changed
<1>3. CASE Parent(p) \in watched /\ Parent(p) \notin watched'
  <2>1. Parent(p) \in Dirs /\ News(DirPath(Parent(p)))
    BY <1>3 DEF FsEffect, Shapes, TypeOK
  <2> QED
    BY <1>3, <2>1, FsReports DEF Changed
<1>4. CASE Parent(p) \notin watched
  <2>1. Parent(p) \notin watched' /\ left \subseteq left' /\ Governed(p)' = Governed(p)
    BY <1>4 DEF FsEffect, Governed
  <2> QED
    BY <1>4, <2>1, FsReports DEF Changed
<1> QED
  BY <1>1, <1>2, <1>3, <1>4

\* What Agrees depends on.
LEMMA AgreesRests ==
  ASSUME NEW p \in Files, index' = index,
         \A c \in {p, <<Parent(p), Ctl>>, <<Root, Ctl>>} : disk'[c] = disk[c]
  PROVE  Agrees(p)' = Agrees(p)
BY DEF Agrees, Indexable, Included, NoIndex

\* A file is accounted for when it or a control file of it changes.
LEMMA FsUnsettled ==
  ASSUME Shapes, FsEffect, ClientIdle, NEW p \in Files, Agrees(p), ~Agrees(p)'
  PROVE  \/ p \in left' \/ p \in Coming'
         \/ <<Parent(p), Ctl>> \in Heard' \/ <<Root, Ctl>> \in Heard'
         \/ DirComing(Parent(p))' /\ (Parent(p) \notin dirs \/ Parent(p) \notin dirs')
<1>1. index' = index
  BY DEF ClientIdle
<1>2. PICK c \in {p, <<Parent(p), Ctl>>, <<Root, Ctl>>} : disk'[c] # disk[c]
  BY <1>1, AgreesRests
<1>3. /\ c \in Files /\ p \in {c} \cup Governed(c) /\ Parent(c) \in {Parent(p), Root}
  BY Controls
<1>4. Noticed(c)
  BY <1>2, <1>3 DEF FsEffect
<1>5. CASE News(c)
  BY <1>5, FsComing
<1>6. CASE {c} \cup Governed(c) \subseteq left'
  BY <1>3, <1>6
<1>7. CASE /\ Parent(c) \in Dirs \ watched' /\ News(DirPath(Parent(c)))
           /\ Parent(c) \notin dirs \/ Parent(c) \notin dirs'
  <2>1. Parent(c) = Parent(p)
    BY <1>3, <1>7, DirPaths
  <2> QED
    BY <1>7, <2>1, FsComing DEF DirComing
<1> QED
  BY <1>4, <1>5, <1>6, <1>7 DEF Noticed

LEMMA FsShapes ==
  ASSUME Shapes, WellPlaced, PhaseInv, FsEffect, ClientIdle
  PROVE  Shapes' /\ WellPlaced' /\ PhaseInv'
<1>1. PhaseInv'
  BY DEF PhaseInv, ClientIdle, flushVars
<1>2. WellPlaced'
  BY DEF WellPlaced, FsEffect
<1>3. TypeOK'
  <2>1. /\ disk' \in [Files -> Version] /\ dirs' \subseteq Dirs /\ ops' \in 0..MaxOps
        /\ watched' \subseteq Places /\ channel' \in Seq(Events) /\ left' \subseteq Files
    BY DEF FsEffect, Places
  <2> QED
    BY <2>1 DEF Shapes, TypeOK, ClientIdle, flushVars
<1>4. ASSUME NEW i \in DOMAIN channel', channel'[i].kind = "remove"
      PROVE  channel'[i].path \in Files
  <2>1. i \in 1..Len(channel') /\ Len(channel) \in Nat /\ channel \in Seq(Events)
    BY DEF FsEffect, Shapes, TypeOK
  <2>2. CASE i > Len(channel)
    BY <1>4, <2>1, <2>2 DEF FsEffect
  <2>3. CASE i \in 1..Len(channel)
    BY <1>4, <2>1, <2>3 DEF FsEffect, Shapes
  <2> QED
    BY <2>1, <2>2, <2>3
<1> QED
  BY <1>1, <1>2, <1>3, <1>4 DEF Shapes

LEMMA FsAcc ==
  ASSUME Shapes, FsEffect, ClientIdle, NEW p \in Files, Acc(p)
  PROVE  Acc(p)'
<1>1. CASE Agrees(p)
  BY <1>1, FsUnsettled DEF Acc
<1>2. CASE p \in left
  BY <1>2 DEF Acc, FsEffect
<1>3. CASE p \in Coming \/ <<Parent(p), Ctl>> \in Heard \/ <<Root, Ctl>> \in Heard
  BY <1>3, FsComing DEF Acc
<1>4. CASE DirComing(Parent(p))
  <2>1. Parent(p) \notin watched'
    BY <1>4 DEF DirComing, FsEffect
  <2> QED
    BY <1>4, <2>1, FsComing DEF Acc, DirComing
<1> QED
  BY <1>1, <1>2, <1>3, <1>4 DEF Acc

LEMMA FsDirEvents ==
  ASSUME Shapes, FsEffect, ClientIdle, DirEvents
  PROVE  DirEvents'
<1> SUFFICES ASSUME NEW d \in Dirs
             PROVE  /\ d \notin dirs' => Closed(DirPath(d))'
                    /\ d \notin dirs' /\ DirPath(d) \in Upserted(pending) \cup Upserted(batch) =>
                            DirPath(d) \in Reported'
                    /\ DirPath(d) \in Deleted(pending) => DirGone(d)'
  BY DEF DirEvents, ClientIdle, flushVars
<1>1. ASSUME d \notin dirs'
      PROVE  Closed(DirPath(d))'
  <2>1. ~Exists(DirPath(d))'
    BY <1>1, DirPaths DEF Exists
  <2>2. Closed(DirPath(d)) \/ News(DirPath(d))
    BY <1>1 DEF DirEvents, FsEffect
  <2> QED
    BY <2>1, <2>2, FsClosed
<1>2. ASSUME d \notin dirs', DirPath(d) \in Upserted(pending) \cup Upserted(batch)
      PROVE  DirPath(d) \in Reported'
  BY <1>2, FsReports DEF DirEvents, FsEffect
<1>3. ASSUME DirPath(d) \in Deleted(pending)
      PROVE  DirGone(d)'
  BY <1>3, FsReports DEF DirEvents, DirGone, FsEffect
<1> QED
  BY <1>1, <1>2, <1>3

LEMMA FsGone ==
  ASSUME Shapes, WellPlaced, FsEffect, ClientIdle, GoneInv
  PROVE  GoneInv'
<1> SUFFICES ASSUME NEW p \in Files, disk'[p] = 0
             PROVE  /\ p \in Upserted(pending) \cup Upserted(batch) =>
                            Gone(p)' \/ p \in Reported' \/ DirComing(Parent(p))'
                    /\ Closed(p)' \/ Gone(p)' \/ DirComing(Parent(p))'
  BY DEF GoneInv, ClientIdle, flushVars
<1>1. ~Exists(p)'
  BY DEF Exists
<1>2. CASE disk[p] # 0
  <2>1. Noticed(p)
    BY <1>2 DEF FsEffect
  <2>2. CASE News(p)
    BY <1>1, <2>2, FsReports, FsClosed
  <2>3. CASE p \in left'
    BY <2>3 DEF Gone
  <2>4. CASE Parent(p) \in Dirs \ watched' /\ News(DirPath(Parent(p)))
    BY <2>4, FsComing DEF DirComing
  <2> QED
    BY <2>1, <2>2, <2>3, <2>4 DEF Noticed
<1>3. CASE disk[p] = 0
  <2>1. Gone(p) => Gone(p)'
    BY DEF Gone, ClientIdle, FsEffect
  <2>2. DirComing(Parent(p)) => DirComing(Parent(p))'
    BY FsComing DEF DirComing, FsEffect
  <2>3. Closed(p) => Closed(p)'
    BY <1>1, FsClosed
  <2> QED
    BY <1>3, <2>1, <2>2, <2>3, FsReports DEF GoneInv
<1> QED
  BY <1>2, <1>3

LEMMA FsPairs ==
  ASSUME Shapes, WellPlaced, FsEffect, ClientIdle, DirPairInv, FilePairInv, ExtractInv
  PROVE  DirPairInv' /\ FilePairInv' /\ ExtractInv'
<1>1. /\ phase' = phase /\ pairs' = pairs /\ dirs_needing_watch' = dirs_needing_watch
      /\ extracting' = extracting
  BY DEF ClientIdle, flushVars
<1>2. ASSUME NEW d \in Dirs, DirGone(d)
      PROVE  DirGone(d)'
  BY <1>2, FsReports DEF DirGone, FsEffect
<1>3. DirPairInv'
  BY <1>1, <1>2, DirPaths DEF DirPairInv
<1>4. ASSUME NEW p \in Files
      PROVE  /\ Changed(p) => Changed(p)'
             /\ disk'[p] # disk[p] => Changed(p)'
  BY FsChanged, FsNoticed DEF FsEffect
<1>5. ASSUME phase = "files", NEW x \in pairs
      PROVE  /\ x[1] \in Files /\ disk'[x[1]] # 0 => Changed(x[1])'
             /\ disk'[x[2]] = 0 => Changed(x[2])'
  <2>1. x[2] \in Files
    BY <1>5 DEF FilePairInv
  <2> QED
    BY <1>4, <1>5, <2>1 DEF FilePairInv
<1>6. FilePairInv'
  BY <1>1, <1>5 DEF FilePairInv
<1>7. ExtractInv'
  <2>1. extracting # Idle => extracting.path \in Files
    BY DEF Shapes, TypeOK
  <2> QED
    BY <1>1, <1>4, <2>1 DEF ExtractInv
<1> QED
  BY <1>3, <1>6, <1>7

LEMMA FsNeed ==
  ASSUME Shapes, WellPlaced, FsEffect, ClientIdle, NeedInv
  PROVE  NeedInv'
<1>1. /\ dirs_needing_watch' = dirs_needing_watch /\ batch' = batch /\ index' = index
      /\ dirs_needing_watch \subseteq Dirs
  BY DEF ClientIdle, flushVars, Shapes, TypeOK
<1> SUFFICES ASSUME NEW p \in Files, Parent(p) \in dirs_needing_watch,
                    Parent(p) \in dirs', Parent(p) \notin watched'
             PROVE  /\ disk'[p] = 0 => Gone(p)'
                    /\ Agrees(p)' \/ p \in left' \/ <<Root, Ctl>> \in Reported'
  BY <1>1 DEF NeedInv
<1>2. CASE Parent(p) \notin dirs
  <2>1. p \in left'
    BY <1>1, <1>2, Below, FilePaths DEF FsEffect
  <2> QED
    BY <2>1 DEF Gone
<1>3. CASE Parent(p) \in dirs
  <2>1. Parent(p) \notin watched
    BY <1>3 DEF FsEffect
  <2>2. /\ disk[p] = 0 => Gone(p)
        /\ Agrees(p) \/ p \in left \/ <<Root, Ctl>> \in Reported
    BY <1>3, <2>1 DEF NeedInv
  <2>3. \A c \in Files : p \in {c} \cup Governed(c) /\ Parent(c) = Parent(p) =>
            disk'[c] = disk[c] \/ p \in left'
    BY <1>3 DEF FsEffect, Noticed
  <2>4. disk'[p] = 0 => Gone(p)'
    BY <1>1, <2>2, <2>3 DEF Gone, FsEffect
  <2>5. disk'[<<Root, Ctl>>] # disk[<<Root, Ctl>>] => <<Root, Ctl>> \in Reported'
    <3> DEFINE c == <<Root, Ctl>>
    <3>1. c \in Files /\ Parent(c) = Root
      BY Controls
    <3> HIDE DEF c
    <3>2. disk'[c] # disk[c] => News(c)
      BY <3>1, DirPaths DEF FsEffect, Noticed
    <3> QED
      BY <3>2, FsReports DEF c
  <2>6. Agrees(p)' \/ p \in left' \/ <<Root, Ctl>> \in Reported'
    <3>1. CASE Agrees(p)
      BY <1>1, <2>3, <2>5, <3>1, Controls, AgreesRests
    <3>2. CASE p \in left \/ <<Root, Ctl>> \in Reported
      BY <3>2, FsReports DEF FsEffect
    <3> QED
      BY <2>2, <3>1, <3>2
  <2> QED
    BY <2>4, <2>6
<1> QED
  BY <1>2, <1>3

LEMMA FileSystemKeeps ==
  ASSUME IInv, FileSystem
  PROVE  IInv'
<1>1. /\ Shapes /\ WellPlaced /\ PhaseInv /\ AllAcc /\ DirEvents /\ GoneInv
      /\ DirPairInv /\ FilePairInv /\ ExtractInv /\ NeedInv
  BY DEF IInv
<1>2. FsEffect /\ ClientIdle
  BY <1>1, FileSystemEffect
<1>3. AllAcc'
  BY <1>1, <1>2, FsAcc DEF AllAcc
<1> QED
  BY <1>1, <1>2, <1>3, FsShapes, FsDirEvents, FsGone, FsPairs, FsNeed DEF IInv

-----------------------------------------------------------------------------
(* The steps of the loop that change neither a row nor a watch.             *)

LEMMA Batches ==
  /\ DOMAIN None = {} /\ Upserted(None) = {} /\ Deleted(None) = {}
  /\ \A f, S : /\ DOMAIN Without(f, S) = DOMAIN f \ S
               /\ \A q \in DOMAIN f \ S : Without(f, S)[q] = f[q]
               /\ Upserted(Without(f, S)) = Upserted(f) \ S
               /\ Deleted(Without(f, S)) = Deleted(f) \ S
  /\ \A f, p, k : /\ DOMAIN Put(f, p, k) = DOMAIN f \cup {p}
                  /\ Put(f, p, k)[p] = k
                  /\ \A q \in DOMAIN f \ {p} : Put(f, p, k)[q] = f[q]
BY DEF None, Without, Put, Upserted, Deleted

LEMMA PutKinds ==
  ASSUME NEW f, DOMAIN f \subseteq Paths, f \in [DOMAIN f -> Kinds],
         NEW p \in Paths, NEW k \in Kinds
  PROVE  /\ Put(f, p, k) \in [DOMAIN Put(f, p, k) -> Kinds]
         /\ DOMAIN Put(f, p, k) \subseteq Paths
         /\ Upserted(Put(f, p, k)) \subseteq Upserted(f) \cup {p}
         /\ p \in Upserted(Put(f, p, k)) => k # "delete"
         /\ Deleted(Put(f, p, k)) \subseteq Deleted(f) \cup {p}
         /\ p \in Deleted(Put(f, p, k)) => k = "delete"
BY DEF Put, Upserted, Deleted, Kinds

LEMMA WithoutKinds ==
  ASSUME NEW f, DOMAIN f \subseteq Paths, f \in [DOMAIN f -> Kinds], NEW S
  PROVE  /\ Without(f, S) \in [DOMAIN Without(f, S) -> Kinds]
         /\ DOMAIN Without(f, S) \subseteq Paths
BY DEF Without

\* Disk, watches, channel and rows as before.
Still ==
    /\ UNCHANGED <<fsVars, watched, channel, index, left, rescans, failures>>
    /\ Coming' = Coming /\ Heard' = Heard

LEMMA StillFacts ==
  ASSUME Still
  PROVE  /\ Reported' = Reported
         /\ \A q : Closed(q)' = Closed(q)
         /\ \A p \in Files : Gone(p)' = Gone(p) /\ Agrees(p)' = Agrees(p)
                             /\ Changed(p)' = Changed(p) /\ Acc(p)' = Acc(p)
         /\ \A d : DirComing(d)' = DirComing(d)
         /\ \A d \in Dirs : DirGone(d)' = DirGone(d)
<1>1. Reported' = Reported
  BY DEF Still, Reported
<1>2. ASSUME NEW q
      PROVE  Closed(q)' = Closed(q)
  BY DEF Still, Closed, Later
<1>3. ASSUME NEW p \in Files
      PROVE  Gone(p)' = Gone(p) /\ Agrees(p)' = Agrees(p)
  BY DEF Still, fsVars, Gone, Agrees, Indexable, Included, NoIndex
<1>4. ASSUME NEW d
      PROVE  DirComing(d)' = DirComing(d)
  BY DEF Still, DirComing
<1>5. ASSUME NEW d \in Dirs
      PROVE  DirGone(d)' = DirGone(d)
  BY <1>1 DEF Still, fsVars, DirGone
<1>6. ASSUME NEW p \in Files
      PROVE  Changed(p)' = Changed(p)
  BY <1>1, <1>2 DEF Still, fsVars, Changed, Governed
<1>7. ASSUME NEW p \in Files
      PROVE  Acc(p)' = Acc(p)
  BY <1>3, <1>4 DEF Still, Acc
<1> QED
  BY <1>1, <1>2, <1>3, <1>4, <1>5, <1>6, <1>7

LEMMA ComingParts ==
  Coming = Heard \cup to_index \cup IF extracting = Idle THEN {} ELSE {extracting.path}
BY DEF Coming, Heard, Reported

LEMMA WaitKeeps ==
  ASSUME IInv, Expire \/ KeepWaiting
  PROVE  IInv'
<1>1. /\ Still /\ UNCHANGED <<pending, first_seen_creates, flushVars>>
      /\ phase \in {"wait", "drain"} /\ phase' \in {"wait", "drain"} /\ expired' \in BOOLEAN
  BY DEF Expire, KeepWaiting, Still, Coming, Heard, Reported, flushVars, IInv, Shapes, TypeOK
<1>2. Shapes' /\ WellPlaced' /\ PhaseInv'
  BY <1>1 DEF IInv, Shapes, TypeOK, WellPlaced, PhaseInv, Still, fsVars, flushVars
<1>3. AllAcc' /\ DirEvents' /\ GoneInv'
  BY <1>1, StillFacts DEF IInv, AllAcc, DirEvents, GoneInv, Still, fsVars, flushVars
<1>4. DirPairInv' /\ FilePairInv' /\ ExtractInv'
  BY <1>1 DEF IInv, DirPairInv, FilePairInv, ExtractInv, PhaseInv, flushVars
<1>5. NeedInv'
  BY <1>1 DEF IInv, NeedInv, PhaseInv, flushVars
<1> QED
  BY <1>2, <1>3, <1>4, <1>5 DEF IInv

LEMMA EndFlushKeeps ==
  ASSUME IInv, EndFlush
  PROVE  IInv'
<1>1. /\ Still /\ UNCHANGED <<pending, batch, pairs, dirs_needing_watch, to_index, extracting,
                              first_seen_creates, expired>>
      /\ phase = "entries" /\ phase' = "wait" /\ fresh_creates' = {}
      /\ DOMAIN batch = {} /\ to_index = {} /\ extracting = Idle
  BY DEF EndFlush, Still, Coming, Heard, Reported
<1>2. Shapes' /\ WellPlaced' /\ PhaseInv'
  BY <1>1 DEF IInv, Shapes, TypeOK, WellPlaced, PhaseInv, Still, fsVars
<1>3. AllAcc' /\ DirEvents' /\ GoneInv'
  BY <1>1, StillFacts DEF IInv, AllAcc, DirEvents, GoneInv, Still, fsVars
<1>4. DirPairInv' /\ FilePairInv' /\ ExtractInv'
  BY <1>1 DEF DirPairInv, FilePairInv, ExtractInv
<1>5. NeedInv'
  BY <1>1 DEF IInv, NeedInv, PhaseInv
<1> QED
  BY <1>2, <1>3, <1>4, <1>5 DEF IInv

LEMMA StartFlushKeeps ==
  ASSUME IInv, StartFlush
  PROVE  IInv'
<1>1. /\ UNCHANGED <<fsVars, watched, channel, index, left, rescans, failures>>
      /\ UNCHANGED <<dirs_needing_watch, to_index, extracting>>
      /\ batch' = pending /\ pending' = None /\ pairs' = DirPairs(pending)
      /\ fresh_creates' = first_seen_creates /\ first_seen_creates' = {}
      /\ phase = "drain" /\ phase' = "dirs" /\ expired' = FALSE
  BY DEF StartFlush
<1>2. /\ DOMAIN batch = {} /\ pairs = {} /\ dirs_needing_watch = {} /\ to_index = {}
      /\ extracting = Idle /\ DOMAIN pending \subseteq Paths
  BY <1>1 DEF IInv, PhaseInv, Shapes, TypeOK
<1>3. Reported' = Reported
  BY <1>1 DEF Reported
<1>4. Still
  <2>1. Coming' = Heard' \cup to_index' \cup IF extracting' = Idle THEN {} ELSE {extracting'.path}
    BY DEF Coming, Heard, Reported
  <2>2. DOMAIN pending' = {}
    BY <1>1, Batches
  <2>3. Heard' = Heard
    BY <1>1, <1>2, <1>3, <2>2 DEF Heard
  <2>4. Coming' = Coming
    BY <1>1, <2>1, <2>3, ComingParts
  <2> QED
    BY <1>1, <2>3, <2>4 DEF Still
<1>5. ASSUME NEW x \in DirPairs(pending)
      PROVE  /\ \E d \in Dirs : x[2] = DirPath(d)
             /\ x \in Paths \X Paths /\ Parent(x[1]) = Root /\ x[1] # x[2]
             /\ x[1] \in Files \/ DirGone(x[1][2])
             /\ \A y \in DirPairs(pending) : x = y
  <2> DEFINE us == {q \in Upserted(pending) : IsDir(q)}
  <2>1. /\ \A z \in DirPairs(pending) :
            /\ z \in Deleted(pending) \X us /\ Parent(z[1]) = Parent(z[2])
            /\ \A o \in Deleted(pending) : Parent(o) = Parent(z[2]) => o = z[1]
            /\ \A n \in us : Parent(n) = Parent(z[2]) => n = z[2]
    BY DEF DirPairs, OneToOne
  <2>2. \A n \in us : n \in DOMAIN pending /\ pending[n] # "delete" /\ IsDir(n)
    BY DEF Upserted
  <2>3. \A o \in Deleted(pending) : o \in DOMAIN pending /\ pending[o] = "delete"
    BY DEF Deleted
  <2>4. \A n \in us : n \in Paths /\ n \notin Files /\ \E d \in Dirs : n = DirPath(d)
    BY <1>2, <2>2, DirPaths DEF IsDir
  <2>5. \A n \in us : Parent(n) = Root
    BY <2>4, DirPaths
  <2> HIDE DEF us
  <2>6. x[1] \in Deleted(pending) /\ x[2] \in us /\ x = <<x[1], x[2]>>
    BY <2>1
  <2>7. Parent(x[1]) = Root
    BY <2>1, <2>5, <2>6
  <2>8. x[1] \in Paths /\ x[2] \in Paths /\ x[1] # x[2]
    BY <1>2, <2>2, <2>3, <2>4, <2>6
  <2>9. x[1] \in Files \/ DirGone(x[1][2])
    BY <2>6, <2>8, DirPaths DEF IInv, DirEvents
  <2>10. ASSUME NEW y \in DirPairs(pending)
         PROVE  x = y
    <3>1. /\ y[1] \in Deleted(pending) /\ y[2] \in us /\ y = <<y[1], y[2]>>
          /\ Parent(y[1]) = Root /\ Parent(y[2]) = Root /\ Parent(x[2]) = Root
      BY <2>1, <2>5, <2>6
    <3>2. y[1] = x[1] /\ y[2] = x[2]
      BY <2>1, <3>1
    <3> QED
      BY <2>6, <3>1, <3>2
  <2> QED
    BY <2>4, <2>6, <2>7, <2>8, <2>9, <2>10
<1>6. Shapes' /\ WellPlaced' /\ PhaseInv'
  <2>1. /\ pairs' \in SUBSET (Paths \X Paths)
        /\ DOMAIN pending' = {} /\ pending' \in [DOMAIN pending' -> Kinds]
    BY <1>1, <1>5, Batches DEF None
  <2>2. TypeOK'
    BY <1>1, <2>1 DEF IInv, Shapes, TypeOK, fsVars
  <2>3. PhaseInv'
    BY <1>1, <1>2, <2>1 DEF PhaseInv
  <2> QED
    BY <1>1, <2>2, <2>3 DEF IInv, Shapes, WellPlaced, fsVars
<1>7. AllAcc' /\ DirEvents' /\ GoneInv'
  BY <1>1, <1>4, StillFacts, Batches DEF IInv, AllAcc, DirEvents, GoneInv, fsVars
<1>8. DirPairInv'
  BY <1>1, <1>2, <1>4, <1>5, StillFacts, DirPaths DEF DirPairInv
<1>9. FilePairInv' /\ ExtractInv' /\ NeedInv'
  BY <1>1, <1>2 DEF FilePairInv, ExtractInv, NeedInv
<1> QED
  BY <1>6, <1>7, <1>8, <1>9 DEF IInv

LEMMA PairFilesKeeps ==
  ASSUME IInv, PairFiles
  PROVE  IInv'
<1>1. /\ Still
      /\ UNCHANGED <<pending, batch, dirs_needing_watch, to_index, extracting, expired,
                     first_seen_creates, fresh_creates>>
      /\ phase = "dirs" /\ phase' = "files" /\ pairs' = FilePairs(batch)
  BY DEF PairFiles, Still, Coming, Heard, Reported
<1>2. ASSUME NEW x \in FilePairs(batch)
      PROVE  /\ x \in Paths \X Files /\ x \in Paths \X Paths /\ x[1] # x[2]
             /\ Parent(x[1]) = Parent(x[2]) /\ Parent(x[1]) \notin dirs_needing_watch
             /\ x[1] \in Files => disk[x[1]] = 0
             /\ disk[x[2]] # 0
  <2> DEFINE ds == {q \in Deleted(batch) : ~Exists(q)}
             us == {q \in Upserted(batch) : IsFile(q)}
  <2>1. x \in ds \X us /\ Parent(x[1]) = Parent(x[2])
    BY DEF FilePairs, OneToOne
  <2>2. /\ \A o \in ds : o \in DOMAIN batch /\ batch[o] = "delete" /\ ~Exists(o)
        /\ \A n \in us : n \in DOMAIN batch /\ batch[n] # "delete" /\ IsFile(n)
    BY DEF Deleted, Upserted
  <2> HIDE DEF ds, us
  <2>3. x[1] \in ds /\ x[2] \in us /\ x = <<x[1], x[2]>>
    BY <2>1
  <2>4. x[1] \in DOMAIN batch /\ x[2] \in Files /\ x[1] # x[2] /\ x[1] \in Paths /\ x[2] \in Paths
    BY <2>2, <2>3, FilePaths DEF IsFile, IInv, Shapes, TypeOK
  <2>5. Parent(x[1]) \notin dirs_needing_watch
    BY <2>4 DEF IInv, NeedInv
  <2>6. disk[x[2]] # 0
    BY <2>2, <2>3, <2>4 DEF IsFile, Exists
  <2>7. x[1] \in Files => disk[x[1]] = 0
    BY <2>2, <2>3 DEF Exists
  <2> QED
    BY <2>1, <2>3, <2>4, <2>5, <2>6, <2>7
<1>3. Shapes' /\ WellPlaced' /\ PhaseInv'
  BY <1>1, <1>2 DEF IInv, Shapes, TypeOK, WellPlaced, PhaseInv, Still, fsVars
<1>4. AllAcc' /\ DirEvents' /\ GoneInv'
  BY <1>1, StillFacts DEF IInv, AllAcc, DirEvents, GoneInv, Still, fsVars
<1>5. DirPairInv' /\ FilePairInv' /\ ExtractInv'
  BY <1>1, <1>2, StillFacts DEF IInv, PhaseInv, DirPairInv, FilePairInv, ExtractInv, Still, fsVars
<1>6. NeedInv'
  BY <1>1, StillFacts DEF IInv, NeedInv, Still, fsVars
<1> QED
  BY <1>3, <1>4, <1>5, <1>6 DEF IInv

-----------------------------------------------------------------------------
(* An event enters the window.                                              *)

LEMMA NewKinds ==
  ASSUME NEW e \in Events
  PROVE  /\ NewKind(e) \in Kinds
         /\ e.kind \in {"create", "data"} => NewKind(e) # "delete"
         /\ e.kind = "name" => (NewKind(e) = "delete" <=> ~Exists(e.path))
         /\ e.kind = "remove" => NewKind(e) = "delete"
         /\ e.kind \in {"create", "data", "name", "remove"} /\ e.path \in Paths
BY DEF NewKind, Kinds, Events

LEMMA CollapseKinds ==
  ASSUME NEW old \in Kinds, NEW new \in Kinds
  PROVE  /\ Collapse(old, new) \in Kinds
         /\ Collapse(old, new) = "delete" <=> new = "delete"
BY DEF Collapse, Kinds

LEMMA FirstEvent ==
  ASSUME channel \in Seq(Events), channel # <<>>, channel' = Tail(channel)
  PROVE  /\ Head(channel) \in Events /\ channel' \in Seq(Events)
         /\ \A i \in DOMAIN channel' : i + 1 \in DOMAIN channel /\ channel'[i] = channel[i + 1]
         /\ Reported = {Head(channel).path} \cup Reported'
         /\ \A q : Closed(q) => Closed(q)'
         /\ Closed(Head(channel).path) /\ Head(channel).kind \in {"create", "data"} =>
                Head(channel).path \in Reported'
<1>1. /\ Head(channel) \in Events /\ channel' \in Seq(Events) /\ Head(channel) = channel[1]
      /\ Len(channel) \in Nat /\ Len(channel) > 0 /\ Len(channel') = Len(channel) - 1
      /\ DOMAIN channel = 1..Len(channel) /\ DOMAIN channel' = 1..Len(channel')
      /\ \A i \in 1..Len(channel') : channel'[i] = channel[i + 1]
  OBVIOUS
<1>2. \A i \in DOMAIN channel' : i + 1 \in DOMAIN channel /\ channel'[i] = channel[i + 1]
  BY <1>1
<1>3. \A j \in DOMAIN channel : j > 1 => j - 1 \in DOMAIN channel' /\ channel'[j - 1] = channel[j]
  BY <1>1
<1>4. Reported = {channel[1].path} \cup Reported'
  <2>1. Reported' \subseteq Reported /\ channel[1].path \in Reported
    BY <1>1, <1>2 DEF Reported
  <2>2. ASSUME NEW j \in DOMAIN channel
        PROVE  channel[j].path \in {channel[1].path} \cup Reported'
    <3>1. j = 1 \/ j > 1
      BY <1>1
    <3> QED
      BY <1>3, <3>1 DEF Reported
  <2> QED
    BY <2>1, <2>2 DEF Reported
<1>5. ASSUME NEW q, Closed(q)
      PROVE  Closed(q)'
  <2>1. SUFFICES ASSUME NEW i \in DOMAIN channel',
                        channel'[i].path = q, channel'[i].kind \in {"create", "data"}
                 PROVE  \E j \in DOMAIN channel' : j > i /\ channel'[j].path = q
    BY DEF Closed, Later
  <2>2. PICK j \in DOMAIN channel : j > i + 1 /\ channel[j].path = q
    BY <1>2, <1>5, <2>1 DEF Closed, Later
  <2>3. j > 1 /\ j - 1 > i
    BY <1>1, <2>1, <2>2
  <2> QED
    BY <1>3, <2>2, <2>3
<1>6. ASSUME Closed(channel[1].path), channel[1].kind \in {"create", "data"}
      PROVE  channel[1].path \in Reported'
  <2>1. PICK j \in DOMAIN channel : j > 1 /\ channel[j].path = channel[1].path
    BY <1>1, <1>6 DEF Closed, Later
  <2> QED
    BY <1>3, <2>1 DEF Reported
<1> QED
  BY <1>1, <1>2, <1>4, <1>5, <1>6

LEMMA ReceiveKeeps ==
  ASSUME IInv, Receive
  PROVE  IInv'
<1> DEFINE e == Head(channel)
           p == e.path
<1>1. /\ channel \in Seq(Events) /\ channel # <<>> /\ channel' = Tail(channel)
      /\ UNCHANGED <<fsVars, watched, expired, flushVars, index, rescans, left, failures>>
      /\ phase \in {"wait", "drain"} /\ phase' = "drain"
  BY DEF Receive, IInv, Shapes, TypeOK
<1>2. /\ e \in Events /\ channel' \in Seq(Events)
      /\ \A i \in DOMAIN channel' : i + 1 \in DOMAIN channel /\ channel'[i] = channel[i + 1]
      /\ Reported = {p} \cup Reported'
      /\ \A q : Closed(q) => Closed(q)'
      /\ Closed(p) /\ e.kind \in {"create", "data"} => p \in Reported'
  BY <1>1, FirstEvent
<1>3. e.kind = "remove" => p \in Files
  <2>1. 1 \in DOMAIN channel /\ e = channel[1]
    BY <1>1
  <2> QED
    BY <2>1 DEF IInv, Shapes
<1>4. /\ NewKind(e) \in Kinds /\ p \in Paths
      /\ NewKind(e) = "delete" => e.kind = "remove" \/ (e.kind = "name" /\ ~Exists(p))
      /\ NewKind(e) # "delete" => e.kind \in {"create", "data"} \/ Exists(p)
  <2>1. e \in Events
    BY <1>2
  <2> HIDE DEF e
  <2>2. /\ NewKind(e) \in Kinds
        /\ e.kind \in {"create", "data"} => NewKind(e) # "delete"
        /\ e.kind = "name" => (NewKind(e) = "delete" <=> ~Exists(e.path))
        /\ e.kind = "remove" => NewKind(e) = "delete"
        /\ e.kind \in {"create", "data", "name", "remove"} /\ e.path \in Paths
    BY <2>1, NewKinds
  <2> QED
    BY <2>2
<1>5. PICK k \in Kinds : /\ pending' = Put(pending, p, k)
                         /\ k = "delete" <=> NewKind(e) = "delete"
                         /\ first_seen_creates' \subseteq first_seen_creates \cup {p}
  <2>1. CASE p \in DOMAIN pending
    <3>1. pending[p] \in Kinds
      BY <2>1 DEF IInv, Shapes, TypeOK
    <3>2. /\ pending' = Put(pending, p, Collapse(pending[p], NewKind(e)))
          /\ first_seen_creates' = first_seen_creates
      BY <2>1 DEF Receive
    <3> QED
      BY <1>4, <3>1, <3>2, CollapseKinds
  <2>2. CASE p \notin DOMAIN pending
    BY <1>4, <2>2 DEF Receive
  <2> QED
    BY <2>1, <2>2
<1> HIDE DEF p, e
<1>6. /\ DOMAIN pending \subseteq Paths /\ pending \in [DOMAIN pending -> Kinds]
      /\ DOMAIN batch = {} /\ to_index = {} /\ extracting = Idle
      /\ pairs = {} /\ dirs_needing_watch = {}
  BY <1>1 DEF IInv, Shapes, TypeOK, PhaseInv
<1>7. /\ pending' \in [DOMAIN pending' -> Kinds] /\ DOMAIN pending' \subseteq Paths
      /\ Upserted(pending') \subseteq Upserted(pending) \cup {p}
      /\ p \in Upserted(pending') => k # "delete"
      /\ Deleted(pending') \subseteq Deleted(pending) \cup {p}
      /\ p \in Deleted(pending') => k = "delete"
      /\ DOMAIN pending' = DOMAIN pending \cup {p}
  <2>1. /\ Put(pending, p, k) \in [DOMAIN Put(pending, p, k) -> Kinds]
        /\ DOMAIN Put(pending, p, k) \subseteq Paths
        /\ Upserted(Put(pending, p, k)) \subseteq Upserted(pending) \cup {p}
        /\ p \in Upserted(Put(pending, p, k)) => k # "delete"
        /\ Deleted(Put(pending, p, k)) \subseteq Deleted(pending) \cup {p}
        /\ p \in Deleted(Put(pending, p, k)) => k = "delete"
    BY <1>4, <1>6, PutKinds
  <2>2. DOMAIN Put(pending, p, k) = DOMAIN pending \cup {p}
    BY Batches
  <2> QED
    BY ONLY <1>5, <2>1, <2>2
<1>8. Coming' = Coming /\ Heard' = Heard
  <2>1. Coming' = Heard' \cup to_index \cup IF extracting = Idle THEN {} ELSE {extracting.path}
    BY <1>1 DEF Coming, Heard, Reported, flushVars
  <2>2. Heard' = Reported' \cup DOMAIN pending' \cup DOMAIN batch
    BY <1>1 DEF Heard, flushVars
  <2>3. Heard' = Heard
    BY <1>2, <1>7, <2>2 DEF Heard
  <2> QED
    BY <2>1, <2>3, ComingParts
<1>9. \A q : /\ DirComing(q)' = DirComing(q)
             /\ q \in Reported /\ q # p => q \in Reported'
  BY <1>1, <1>2, <1>8 DEF DirComing
<1>10. \A q \in Files : Agrees(q)' = Agrees(q) /\ Gone(q)' = Gone(q)
  BY <1>1 DEF fsVars, Agrees, Indexable, Included, NoIndex, Gone
<1>11. Shapes' /\ WellPlaced' /\ PhaseInv'
  <2>1. TypeOK'
    BY <1>1, <1>2, <1>4, <1>5, <1>7 DEF IInv, Shapes, TypeOK, fsVars, flushVars
  <2>2. \A i \in DOMAIN channel' : channel'[i].kind = "remove" => channel'[i].path \in Files
    BY <1>2 DEF IInv, Shapes
  <2> QED
    BY <1>1, <2>1, <2>2 DEF IInv, Shapes, WellPlaced, PhaseInv, fsVars, flushVars
<1>12. AllAcc'
  BY <1>1, <1>8, <1>9, <1>10 DEF IInv, AllAcc, Acc
<1>13. DirEvents'
  <2> SUFFICES ASSUME NEW d \in Dirs
               PROVE  /\ d \notin dirs => Closed(DirPath(d))'
                      /\ d \notin dirs /\ DirPath(d) \in Upserted(pending') \cup Upserted(batch)
                            => DirPath(d) \in Reported'
                      /\ DirPath(d) \in Deleted(pending') => DirGone(d)'
    BY <1>1 DEF DirEvents, fsVars, flushVars
  <2>1. Exists(DirPath(d)) <=> d \in dirs
    BY DirPaths DEF Exists
  <2>2. /\ d \notin dirs => Closed(DirPath(d)) /\ d \notin watched
        /\ d \notin dirs /\ DirPath(d) \in Upserted(pending) => DirPath(d) \in Reported
        /\ DirPath(d) \in Deleted(pending) =>
                d \notin watched /\ (d \in dirs => DirPath(d) \in Reported)
        /\ Upserted(batch) = {}
    BY <1>6, DirPaths DEF IInv, DirEvents, DirGone, WellPlaced, Upserted
  <2>3. ASSUME d \notin dirs, DirPath(d) \in Upserted(pending')
        PROVE  DirPath(d) \in Reported'
    <3>1. CASE DirPath(d) # p
      BY <1>7, <1>9, <2>2, <2>3, <3>1
    <3>2. CASE DirPath(d) = p
      BY <1>2, <1>4, <1>5, <1>7, <2>1, <2>2, <2>3, <3>2
    <3> QED
      BY <3>1, <3>2
  <2>4. ASSUME DirPath(d) \in Deleted(pending')
        PROVE  DirGone(d)'
    <3>1. CASE DirPath(d) # p
      BY <1>1, <1>7, <1>9, <2>2, <2>4, <3>1 DEF DirGone, fsVars
    <3>2. CASE DirPath(d) = p
      BY <1>1, <1>3, <1>4, <1>5, <1>7, <2>1, <2>2, <2>4, <3>2, DirPaths DEF DirGone, fsVars
    <3> QED
      BY <3>1, <3>2
  <2> QED
    BY <1>2, <2>2, <2>3, <2>4
<1>14. GoneInv'
  <2> SUFFICES ASSUME NEW q \in Files, disk[q] = 0
               PROVE  /\ q \in Upserted(pending') \cup Upserted(batch) =>
                            Gone(q)' \/ q \in Reported' \/ DirComing(Parent(q))'
                      /\ Closed(q)' \/ Gone(q)' \/ DirComing(Parent(q))'
    BY <1>1 DEF GoneInv, fsVars, flushVars
  <2>1. /\ q \in Upserted(pending) => Gone(q) \/ q \in Reported \/ DirComing(Parent(q))
        /\ Closed(q) \/ Gone(q) \/ DirComing(Parent(q))
        /\ Upserted(batch) = {} /\ ~Exists(q)
    BY <1>6 DEF IInv, GoneInv, Upserted, Exists
  <2>2. ASSUME q \in Upserted(pending')
        PROVE  Gone(q)' \/ q \in Reported' \/ DirComing(Parent(q))'
    <3>1. CASE q # p
      BY <1>7, <1>9, <1>10, <2>1, <2>2, <3>1
    <3>2. CASE q = p
      BY <1>2, <1>4, <1>5, <1>7, <1>9, <1>10, <2>1, <2>2, <3>2
    <3> QED
      BY <3>1, <3>2
  <2> QED
    BY <1>2, <1>9, <1>10, <2>1, <2>2
<1>15. DirPairInv' /\ FilePairInv' /\ ExtractInv' /\ NeedInv'
  BY <1>1, <1>6 DEF DirPairInv, FilePairInv, ExtractInv, NeedInv, flushVars
<1> QED
  BY <1>11, <1>12, <1>13, <1>14, <1>15 DEF IInv

-----------------------------------------------------------------------------
(* The steps of a flush leave the disk and the channel alone.               *)

LEMMA FlushRests ==
  ASSUME UNCHANGED <<fsVars, channel>>
  PROVE  /\ Reported' = Reported
         /\ \A q : Closed(q)' = Closed(q)
         /\ \A p \in Files : Indexable(p)' = Indexable(p) /\ Exists(p)' = Exists(p)
         /\ \A p \in Files : index'[p] = index[p] => Agrees(p)' = Agrees(p)
         /\ \A p \in Files : index'[p] = index[p] /\ (p \in left => p \in left') /\ Gone(p) =>
                Gone(p)'
<1>1. Reported' = Reported
  BY DEF Reported
<1>2. ASSUME NEW q
      PROVE  Closed(q)' = Closed(q)
  BY DEF Closed, Later
<1>3. ASSUME NEW p \in Files
      PROVE  /\ Indexable(p)' = Indexable(p) /\ Exists(p)' = Exists(p)
             /\ index'[p] = index[p] => Agrees(p)' = Agrees(p)
             /\ index'[p] = index[p] /\ (p \in left => p \in left') /\ Gone(p) => Gone(p)'
  BY DEF fsVars, Indexable, Included, NoIndex, Exists, Agrees, Gone
<1> QED
  BY <1>1, <1>2, <1>3

\* A file without a row that could matter agrees with the disk.
LEMMA GoneAgrees ==
  ASSUME NEW p \in Files, disk[p] = 0, Gone(p)
  PROVE  Agrees(p) \/ p \in left
BY DEF Gone, Agrees, Indexable

LEMMA RowType ==
  ASSUME NEW lines \in Version, NEW mtime \in Version
  PROVE  /\ [lines |-> lines, mtime |-> mtime] \in Row
         /\ [lines |-> lines, mtime |-> mtime] # NoRow
BY RowAssumption DEF Row

LEMMA ExtractKeeps ==
  ASSUME IInv, Extract
  PROVE  IInv'
<1>1. PICK p \in to_index, result \in {"lines", "none", "skip"} :
        /\ Accepted(result = "lines")
        /\ to_index' = to_index \ {p}
        /\ extracting' = IF result = "skip" THEN Idle
                         ELSE [path |-> p,
                               lines |-> IF result = "lines" THEN disk[p] ELSE 0]
        /\ left' = IF result = "skip" THEN left \cup {p} ELSE left
  BY DEF Extract
<1>2. /\ UNCHANGED <<fsVars, channel>>
      /\ UNCHANGED <<watched, pending, first_seen_creates, phase, expired, batch,
                     fresh_creates, pairs, dirs_needing_watch, index, rescans>>
      /\ phase = "entries" /\ extracting = Idle
  BY DEF Extract
<1>3. /\ p \in Files /\ disk[p] \in Version /\ 0 \in Version
      /\ left \subseteq left' /\ left' \subseteq Files
  BY <1>1, WatchAssumption DEF IInv, Shapes, TypeOK, Version
<1>4. extracting' # Idle => extracting'.path = p /\ extracting'.lines \in {0, disk[p]}
  BY <1>1
<1>5. /\ extracting' \in [path : Files, lines : Version] \cup {Idle}
      /\ extracting' = Idle => result = "skip"
  BY <1>1, <1>3, RowAssumption
<1>6. failures' \in 0..MaxFailures
  BY <1>1, WatchAssumption DEF Accepted, IInv, Shapes, TypeOK
<1>7. Heard' = Heard /\ Reported' = Reported
  BY <1>2 DEF Heard, Reported
<1>8. Coming' = Heard' \cup to_index' \cup IF extracting' = Idle THEN {} ELSE {extracting'.path}
  BY DEF Coming, Heard, Reported
<1>9. Coming \subseteq Coming' \cup (IF extracting' = Idle THEN {p} ELSE {})
  BY <1>1, <1>2, <1>4, <1>7, <1>8, ComingParts
<1>10. \A q \in Files : /\ Agrees(q)' = Agrees(q)
                        /\ Gone(q) => Gone(q)'
  BY <1>2, <1>3, FlushRests
<1>11. Shapes' /\ WellPlaced' /\ PhaseInv'
  <2>1. TypeOK'
    BY <1>1, <1>2, <1>3, <1>5, <1>6 DEF IInv, Shapes, TypeOK, fsVars
  <2> QED
    BY <1>2, <2>1 DEF IInv, Shapes, WellPlaced, PhaseInv, fsVars
<1>12. AllAcc'
  <2> SUFFICES ASSUME NEW q \in Files
               PROVE  Acc(q)'
    BY DEF AllAcc
  <2>1. p \in Coming' \/ p \in left'
    BY <1>1, <1>3, <1>4, <1>5, <1>8
  <2>2. DirComing(Parent(q))' = DirComing(Parent(q))
    BY <1>2, <1>7 DEF DirComing
  <2> QED
    BY <1>3, <1>7, <1>9, <1>10, <2>1, <2>2 DEF IInv, AllAcc, Acc
<1>13. DirEvents'
  BY <1>2, <1>7, FlushRests DEF IInv, DirEvents, DirGone, fsVars
<1>14. GoneInv'
  <2>1. \A d : DirComing(d)' = DirComing(d)
    BY <1>2, <1>7 DEF DirComing
  <2> QED
    BY <1>2, <1>7, <1>10, <2>1, FlushRests DEF IInv, GoneInv, fsVars
<1>15. DirPairInv' /\ FilePairInv' /\ ExtractInv' /\ NeedInv'
  <2>1. pairs' = {} /\ dirs_needing_watch' = {} /\ phase' = "entries"
    BY <1>2 DEF IInv, PhaseInv
  <2>2. ExtractInv'
    BY <1>2, <1>4 DEF ExtractInv, fsVars
  <2> QED
    BY <2>1, <2>2 DEF DirPairInv, FilePairInv, NeedInv
<1> QED
  BY <1>11, <1>12, <1>13, <1>14, <1>15 DEF IInv

LEMMA SendUpdateKeeps ==
  ASSUME IInv, SendUpdate
  PROVE  IInv'
<1>0. PICK p \in Files : p = extracting.path
  BY DEF SendUpdate, IInv, Shapes, TypeOK
<1> DEFINE row == [lines |-> extracting.lines, mtime |-> disk[p]]
<1>1. PICK ok \in BOOLEAN :
        /\ Accepted(ok)
        /\ index' = IF ok THEN Upsert(index, p, row) ELSE index
        /\ left' = IF ~(ok /\ index'[p] = row /\ row.lines # 0) THEN left \cup {p}
                   ELSE IF Parent(p) \in watched THEN left \ {p} ELSE left
  BY <1>0 DEF SendUpdate
<1>2. /\ UNCHANGED <<fsVars, channel>>
      /\ UNCHANGED <<watched, pending, first_seen_creates, phase, expired, batch,
                     fresh_creates, pairs, dirs_needing_watch, to_index, rescans>>
      /\ extracting # Idle /\ extracting' = Idle
  BY DEF SendUpdate
<1>3. /\ p \in Files /\ extracting.lines \in Version /\ disk[p] \in Version
      /\ index \in [Files -> Row \cup {NoRow}] /\ left \subseteq Files /\ phase = "entries"
  BY <1>2 DEF IInv, Shapes, TypeOK, PhaseInv
<1>4. row \in Row /\ row # NoRow /\ row.lines = extracting.lines
  BY <1>3, RowType
<1>5. failures' \in 0..MaxFailures
  BY <1>1, WatchAssumption DEF Accepted, IInv, Shapes, TypeOK
<1>6. /\ extracting.lines \in {0, disk[p]} \/ Changed(p)
  BY <1>0, <1>2 DEF IInv, ExtractInv
<1> HIDE DEF row
<1>7. /\ index' \in [Files -> Row \cup {NoRow}]
      /\ \A q \in Files \ {p} : index'[q] = index[q]
  BY <1>1, <1>3, <1>4 DEF Upsert
<1>8. /\ left \ {p} \subseteq left' /\ left' \subseteq Files
  BY <1>1, <1>3
<1>9. Heard' = Heard /\ Reported' = Reported
  BY <1>2 DEF Heard, Reported
<1>10. Coming' = Heard' \cup to_index'
  BY <1>2 DEF Coming, Heard, Reported
<1>11. Coming \subseteq Coming' \cup {p}
  BY <1>0, <1>2, <1>9, <1>10, ComingParts
<1>12. \A d : DirComing(d)' = DirComing(d)
  BY <1>2, <1>9 DEF DirComing
\* The row is the file's, or the file is left or has changed since.
<1>13. \/ p \in left'
       \/ disk[p] # 0 /\ index'[p] # NoRow /\ index'[p].lines = disk[p]
       \/ p \in Reported /\ (disk[p] = 0 => Closed(p))
       \/ DirComing(Parent(p))
  <2>1. CASE ~(ok /\ index'[p] = row /\ row.lines # 0)
    BY <1>1, <2>1
  <2>2. CASE ok /\ index'[p] = row /\ row.lines # 0
    <3>1. CASE extracting.lines = disk[p]
      BY <1>4, <2>2, <3>1
    <3>2. CASE Changed(p) /\ Parent(p) \in watched
      BY <3>2 DEF Changed
    <3>3. CASE Changed(p) /\ Parent(p) \notin watched
      BY <1>1, <2>2, <3>3 DEF Changed, DirComing, Heard
    <3> QED
      BY <1>4, <1>6, <2>2, <3>1, <3>2, <3>3
  <2> QED
    BY <2>1, <2>2
<1>14. Shapes' /\ WellPlaced' /\ PhaseInv'
  <2>1. TypeOK'
    BY <1>2, <1>5, <1>7, <1>8 DEF IInv, Shapes, TypeOK, fsVars
  <2> QED
    BY <1>2, <2>1 DEF IInv, Shapes, WellPlaced, PhaseInv, fsVars
<1>15. AllAcc'
  <2>1. Acc(p)'
    <3>1. disk[p] # 0 /\ index'[p] # NoRow /\ index'[p].lines = disk[p] => Agrees(p)'
      BY <1>2 DEF Agrees, fsVars
    <3>2. p \in Reported => p \in Coming'
      BY <1>9, <1>10 DEF Heard
    <3> QED
      BY <1>12, <1>13, <3>1, <3>2 DEF Acc
  <2>2. ASSUME NEW q \in Files, q # p
        PROVE  Acc(q)'
    <3>1. Agrees(q)' = Agrees(q)
      BY <1>2, <1>7, <2>2, FlushRests
    <3> QED
      BY <1>8, <1>9, <1>11, <1>12, <2>2, <3>1 DEF IInv, AllAcc, Acc
  <2> QED
    BY <2>1, <2>2 DEF AllAcc
<1>16. DirEvents'
  BY <1>2, <1>9, FlushRests DEF IInv, DirEvents, DirGone, fsVars
<1>17. GoneInv'
  <2> SUFFICES ASSUME NEW q \in Files, disk[q] = 0
               PROVE  /\ q \in Upserted(pending) \cup Upserted(batch) =>
                            Gone(q)' \/ q \in Reported' \/ DirComing(Parent(q))'
                      /\ Closed(q)' \/ Gone(q)' \/ DirComing(Parent(q))'
    BY <1>2 DEF GoneInv, fsVars
  <2>1. CASE q = p
    BY <1>2, <1>9, <1>12, <1>13, <2>1, FlushRests DEF Gone
  <2>2. CASE q # p
    <3>1. Gone(q) => Gone(q)'
      BY <1>2, <1>7, <1>8, <2>2, FlushRests
    <3> QED
      BY <1>2, <1>9, <1>12, <3>1, FlushRests DEF IInv, GoneInv
  <2> QED
    BY <2>1, <2>2
<1>18. DirPairInv' /\ FilePairInv' /\ ExtractInv' /\ NeedInv'
  <2>1. pairs' = {} /\ dirs_needing_watch' = {} /\ phase' = "entries"
    BY <1>2, <1>3 DEF IInv, PhaseInv
  <2> QED
    BY <1>2, <2>1 DEF DirPairInv, FilePairInv, NeedInv, ExtractInv
<1> QED
  BY <1>14, <1>15, <1>16, <1>17, <1>18 DEF IInv

\* An entry that registers no watch.
LEMMA EntryKeeps ==
  ASSUME IInv, UNCHANGED <<fsVars, channel>>,
         UNCHANGED <<watched, pending, first_seen_creates, phase, expired, fresh_creates,
                     pairs, dirs_needing_watch, extracting>>,
         phase = "entries", to_index = {}, extracting = Idle,
         NEW p \in DOMAIN batch, batch' = Without(batch, {p}),
         rescans' \subseteq Places, failures' \in 0..MaxFailures,
         to_index' \subseteq Files, left \subseteq left', left' \subseteq Files,
         index' \in [Files -> Row \cup {NoRow}],
         \A q \in Files \ {p} : index'[q] = index[q],
         p \in Files => \/ Agrees(p)' \/ p \in left' \/ p \in to_index'
                        \/ p \in Reported \/ DirComing(Parent(p)),
         p \in Files => index'[p] \in {NoRow, index[p]},
         Governed(p) \subseteq left',
         \A d \in Dirs : p = DirPath(d) =>
            FilesIn(d) \subseteq left' \/ d \in watched \/ p \in Reported
  PROVE  IInv'
<1>1. /\ p \in Paths /\ DOMAIN batch \subseteq Paths /\ batch \in [DOMAIN batch -> Kinds]
      /\ pairs = {} /\ dirs_needing_watch = {}
  BY DEF IInv, Shapes, TypeOK, PhaseInv
<1>2. /\ DOMAIN batch' = DOMAIN batch \ {p} /\ Upserted(batch') = Upserted(batch) \ {p}
      /\ batch' \in [DOMAIN batch' -> Kinds]
  BY <1>1, Batches, WithoutKinds
<1>3. Reported' = Reported /\ \A q : Closed(q)' = Closed(q)
  BY FlushRests
<1>4. Heard' = Reported \cup DOMAIN pending \cup DOMAIN batch'
  BY <1>3 DEF Heard
<1>5. \A q \in Heard : q # p \/ q \in Reported => q \in Heard'
  BY <1>2, <1>4 DEF Heard
<1>6. Coming' = Heard' \cup to_index'
  BY DEF Coming, Heard, Reported
<1>7. Coming = Heard
  BY ComingParts
<1>8. \A q \in Files : Gone(q) => Gone(q)'
  <2>1. ASSUME NEW q \in Files, Gone(q)
        PROVE  Gone(q)'
    BY <2>1 DEF Gone
  <2> QED
    BY <2>1
\* What the entry of a directory stood for.
<1>9. ASSUME NEW q \in Files, DirComing(Parent(q))
      PROVE  DirComing(Parent(q))' \/ q \in left'
  <2>1. Parent(q) \in Places /\ Parent(q) \notin watched /\ DirPath(Parent(q)) \in Heard
    BY <1>9, FilePaths DEF DirComing
  <2>2. CASE DirPath(Parent(q)) # p \/ p \in Reported
    BY <1>5, <2>1, <2>2 DEF DirComing
  <2>3. CASE DirPath(Parent(q)) = p /\ p \notin Reported
    <3>1. Parent(q) \in Dirs
      BY <1>1, <2>1, <2>3, DirPaths
    <3>2. q \in FilesIn(Parent(q))
      BY <2>1, Below
    <3> QED
      BY <2>1, <2>3, <3>1, <3>2
  <2> QED
    BY <2>2, <2>3
<1>10. Shapes' /\ WellPlaced' /\ PhaseInv'
  <2>1. TypeOK'
    BY <1>1, <1>2 DEF IInv, Shapes, TypeOK, fsVars
  <2> QED
    BY <1>1, <2>1 DEF IInv, Shapes, WellPlaced, PhaseInv, fsVars
<1>11. AllAcc'
  <2> SUFFICES ASSUME NEW q \in Files
               PROVE  Acc(q)'
    BY DEF AllAcc
  <2>1. Acc(q)
    BY DEF IInv, AllAcc
  <2>2. q # p => Agrees(q)' = Agrees(q)
    BY FlushRests
  <2>3. CASE q = p
    <3>1. \/ Agrees(q)' \/ q \in left' \/ q \in to_index'
          \/ q \in Reported \/ DirComing(Parent(q))
      BY <2>3
    <3>2. q \in Reported => q \in Heard'
      BY <1>4
    <3> QED
      BY <1>6, <1>9, <3>1, <3>2 DEF Acc
  <2>4. CASE q # p /\ (Agrees(q) \/ q \in left)
    BY <2>2, <2>4 DEF Acc
  <2>5. CASE q # p /\ q \in Coming
    BY <1>5, <1>6, <1>7, <2>5 DEF Acc
  <2>6. ASSUME NEW c \in {<<Parent(q), Ctl>>, <<Root, Ctl>>}, c \in Heard
        PROVE  c \in Heard' \/ q \in left'
    <3>1. q \in Governed(c)
      BY Controls
    <3> QED
      BY <1>5, <2>6, <3>1
  <2>7. CASE DirComing(Parent(q))
    BY <1>9, <2>7 DEF Acc
  <2> QED
    BY <2>1, <2>3, <2>4, <2>5, <2>6, <2>7 DEF Acc
<1>12. DirEvents'
  BY <1>2, <1>3 DEF IInv, DirEvents, DirGone, fsVars
<1>13. GoneInv'
  <2> SUFFICES ASSUME NEW q \in Files, disk[q] = 0
               PROVE  /\ q \in Upserted(pending) \cup Upserted(batch') =>
                            Gone(q)' \/ q \in Reported \/ DirComing(Parent(q))'
                      /\ Closed(q) \/ Gone(q)' \/ DirComing(Parent(q))'
    BY <1>3 DEF GoneInv, fsVars
  <2>1. DirComing(Parent(q)) => DirComing(Parent(q))' \/ Gone(q)'
    BY <1>9 DEF Gone
  <2> QED
    BY <1>2, <1>8, <2>1 DEF IInv, GoneInv
<1>14. DirPairInv' /\ FilePairInv' /\ ExtractInv' /\ NeedInv'
  BY <1>1, <1>2 DEF DirPairInv, FilePairInv, ExtractInv, NeedInv
<1> QED
  BY <1>10, <1>11, <1>12, <1>13, <1>14 DEF IInv

\* A directory that gets its watch: what is in it is walked, or has no row.
LEMMA NewDirKeeps ==
  ASSUME IInv, UNCHANGED <<fsVars, channel>>,
         UNCHANGED <<pending, first_seen_creates, phase, expired, fresh_creates,
                     pairs, dirs_needing_watch, extracting, index, rescans, failures>>,
         phase = "entries", to_index = {}, extracting = Idle,
         NEW p \in DOMAIN batch, batch' = Without(batch, {p}),
         NEW d \in Dirs, p = DirPath(d), d \in dirs,
         watched' = watched \cup {d},
         to_index' = WalkNewDir(d),
         left' = (left \ WalkNewDir(d)) \cup {q \in FilesIn(d) : disk[q] = 0 /\ index[q] # NoRow}
  PROVE  IInv'
<1>1. /\ p \in Paths /\ DOMAIN batch \subseteq Paths /\ batch \in [DOMAIN batch -> Kinds]
      /\ pairs = {} /\ dirs_needing_watch = {} /\ left \subseteq Files
  BY DEF IInv, Shapes, TypeOK, PhaseInv
<1>2. /\ DOMAIN batch' = DOMAIN batch \ {p} /\ Upserted(batch') = Upserted(batch) \ {p}
      /\ batch' \in [DOMAIN batch' -> Kinds]
  BY <1>1, Batches, WithoutKinds
<1>3. Reported' = Reported /\ \A q : Closed(q)' = Closed(q)
  BY FlushRests
<1>4. Heard' = Reported \cup DOMAIN pending \cup DOMAIN batch'
  BY <1>3 DEF Heard
<1>5. \A q \in Heard : q # p => q \in Heard'
  BY <1>2, <1>4 DEF Heard
<1>6. Coming' = Heard' \cup to_index'
  BY DEF Coming, Heard, Reported
<1>7. Coming = Heard
  BY ComingParts
<1>8. /\ FilesIn(d) = {q \in Files : Parent(q) = d}
      /\ WalkNewDir(d) = {q \in Files : Parent(q) = d /\ disk[q] # 0 /\ q \notin Excluded}
  BY Below, DirPaths DEF WalkNewDir
<1>9. ASSUME NEW q \in Files, Parent(q) # d
      PROVE  /\ DirComing(Parent(q)) => DirComing(Parent(q))'
             /\ q \in left => q \in left'
             /\ Gone(q) => Gone(q)'
  <2>1. q \in left => q \in left'
    BY <1>8, <1>9
  <2>2. DirPath(Parent(q)) # p
    BY <1>1, <1>9, FilePaths, DirPaths
  <2> QED
    BY <1>5, <1>9, <2>1, <2>2, FlushRests DEF DirComing
<1>10. ASSUME NEW q \in Files, Parent(q) = d, disk[q] = 0
       PROVE  Gone(q)'
  <2>1. index[q] = NoRow \/ q \in left'
    BY <1>8, <1>10
  <2> QED
    BY <2>1 DEF Gone
<1>11. Shapes' /\ WellPlaced' /\ PhaseInv'
  <2>1. /\ to_index' \subseteq Files /\ left' \subseteq Files /\ watched' \subseteq Places
    BY <1>1, <1>8, DirPaths DEF IInv, Shapes, TypeOK
  <2>2. TypeOK'
    BY <1>1, <1>2, <2>1 DEF IInv, Shapes, TypeOK, fsVars
  <2>3. watched' \subseteq dirs' \cup {Root}
    BY DEF IInv, WellPlaced, fsVars
  <2> QED
    BY <1>1, <2>2, <2>3 DEF IInv, Shapes, WellPlaced, PhaseInv, fsVars
<1>12. AllAcc'
  <2> SUFFICES ASSUME NEW q \in Files
               PROVE  Acc(q)'
    BY DEF AllAcc
  <2>1. Acc(q) /\ q # p /\ <<Parent(q), Ctl>> # p /\ <<Root, Ctl>> # p
    BY Controls, DirPaths DEF IInv, AllAcc
  <2>2. Agrees(q)' = Agrees(q) /\ Indexable(q)' = Indexable(q)
    BY FlushRests
  <2>3. CASE Parent(q) # d
    <3>1. q \in Coming => q \in Coming'
      BY <1>5, <1>6, <1>7, <2>1
    <3> QED
      BY <1>5, <1>9, <2>1, <2>2, <2>3, <3>1 DEF Acc
  <2>4. CASE Parent(q) = d /\ disk[q] = 0
    <3>1. index[q] = NoRow \/ q \in left'
      BY <1>8, <2>4
    <3>2. index[q] = NoRow => Agrees(q)'
      BY <2>4 DEF Agrees, Indexable, fsVars
    <3> QED
      BY <3>1, <3>2 DEF Acc
  <2>5. CASE Parent(q) = d /\ disk[q] # 0 /\ q \in Excluded
    <3>1. Agrees(q)
      BY <2>5 DEF Agrees, Indexable, Included
    <3> QED
      BY <2>2, <3>1 DEF Acc
  <2>6. CASE Parent(q) = d /\ disk[q] # 0 /\ q \notin Excluded
    BY <1>6, <1>8, <2>6 DEF Acc
  <2> QED
    BY <2>3, <2>4, <2>5, <2>6
<1>13. DirEvents'
  <2>1. Deleted(pending) = {}
    BY DEF IInv, PhaseInv, Deleted
  <2> QED
    BY <1>2, <1>3, <2>1 DEF IInv, DirEvents, DirGone, fsVars
<1>14. GoneInv'
  <2> SUFFICES ASSUME NEW q \in Files, disk[q] = 0
               PROVE  /\ q \in Upserted(pending) \cup Upserted(batch') =>
                            Gone(q)' \/ q \in Reported \/ DirComing(Parent(q))'
                      /\ Closed(q) \/ Gone(q)' \/ DirComing(Parent(q))'
    BY <1>3 DEF GoneInv, fsVars
  <2> QED
    BY <1>2, <1>9, <1>10 DEF IInv, GoneInv
<1>15. DirPairInv' /\ FilePairInv' /\ ExtractInv' /\ NeedInv'
  BY <1>1, <1>2 DEF DirPairInv, FilePairInv, ExtractInv, NeedInv
<1> QED
  BY <1>11, <1>12, <1>13, <1>14, <1>15 DEF IInv

LEMMA HandleEntryKeeps ==
  ASSUME IInv, HandleEntry
  PROVE  IInv'
<1>1. /\ UNCHANGED <<fsVars, channel>>
      /\ UNCHANGED <<pending, first_seen_creates, phase, expired, fresh_creates, pairs,
                     dirs_needing_watch, extracting>>
      /\ phase = "entries" /\ to_index = {} /\ extracting = Idle
  BY DEF HandleEntry
<1>2. PICK p \in DOMAIN batch, ok \in BOOLEAN :
        /\ batch' = Without(batch, {p})
        /\ IF p[2] = Ctl
           THEN /\ ok
                /\ rescans' = rescans \cup {Parent(p)}
                /\ left' = left \cup Governed(p)
                /\ UNCHANGED <<watched, to_index, index, failures>>
           ELSE IF ~Included(p)
           THEN /\ ok
                /\ left' = left \cup IF p \in Files THEN {q \in {p} : index[q] # NoRow}
                                    ELSE FilesIn(p[2])
                /\ UNCHANGED <<watched, to_index, index, rescans, failures>>
           ELSE IF batch[p] = "delete"
           THEN /\ Accepted(ok)
                /\ index' = IF ok THEN Delete(index, p) ELSE index
                /\ left' = left \cup (IF p \notin Files THEN FilesIn(p[2])
                                      ELSE IF ok /\ disk[p] = 0 THEN {} ELSE {p})
                /\ UNCHANGED <<watched, to_index, rescans>>
           ELSE IF IsDir(p)
           THEN /\ ok
                /\ IF batch[p] = "update"
                   THEN /\ left' = IF p[2] \in watched THEN left
                                   ELSE left \cup FilesIn(p[2])
                        /\ UNCHANGED <<watched, to_index>>
                   ELSE /\ watched' = watched \cup {p[2]}
                        /\ to_index' = WalkNewDir(p[2])
                        /\ left' = (left \ WalkNewDir(p[2])) \cup
                             {q \in FilesIn(p[2]) : disk[q] = 0 /\ index[q] # NoRow}
                /\ UNCHANGED <<index, rescans, failures>>
           ELSE /\ ok
                /\ to_index' = IF IsFile(p) THEN {p} ELSE {}
                /\ UNCHANGED <<watched, index, rescans, left, failures>>
  BY DEF HandleEntry
<1>3. /\ p \in Paths /\ batch[p] \in Kinds /\ left \subseteq Files /\ rescans \subseteq Places
      /\ index \in [Files -> Row \cup {NoRow}] /\ failures \in 0..MaxFailures
  BY <1>2 DEF IInv, Shapes, TypeOK
<1>4. /\ p \notin Files => p[2] \in Dirs /\ p = DirPath(p[2]) /\ FilesIn(p[2]) \subseteq Files
      /\ Parent(p) \in Places
  BY <1>3, DirPaths, FilePaths, Below DEF Places
<1>5. Governed(p) \subseteq Files /\ (p[2] # Ctl => Governed(p) = {})
  BY <1>3, Below DEF Governed
<1>6. \A d \in Dirs : p = DirPath(d) => p \notin Files /\ p[2] = d
  BY DirPaths
<1>7. p \in Files => (index'[p] = index[p] => Agrees(p)' = Agrees(p))
  BY <1>1, FlushRests
<1>8. CASE p[2] = Ctl
  <2>1. p \in Files /\ p \in Governed(p)
    BY <1>3, <1>4, <1>8, FilePaths, Below, WatchAssumption
  <2>2. /\ left' = left \cup Governed(p) /\ rescans' = rescans \cup {Parent(p)}
        /\ UNCHANGED <<watched, to_index, index, failures>>
    BY <1>2, <1>8
  <2>3. p \in left' /\ \A d \in Dirs : p # DirPath(d)
    BY <1>6, <2>1, <2>2
  <2>4. /\ rescans' \subseteq Places /\ failures' \in 0..MaxFailures /\ to_index' \subseteq Files
        /\ left \subseteq left' /\ left' \subseteq Files /\ Governed(p) \subseteq left'
        /\ index' \in [Files -> Row \cup {NoRow}] /\ index' = index /\ watched' = watched
    BY <1>1, <1>3, <1>4, <1>5, <2>2
  <2> QED
    BY <1>1, <1>2, <2>1, <2>3, <2>4, EntryKeeps
<1>9. CASE p[2] # Ctl /\ ~Included(p)
  <2>1. /\ left' = left \cup IF p \in Files THEN {q \in {p} : index[q] # NoRow} ELSE FilesIn(p[2])
        /\ UNCHANGED <<watched, to_index, index, rescans, failures>>
    BY <1>2, <1>9
  <2>2. /\ rescans' \subseteq Places /\ failures' \in 0..MaxFailures /\ to_index' \subseteq Files
        /\ left \subseteq left' /\ left' \subseteq Files /\ Governed(p) \subseteq left'
        /\ index' \in [Files -> Row \cup {NoRow}] /\ index' = index /\ watched' = watched
    BY <1>1, <1>3, <1>4, <1>5, <1>9, <2>1
  <2>3. p \in Files => Agrees(p)' \/ p \in left'
    <3>1. p \in Files /\ index[p] = NoRow => Agrees(p)
      BY <1>9 DEF Agrees, Indexable
    <3> QED
      BY <1>7, <2>1, <3>1
  <2>4. \A d \in Dirs : p = DirPath(d) => FilesIn(d) \subseteq left'
    BY <1>6, <2>1
  <2> QED
    BY <1>1, <1>2, <2>2, <2>3, <2>4, EntryKeeps
<1>10. CASE p[2] # Ctl /\ Included(p) /\ batch[p] = "delete"
  <2>1. /\ Accepted(ok)
        /\ index' = IF ok THEN Delete(index, p) ELSE index
        /\ left' = left \cup (IF p \notin Files THEN FilesIn(p[2])
                              ELSE IF ok /\ disk[p] = 0 THEN {} ELSE {p})
        /\ UNCHANGED <<watched, to_index, rescans>>
    BY <1>2, <1>10
  <2>2. failures' \in 0..MaxFailures
    BY <1>3, <2>1, WatchAssumption DEF Accepted
  <2>3. /\ rescans' \subseteq Places /\ to_index' \subseteq Files /\ watched' = watched
        /\ left \subseteq left' /\ left' \subseteq Files /\ Governed(p) \subseteq left'
    BY <1>1, <1>3, <1>4, <1>5, <1>10, <2>1
  <2>4. /\ index' \in [Files -> Row \cup {NoRow}]
        /\ \A q \in Files \ {p} : index'[q] = index[q]
        /\ p \in Files => index'[p] = IF ok THEN NoRow ELSE index[p]
    BY <1>3, <2>1 DEF Delete
  <2>5. p \in Files => Agrees(p)' \/ p \in left'
    <3>1. p \in Files /\ index'[p] = NoRow /\ disk[p] = 0 => Agrees(p)'
      BY <1>1 DEF Agrees, Indexable, fsVars
    <3> QED
      BY <2>1, <2>4, <3>1
  <2>6. \A d \in Dirs : p = DirPath(d) => FilesIn(d) \subseteq left'
    BY <1>6, <2>1
  <2>7. p \in Files => index'[p] \in {NoRow, index[p]}
    BY <2>4
  <2> QED
    BY <1>1, <1>2, <2>2, <2>3, <2>4, <2>5, <2>6, <2>7, EntryKeeps
<1>11. CASE p[2] # Ctl /\ Included(p) /\ batch[p] = "update" /\ IsDir(p)
  <2>1. /\ left' = IF p[2] \in watched THEN left ELSE left \cup FilesIn(p[2])
        /\ UNCHANGED <<watched, to_index, index, rescans, failures>>
    BY <1>2, <1>11
  <2>2. p \notin Files
    BY <1>11 DEF IsDir
  <2>3. /\ rescans' \subseteq Places /\ failures' \in 0..MaxFailures /\ to_index' \subseteq Files
        /\ left \subseteq left' /\ left' \subseteq Files /\ Governed(p) \subseteq left'
        /\ index' \in [Files -> Row \cup {NoRow}] /\ index' = index /\ watched' = watched
    BY <1>1, <1>3, <1>4, <1>5, <1>11, <2>1, <2>2
  <2>4. \A d \in Dirs : p = DirPath(d) => FilesIn(d) \subseteq left' \/ d \in watched
    BY <1>6, <2>1
  <2> QED
    BY <1>1, <1>2, <2>2, <2>3, <2>4, EntryKeeps
<1>12. CASE p[2] # Ctl /\ Included(p) /\ batch[p] = "create" /\ IsDir(p)
  <2>1. /\ watched' = watched \cup {p[2]}
        /\ to_index' = WalkNewDir(p[2])
        /\ left' = (left \ WalkNewDir(p[2])) \cup
             {q \in FilesIn(p[2]) : disk[q] = 0 /\ index[q] # NoRow}
        /\ UNCHANGED <<index, rescans, failures>>
    BY <1>2, <1>12
  <2>2. p[2] \in Dirs /\ p = DirPath(p[2]) /\ p[2] \in dirs
    BY <1>4, <1>12 DEF IsDir, Exists
  <2> QED
    BY <1>1, <1>2, <2>1, <2>2, NewDirKeeps
<1>13. CASE p[2] # Ctl /\ Included(p) /\ batch[p] # "delete" /\ ~IsDir(p)
  <2>1. /\ to_index' = IF IsFile(p) THEN {p} ELSE {}
        /\ UNCHANGED <<watched, index, rescans, left, failures>>
    BY <1>2, <1>13
  <2>2. /\ rescans' \subseteq Places /\ failures' \in 0..MaxFailures /\ to_index' \subseteq Files
        /\ left \subseteq left' /\ left' \subseteq Files /\ Governed(p) \subseteq left'
        /\ index' \in [Files -> Row \cup {NoRow}] /\ index' = index /\ watched' = watched
    BY <1>3, <1>5, <1>13, <2>1 DEF IsFile
  <2>3. p \in Upserted(batch)
    BY <1>2, <1>3, <1>13 DEF Upserted, Kinds
  <2>4. p \in Files => \/ Agrees(p)' \/ p \in left' \/ p \in to_index'
                       \/ p \in Reported \/ DirComing(Parent(p))
    <3>1. CASE IsFile(p)
      BY <2>1, <3>1
    <3>2. CASE ~IsFile(p) /\ p \in Files
      <4>1. disk[p] = 0
        BY <3>2 DEF IsFile, Exists
      <4>2. Gone(p) \/ p \in Reported \/ DirComing(Parent(p))
        BY <2>3, <3>2, <4>1 DEF IInv, GoneInv
      <4> QED
        BY <1>7, <2>1, <3>2, <4>1, <4>2, GoneAgrees
    <3> QED
      BY <3>1, <3>2
  <2>5. ASSUME NEW d \in Dirs, p = DirPath(d)
        PROVE  p \in Reported
    <3>1. d \notin dirs
      BY <1>6, <1>13, <2>5 DEF IsDir, Exists
    <3> QED
      BY <2>3, <2>5, <3>1 DEF IInv, DirEvents
  <2> QED
    BY <1>1, <1>2, <2>2, <2>4, <2>5, EntryKeeps
<1> QED
  BY <1>3, <1>8, <1>9, <1>10, <1>11, <1>12, <1>13 DEF Kinds

LEMMA RegisterRenamedKeeps ==
  ASSUME IInv, RegisterRenamed
  PROVE  IInv'
<1>1. /\ UNCHANGED <<fsVars, channel>>
      /\ UNCHANGED <<pending, first_seen_creates, expired, batch, fresh_creates, pairs,
                     to_index, extracting, index, rescans, left, failures>>
      /\ phase = "files" /\ phase' = "entries" /\ pairs = {} /\ dirs_needing_watch' = {}
      /\ watched' = watched \cup (dirs_needing_watch \cap dirs)
  BY DEF RegisterRenamed
<1>2. /\ extracting = Idle /\ dirs_needing_watch \subseteq Dirs /\ DOMAIN pending = {}
  BY <1>1 DEF IInv, PhaseInv, Shapes, TypeOK
<1>3. /\ Reported' = Reported /\ \A q : Closed(q)' = Closed(q)
      /\ \A q \in Files : Agrees(q)' = Agrees(q) /\ (Gone(q) => Gone(q)')
  BY <1>1, FlushRests
<1>4. Heard' = Heard /\ Coming' = Coming
  BY <1>1 DEF Heard, Coming, Reported
<1>5. ASSUME NEW q \in Files, DirComing(Parent(q))
      PROVE  \/ DirComing(Parent(q))'
             \/ /\ disk[q] = 0 => Gone(q)
                /\ Agrees(q) \/ q \in left \/ <<Root, Ctl>> \in Reported
  <2>1. Parent(q) \notin watched
    BY <1>5 DEF DirComing
  <2>2. CASE Parent(q) \in watched'
    BY <1>1, <2>1, <2>2 DEF IInv, NeedInv
  <2>3. CASE Parent(q) \notin watched'
    BY <1>4, <1>5, <2>3 DEF DirComing
  <2> QED
    BY <2>2, <2>3
<1>6. Shapes' /\ WellPlaced' /\ PhaseInv'
  <2>1. watched' \subseteq Places /\ watched' \subseteq dirs \cup {Root}
    BY <1>1, <1>2 DEF IInv, Shapes, TypeOK, WellPlaced, Places
  <2>2. TypeOK'
    BY <1>1, <2>1 DEF IInv, Shapes, TypeOK, fsVars
  <2> QED
    BY <1>1, <1>2, <2>1, <2>2 DEF IInv, Shapes, WellPlaced, PhaseInv, fsVars
<1>7. AllAcc'
  <2> SUFFICES ASSUME NEW q \in Files
               PROVE  Acc(q)'
    BY DEF AllAcc
  <2>1. <<Root, Ctl>> \in Reported => <<Root, Ctl>> \in Heard
    BY DEF Heard
  <2> QED
    BY <1>1, <1>3, <1>4, <1>5, <2>1 DEF IInv, AllAcc, Acc
<1>8. DirEvents'
  <2>1. Deleted(pending) = {}
    BY <1>2 DEF Deleted
  <2> QED
    BY <1>1, <1>3, <2>1 DEF IInv, DirEvents, DirGone, fsVars
<1>9. GoneInv'
  <2> SUFFICES ASSUME NEW q \in Files, disk[q] = 0
               PROVE  /\ q \in Upserted(pending) \cup Upserted(batch) =>
                            Gone(q)' \/ q \in Reported \/ DirComing(Parent(q))'
                      /\ Closed(q) \/ Gone(q)' \/ DirComing(Parent(q))'
    BY <1>1, <1>3 DEF GoneInv, fsVars
  <2> QED
    BY <1>3, <1>5 DEF IInv, GoneInv
<1>10. DirPairInv' /\ FilePairInv' /\ ExtractInv' /\ NeedInv'
  BY <1>1, <1>2 DEF DirPairInv, FilePairInv, ExtractInv, NeedInv
<1> QED
  BY <1>6, <1>7, <1>8, <1>9, <1>10 DEF IInv

-----------------------------------------------------------------------------
(* Rename pairs.                                                            *)

\* An event of the file, or of its directory that has no watch, is on its way.
Aware(p) ==
    \/ p \in Reported
    \/ Parent(p) \notin watched /\ DirPath(Parent(p)) \in Reported

LEMMA ChangedAware ==
  ASSUME NEW p \in Files, Changed(p)
  PROVE  /\ p \in left \/ Aware(p)
         /\ Aware(p) \/ Governed(p) \subseteq left
         /\ disk[p] = 0 => \/ p \in left \/ (p \in Reported /\ Closed(p))
                           \/ (Parent(p) \notin watched /\ DirPath(Parent(p)) \in Reported)
BY DEF Changed, Aware

LEMMA PairKeeps ==
  ASSUME IInv, UNCHANGED <<fsVars, channel>>,
         UNCHANGED <<watched, pending, first_seen_creates, phase, expired, fresh_creates,
                     dirs_needing_watch, to_index, extracting, rescans>>,
         phase = "files", NEW x \in pairs, pairs' = pairs \ {x},
         NEW o, NEW n, o = x[1], n = x[2],
         batch' \in [DOMAIN batch' -> Kinds],
         DOMAIN batch' \subseteq DOMAIN batch \cup {n},
         DOMAIN batch \subseteq DOMAIN batch' \cup {o, n},
         Upserted(batch') \subseteq Upserted(batch) \cup {n},
         left \subseteq left', left' \subseteq Files, failures' \in 0..MaxFailures,
         index' \in [Files -> Row \cup {NoRow}],
         \A q \in Files \ {o, n} : index'[q] = index[q],
         o \in Files => index'[o] \in {NoRow, index[o]},
         \A q \in {o, n} \cap Files :
            q \in DOMAIN batch' \/ q \in left' \/ Aware(q) \/ Agrees(q)',
         \A d \in Dirs : o = DirPath(d) => o \in DOMAIN batch' \/ FilesIn(d) \subseteq left',
         \A c \in {o, n} \cap Files :
            c \in DOMAIN batch' \/ Aware(c) \/ Governed(c) \subseteq left'
  PROVE  IInv'
<1>1. /\ x \in Paths \X Files /\ o # n
      /\ Parent(o) = Parent(n) /\ Parent(n) \notin dirs_needing_watch
      /\ (o \in Files /\ disk[o] # 0) => Changed(o)
      /\ disk[n] = 0 => Changed(n)
  BY DEF IInv, FilePairInv
<1>2. o \in Paths /\ n \in Files /\ to_index = {} /\ extracting = Idle /\ DOMAIN pending = {}
  BY <1>1 DEF IInv, PhaseInv
<1>3. Reported' = Reported /\ \A q : Closed(q)' = Closed(q)
  BY FlushRests
<1>4. Heard' = Reported \cup DOMAIN batch' /\ Heard = Reported \cup DOMAIN batch
  BY <1>2, <1>3 DEF Heard
<1>5. /\ Coming' = Heard' /\ Coming = Heard
      /\ \A q \in Heard : q \in Heard' \/ q \in {o, n}
      /\ Reported \subseteq Heard'
  <2>1. Coming' = Heard' \cup to_index' \cup IF extracting' = Idle THEN {} ELSE {extracting'.path}
    BY DEF Coming, Heard, Reported
  <2> QED
    BY <1>2, <1>4, <2>1, ComingParts
<1>6. ASSUME NEW q \in Files, DirComing(Parent(q))
      PROVE  DirComing(Parent(q))' \/ q \in left'
  <2>1. Parent(q) \in Places /\ Parent(q) \notin watched /\ DirPath(Parent(q)) \in Heard
    BY <1>6, FilePaths DEF DirComing
  <2>2. CASE DirPath(Parent(q)) \in Heard'
    BY <2>1, <2>2 DEF DirComing
  <2>3. CASE DirPath(Parent(q)) \in {o, n} /\ DirPath(Parent(q)) \notin DOMAIN batch'
    <3>1. Parent(q) \in Dirs
      BY <1>2, <2>1, <2>3, FilePaths, DirPaths
    <3>2. DirPath(Parent(q)) = o /\ q \in FilesIn(Parent(q))
      BY <1>2, <2>1, <2>3, <3>1, DirPaths, Below
    <3> QED
      BY <2>3, <3>1, <3>2
  <2> QED
    BY <1>4, <1>5, <2>1, <2>2, <2>3
<1>7. ASSUME NEW q \in Files, Aware(q)
      PROVE  Acc(q)'
  BY <1>5, <1>7 DEF Aware, Acc, DirComing
\* A control file that leaves the batch.
<1>8. ASSUME NEW q \in Files, NEW c \in {o, n} \cap Files,
             q \in Governed(c), c \notin DOMAIN batch'
      PROVE  c \in Heard' \/ q \in left' \/ DirComing(Parent(q))'
  <2>1. CASE c \in Reported
    BY <1>5, <2>1
  <2>2. CASE Governed(c) \subseteq left'
    BY <1>8, <2>2
  <2>3. CASE Parent(c) \notin watched /\ DirPath(Parent(c)) \in Reported
    <3>1. Parent(c) # Root
      BY <2>3 DEF IInv, WellPlaced
    <3>2. Parent(q) = Parent(c)
      BY <1>8, <3>1, Below
    <3> QED
      BY <1>5, <2>3, <3>2 DEF DirComing
  <2> QED
    BY <1>8, <2>1, <2>2, <2>3 DEF Aware
<1>9. \A q \in Files \ {o, n} : Agrees(q)' = Agrees(q) /\ (Gone(q) => Gone(q)')
  BY FlushRests
<1>10. Shapes' /\ WellPlaced' /\ PhaseInv'
  <2>1. DOMAIN batch' \subseteq Paths /\ pairs' \subseteq Paths \X Paths
    BY <1>2, FilePaths DEF IInv, Shapes, TypeOK
  <2>2. TypeOK'
    BY <2>1 DEF IInv, Shapes, TypeOK, fsVars
  <2> QED
    BY <2>2 DEF IInv, Shapes, WellPlaced, PhaseInv, fsVars
<1>11. AllAcc'
  <2> SUFFICES ASSUME NEW q \in Files
               PROVE  Acc(q)'
    BY DEF AllAcc
  <2>1. Acc(q)
    BY DEF IInv, AllAcc
  <2>2. CASE q \in {o, n}
    <3>1. CASE q \in DOMAIN batch'
      BY <1>4, <1>5, <3>1 DEF Acc
    <3>2. CASE q \in left' \/ Agrees(q)'
      BY <3>2 DEF Acc
    <3>3. CASE Aware(q)
      BY <1>7, <3>3
    <3> QED
      BY <2>2, <3>1, <3>2, <3>3
  <2>3. CASE q \notin {o, n}
    <3>1. CASE Agrees(q) \/ q \in left
      BY <1>9, <2>3, <3>1 DEF Acc
    <3>2. CASE q \in Coming
      BY <1>5, <2>3, <3>2 DEF Acc
    <3>3. ASSUME NEW c \in {<<Parent(q), Ctl>>, <<Root, Ctl>>}, c \in Heard
          PROVE  c \in Heard' \/ q \in left' \/ DirComing(Parent(q))'
      <4>1. c \in Files /\ q \in Governed(c)
        BY Controls
      <4> QED
        BY <1>4, <1>5, <1>8, <3>3, <4>1
    <3>4. CASE DirComing(Parent(q))
      BY <1>6, <3>4 DEF Acc
    <3> QED
      BY <2>1, <3>1, <3>2, <3>3, <3>4 DEF Acc
  <2> QED
    BY <2>2, <2>3
<1>12. DirEvents'
  <2>1. Deleted(pending) = {} /\ \A d \in Dirs : DirPath(d) # n
    BY <1>2, DirPaths DEF Deleted
  <2> QED
    BY <1>3, <2>1 DEF IInv, DirEvents, DirGone, fsVars
<1>13. GoneInv'
  <2> SUFFICES ASSUME NEW q \in Files, disk[q] = 0
               PROVE  /\ q \in Upserted(pending) \cup Upserted(batch') =>
                            Gone(q)' \/ q \in Reported \/ DirComing(Parent(q))'
                      /\ Closed(q) \/ Gone(q)' \/ DirComing(Parent(q))'
    BY <1>3 DEF GoneInv, fsVars
  <2>1. CASE q = n
    <3>1. \/ n \in left \/ (n \in Reported /\ Closed(n))
          \/ (Parent(n) \notin watched /\ DirPath(Parent(n)) \in Reported)
      BY <1>1, <1>2, <2>1, ChangedAware
    <3>2. n \in left => Gone(n)'
      BY DEF Gone
    <3>3. Parent(n) \notin watched /\ DirPath(Parent(n)) \in Reported => DirComing(Parent(n))'
      BY <1>5 DEF DirComing
    <3> QED
      BY <2>1, <3>1, <3>2, <3>3
  <2>2. CASE q # n
    <3>1. /\ q \in Upserted(pending) \cup Upserted(batch) =>
                Gone(q) \/ q \in Reported \/ DirComing(Parent(q))
          /\ Closed(q) \/ Gone(q) \/ DirComing(Parent(q))
      BY DEF IInv, GoneInv
    <3>2. Gone(q) => Gone(q)'
      BY <1>9, <2>2 DEF Gone
    <3>3. DirComing(Parent(q)) => DirComing(Parent(q))' \/ Gone(q)'
      BY <1>6 DEF Gone
    <3> QED
      BY <2>2, <3>1, <3>2, <3>3
  <2> QED
    BY <2>1, <2>2
<1>14. FilePairInv'
  <2>1. \A q \in Files : Changed(q) => Changed(q)'
    BY <1>3 DEF Changed, Governed, fsVars
  <2> QED
    BY <2>1 DEF IInv, FilePairInv, fsVars
<1>15. NeedInv'
  <2>1. \A q \in Files : Parent(q) \in dirs_needing_watch => q \notin {o, n}
    BY <1>1
  <2>2. \A q \in DOMAIN batch' : Parent(q) \notin dirs_needing_watch
    BY <1>1 DEF IInv, NeedInv
  <2> QED
    BY <1>3, <1>9, <2>1, <2>2 DEF IInv, NeedInv, fsVars
<1>16. DirPairInv' /\ ExtractInv'
  BY <1>2 DEF DirPairInv, ExtractInv
<1> QED
  BY <1>10, <1>11, <1>12, <1>13, <1>14, <1>15, <1>16 DEF IInv

LEMMA HandleFilePairKeeps ==
  ASSUME IInv, HandleFilePair
  PROVE  IInv'
<1>1. /\ UNCHANGED <<fsVars, channel>>
      /\ UNCHANGED <<watched, pending, first_seen_creates, phase, expired, fresh_creates,
                     dirs_needing_watch, to_index, extracting, rescans>>
      /\ phase = "files"
  BY DEF HandleFilePair
<1>2. PICK x \in pairs, ok \in BOOLEAN :
        LET o == x[1]
            n == x[2]
        IN /\ pairs' = pairs \ {x}
           /\ IF ~Included(n)
              THEN ok /\ UNCHANGED <<batch, index, left, failures>>
              ELSE IF o \in fresh_creates
              THEN /\ ok
                   /\ batch' = Put(Without(batch, {o}), n, "create")
                   /\ left' = left \cup Governed(o) \cup
                        IF o \in Files THEN {q \in {o} : index[q] # NoRow} ELSE FilesIn(o[2])
                   /\ UNCHANGED <<index, failures>>
              ELSE /\ Accepted(ok)
                   /\ index' = IF ok THEN Rename(index, o, n) ELSE index
                   /\ left' = IF ok THEN left \cup LeaveRename(index, o, n)
                              ELSE left
                   /\ batch' = IF ok THEN Without(batch, {o, n}) ELSE batch
  BY DEF HandleFilePair
<1>3. PICK o, n : o = x[1] /\ n = x[2]
  OBVIOUS
<1>4. /\ x \in Paths \X Files /\ o # n
      /\ (o \in Files /\ disk[o] # 0) => Changed(o)
      /\ disk[n] = 0 => Changed(n)
  BY <1>1, <1>2, <1>3 DEF IInv, FilePairInv
<1>5. /\ o \in Paths /\ n \in Files /\ n \in Paths
      /\ o \notin Files => o[2] \in Dirs /\ o = DirPath(o[2]) /\ FilesIn(o[2]) \subseteq Files
      /\ \A d \in Dirs : o = DirPath(d) => o \notin Files /\ o[2] = d
      /\ Governed(o) \subseteq Files
  BY <1>3, <1>4, FilePaths, DirPaths, Below
<1>6. /\ batch \in [DOMAIN batch -> Kinds] /\ DOMAIN batch \subseteq Paths
      /\ left \subseteq Files /\ failures \in 0..MaxFailures
      /\ index \in [Files -> Row \cup {NoRow}]
  BY DEF IInv, Shapes, TypeOK
<1>7. Reported' = Reported /\ \A q \in Files : index'[q] = index[q] => Agrees(q)' = Agrees(q)
  BY <1>1, FlushRests
<1>8. pairs' = pairs \ {x}
  BY <1>2
\* What is left of a pair whose request is not accepted: its plain entries.
<1>9. CASE UNCHANGED <<batch, index, left>> /\ failures' \in 0..MaxFailures
  <2>1. Heard' = Heard /\ Coming' = Coming
    BY <1>1, <1>9 DEF Heard, Coming, Reported
  <2>2. Shapes' /\ WellPlaced' /\ PhaseInv'
    <3>1. pairs' \subseteq Paths \X Paths
      BY <1>8 DEF IInv, Shapes, TypeOK
    <3> QED
      BY <1>1, <1>9, <3>1 DEF IInv, Shapes, TypeOK, WellPlaced, PhaseInv, fsVars
  <2>3. /\ \A q : Closed(q)' = Closed(q) /\ DirComing(q)' = DirComing(q)
        /\ \A q \in Files : Gone(q)' = Gone(q) /\ Agrees(q)' = Agrees(q)
        /\ \A q \in Files : Changed(q)' = Changed(q)
    <3>1. \A q : Closed(q)' = Closed(q)
      BY <1>1, FlushRests
    <3>2. \A q : DirComing(q)' = DirComing(q)
      BY <1>1, <2>1 DEF DirComing
    <3> QED
      BY <1>1, <1>7, <1>9, <3>1, <3>2 DEF Gone, Changed, Governed, fsVars
  <2>4. AllAcc' /\ DirEvents' /\ GoneInv'
    BY <1>1, <1>7, <1>9, <2>1, <2>3 DEF IInv, AllAcc, Acc, DirEvents, DirGone, GoneInv, fsVars
  <2>5. DirPairInv' /\ FilePairInv' /\ ExtractInv' /\ NeedInv'
    BY <1>1, <1>7, <1>8, <1>9, <2>3
       DEF IInv, PhaseInv, DirPairInv, FilePairInv, ExtractInv, NeedInv, fsVars
  <2> QED
    BY <2>2, <2>4, <2>5 DEF IInv
<1>10. CASE Included(n) /\ o \in fresh_creates
  <2>1. /\ batch' = Put(Without(batch, {o}), n, "create")
        /\ left' = left \cup Governed(o) \cup
                     IF o \in Files THEN {q \in {o} : index[q] # NoRow} ELSE FilesIn(o[2])
        /\ UNCHANGED <<index, failures>>
    BY <1>2, <1>3, <1>10
  <2> DEFINE b == Without(batch, {o})
  <2>2. /\ b \in [DOMAIN b -> Kinds] /\ DOMAIN b \subseteq Paths
        /\ DOMAIN b = DOMAIN batch \ {o} /\ Upserted(b) = Upserted(batch) \ {o}
    BY <1>6, Batches, WithoutKinds
  <2> HIDE DEF b
  <2>3. batch' = Put(b, n, "create") /\ "create" \in Kinds
    BY <2>1 DEF b, Kinds
  <2>4. /\ batch' \in [DOMAIN batch' -> Kinds] /\ DOMAIN batch' = DOMAIN b \cup {n}
        /\ Upserted(batch') \subseteq Upserted(b) \cup {n}
    BY <1>5, <2>2, <2>3, PutKinds, Batches
  <2>5. /\ left \subseteq left' /\ left' \subseteq Files /\ Governed(o) \subseteq left'
        /\ \A d \in Dirs : o = DirPath(d) => FilesIn(d) \subseteq left'
    BY <1>5, <1>6, <2>1
  <2>6. o \in Files => o \in left' \/ Aware(o) \/ Agrees(o)'
    <3>1. CASE o \in Files /\ disk[o] # 0
      BY <1>4, <2>5, <3>1, ChangedAware
    <3>2. CASE o \in Files /\ disk[o] = 0
      <4>1. index[o] = NoRow => Agrees(o)
        BY <3>2 DEF Agrees, Indexable
      <4> QED
        BY <1>7, <2>1, <3>2, <4>1
    <3> QED
      BY <3>1, <3>2
  <2>7. /\ DOMAIN batch' \subseteq DOMAIN batch \cup {n}
        /\ DOMAIN batch \subseteq DOMAIN batch' \cup {o, n}
        /\ Upserted(batch') \subseteq Upserted(batch) \cup {n}
        /\ n \in DOMAIN batch'
    BY <2>2, <2>4
  <2>8. /\ \A q \in {o, n} \cap Files :
                q \in DOMAIN batch' \/ q \in left' \/ Aware(q) \/ Agrees(q)'
        /\ \A c \in {o, n} \cap Files :
                c \in DOMAIN batch' \/ Aware(c) \/ Governed(c) \subseteq left'
    BY <2>5, <2>6, <2>7
  <2>9. /\ failures' \in 0..MaxFailures /\ index' \in [Files -> Row \cup {NoRow}]
        /\ \A q \in Files \ {o, n} : index'[q] = index[q]
        /\ o \in Files => index'[o] \in {NoRow, index[o]}
    BY <1>6, <2>1
  <2> QED
    BY <1>1, <1>3, <1>8, <2>4, <2>5, <2>7, <2>8, <2>9, PairKeeps
<1>11. CASE Included(n) /\ o \notin fresh_creates /\ ok
  <2>1. /\ index' = Rename(index, o, n)
        /\ left' = left \cup LeaveRename(index, o, n)
        /\ batch' = Without(batch, {o, n})
        /\ Accepted(ok)
    BY <1>2, <1>3, <1>11
  <2>2. /\ batch' \in [DOMAIN batch' -> Kinds] /\ DOMAIN batch' = DOMAIN batch \ {o, n}
        /\ Upserted(batch') = Upserted(batch) \ {o, n}
    BY <1>6, <2>1, Batches, WithoutKinds
  <2>3. failures' \in 0..MaxFailures
    BY <1>6, <2>1, WatchAssumption DEF Accepted
  <2>4. /\ Governed(o) \subseteq left' /\ left \subseteq left' /\ left' \subseteq Files
        /\ \A d \in Dirs : o = DirPath(d) => FilesIn(d) \subseteq left'
    BY <1>5, <1>6, <2>1 DEF LeaveRename
  <2>5. /\ index' \in [Files -> Row \cup {NoRow}]
        /\ \A q \in Files \ {o, n} : index'[q] = index[q]
        /\ o \in Files => index'[o] \in {NoRow, index[o]}
    BY <1>4, <1>5, <1>6, <2>1 DEF Rename, Renamable
  <2>6. o \in Files => o \in left' \/ Aware(o) \/ Agrees(o)'
    <3>1. CASE o \in Files /\ disk[o] # 0
      BY <1>4, <2>4, <3>1, ChangedAware
    <3>2. CASE o \in Files /\ disk[o] = 0
      <4>1. index'[o] = NoRow => Agrees(o)'
        BY <1>1, <3>2 DEF Agrees, Indexable, fsVars
      <4>2. index'[o] = NoRow \/ o \in left'
        BY <1>4, <1>5, <1>6, <2>1, <3>2 DEF Rename, Renamable, LeaveRename
      <4> QED
        BY <4>1, <4>2
    <3> QED
      BY <3>1, <3>2
  <2>7. n \in left' \/ Aware(n) \/ Agrees(n)'
    <3>1. CASE disk[n] = 0
      BY <1>4, <1>5, <2>4, <3>1, ChangedAware
    <3>2. CASE disk[n] # 0
      <4>1. n \in left' \/ (index'[n] # NoRow /\ index'[n].lines = disk[n])
        BY <1>4, <1>5, <1>6, <2>1 DEF Rename, Renamable, LeaveRename
      <4>2. index'[n] # NoRow /\ index'[n].lines = disk[n] => Agrees(n)'
        BY <1>1, <3>2 DEF Agrees, fsVars
      <4> QED
        BY <4>1, <4>2
    <3> QED
      BY <3>1, <3>2
\* The new path of an accepted rename is no control file that is there.
  <2>8. Aware(n) \/ Governed(n) \subseteq left'
    <3>1. CASE n[2] # Ctl
      BY <3>1 DEF Governed
    <3>2. CASE n[2] = Ctl
      <4>1. n = <<Parent(n), Ctl>>
        BY <1>5, <3>2, FilePaths
      <4>2. disk[n] = 0
        BY <1>11, <4>1 DEF Included, NoIndex
      <4> QED
        BY <1>4, <1>5, <2>4, <4>2, ChangedAware
    <3> QED
      BY <3>1, <3>2
  <2>9. /\ \A q \in {o, n} \cap Files :
                q \in DOMAIN batch' \/ q \in left' \/ Aware(q) \/ Agrees(q)'
        /\ \A c \in {o, n} \cap Files :
                c \in DOMAIN batch' \/ Aware(c) \/ Governed(c) \subseteq left'
    BY <2>4, <2>6, <2>7, <2>8
  <2>10. /\ DOMAIN batch' \subseteq DOMAIN batch \cup {n}
         /\ DOMAIN batch \subseteq DOMAIN batch' \cup {o, n}
         /\ Upserted(batch') \subseteq Upserted(batch) \cup {n}
    BY <2>2
  <2> QED
    BY <1>1, <1>3, <1>8, <2>2, <2>3, <2>4, <2>5, <2>9, <2>10, PairKeeps
<1>12. ~Included(n) \/ (Included(n) /\ o \notin fresh_creates /\ ~ok) =>
            UNCHANGED <<batch, index, left>> /\ failures' \in 0..MaxFailures
  BY <1>2, <1>3, <1>6, WatchAssumption DEF Accepted
<1> QED
  BY <1>9, <1>10, <1>11, <1>12

\* What handle_dir_rename finds in the two directories.
LEMMA WalkedFiles ==
  ASSUME NEW d \in Dirs, NEW e \in Dirs, d # e
  PROVE  /\ \A p \in Walked(e) :
                /\ p \in Files /\ Parent(p) = e /\ disk[p] # 0
                /\ OldPath(d, p) \in Files /\ Parent(OldPath(d, p)) = d /\ OldPath(d, p) # p
         /\ \A p \in Files : Parent(p) = e /\ disk[p] # 0 => p \in Walked(e)
         /\ Extracted(d, e) \cup Renamed(d, e) \cup Dropped(d, e) \subseteq Walked(e)
         /\ Extracted(d, e) \cap Renamed(d, e) = {}
         /\ \A p \in Walked(e) : Included(p) => p \in Extracted(d, e) \cup Renamed(d, e)
<1>1. /\ d \in Places /\ e \in Places
      /\ FilesIn(e) = {p \in Files : Parent(p) = e}
  BY Below, DirPaths
<1>2. ASSUME NEW p \in Files, Parent(p) = e
      PROVE  OldPath(d, p) \in Files /\ Parent(OldPath(d, p)) = d /\ OldPath(d, p) # p
  BY <1>1, <1>2, FilePaths DEF OldPath
<1>3. \A p : p \in Walked(e) <=> p \in Files /\ Parent(p) = e /\ disk[p] # 0
  BY <1>1 DEF Walked
<1>4. /\ \A p : p \in Renamed(d, e) <=>
                    p \in Walked(e) /\ Included(p) /\ OldPath(d, p) \in SourceIncludes
      /\ \A p : p \in Dropped(d, e) <=>
                    p \in Walked(e) /\ ~Included(p) /\ OldPath(d, p) \in SourceIncludes
      /\ \A p : p \in Extracted(d, e) <=>
                    p \in Walked(e) /\ Included(p) /\ OldPath(d, p) \notin SourceIncludes
  BY DEF Renamed, Dropped, Extracted
<1> QED
  BY <1>2, <1>3, <1>4

\* A rename, alone: the new row is the file's or the new path is left.
LEMMA RenameRows ==
  ASSUME index \in [Files -> Row \cup {NoRow}], NEW o \in Files, NEW n \in Files, o # n
  PROVE  /\ Rename(index, o, n) \in [Files -> Row \cup {NoRow}]
         /\ \/ n \in LeaveRename(index, o, n)
            \/ /\ Rename(index, o, n)[n] # NoRow
               /\ Rename(index, o, n)[n].lines = disk[n]
         /\ LeaveRename(index, o, n) \subseteq Files
<1>1. Governed(o) \subseteq Files
  BY FilePaths, Below
<1> QED
  BY <1>1 DEF Rename, Renamable, LeaveRename

\* What a request for a renamed directory leaves behind: the files of the new
\* directory agree or are left, and so are the missing ones of the old one.
LEMMA DirRenameRows ==
  ASSUME Shapes, NEW d \in Dirs, NEW e \in Dirs, d # e,
         disk' = disk, NEW ok \in BOOLEAN, DirRename(d, e, ok)
  PROVE  /\ index' \in [Files -> Row \cup {NoRow}]
         /\ left \subseteq left' /\ left' \subseteq Files /\ failures' \in 0..MaxFailures
         /\ \A q \in Files : Parent(q) \notin {d, e} => index'[q] = index[q]
         /\ \A q \in Files : Parent(q) = e => Agrees(q)' \/ q \in left'
         /\ \A q \in Files : Parent(q) \in {d, e} /\ disk[q] = 0 => Gone(q)'
<1>1. PICK unread \in SUBSET Extracted(d, e) :
        /\ Accepted(ok /\ unread = {})
        /\ index' = IF ok THEN RowsAfter(d, e, unread) ELSE index
        /\ left' = left \cup IF ok THEN RenameLeaves(d, e, RowsAfter(d, e, unread))
                             ELSE FilesIn(d) \cup FilesIn(e)
  BY DEF DirRename
<1> DEFINE after == RowsAfter(d, e, unread)
           new == Extracted(d, e)
           renamed == Renamed(d, e)
           old(p) == OldPath(d, p)
           leaves == RenameLeaves(d, e, after)
           text(p) == IF p \in unread THEN 0 ELSE disk[p]
<1>2. /\ FilesIn(d) = {p \in Files : Parent(p) = d}
      /\ FilesIn(e) = {p \in Files : Parent(p) = e}
      /\ index \in [Files -> Row \cup {NoRow}] /\ left \subseteq Files
      /\ disk \in [Files -> Version]
  BY Below, DirPaths DEF Shapes, TypeOK
<1>3. failures' \in 0..MaxFailures
  <2>1. failures \in 0..MaxFailures
    BY DEF Shapes, TypeOK
  <2> QED
    BY <1>1, <2>1, WatchAssumption DEF Accepted
<1>4. CASE ~ok
  <2>1. index' = index /\ left' = left \cup FilesIn(d) \cup FilesIn(e)
    BY <1>1, <1>4
  <2> QED
    BY <1>2, <1>3, <2>1 DEF Gone
<1>5. CASE ok
  <2>1. /\ \A p \in new \cup renamed \cup Dropped(d, e) :
                /\ p \in Files /\ Parent(p) = e /\ disk[p] # 0
                /\ old(p) \in Files /\ Parent(old(p)) = d /\ old(p) # p
        /\ new \cap renamed = {}
        /\ \A p \in Files : Parent(p) = e /\ disk[p] # 0 /\ Included(p) => p \in new \cup renamed
    BY WalkedFiles
  <2>2. /\ \A q \in Files : Parent(q) \notin {d, e} => after[q] = index[q]
        /\ \A q \in new :
            after[q] = Upsert(index, q, [lines |-> text(q), mtime |-> disk[q]])[q]
        /\ \A q \in renamed : after[q] = Rename(index, old(q), q)[q]
        /\ \A q \in Files : Parent(q) = e /\ q \notin new \cup renamed => after[q] = index[q]
        /\ \A q \in Files : Parent(q) = d =>
                after[q] \in {index[q], NoRow, Rename(index, q, OldPath(e, q))[q]}
    BY <2>1 DEF RowsAfter
  <2>3. ASSUME NEW q \in new
        PROVE  after[q] \in Row /\ after[q] # NoRow
    <3>1. 0 \in Version
      BY WatchAssumption DEF Version
    <3>2. q \in Files /\ disk[q] \in Version /\ text(q) \in Version
      BY <1>2, <2>1, <3>1
    <3>3. /\ [lines |-> text(q), mtime |-> disk[q]] \in Row
          /\ [lines |-> text(q), mtime |-> disk[q]] # NoRow
      BY <3>2, RowType
    <3> HIDE DEF after, new, text
    <3> QED
      BY <1>2, <2>2, <3>2, <3>3 DEF Upsert
  <2>4. after \in [Files -> Row \cup {NoRow}]
    <3>1. after = [q \in Files |-> after[q]]
      BY DEF RowsAfter
    <3> SUFFICES ASSUME NEW q \in Files
                 PROVE  after[q] \in Row \cup {NoRow}
      BY <3>1
    <3> HIDE DEF after, new, renamed, old, text
    <3>2. CASE q \in new
      BY <2>3, <3>2
    <3>3. CASE q \in renamed
      BY <1>2, <2>1, <2>2, <3>3, RenameRows
    <3>4. CASE q \notin new \cup renamed /\ Parent(q) = d
      <4>1. OldPath(e, q) \in Files /\ q # OldPath(e, q)
        BY <3>4, FilePaths, DirPaths DEF OldPath
      <4>2. Rename(index, q, OldPath(e, q)) \in [Files -> Row \cup {NoRow}]
        BY <1>2, <4>1, RenameRows
      <4> QED
        BY <1>2, <2>2, <3>4, <4>2
    <3>5. CASE q \notin new \cup renamed /\ Parent(q) # d
      BY <1>2, <2>2, <3>5
    <3> QED
      BY <3>2, <3>3, <3>4, <3>5
  <2>5. /\ index' = after
        /\ left' = left \cup leaves
    BY <1>1, <1>5
  <2>6. /\ \A q \in renamed : LeaveRename(index, old(q), q) \subseteq leaves
        /\ \A q \in new : after[q].lines # disk[q] => q \in leaves
        /\ \A q \in Files : Parent(q) \in {d, e} /\ disk[q] = 0 /\ after[q] # NoRow =>
                q \in leaves
        /\ leaves \subseteq Files
    <3>1. \A q \in renamed : LeaveRename(index, old(q), q) \subseteq Files
      BY <1>2, <2>1, RenameRows
    <3>2. \A q \in new : q \in Files
      BY <2>1
    <3> DEFINE unlike == UNION {LeaveRename(index, old(q), q) : q \in renamed}
               late == {q \in new : after[q].lines # disk[q]}
               kept == {q \in FilesIn(d) \cup FilesIn(e) : disk[q] = 0 /\ after[q] # NoRow}
    <3>3. leaves = unlike \cup late \cup kept
      BY DEF RenameLeaves
    <3> HIDE DEF after, new, renamed, old, text
    <3>4. /\ \A q \in renamed : LeaveRename(index, old(q), q) \subseteq unlike
          /\ unlike \subseteq Files
      BY <3>1
    <3>5. /\ \A q \in new : after[q].lines # disk[q] => q \in late
          /\ late \subseteq Files
      BY <3>2
    <3>6. /\ \A q \in Files : Parent(q) \in {d, e} /\ disk[q] = 0 /\ after[q] # NoRow => q \in kept
          /\ kept \subseteq Files
      BY <1>2
    <3> HIDE DEF unlike, late, kept, leaves
    <3> QED
      BY <3>3, <3>4, <3>5, <3>6
  <2> HIDE DEF after, new, renamed, old, leaves, text
  <2>7. \A q \in Files : Included(q)' = Included(q)
    BY DEF Included, NoIndex
  <2>8. ASSUME NEW q \in Files, Parent(q) \in {d, e}, disk[q] = 0
        PROVE  Gone(q)'
    BY <2>5, <2>6, <2>8 DEF Gone
  <2>9. ASSUME NEW q \in Files, Parent(q) = e
        PROVE  Agrees(q)' \/ q \in left'
    <3>1. index'[q] # NoRow /\ index'[q].lines = disk[q] /\ disk[q] # 0 => Agrees(q)'
      BY DEF Agrees
    <3>2. CASE q \in new
      BY <2>1, <2>3, <2>5, <2>6, <3>1, <3>2
    <3>3. CASE q \in renamed
      <4>1. \/ q \in LeaveRename(index, old(q), q)
            \/ index'[q] # NoRow /\ index'[q].lines = disk[q]
        BY <1>2, <2>1, <2>2, <2>5, <3>3, RenameRows
      <4> QED
        BY <2>1, <2>5, <2>6, <3>1, <3>3, <4>1
    <3>4. CASE disk[q] # 0 /\ q \notin new \cup renamed
      <4>1. ~Included(q)
        BY <2>1, <2>9, <3>4
      <4> QED
        BY <2>7, <3>4, <4>1 DEF Agrees, Indexable
    <3>5. CASE disk[q] = 0
      <4>1. index'[q] = NoRow => Agrees(q)'
        BY <3>5 DEF Agrees, Indexable
      <4> QED
        BY <2>5, <2>6, <2>9, <3>5, <4>1
    <3> QED
      BY <3>2, <3>3, <3>4, <3>5
  <2> QED
    BY <1>2, <1>3, <2>2, <2>4, <2>5, <2>6, <2>8, <2>9
<1> QED
  BY <1>4, <1>5

\* A pair of directories, or of a file and a new directory, that is dealt with:
\* its paths and all below them leave the batch, and the files below are as the
\* request left them.
LEMMA DirPairKeeps ==
  ASSUME IInv, UNCHANGED <<fsVars, channel>>,
         UNCHANGED <<watched, pending, first_seen_creates, phase, expired, fresh_creates,
                     to_index, extracting, rescans>>,
         phase = "dirs", pairs' = {}, dirs_needing_watch = {},
         NEW o \in Paths, NEW e \in Dirs, o # DirPath(e), Parent(o) = Root,
         o \notin Files => DirGone(o[2]),
         dirs_needing_watch' = {e},
         batch' = Without(batch, {p \in DOMAIN batch :
                    p \in {o, DirPath(e)} \/ DirPath(Parent(p)) \in {o, DirPath(e)}}),
         left \subseteq left', left' \subseteq Files, failures' \in 0..MaxFailures,
         index' \in [Files -> Row \cup {NoRow}],
         o \in Files => {o} \cup Governed(o) \subseteq left',
         \A q \in Files : Parent(q) = e => Agrees(q)' \/ q \in left',
         \A q \in Files : DirPath(Parent(q)) \in {o, DirPath(e)} /\ disk[q] = 0 => Gone(q)',
         \A q \in Files : DirPath(Parent(q)) \notin {o, DirPath(e)} => index'[q] = index[q]
  PROVE  IInv'
<1> DEFINE n == DirPath(e)
           S == {p \in DOMAIN batch : p \in {o, n} \/ DirPath(Parent(p)) \in {o, n}}
<1>1. /\ to_index = {} /\ extracting = Idle /\ DOMAIN pending = {}
      /\ to_index' = {} /\ extracting' = Idle /\ DOMAIN pending' = {}
  BY DEF IInv, PhaseInv
<1>2. /\ DOMAIN batch' = DOMAIN batch \ S
      /\ Upserted(batch') = Upserted(batch) \ S
      /\ batch' \in [DOMAIN batch' -> Kinds] /\ DOMAIN batch' \subseteq Paths
  <2> HIDE DEF S
  <2>1. batch' = Without(batch, S)
    BY DEF S
  <2>2. batch \in [DOMAIN batch -> Kinds] /\ DOMAIN batch \subseteq Paths
    BY DEF IInv, Shapes, TypeOK
  <2>3. /\ Without(batch, S) \in [DOMAIN Without(batch, S) -> Kinds]
        /\ DOMAIN Without(batch, S) \subseteq Paths
    BY <2>2, WithoutKinds
  <2>4. /\ DOMAIN Without(batch, S) = DOMAIN batch \ S
        /\ Upserted(Without(batch, S)) = Upserted(batch) \ S
    BY Batches
  <2>5. Upserted(batch') = Upserted(Without(batch, S))
    BY <2>1 DEF Upserted
  <2> QED
    BY <2>1, <2>3, <2>4, <2>5
<1>3. /\ Reported' = Reported /\ \A q : Closed(q)' = Closed(q)
      /\ Heard = Reported \cup DOMAIN batch /\ Coming = Heard
      /\ Heard' = Reported \cup DOMAIN batch' /\ Coming' = Heard'
  <2>1. Reported' = Reported /\ \A q : Closed(q)' = Closed(q)
    BY FlushRests
  <2>2. Coming' = Heard' \cup to_index' \cup IF extracting' = Idle THEN {} ELSE {extracting'.path}
    BY DEF Coming, Heard, Reported
  <2> QED
    BY <1>1, <2>1, <2>2, ComingParts DEF Heard
<1>4. \A q \in Heard : q \in Heard' \/ q \in {o, n} \/ DirPath(Parent(q)) \in {o, n}
  BY <1>2, <1>3
\* Other files keep their entries, rows and the events that count for them.
<1>5. DirPath(Root) \notin {o, n}
  BY DirPaths, WatchAssumption DEF Places
<1>6. ASSUME NEW q \in Files, DirPath(Parent(q)) \notin {o, n}
      PROVE  /\ Agrees(q)' = Agrees(q) /\ (Gone(q) => Gone(q)')
             /\ DirComing(Parent(q)) => DirComing(Parent(q))'
             /\ q \in Heard => q \in Heard' \/ q = o
             /\ <<Parent(q), Ctl>> \in Heard => <<Parent(q), Ctl>> \in Heard' \/ q \in left'
             /\ <<Root, Ctl>> \in Heard => <<Root, Ctl>> \in Heard' \/ q \in left'
  <2> DEFINE c == <<Parent(q), Ctl>>
             r == <<Root, Ctl>>
  <2>1. q # n /\ c # n /\ r # n
    BY FilePaths, Controls
  <2>2. /\ c \in Files /\ q \in Governed(c) /\ Parent(c) = Parent(q)
        /\ r \in Files /\ q \in Governed(r) /\ Parent(r) = Root
    BY Controls
  <2> HIDE DEF c, r
  <2>3. q \in Heard => q \in Heard' \/ q = o
    BY <1>4, <1>6, <2>1
  <2>4. c \in Heard => c \in Heard' \/ q \in left'
    BY <1>4, <1>6, <2>1, <2>2
  <2>5. r \in Heard => r \in Heard' \/ q \in left'
    BY <1>4, <1>5, <2>1, <2>2
  <2>6. ASSUME DirComing(Parent(q))
        PROVE  DirComing(Parent(q))'
    <3>1. Parent(q) \notin watched /\ DirPath(Parent(q)) \in Heard
      BY <2>6 DEF DirComing
    <3>2. Parent(DirPath(Parent(q))) = Root
      BY DEF DirPath, Parent
    <3> QED
      BY <1>4, <1>5, <1>6, <3>1, <3>2 DEF DirComing
  <2>7. index'[q] = index[q]
    BY <1>6
  <2> QED
    BY <2>3, <2>4, <2>5, <2>6, <2>7, FlushRests DEF c, r
\* The directories of the pair: the missing files are known to be gone, and what
\* there is in a directory that is there again has its event coming.
<1>7. \A q \in Files : DirPath(Parent(q)) = n => Parent(q) = e
  BY FilePaths, DirPaths DEF DirPath
<1>8. ASSUME NEW q \in Files, DirPath(Parent(q)) = o, disk[q] # 0
      PROVE  DirComing(Parent(q))'
  <2>1. Parent(q) \in Dirs /\ o \notin Files /\ o[2] = Parent(q)
    BY <1>8, FilePaths, DirPaths
  <2>2. Parent(q) \in dirs
    BY <1>8, <2>1, DirPaths DEF IInv, WellPlaced
  <2>3. Parent(q) \notin watched /\ o \in Reported
    BY <1>8, <2>1, <2>2 DEF DirGone
  <2> QED
    BY <1>3, <1>8, <2>3 DEF DirComing
<1>9. ASSUME NEW q \in Files, DirPath(Parent(q)) \in {o, n}, disk[q] = 0
      PROVE  Agrees(q)' \/ q \in left'
  BY <1>9 DEF Gone, Agrees, Indexable, fsVars
<1>10. Shapes' /\ WellPlaced' /\ PhaseInv'
  <2>1. TypeOK'
    BY <1>2 DEF IInv, Shapes, TypeOK, fsVars
  <2> QED
    BY <1>1, <2>1 DEF IInv, Shapes, WellPlaced, PhaseInv, fsVars
<1>11. AllAcc'
  <2> SUFFICES ASSUME NEW q \in Files
               PROVE  Acc(q)'
    BY DEF AllAcc
  <2>1. CASE DirPath(Parent(q)) \in {o, n}
    BY <1>7, <1>8, <1>9, <2>1 DEF Acc
  <2>2. CASE DirPath(Parent(q)) \notin {o, n}
    <3>1. Acc(q)
      BY DEF IInv, AllAcc
    <3>2. Acc(q)' = (\/ Agrees(q)' \/ q \in left'
                     \/ q \in Heard' \/ <<Parent(q), Ctl>> \in Heard' \/ <<Root, Ctl>> \in Heard'
                     \/ DirComing(Parent(q))')
      BY <1>3 DEF Acc
    <3> QED
      BY <1>3, <1>6, <2>2, <3>1, <3>2 DEF Acc
  <2> QED
    BY <2>1, <2>2
<1>12. DirEvents'
  <2>1. Deleted(pending) = {}
    BY <1>1 DEF Deleted
  <2> QED
    BY <1>2, <1>3, <2>1 DEF IInv, DirEvents, DirGone, fsVars
<1>13. GoneInv'
  <2> SUFFICES ASSUME NEW q \in Files, disk[q] = 0
               PROVE  /\ q \in Upserted(pending) \cup Upserted(batch') =>
                            Gone(q)' \/ q \in Reported \/ DirComing(Parent(q))'
                      /\ Closed(q) \/ Gone(q)' \/ DirComing(Parent(q))'
    BY <1>3 DEF GoneInv, fsVars
  <2>1. CASE DirPath(Parent(q)) \in {o, n}
    BY <2>1
  <2>2. CASE DirPath(Parent(q)) \notin {o, n}
    BY <1>2, <1>6, <2>2 DEF IInv, GoneInv
  <2> QED
    BY <2>1, <2>2
<1>14. NeedInv'
  <2>1. \A p \in DOMAIN batch' : Parent(p) # e
    BY <1>2
  <2>2. \A q \in Files : Parent(q) = e => DirPath(Parent(q)) = n
    OBVIOUS
  <2> QED
    BY <2>1, <2>2 DEF NeedInv, fsVars
<1>15. DirPairInv' /\ FilePairInv' /\ ExtractInv'
  BY <1>1 DEF DirPairInv, FilePairInv, ExtractInv
<1> QED
  BY <1>10, <1>11, <1>12, <1>13, <1>14, <1>15 DEF IInv

LEMMA HandleDirPairKeeps ==
  ASSUME IInv, HandleDirPair
  PROVE  IInv'
<1>1. /\ UNCHANGED <<fsVars, channel>>
      /\ UNCHANGED <<watched, pending, first_seen_creates, phase, expired, fresh_creates,
                     to_index, extracting, rescans>>
      /\ phase = "dirs"
  BY DEF HandleDirPair
<1>2. PICK x \in pairs, ok \in BOOLEAN :
        LET o == x[1]
            n == x[2]
        IN /\ IF o \in Files THEN FileAsDirRename(o, n, ok) ELSE DirRename(o[2], n[2], ok)
           /\ pairs' = pairs \ {x}
           /\ batch' = Without(batch, {p \in DOMAIN batch :
                          p \in {o, n} \/ DirPath(Parent(p)) \in {o, n}})
           /\ dirs_needing_watch' = dirs_needing_watch \cup {n[2]}
  BY DEF HandleDirPair
<1>3. PICK e \in Dirs : x[2] = DirPath(e)
  BY <1>1 DEF IInv, DirPairInv
<1>4. PICK o : o = x[1]
  OBVIOUS
<1>5. /\ o \in Paths /\ Parent(o) = Root /\ o # DirPath(e)
      /\ o \notin Files => DirGone(o[2])
      /\ pairs = {x} /\ dirs_needing_watch = {}
  BY <1>1, <1>3, <1>4 DEF IInv, DirPairInv
<1>6. /\ pairs' = {} /\ dirs_needing_watch' = {e}
      /\ o \in Files => FileAsDirRename(o, DirPath(e), ok)
      /\ o \notin Files => DirRename(o[2], e, ok)
      /\ batch' = Without(batch, {p \in DOMAIN batch :
                    p \in {o, DirPath(e)} \/ DirPath(Parent(p)) \in {o, DirPath(e)}})
  BY <1>2, <1>3, <1>4, <1>5, DirPaths
<1>7. /\ failures \in 0..MaxFailures
      /\ left \subseteq Files /\ index \in [Files -> Row \cup {NoRow}] /\ Shapes
  BY DEF IInv, Shapes, TypeOK
<1>8. /\ failures' \in 0..MaxFailures
      /\ left \subseteq left' /\ left' \subseteq Files
      /\ index' \in [Files -> Row \cup {NoRow}]
      /\ o \in Files => {o} \cup Governed(o) \subseteq left'
      /\ \A q \in Files : Parent(q) = e => Agrees(q)' \/ q \in left'
      /\ \A q \in Files : DirPath(Parent(q)) \in {o, DirPath(e)} /\ disk[q] = 0 => Gone(q)'
      /\ \A q \in Files : DirPath(Parent(q)) \notin {o, DirPath(e)} => index'[q] = index[q]
  <2>1. CASE o \in Files
    <3>1. index' = index /\ left' = left \cup {o} \cup Governed(o) \cup FilesIn(e)
      BY <1>6, <2>1, DirPaths DEF FileAsDirRename
    <3>2. /\ Governed(o) \subseteq Files
          /\ FilesIn(e) = {q \in Files : Parent(q) = e}
      BY <1>5, Below, DirPaths
    <3>3. \A q \in Files : DirPath(Parent(q)) \in {o, DirPath(e)} => Parent(q) = e
      <4>1. \A q \in Files : DirPath(Parent(q)) \in Paths => Parent(q) \in Dirs
        BY FilePaths, DirPaths
      <4> QED
        BY <1>5, <2>1, <4>1, DirPaths
    <3>4. failures' \in 0..MaxFailures
      BY <1>6, <1>7, <2>1, WatchAssumption DEF FileAsDirRename, Accepted
    <3> QED
      BY <1>7, <2>1, <3>1, <3>2, <3>3, <3>4 DEF Gone
  <2>2. CASE o \notin Files
    <3>1. o[2] \in Dirs /\ o = DirPath(o[2]) /\ o[2] # e
      BY <1>5, <2>2, DirPaths
    <3>2. \A q \in Files : DirPath(Parent(q)) \in {o, DirPath(e)} <=> Parent(q) \in {o[2], e}
      <4>1. \A q \in Files : DirPath(Parent(q)) \in Paths => Parent(q) \in Dirs
        BY FilePaths, DirPaths
      <4> QED
        BY <1>5, <3>1, <4>1, DirPaths
    <3>3. /\ index' \in [Files -> Row \cup {NoRow}]
          /\ left \subseteq left' /\ left' \subseteq Files /\ failures' \in 0..MaxFailures
          /\ \A q \in Files : Parent(q) \notin {o[2], e} => index'[q] = index[q]
          /\ \A q \in Files : Parent(q) = e => Agrees(q)' \/ q \in left'
          /\ \A q \in Files : Parent(q) \in {o[2], e} /\ disk[q] = 0 => Gone(q)'
      <4>1. disk' = disk /\ DirRename(o[2], e, ok)
        BY <1>1, <1>6, <2>2 DEF fsVars
      <4> QED
        BY <1>7, <3>1, <4>1, DirRenameRows
    <3> QED
      BY <2>2, <3>2, <3>3
  <2> QED
    BY <2>1, <2>2
<1> QED
  BY <1>1, <1>3, <1>4, <1>5, <1>6, <1>7, <1>8, DirPairKeeps

-----------------------------------------------------------------------------
(* The theorems.                                                            *)

LEMMA InitIInv ==
  ASSUME Init
  PROVE  IInv
<1>1. /\ disk = [p \in Files |-> IF p \in InitFiles THEN 1 ELSE 0]
      /\ dirs = {d \in Dirs : \E p \in InitFiles : Parent(p) = d}
      /\ watched = dirs \cup {Root} /\ channel = <<>>
      /\ pending = None /\ batch = None /\ first_seen_creates = {} /\ fresh_creates = {}
      /\ phase = "wait" /\ expired = FALSE /\ pairs = {} /\ dirs_needing_watch = {}
      /\ to_index = {} /\ extracting = Idle /\ rescans = {} /\ left = {}
      /\ ops = 0 /\ failures = 0
      /\ index = [p \in Files |-> IF disk[p] # 0 /\ Included(p)
                                  THEN [lines |-> 1, mtime |-> 1] ELSE NoRow]
  BY DEF Init
<1>2. /\ 0 \in Version /\ 1 \in Version /\ InitFiles \subseteq Files
      /\ [lines |-> 1, mtime |-> 1] \in Row /\ [lines |-> 1, mtime |-> 1] # NoRow
  BY WatchAssumption, RowType DEF Version
<1>3. /\ None \in [DOMAIN None -> Kinds] /\ DOMAIN None = {}
      /\ Upserted(None) = {} /\ Deleted(None) = {}
  BY Batches DEF None
<1>4. disk \in [Files -> Version] /\ index \in [Files -> Row \cup {NoRow}]
  BY <1>1, <1>2
<1>5. \A p \in Files : Agrees(p) /\ (disk[p] = 0 => Gone(p))
  BY <1>1, <1>2 DEF Agrees, Indexable, Gone
<1>6. TypeOK
  <2>1. channel \in Seq(Events) /\ watched \subseteq Places /\ dirs \subseteq Dirs
    BY <1>1 DEF Places
  <2>2. ops \in 0..MaxOps /\ failures \in 0..MaxFailures
    BY <1>1, WatchAssumption
  <2> QED
    BY <1>1, <1>3, <1>4, <2>1, <2>2 DEF TypeOK
<1>7. WellPlaced
  <2>1. ASSUME NEW p \in Files, disk[p] # 0
        PROVE  Parent(p) \in dirs \cup {Root}
    BY <1>1, <2>1, FilePaths DEF Places
  <2> QED
    BY <1>1, <2>1 DEF WellPlaced
<1>8. DOMAIN channel = {}
  BY <1>1
<1>9. Shapes /\ PhaseInv
  BY <1>1, <1>3, <1>6, <1>8 DEF Shapes, PhaseInv
<1>10. AllAcc /\ GoneInv
  BY <1>1, <1>3, <1>5 DEF AllAcc, Acc, GoneInv
<1>11. DirEvents
  BY <1>1, <1>3, <1>8 DEF DirEvents, Closed
<1>12. DirPairInv /\ FilePairInv /\ ExtractInv /\ NeedInv
  BY <1>1, <1>3 DEF DirPairInv, FilePairInv, ExtractInv, NeedInv
<1> QED
  BY <1>7, <1>9, <1>10, <1>11, <1>12 DEF IInv

\* Stuttering changes nothing the invariant looks at.
LEMMA StutterKeeps ==
  ASSUME IInv, UNCHANGED vars
  PROVE  IInv'
<1>1. /\ UNCHANGED fsVars /\ UNCHANGED flushVars
      /\ UNCHANGED <<watched, channel, pending, first_seen_creates, phase, expired,
                     index, rescans, left, failures>>
  BY DEF vars
<1>2. Still
  BY <1>1 DEF Still, flushVars, Heard, Coming, Reported
<1>3. Shapes' /\ WellPlaced' /\ PhaseInv'
  BY <1>1 DEF IInv, Shapes, TypeOK, WellPlaced, PhaseInv, fsVars, flushVars
<1>4. AllAcc' /\ DirEvents' /\ GoneInv'
  BY <1>1, <1>2, StillFacts DEF IInv, AllAcc, DirEvents, GoneInv, fsVars, flushVars
<1>5. DirPairInv' /\ FilePairInv' /\ ExtractInv' /\ NeedInv'
  <2>1. \A p \in Files : Changed(p)' = Changed(p)
    BY <1>2, StillFacts
  <2>2. FilePairInv'
    BY <1>1, <2>1 DEF IInv, FilePairInv, fsVars, flushVars
  <2>3. DirPairInv'
    BY <1>1, <1>2, StillFacts, DirPaths DEF IInv, DirPairInv, flushVars
  <2>4. ExtractInv'
    BY <1>1, <2>1 DEF IInv, ExtractInv, Shapes, TypeOK, fsVars, flushVars
  <2>5. NeedInv'
    BY <1>1, <1>2, StillFacts DEF IInv, NeedInv, fsVars, flushVars
  <2> QED
    BY <2>2, <2>3, <2>4, <2>5
<1> QED
  BY <1>3, <1>4, <1>5 DEF IInv

LEMMA InvHolds == Spec => []IInv
<1>1. Init => IInv
  BY InitIInv
<1>2. IInv /\ [Next]_vars => IInv'
  <2> SUFFICES ASSUME IInv, [Next]_vars
               PROVE  IInv'
    OBVIOUS
  <2>1. CASE FileSystem
    BY <2>1, FileSystemKeeps
  <2>2. CASE Receive
    BY <2>2, ReceiveKeeps
  <2>3. CASE Expire \/ KeepWaiting
    BY <2>3, WaitKeeps
  <2>4. CASE StartFlush
    BY <2>4, StartFlushKeeps
  <2>5. CASE HandleDirPair
    BY <2>5, HandleDirPairKeeps
  <2>6. CASE PairFiles
    BY <2>6, PairFilesKeeps
  <2>7. CASE HandleFilePair
    BY <2>7, HandleFilePairKeeps
  <2>8. CASE RegisterRenamed
    BY <2>8, RegisterRenamedKeeps
  <2>9. CASE HandleEntry
    BY <2>9, HandleEntryKeeps
  <2>10. CASE Extract
    BY <2>10, ExtractKeeps
  <2>11. CASE SendUpdate
    BY <2>11, SendUpdateKeeps
  <2>12. CASE EndFlush
    BY <2>12, EndFlushKeeps
  <2>13. CASE UNCHANGED vars
    BY <2>13, StutterKeeps
  <2> QED
    BY <2>1, <2>2, <2>3, <2>4, <2>5, <2>6, <2>7, <2>8, <2>9, <2>10, <2>11, <2>12, <2>13
    DEF Next, Loop
<1> QED
  BY <1>1, <1>2, PTL DEF Spec

\* Every variable of run_event_loop keeps its type, for any directories, names,
\* globs and numbers of operations and failures: in particular the rows stay
\* those of files, whatever kind of path a rename pair names.
THEOREM TypeCorrect == Spec => []TypeOK
<1>1. IInv => TypeOK
  BY DEF IInv, Shapes
<1> QED
  BY <1>1, InvHolds, PTL

\* run_event_loop loses no event: at every moment, for any interleaving of the
\* file system with the window, the flush and the extraction, a file whose row
\* differs from the disk has an event in the channel, an entry in the window or the
\* batch, or an extraction to come, its own, its directory's or that of its
\* control file, or is one of the files the code leaves to the next scan.
THEOREM FilesAreAccounted == Spec => []Accounted
<1>1. IInv => Accounted
  <2> SUFFICES ASSUME IInv, NEW p \in Files
               PROVE  Agrees(p) \/ InFlight(p) \/ p \in left
    BY DEF Accounted
  <2>1. Acc(p)
    BY DEF IInv, AllAcc
  <2>2. Heard \subseteq Coming
    BY ComingParts
  <2>3. DirComing(Parent(p)) => DirPath(Parent(p)) \in Coming
    BY <2>2 DEF DirComing
  <2> QED
    BY <2>1, <2>2, <2>3 DEF Acc, InFlight
<1> QED
  BY <1>1, InvHolds, PTL

-----------------------------------------------------------------------------
(* Selection: the walk.                                                     *)

\* The library's well-founded order of the natural numbers, without operators.
LEMMA LeastNat ==
    ASSUME NEW T, T \subseteq Nat, T # {}
    PROVE  \E n \in T : \A m \in T : ~(m < n)
<1> DEFINE R == OpToRel(<, Nat)
<1>1. IsWellFoundedOn(R, Nat)
  BY NatLessThanWellFounded
<1> HIDE DEF R
<1>2. \E n \in T : \A m \in T : ~(<<m, n>> \in R)
  BY <1>1, WFMin, Zenon
<1> QED
  BY <1>2 DEF R, OpToRel

\* Induction, on a set in place of a predicate.
LEMMA SetInduction ==
    ASSUME NEW S, 0 \in S, \A n \in Nat : n \in S => n + 1 \in S
    PROVE  Nat \subseteq S
<1> SUFFICES ASSUME Nat \ S # {} PROVE FALSE
  OBVIOUS
<1>1. PICK n \in Nat \ S : \A m \in Nat \ S : ~(m < n)
  BY LeastNat
<1>2. n # 0 /\ n - 1 \in Nat
  OBVIOUS
<1> QED
  BY <1>1, <1>2

-----------------------------------------------------------------------------
(* Prefixes.                                                                *)

LEMMA PrefixMeans ==
    ASSUME NEW S, NEW s \in Seq(S), NEW t \in Seq(S)
    PROVE  IsPrefix(s, t) <=> Len(s) <= Len(t) /\ \A i \in 1 .. Len(s) : s[i] = t[i]
<1>1. ASSUME Len(s) <= Len(t)
      PROVE  SubSeq(s, 1, Len(s)) = SubSeq(t, 1, Len(s)) <=> \A i \in 1 .. Len(s) : s[i] = t[i]
  <2>1. /\ SubSeq(s, 1, Len(s)) = [i \in 1 .. Len(s) |-> s[i]]
        /\ SubSeq(t, 1, Len(s)) = [i \in 1 .. Len(s) |-> t[i]]
    BY <1>1
  <2> QED
    BY <2>1
<1> QED
  BY <1>1 DEF IsPrefix

LEMMA SameSequence ==
    ASSUME NEW S, NEW s \in Seq(S), NEW t \in Seq(S), Len(s) = Len(t), \A i \in 1 .. Len(s) : s[i] = t[i]
    PROVE  s = t
<1>1. s = [i \in 1 .. Len(s) |-> s[i]] /\ t = [i \in 1 .. Len(t) |-> t[i]]
  OBVIOUS
<1> QED
  BY <1>1

LEMMA PrefixIsOrder ==
    ASSUME NEW S, NEW s \in Seq(S), NEW t \in Seq(S), NEW u \in Seq(S)
    PROVE  /\ IsPrefix(s, s)
           /\ IsPrefix(s, t) => Len(s) <= Len(t)
           /\ IsPrefix(s, t) /\ IsPrefix(t, u) => IsPrefix(s, u)
           /\ IsPrefix(s, t) /\ Len(t) <= Len(s) => s = t
           /\ IsPrefix(s, u) /\ IsPrefix(t, u) /\ Len(s) <= Len(t) => IsPrefix(s, t)
<1>1. Len(s) \in Nat /\ Len(t) \in Nat /\ Len(u) \in Nat
  OBVIOUS
<1>2. IsPrefix(s, s) /\ (IsPrefix(s, t) => Len(s) <= Len(t))
  BY <1>1, PrefixMeans
<1>3. IsPrefix(s, t) /\ IsPrefix(t, u) => IsPrefix(s, u)
  <2> HAVE IsPrefix(s, t) /\ IsPrefix(t, u)
  <2>1. Len(s) <= Len(t) /\ (\A i \in 1 .. Len(s) : s[i] = t[i])
    BY PrefixMeans
  <2>2. Len(t) <= Len(u) /\ (\A i \in 1 .. Len(t) : t[i] = u[i])
    BY PrefixMeans
  <2>3. Len(s) <= Len(u) /\ (\A i \in 1 .. Len(s) : s[i] = u[i])
    BY <1>1, <2>1, <2>2
  <2> QED
    BY <2>3, PrefixMeans
<1>4. IsPrefix(s, t) /\ Len(t) <= Len(s) => s = t
  <2> HAVE IsPrefix(s, t) /\ Len(t) <= Len(s)
  <2>1. Len(s) <= Len(t) /\ (\A i \in 1 .. Len(s) : s[i] = t[i])
    BY PrefixMeans
  <2> QED
    BY <1>1, <2>1, SameSequence
<1>5. IsPrefix(s, u) /\ IsPrefix(t, u) /\ Len(s) <= Len(t) => IsPrefix(s, t)
  <2> HAVE IsPrefix(s, u) /\ IsPrefix(t, u) /\ Len(s) <= Len(t)
  <2>1. \A i \in 1 .. Len(s) : s[i] = u[i]
    BY PrefixMeans
  <2>2. \A i \in 1 .. Len(t) : t[i] = u[i]
    BY PrefixMeans
  <2>3. \A i \in 1 .. Len(s) : s[i] = t[i]
    BY <1>1, <2>1, <2>2
  <2> QED
    BY <2>3, PrefixMeans
<1> QED
  BY <1>2, <1>3, <1>4, <1>5

\* The prefixes of a sequence are itself and those of its front.
LEMMA FrontPrefix ==
    ASSUME NEW S, NEW p \in Seq(S), p # << >>
    PROVE  /\ Front(p) \in Seq(S) /\ Len(Front(p)) = Len(p) - 1 /\ Len(p) > 0
           /\ IsPrefix(Front(p), p)
           /\ \A e \in Seq(S) : IsPrefix(e, p) <=> e = p \/ IsPrefix(e, Front(p))
<1> PICK n \in Nat : n = Len(p)
  OBVIOUS
<1>1. n > 0
  OBVIOUS
<1> DEFINE f == Front(p)
<1>2. f \in Seq(S) /\ Len(f) = n - 1 /\ \A i \in 1 .. n - 1 : f[i] = p[i]
  <2>1. f = SubSeq(p, 1, n - 1)
    BY DEF Front
  <2> QED
    BY <1>1, <2>1
<1> HIDE DEF f
<1>3. IsPrefix(f, p)
  BY <1>1, <1>2, PrefixMeans
<1>4. ASSUME NEW e \in Seq(S)
      PROVE  IsPrefix(e, p) <=> e = p \/ IsPrefix(e, f)
  <2>1. Len(e) \in Nat
    OBVIOUS
  <2>2. CASE Len(e) >= n
    <3>1. ~IsPrefix(e, f)
      BY <1>1, <1>2, <2>1, <2>2, PrefixIsOrder
    <3> QED
      BY <2>2, <3>1, PrefixIsOrder
  <2>3. CASE Len(e) <= n - 1
    <3>1. e # p
      BY <2>1, <2>3
    <3>2. IsPrefix(e, p) => IsPrefix(e, f)
      BY <1>2, <1>3, <2>3, PrefixIsOrder
    <3>3. IsPrefix(e, f) => IsPrefix(e, p)
      BY <1>2, <1>3, PrefixIsOrder
    <3> QED
      BY <3>1, <3>2, <3>3
  <2> QED
    BY <2>1, <2>2, <2>3
<1> QED
  BY <1>1, <1>2, <1>3, <1>4 DEF f

\* What is above a path of the tree is a directory of the tree.
LEMMA PathsAreNames == TreePaths \subseteq Seq(TreeNames) /\ TreeDirs \subseteq TreePaths
BY TreeAssumption DEF TreePaths

LEMMA AboveAreDirs ==
    ASSUME NEW p \in TreePaths, NEW k \in Nat, k < Len(p)
    PROVE  \E d \in TreeDirs : Len(d) = k /\ IsPrefix(d, p)
<1> DEFINE I == {n \in Nat : n < Len(p) => \E d \in TreeDirs : Len(d) = Len(p) - 1 - n /\ IsPrefix(d, p)}
<1>1. p \in Seq(TreeNames) /\ Len(p) \in Nat /\ p # << >>
  BY PathsAreNames
<1>2. 0 \in I
  <2>1. Front(p) \in TreeDirs
    BY <1>1, TreeAssumption DEF TreePaths
  <2> QED
    BY <1>1, <2>1, FrontPrefix
<1>3. ASSUME NEW n \in Nat, n \in I PROVE n + 1 \in I
  <2> SUFFICES ASSUME n + 1 < Len(p)
               PROVE  \E d \in TreeDirs : Len(d) = Len(p) - 1 - (n + 1) /\ IsPrefix(d, p)
    OBVIOUS
  <2>1. PICK d \in TreeDirs : Len(d) = Len(p) - 1 - n /\ IsPrefix(d, p)
    BY <1>1, <1>3
  <2>2. d \in Seq(TreeNames) /\ d # << >>
    BY <1>1, <2>1, PathsAreNames
  <2>3. Front(d) \in TreeDirs
    BY <2>2, TreeAssumption
  <2>4. Len(Front(d)) = Len(d) - 1 /\ IsPrefix(Front(d), d) /\ Front(d) \in Seq(TreeNames)
    BY <2>2, FrontPrefix
  <2>5. IsPrefix(Front(d), p)
    BY <1>1, <2>1, <2>2, <2>4, PrefixIsOrder
  <2> QED
    BY <1>1, <2>1, <2>3, <2>4, <2>5
<1> HIDE DEF I
<1>4. Nat \subseteq I
  BY <1>2, <1>3, SetInduction
<1>5. Len(p) - 1 - k \in Nat /\ Len(p) - 1 - k < Len(p)
  BY <1>1
<1>6. Len(p) - 1 - k \in I
  BY <1>4, <1>5
<1> QED
  BY <1>1, <1>5, <1>6 DEF I

\* Between a directory and a path below it there is one of its entries.
LEMMA EntryTowards ==
    ASSUME NEW d \in TreeDirs, NEW p \in TreePaths, IsStrictPrefix(d, p)
    PROVE  \E q \in DirectlyIn(d) : IsPrefix(q, p)
<1>1. d \in Seq(TreeNames) /\ p \in Seq(TreeNames) /\ Len(d) \in Nat /\ Len(p) \in Nat /\ IsPrefix(d, p)
  BY PathsAreNames DEF IsStrictPrefix
<1>2. Len(d) < Len(p)
  BY <1>1, PrefixIsOrder DEF IsStrictPrefix
<1>3. PICK q \in TreePaths : Len(q) = Len(d) + 1 /\ IsPrefix(q, p)
  <2>1. CASE Len(p) = Len(d) + 1
    BY <1>1, <2>1, PrefixIsOrder
  <2>2. CASE Len(d) + 1 < Len(p)
    BY <1>1, <2>2, AboveAreDirs, PathsAreNames
  <2> QED
    BY <1>1, <1>2, <2>1, <2>2
<1>4. q \in Seq(TreeNames) /\ q # << >>
  BY <1>1, <1>3, PathsAreNames
<1>5. Front(q) \in Seq(TreeNames) /\ Len(Front(q)) = Len(d) /\ IsPrefix(Front(q), p)
  BY <1>1, <1>3, <1>4, FrontPrefix, PrefixIsOrder
<1>6. IsPrefix(d, Front(q))
  BY <1>1, <1>5, PrefixIsOrder
<1>7. Front(q) = d
  BY <1>1, <1>5, <1>6, PrefixIsOrder
<1> QED
  BY <1>3, <1>4, <1>7 DEF DirectlyIn

\* Nothing is below a file.
LEMMA NothingBelowFile ==
    ASSUME NEW q \in TreeFiles, NEW p \in TreePaths, IsPrefix(q, p)
    PROVE  p = q
<1>1. q \in Seq(TreeNames) /\ p \in Seq(TreeNames) /\ Len(q) \in Nat /\ Len(p) \in Nat
  BY PathsAreNames DEF TreePaths
<1> SUFFICES ASSUME p # q PROVE FALSE
  OBVIOUS
<1>2. Len(q) < Len(p)
  BY <1>1, PrefixIsOrder
<1>3. PICK d \in TreeDirs : Len(d) = Len(q) /\ IsPrefix(d, p)
  BY <1>1, <1>2, AboveAreDirs
<1>4. d \in Seq(TreeNames)
  BY PathsAreNames
<1>5. IsPrefix(d, q)
  BY <1>1, <1>3, <1>4, PrefixIsOrder
<1>6. d = q
  BY <1>1, <1>3, <1>4, <1>5, PrefixIsOrder
<1> QED
  BY <1>6, TreeAssumption

-----------------------------------------------------------------------------
(* What the walk keeps.                                                     *)

\* The rules that hold in d, and the .index includes of d and above.
RulesIn(w, d) == IF w.respect_gitignore THEN EnclosingGitignores(w, d) ELSE {}

Narrows(w, e) ==
    /\ IsStrictPrefix(w.walk_root, e)
    /\ w.index[e].include # Inherit /\ << >> \notin OverrideTerms(w, e)

IncludesIn(w, d) ==
    {[depth |-> Len(e) - Len(w.walk_root), terms |-> OverrideTerms(w, e)] :
        e \in {a \in TreeDirs : IsPrefix(a, d) /\ Narrows(w, a)}}

\* The frames of a stack that are of depth n or above.
UpTo(stack, n) == {f \in stack : f.depth <= n}
Depths(stack) == \A f \in stack : f.depth \in Nat

\* The stacks g and o restricted to depth n are those of the directory d.
StacksOf(w, g, o, d, n) ==
    /\ {f.of : f \in UpTo(g, n)} = RulesIn(w, d)
    /\ UpTo(o, n) = IncludesIn(w, d)

\* The directory c[k] is the one at depth k that is being read.
Reading(w, l, g, o, c, k) ==
    /\ c[k] \in TreeDirs /\ Selected(w, c[k])
    /\ Len(c[k]) = Len(w.walk_root) + k
    /\ l[Len(l) - k] \subseteq DirectlyIn(c[k])
    /\ StacksOf(w, g, o, c[k], k)

\* What is not found yet is below an entry that is still to be read.
StillToCome(l, p) == \E i \in DOMAIN l : \E q \in l[i] : IsPrefix(q, p)

WalkInvariant ==
    /\ world \in SelectWorlds
    /\ listing \in Seq(SUBSET TreePaths)
    /\ FollowsRules(world) =>
        /\ Depths(git_stack) /\ Depths(override_stack)
        /\ \E c \in [0 .. Len(listing) - 1 -> TreeDirs] : \A k \in 0 .. Len(listing) - 1 :
              Reading(world, listing, git_stack, override_stack, c, k)
        /\ \A p \in found : Selected(world, p)
        /\ \A p \in TreePaths : Selected(world, p) => p \in found \/ StillToCome(listing, p)

-----------------------------------------------------------------------------
(* The rules and the includes of a directory and of the one above it.       *)

\* Repositories are not nested: the rules that hold in d are those of the
\* directories on the way to d that are in a repository.
LEMMA RulesHere ==
    ASSUME NEW w \in SelectWorlds, w.respect_gitignore, ~NestedRepos(w), NEW d \in TreeDirs
    PROVE  EnclosingGitignores(w, d) =
              {e \in TreeDirs : IsPrefix(e, d) /\ e \in w.rulefiles /\ \E s \in w.repos : IsPrefix(s, e)}
<1> DEFINE around == {e \in TreeDirs : IsPrefix(e, d)}
           repos == around \cap w.repos
<1>1. w.repos \subseteq TreeDirs /\ TreeDirs \subseteq Seq(TreeNames)
  BY TreeAssumption, PathsAreNames
<1>2. \A s \in w.repos, e \in around : IsPrefix(s, e) => s \in repos
  BY <1>1, PrefixIsOrder
<1>3. CASE repos = {}
  <2>1. EnclosingGitignores(w, d) = {}
    BY <1>3 DEF EnclosingGitignores
  <2> QED
    BY <1>2, <1>3, <2>1
<1>4. CASE repos # {}
  <2>1. PICK s \in repos : TRUE
    BY <1>4
  <2>2. ASSUME NEW t \in repos PROVE t = s
    <3>1. s \in Seq(TreeNames) /\ t \in Seq(TreeNames) /\ d \in Seq(TreeNames)
          /\ IsPrefix(s, d) /\ IsPrefix(t, d) /\ Len(s) \in Nat /\ Len(t) \in Nat
      BY <1>1, <2>1, <2>2
    <3>2. IsPrefix(s, t) \/ IsPrefix(t, s)
      BY <3>1, PrefixIsOrder
    <3> QED
      BY <2>1, <2>2, <3>2 DEF NestedRepos, IsStrictPrefix
  <2>3. repos = {s}
    BY <2>1, <2>2
  <2>4. Deepest(repos) = s
    <3> HIDE DEF repos
    <3>1. Len(s) <= Len(s)
      BY <1>1, <2>1 DEF repos
    <3> QED
      BY <2>3, <3>1 DEF Deepest
  <2>5. EnclosingGitignores(w, d) = {e \in around \cap w.rulefiles : IsPrefix(s, e)}
    BY <1>4, <2>4 DEF EnclosingGitignores
  <2> HIDE DEF repos
  <2>6. s \in w.repos /\ \A e \in around : (\E t \in w.repos : IsPrefix(t, e)) <=> IsPrefix(s, e)
    BY <1>2, <2>1, <2>3 DEF repos
  <2> QED
    BY <2>5, <2>6
<1> QED
  BY <1>3, <1>4

\* What looking at the .gitignore of d does to the rules of the directory above.
LEMMA RulesFollow ==
    ASSUME NEW w \in SelectWorlds, w.respect_gitignore, FollowsRules(w),
           NEW c \in TreeDirs, IsPrefix(w.walk_root, c), NEW d \in DirectlyIn(c), d \in TreeDirs
    PROVE  LET outer == IF d \in w.repos THEN {} ELSE EnclosingGitignores(w, c)
           IN  /\ d \in w.repos => EnclosingGitignores(w, c) = {}
               /\ EnclosingGitignores(w, d) =
                     IF (d \in w.repos \/ outer # {}) /\ d \in w.rulefiles THEN outer \cup {d} ELSE outer
<1>1. /\ w.repos \subseteq TreeDirs /\ w.walk_root \in TreeDirs /\ TreeDirs \subseteq Seq(TreeNames)
      /\ d # << >> /\ Front(d) = c /\ ~NestedRepos(w) /\ ~RootWithoutRules(w)
  BY TreeAssumption, PathsAreNames DEF DirectlyIn, FollowsRules
<1>2. \A e \in Seq(TreeNames) : IsPrefix(e, d) <=> e = d \/ IsPrefix(e, c)
  BY <1>1, FrontPrefix
<1>3. IsPrefix(d, d) /\ IsPrefix(c, c) /\ ~IsPrefix(d, c)
  BY <1>1, FrontPrefix, PrefixIsOrder
<1> DEFINE In(x) == {e \in TreeDirs : IsPrefix(e, x) /\ e \in w.rulefiles /\ \E s \in w.repos : IsPrefix(s, e)}
<1>4. EnclosingGitignores(w, d) = In(d) /\ EnclosingGitignores(w, c) = In(c)
      /\ EnclosingGitignores(w, w.walk_root) = In(w.walk_root)
  BY <1>1, RulesHere
<1>5. In(d) = In(c) \cup {e \in {d} : e \in w.rulefiles /\ \E s \in w.repos : IsPrefix(s, e)}
  BY <1>1, <1>2
<1>6. In(w.walk_root) \subseteq In(c)
  BY <1>1, PrefixIsOrder
<1>7. ASSUME NEW s \in w.repos, IsPrefix(s, c) PROVE IsStrictPrefix(s, d)
  BY <1>1, <1>2, <1>3, <1>7 DEF IsStrictPrefix
<1>8. CASE d \in w.repos
  <2>1. In(c) = {}
    <3> SUFFICES ASSUME NEW e \in TreeDirs, IsPrefix(e, c), NEW s \in w.repos, IsPrefix(s, e)
                 PROVE  FALSE
      OBVIOUS
    <3>1. IsPrefix(s, c)
      BY <1>1, PrefixIsOrder
    <3> QED
      BY <1>1, <1>7, <1>8, <3>1 DEF NestedRepos
  <2> QED
    BY <1>3, <1>4, <1>5, <1>8, <2>1
<1>9. CASE d \notin w.repos
  <2>1. ASSUME d \in w.rulefiles, NEW s \in w.repos, IsPrefix(s, d) PROVE In(c) # {}
    <3> SUFFICES ASSUME In(c) = {} PROVE FALSE
      OBVIOUS
    <3>1. IsPrefix(s, c)
      BY <1>1, <1>2, <1>9, <2>1
    <3>2. s \notin w.rulefiles
      BY <1>1, <3>1, PrefixIsOrder
    <3> QED
      BY <1>1, <1>4, <1>6, <1>7, <2>1, <3>1, <3>2 DEF RootWithoutRules
  <2>2. ASSUME In(c) # {} PROVE \E s \in w.repos : IsPrefix(s, d)
    <3>1. PICK e \in TreeDirs, s \in w.repos : IsPrefix(e, c) /\ IsPrefix(s, e)
      BY <2>2
    <3>2. IsPrefix(s, c)
      BY <1>1, <3>1, PrefixIsOrder
    <3> QED
      BY <1>1, <1>2, <3>2
  <2> HIDE DEF In
  <2> QED
    BY <1>4, <1>5, <1>9, <2>1, <2>2
<1> QED
  BY <1>8, <1>9

\* The same for the .index includes.
LEMMA IncludesFollow ==
    ASSUME NEW w \in SelectWorlds, NEW c \in TreeDirs, IsPrefix(w.walk_root, c),
           NEW d \in DirectlyIn(c), d \in TreeDirs
    PROVE  /\ IsStrictPrefix(w.walk_root, d)
           /\ IncludesIn(w, d) = IncludesIn(w, c)
                \cup IF Narrows(w, d) THEN {[depth |-> Len(d) - Len(w.walk_root), terms |-> OverrideTerms(w, d)]}
                     ELSE {}
           /\ \A f \in IncludesIn(w, c) : f.depth <= Len(c) - Len(w.walk_root)
<1>1. /\ w.walk_root \in TreeDirs /\ TreeDirs \subseteq Seq(TreeNames) /\ d # << >> /\ Front(d) = c
  BY TreeAssumption, PathsAreNames DEF DirectlyIn
<1>2. \A e \in Seq(TreeNames) : IsPrefix(e, d) <=> e = d \/ IsPrefix(e, c)
  BY <1>1, FrontPrefix
<1>3. ~IsPrefix(d, c)
  BY <1>1, FrontPrefix, PrefixIsOrder
<1>4. IsStrictPrefix(w.walk_root, d)
  BY <1>1, <1>2, <1>3 DEF IsStrictPrefix
<1>5. {a \in TreeDirs : IsPrefix(a, d) /\ Narrows(w, a)}
        = {a \in TreeDirs : IsPrefix(a, c) /\ Narrows(w, a)} \cup {a \in {d} : Narrows(w, a)}
  BY <1>1, <1>2
<1>6. \A f \in IncludesIn(w, c) : f.depth <= Len(c) - Len(w.walk_root)
  <2> SUFFICES ASSUME NEW a \in TreeDirs, IsPrefix(a, c) PROVE Len(a) - Len(w.walk_root) <= Len(c) - Len(w.walk_root)
    BY DEF IncludesIn
  <2>1. Len(a) <= Len(c)
    BY <1>1, PrefixIsOrder
  <2>2. Len(a) \in Nat /\ Len(c) \in Nat /\ Len(w.walk_root) \in Nat
    BY <1>1
  <2> QED
    BY <2>1, <2>2
<1> QED
  BY <1>4, <1>5, <1>6 DEF IncludesIn

\* A step of the way down: selected when the directory is and the step passes.
LEMMA SelectedStep ==
    ASSUME NEW w \in SelectWorlds, NEW c \in TreeDirs, IsPrefix(w.walk_root, c), NEW p \in DirectlyIn(c)
    PROVE  Selected(w, p) <=> Selected(w, c) /\ Passes(w, p)
<1>1. /\ w.walk_root \in Seq(TreeNames) /\ TreePaths \subseteq Seq(TreeNames) /\ c \in Seq(TreeNames)
      /\ p \in TreePaths /\ p # << >> /\ Front(p) = c
  BY TreeAssumption, PathsAreNames DEF DirectlyIn
<1>2. \A e \in Seq(TreeNames) : IsPrefix(e, p) <=> e = p \/ IsPrefix(e, c)
  BY <1>1, FrontPrefix
<1>3. ~IsPrefix(p, c) /\ w.walk_root # p
  BY <1>1, FrontPrefix, PrefixIsOrder
<1>4. IsPrefix(p, p)
  BY <1>1, PrefixIsOrder
<1> QED
  BY <1>1, <1>2, <1>3, <1>4 DEF Selected, IsStrictPrefix

LEMMA SelectedAbove ==
    ASSUME NEW w \in SelectWorlds, NEW q \in TreePaths, NEW p \in TreePaths,
           IsPrefix(w.walk_root, q), IsPrefix(q, p), Selected(w, p)
    PROVE  Selected(w, q)
<1>1. /\ w.walk_root \in Seq(TreeNames) /\ TreePaths \subseteq Seq(TreeNames)
  BY TreeAssumption, PathsAreNames
<1>2. \A r \in TreePaths : IsPrefix(r, q) => IsPrefix(r, p)
  BY <1>1, PrefixIsOrder
<1> QED
  BY <1>2 DEF Selected

-----------------------------------------------------------------------------
(* The stacks.                                                              *)

\* Stacks that agree up to a depth agree up to every lower one.
LEMMA LowerStacks ==
    ASSUME NEW w, NEW g, NEW o, NEW g2, NEW o2, NEW d, NEW n \in Nat, NEW k \in 0 .. n,
           Depths(g), Depths(o),
           Depths(g2), Depths(o2),
           UpTo(g2, n) = UpTo(g, n),
           UpTo(o2, n) = UpTo(o, n),
           StacksOf(w, g, o, d, k)
    PROVE  StacksOf(w, g2, o2, d, k)
<1>1. \A f : f \in g /\ f.depth <= k <=> f \in g2 /\ f.depth <= k
  BY DEF Depths, UpTo
<1>2. \A f : f \in o /\ f.depth <= k <=> f \in o2 /\ f.depth <= k
  BY DEF Depths, UpTo
<1>3. UpTo(g2, k) = UpTo(g, k) /\ UpTo(o2, k) = UpTo(o, k)
  BY <1>1, <1>2 DEF UpTo
<1> QED
  BY <1>3 DEF StacksOf

\* Between the entries of the directory c at depth n.
AtEntry(c, p, n) ==
    /\ world \in SelectWorlds /\ FollowsRules(world)
    /\ c \in TreeDirs /\ IsPrefix(world.walk_root, c) /\ Len(c) = Len(world.walk_root) + n
    /\ p \in DirectlyIn(c)
    /\ Depths(git_stack)
    /\ Depths(override_stack)
    /\ StacksOf(world, git_stack, override_stack, c, n)

LEMMA EntryDepth ==
    ASSUME NEW c, NEW p, NEW n \in Nat, AtEntry(c, p, n)
    PROVE  /\ Depth(p) = n + 1 /\ Depth(p) \in Nat
           /\ StillAbove(git_stack, p) = UpTo(git_stack, n)
           /\ StillAbove(override_stack, p) = UpTo(override_stack, n)
<1>1. p \in Seq(TreeNames) /\ p # << >> /\ Front(p) = c /\ Len(world.walk_root) \in Nat
  BY TreeAssumption, PathsAreNames DEF AtEntry, DirectlyIn
<1>2. Len(p) = Len(c) + 1
  BY <1>1, FrontPrefix
<1>3. Depth(p) = n + 1
  <2>1. Len(p) = Len(world.walk_root) + n + 1
    BY <1>1, <1>2 DEF AtEntry
  <2>2. PICK l \in Nat : l = Len(world.walk_root)
    BY <1>1
  <2>3. Depth(p) = (l + n + 1) - l
    BY <2>1, <2>2 DEF Depth
  <2> QED
    BY <2>3
<1> QED
  BY <1>3 DEF StillAbove, AtEntry, Depths, UpTo

\* The walk asks the rules that hold in c.
LEMMA EntryIgnored ==
    ASSUME NEW c, NEW p, NEW n \in Nat, AtEntry(c, p, n)
    PROVE  Ignored(StillAbove(git_stack, p), p)
              <=> world.respect_gitignore /\ Gitignored(world, EnclosingGitignores(world, Front(p)), p)
<1>1. Front(p) = c
  BY DEF AtEntry, DirectlyIn
<1>2. {f.of : f \in StillAbove(git_stack, p)} = RulesIn(world, c)
  BY EntryDepth DEF AtEntry, StacksOf
<1>3. ~Gitignored(world, {}, p)
  BY DEF Gitignored
<1> QED
  BY <1>1, <1>2, <1>3 DEF Ignored, RulesIn

\* The rules of a directory that is looked at, and of those above it.
LEMMA GitStep ==
    ASSUME NEW c, NEW d \in TreeDirs, NEW n \in Nat, AtEntry(c, d, n), NEW tracked \in BOOLEAN
    PROVE  LET git == StillAbove(git_stack, d)
               new == IF tracked /\ world.respect_gitignore THEN TrackGitignore(git, d) ELSE git
           IN  /\ Depths(new)
               /\ UpTo(new, n) = UpTo(git_stack, n)
               /\ tracked => {f.of : f \in UpTo(new, n + 1)} = RulesIn(world, d)
<1> DEFINE git == StillAbove(git_stack, d)
           new == IF tracked /\ world.respect_gitignore THEN TrackGitignore(git, d) ELSE git
<1>1. /\ git = UpTo(git_stack, n) /\ Depth(d) = n + 1
      /\ \A f \in git : f.depth \in Nat /\ f.depth <= n
      /\ UpTo(git, n) = git
  BY EntryDepth DEF AtEntry, Depths, UpTo
<1>2. {f.of : f \in git} = RulesIn(world, c)
  BY <1>1 DEF AtEntry, StacksOf
<1>3. CASE ~world.respect_gitignore
  <2>1. new = git /\ RulesIn(world, c) = {} /\ RulesIn(world, d) = {}
    BY <1>3 DEF RulesIn
  <2>2. git = {}
    BY <1>2, <2>1
  <2> QED
    BY <1>1, <2>1, <2>2 DEF Depths, UpTo
<1>4. CASE world.respect_gitignore /\ ~tracked
  BY <1>1, <1>4 DEF Depths
<1>5. CASE world.respect_gitignore /\ tracked
  <2> DEFINE outer == IF d \in world.repos THEN {} ELSE git
             frame == [depth |-> n + 1, of |-> d]
             added == IF (d \in world.repos \/ outer # {}) /\ d \in world.rulefiles THEN {frame} ELSE {}
  <2>1. new = outer \cup added
    BY <1>1, <1>5 DEF TrackGitignore
  <2>2. /\ d \in world.repos => EnclosingGitignores(world, c) = {}
        /\ LET around == IF d \in world.repos THEN {} ELSE EnclosingGitignores(world, c)
           IN  EnclosingGitignores(world, d) =
                  IF (d \in world.repos \/ around # {}) /\ d \in world.rulefiles THEN around \cup {d} ELSE around
    BY <1>5, RulesFollow DEF AtEntry
  <2>3. RulesIn(world, c) = EnclosingGitignores(world, c) /\ RulesIn(world, d) = EnclosingGitignores(world, d)
    BY <1>5 DEF RulesIn
  <2>4. outer = git
    <3>1. CASE d \in world.repos
      BY <1>2, <2>2, <2>3, <3>1
    <3>2. CASE d \notin world.repos
      BY <3>2
    <3> QED
      BY <3>1, <3>2
  <2>5. {f.of : f \in outer} = RulesIn(world, c) /\ (outer = {} <=> EnclosingGitignores(world, c) = {})
    BY <1>2, <2>3, <2>4
  <2>6. {f.of : f \in added} = IF (d \in world.repos \/ outer # {}) /\ d \in world.rulefiles THEN {d} ELSE {}
    <3>1. {f.of : f \in {frame}} = {d}
      <4>1. frame.of = d
        OBVIOUS
      <4> HIDE DEF frame
      <4> QED
        BY <4>1
    <3> DEFINE B == (d \in world.repos \/ outer # {}) /\ d \in world.rulefiles
    <3> HIDE DEF outer, frame
    <3>2. CASE B
      BY <3>1, <3>2
    <3>3. CASE ~B
      BY <3>3
    <3> QED
      BY <3>2, <3>3
  <2>7. \A f \in added : f.depth = n + 1
    OBVIOUS
  <2> HIDE DEF outer, added, new, git
  <2>8. {f.of : f \in new} = {f.of : f \in outer} \cup {f.of : f \in added}
    BY <2>1
  <2>9. {f.of : f \in new} = RulesIn(world, d)
    <3>1. CASE d \in world.repos
      BY <2>2, <2>3, <2>5, <2>6, <2>8, <3>1
    <3>2. CASE d \notin world.repos
      BY <2>2, <2>3, <2>5, <2>6, <2>8, <3>2
    <3> QED
      BY <3>1, <3>2
  <2>10. /\ Depths(new)
         /\ UpTo(new, n) = git
         /\ UpTo(new, n + 1) = new
    BY <1>1, <2>1, <2>4, <2>7 DEF Depths, UpTo
  <2>11. {f.of : f \in UpTo(new, n + 1)} = RulesIn(world, d)
    BY ONLY <2>9, <2>10
  <2> QED
    BY <1>1, <2>10, <2>11 DEF new, git
<1> QED
  BY <1>3, <1>4, <1>5

\* The includes of a directory that is entered, and of those above it.
LEMMA OverrideStep ==
    ASSUME NEW c, NEW d \in TreeDirs, NEW n \in Nat, AtEntry(c, d, n)
    PROVE  LET overrides == StillAbove(override_stack, d)
               new == PushOverride(overrides, d)
           IN  /\ Depths(overrides \cup new)
               /\ UpTo(overrides, n) = UpTo(override_stack, n)
               /\ UpTo(new, n) = UpTo(override_stack, n)
               /\ UpTo(new, n + 1) = IncludesIn(world, d)
               /\ overrides = IncludesIn(world, c)
<1> DEFINE overrides == StillAbove(override_stack, d)
           new == PushOverride(overrides, d)
           frame == [depth |-> n + 1, terms |-> OverrideTerms(world, d)]
           added == IF Narrows(world, d) THEN {frame} ELSE {}
<1>1. /\ overrides = UpTo(override_stack, n) /\ Depth(d) = n + 1
      /\ \A f \in overrides : f.depth \in Nat /\ f.depth <= n
      /\ UpTo(overrides, n) = overrides
  BY EntryDepth DEF AtEntry, Depths, UpTo
<1>2. overrides = IncludesIn(world, c)
  BY <1>1 DEF AtEntry, StacksOf
<1>3. IsStrictPrefix(world.walk_root, d)
      /\ IncludesIn(world, d) = IncludesIn(world, c) \cup added
  <2>1. Len(d) - Len(world.walk_root) = n + 1
    BY <1>1 DEF Depth
  <2> QED
    BY <2>1, IncludesFollow DEF AtEntry
<1>4. new = overrides \cup added
  BY <1>1, <1>3 DEF PushOverride, Narrows
<1>5. \A f \in added : f.depth = n + 1
  OBVIOUS
<1> HIDE DEF overrides, new, added
<1>6. /\ Depths(new)
      /\ UpTo(new, n) = overrides
      /\ UpTo(new, n + 1) = new
  BY <1>1, <1>4, <1>5 DEF Depths, UpTo
<1> QED
  BY <1>1, <1>2, <1>3, <1>4, <1>6 DEF overrides, new, Depths

\* The filters of the walk are those of one step down.
LEMMA FilePasses ==
    ASSUME NEW c, NEW p \in TreeFiles, NEW n \in Nat, AtEntry(c, p, n)
    PROVE  Passes(world, p) <=> ~Ignored(StillAbove(git_stack, p), p) /\ ~IsMatch(world.exclude, p)
BY EntryIgnored, TreeAssumption DEF Passes

LEMMA DirPasses ==
    ASSUME NEW c, NEW d \in TreeDirs, NEW n \in Nat, AtEntry(c, d, n)
    PROVE  Passes(world, d) <=>
             /\ ~Ignored(StillAbove(git_stack, d), d) /\ ~IsHiddenDir(world, d)
             /\ DirAllowed(StillAbove(override_stack, d), d)
             /\ ~IsMatch(world.exclude, d)
<1>1. /\ TreeDirs \subseteq Seq(TreeNames) /\ d # << >> /\ Front(d) = c
  BY PathsAreNames DEF AtEntry, DirectlyIn
<1>2. Above(d) = {e \in TreeDirs : IsPrefix(e, c)}
  <2>1. \A e \in Seq(TreeNames) : IsPrefix(e, d) <=> e = d \/ IsPrefix(e, c)
    BY <1>1, FrontPrefix
  <2>2. ~IsPrefix(d, c)
    BY <1>1, FrontPrefix, PrefixIsOrder
  <2> QED
    BY <1>1, <2>1, <2>2 DEF Above, IsStrictPrefix
<1>3. StillAbove(override_stack, d) = IncludesIn(world, c)
  BY OverrideStep
<1>4. (\A f \in StillAbove(override_stack, d) : Reaches(f.terms, d))
        <=> \A e \in Above(d) : Narrows(world, e) => Reaches(OverrideTerms(world, e), d)
  <2>1. (\A f \in IncludesIn(world, c) : Reaches(f.terms, d))
           <=> \A e \in {a \in TreeDirs : IsPrefix(a, c) /\ Narrows(world, a)} : Reaches(OverrideTerms(world, e), d)
    <3> DEFINE narrow == {a \in TreeDirs : IsPrefix(a, c) /\ Narrows(world, a)}
               frame(e) == [depth |-> Len(e) - Len(world.walk_root), terms |-> OverrideTerms(world, e)]
    <3>1. IncludesIn(world, c) = {frame(e) : e \in narrow}
      BY DEF IncludesIn
    <3>2. \A e : frame(e).terms = OverrideTerms(world, e)
      OBVIOUS
    <3> HIDE DEF frame, narrow
    <3>3. (\A f \in IncludesIn(world, c) : Reaches(f.terms, d))
             <=> \A e \in narrow : Reaches(OverrideTerms(world, e), d)
      BY <3>1, <3>2
    <3> QED
      BY <3>3 DEF narrow
  <2> QED
    BY <1>2, <1>3, <2>1
<1>5. (\A e \in Above(d) : Narrows(world, e) => Reaches(OverrideTerms(world, e), d))
        <=> \A e \in Above(d) :
              (IsStrictPrefix(world.walk_root, e) /\ world.index[e].include # Inherit) =>
                 \/ << >> \in OverrideTerms(world, e)
                 \/ Reaches(OverrideTerms(world, e), d)
  BY DEF Narrows
<1> QED
  BY <1>4, <1>5, EntryIgnored DEF Passes, DirAllowed

-----------------------------------------------------------------------------
(* The invariant of the walk.                                               *)

\* Taking an entry out of a directory.
LEMMA KeepReading ==
    ASSUME NEW w, NEW l, NEW l2, NEW n \in Nat, NEW k \in 0 .. n, NEW c,
           NEW g, NEW o, NEW g2, NEW o2,
           Depths(g), Depths(o), Depths(g2), Depths(o2),
           UpTo(g2, n) = UpTo(g, n), UpTo(o2, n) = UpTo(o, n),
           Reading(w, l, g, o, c, k),
           l2[Len(l2) - k] \subseteq l[Len(l) - k]
    PROVE  Reading(w, l2, g2, o2, c, k)
<1>1. StacksOf(w, g2, o2, c[k], k)
  BY LowerStacks DEF Reading
<1> QED
  BY <1>1 DEF Reading

LEMMA Concatenated ==
    ASSUME NEW S, NEW u \in Seq(S), NEW v \in Seq(S)
    PROVE  /\ u \o v \in Seq(S) /\ Len(u \o v) = Len(u) + Len(v)
           /\ \A i \in 1 .. Len(u) : (u \o v)[i] = u[i]
           /\ \A i \in 1 .. Len(v) : (u \o v)[i + Len(u)] = v[i]
OBVIOUS

LEMMA OneEntry ==
    ASSUME NEW S, NEW r \in S
    PROVE  << >> \in Seq(S) /\ <<r>> \in Seq(S) /\ Len(<< >>) = 0 /\ Len(<<r>>) = 1 /\ <<r>>[1] = r
OBVIOUS

\* The sequence u in place of the head of l.
LEMMA InPlaceOfHead ==
    ASSUME NEW S, NEW l \in Seq(S), l # << >>, NEW u \in Seq(S)
    PROVE  /\ u \o Tail(l) \in Seq(S) /\ Len(u \o Tail(l)) = Len(u) + Len(l) - 1
           /\ \A i \in 1 .. Len(u) : (u \o Tail(l))[i] = u[i]
           /\ \A i \in 2 .. Len(l) : (u \o Tail(l))[i - 1 + Len(u)] = l[i]
<1>1. Tail(l) \in Seq(S) /\ Len(Tail(l)) = Len(l) - 1 /\ Len(l) \in Nat /\ Len(l) > 0
      /\ \A i \in 1 .. Len(l) - 1 : Tail(l)[i] = l[i + 1]
  OBVIOUS
<1>2. PICK t \in Seq(S) : t = Tail(l)
  BY <1>1
<1>3. Len(u) \in Nat
  OBVIOUS
<1>4. ASSUME NEW i \in 2 .. Len(l) PROVE i - 1 \in 1 .. Len(t) /\ t[i - 1] = l[i]
  <2>1. i - 1 \in 1 .. Len(l) - 1 /\ (i - 1) + 1 = i
    BY <1>1
  <2> QED
    BY ONLY <1>1, <1>2, <2>1
<1> QED
  BY ONLY <1>1, <1>2, <1>3, <1>4, Concatenated, u \in Seq(S)

\* The two forms of what is left to read after an entry.
LEMMA RestOfListing ==
    ASSUME NEW S, NEW l \in Seq(S), l # << >>, NEW r \in S, NEW e \in S
    PROVE  /\ LET l2 == <<r>> \o Tail(l)
              IN  /\ l2 \in Seq(S) /\ Len(l2) = Len(l)
                  /\ l2[1] = r /\ \A i \in 2 .. Len(l) : l2[i] = l[i]
           /\ LET l2 == << >> \o <<r>> \o Tail(l)
              IN  /\ l2 \in Seq(S) /\ Len(l2) = Len(l)
                  /\ l2[1] = r /\ \A i \in 2 .. Len(l) : l2[i] = l[i]
           /\ LET l2 == <<e>> \o <<r>> \o Tail(l)
              IN  /\ l2 \in Seq(S) /\ Len(l2) = Len(l) + 1
                  /\ l2[1] = e /\ l2[2] = r /\ \A i \in 2 .. Len(l) : l2[i + 1] = l[i]
<1>1. PICK y \in Seq(S) : y = <<r>> /\ Len(y) = 1 /\ y[1] = r
  BY OneEntry
<1>2. PICK z \in Seq(S) : z = << >> \o <<r>> /\ Len(z) = 1 /\ z[1] = r
  <2>1. PICK n \in Seq(S) : n = << >> /\ Len(n) = 0
    BY OneEntry
  <2>2. n \o y \in Seq(S) /\ Len(n \o y) = 1 /\ (n \o y)[1] = r
    BY ONLY <1>1, <2>1, Concatenated
  <2> QED
    BY <1>1, <2>1, <2>2
<1>3. PICK x \in Seq(S) : x = <<e>> \o <<r>> /\ Len(x) = 2 /\ x[1] = e /\ x[2] = r
  <2>1. PICK n \in Seq(S) : n = <<e>> /\ Len(n) = 1 /\ n[1] = e
    BY OneEntry
  <2>2. n \o y \in Seq(S) /\ Len(n \o y) = 2 /\ (n \o y)[1] = e /\ (n \o y)[1 + 1] = r
    BY ONLY <1>1, <2>1, Concatenated
  <2>3. n \o y = <<e>> \o <<r>>
    BY ONLY <1>1, <2>1, Zenon
  <2>4. 1 + 1 = 2
    OBVIOUS
  <2> QED
    BY ONLY <2>2, <2>3, <2>4
<1>4. Len(l) \in Nat
  OBVIOUS
<1>5. ASSUME NEW v \in Seq(S), Len(v) = 1, v[1] = r
      PROVE  /\ v \o Tail(l) \in Seq(S) /\ Len(v \o Tail(l)) = Len(l)
             /\ (v \o Tail(l))[1] = r /\ \A i \in 2 .. Len(l) : (v \o Tail(l))[i] = l[i]
  <2>1. /\ v \o Tail(l) \in Seq(S) /\ Len(v \o Tail(l)) = Len(v) + Len(l) - 1
        /\ \A i \in 1 .. Len(v) : (v \o Tail(l))[i] = v[i]
        /\ \A i \in 2 .. Len(l) : (v \o Tail(l))[i - 1 + Len(v)] = l[i]
    BY InPlaceOfHead
  <2>2. /\ v \o Tail(l) \in Seq(S) /\ Len(v \o Tail(l)) = 1 + Len(l) - 1 /\ (v \o Tail(l))[1] = r
        /\ \A i \in 2 .. Len(l) : (v \o Tail(l))[i - 1 + 1] = l[i]
    BY ONLY <1>5, <2>1
  <2>3. 1 + Len(l) - 1 = Len(l) /\ \A i \in 2 .. Len(l) : i - 1 + 1 = i
    BY ONLY <1>4
  <2> QED
    BY ONLY <2>2, <2>3
<1>6. /\ x \o Tail(l) \in Seq(S) /\ Len(x \o Tail(l)) = Len(l) + 1
      /\ (x \o Tail(l))[1] = e /\ (x \o Tail(l))[2] = r
      /\ \A i \in 2 .. Len(l) : (x \o Tail(l))[i + 1] = l[i]
  <2>1. \A i \in 2 .. Len(l) : (x \o Tail(l))[i - 1 + 2] = l[i]
    BY ONLY <1>3, <1>4, InPlaceOfHead, l \in Seq(S), l # << >>
  <2>2. \A i \in 2 .. Len(l) : i - 1 + 2 = i + 1
    BY <1>4
  <2> QED
    BY ONLY <1>3, <1>4, <2>1, <2>2, InPlaceOfHead, l \in Seq(S), l # << >>
<1> QED
  BY ONLY <1>1, <1>2, <1>3, <1>5, <1>6

\* At an entry p, with the directories c that are being read.
EntryOf(c, p) ==
    /\ listing # << >> /\ p \in Head(listing)
    /\ c \in [0 .. Len(listing) - 1 -> TreeDirs]
    /\ \A k \in 0 .. Len(listing) - 1 : Reading(world, listing, git_stack, override_stack, c, k)

LEMMA EntryIsAt ==
    ASSUME WalkInvariant, FollowsRules(world), NEW c, NEW p, EntryOf(c, p)
    PROVE  /\ Len(listing) - 1 \in Nat /\ Len(listing) \in Nat
           /\ AtEntry(c[Len(listing) - 1], p, Len(listing) - 1)
           /\ Selected(world, c[Len(listing) - 1])
<1>1. Len(listing) \in Nat /\ Len(listing) > 0 /\ Head(listing) = listing[1]
  BY DEF WalkInvariant, EntryOf
<1> DEFINE n == Len(listing) - 1
<1>2. n \in Nat /\ n \in 0 .. n /\ Len(listing) - n = 1
  BY <1>1
<1>3. Reading(world, listing, git_stack, override_stack, c, n)
  BY <1>2 DEF EntryOf
<1> HIDE DEF n
<1>4. p \in DirectlyIn(c[n]) /\ Selected(world, c[n]) /\ IsPrefix(world.walk_root, c[n])
  BY <1>1, <1>2, <1>3 DEF EntryOf, Reading, Selected
<1>5. AtEntry(c[n], p, n)
  BY <1>3, <1>4 DEF AtEntry, Reading, WalkInvariant
<1> QED
  BY <1>1, <1>2, <1>4, <1>5 DEF n

\* A file: the innermost directory loses an entry.
LEMMA FileKeeps ==
    ASSUME WalkInvariant, NEW p \in Head(listing), listing # << >>,
           VisitFile(p, Head(listing) \ {p})
    PROVE  WalkInvariant'
<1> DEFINE rest == Head(listing) \ {p}
<1>1. /\ world' = world /\ override_stack' = override_stack /\ p \in TreeFiles
      /\ git_stack' = StillAbove(git_stack, p) /\ git_stack' \subseteq git_stack
      /\ listing' = <<rest>> \o Tail(listing)
  BY DEF VisitFile, StillAbove
<1>2. listing \in Seq(SUBSET TreePaths) /\ Head(listing) \in SUBSET TreePaths /\ Head(listing) = listing[1]
      /\ Len(listing) \in Nat /\ Len(listing) > 0
  BY DEF WalkInvariant
<1>3. /\ listing' \in Seq(SUBSET TreePaths) /\ Len(listing') = Len(listing)
      /\ listing'[1] = rest /\ \A i \in 2 .. Len(listing) : listing'[i] = listing[i]
  <2>1. rest \in SUBSET TreePaths
    BY <1>2
  <2> HIDE DEF rest
  <2> QED
    BY <1>1, <1>2, <2>1, RestOfListing
<1>4. ASSUME FollowsRules(world)
      PROVE  /\ Depths(git_stack') /\ Depths(override_stack')
             /\ \E c \in [0 .. Len(listing') - 1 -> TreeDirs] : \A k \in 0 .. Len(listing') - 1 :
                   Reading(world, listing', git_stack', override_stack', c, k)
             /\ \A q \in found' : Selected(world, q)
             /\ \A q \in TreePaths : Selected(world, q) => q \in found' \/ StillToCome(listing', q)
  <2>1. PICK c : EntryOf(c, p)
    BY <1>4 DEF WalkInvariant, EntryOf
  <2> DEFINE n == Len(listing) - 1
  <2>2. n \in Nat /\ AtEntry(c[n], p, n) /\ Selected(world, c[n])
    BY <1>4, <2>1, EntryIsAt
  <2>3. p \in found' <=> Passes(world, p) \/ p \in found
    BY <1>1, <2>2, FilePasses DEF VisitFile
  <2>4. Selected(world, p) <=> Passes(world, p)
    BY <2>2, SelectedStep DEF AtEntry
  <2>5. UpTo(git_stack', n) = UpTo(git_stack, n)
    BY <1>1, <2>2, EntryDepth DEF UpTo
  <2>6. Depths(git_stack) /\ Depths(override_stack) /\ Depths(git_stack') /\ Depths(override_stack')
    BY <1>1, <1>4 DEF WalkInvariant, Depths
  <2>7. ASSUME NEW k \in 0 .. n PROVE Reading(world, listing', git_stack', override_stack', c, k)
    <3>1. Reading(world, listing, git_stack, override_stack, c, k)
      BY <2>1, <2>7 DEF EntryOf
    <3>2. listing'[Len(listing') - k] \subseteq listing[Len(listing) - k]
      <4>1. CASE k = n
        BY <1>2, <1>3, <4>1
      <4>2. CASE k # n
        <5>1. Len(listing) - k \in 2 .. Len(listing)
          BY <1>2, <4>2
        <5> QED
          BY <1>3, <5>1
      <4> QED
        BY <4>1, <4>2
    <3> HIDE DEF n
    <3> QED
      BY <1>1, <2>2, <2>5, <2>6, <3>1, <3>2, KeepReading
  <2>8. found' \subseteq found \cup {p} /\ found \subseteq found'
    BY DEF VisitFile
  <2>9. \A q \in found' : Selected(world, q)
    <3>1. ASSUME p \in found' PROVE Selected(world, p)
      BY <1>4, <2>3, <2>4, <3>1 DEF WalkInvariant
    <3> QED
      BY <1>4, <2>8, <3>1 DEF WalkInvariant
  <2>10. ASSUME NEW q \in TreePaths, Selected(world, q), q \notin found'
        PROVE  StillToCome(listing', q)
    <3>1. PICK i \in DOMAIN listing : \E r \in listing[i] : IsPrefix(r, q)
      BY <1>4, <2>8, <2>10 DEF WalkInvariant, StillToCome
    <3>2. PICK r \in listing[i] : IsPrefix(r, q)
      BY <3>1
    <3>3. r # p
      BY <1>1, <2>3, <2>4, <2>10, <3>2, NothingBelowFile
    <3>4. r \in listing'[i] /\ i \in DOMAIN listing'
      BY <1>2, <1>3, <3>2, <3>3
    <3> QED
      BY <3>2, <3>4 DEF StillToCome
  <2> QED
    BY <1>3, <2>1, <2>7, <2>9, <2>10, <2>6 DEF EntryOf
<1> QED
  BY <1>1, <1>3, <1>4 DEF WalkInvariant

\* A directory: when it is entered it is the innermost one of those being read.
LEMMA DirKeeps ==
    ASSUME WalkInvariant, NEW d \in Head(listing), listing # << >>,
           VisitDir(d, Head(listing) \ {d})
    PROVE  WalkInvariant'
<1> DEFINE rest == Head(listing) \ {d}
           git == StillAbove(git_stack, d)
           overrides == StillAbove(override_stack, d)
           tracked == ~Ignored(git, d) /\ ~IsHiddenDir(world, d)
           allowed == tracked /\ DirAllowed(overrides, d)
           enter == allowed /\ ~IsMatch(world.exclude, d)
           n == Len(listing) - 1
<1>1. /\ world' = world /\ d \in TreeDirs
      /\ git_stack' = IF tracked /\ world.respect_gitignore THEN TrackGitignore(git, d) ELSE git
      /\ override_stack' = IF allowed THEN PushOverride(overrides, d)
                           ELSE IF Ignored(git, d) THEN override_stack ELSE overrides
      /\ found' = IF enter THEN found \cup {d} ELSE found
      /\ listing' = (IF enter THEN <<DirectlyIn(d)>> ELSE << >>) \o <<rest>> \o Tail(listing)
      /\ enter \in BOOLEAN /\ tracked \in BOOLEAN
  BY DEF VisitDir
<1>2. listing \in Seq(SUBSET TreePaths) /\ Head(listing) \in SUBSET TreePaths /\ Head(listing) = listing[1]
      /\ Len(listing) \in Nat /\ Len(listing) > 0
  BY DEF WalkInvariant
<1>3. /\ listing' \in Seq(SUBSET TreePaths)
      /\ ~enter => /\ Len(listing') = Len(listing) /\ listing'[1] = rest
                   /\ \A i \in 2 .. Len(listing) : listing'[i] = listing[i]
      /\ enter => /\ Len(listing') = Len(listing) + 1
                  /\ listing'[1] = DirectlyIn(d) /\ listing'[2] = rest
                  /\ \A i \in 2 .. Len(listing) : listing'[i + 1] = listing[i]
  <2>1. rest \in SUBSET TreePaths
    BY <1>2
  <2>2. DirectlyIn(d) \in SUBSET TreePaths
    BY DEF DirectlyIn
  <2> HIDE DEF rest, enter
  <2>3. CASE enter
    <3>1. listing' = <<DirectlyIn(d)>> \o <<rest>> \o Tail(listing)
      BY <1>1, <2>3
    <3> QED
      BY <1>2, <2>1, <2>2, <2>3, <3>1, RestOfListing
  <2>4. CASE ~enter
    <3>1. listing' = << >> \o <<rest>> \o Tail(listing)
      BY <1>1, <2>4
    <3> QED
      BY <1>2, <2>1, <2>2, <2>4, <3>1, RestOfListing
  <2> QED
    BY <2>3, <2>4
<1> HIDE DEF rest, git, overrides, tracked, allowed, enter
<1>4. ASSUME FollowsRules(world)
      PROVE  /\ Depths(git_stack') /\ Depths(override_stack')
             /\ \E c \in [0 .. Len(listing') - 1 -> TreeDirs] : \A k \in 0 .. Len(listing') - 1 :
                   Reading(world, listing', git_stack', override_stack', c, k)
             /\ \A q \in found' : Selected(world, q)
             /\ \A q \in TreePaths : Selected(world, q) => q \in found' \/ StillToCome(listing', q)
  <2>1. PICK c : EntryOf(c, d)
    BY <1>4 DEF WalkInvariant, EntryOf
  <2>2. n \in Nat /\ AtEntry(c[n], d, n) /\ Selected(world, c[n])
    BY <1>4, <2>1, EntryIsAt
  <2>3. enter <=> Passes(world, d)
    BY <1>1, <2>2, DirPasses DEF enter, allowed, tracked, git, overrides
  <2>4. Selected(world, d) <=> Passes(world, d)
    BY <2>2, SelectedStep DEF AtEntry
  <2>5. /\ Depths(git_stack') /\ UpTo(git_stack', n) = UpTo(git_stack, n)
        /\ tracked => {f.of : f \in UpTo(git_stack', n + 1)} = RulesIn(world, d)
    <3> HIDE DEF n
    <3> QED
      BY <1>1, <2>2, GitStep DEF git
  <2>6. Depths(git_stack) /\ Depths(override_stack)
    BY <1>4 DEF WalkInvariant
  <2>7. /\ Depths(override_stack') /\ UpTo(override_stack', n) = UpTo(override_stack, n)
        /\ allowed => UpTo(override_stack', n + 1) = IncludesIn(world, d)
    <3> HIDE DEF n
    <3>1. /\ Depths(overrides \cup PushOverride(overrides, d))
          /\ UpTo(overrides, n) = UpTo(override_stack, n)
          /\ UpTo(PushOverride(overrides, d), n) = UpTo(override_stack, n)
          /\ UpTo(PushOverride(overrides, d), n + 1) = IncludesIn(world, d)
      BY <1>1, <2>2, OverrideStep DEF overrides
    <3>2. Depths(overrides) /\ Depths(PushOverride(overrides, d))
      BY <3>1 DEF Depths
    <3>3. CASE allowed
      BY <1>1, <3>1, <3>2, <3>3
    <3>4. CASE ~allowed
      BY <1>1, <2>6, <3>1, <3>2, <3>4
    <3> QED
      BY <3>3, <3>4
  <2>8. ASSUME NEW k \in 0 .. n PROVE Reading(world, listing', git_stack', override_stack', c, k)
    <3>1. Reading(world, listing, git_stack, override_stack, c, k)
      BY <2>1 DEF EntryOf
    <3>2. listing'[Len(listing') - k] \subseteq listing[Len(listing) - k]
      <4>1. CASE k = n
        <5>1. rest \subseteq listing[1] /\ Len(listing) - k = 1
          BY <1>2, <4>1 DEF rest
        <5>2. listing'[Len(listing') - k] = rest
          <6>1. CASE enter
            <7>1. Len(listing') - k = 2
              BY <1>2, <1>3, <4>1, <6>1
            <7> QED
              BY <1>3, <6>1, <7>1
          <6>2. CASE ~enter
            BY <1>3, <5>1, <6>2
          <6> QED
            BY <6>1, <6>2
        <5> QED
          BY <5>1, <5>2
      <4>2. CASE k # n
        <5>1. Len(listing) - k \in 2 .. Len(listing)
          BY <1>2, <4>2
        <5>2. CASE enter
          <6>1. Len(listing') - k = (Len(listing) - k) + 1
            BY <1>2, <1>3, <5>2
          <6> QED
            BY <1>3, <5>1, <5>2, <6>1
        <5>3. CASE ~enter
          BY <1>3, <5>1, <5>3
        <5> QED
          BY <5>2, <5>3
      <4> QED
        BY <4>1, <4>2
    <3> HIDE DEF n
    <3> QED
      BY <2>2, <2>5, <2>6, <2>7, <3>1, <3>2, KeepReading
  <2>9. \E c2 \in [0 .. Len(listing') - 1 -> TreeDirs] : \A k \in 0 .. Len(listing') - 1 :
           Reading(world, listing', git_stack', override_stack', c2, k)
    <3>1. CASE ~enter
      BY <1>3, <2>1, <2>8, <3>1 DEF EntryOf
    <3>2. CASE enter
      <4> DEFINE c2 == [k \in 0 .. n + 1 |-> IF k = n + 1 THEN d ELSE c[k]]
      <4>1. c2 \in [0 .. n + 1 -> TreeDirs] /\ c2[n + 1] = d /\ \A k \in 0 .. n : c2[k] = c[k]
        BY <1>1, <1>2, <2>1, <2>2 DEF EntryOf
      <4> HIDE DEF c2
      <4>2. ASSUME NEW k \in 0 .. n PROVE Reading(world, listing', git_stack', override_stack', c2, k)
        BY <2>8, <4>1 DEF Reading
      <4>3. Reading(world, listing', git_stack', override_stack', c2, n + 1)
        <5>1. StacksOf(world, git_stack', override_stack', d, n + 1)
          BY <2>5, <2>7, <3>2 DEF StacksOf, enter, allowed
        <5>2. Len(d) = Len(world.walk_root) + (n + 1)
          <6>1. d \in Seq(TreeNames) /\ d # << >> /\ Front(d) = c[n] /\ Len(c[n]) = Len(world.walk_root) + n
            BY <1>1, <2>2, PathsAreNames DEF AtEntry, DirectlyIn
          <6>2. Len(d) = Len(c[n]) + 1
            BY <6>1, FrontPrefix
          <6>3. world.walk_root \in Seq(TreeNames)
            BY PathsAreNames, TreeAssumption DEF WalkInvariant
          <6>4. PICK m \in Nat : m = Len(world.walk_root)
            BY <6>3
          <6> HIDE DEF n
          <6>5. n \in Nat /\ Len(d) = (m + n) + 1
            BY <2>2, <6>1, <6>2, <6>4
          <6>6. (m + n) + 1 = m + (n + 1)
            BY <6>5
          <6> QED
            BY ONLY <6>4, <6>5, <6>6
        <5>3. Selected(world, d)
          BY <2>3, <2>4, <3>2
        <5>4. listing'[Len(listing') - (n + 1)] = DirectlyIn(d)
          <6>1. Len(listing') - (n + 1) = 1
            BY <1>2, <1>3, <3>2
          <6> QED
            BY <1>3, <3>2, <6>1
        <5> QED
          BY <1>1, <4>1, <5>1, <5>2, <5>3, <5>4 DEF Reading
      <4>4. Len(listing') - 1 = n + 1 /\ \A k \in 0 .. n + 1 : k = n + 1 \/ k \in 0 .. n
        BY <1>2, <1>3, <3>2
      <4> QED
        BY <4>1, <4>2, <4>3, <4>4
    <3> QED
      BY <3>1, <3>2
  <2>10. \A q \in found' : Selected(world, q)
    <3>1. \A q \in found' : q \in found \/ (enter /\ q = d)
      BY <1>1
    <3> QED
      BY <1>4, <2>3, <2>4, <3>1 DEF WalkInvariant
  <2>11. ASSUME NEW q \in TreePaths, Selected(world, q), q \notin found'
         PROVE  StillToCome(listing', q)
    <3>1. q \notin found /\ (enter => q # d)
      BY <1>1, <2>11
    <3>2. PICK i \in DOMAIN listing : \E r \in listing[i] : IsPrefix(r, q)
      BY <1>4, <2>11, <3>1 DEF WalkInvariant, StillToCome
    <3>3. PICK r \in listing[i] : IsPrefix(r, q)
      BY <3>2
    <3>4. CASE r = d
      <4>1. d \in TreePaths /\ IsPrefix(world.walk_root, d)
        <5>1. d \in TreePaths /\ d # << >> /\ Front(d) = c[n] /\ IsPrefix(world.walk_root, c[n])
          BY <1>1, <2>2 DEF AtEntry, DirectlyIn
        <5>2. c[n] \in Seq(TreeNames) /\ d \in Seq(TreeNames) /\ world.walk_root \in Seq(TreeNames)
          BY <1>1, <2>2, PathsAreNames, TreeAssumption DEF AtEntry
        <5> QED
          BY <5>1, <5>2, FrontPrefix
      <4>2. Selected(world, d)
        BY <2>11, <3>3, <3>4, <4>1, SelectedAbove DEF WalkInvariant
      <4>3. enter
        BY <2>3, <2>4, <4>2
      <4>4. IsStrictPrefix(d, q)
        BY <3>1, <3>3, <3>4, <4>3 DEF IsStrictPrefix
      <4>5. PICK s \in DirectlyIn(d) : IsPrefix(s, q)
        BY <1>1, <4>4, EntryTowards
      <4>6. 1 \in DOMAIN listing' /\ listing'[1] = DirectlyIn(d)
        BY <1>2, <1>3, <4>3
      <4> QED
        BY <4>5, <4>6 DEF StillToCome
    <3>5. CASE r # d
      <4>1. CASE enter
        <5>1. i + 1 \in DOMAIN listing' /\ r \in listing'[i + 1]
          BY <1>2, <1>3, <3>3, <3>5, <4>1 DEF rest
        <5> QED
          BY <3>3, <5>1 DEF StillToCome
      <4>2. CASE ~enter
        <5>1. i \in DOMAIN listing' /\ r \in listing'[i]
          BY <1>2, <1>3, <3>3, <3>5, <4>2 DEF rest
        <5> QED
          BY <3>3, <5>1 DEF StillToCome
      <4> QED
        BY <4>1, <4>2
    <3> QED
      BY <3>4, <3>5
  <2> QED
    BY <2>5, <2>7, <2>9, <2>10, <2>11
<1> QED
  BY <1>1, <1>3, <1>4 DEF WalkInvariant

\* A directory that is read to its end is taken off.
LEMMA LeaveKeeps ==
    ASSUME WalkInvariant, LeaveDir
    PROVE  WalkInvariant'
<1>1. /\ world' = world /\ git_stack' = git_stack /\ override_stack' = override_stack /\ found' = found
      /\ listing # << >> /\ Head(listing) = {} /\ listing' = Tail(listing)
      /\ listing \in Seq(SUBSET TreePaths)
  BY DEF LeaveDir, WalkInvariant
<1>2. /\ listing' \in Seq(SUBSET TreePaths) /\ Len(listing) \in Nat /\ Len(listing) > 0
      /\ Len(listing') = Len(listing) - 1 /\ listing[1] = {}
      /\ \A i \in 1 .. Len(listing) - 1 : listing'[i] = listing[i + 1]
  BY <1>1
<1> DEFINE n == Len(listing) - 1
<1>3. ASSUME FollowsRules(world)
      PROVE  \E c \in [0 .. Len(listing') - 1 -> TreeDirs] : \A k \in 0 .. Len(listing') - 1 :
                Reading(world, listing', git_stack', override_stack', c, k)
  <2>1. PICK c \in [0 .. n -> TreeDirs] :
           \A k \in 0 .. n : Reading(world, listing, git_stack, override_stack, c, k)
    BY <1>3 DEF WalkInvariant
  <2> DEFINE c2 == [k \in 0 .. n - 1 |-> c[k]]
  <2>2. c2 \in [0 .. n - 1 -> TreeDirs] /\ \A k \in 0 .. n - 1 : c2[k] = c[k]
    BY <1>2
  <2> HIDE DEF c2
  <2>3. ASSUME NEW k \in 0 .. n - 1
        PROVE  Reading(world, listing', git_stack', override_stack', c2, k)
    <3>1. k \in 0 .. n /\ Len(listing') - k \in 1 .. n /\ Len(listing) - k = (Len(listing') - k) + 1
      BY <1>2
    <3>2. listing'[Len(listing') - k] = listing[Len(listing) - k]
      BY <1>2, <3>1
    <3> HIDE DEF n
    <3> QED
      BY <1>1, <2>1, <2>2, <3>1, <3>2 DEF Reading
  <2> QED
    BY <1>2, <2>2, <2>3
<1>4. \A q : StillToCome(listing, q) => StillToCome(listing', q)
  <2> SUFFICES ASSUME NEW q, NEW i \in DOMAIN listing, NEW r \in listing[i], IsPrefix(r, q)
               PROVE  StillToCome(listing', q)
    BY DEF StillToCome
  <2>1. i - 1 \in DOMAIN listing' /\ (i - 1) + 1 = i
    BY <1>2
  <2>2. r \in listing'[i - 1]
    BY <1>2, <2>1
  <2> QED
    BY <2>1, <2>2 DEF StillToCome
<1> QED
  BY <1>1, <1>2, <1>3, <1>4 DEF WalkInvariant

LEMMA WalkStarts == WalkInit => WalkInvariant
<1> SUFFICES ASSUME WalkInit PROVE WalkInvariant
  OBVIOUS
<1> DEFINE root == world.walk_root
<1>1. /\ world \in SelectWorlds /\ root \in TreeDirs /\ root \in Seq(TreeNames) /\ root \in TreePaths
      /\ TreePaths \subseteq Seq(TreeNames)
  BY TreeAssumption, PathsAreNames DEF WalkInit
<1>2. /\ listing \in Seq(SUBSET TreePaths) /\ Len(listing) = 1 /\ listing[1] = DirectlyIn(root)
      /\ found = {root}
  BY DEF WalkInit, DirectlyIn
<1>3. /\ {f.of : f \in UpTo(git_stack, 0)} = RulesIn(world, root)
      /\ Depths(git_stack) /\ Depths(override_stack) /\ UpTo(override_stack, 0) = {}
  <2>1. override_stack = {}
    BY DEF WalkInit
  <2>2. CASE ~world.respect_gitignore
    BY <2>1, <2>2 DEF WalkInit, UpTo, Depths, RulesIn
  <2>3. CASE world.respect_gitignore
    <3> DEFINE frame(d) == [depth |-> 0, of |-> d]
    <3>1. git_stack = {frame(d) : d \in RulesIn(world, root)}
      BY <2>3 DEF WalkInit, RulesIn
    <3>2. \A d : frame(d).depth = 0 /\ frame(d).of = d
      OBVIOUS
    <3> HIDE DEF frame
    <3>3. UpTo(git_stack, 0) = git_stack /\ Depths(git_stack)
      BY <3>1, <3>2 DEF UpTo, Depths
    <3>4. {f.of : f \in git_stack} = RulesIn(world, root)
      BY ONLY <3>1, <3>2
    <3> QED
      BY <2>1, <3>3, <3>4 DEF UpTo, Depths
  <2> QED
    BY <2>2, <2>3
<1>4. IncludesIn(world, root) = {}
  <2> SUFFICES ASSUME NEW a \in TreeDirs, IsPrefix(a, root), Narrows(world, a) PROVE FALSE
    BY DEF IncludesIn
  <2> QED
    BY <1>1, PathsAreNames, PrefixIsOrder DEF Narrows, IsStrictPrefix
<1>5. Selected(world, root)
  BY <1>1, PrefixIsOrder DEF Selected, IsStrictPrefix
<1> DEFINE c == [k \in 0 .. 0 |-> root]
<1>6. c \in [0 .. 0 -> TreeDirs] /\ c[0] = root
  BY <1>1
<1> HIDE DEF c
<1>7. Reading(world, listing, git_stack, override_stack, c, 0)
  <2>1. PICK m \in Nat : m = Len(root)
    BY <1>1
  <2>2. Len(c[0]) = Len(root) + 0
    BY <1>6, <2>1
  <2>3. listing[Len(listing) - 0] = DirectlyIn(root)
    BY <1>2
  <2>4. StacksOf(world, git_stack, override_stack, root, 0)
    BY <1>3, <1>4 DEF StacksOf
  <2> QED
    BY <1>1, <1>5, <1>6, <2>2, <2>3, <2>4 DEF Reading
<1>8. ASSUME NEW q \in TreePaths, Selected(world, q), q \notin found
      PROVE  StillToCome(listing, q)
  <2>1. IsStrictPrefix(root, q)
    BY <1>2, <1>8 DEF Selected, IsStrictPrefix
  <2>2. PICK r \in DirectlyIn(root) : IsPrefix(r, q)
    BY <1>1, <2>1, EntryTowards
  <2> QED
    BY <1>2, <2>2 DEF StillToCome
<1>9. 0 .. Len(listing) - 1 = 0 .. 0 /\ \A k \in 0 .. 0 : k = 0
  BY <1>2
<1> QED
  BY <1>1, <1>2, <1>3, <1>5, <1>6, <1>7, <1>8, <1>9 DEF WalkInvariant

\* find-scan, in any tree and with any configuration in which no repository is
\* inside another one or without rules of its own at its root: whatever order
\* the entries of its directories come in, the walk has found only what every
\* step down from its root selects, and when it is over it has found all of it.
THEOREM WalkFollowsTheRules == WalkSpec => []WalkSelects
<1>1. WalkInvariant /\ [WalkNext]_walkVars => WalkInvariant'
  <2> SUFFICES ASSUME WalkInvariant, [WalkNext]_walkVars PROVE WalkInvariant'
    OBVIOUS
  <2>1. CASE WalkEntry
    BY <2>1, FileKeeps, DirKeeps DEF WalkEntry
  <2>2. CASE LeaveDir
    BY <2>2, LeaveKeeps
  <2>3. CASE UNCHANGED walkVars
    BY <2>3 DEF walkVars, WalkInvariant
  <2> QED
    BY <2>1, <2>2, <2>3 DEF WalkNext
<1>2. WalkInvariant => WalkSelects
  <2> SUFFICES ASSUME WalkInvariant, FollowsRules(world)
               PROVE  /\ \A p \in found : Selected(world, p)
                      /\ listing = << >> => \A p \in TreePaths : Selected(world, p) => p \in found
    BY DEF WalkSelects
  <2>1. ASSUME listing = << >>, NEW p PROVE ~StillToCome(listing, p)
    BY <2>1 DEF StillToCome
  <2> QED
    BY <2>1 DEF WalkInvariant
<1> QED
  BY WalkStarts, <1>1, <1>2, PTL DEF WalkSpec

=============================================================================
