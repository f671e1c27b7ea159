----------------------------- MODULE MCBookkeeping -----------------------------
(***************************************************************************)
(* Small instances of what the server keeps beside the rows of files, one  *)
(* part each; a behaviour belongs to one part, and they share no variable. *)
(*                                                                         *)
(* stats: the totals of one source, with one file and one member, the      *)
(* daily rebuild and another one (StatsCache).                             *)
(*                                                                         *)
(* archive: members and indexing errors of archives of each kind, with     *)
(* archives in them and entries that are hidden, excluded, delegated, torn *)
(* or broken (ArchiveScan).  No entry follows one that puts a 7z block out *)
(* of step or ends it, and none hides in a block that is too large: the    *)
(* README says what happens then.                                          *)
(*                                                                         *)
(* What needs no behaviour is assumed: the calendar of DOS dates here,     *)
(* reports and several stores in MCReports, iWork documents in MCIwork.    *)
(***************************************************************************)
EXTENDS StatsCache, ArchiveScan, MCReports, MCIwork

CONSTANTS plainFile, member, text, image, daily, other

VARIABLE part

-----------------------------------------------------------------------------
MCFile(n, flags) ==
    [name |-> n, inner |-> NoArchive, flags |-> flags, read |-> "whole", block |-> 1]
MCNested(n, a, flags) == [MCFile(n, flags) EXCEPT !.inner = a]
MCTorn(n, how, flags) == [MCFile(n, flags) EXCEPT !.read = how]
MCIn(b, e) == [e EXCEPT !.block = b]
MCHolds(kind, es) ==
    [kind |-> kind, corrupt |-> FALSE, trailing |-> FALSE, entries |-> es,
     blocks |-> 1, oversized |-> {}, tight |-> {}]

MCContents ==
    [topZip |-> MCHolds("zip",
        <<MCFile("sub", {"dir"}), MCFile(".git", {"hidden"}),
          MCFile("delegated", {"server_only"}), MCNested("nested", "innerZip", {}),
          MCTorn("torn", "nothing", {}), MCTorn("photo", "nothing", {"media"}),
          MCFile("broken", {"unreadable"})>>),
     topTar |-> MCHolds("tar",
        <<MCFile("doc", {"fails"}), MCNested("old", "innerZip", {"excluded"}),
          MCFile("delegated", {"server_only", "no_temp"}), MCTorn("torn", "nothing", {})>>),
     top7z |-> [MCHolds("7z",
        <<MCNested("nested", "innerTar", {}), MCFile("cut", {"excluded"}),
          MCFile("doc", {}), MCTorn("torn", "checksum", {}),
          MCNested("big", "inner7z", {"huge"}), MCIn(2, MCFile("over", {})),
          MCIn(3, MCFile("memory", {})), MCIn(0, MCFile("empty", {}))>>)
        EXCEPT !.blocks = 3, !.oversized = {2}, !.tight = {3}],
     topGz |-> MCHolds("single", <<MCFile("doc", {})>>),
     topPages |-> MCHolds("iwork", <<MCFile("preview", {})>>),
     unpackable |-> MCHolds("zip",
        <<MCFile("sub", {"dir"}), MCNested("nested", "innerZip", {}),
          MCNested("bad", "badZip", {}), MCFile("doc", {})>>),
     innerZip |-> MCHolds("zip", <<MCFile("doc", {}), MCNested("deep", "innerTar", {})>>),
     innerTar |-> MCHolds("tar", <<MCFile("doc", {}), MCNested("bad", "badZip", {})>>),
     inner7z |-> MCHolds("7z", <<MCFile("doc", {}), MCFile("last", {"unreadable"})>>),
     badZip |-> [MCHolds("zip", <<>>) EXCEPT !.corrupt = TRUE]]
MCArchiveIds == DOMAIN MCContents

\* What the theorems about archives suppose holds of these.
ASSUME MCArchivesAreWellPacked ==
    /\ \A a \in ArchiveIds : WellPacked(Contents[a])
    /\ \A a \in Tops \ External : NamedOnce(a)

-----------------------------------------------------------------------------
\* Days since 1970-01-01, year by year and month by month.
MCLeap(y) == y % 4 = 0 /\ (y % 100 # 0 \/ y % 400 = 0)
MCLength(y, m) ==
    <<31, IF MCLeap(y) THEN 29 ELSE 28, 31, 30, 31, 30, 31, 31, 30, 31, 30, 31>>[m]
MCDays(y, m, d) ==
    365 * (y - 1970) + Cardinality({x \in 1970..(y - 1) : MCLeap(x)})
      + MapThenSumSet(LAMBDA k : MCLength(y, k), 1..(m - 1)) + d - 1

\* zip_dos_to_unix is the calendar, for every date a DOS timestamp can have but
\* those of 1980; a sanitized time is never in the future.
ASSUME MCDatesMatchCalendar ==
    \A y \in 1981..2107, m \in 1..12, d \in {1, 28, 29, 30, 31} :
      d <= MCLength(y, m) => DosDays(y, m, d) = MCDays(y, m, d)
ASSUME MCSanitizedNotInFuture ==
    \A now \in {0, 20000, 30000}, ts \in 0..60000 :
      \/ Sanitized(ts, now) = NoTime
      \/ Sanitized(ts, now) <= now
      \/ now < END_OF_2099 - Century     \* today's clocks are past that: 1999

-----------------------------------------------------------------------------
MCInit ==
    /\ part \in {"stats", "archive"}
    /\ StatsInit /\ ArchiveInit
    /\ part # "archive" => archive = CHOOSE t \in Tops : TRUE

MCNext ==
    \/ part = "stats" /\ StatsNext /\ UNCHANGED <<part, archiveVars>>
    \/ part = "archive" /\ ArchiveNext /\ UNCHANGED <<part, statsVars>>

\* The fairness speaks of the stats part; the other one is checked for
\* invariants only.
MCSpec == MCInit /\ [][MCNext]_<<part, statsVars, archiveVars>> /\ StatsFairness

=============================================================================
