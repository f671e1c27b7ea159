------------------------------ MODULE StatsCache ------------------------------
(***************************************************************************)
(* The statistics cache of one source.  The worker counts what each        *)
(* request changes and applies the deltas after the COMMIT that covers     *)
(* them; the startup task, the archive worker, the daily task and          *)
(* /stats?refresh replace the whole entry by what a query of the database  *)
(* returned a moment before; the SSE stream shows the entry whenever it is *)
(* told that something changed.                                            *)
(*                                                                         *)
(* A rebuild counts the rows of archive members too, a delta does not.     *)
(* The sums of the sizes go the way of the counts and are kept by kind     *)
(* only as a number of files.                                              *)
(***************************************************************************)
EXTENDS Integers, FiniteSets, FiniteSetsExt, Sequences, SequencesExt

CONSTANTS
    Outer, Inner,    \* paths of files and of archive members
    Kinds,
    Sizes,
    NoRow,
    Rebuilders,
    Daily,           \* the rebuilder that runs whatever happens
    MaxOps,          \* bound: files written or deleted
    MaxFailures,     \* bound: files that cannot be indexed, failed requests
                     \* and rebuilds, crashes
    MaxExtra         \* bound: rebuilds other than the daily one

Path == Outer \cup Inner

Row == [kind: Kinds, size: Sizes]

ASSUME StatsAssumption ==
    /\ Outer \cap Inner = {} /\ IsFiniteSet(Path) /\ Daily \in Rebuilders
    /\ Sizes \subseteq Nat /\ NoRow \notin Row
    /\ MaxOps \in Nat /\ MaxFailures \in Nat /\ MaxExtra \in Nat

Stats == [files: Int, size: Int, kinds: [Kinds -> Int]]
NoDelta == [files |-> 0, size |-> 0, kinds |-> [k \in Kinds |-> 0]]
Empty == NoDelta

VARIABLES
    rows,            \* committed
    session,         \* the rows as the open transaction sees them
    pc,              \* the worker
    delta,           \* of the request in progress
    pending_deltas,  \* of processed requests no COMMIT covers yet
    stats_cache,
    snapshot,        \* what a rebuild in progress has read
    tick, shown,     \* stats_watch, and the last event of the stream
    partial,         \* history: a part of a request whose delta is not applied
                     \* yet is committed
    fallback,        \* history: the transaction holds a row of a failed file
    drifted,         \* history: a delta was lost or counted twice, or a rebuild
                     \* wrote no counts
    members,         \* history: members counted by the last rebuild
    ops, failures, extra

db_vars == <<rows, session, pc, delta, pending_deltas, partial, fallback>>
cache_vars == <<stats_cache, tick, drifted, members>>
statsVars == <<db_vars, cache_vars, snapshot, shown, ops, failures, extra>>

NoSnapshot == [phase |-> "none"]

StatsTypeOK ==
    /\ rows \in [Path -> Row \cup {NoRow}] /\ session \in [Path -> Row \cup {NoRow}]
    /\ pc \in {"idle", "request", "between", "flush", "flush_part"}
    /\ delta \in Stats /\ pending_deltas \in Seq(Stats)
    /\ stats_cache \in Stats /\ shown \in Stats
    /\ stats_cache.files >= 0 /\ stats_cache.size >= 0 /\ \A k \in Kinds : stats_cache.kinds[k] >= 0
    /\ tick \in BOOLEAN /\ partial \in BOOLEAN /\ fallback \in BOOLEAN
    /\ drifted \in BOOLEAN /\ members \in Stats
    /\ ops \in 0..MaxOps /\ failures \in 0..MaxFailures /\ extra \in 0..MaxExtra

-----------------------------------------------------------------------------
\* get_stats, on the rows of some paths.
Count(r, paths) ==
    LET ps == {p \in paths : r[p] # NoRow}
    IN  [files |-> Cardinality(ps),
         size |-> MapThenSumSet(LAMBDA p : r[p].size, ps),
         kinds |-> [k \in Kinds |-> Cardinality({p \in ps : r[p].kind = k})]]

Plus(s, d) ==
    [files |-> s.files + d.files, size |-> s.size + d.size,
     kinds |-> [k \in Kinds |-> s.kinds[k] + d.kinds[k]]]

One(row, n) ==
    [files |-> n, size |-> n * row.size,
     kinds |-> [k \in Kinds |-> IF k = row.kind THEN n ELSE 0]]

\* apply_delta.  Mutant: without max(0).
ApplyDeltaRaw(s, d) == Plus(s, d)
ApplyDelta(s, d) ==
    LET sum == Plus(s, d)
        AtLeast0(n) == IF n < 0 THEN 0 ELSE n
    IN  [files |-> AtLeast0(sum.files), size |-> AtLeast0(sum.size),
         kinds |-> [k \in Kinds |-> AtLeast0(sum.kinds[k])]]

(***************************************************************************)
(* The worker.  A session stays open over the requests of a group; a       *)
(* request may be committed in parts, a COMMIT may cover several requests. *)
(***************************************************************************)
Receive ==
    /\ pc \in {"idle", "between"} /\ ops < MaxOps
    /\ pc' = "request" /\ delta' = NoDelta
    /\ UNCHANGED <<rows, session, pending_deltas, partial, fallback, cache_vars, snapshot, shown,
                   ops, failures, extra>>

\* The outcome of process_file_phase1, as process_one_request counts it.
\* Mutant: a file that is indexed again is counted as new.
CountedAsNew(p, old, new) ==
    IF p \in Inner THEN delta ELSE Plus(delta, One(new, 1))
Counted(p, old, new) ==
    IF p \in Inner THEN delta
    ELSE IF old = NoRow THEN Plus(delta, One(new, 1))
    ELSE Plus(Plus(delta, One(old, -1)), One(new, 1))

Upsert(p, row) ==
    /\ pc = "request" /\ ops < MaxOps
    /\ session' = [session EXCEPT ![p] = row]
    /\ delta' = Counted(p, session[p], row)
    /\ ops' = ops + 1
    /\ UNCHANGED <<rows, pc, pending_deltas, partial, fallback, cache_vars,
                   snapshot, shown, failures, extra>>

\* The savepoint fails: the file is indexed by its name, and not counted.
Fallback(p, row) ==
    /\ pc = "request" /\ failures < MaxFailures
    /\ session' = [session EXCEPT ![p] = row]
    /\ fallback' = TRUE
    /\ failures' = failures + 1
    /\ UNCHANGED <<rows, pc, delta, pending_deltas, partial, cache_vars,
                   snapshot, shown, ops, extra>>

Delete(p) ==
    /\ pc = "request" /\ ops < MaxOps /\ session[p] # NoRow
    /\ session' = [session EXCEPT ![p] = NoRow]
    /\ delta' = IF p \in Inner THEN delta ELSE Plus(delta, One(session[p], -1))
    /\ ops' = ops + 1
    /\ UNCHANGED <<rows, pc, pending_deltas, partial, fallback, cache_vars,
                   snapshot, shown, failures, extra>>

\* A delta that changes nothing is not kept: applying it has no effect.
RequestDone ==
    /\ pc = "request"
    /\ pc' = "between" /\ delta' = NoDelta
    /\ pending_deltas' = IF delta = NoDelta THEN pending_deltas
                         ELSE Append(pending_deltas, delta)
    /\ UNCHANGED <<rows, session, partial, fallback, cache_vars, snapshot, shown,
                   ops, failures, extra>>

\* A rebuild whose snapshot the cache is out of step with when it is written.
Spoil == [r \in Rebuilders |->
    IF snapshot[r] = NoSnapshot THEN NoSnapshot ELSE [snapshot[r] EXCEPT !.spoiled = TRUE]]

\* COMMIT: in the middle of a request (commit_point), or at the end (finalize).
Commit ==
    /\ pc \in {"request", "between"}
    /\ pc' = IF pc = "request" THEN "flush_part" ELSE "flush"
    /\ rows' = session
    /\ partial' = (partial \/ pc = "request")
    /\ fallback' = FALSE
    /\ drifted' = (drifted \/ fallback)
    /\ snapshot' = IF fallback THEN Spoil ELSE snapshot
    /\ UNCHANGED <<session, delta, pending_deltas, stats_cache, tick, members, shown,
                   ops, failures, extra>>

\* flush_committed: the deltas of the requests that were done.
\* Mutant: they stay and are applied again after the next COMMIT.
DrainedNot(deltas) == deltas
Drained(deltas) == <<>>

Flush ==
    /\ pc \in {"flush", "flush_part"}
    /\ pc' = IF pc = "flush" THEN "idle" ELSE "request"
    /\ stats_cache' = FoldLeft(ApplyDelta, stats_cache, pending_deltas)
    /\ tick' = (tick \/ pending_deltas # <<>>)
    /\ snapshot' = IF pending_deltas # <<>> THEN Spoil ELSE snapshot
    /\ pending_deltas' = Drained(pending_deltas)
    /\ partial' = (pc = "flush_part")
    /\ UNCHANGED <<rows, session, delta, fallback, drifted, members, shown,
                   ops, failures, extra>>

\* abort: the request fails; its delta and those no COMMIT covers are dropped.
Abort ==
    /\ pc \in {"request", "between"} /\ failures < MaxFailures
    /\ failures' = failures + 1
    /\ pc' = "idle" /\ session' = rows
    /\ delta' = NoDelta /\ pending_deltas' = <<>>
    /\ fallback' = FALSE /\ partial' = FALSE
    /\ drifted' = (drifted \/ partial)
    /\ snapshot' = IF partial THEN Spoil ELSE snapshot
    /\ UNCHANGED <<rows, stats_cache, tick, members, shown, ops, extra>>

\* The server stops; the cache starts empty and is rebuilt 30 s later.
Crash ==
    /\ failures < MaxFailures /\ failures' = failures + 1
    /\ pc' = "idle" /\ session' = rows
    /\ delta' = NoDelta /\ pending_deltas' = <<>>
    /\ fallback' = FALSE /\ partial' = FALSE
    /\ stats_cache' = Empty /\ drifted' = TRUE /\ members' = Empty
    /\ snapshot' = [r \in Rebuilders |-> NoSnapshot]
    /\ shown' = Empty /\ tick' = FALSE
    /\ UNCHANGED <<rows, ops, extra>>

(***************************************************************************)
(* full_rebuild: one query, and later the write of what it returned.  A    *)
(* source whose database cannot be opened is missing from what is written, *)
(* one whose query fails has zeros: both are Empty.                        *)
(***************************************************************************)
ReadStats(r) ==
    /\ snapshot[r] = NoSnapshot
    /\ IF r = Daily THEN UNCHANGED extra
       ELSE extra < MaxExtra /\ extra' = extra + 1
    /\ \/ /\ snapshot' = [snapshot EXCEPT ![r] =
                 [phase |-> "read", stats |-> Count(rows, Path), members |-> Count(rows, Inner),
                  spoiled |-> pc \in {"flush", "flush_part"} \/ partial]]
          /\ UNCHANGED failures
       \/ /\ failures < MaxFailures /\ failures' = failures + 1
          /\ snapshot' = [snapshot EXCEPT ![r] =
                 [phase |-> "read", stats |-> Empty, members |-> Empty, spoiled |-> TRUE]]
    /\ UNCHANGED <<db_vars, cache_vars, shown, ops>>

\* Mutant: a source that is in the cache already is kept.
RebuiltOnce(s) == IF stats_cache = Empty THEN s ELSE stats_cache
Rebuilt(s) == s

WriteStats(r) ==
    /\ snapshot[r] # NoSnapshot
    /\ stats_cache' = Rebuilt(snapshot[r].stats)
    /\ members' = snapshot[r].members
    /\ drifted' = snapshot[r].spoiled
    /\ snapshot' = [snapshot EXCEPT ![r] = NoSnapshot]
    /\ tick' = TRUE
    /\ UNCHANGED <<db_vars, shown, ops, failures, extra>>

\* stream_stats: the latest value, once for any number of ticks.
Stream ==
    /\ tick /\ tick' = FALSE
    /\ shown' = stats_cache
    /\ UNCHANGED <<db_vars, stats_cache, drifted, members, snapshot, ops, failures, extra>>

StatsInit ==
    /\ rows = [p \in Path |-> NoRow] /\ session = rows
    /\ pc = "idle" /\ delta = NoDelta /\ pending_deltas = <<>>
    /\ stats_cache = Empty /\ shown = Empty /\ tick = FALSE
    /\ snapshot = [r \in Rebuilders |-> NoSnapshot]
    /\ partial = FALSE /\ fallback = FALSE /\ drifted = FALSE
    /\ members = Empty
    /\ ops = 0 /\ failures = 0 /\ extra = 0

Worker ==
    \/ Receive \/ RequestDone \/ Commit \/ Flush \/ Abort
    \/ \E p \in Path : Delete(p) \/ \E row \in Row : Upsert(p, row)
    \/ \E p \in Outer, row \in Row : Fallback(p, row)

StatsNext ==
    \/ Worker \/ Crash \/ Stream
    \/ \E r \in Rebuilders : ReadStats(r) \/ WriteStats(r)

StatsSpec == StatsInit /\ [][StatsNext]_statsVars

\* A group comes to its end, the daily task runs every day and every rebuild
\* that has read the database writes; the client of the stream reads on.
StatsFairness ==
    /\ WF_statsVars(RequestDone) /\ WF_statsVars(Commit /\ pc = "between") /\ WF_statsVars(Flush)
    /\ WF_statsVars(ReadStats(Daily))
    /\ \A r \in Rebuilders : WF_statsVars(WriteStats(r))
    /\ WF_statsVars(Stream)

StatsFairSpec == StatsSpec /\ StatsFairness

-----------------------------------------------------------------------------
(***************************************************************************)
(* Properties                                                              *)
(***************************************************************************)

\* While nothing is in flight the cache counts every file once: the outer files
\* as they are now, and the members as the last rebuild found them.  What this
\* leaves out is named: a file indexed by its name only after a failure, a
\* request that fails after a part of it was committed, and a rebuild whose
\* query and write enclose a COMMIT or a delta, or whose query fails
\* (process_one_request, flush_committed, abort, full_rebuild).
Accurate ==
    pc = "idle" /\ ~drifted => stats_cache = Plus(Count(rows, Outer), members)

\* Whatever was lost, counted twice or raced: once nothing is written any more,
\* the cache and what the stream shows come to agree with the database for good.
Heals == <>[](stats_cache = Count(rows, Path) /\ shown = stats_cache)

=============================================================================
