--------------------------- MODULE InboxPipeline ---------------------------
(***************************************************************************)
(* The write path of find-server, from the arrival of a bulk request to    *)
(* its text in the content store:                                          *)
(*                                                                         *)
(*   POST /bulk -> inbox/{id}.gz -> router -> indexing worker (phase 1,    *)
(*   one SQLite session shared by consecutive requests) -> to-archive/     *)
(*   -> archive worker (phase 2) -> blobs.db                               *)
(*                                                                         *)
(* A request is its number in file-name order, which is the order the      *)
(* router dispatches in.  A step is one commit, one file-system call or    *)
(* one write unit, so a crash can fall between any two of them.  Files in   *)
(* archives (composite paths) are outside this module; the timeout of a    *)
(* group and the administrator's retry are in GroupTimeouts.               *)
(*                                                                         *)
(* Faults are chosen from the constant set Faults and are bounded by       *)
(* MaxFaults; every other choice (which body a client sends, how many      *)
(* files the byte cap lets into a group, the order in which phase 2 takes  *)
(* payloads) is free.                                                      *)
(***************************************************************************)
EXTENDS Naturals, FiniteSets

CONSTANTS
    MaxRequests,         \* bound: how many requests clients submit
    Paths, Sources, SourceOf,  \* SourceOf[p]: the source that owns path p
    Hashes,
    Bodies,              \* the bulk requests a client may send
    PHASE1_BATCH_SIZE,   \* write units per COMMIT
    MAX_GROUP_REQUESTS,  \* inbox files per dispatched group
    DONE_CAPACITY,       \* capacity of the worker -> router channel
    Faults,              \* the kinds of fault that may happen
    MaxFaults,           \* bound: how many of them
    NoRow, NoHash, NoSource, NoBody, NoReq

Requests == 1..MaxRequests
File == [path : Paths, hash : Hashes \cup {NoHash}, mtime : Nat, force : BOOLEAN]
Row  == [hash : Hashes \cup {NoHash}, mtime : Nat]

ASSUME ConstantsAssumption ==
    /\ MaxRequests \in Nat
    /\ MaxFaults \in Nat
    /\ PHASE1_BATCH_SIZE \in Nat \ {0}
    /\ MAX_GROUP_REQUESTS \in Nat \ {0}
    /\ DONE_CAPACITY \in Nat \ {0}
    /\ NoReq \notin Requests
    /\ NoRow \notin Row
    /\ NoHash \notin Hashes
    /\ NoSource \notin Sources
    /\ NoBody \notin Bodies
    /\ SourceOf \in [Paths -> Sources]

\* Within a request a path is upserted at most once and the renames touch
\* pairwise different paths, so the order of the lists does not matter.
ASSUME BodiesAssumption ==
    \A b \in Bodies :
        /\ b.source \in Sources
        /\ b.deletes \in SUBSET Paths
        /\ IsFiniteSet(b.deletes)
        /\ b.renames \in SUBSET (Paths \X Paths)
        /\ b.files \in SUBSET File

VARIABLES
    nextReq, body,  \* the next request id; what each request asks for
    pending,        \* ids given out whose inbox file is not created yet
    uploading,      \* ids whose inbox file is being written
    inbox,          \* ids with a file in inbox/
    complete,       \* ids whose inbox file was written to its end
    failed,         \* ids with a file in inbox/failed/
    toArchive,      \* ids with a payload in inbox/to-archive/
    db,             \* committed files rows: path -> row
    blobs,          \* hashes stored in blobs.db
    paused,         \* inbox_paused
    inFlight, remaining, channel, doneQ, \* router: in_flight and the rest of the
                                         \* listing; the work and done channels
    pc, ret,        \* indexing worker: next step, step after a flush
    group, toSignal, cur, todo, \* rest of the group, ids to report, current id and its files
    sesSource, txn, sinceCommit, deletable, pendingArchive, \* SourceSession
    archCur, archTodo, archPut, \* phase 2: payload, its files, hash between delete and put
    faultsLeft,
    accepted, durable, expected, \* history: 202 sent, effects committed, in-order outcome
    beside          \* history: the requests not yet answered when a request got its id

diskVars    == <<inbox, complete, failed, toArchive, db, blobs>>
clientVars  == <<nextReq, body, pending, uploading, accepted, expected, beside>>
routerVars  == <<paused, inFlight, remaining, channel, doneQ>>
workerVars  == <<pc, ret, group, toSignal, cur, todo>>
sessionVars == <<sesSource, txn, sinceCommit, deletable, pendingArchive>>
archVars    == <<archCur, archTodo, archPut>>
vars == <<diskVars, clientVars, routerVars, workerVars, sessionVars, archVars,
          faultsLeft, durable>>

-----------------------------------------------------------------------------
(* The files table as phase 1 changes it.                                   *)

EmptyDb == [p \in Paths |-> NoRow]

HasHash(row, h) == row # NoRow /\ row.hash = h /\ h # NoHash

Deleted(d, ps) == [p \in Paths |-> IF p \in ps THEN NoRow ELSE d[p]]

\* rename_files skips a pair whose old path is gone or whose new path exists.
Moves(d, rn) == d[rn[1]] # NoRow /\ d[rn[2]] = NoRow

Renamed(d, rns) ==
    [p \in Paths |->
        IF \E rn \in rns : Moves(d, rn) /\ rn[2] = p
        THEN d[(CHOOSE rn \in rns : Moves(d, rn) /\ rn[2] = p)[1]]
        ELSE IF \E rn \in rns : Moves(d, rn) /\ rn[1] = p THEN NoRow ELSE d[p]]

\* The stale-mtime guard; 0 is the mtime of a sentinel and is never stale.
Stale(d, f) ==
    /\ ~f.force
    /\ d[f.path] # NoRow
    /\ f.mtime > 0
    /\ f.mtime < d[f.path].mtime

Upserted(d, f) ==
    IF Stale(d, f) THEN d
    ELSE [d EXCEPT ![f.path] = [hash |-> f.hash, mtime |-> f.mtime]]

\* filename_only_file: the row of a file that could not be indexed.
FilenameOnly(f) == [f EXCEPT !.hash = NoHash]

\* A whole request applied at once, as the history variable records it.
AppliedBody(d, b) ==
    LET moved == Renamed(Deleted(d, b.deletes), b.renames)
    IN  [p \in Paths |->
            IF \E f \in b.files : f.path = p
            THEN Upserted(moved, CHOOSE f \in b.files : f.path = p)[p]
            ELSE moved[p]]

\* The paths whose rows a request may change.
Touches(b) ==
    b.deletes \cup {f.path : f \in b.files} \cup UNION {{rn[1], rn[2]} : rn \in b.renames}

-----------------------------------------------------------------------------
(* Helpers shared by the actions.                                           *)

IsLeast(x, S) == x \in S /\ \A y \in S : x <= y

ArchivableFiles(r) == {f \in body[r].files : f.hash # NoHash}

Fault(kind) ==
    /\ kind \in Faults
    /\ faultsLeft > 0
    /\ faultsLeft' = faultsLeft - 1

MoveToFailed(r) ==
    /\ inbox' = inbox \ {r}
    /\ failed' = failed \cup ({r} \cap inbox)
    /\ UNCHANGED <<complete, toArchive, db, blobs>>

NoSession ==
    /\ sesSource' = NoSource
    /\ txn' = db
    /\ sinceCommit' = 0
    /\ deletable' = {}
    /\ pendingArchive' = {}

Goto(step) == pc' = step /\ UNCHANGED <<ret, group, toSignal, cur, todo>>

\* add_units_and_maybe_commit: n write units, then COMMIT when the cadence is
\* reached.  next is where the request goes on.
AddUnits(n, next) ==
    /\ sinceCommit' = sinceCommit + n
    /\ IF sinceCommit + n >= PHASE1_BATCH_SIZE
       THEN pc' = "commit" /\ ret' = next
       ELSE pc' = next /\ UNCHANGED ret

Init ==
    /\ nextReq = 1 /\ body = [r \in Requests |-> NoBody]
    /\ pending = {} /\ uploading = {} /\ beside = [r \in Requests |-> {}]
    /\ inbox = {} /\ complete = {} /\ failed = {} /\ toArchive = {}
    /\ db = EmptyDb /\ blobs = {}
    /\ paused = FALSE /\ inFlight = {} /\ remaining = {} /\ channel = {} /\ doneQ = {}
    /\ pc = "idle" /\ ret = "signal" /\ group = {} /\ toSignal = {}
    /\ cur = NoReq /\ todo = {}
    /\ sesSource = NoSource /\ txn = EmptyDb /\ sinceCommit = 0
    /\ deletable = {} /\ pendingArchive = {}
    /\ archCur = NoReq /\ archTodo = {} /\ archPut = NoHash
    /\ faultsLeft = MaxFaults
    /\ accepted = {} /\ durable = {} /\ expected = EmptyDb

-----------------------------------------------------------------------------
(* The bulk route.  A request gets its id, and then awaits the write of its *)
(* file, which creates it and fills it: the router can see the name before  *)
(* the body is complete, and requests of one source that are on their way   *)
(* together (find-scan and find-watch post for the same source) can create  *)
(* their files in another order than that of their ids.                     *)

Submit(b) ==
    /\ nextReq \in Requests
    /\ nextReq' = nextReq + 1
    /\ body' = [body EXCEPT ![nextReq] = b]
    /\ pending' = pending \cup {nextReq}
    /\ beside' = [beside EXCEPT ![nextReq] = pending \cup uploading]
    /\ UNCHANGED <<uploading, accepted, expected, diskVars, routerVars, workerVars,
                   sessionVars, archVars, faultsLeft, durable>>

CreateFile(r) ==
    /\ r \in pending
    /\ pending' = pending \ {r}
    /\ uploading' = uploading \cup {r}
    /\ inbox' = inbox \cup {r}
    /\ UNCHANGED <<nextReq, body, accepted, expected, beside, complete, failed,
                   toArchive, db, blobs, routerVars, workerVars, sessionVars, archVars,
                   faultsLeft, durable>>

SubmitDone(r) ==
    /\ r \in uploading
    /\ uploading' = uploading \ {r}
    /\ complete' = complete \cup {r}
    /\ accepted' = accepted \cup {r}
    /\ expected' = AppliedBody(expected, body[r])
    /\ UNCHANGED <<inbox, failed, toArchive, db, blobs, nextReq, body, pending, beside,
                   routerVars, workerVars, sessionVars, archVars, faultsLeft, durable>>

-----------------------------------------------------------------------------
(* The router loop.  An iteration drains the done channel, lists inbox/ and *)
(* hands groups of what is not in flight to the capacity-1 work channel     *)
(* until it is full.  Draining and listing are one step: a request that     *)
(* leaves flight or inbox/ between the two is filtered out either way.      *)

\* Mutant of RouterScan: requests in flight are not filtered out.
RouterScanUnfiltered ==
    /\ remaining = {}
    /\ inbox # {} /\ ~paused
    /\ doneQ' = {}
    /\ inFlight' = inFlight \ doneQ
    /\ remaining' = inbox
    /\ UNCHANGED <<paused, channel, diskVars, clientVars, workerVars, sessionVars,
                   archVars, faultsLeft, durable>>

RouterScan ==
    LET flying == inFlight \ doneQ
    IN  /\ remaining = {}
        /\ \/ doneQ # {}
           \/ ~paused /\ inbox \ flying # {}
        /\ doneQ' = {}
        /\ inFlight' = flying
        /\ remaining' = IF paused THEN {} ELSE inbox \ flying
        /\ UNCHANGED <<paused, channel, diskVars, clientVars, workerVars, sessionVars,
                       archVars, faultsLeft, durable>>

\* Mutant of FormGroup: files are taken in an order that is not their names'.
FormGroupUnordered(candidates) ==
    {g \in SUBSET candidates : g # {} /\ Cardinality(g) <= MAX_GROUP_REQUESTS}

\* form_group: a prefix in file-name order under the count cap; the byte cap
\* may cut it anywhere after the first file.
FormGroup(candidates) ==
    {g \in SUBSET candidates :
        /\ g # {}
        /\ Cardinality(g) <= MAX_GROUP_REQUESTS
        /\ \A r \in g, q \in candidates \ g : r < q}

RouterSend ==
    /\ remaining # {}
    /\ \/ /\ channel = {}
          /\ \E g \in FormGroup(remaining) :
                /\ channel' = g
                /\ inFlight' = inFlight \cup g
                /\ remaining' = remaining \ g
       \/ /\ channel # {}
          /\ remaining' = {}
          /\ UNCHANGED <<inFlight, channel>>
    /\ UNCHANGED <<paused, doneQ, diskVars, clientVars, workerVars, sessionVars,
                   archVars, faultsLeft, durable>>

InboxPause ==
    /\ ~paused
    /\ Fault("pause")
    /\ paused' = TRUE
    /\ UNCHANGED <<inFlight, remaining, channel, doneQ, diskVars, clientVars,
                   workerVars, sessionVars, archVars, durable>>

InboxResume ==
    /\ paused
    /\ paused' = FALSE
    /\ UNCHANGED <<inFlight, remaining, channel, doneQ, diskVars, clientVars,
                   workerVars, sessionVars, archVars, faultsLeft, durable>>

-----------------------------------------------------------------------------
(* The indexing worker: process_group_phase1 and process_one_request.       *)

WorkerRecv ==
    /\ pc = "idle" /\ channel # {}
    /\ channel' = {}
    /\ group' = channel
    /\ toSignal' = channel
    /\ pc' = "next"
    /\ UNCHANGED <<ret, cur, todo, paused, inFlight, remaining, doneQ, diskVars,
                   clientVars, sessionVars, archVars, faultsLeft, durable>>

NextRequest ==
    /\ pc = "next"
    /\ \E r \in group :
        /\ IsLeast(r, group)
        /\ cur' = r
        /\ group' = group \ {r}
    /\ pc' = "decode"
    /\ UNCHANGED <<ret, toSignal, todo, diskVars, clientVars, routerVars,
                   sessionVars, archVars, faultsLeft, durable>>

\* A file that is unreadable, truncated or not yet written to its end.  The
\* open session and what it accumulated are kept.
DecodeFails ==
    /\ pc = "decode"
    /\ \/ cur \notin complete \cap inbox /\ UNCHANGED faultsLeft
       \/ cur \in complete \cap inbox /\ Fault("decode")
    /\ MoveToFailed(cur)
    /\ Goto("next")
    /\ UNCHANGED <<clientVars, routerVars, sessionVars, archVars, durable>>

\* Mutant of Decode: a session ended by an error is not opened again.
DecodeWithoutOpen ==
    /\ pc = "decode" /\ cur \in complete \cap inbox
    /\ Goto("deletes")
    /\ UNCHANGED <<diskVars, clientVars, routerVars, sessionVars, archVars,
                   faultsLeft, durable>>

\* Decoded: the session of this source goes on, a session of another source
\* is committed and closed first, and with no session one is opened.
Decode ==
    /\ pc = "decode" /\ cur \in complete \cap inbox
    /\ \/ /\ sesSource = body[cur].source
          /\ Goto("deletes")
       \/ /\ sesSource = NoSource
          /\ Goto("open")
       \/ /\ sesSource \notin {NoSource, body[cur].source}
          /\ pc' = "commit" /\ ret' = "open"
          /\ UNCHANGED <<group, toSignal, cur, todo>>
    /\ UNCHANGED <<diskVars, clientVars, routerVars, sessionVars, archVars,
                   faultsLeft, durable>>

OpenSession ==
    /\ pc = "open"
    /\ sesSource' = body[cur].source
    /\ txn' = db
    /\ sinceCommit' = 0
    /\ UNCHANGED <<deletable, pendingArchive>>
    /\ Goto("deletes")
    /\ UNCHANGED <<diskVars, clientVars, routerVars, archVars, faultsLeft, durable>>

OpenFails ==
    /\ pc = "open"
    /\ Fault("open")
    /\ MoveToFailed(cur)
    /\ Goto("next")
    /\ UNCHANGED <<clientVars, routerVars, sessionVars, archVars, durable>>

\* delete_paths first, as one chunk: bodies have fewer than DELETE_COMMIT_CHUNK.
Deletes ==
    /\ pc = "deletes"
    /\ txn' = Deleted(txn, body[cur].deletes)
    /\ AddUnits(Cardinality(body[cur].deletes), "renames")
    /\ UNCHANGED <<group, toSignal, cur, todo, sesSource, deletable, pendingArchive,
                   diskVars, clientVars, routerVars, archVars, faultsLeft, durable>>

Renames ==
    /\ pc = "renames"
    /\ txn' = Renamed(txn, body[cur].renames)
    /\ todo' = body[cur].files
    /\ pc' = "files"
    /\ UNCHANGED <<ret, group, toSignal, cur, sesSource, sinceCommit, deletable,
                   pendingArchive, diskVars, clientVars, routerVars, archVars,
                   faultsLeft, durable>>

\* One file under its own savepoint; a file that fails is indexed by name
\* only, and when that fails too it is left as it was.
IndexFile ==
    /\ pc = "files"
    /\ \E f \in todo :
        /\ todo' = todo \ {f}
        /\ \/ txn' = Upserted(txn, f) /\ UNCHANGED faultsLeft
           \/ txn' \in {Upserted(txn, FilenameOnly(f)), txn} /\ Fault("file")
    /\ AddUnits(1, "files")
    /\ UNCHANGED <<group, toSignal, cur, sesSource, deletable, pendingArchive,
                   diskVars, clientVars, routerVars, archVars, durable>>

\* do_cleanup_writes and the activity log, then one unit for the renames.
Cleanup ==
    /\ pc = "files" /\ todo = {}
    /\ IF body[cur].renames = {}
       THEN pc' = "done" /\ UNCHANGED <<ret, sinceCommit>>
       ELSE AddUnits(1, "done")
    /\ UNCHANGED <<group, toSignal, cur, todo, sesSource, txn, deletable,
                   pendingArchive, diskVars, clientVars, routerVars, archVars,
                   faultsLeft, durable>>

\* Mutants of RequestDone: the payload is written at once; the inbox file is
\* removed at once.
RequestDoneEagerPayload ==
    /\ pc = "done"
    /\ deletable' = deletable \cup {cur}
    /\ toArchive' = IF body[cur].files = {} THEN toArchive ELSE toArchive \cup {cur}
    /\ Goto("next")
    /\ UNCHANGED <<sesSource, txn, sinceCommit, pendingArchive, inbox, complete,
                   failed, db, blobs, clientVars, routerVars, archVars, faultsLeft,
                   durable>>

RequestDoneEagerDelete ==
    /\ pc = "done"
    /\ inbox' = inbox \ {cur}
    /\ pendingArchive' = pendingArchive \cup {cur}
    /\ Goto("next")
    /\ UNCHANGED <<sesSource, txn, sinceCommit, deletable, complete, failed,
                   toArchive, db, blobs, clientVars, routerVars, archVars,
                   faultsLeft, durable>>

\* The normalised payload is buffered; a request without files or renames has none.
RequestDone ==
    /\ pc = "done"
    /\ deletable' = deletable \cup {cur}
    /\ pendingArchive' =
          IF body[cur].files = {} /\ body[cur].renames = {}
          THEN pendingArchive ELSE pendingArchive \cup {cur}
    /\ Goto("next")
    /\ UNCHANGED <<sesSource, txn, sinceCommit, diskVars, clientVars, routerVars,
                   archVars, faultsLeft, durable>>

InRequest ==
    \/ pc \in {"deletes", "renames", "files", "done"}
    \/ pc = "commit" /\ ret \in {"renames", "files", "done"}

\* A request-level error: roll back, quarantine this request only, go on with
\* a fresh session.  Earlier requests of the session stay in inbox/.
RequestFails ==
    /\ InRequest
    /\ Fault("request")
    /\ NoSession
    /\ MoveToFailed(cur)
    /\ Goto("next")
    /\ UNCHANGED <<clientVars, routerVars, archVars, durable>>

\* Mutants of GroupAborts: the buffered deletions are carried out; the paths of
\* the group are not reported.
GroupAbortsAndDeletes ==
    /\ (InRequest \/ pc = "open") /\ Fault("lock")
    /\ NoSession
    /\ inbox' = inbox \ deletable
    /\ Goto("signal")
    /\ UNCHANGED <<complete, failed, toArchive, db, blobs, clientVars, routerVars,
                   archVars, durable>>

GroupAbortsSilently ==
    /\ (InRequest \/ pc = "open") /\ Fault("lock")
    /\ NoSession
    /\ Goto("idle")
    /\ UNCHANGED <<diskVars, clientVars, routerVars, archVars, durable>>

\* SQLITE_BUSY in a request or while opening, or a failed COMMIT of finalize:
\* roll back and end the group; nothing is quarantined.
GroupAborts ==
    /\ \/ (InRequest \/ pc = "open") /\ Fault("lock")
       \/ pc = "commit" /\ ret \in {"open", "signal"} /\ Fault("commit")
    /\ NoSession
    /\ Goto("signal")
    /\ UNCHANGED <<diskVars, clientVars, routerVars, archVars, durable>>

\* The blocking task panics: the connection is dropped and the async wrapper
\* quarantines the request in flight.
WorkerPanics ==
    /\ InRequest
    /\ Fault("panic")
    /\ NoSession
    /\ MoveToFailed(cur)
    /\ Goto("signal")
    /\ UNCHANGED <<clientVars, routerVars, archVars, durable>>

GroupEnd ==
    /\ pc = "next" /\ group = {}
    /\ IF sesSource = NoSource
       THEN Goto("signal")
       ELSE pc' = "commit" /\ ret' = "signal" /\ UNCHANGED <<group, toSignal, cur, todo>>
    /\ UNCHANGED <<diskVars, clientVars, routerVars, sessionVars, archVars,
                   faultsLeft, durable>>

-----------------------------------------------------------------------------
(* commit_point and finalize: COMMIT, then flush_committed.                 *)

Commit ==
    /\ pc = "commit"
    /\ db' = txn
    /\ durable' = durable \cup deletable
    /\ Goto("flush")
    /\ UNCHANGED <<inbox, complete, failed, toArchive, blobs, clientVars, routerVars,
                   sessionVars, archVars, faultsLeft>>

\* A payload that cannot be written is logged and dropped.
FlushPayload ==
    /\ pc = "flush"
    /\ \E r \in pendingArchive :
        /\ IsLeast(r, pendingArchive)
        /\ pendingArchive' = pendingArchive \ {r}
        /\ \/ toArchive' = toArchive \cup {r} /\ UNCHANGED faultsLeft
           \/ Fault("payload") /\ UNCHANGED toArchive
    /\ UNCHANGED <<inbox, complete, failed, db, blobs, sesSource, txn, sinceCommit,
                   deletable, clientVars, routerVars, workerVars, archVars, durable>>

\* An inbox file that cannot be removed is logged and stays.
FlushDelete ==
    /\ pc = "flush" /\ pendingArchive = {}
    /\ \E r \in deletable :
        /\ IsLeast(r, deletable)
        /\ deletable' = deletable \ {r}
        /\ \/ inbox' = inbox \ {r} /\ UNCHANGED faultsLeft
           \/ Fault("remove") /\ UNCHANGED inbox
    /\ UNCHANGED <<complete, failed, toArchive, db, blobs, sesSource, txn,
                   sinceCommit, pendingArchive, clientVars, routerVars, workerVars,
                   archVars, durable>>

FlushEnd ==
    /\ pc = "flush" /\ pendingArchive = {} /\ deletable = {}
    /\ IF ret \in {"open", "signal"}
       THEN NoSession
       ELSE sinceCommit' = 0 /\ UNCHANGED <<sesSource, txn, deletable, pendingArchive>>
    /\ Goto(ret)
    /\ UNCHANGED <<diskVars, clientVars, routerVars, archVars, faultsLeft, durable>>

\* Mutant of SignalDone: a reported path is taken for a finished one.
SignalDoneRemoves ==
    /\ pc = "signal"
    /\ group' = {} /\ cur' = NoReq /\ todo' = {}
    /\ pc' = "idle" /\ toSignal' = {}
    /\ doneQ' = doneQ \cup toSignal
    /\ inbox' = inbox \ toSignal
    /\ UNCHANGED <<ret, paused, inFlight, remaining, channel, complete, failed,
                   toArchive, db, blobs, clientVars, sessionVars, archVars,
                   faultsLeft, durable>>

\* The worker reports every path of the group, whatever became of it.
SignalDone ==
    /\ pc = "signal"
    /\ group' = {} /\ cur' = NoReq /\ todo' = {}
    /\ IF toSignal = {}
       THEN pc' = "idle" /\ UNCHANGED <<doneQ, toSignal>>
       ELSE /\ Cardinality(doneQ) < DONE_CAPACITY
            /\ \E r \in toSignal :
                /\ IsLeast(r, toSignal)
                /\ doneQ' = doneQ \cup {r}
                /\ toSignal' = toSignal \ {r}
            /\ UNCHANGED pc
    /\ UNCHANGED <<ret, paused, inFlight, remaining, channel, diskVars, clientVars,
                   sessionVars, archVars, faultsLeft, durable>>

-----------------------------------------------------------------------------
(* The archive worker: archive_gz, file by file.  put_overwrite deletes the *)
(* blob in one transaction and stores it in another.  Payloads are taken in *)
(* mtime order, which ties within a flush: any order is allowed.            *)

ArchiveStart ==
    /\ archCur = NoReq
    /\ \E r \in toArchive :
        /\ archCur' = r
        /\ archTodo' = ArchivableFiles(r)
    /\ UNCHANGED <<archPut, diskVars, clientVars, routerVars, workerVars,
                   sessionVars, faultsLeft, durable>>

\* A file whose row carries another hash is skipped, and so is one whose row
\* cannot be read.
ArchiveFile ==
    /\ archCur # NoReq /\ archPut = NoHash
    /\ \E f \in archTodo :
        /\ archTodo' = archTodo \ {f}
        /\ \/ /\ HasHash(db[f.path], f.hash)
              /\ blobs' = blobs \ {f.hash}
              /\ archPut' = f.hash
              /\ UNCHANGED faultsLeft
           \/ /\ \/ ~HasHash(db[f.path], f.hash) /\ UNCHANGED faultsLeft
                 \/ Fault("read")
              /\ UNCHANGED <<blobs, archPut>>
    /\ UNCHANGED <<archCur, inbox, complete, failed, toArchive, db, clientVars,
                   routerVars, workerVars, sessionVars, durable>>

\* A put that fails is logged; the payload is deleted all the same.
ArchivePut ==
    /\ archPut # NoHash
    /\ archPut' = NoHash
    /\ \/ blobs' = blobs \cup {archPut} /\ UNCHANGED faultsLeft
       \/ Fault("put") /\ UNCHANGED blobs
    /\ UNCHANGED <<archCur, archTodo, inbox, complete, failed, toArchive, db,
                   clientVars, routerVars, workerVars, sessionVars, durable>>

ArchiveDone ==
    /\ archCur # NoReq /\ archPut = NoHash /\ archTodo = {}
    /\ archCur' = NoReq
    /\ toArchive' = toArchive \ {archCur}
    /\ UNCHANGED <<archTodo, archPut, inbox, complete, failed, db, blobs, clientVars,
                   routerVars, workerVars, sessionVars, faultsLeft, durable>>

\* Mutant of ArchiveFails: the payload is removed although it was not processed.
ArchiveFailsAndRemoves ==
    /\ archCur # NoReq /\ archPut = NoHash
    /\ Fault("archive")
    /\ archCur' = NoReq /\ archTodo' = {}
    /\ toArchive' = toArchive \ {archCur}
    /\ UNCHANGED <<archPut, inbox, complete, failed, db, blobs, clientVars, routerVars,
                   workerVars, sessionVars, durable>>

\* The source DB does not open or the payload cannot be removed: it stays for
\* the next batch.
ArchiveFails ==
    /\ archCur # NoReq /\ archPut = NoHash
    /\ archTodo \in {{}, ArchivableFiles(archCur)}
    /\ Fault("archive")
    /\ archCur' = NoReq /\ archTodo' = {}
    /\ UNCHANGED <<archPut, diskVars, clientVars, routerVars, workerVars,
                   sessionVars, durable>>

-----------------------------------------------------------------------------
(* A crash and the restart after it: what is in memory is gone, what is on  *)
(* disk stays; SQLite rolls the open transaction back.                      *)

Crash ==
    /\ Fault("crash")
    /\ pending' = {} /\ uploading' = {}
    /\ paused' = FALSE
    /\ inFlight' = {} /\ remaining' = {} /\ channel' = {} /\ doneQ' = {}
    /\ pc' = "idle" /\ ret' = "signal" /\ group' = {} /\ toSignal' = {}
    /\ cur' = NoReq /\ todo' = {}
    /\ NoSession
    /\ archCur' = NoReq /\ archTodo' = {} /\ archPut' = NoHash
    /\ UNCHANGED <<diskVars, nextReq, body, accepted, expected, beside, durable>>

-----------------------------------------------------------------------------

Worker ==
    \/ WorkerRecv \/ NextRequest \/ Decode \/ OpenSession \/ Deletes \/ Renames
    \/ IndexFile \/ Cleanup \/ RequestDone \/ GroupEnd \/ Commit \/ FlushPayload
    \/ FlushDelete \/ FlushEnd \/ SignalDone \/ DecodeFails

Router == RouterScan \/ RouterSend

Archiver == ArchiveStart \/ ArchiveFile \/ ArchivePut \/ ArchiveDone

Failure ==
    \/ OpenFails \/ RequestFails \/ GroupAborts \/ WorkerPanics \/ ArchiveFails
    \/ Crash

Next ==
    \/ \E b \in Bodies : Submit(b)
    \/ \E r \in Requests : CreateFile(r) \/ SubmitDone(r)
    \/ Router
    \/ InboxPause
    \/ InboxResume
    \/ Worker
    \/ Archiver
    \/ Failure

Spec == Init /\ [][Next]_vars

\* The router polls every second, the worker and the archive worker are
\* tokio tasks that loop forever, and a write that is awaited creates the file
\* and fills it unless the process dies.  Nothing is assumed of clients,
\* administrators or faults.
Fairness ==
    /\ \A r \in Requests : WF_vars(CreateFile(r)) /\ WF_vars(SubmitDone(r))
    /\ WF_vars(Router)
    /\ WF_vars(Worker)
    /\ WF_vars(Archiver)

FairSpec == Spec /\ Fairness

-----------------------------------------------------------------------------
(* Properties.                                                              *)

\* Every variable keeps the shape its Rust counterpart has; in particular a
\* session without a source has nothing buffered.
TypeOK ==
    /\ nextReq \in Nat
    /\ body \in [Requests -> Bodies \cup {NoBody}]
    /\ pending \subseteq Requests /\ uploading \subseteq Requests
    /\ inbox \subseteq Requests /\ complete \subseteq Requests
    /\ failed \subseteq Requests /\ toArchive \subseteq Requests
    /\ db \in [Paths -> Row \cup {NoRow}] /\ txn \in [Paths -> Row \cup {NoRow}]
    /\ blobs \subseteq Hashes
    /\ paused \in BOOLEAN
    /\ inFlight \subseteq Requests /\ remaining \subseteq Requests
    /\ channel \subseteq Requests /\ doneQ \subseteq Requests
    /\ pc \in {"idle", "next", "decode", "open", "deletes", "renames", "files",
               "done", "commit", "flush", "signal"}
    /\ ret \in {"open", "renames", "files", "done", "signal"}
    /\ group \subseteq Requests /\ toSignal \subseteq Requests
    /\ cur \in Requests \cup {NoReq} /\ todo \subseteq File
    /\ sesSource \in Sources \cup {NoSource}
    /\ sinceCommit \in Nat
    /\ deletable \subseteq Requests /\ pendingArchive \subseteq Requests
    /\ sesSource = NoSource => deletable = {} /\ pendingArchive = {}
    /\ archCur \in Requests \cup {NoReq} /\ archTodo \subseteq File
    /\ archPut \in Hashes \cup {NoHash}
    /\ faultsLeft \in Nat
    /\ accepted \subseteq Requests /\ durable \subseteq Requests
    /\ expected \in [Paths -> Row \cup {NoRow}]
    /\ beside \in [Requests -> SUBSET Requests]

\* A request answered with 202 is never lost: its file is in inbox/ or in
\* failed/, or a COMMIT covered all of its writes.  The crash-safety rule of
\* group.rs 9-12, under every interleaving of crashes and errors.
NoAcceptedLoss == accepted \subseteq inbox \cup failed \cup durable

\* A to-archive payload is visible on disk only after the COMMIT that covers
\* its request: phase 2 compares its hashes with committed rows, and would
\* drop the content of a request whose rows are not there yet.
PayloadAfterCommit == toArchive \subseteq durable

\* The worker has a request in hand whose outcome is not decided.
Held ==
    \/ pc \in {"decode", "open", "deletes", "renames", "files", "done"}
    \/ pc \in {"commit", "flush"} /\ ret # "signal"

\* A request is in the hands of at most one party: what the router is about to
\* send is not in flight, what is buffered in the channel, what the worker has
\* and what is reported done are disjoint parts of in_flight, and what the
\* worker has is still in inbox/ and split between the rest of its group, the
\* request in hand and the ones that wait for a COMMIT.  Two parties that
\* process, delete or quarantine the same file would need this to break.
SingleFlight ==
    /\ remaining \subseteq inbox \ inFlight
    /\ channel \cup toSignal \cup doneQ \subseteq inFlight
    /\ channel \cap (toSignal \cup doneQ) = {}
    /\ toSignal \cap doneQ = {}
    /\ channel \subseteq inbox
    /\ group \cup deletable \subseteq toSignal \cap inbox
    /\ group \cap deletable = {}
    /\ Held => cur \in (toSignal \cap inbox) \ (group \cup deletable)
    /\ pc \in {"idle", "signal"} => deletable = {}
    /\ pc = "idle" => group = {} /\ toSignal = {}

\* Every inbox file the router has handed out is still there when the worker
\* comes to open it: no request is dispatched a second time while the first
\* dispatch may still delete or quarantine it.
DispatchedFilesExist ==
    /\ channel \cup group \subseteq inbox
    /\ pc \in {"decode", "open"} => cur \in inbox

\* The content behind every committed row that no waiting request is about to
\* change can still be produced: it is in the content store (or between the
\* delete and the put of put_overwrite), a quarantined request carries it, or
\* a payload waits that phase 2 will not skip as stale.
ContentRecoverable ==
    \A p \in Paths, h \in Hashes : HasHash(db[p], h) =>
        \/ h \in blobs \cup {archPut}
        \/ \E r \in inbox : p \in Touches(body[r])
        \/ \E r \in failed : \E f \in body[r].files : f.hash = h
        \/ \E r \in toArchive : \E f \in body[r].files :
              f.hash = h /\ HasHash(db[f.path], h)

\* q had been answered when r, of the same source, got its id.
Before(q, r) ==
    q < r /\ body[q].source = body[r].source /\ q \notin beside[r]

\* Requests of one source take effect in arrival order: when the effects of a
\* request are durable, so are those of every earlier one that is not
\* quarantined (mod.rs 288-294).  Earlier means answered before the later one
\* got its id: the id is not enough, because it is taken before the file is
\* created, and the later of two requests that are on their way together can
\* be listed and committed while the earlier has no file.
ArrivalOrder ==
    \A r \in durable, q \in inbox : Before(q, r) => q \in durable

\* When nothing waits and nothing was quarantined, the index is what applying
\* the accepted requests one after the other gives, whatever was replayed
\* ("reprocessing them is idempotent", group.rs 12).
QuiescentState == inbox = {} /\ failed = {} => db = expected

\* The part of it that holds: renames must not have been replayed.
NoRenameReplayed ==
    \/ faultsLeft = MaxFaults
    \/ \A r \in 1..(nextReq - 1) : body[r].renames = {}

\* No two requests of one source were on their way together.
InTurn ==
    \A r \in Requests : r < nextReq =>
        \A q \in beside[r] : body[q].source # body[r].source

InOrderOutcome == InTurn /\ NoRenameReplayed => QuiescentState

\* Every request leaves inbox/: a path whose done signal is lost, or that stays
\* in the in-flight set, would wait there until the next restart.
InboxDrains == \A r \in Requests : r \in inbox ~> r \notin inbox

\* Every committed row eventually has its content in the content store, for
\* good, unless the request that carries it was quarantined.
ContentEventuallyStored ==
    <>[](\A p \in Paths, h \in Hashes : HasHash(db[p], h) =>
            h \in blobs \/ \E r \in failed : \E f \in body[r].files : f.hash = h)

\* The pipeline is an at-least-once queue.
Q == INSTANCE AtLeastOnceQueue
        WITH queue <- inbox, quarantine <- failed, applied <- durable

RefinesQueue == Q!Spec

=============================================================================
