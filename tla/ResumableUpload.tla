--------------------------- MODULE ResumableUpload ---------------------------
(***************************************************************************)
(* A file no local extractor can handle is sent to the server in chunks:   *)
(* a POST creates <id>.meta, each PATCH appends to <id>.part, and the one  *)
(* that makes it complete spawns a task that runs find-scan on the file    *)
(* and removes both.  A task in the background removes what is stale.      *)
(*                                                                         *)
(* The PATCH handler reads the size, appends and reads the size again      *)
(* without a lock.  A connection can break on either side of a handler,    *)
(* the file can change while it is read, and the server can stop.          *)
(*                                                                         *)
(* One file; a chunk stands for 4 MB, and is the version of the file it    *)
(* was read from with its position.                                        *)
(***************************************************************************)
EXTENDS Naturals, Sequences, FiniteSets

CONSTANTS
    Clients,          \* processes that upload: find-scan and find-watch
    Ids,              \* upload ids; one that left no trace can be drawn again
    Size,             \* chunks of each version of the file
    HeadHasBody,      \* whether the answer of upload_status reaches the client:
                      \* not with HTTP, where HEAD has no body
    NoRow, NoMeta, NoPart, NoId,
    MaxOps,           \* bound: changes of the file
    MaxPending,       \* bound: results and tasks beside an upload
    MaxErrors         \* bound: broken connections, crashes, failed extractions

Version == 1..(MaxOps + 1)
Chunk == [version: Version, at: Nat]

ASSUME UploadAssumption ==
    /\ MaxOps \in Nat /\ MaxErrors \in Nat /\ MaxPending \in Nat
    /\ Size \in [Version -> Nat]
    /\ HeadHasBody \in BOOLEAN
    /\ NoId \notin Ids
    /\ NoPart \notin Seq(Chunk)

Meta == [mtime: Version, total: Nat]
Row == [mtime: Version, lines: Seq(Chunk)]
Request ==
    [id: Ids, client: Clients, start: Nat, chunk: Chunk, attempt: Nat,
     step: {"arrived", "checked", "appended", "answered", "refused"},
     meta: Meta \cup {NoMeta}, received: Nat]
Task == [id: Ids, mtime: Version, attempt: Nat, step: {"spawned", "placed", "end"}]

VARIABLES
    disk,             \* the version of the file
    row, inbox,       \* the committed row; results of find-scan, in order
    meta, part,       \* the upload directory
    stale,            \* metas not touched for 2 hours
    client,           \* upload_file of each client
    requests,         \* PATCH requests between client and handler
    tasks, temp,      \* index_upload, and the file below its temp_root
    ops, errors

fileVars == <<meta, part, stale>>
serverVars == <<row, inbox, fileVars, requests, tasks, temp>>
vars == <<disk, serverVars, client, ops, errors>>

Idle == [pc |-> "idle", id |-> NoId, mtime |-> 1, total |-> 0, offset |-> 0,
         attempt |-> 0]

Init ==
    /\ disk = 1
    /\ row = NoRow /\ inbox = <<>>
    /\ meta = [i \in Ids |-> NoMeta]
    /\ part = [i \in Ids |-> NoPart]
    /\ stale = {}
    /\ client = [c \in Clients |-> Idle]
    /\ requests = {} /\ tasks = {}
    /\ temp = [i \in Ids |-> NoPart]
    /\ ops = 0 /\ errors = 0

part_size(i) == IF part[i] = NoPart THEN 0 ELSE Len(part[i])
Error == errors < MaxErrors /\ errors' = errors + 1

-----------------------------------------------------------------------------
(* The file, and the clients *)

Write ==
    /\ ops < MaxOps
    /\ ops' = ops + 1
    /\ disk' = disk + 1
    /\ UNCHANGED <<serverVars, client, errors>>

\* process_file for a file that only the server extracts: needs_reindex, and
\* the mtime before anything of the file is read.  Bounded by what is under
\* way, as the list is behind the inbox and an upload may be repeated.
Start(c) ==
    /\ client[c].pc = "idle"
    /\ Len(inbox) + Cardinality(tasks) < MaxPending
    /\ IF row = NoRow THEN TRUE ELSE disk > row.mtime
    /\ client' = [client EXCEPT ![c] = [Idle EXCEPT !.pc = "init", !.mtime = disk]]
    /\ UNCHANGED <<disk, serverVars, ops, errors>>

InUse(i) ==
    \/ \E c \in Clients : client[c].id = i
    \/ \E r \in requests : r.id = i
    \/ \E t \in tasks : t.id = i

Free(i) == meta[i] = NoMeta /\ part[i] = NoPart /\ ~InUse(i)

\* upload_init, with the size the file has now.
upload_init(c) ==
    /\ client[c].pc = "init"
    /\ \E i \in Ids :
        /\ Free(i)
        /\ meta' = [meta EXCEPT ![i] = [mtime |-> client[c].mtime,
                                        total |-> Size[disk]]]
        /\ client' = [client EXCEPT ![c].pc = "send", ![c].id = i,
                                    ![c].total = Size[disk]]
    /\ UNCHANGED <<disk, row, inbox, part, stale, requests, tasks, temp, ops,
                   errors>>

\* upload_file returned an error: nothing is indexed and a later scan tries
\* again.  Ok: likewise nothing, as the server will index it.
GiveUp(c) == client' = [client EXCEPT ![c] = Idle]

\* The next chunk is read and sent; read_exact fails on a file now shorter.
SendChunk(c) ==
    LET me == client[c]
    IN /\ me.pc = "send" /\ me.offset < me.total
       /\ IF me.offset < Size[disk]
          THEN /\ requests' = requests \cup
                    {[id |-> me.id, client |-> c, start |-> me.offset,
                      chunk |-> [version |-> disk, at |-> me.offset + 1],
                      attempt |-> me.attempt, step |-> "arrived",
                      meta |-> NoMeta, received |-> 0]}
               /\ client' = [client EXCEPT ![c].pc = "wait"]
          ELSE GiveUp(c) /\ UNCHANGED requests
       /\ UNCHANGED <<disk, row, inbox, fileVars, tasks, temp, ops, errors>>

Awaited(c, r) == r.client = c /\ r.id = client[c].id /\ r.attempt = client[c].attempt

\* The answer of a PATCH; a status that is not a success is an error.
Receive(c) ==
    /\ client[c].pc = "wait"
    /\ \E r \in requests :
        /\ Awaited(c, r) /\ r.step \in {"answered", "refused"}
        /\ requests' = requests \ {r}
        /\ client' = [client EXCEPT ![c] =
             IF r.step = "refused" THEN [@ EXCEPT !.pc = "resume"]
             ELSE [@ EXCEPT !.pc = "send", !.offset = r.received]]
    /\ UNCHANGED <<disk, row, inbox, fileVars, tasks, temp, ops, errors>>

\* The connection breaks; the request may still reach its handler, or not.
Disconnect(c) ==
    /\ client[c].pc = "wait" /\ Error
    /\ client' = [client EXCEPT ![c].pc = "resume"]
    /\ \E r \in requests :
        /\ Awaited(c, r)
        /\ requests' = IF r.step \in {"answered", "refused"} THEN requests \ {r}
                       ELSE requests
    /\ UNCHANGED <<disk, row, inbox, fileVars, tasks, temp, ops>>

\* upload_status: where to go on from, unless the query fails too.
Resume(c) ==
    LET me == client[c]
    IN /\ me.pc = "resume"
       /\ IF HeadHasBody /\ meta[me.id] # NoMeta
          THEN client' = [client EXCEPT ![c].pc = "send",
                            ![c].offset = part_size(me.id),
                            ![c].attempt = @ + 1]
          ELSE GiveUp(c)
       /\ UNCHANGED <<disk, serverVars, ops, errors>>

\* upload_file returns Ok.
Done(c) ==
    /\ client[c].pc = "send" /\ client[c].offset >= client[c].total
    /\ GiveUp(c)
    /\ UNCHANGED <<disk, serverVars, ops, errors>>

-----------------------------------------------------------------------------
(* upload_patch: three steps of one handler, any other step in between *)

Step(r, s) == requests' = (requests \ {r}) \cup {s}

\* An answer nobody waits for is dropped.
Answer(r, s) ==
    IF Awaited(r.client, r) /\ client[r.client].pc = "wait" THEN Step(r, s)
    ELSE requests' = requests \ {r}

Check(r, accepted) ==
    /\ r.step = "arrived"
    /\ IF accepted THEN Step(r, [r EXCEPT !.step = "checked", !.meta = meta[r.id]])
       ELSE Answer(r, [r EXCEPT !.step = "refused"])
    /\ UNCHANGED <<disk, row, inbox, fileVars, client, tasks, temp, ops, errors>>

\* Mutant: a part of the right size is enough.
CheckRangeOnly(r) == Check(r, r.start = part_size(r.id))

\* read_meta, then the offset against the size.
CheckRange(r) == Check(r, meta[r.id] # NoMeta /\ r.start = part_size(r.id))

\* append_bytes creates the file when it is gone.
AppendBytes(r) ==
    /\ r.step = "checked"
    /\ part' = [part EXCEPT ![r.id] =
                 Append(IF @ = NoPart THEN <<>> ELSE @, r.chunk)]
    /\ Step(r, [r EXCEPT !.step = "appended"])
    /\ UNCHANGED <<disk, row, inbox, meta, stale, client, tasks, temp, ops,
                   errors>>

\* The task a complete part spawns.
TaskOf(r) == [id |-> r.id, mtime |-> r.meta.mtime, attempt |-> r.attempt,
              step |-> "spawned"]

Respond(r, complete) ==
    /\ r.step = "appended"
    /\ stale' = stale \ {r.id}
    /\ tasks' = IF complete THEN tasks \cup {TaskOf(r)} ELSE tasks
    /\ Answer(r, [r EXCEPT !.step = "answered", !.received = part_size(r.id)])
    /\ UNCHANGED <<disk, row, inbox, meta, part, client, temp, ops, errors>>

\* Mutant: every chunk spawns a task.
ReceivedAny(r) == Respond(r, TRUE)

\* The size once more, touch_meta, and index_upload when nothing is missing.
Received(r) == Respond(r, part_size(r.id) >= r.meta.total)

-----------------------------------------------------------------------------
(* index_upload *)

\* The part moves below temp_root, which has the name of the upload.
PlaceFile(t) ==
    LET i == t.id
    IN /\ t.step = "spawned"
       /\ IF part[i] = NoPart
          THEN /\ tasks' = (tasks \ {t}) \cup {[t EXCEPT !.step = "end"]}
               /\ UNCHANGED <<part, temp>>
          ELSE /\ tasks' = (tasks \ {t}) \cup {[t EXCEPT !.step = "placed"]}
               /\ temp' = [temp EXCEPT ![i] = part[i]]
               /\ part' = [part EXCEPT ![i] = NoPart]
       /\ UNCHANGED <<disk, row, inbox, meta, stale, client, requests, ops,
                      errors>>

RunScan(t, mtime) ==
    LET i == t.id
    IN /\ t.step = "placed"
       /\ \/ /\ inbox' = IF temp[i] = NoPart THEN inbox
                         ELSE Append(inbox, [mtime |-> mtime, lines |-> temp[i]])
             /\ UNCHANGED errors
          \/ Error /\ UNCHANGED inbox
       /\ temp' = [temp EXCEPT ![i] = NoPart]
       /\ tasks' = (tasks \ {t}) \cup {[t EXCEPT !.step = "end"]}
       /\ UNCHANGED <<disk, row, meta, part, stale, client, requests, ops>>

\* Mutant: with the mtime the file has by now.
FindScanNow(t) == RunScan(t, disk)

\* find-scan --force --mtime sends one request, or notes a failure; temp_root
\* goes when it has ended.
FindScan(t) == RunScan(t, t.mtime)

\* Whatever happened, .part and .meta are removed.
CleanUp(t) ==
    /\ t.step = "end"
    /\ part' = [part EXCEPT ![t.id] = NoPart]
    /\ meta' = [meta EXCEPT ![t.id] = NoMeta]
    /\ stale' = stale \ {t.id}
    /\ tasks' = tasks \ {t}
    /\ UNCHANGED <<disk, row, inbox, client, requests, temp, ops, errors>>

\* The stale-mtime guard does not hold up what is forced.
Index ==
    /\ inbox # <<>>
    /\ row' = Head(inbox)
    /\ inbox' = Tail(inbox)
    /\ UNCHANGED <<disk, fileVars, client, requests, tasks, temp, ops, errors>>

-----------------------------------------------------------------------------
(* start_cleanup_task; the server stops *)

\* Two hours without a chunk; bounded while somebody is still at it.
Age(i) ==
    /\ meta[i] # NoMeta /\ i \notin stale
    /\ IF InUse(i) THEN Error ELSE UNCHANGED errors
    /\ stale' = stale \cup {i}
    /\ UNCHANGED <<disk, row, inbox, meta, part, client, requests, tasks, temp,
                   ops>>

\* Mutant: only what has lost its meta is removed.
RemoveOrphans(i) ==
    /\ meta[i] = NoMeta /\ part[i] # NoPart
    /\ part' = [part EXCEPT ![i] = NoPart]
    /\ UNCHANGED <<disk, row, inbox, meta, stale, client, requests, tasks, temp,
                   ops, errors>>

RemoveStale(i) ==
    \/ RemoveOrphans(i)
    \/ /\ i \in stale
       /\ meta' = [meta EXCEPT ![i] = NoMeta]
       /\ part' = [part EXCEPT ![i] = NoPart]
       /\ stale' = stale \ {i}
       /\ UNCHANGED <<disk, row, inbox, client, requests, tasks, temp, ops,
                      errors>>

\* Handlers and tasks are gone, the files and the inbox are not.
Crash ==
    /\ requests # {} \/ tasks # {}
    /\ Error
    /\ requests' = {} /\ tasks' = {}
    /\ temp' = [i \in Ids |-> NoPart]
    /\ client' = [c \in Clients |-> IF client[c].pc = "wait"
                   THEN [client[c] EXCEPT !.pc = "resume"] ELSE client[c]]
    /\ UNCHANGED <<disk, row, inbox, fileVars, ops>>

Upload(c) ==
    \/ Start(c) \/ upload_init(c) \/ SendChunk(c) \/ Receive(c) \/ Resume(c)
    \/ Done(c)
Handle(r) == CheckRange(r) \/ AppendBytes(r) \/ Received(r)
IndexUpload(t) == PlaceFile(t) \/ FindScan(t) \/ CleanUp(t)

Next ==
    \/ Write \/ Crash \/ Index
    \/ \E c \in Clients : Upload(c) \/ Disconnect(c)
    \/ \E r \in requests : Handle(r)
    \/ \E t \in tasks : IndexUpload(t)
    \/ \E i \in Ids : Age(i) \/ RemoveStale(i)

Spec == Init /\ [][Next]_vars

\* Clients, handlers and tasks go on, the worker indexes, and time passes for
\* what nobody touches.
FairSpec ==
    /\ Spec
    /\ WF_vars(Index)
    /\ WF_vars(\E r \in requests : Handle(r))
    /\ WF_vars(\E t \in tasks : IndexUpload(t))
    /\ \A c \in Clients : WF_vars(Upload(c))
    /\ \A i \in Ids : WF_vars(Age(i)) /\ WF_vars(RemoveStale(i))

-----------------------------------------------------------------------------
(* Properties *)

TypeOK ==
    /\ disk \in Version
    /\ row \in Row \cup {NoRow} /\ inbox \in Seq(Row)
    /\ meta \in [Ids -> Meta \cup {NoMeta}]
    /\ part \in [Ids -> Seq(Chunk) \cup {NoPart}]
    /\ temp \in [Ids -> Seq(Chunk) \cup {NoPart}]
    /\ stale \subseteq {i \in Ids : meta[i] # NoMeta}
    /\ \A c \in Clients : client[c].id \in Ids \cup {NoId}
    /\ requests \subseteq Request /\ tasks \subseteq Task
    /\ \A r \in requests : r.step \in {"checked", "appended"} => r.meta # NoMeta
    /\ ops \in 0..MaxOps /\ errors \in 0..MaxErrors

Whole(v) == [k \in 1..Size[v] |-> [version |-> v, at |-> k]]

\* What find-scan was given is every chunk once and in order, and one version
\* of the file, unless the file changed after its mtime was read: in that case
\* the row is older than the file and the next scan uploads it again.
WholeContent ==
    \A r \in {inbox[k] : k \in DOMAIN inbox} \cup ({row} \ {NoRow}) :
        /\ \A k \in DOMAIN r.lines : r.lines[k].at = k
        /\ r.lines = Whole(r.mtime) \/ disk > r.mtime

\* Whatever breaks, repeated scans bring the whole file into the index.
Converges == <>[](row # NoRow /\ row.mtime = disk /\ row.lines = Whole(disk))

\* The upload directory does not fill up: every upload, finished, abandoned or
\* cut off by a crash, is removed.
Reclaimed == \A i \in Ids : []<>(meta[i] = NoMeta /\ part[i] = NoPart)

\* On connection error, the upload resumes from the last acknowledged offset:
\* it is not given up while the server holds it.
Resumes ==
    [][\A c \in Clients : client[c].pc = "resume" /\ client'[c].pc # "resume" =>
          meta[client[c].id] = NoMeta \/ client'[c].pc = "send"]_vars

=============================================================================
