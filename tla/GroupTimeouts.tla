---------------------------- MODULE GroupTimeouts ----------------------------
(***************************************************************************)
(* A dispatch group runs in a blocking thread under a timeout.  When the   *)
(* timeout fires, the async worker interrupts the SQL statement the thread *)
(* is in, quarantines the request the thread has announced, reports the    *)
(* paths of the group to the router and takes the next group -- and the    *)
(* thread, which nothing stops, goes on with the rest of its group.  This  *)
(* module has those threads side by side, the write lock of each source    *)
(* database between them, the circuit breaker that pauses the inbox after  *)
(* consecutive timeouts, and the administrator's pause, resume and retry.  *)
(*                                                                         *)
(* InboxPipeline has the detail left out here: the order of the flush, the *)
(* done channel, phase 2, crashes.  The cadence COMMIT may fall into any    *)
(* request.  Atomic stores become visible in program order, as on x86.     *)
(***************************************************************************)
EXTENDS Naturals, FiniteSets

CONSTANTS
    MaxRequests,               \* bound: how many requests arrive
    Sources, SourceOf,         \* SourceOf[r]: the source of request r
    Threads,                   \* the blocking threads groups run in
    MAX_GROUP_REQUESTS,
    consecutive_timeout_limit, \* 0: no circuit breaker
    MaxFaults,                 \* bound: statements that hang, early timeouts
    MaxAdmin,                  \* bound: calls of the admin routes
    NoReq, NoSource, NoThread

Requests == 1..MaxRequests

ASSUME TimeoutsAssumption ==
    /\ MaxRequests \in Nat /\ MaxFaults \in Nat /\ MaxAdmin \in Nat
    /\ MAX_GROUP_REQUESTS \in Nat \ {0}
    /\ consecutive_timeout_limit \in Nat
    /\ SourceOf \in [Requests -> Sources]
    /\ NoReq \notin Requests
    /\ NoSource \notin Sources
    /\ NoThread \notin Threads

VARIABLES
    nextReq, inbox, failed,   \* requests submitted so far; inbox/; inbox/failed/
    durable,                  \* requests whose effects were committed
    tip,                      \* per source, the request committed last
    inFlight, channel,        \* router: in_flight; the group in the work channel
    paused, consecutive,      \* inbox_paused, consecutive_timeouts
    resuming,                 \* inbox_resume is between its two stores
    wpc, worker, paths,       \* async worker: its step, the thread it awaits, its group
    pc, ret, rest, current,   \* threads: step, step after a flush, rest of the group,
                              \* progress.current
    session, txn,             \* threads: source of the session, its finished requests
    hung, interrupted,        \* threads stuck in a statement; interrupted in one
    faultsLeft, adminLeft

queueVars  == <<nextReq, inbox, failed, durable, tip>>
routerVars == <<inFlight, channel>>
workerVars == <<wpc, worker, paths>>
adminVars  == <<paused, consecutive, resuming, adminLeft>>
threadVars == <<pc, ret, rest, current, session, txn, hung, interrupted>>
vars == <<queueVars, routerVars, workerVars, adminVars, threadVars, faultsLeft>>

Init ==
    /\ nextReq = 1 /\ inbox = {} /\ failed = {} /\ durable = {}
    /\ tip = [s \in Sources |-> NoReq]
    /\ inFlight = {} /\ channel = {}
    /\ paused = FALSE /\ consecutive = 0 /\ resuming = FALSE
    /\ wpc = "idle" /\ worker = NoThread /\ paths = {}
    /\ pc = [g \in Threads |-> "free"] /\ ret = [g \in Threads |-> "end"]
    /\ rest = [g \in Threads |-> {}] /\ current = [g \in Threads |-> NoReq]
    /\ session = [g \in Threads |-> NoSource] /\ txn = [g \in Threads |-> {}]
    /\ hung = {} /\ interrupted = {}
    /\ faultsLeft = MaxFaults /\ adminLeft = MaxAdmin

-----------------------------------------------------------------------------
(* Arrival and dispatch.  One group at most waits in the channel.           *)

Submit ==
    /\ nextReq \in Requests
    /\ nextReq' = nextReq + 1
    /\ inbox' = inbox \cup {nextReq}
    /\ UNCHANGED <<failed, durable, tip, routerVars, workerVars, adminVars,
                   threadVars, faultsLeft>>

Dispatch ==
    /\ ~paused /\ channel = {}
    /\ \E g \in SUBSET (inbox \ inFlight) :
        /\ g # {} /\ Cardinality(g) <= MAX_GROUP_REQUESTS
        /\ \A r \in g, q \in (inbox \ inFlight) \ g : r < q
        /\ channel' = g
        /\ inFlight' = inFlight \cup g
    /\ UNCHANGED <<queueVars, workerVars, adminVars, threadVars, faultsLeft>>

WorkerRecv ==
    /\ wpc = "idle" /\ channel # {}
    /\ \E g \in Threads :
        /\ pc[g] = "free"
        /\ worker' = g
        /\ pc' = [pc EXCEPT ![g] = "next"]
        /\ rest' = [rest EXCEPT ![g] = channel]
    /\ paths' = channel /\ channel' = {} /\ wpc' = "await"
    /\ UNCHANGED <<inFlight, queueVars, adminVars, ret, current, session, txn, hung,
                   interrupted, faultsLeft>>

-----------------------------------------------------------------------------
(* The blocking thread: process_group_phase1.                               *)

Goto(g, step) == pc' = [pc EXCEPT ![g] = step]

Quarantine(r) ==
    /\ inbox' = inbox \ {r}
    /\ failed' = failed \cup ({r} \cap inbox)

NoSession(g) ==
    /\ session' = [session EXCEPT ![g] = NoSource]
    /\ txn' = [txn EXCEPT ![g] = {}]

\* In a SQL statement of the connection the interrupt slot names.
InStatement(g) == pc[g] \in {"begin", "write", "finish", "commit"}

\* Another thread has a transaction on the database thread g works on.
Contended(g) ==
    \E o \in Threads \ {g} : session[o] = session[g] /\ session[o] # NoSource

WriteLocked(g) ==
    \E o \in Threads \ {g} :
        /\ session[o] = session[g]
        /\ \/ pc[o] = "write"
           \/ pc[o] = "commit" /\ ret[o] = "finish"
           \/ txn[o] # {} /\ pc[o] # "flush"

\* progress.current names the request before its file is read.
NextRequest(g) ==
    /\ pc[g] = "next" /\ rest[g] # {}
    /\ \E r \in rest[g] :
        /\ \A q \in rest[g] : r <= q
        /\ current' = [current EXCEPT ![g] = r]
        /\ rest' = [rest EXCEPT ![g] = @ \ {r}]
    /\ Goto(g, "decode")
    /\ UNCHANGED <<ret, session, txn, hung, interrupted, queueVars, faultsLeft>>

\* A file that is gone fails to decode, and is not there to be quarantined.  The
\* session of this source goes on, one is opened, or another's is finalized.
Decode(g) ==
    /\ pc[g] = "decode"
    /\ \/ /\ current[g] \notin inbox
          /\ Goto(g, "next")
          /\ UNCHANGED <<ret, session>>
       \/ /\ current[g] \in inbox
          /\ session[g] \in {NoSource, SourceOf[current[g]]}
          /\ session' = [session EXCEPT ![g] = SourceOf[current[g]]]
          /\ Goto(g, "begin")
          /\ UNCHANGED ret
       \/ /\ current[g] \in inbox
          /\ session[g] \notin {NoSource, SourceOf[current[g]]}
          /\ Goto(g, "commit")
          /\ ret' = [ret EXCEPT ![g] = "open"]
          /\ UNCHANGED session
    /\ UNCHANGED <<rest, current, txn, hung, interrupted, queueVars, faultsLeft>>

Open(g) ==
    /\ pc[g] = "open"
    /\ session' = [session EXCEPT ![g] = SourceOf[current[g]]]
    /\ Goto(g, "begin")
    /\ UNCHANGED <<ret, rest, current, txn, hung, interrupted, queueVars, faultsLeft>>

\* The first write of a request needs the write lock of the source database.
Write(g) ==
    /\ pc[g] = "begin" /\ g \notin hung
    /\ ~WriteLocked(g)
    /\ Goto(g, "write")
    /\ interrupted' = interrupted \ {g}
    /\ UNCHANGED <<ret, rest, current, session, txn, hung, queueVars, faultsLeft>>

\* SQLITE_BUSY, after the busy timeout or because the snapshot is stale: roll
\* back and end the group.
LockError(g) ==
    /\ pc[g] \in {"begin", "finish"} /\ g \notin hung
    /\ Contended(g)
    /\ NoSession(g)
    /\ Goto(g, "end")
    /\ current' = [current EXCEPT ![g] = NoReq]
    /\ interrupted' = interrupted \ {g}
    /\ UNCHANGED <<ret, rest, hung, queueVars, faultsLeft>>

\* The cadence is reached within a request: what it wrote so far is committed
\* with the requests before it, and it goes on in a new transaction.
CommitPoint(g) ==
    /\ pc[g] = "write" /\ g \notin hung
    /\ Goto(g, "commit")
    /\ ret' = [ret EXCEPT ![g] = "finish"]
    /\ interrupted' = interrupted \ {g}
    /\ UNCHANGED <<rest, current, session, txn, hung, queueVars, faultsLeft>>

RequestDone(g) ==
    /\ \/ pc[g] = "write"
       \/ pc[g] = "finish" /\ ~WriteLocked(g)
    /\ g \notin hung
    /\ txn' = [txn EXCEPT ![g] = @ \cup {current[g]}]
    /\ Goto(g, "next")
    /\ interrupted' = interrupted \ {g}
    /\ UNCHANGED <<ret, rest, current, session, hung, queueVars, faultsLeft>>

\* Mutant of Interrupted: the deletions of the session are not forgotten.
InterruptedKeepsDeletions(g) ==
    /\ InStatement(g) /\ g \in interrupted
    /\ session' = [session EXCEPT ![g] = NoSource]
    /\ IF pc[g] = "commit" /\ ret[g] # "finish"
       THEN /\ Goto(g, "end")
            /\ current' = [current EXCEPT ![g] = NoReq]
            /\ UNCHANGED <<inbox, failed>>
       ELSE /\ Goto(g, "next")
            /\ Quarantine(current[g])
            /\ UNCHANGED current
    /\ interrupted' = interrupted \ {g}
    /\ UNCHANGED <<ret, rest, txn, hung, nextReq, durable, tip, faultsLeft>>

\* SQLITE_INTERRUPT is an error of the request: roll back, quarantine it, go on
\* with the next one.  In the COMMIT of finalize it ends the group instead.
\* The statement may also have been complete when the interrupt came.
Interrupted(g) ==
    /\ InStatement(g) /\ g \in interrupted
    /\ NoSession(g)
    /\ IF pc[g] = "commit" /\ ret[g] # "finish"
       THEN /\ Goto(g, "end")
            /\ current' = [current EXCEPT ![g] = NoReq]
            /\ UNCHANGED <<inbox, failed>>
       ELSE /\ Goto(g, "next")
            /\ Quarantine(current[g])
            /\ UNCHANGED current
    /\ interrupted' = interrupted \ {g}
    /\ UNCHANGED <<ret, rest, hung, nextReq, durable, tip, faultsLeft>>

\* tip records the request whose writes are the last of the transaction.
Commit(g) ==
    /\ pc[g] = "commit" /\ g \notin hung
    /\ durable' = durable \cup txn[g]
    /\ \/ /\ ret[g] = "finish"
          /\ tip' = [tip EXCEPT ![session[g]] = current[g]]
       \/ /\ ret[g] # "finish"
          /\ \E r \in txn[g] :
                /\ \A q \in txn[g] : q <= r
                /\ tip' = [tip EXCEPT ![session[g]] = r]
       \/ ret[g] # "finish" /\ txn[g] = {} /\ UNCHANGED tip
    /\ Goto(g, "flush")
    /\ interrupted' = interrupted \ {g}
    /\ UNCHANGED <<ret, rest, current, session, txn, hung, nextReq, inbox, failed,
                   faultsLeft>>

\* Mutant of Flush: everything of the group is removed, not what was committed.
FlushGroup(g) ==
    /\ pc[g] = "flush"
    /\ inbox' = inbox \ (txn[g] \cup rest[g])
    /\ txn' = [txn EXCEPT ![g] = {}]
    /\ session' = IF ret[g] = "finish" THEN session ELSE [session EXCEPT ![g] = NoSource]
    /\ current' = IF ret[g] = "end" THEN [current EXCEPT ![g] = NoReq] ELSE current
    /\ Goto(g, ret[g])
    /\ UNCHANGED <<ret, rest, hung, interrupted, nextReq, failed, durable, tip, faultsLeft>>

\* The write lock was released by the COMMIT; the inbox files are removed.
Flush(g) ==
    /\ pc[g] = "flush"
    /\ inbox' = inbox \ txn[g]
    /\ txn' = [txn EXCEPT ![g] = {}]
    /\ session' = IF ret[g] = "finish" THEN session ELSE [session EXCEPT ![g] = NoSource]
    /\ current' = IF ret[g] = "end" THEN [current EXCEPT ![g] = NoReq] ELSE current
    /\ Goto(g, ret[g])
    /\ UNCHANGED <<ret, rest, hung, interrupted, nextReq, failed, durable, tip, faultsLeft>>

GroupEnd(g) ==
    /\ pc[g] = "next" /\ rest[g] = {}
    /\ IF session[g] = NoSource
       THEN /\ Goto(g, "end")
            /\ current' = [current EXCEPT ![g] = NoReq]
            /\ UNCHANGED ret
       ELSE /\ Goto(g, "commit")
            /\ ret' = [ret EXCEPT ![g] = "end"]
            /\ UNCHANGED current
    /\ UNCHANGED <<rest, session, txn, hung, interrupted, queueVars, faultsLeft>>

\* A statement that does not come back by itself.
Hang(g) ==
    /\ InStatement(g) /\ g \notin hung \cup interrupted
    /\ worker = g /\ wpc = "await"
    /\ faultsLeft > 0
    /\ faultsLeft' = faultsLeft - 1
    /\ hung' = hung \cup {g}
    /\ UNCHANGED <<pc, ret, rest, current, session, txn, interrupted, queueVars>>

-----------------------------------------------------------------------------
(* The async worker: process_group_async.                                   *)

\* Mutant of TimeoutFires: the connection is not interrupted.
TimeoutFiresOnly ==
    /\ wpc = "await" /\ pc[worker] # "end"
    /\ \/ worker \in hung /\ UNCHANGED faultsLeft
       \/ worker \notin hung /\ faultsLeft > 0 /\ faultsLeft' = faultsLeft - 1
    /\ wpc' = "quarantine"
    /\ UNCHANGED <<routerVars, worker, paths, pc, ret, rest, current, session, txn, hung,
                   interrupted, queueVars, adminVars>>

TimeoutFires ==
    /\ wpc = "await" /\ pc[worker] # "end"
    /\ \/ worker \in hung /\ UNCHANGED faultsLeft
       \/ worker \notin hung /\ faultsLeft > 0 /\ faultsLeft' = faultsLeft - 1
    /\ hung' = hung \ {worker}
    /\ interrupted' = IF InStatement(worker) THEN interrupted \cup {worker} ELSE interrupted
    /\ wpc' = "quarantine"
    /\ UNCHANGED <<routerVars, worker, paths, pc, ret, rest, current, session, txn, queueVars,
                   adminVars>>

\* The request the thread names now, which may not be the interrupted one.
QuarantineCurrent ==
    /\ wpc = "quarantine"
    /\ Quarantine(current[worker])
    /\ wpc' = IF consecutive_timeout_limit > 0 THEN "count" ELSE "signal"
    /\ UNCHANGED <<routerVars, worker, paths, nextReq, durable, tip, threadVars, adminVars, faultsLeft>>

\* Mutant of CountTimeout: one timeout too many is tolerated.
CountTimeoutOffByOne ==
    /\ wpc = "count"
    /\ consecutive' = consecutive + 1
    /\ wpc' = IF consecutive + 1 > consecutive_timeout_limit THEN "pause" ELSE "signal"
    /\ UNCHANGED <<routerVars, worker, paths, paused, resuming, adminLeft, queueVars, threadVars,
                   faultsLeft>>

CountTimeout ==
    /\ wpc = "count"
    /\ consecutive' = consecutive + 1
    /\ wpc' = IF consecutive + 1 >= consecutive_timeout_limit THEN "pause" ELSE "signal"
    /\ UNCHANGED <<routerVars, worker, paths, paused, resuming, adminLeft, queueVars, threadVars,
                   faultsLeft>>

AutoPause ==
    /\ wpc = "pause"
    /\ paused' = TRUE
    /\ wpc' = "signal"
    /\ UNCHANGED <<routerVars, worker, paths, consecutive, resuming, adminLeft, queueVars,
                   threadVars, faultsLeft>>

GroupDone ==
    /\ wpc = "await" /\ pc[worker] = "end"
    /\ consecutive' = 0
    /\ wpc' = "signal"
    /\ UNCHANGED <<routerVars, worker, paths, paused, resuming, adminLeft, queueVars, threadVars,
                   faultsLeft>>

\* The paths are reported to the router, whatever became of them.
Signal ==
    /\ wpc = "signal"
    /\ inFlight' = inFlight \ paths
    /\ paths' = {} /\ worker' = NoThread /\ wpc' = "idle"
    /\ UNCHANGED <<channel, queueVars, adminVars, threadVars, faultsLeft>>

\* A thread nobody awaits any more returns to the pool.
ThreadExits(g) ==
    /\ pc[g] = "end" /\ worker # g
    /\ pc' = [pc EXCEPT ![g] = "free"]
    /\ rest' = [rest EXCEPT ![g] = {}]
    /\ UNCHANGED <<ret, current, session, txn, hung, interrupted, queueVars, faultsLeft>>

-----------------------------------------------------------------------------
(* The administrator.                                                       *)

AdminCall == adminLeft > 0 /\ adminLeft' = adminLeft - 1

InboxPause ==
    /\ AdminCall
    /\ paused' = TRUE
    /\ UNCHANGED <<consecutive, resuming, queueVars, routerVars, workerVars,
                   threadVars, faultsLeft>>

InboxResume ==
    /\ AdminCall /\ ~resuming
    /\ resuming' = TRUE
    /\ paused' = FALSE
    /\ UNCHANGED <<consecutive, queueVars, routerVars, workerVars, threadVars, faultsLeft>>

ResumeReset ==
    /\ resuming
    /\ resuming' = FALSE
    /\ consecutive' = 0
    /\ UNCHANGED <<paused, adminLeft, queueVars, routerVars, workerVars, threadVars,
                   faultsLeft>>

\* inbox_retry moves the files one by one.
InboxRetry ==
    /\ AdminCall
    /\ \E r \in failed : failed' = failed \ {r} /\ inbox' = inbox \cup {r}
    /\ UNCHANGED <<paused, consecutive, resuming, nextReq, durable, tip, routerVars,
                   workerVars, threadVars, faultsLeft>>

-----------------------------------------------------------------------------

Router == Dispatch

Worker ==
    \/ WorkerRecv \/ QuarantineCurrent \/ CountTimeout \/ AutoPause \/ GroupDone
    \/ Signal

ThreadStep(g) ==
    /\ \/ NextRequest(g) \/ Decode(g) \/ Open(g) \/ Write(g) \/ LockError(g)
       \/ CommitPoint(g) \/ RequestDone(g) \/ Interrupted(g) \/ Commit(g) \/ Flush(g)
       \/ GroupEnd(g) \/ Hang(g) \/ ThreadExits(g)
    /\ UNCHANGED <<routerVars, workerVars, adminVars>>

Admin == InboxPause \/ InboxResume \/ ResumeReset \/ InboxRetry

Next ==
    \/ Submit \/ Router \/ Worker \/ TimeoutFires \/ Admin
    \/ \E g \in Threads : ThreadStep(g)

Spec == Init /\ [][Next]_vars

\* The router polls and the worker is a task that loops; a thread that is not
\* stuck goes on; the timer of a group fires when its thread is stuck.
Fairness ==
    /\ WF_vars(Router)
    /\ WF_vars(Worker)
    /\ WF_vars(wpc = "await" /\ worker \in hung /\ TimeoutFires)
    /\ WF_vars(ResumeReset)
    /\ \A g \in Threads : WF_vars(ThreadStep(g))

FairSpec == Spec /\ Fairness

-----------------------------------------------------------------------------
(* Properties.                                                              *)

InRequest(g) ==
    \/ pc[g] \in {"begin", "write", "finish"}
    \/ pc[g] \in {"commit", "flush"} /\ ret[g] = "finish"

ThreadShape(g) ==
    /\ session[g] = NoSource => txn[g] = {}
    /\ pc[g] \in {"free", "end", "open"} => session[g] = NoSource
    /\ pc[g] \in {"decode", "open"} => current[g] \in Requests
    /\ pc[g] \in {"commit", "flush"} /\ ret[g] = "open" => current[g] \in Requests
    /\ InRequest(g) => session[g] \in Sources /\ current[g] \in Requests

\* Types; a thread without a session has nothing to commit, a thread that is done
\* or idle has no session, and one inside a request has a session and a request.
TypeOK ==
    /\ nextReq \in Nat
    /\ inbox \subseteq Requests /\ failed \subseteq Requests /\ durable \subseteq Requests
    /\ tip \in [Sources -> Requests \cup {NoReq}]
    /\ inFlight \subseteq Requests /\ channel \subseteq Requests /\ paths \subseteq Requests
    /\ paused \in BOOLEAN /\ consecutive \in Nat /\ resuming \in BOOLEAN
    /\ wpc \in {"idle", "await", "quarantine", "count", "pause", "signal"}
    /\ worker \in Threads \cup {NoThread}
    /\ wpc = "idle" <=> worker = NoThread
    /\ pc \in [Threads -> {"free", "next", "decode", "open", "begin", "write", "finish",
                           "commit", "flush", "end"}]
    /\ ret \in [Threads -> {"open", "finish", "end"}]
    /\ rest \in [Threads -> SUBSET Requests]
    /\ current \in [Threads -> Requests \cup {NoReq}]
    /\ session \in [Threads -> Sources \cup {NoSource}]
    /\ txn \in [Threads -> SUBSET Requests]
    /\ hung \subseteq Threads /\ interrupted \subseteq Threads
    /\ faultsLeft \in Nat /\ adminLeft \in Nat
    /\ \A g \in Threads : ThreadShape(g)

\* No request that was accepted is lost, whatever timeouts, interrupts, threads
\* that outlive their group, re-dispatches and retries do to it.
NoAcceptedLoss == 1..(nextReq - 1) \subseteq inbox \cup failed \cup durable

\* When consecutive_timeouts has reached the limit the inbox is paused, except
\* while the worker or inbox_resume is between its two stores.
BreakerHolds ==
    /\ consecutive_timeout_limit > 0
    /\ consecutive >= consecutive_timeout_limit
    /\ wpc # "pause" /\ ~resuming
    => paused

\* What the index holds when everything has come to rest is the work of the
\* newest request that was committed, not of an older one (mod.rs 288-294).
NewestWins ==
    /\ inbox = {} /\ channel = {} /\ \A g \in Threads : pc[g] = "free"
    => \A q \in durable : q <= tip[SourceOf[q]]

\* A request that hangs does not keep the others: each of them leaves inbox/
\* or the inbox is paused.
InboxDrains == \A r \in Requests : r \in inbox ~> r \notin inbox \/ paused

=============================================================================
