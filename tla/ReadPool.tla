------------------------------ MODULE ReadPool ------------------------------
(***************************************************************************)
(* The pool of read-only connections to blobs.db: a mutex around the idle  *)
(* list and the count of open connections, and a condition variable that   *)
(* callers at the cap wait on.  The mutex is held from the lock to the     *)
(* return (opening a connection included) or to the wait, so an acquire    *)
(* and a release are one step each.                                        *)
(***************************************************************************)
EXTENDS Naturals, FiniteSets

CONSTANTS
    Threads,             \* the blocking threads that read content
    max_connections,
    MAX_IDLE_READ_CONNS,
    MaxCalls,            \* bound: how often a thread calls acquire
    MaxOpenFailures      \* bound: how often opening a connection fails

ASSUME PoolAssumption ==
    /\ IsFiniteSet(Threads)
    /\ max_connections \in Nat
    /\ MAX_IDLE_READ_CONNS \in Nat
    /\ MaxCalls \in Nat
    /\ MaxOpenFailures \in Nat

VARIABLES
    idle,        \* length of PoolState.idle
    open_count,
    borrowed,    \* threads that hold a PooledConn
    waiting,     \* threads parked in available.wait
    woken,       \* threads that left the wait and have not locked yet
    calls,       \* calls to acquire so far, per thread
    failures     \* failed opens so far

vars == <<idle, open_count, borrowed, waiting, woken, calls, failures>>

TypeOK ==
    /\ idle \in Nat
    /\ open_count \in Nat
    /\ borrowed \subseteq Threads
    /\ waiting \subseteq Threads
    /\ woken \subseteq Threads
    /\ calls \in [Threads -> Nat]
    /\ failures \in Nat

Init ==
    /\ idle = 0
    /\ open_count = 0
    /\ borrowed = {}
    /\ waiting = {}
    /\ woken = {}
    /\ calls = [t \in Threads |-> 0]
    /\ failures = 0

-----------------------------------------------------------------------------

\* Thread t locks the pool: it starts a call, or it comes back from the wait.
Locks(t) ==
    \/ /\ t \in woken
       /\ woken' = woken \ {t}
       /\ UNCHANGED calls
    \/ /\ t \notin borrowed \cup waiting \cup woken
       /\ calls[t] < MaxCalls
       /\ calls' = [calls EXCEPT ![t] = @ + 1]
       /\ UNCHANGED woken

\* Mutant of AcquireIdle: the emptiness of the list is not checked.
AcquireUnchecked(t) ==
    /\ Locks(t)
    /\ idle' = idle - 1
    /\ borrowed' = borrowed \cup {t}
    /\ UNCHANGED <<open_count, waiting, failures>>

AcquireIdle(t) ==
    /\ Locks(t)
    /\ idle > 0
    /\ idle' = idle - 1
    /\ borrowed' = borrowed \cup {t}
    /\ UNCHANGED <<open_count, waiting, failures>>

\* Mutant of AcquireNew: the cap is one too high.
AcquireNewOffByOne(t) ==
    /\ Locks(t)
    /\ idle = 0
    /\ open_count <= max_connections
    /\ open_count' = open_count + 1
    /\ borrowed' = borrowed \cup {t}
    /\ UNCHANGED <<idle, waiting, failures>>

AcquireNew(t) ==
    /\ Locks(t)
    /\ idle = 0
    /\ open_count < max_connections
    /\ open_count' = open_count + 1
    /\ borrowed' = borrowed \cup {t}
    /\ UNCHANGED <<idle, waiting, failures>>

\* The connection is counted before it is opened; the error path returns with ?.
OpenFails(t) ==
    /\ Locks(t)
    /\ idle = 0
    /\ open_count < max_connections
    /\ failures < MaxOpenFailures
    /\ failures' = failures + 1
    /\ open_count' = open_count + 1
    /\ UNCHANGED <<idle, borrowed, waiting>>

Wait(t) ==
    /\ Locks(t)
    /\ idle = 0
    /\ open_count >= max_connections
    /\ waiting' = waiting \cup {t}
    /\ UNCHANGED <<idle, open_count, borrowed, failures>>

\* Condvar::notify_one; a notification nobody waits for is lost.
NotifyOne ==
    \/ /\ waiting = {}
       /\ UNCHANGED <<waiting, woken>>
    \/ \E w \in waiting :
        /\ waiting' = waiting \ {w}
        /\ woken' = woken \cup {w}

\* Mutants of Release: the waiters are not notified when a connection becomes
\* idle, or when an extra one is closed.
ReleaseIdleSilently(t) ==
    /\ t \in borrowed
    /\ borrowed' = borrowed \ {t}
    /\ \/ /\ idle < MAX_IDLE_READ_CONNS
          /\ idle' = idle + 1
          /\ UNCHANGED <<open_count, waiting, woken>>
       \/ /\ idle >= MAX_IDLE_READ_CONNS
          /\ open_count' = open_count - 1
          /\ NotifyOne
          /\ UNCHANGED idle
    /\ UNCHANGED <<calls, failures>>

ReleaseSilently(t) ==
    /\ t \in borrowed
    /\ borrowed' = borrowed \ {t}
    /\ \/ /\ idle < MAX_IDLE_READ_CONNS
          /\ idle' = idle + 1
          /\ NotifyOne
          /\ UNCHANGED open_count
       \/ /\ idle >= MAX_IDLE_READ_CONNS
          /\ open_count' = open_count - 1
          /\ UNCHANGED <<idle, waiting, woken>>
    /\ UNCHANGED <<calls, failures>>

Release(t) ==
    /\ t \in borrowed
    /\ borrowed' = borrowed \ {t}
    /\ \/ /\ idle < MAX_IDLE_READ_CONNS
          /\ idle' = idle + 1
          /\ UNCHANGED open_count
       \/ /\ idle >= MAX_IDLE_READ_CONNS
          /\ open_count' = open_count - 1
          /\ UNCHANGED idle
    /\ NotifyOne
    /\ UNCHANGED <<calls, failures>>

\* A condition variable may wake a thread nobody notified.
SpuriousWakeup(t) ==
    /\ t \in waiting
    /\ waiting' = waiting \ {t}
    /\ woken' = woken \cup {t}
    /\ UNCHANGED <<idle, open_count, borrowed, calls, failures>>

-----------------------------------------------------------------------------

Acquire(t) == AcquireIdle(t) \/ AcquireNew(t) \/ OpenFails(t) \/ Wait(t)

Next ==
    \E t \in Threads : Acquire(t) \/ Release(t) \/ SpuriousWakeup(t)

Spec == Init /\ [][Next]_vars

\* A thread that is in a call goes on with it: one that was woken locks the
\* pool sooner or later, and one that holds a connection finishes its query
\* and drops the guard.  Nothing makes a thread start a call.
Fairness ==
    \A t \in Threads :
        /\ WF_vars(t \in woken /\ Acquire(t))
        /\ WF_vars(Release(t))

FairSpec == Spec /\ Fairness

-----------------------------------------------------------------------------
(* Properties.                                                              *)

\* The cap is hard: never more than max_connections connections are open.
CapRespected == idle + Cardinality(borrowed) <= max_connections

\* No wakeup is lost: while callers are parked, every connection they could
\* have has a thread on its way to it.
NoLostWakeup ==
    waiting # {} => idle + max_connections <= Cardinality(woken) + open_count

\* A parked caller is served, or at least gets an answer.
EveryCallerServed == \A t \in Threads : t \in waiting ~> t \notin waiting \cup woken

=============================================================================
