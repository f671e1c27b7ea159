-------------------------- MODULE AtLeastOnceQueue --------------------------
(***************************************************************************)
(* What the inbox promises to a client whose POST /api/v1/bulk returned    *)
(* 202: a durable at-least-once queue.  A request enters the queue once;   *)
(* its effects become durable while it is still queued; it leaves the      *)
(* queue either acknowledged, and then its effects are durable, or         *)
(* rejected into a quarantine an administrator can inspect and retry.      *)
(* Nothing else ever removes a request.  InboxPipeline implements this.    *)
(***************************************************************************)
CONSTANT Requests     \* the requests that can ever be submitted

VARIABLES queue,      \* requests waiting, or being processed
          quarantine, \* requests given up on
          applied     \* requests whose effects are durable

vars == <<queue, quarantine, applied>>

Init ==
    /\ queue = {}
    /\ quarantine = {}
    /\ applied = {}

Accept(r) ==
    /\ r \notin queue \cup quarantine \cup applied
    /\ queue' = queue \cup {r}
    /\ UNCHANGED <<quarantine, applied>>

\* One commit may make the effects of several queued requests durable, and a
\* request that is replayed is applied again.
Apply(rs) ==
    /\ rs \subseteq queue
    /\ applied' = applied \cup rs
    /\ UNCHANGED <<queue, quarantine>>

Acknowledge(r) ==
    /\ r \in queue \cap applied
    /\ queue' = queue \ {r}
    /\ UNCHANGED <<quarantine, applied>>

Reject(r) ==
    /\ r \in queue
    /\ queue' = queue \ {r}
    /\ quarantine' = quarantine \cup {r}
    /\ UNCHANGED applied

Next ==
    \/ \E r \in Requests : Accept(r) \/ Acknowledge(r) \/ Reject(r)
    \/ \E rs \in SUBSET Requests : Apply(rs)

Spec == Init /\ [][Next]_vars

=============================================================================
