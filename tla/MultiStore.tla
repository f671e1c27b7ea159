------------------------------- MODULE MultiStore -------------------------------
(***************************************************************************)
(* Several content stores behind one: writes go to every store in order,   *)
(* reads to the first that has the blob.  Any call of a store may fail and *)
(* ends the whole call there.  A store is the set of keys it holds.        *)
(***************************************************************************)
EXTENDS Integers, FiniteSets, Sequences, SequencesExt, FiniteSetsExt

\* The stores a call that goes through them all reaches before one in bad fails.
Before(stores, bad) ==
    LET failing == bad \cap DOMAIN stores
    IN IF failing = {} THEN DOMAIN stores ELSE 1..(Min(failing) - 1)

Completes(stores, bad) == bad \cap DOMAIN stores = {}

\* put: what the stores then hold, and whether any of them took it for new.  A
\* store that failed leaves the ones before it with the blob.
MultiPut(stores, key, bad) ==
    [stores |-> [i \in DOMAIN stores |->
                    IF i \in Before(stores, bad) THEN stores[i] \cup {key} ELSE stores[i]],
     ok |-> Completes(stores, bad),
     stored |-> \E i \in DOMAIN stores : key \notin stores[i]]

MultiDelete(stores, key, bad) ==
    [stores |-> [i \in DOMAIN stores |->
                    IF i \in Before(stores, bad) THEN stores[i] \ {key} ELSE stores[i]],
     ok |-> Completes(stores, bad)]

\* get_lines and contains go no further than the first hit: a store that fails
\* before it fails the read, one after it is not asked.
MultiRead(stores, key, bad) ==
    LET stops == {i \in DOMAIN stores : i \in bad \/ key \in stores[i]}
    IN IF stops = {} THEN "none" ELSE IF Min(stops) \in bad THEN "error" ELSE "found"

\* compact: each store drops what is not live; the totals are summed, and lost
\* when a later store fails.
MultiCompact(stores, live, bad, dry_run) ==
    [stores |-> [i \in DOMAIN stores |->
                    IF i \in Before(stores, bad) /\ ~dry_run
                    THEN stores[i] \cap live ELSE stores[i]],
     ok |-> Completes(stores, bad),
     removed |-> IF Completes(stores, bad)
                 THEN MapThenSumSet(LAMBDA i : Cardinality(stores[i] \ live), DOMAIN stores)
                 ELSE 0]

\* storage_stats: a store that cannot tell is left out of the sum.
MultiStats(stores, silent) ==
    LET told == DOMAIN stores \ silent
    IN IF told = {} THEN <<>> ELSE <<MapThenSumSet(LAMBDA i : Cardinality(stores[i]), told)>>

=============================================================================
