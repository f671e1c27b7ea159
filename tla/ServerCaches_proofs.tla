------------------------- MODULE ServerCaches_proofs -------------------------
(***************************************************************************)
(* Proofs about what the server keeps in memory beside the databases.      *)
(*                                                                         *)
(* AccessTokens: the type invariant, that a name is held once, that the    *)
(* failed redeems of a window are bounded, and that a revocation cannot be *)
(* undone: the safety half of RevocationTakesEffect, whose other half is   *)
(* liveness.                                                               *)
(*                                                                         *)
(* StatsCache: the type invariant, and that the cached totals are those of *)
(* the database while nothing is in flight.                                *)
(***************************************************************************)
EXTENDS AccessTokens, StatsCache, FiniteSetTheorems, WellFoundedInduction, TLAPS

Entries == [name : Names \cup {"none"}, left : Int, age : 0..CACHE_TTL]
Windows == [n : Nat, age : 0..REDEEM_WINDOW]

\* The redeems that passed the limiter and are not recorded yet.
InFlight == {c \in Callers : req[c].pc \in {"Redeem", "Failed"}}
InFlightOf(i) == {c \in InFlight : req[c].ip = i}

-----------------------------------------------------------------------------
(* The type invariant.                                                      *)

LEMMA LifetimeType ==
    ASSUME TokenAssumption, NEW l \in Lifetimes
    PROVE  l \in Int
BY DEF TokenAssumption

LEMMA SoonerInvite ==
    ASSUME TokenAssumption, NEW i \in [id : Nat, name : Names, ttl : Lifetimes, left : Int]
    PROVE  /\ Sooner(i) \in [id : Nat, name : Names, ttl : Lifetimes, left : Int]
           /\ Sooner(i).name = i.name
           /\ Sooner(i).left > 0 => i.left > 0
BY DEF Sooner, TokenAssumption

LEMMA SoonerToken ==
    ASSUME TokenAssumption, NEW r \in [id : Nat, name : Names, left : Int]
    PROVE  /\ Sooner(r) \in [id : Nat, name : Names, left : Int]
           /\ Sooner(r).name = r.name
BY DEF Sooner, TokenAssumption

LEMMA SoonerEntry ==
    ASSUME TokenAssumption, NEW e \in Entries
    PROVE  Sooner(e) \in Entries
BY DEF Sooner, TokenAssumption, Entries

LEMMA OlderEntry ==
    ASSUME TokenAssumption, NEW e \in Entries
    PROVE  Older(e, CACHE_TTL) \in Entries
BY DEF Older, TokenAssumption, Entries

LEMMA OlderWindow ==
    ASSUME TokenAssumption, NEW e \in Windows
    PROVE  /\ Older(e, REDEEM_WINDOW) \in Windows
           /\ Failures(Older(e, REDEEM_WINDOW)) <= Failures(e)
BY DEF Older, TokenAssumption, Windows, Failures

LEMMA BumpWindow ==
    ASSUME TokenAssumption, NEW e \in Windows
    PROVE  /\ Bump(e) \in Windows
           /\ Failures(Bump(e)) <= Failures(e) + 1
           /\ Failures(e) \in Nat
BY DEF Bump, TokenAssumption, Windows, Failures

\* The type invariant holds at the start.
LEMMA InitType ==
    ASSUME TokenAssumption, Init
    PROVE  TypeOK
BY DEF Init, TypeOK, TokenAssumption, NoEntry, NoFailures, Idle, Requests

\* Every step preserves it.
LEMMA NextType ==
    ASSUME TokenAssumption, TypeOK, [Next]_vars
    PROVE  TypeOK'
<1> USE DEF TypeOK, Pending
<1>1. ASSUME NEW n \in Names, NEW life \in Lifetimes, CreateInvite(n, life) PROVE TypeOK'
  BY <1>1 DEF CreateInvite, limiter, TokenAssumption
<1>2. CASE DeleteExpired
  BY <1>2 DEF DeleteExpired, limiter
<1>3. ASSUME NEW i \in invites, RevokeInvite(i) PROVE TypeOK'
  BY <1>3 DEF RevokeInvite, limiter
<1>4. ASSUME NEW c \in Callers, NEW r \in tokens, RevokeToken(c, r) PROVE TypeOK'
  BY <1>4 DEF RevokeToken, Begin, limiter, Requests
<1>5. ASSUME NEW c \in Callers, Forget(c) PROVE TypeOK'
  BY <1>5 DEF Forget, Return, store, limiter, Requests, NoEntry, TokenAssumption
<1>6. ASSUME NEW c \in Callers, NEW s \in 1..created, Hit(c, s) PROVE TypeOK'
  BY <1>6 DEF Hit, vars, store, limiter
<1>7. ASSUME NEW c \in Callers, NEW s \in 1..created, Miss(c, s) PROVE TypeOK'
  <2>1. s \in Invites
    BY <1>7 DEF Invites, TokenAssumption
  <2> QED
    BY <1>7, <2>1 DEF Miss, Begin, store, limiter, Requests
<1>8. ASSUME NEW c \in Callers, Lookup(c) PROVE TypeOK'
  <2>1. req[c].token \in Invites /\ req[c].ago \in Nat
    BY <1>8 DEF Lookup, Requests, Idle
  <2>2. UNCHANGED <<store, limiter>>
    BY <1>8 DEF Lookup
  <2>3. CASE \E r \in tokens :
            /\ r.id = req[c].token
            /\ Unexpired(r, req[c].ago)
            /\ req' = [req EXCEPT ![c] =
                   [pc |-> "Insert", token |-> r.id, entry |-> CacheEntry(r), ago |-> @.ago]]
            /\ UNCHANGED cache
    <3>1. PICK r \in tokens :
              /\ r.id = req[c].token
              /\ req' = [req EXCEPT ![c] =
                     [pc |-> "Insert", token |-> r.id, entry |-> CacheEntry(r), ago |-> @.ago]]
              /\ UNCHANGED cache
      BY <2>3
    <3>2. CacheEntry(r) \in [name : Names \cup {"none"}, left : Int, age : 0..CACHE_TTL]
      BY DEF CacheEntry, TokenAssumption
    <3>3. [pc |-> "Insert", token |-> r.id, entry |-> CacheEntry(r), ago |-> req[c].ago] \in Requests
      BY <2>1, <3>1, <3>2 DEF Requests
    <3>4. req' \in [Callers -> Requests]
      BY <3>1, <3>3
    <3> QED
      BY <2>2, <3>1, <3>4 DEF store, limiter
  <2>4. CASE /\ cache' = [cache EXCEPT ![req[c].token] = NoEntry]
             /\ Return(c)
    BY <2>1, <2>2, <2>4 DEF store, limiter, Return, Requests, NoEntry, TokenAssumption
  <2>5. CASE LookupFails(c)
    BY <2>2, <2>5 DEF LookupFails, store, limiter, Return, Requests
  <2> QED
    BY <1>8, <2>3, <2>4, <2>5 DEF Lookup
<1>9. ASSUME NEW c \in Callers, Insert(c) PROVE TypeOK'
  <2>1. req[c].token \in Invites /\ req[c].entry \in [name : Names \cup {"none"}, left : Int, age : 0..CACHE_TTL]
    BY <1>9 DEF Insert, Requests, Idle
  <2> QED
    BY <1>9, <2>1 DEF Insert, Return, store, limiter, Requests
<1>10. ASSUME NEW c \in Callers, NEW i \in Ips, NEW code \in 0..created, StartRedeem(c, i, code)
       PROVE TypeOK'
  BY <1>10 DEF StartRedeem, Begin, store, limiter, Requests, TokenAssumption
<1>11. ASSUME NEW c \in Callers, Redeem(c) PROVE TypeOK'
  <2>1. req[c] \in [pc : {"Redeem", "Failed"}, ip : Ips, code : Nat]
    BY <1>11 DEF Redeem, Requests, Idle
  <2>2. [req[c] EXCEPT !.pc = "Failed"] \in Requests
    BY <2>1 DEF Requests
  <2>3. UNCHANGED <<created, cache, per_ip, global>>
    BY <1>11 DEF Redeem, limiter
  <2>4. CASE Goto(c, "Failed") /\ UNCHANGED <<invites, tokens, minted>>
    <3>1. req' = [req EXCEPT ![c] = [req[c] EXCEPT !.pc = "Failed"]]
      BY <2>4, <2>1 DEF Goto
    <3> QED
      BY <2>2, <2>3, <2>4, <3>1
  <2>6. CASE RolledBack(c)
    BY <2>3, <2>6 DEF RolledBack, Return, Requests
  <2>5. CASE \E i \in Pending :
                /\ tokens' = tokens \cup {[id |-> i.id, name |-> i.name, left |-> i.ttl]}
                /\ invites' = Pending \ {i}
                /\ minted' = minted \cup {i.id}
                /\ Return(c)
    <3>1. PICK i \in Pending :
              /\ tokens' = tokens \cup {[id |-> i.id, name |-> i.name, left |-> i.ttl]}
              /\ invites' = Pending \ {i}
              /\ minted' = minted \cup {i.id}
              /\ Return(c)
      BY <2>5
    <3>2. [id |-> i.id, name |-> i.name, left |-> i.ttl] \in [id : Nat, name : Names, left : Int]
      <4>1. i \in [id : Nat, name : Names, ttl : Lifetimes, left : Int]
        OBVIOUS
      <4>2. i.ttl \in Int
        BY <4>1, LifetimeType
      <4> QED
        BY <4>1, <4>2
    <3>3. tokens' \subseteq [id : Nat, name : Names, left : Int]
      BY <3>1, <3>2
    <3>4. req' \in [Callers -> Requests]
      BY <3>1 DEF Return, Requests
    <3> QED
      BY <2>3, <3>1, <3>3, <3>4
  <2> QED
    BY <1>11, <2>4, <2>5, <2>6 DEF Redeem
<1>12. ASSUME NEW c \in Callers, RecordFailure(c) PROVE TypeOK'
  <2>1. req[c].ip \in Ips
    BY <1>12 DEF RecordFailure, Requests, Idle
  <2>2. PICK kept \in [Ips -> Windows] : per_ip' = [kept EXCEPT ![req[c].ip] = Bump(@)]
    <3>1. [i \in Ips |-> IF Failures(per_ip[i]) > 0 THEN per_ip[i] ELSE NoFailures] \in [Ips -> Windows]
      BY DEF Windows, NoFailures, TokenAssumption
    <3> QED
      BY <1>12, <3>1 DEF RecordFailure, Windows
  <2>3. per_ip' \in [Ips -> Windows] /\ global' \in Windows
    <3>1. Bump(kept[req[c].ip]) \in Windows /\ Bump(global) \in Windows
      BY <2>1, BumpWindow DEF Windows
    <3>2. global' = Bump(global)
      BY <1>12 DEF RecordFailure
    <3> QED
      BY <2>1, <2>2, <3>1, <3>2
  <2> QED
    BY <1>12, <2>3 DEF RecordFailure, Return, Requests, store, Windows
<1>13. CASE Tick
  <2>1. invites' \subseteq [id : Nat, name : Names, ttl : Lifetimes, left : Int]
    <3>1. \A i \in invites : Sooner(i) \in [id : Nat, name : Names, ttl : Lifetimes, left : Int]
      BY SoonerInvite DEF TypeOK
    <3>2. invites' = {Sooner(i) : i \in invites}
      BY <1>13 DEF Tick
    <3> QED
      BY ONLY <3>1, <3>2
  <2>2. tokens' \subseteq [id : Nat, name : Names, left : Int]
    <3>1. \A r \in tokens : Sooner(r) \in [id : Nat, name : Names, left : Int]
      BY SoonerToken DEF TypeOK
    <3>2. tokens' = {Sooner(r) : r \in tokens}
      BY <1>13 DEF Tick
    <3> QED
      BY ONLY <3>1, <3>2
  <2>3. cache' \in [Invites -> Entries]
    BY <1>13, SoonerEntry, OlderEntry DEF Tick, Entries
  <2>4. per_ip' \in [Ips -> Windows] /\ global' \in Windows
    BY <1>13, OlderWindow DEF Tick, Windows
  <2>5. ASSUME NEW c \in Callers PROVE req'[c] \in Requests
    <3>1. CASE req[c].pc = "Lookup"
      <4>1. req[c] \in [pc : {"Lookup"}, token : Invites, ago : Nat]
        BY <3>1 DEF Requests, Idle
      <4>2. req'[c] = [req[c] EXCEPT !.ago = @ + 1]
        BY <1>13, <3>1 DEF Tick
      <4>3. req'[c] \in [pc : {"Lookup"}, token : Invites, ago : Nat]
        BY <4>1, <4>2
      <4> QED
        BY <4>3 DEF Requests
    <3>2. CASE req[c].pc = "Insert"
      <4>1. req[c] \in [pc : {"Insert"}, token : Invites, ago : Nat, entry : Entries]
        BY <3>2 DEF Requests, Idle, Entries
      <4>2. req'[c] = [req[c] EXCEPT !.ago = @ + 1, !.entry = Sooner(@)]
        BY <1>13, <3>2 DEF Tick
      <4>3. Sooner(req[c].entry) \in Entries
        BY <4>1, SoonerEntry
      <4>4. req'[c] = [pc |-> "Insert", token |-> req[c].token, ago |-> req[c].ago + 1,
                       entry |-> Sooner(req[c].entry)]
        BY <4>1, <4>2
      <4>5. req'[c] \in [pc : {"Insert"}, token : Invites, ago : Nat, entry : Entries]
        BY <4>1, <4>3, <4>4
      <4> QED
        BY <4>5 DEF Requests, Entries
    <3>3. CASE req[c].pc \notin {"Lookup", "Insert"}
      BY <1>13, <3>3 DEF Tick
    <3> QED
      BY <3>1, <3>2, <3>3
  <2>6. req' \in [Callers -> Requests]
    BY <1>13, <2>5 DEF Tick
  <2> QED
    BY <1>13, <2>1, <2>2, <2>3, <2>4, <2>6 DEF Tick, Entries, Windows
<1>14. CASE UNCHANGED vars
  BY <1>14 DEF vars, store, limiter
<1> QED
  BY <1>1, <1>2, <1>3, <1>4, <1>5, <1>6, <1>7, <1>8, <1>9, <1>10, <1>11, <1>12, <1>13, <1>14
  DEF Next, Goes

\* Type correctness of the specification: every request, row, cache entry and
\* window has its form whatever requests and ticks interleave.
THEOREM TypeCorrect ==
    ASSUME TokenAssumption
    PROVE  Spec => []TypeOK
<1>1. Init => TypeOK
  BY InitType
<1>2. TypeOK /\ [Next]_vars => TypeOK'
  BY NextType
<1> QED
  BY <1>1, <1>2, PTL DEF Spec

-----------------------------------------------------------------------------
(* A name is held once.                                                     *)

LEMMA InitNames ==
    ASSUME Init
    PROVE  NameHeldOnce
BY DEF Init, NameHeldOnce, Pending

\* The only steps that add a row are a creation, which looks the name up in
\* both tables, and a redemption, which moves the name from one to the other.
LEMMA NextNames ==
    ASSUME TokenAssumption, TypeOK, NameHeldOnce, [Next]_vars
    PROVE  NameHeldOnce'
<1>1. ASSUME NEW n \in Names, NEW life \in Lifetimes, CreateInvite(n, life) PROVE NameHeldOnce'
  <2>1. \A i \in Pending' : i \in Pending \/ i.name = n
    BY <1>1 DEF CreateInvite, Pending
  <2>2. \A i, j \in Pending' : i \notin Pending /\ j \notin Pending => i = j
    BY <1>1 DEF CreateInvite, Pending
  <2>3. \A r \in Pending \cup tokens : r.name # n
    BY <1>1 DEF CreateInvite, NameTaken
  <2>4. tokens' = tokens
    BY <1>1 DEF CreateInvite
  <2> QED
    BY <2>1, <2>2, <2>3, <2>4 DEF NameHeldOnce
<1>2. ASSUME Pending' \subseteq Pending, tokens' \subseteq tokens PROVE NameHeldOnce'
  BY <1>2 DEF NameHeldOnce
<1>3. ASSUME NEW c \in Callers, Redeem(c) PROVE NameHeldOnce'
  <2>1. CASE UNCHANGED <<invites, tokens>>
    BY <1>2, <2>1 DEF Pending
  <2>2. CASE \E i \in Pending :
                /\ tokens' = tokens \cup {[id |-> i.id, name |-> i.name, left |-> i.ttl]}
                /\ invites' = Pending \ {i}
    <3>1. PICK i \in Pending :
              /\ tokens' = tokens \cup {[id |-> i.id, name |-> i.name, left |-> i.ttl]}
              /\ invites' = Pending \ {i}
      BY <2>2
    <3>2. Pending' = Pending \ {i}
      BY <3>1 DEF Pending
    <3>3. \A r \in tokens' : r \in tokens \/ r = [id |-> i.id, name |-> i.name, left |-> i.ttl]
      BY <3>1
    <3>4. \A r \in tokens : r.name # i.name
      BY DEF NameHeldOnce
    <3> QED
      BY <3>2, <3>3, <3>4 DEF NameHeldOnce
  <2> QED
    BY <1>3, <2>1, <2>2 DEF Redeem, RolledBack
<1>4. CASE Tick
  <2>1. \A i \in Pending' : \E j \in Pending : i = Sooner(j) /\ i.name = j.name
    <3>1. TAKE i \in Pending'
    <3>2. PICK j \in invites : i = Sooner(j)
      <4>1. invites' = {Sooner(j) : j \in invites}
        BY <1>4 DEF Tick
      <4> QED
        BY <4>1 DEF Pending
    <3>3. i.left > 0
      BY DEF Pending
    <3>4. j.left > 0 /\ i.name = j.name
      BY <3>2, <3>3, SoonerInvite DEF TypeOK
    <3> QED
      BY <3>2, <3>4 DEF Pending
  <2>2. \A r \in tokens' : \E q \in tokens : r = Sooner(q) /\ r.name = q.name
    <3>1. tokens' = {Sooner(q) : q \in tokens}
      BY <1>4 DEF Tick
    <3>2. \A q \in tokens : q \in [id : Nat, name : Names, left : Int]
      BY DEF TypeOK
    <3>3. \A q \in tokens : Sooner(q).name = q.name
      BY <3>2, SoonerToken
    <3> QED
      BY <3>1, <3>3
  <2> QED
    BY <2>1, <2>2 DEF NameHeldOnce
<1>5. CASE DeleteExpired
  BY <1>2, <1>5 DEF DeleteExpired, Pending
<1>6. ASSUME NEW i \in invites, RevokeInvite(i) PROVE NameHeldOnce'
  BY <1>2, <1>6 DEF RevokeInvite, Pending
<1>7. ASSUME NEW c \in Callers, NEW r \in tokens, RevokeToken(c, r) PROVE NameHeldOnce'
  BY <1>2, <1>7 DEF RevokeToken, Pending
<1>8. CASE UNCHANGED <<invites, tokens>>
  BY <1>2, <1>8 DEF Pending
<1> QED
  BY <1>1, <1>3, <1>4, <1>5, <1>6, <1>7, <1>8
  DEF Next, Goes, Forget, Hit, Miss, Lookup, Insert, StartRedeem, RecordFailure, store, vars

\* A name is never held by two rows, so that the collision redeem_invite
\* provides for cannot be reached through the API.
THEOREM NamesAreHeldOnce ==
    ASSUME TokenAssumption
    PROVE  Spec => []NameHeldOnce
<1>1. Init => NameHeldOnce
  BY InitNames
<1>2. TypeOK /\ NameHeldOnce /\ [Next]_vars => NameHeldOnce'
  BY NextNames
<1>3. Spec => []TypeOK
  BY TypeCorrect
<1> QED
  BY <1>1, <1>2, <1>3, PTL DEF Spec

-----------------------------------------------------------------------------
(* The failed redeems of a window are bounded.                              *)

\* What is counted and what is on its way to be counted stay below the limit
\* plus the number of requests: a request that passes the limiter sees fewer
\* failures than the limit.
Bounded ==
    /\ \A i \in Ips :
        Failures(per_ip[i]) + Cardinality(InFlightOf(i))
            < REDEEM_PER_IP_MAX + Cardinality(Callers)
    /\ Failures(global) + Cardinality(InFlight)
            < REDEEM_GLOBAL_MAX + Cardinality(Callers)

LEMMA InFlightFacts ==
    ASSUME TokenAssumption
    PROVE  /\ IsFiniteSet(InFlight) /\ Cardinality(InFlight) \in Nat
           /\ Cardinality(InFlight) <= Cardinality(Callers)
           /\ Cardinality(Callers) \in Nat
           /\ \A i \in Ips : /\ IsFiniteSet(InFlightOf(i))
                             /\ Cardinality(InFlightOf(i)) \in Nat
                             /\ Cardinality(InFlightOf(i)) <= Cardinality(Callers)
<1>1. InFlight \subseteq Callers /\ \A i \in Ips : InFlightOf(i) \subseteq Callers
  BY DEF InFlight, InFlightOf
<1>2. IsFiniteSet(Callers)
  BY DEF TokenAssumption
<1> QED
  BY <1>1, <1>2, FS_Subset, FS_CardinalityType

LEMMA InFlightFactsNext ==
    ASSUME TokenAssumption
    PROVE  /\ IsFiniteSet(InFlight') /\ Cardinality(InFlight') \in Nat
           /\ Cardinality(InFlight') <= Cardinality(Callers)
           /\ \A i \in Ips : /\ IsFiniteSet(InFlightOf(i)')
                             /\ Cardinality(InFlightOf(i)') \in Nat
                             /\ Cardinality(InFlightOf(i)') <= Cardinality(Callers)
<1>1. InFlight' \subseteq Callers /\ \A i \in Ips : InFlightOf(i)' \subseteq Callers
  BY DEF InFlight, InFlightOf
<1>2. IsFiniteSet(Callers)
  BY DEF TokenAssumption
<1> QED
  BY <1>1, <1>2, FS_Subset, FS_CardinalityType

\* A step that lets no failure grow and nobody in.
LEMMA Fewer ==
    ASSUME TokenAssumption, TypeOK, TypeOK', Bounded,
           InFlight' \subseteq InFlight,
           \A i \in Ips : InFlightOf(i)' \subseteq InFlightOf(i),
           \A i \in Ips : Failures(per_ip'[i]) <= Failures(per_ip[i]),
           Failures(global') <= Failures(global)
    PROVE  Bounded'
<1>1. \A i \in Ips : Cardinality(InFlightOf(i)') <= Cardinality(InFlightOf(i))
  BY InFlightFacts, FS_Subset
<1>2. Cardinality(InFlight') <= Cardinality(InFlight)
  BY InFlightFacts, FS_Subset
<1>3. /\ \A i \in Ips : Failures(per_ip[i]) \in Nat /\ Failures(per_ip'[i]) \in Nat
      /\ Failures(global) \in Nat /\ Failures(global') \in Nat
  BY BumpWindow DEF TypeOK, Windows
<1> QED
  BY <1>1, <1>2, <1>3, InFlightFacts, InFlightFactsNext DEF Bounded, TokenAssumption

LEMMA InitBounded ==
    ASSUME TokenAssumption, Init
    PROVE  Bounded
<1>1. InFlight = {} /\ \A i \in Ips : InFlightOf(i) = {}
  BY DEF Init, InFlight, InFlightOf, Idle
<1>2. Cardinality({}) = 0
  BY FS_EmptySet
<1>3. Failures(NoFailures) = 0
  BY DEF Failures, NoFailures, TokenAssumption
<1> QED
  BY <1>1, <1>2, <1>3, InFlightFacts DEF Init, Bounded, TokenAssumption

LEMMA NextBounded ==
    ASSUME TokenAssumption, TypeOK, TypeOK', Bounded, [Next]_vars
    PROVE  Bounded'
<1>a. /\ \A i \in Ips : Failures(per_ip[i]) \in Nat
      /\ Failures(global) \in Nat
  BY BumpWindow DEF TypeOK, Windows
<1>1. ASSUME NEW c \in Callers, NEW i \in Ips, NEW code \in 0..created, StartRedeem(c, i, code)
      PROVE  Bounded'
  <2>1. UNCHANGED limiter
    BY <1>1 DEF StartRedeem
  <2>2. Failures(global) < REDEEM_GLOBAL_MAX /\ Failures(per_ip[i]) < REDEEM_PER_IP_MAX
    BY <1>1 DEF StartRedeem, Allow
  <2>3. \A j \in Ips \ {i} : InFlightOf(j)' = InFlightOf(j)
    BY <1>1 DEF StartRedeem, Begin, InFlightOf, InFlight, Idle, TypeOK
  <2> QED
    <3>1. ASSUME NEW j \in Ips
          PROVE  Failures(per_ip'[j]) + Cardinality(InFlightOf(j)')
                   < REDEEM_PER_IP_MAX + Cardinality(Callers)
      <4>1. per_ip' = per_ip
        BY <2>1 DEF limiter
      <4>2. CASE j = i
        BY <1>a, <2>2, <4>1, <4>2, InFlightFacts, InFlightFactsNext DEF TokenAssumption
      <4>3. CASE j # i
        BY <2>3, <4>1, <4>3 DEF Bounded
      <4> QED
        BY <4>2, <4>3
    <3>2. Failures(global') + Cardinality(InFlight')
            < REDEEM_GLOBAL_MAX + Cardinality(Callers)
      BY <1>a, <2>1, <2>2, InFlightFacts, InFlightFactsNext DEF limiter, TokenAssumption
    <3> QED
      BY <3>1, <3>2 DEF Bounded
<1>2. ASSUME NEW c \in Callers, RecordFailure(c) PROVE Bounded'
  <2>1. c \in InFlight /\ req[c].ip \in Ips /\ c \in InFlightOf(req[c].ip)
    BY <1>2 DEF RecordFailure, TypeOK, Requests, Idle, InFlight, InFlightOf
  <2>2. InFlight' = InFlight \ {c} /\ \A i \in Ips : InFlightOf(i)' = InFlightOf(i) \ {c}
    BY <1>2 DEF RecordFailure, Return, TypeOK, InFlight, InFlightOf, Idle
  <2>3. /\ Cardinality(InFlight') = Cardinality(InFlight) - 1
        /\ \A i \in Ips : i = req[c].ip =>
              Cardinality(InFlightOf(i)') = Cardinality(InFlightOf(i)) - 1
    <3>1. Cardinality(InFlight') = Cardinality(InFlight) - 1
      BY <2>1, <2>2, InFlightFacts, FS_RemoveElement
    <3>2. ASSUME NEW i \in Ips, i = req[c].ip
          PROVE  Cardinality(InFlightOf(i)') = Cardinality(InFlightOf(i)) - 1
      BY <2>1, <2>2, <3>2, InFlightFacts, FS_RemoveElement
    <3> QED
      BY <3>1, <3>2
  <2>4. global' = Bump(global)
    BY <1>2 DEF RecordFailure
  <2>5. PICK kept \in [Ips -> Windows] :
            /\ per_ip' = [kept EXCEPT ![req[c].ip] = Bump(@)]
            /\ \A i \in Ips : Failures(kept[i]) = Failures(per_ip[i])
    <3>1. DEFINE pruned == [i \in Ips |-> IF Failures(per_ip[i]) > 0 THEN per_ip[i] ELSE NoFailures]
    <3>2. pruned \in [Ips -> Windows]
      BY DEF Windows, NoFailures, TokenAssumption, TypeOK
    <3>3. Failures(NoFailures) = 0
      BY DEF Failures, NoFailures, TokenAssumption
    <3>4. \A i \in Ips : Failures(pruned[i]) = Failures(per_ip[i])
      BY <3>3, <1>a
    <3>5. per_ip \in [Ips -> Windows]
      BY DEF TypeOK, Windows
    <3> HIDE DEF pruned
    <3>6. \/ per_ip' = [pruned EXCEPT ![req[c].ip] = Bump(@)]
          \/ per_ip' = [per_ip EXCEPT ![req[c].ip] = Bump(@)]
      BY <1>2 DEF RecordFailure, pruned
    <3> QED
      BY <3>2, <3>4, <3>5, <3>6
  <2>6. ASSUME NEW i \in Ips
        PROVE  Failures(per_ip'[i]) + Cardinality(InFlightOf(i)')
                 < REDEEM_PER_IP_MAX + Cardinality(Callers)
    <3>1. CASE i = req[c].ip
      <4>1. Failures(per_ip'[i]) <= Failures(per_ip[i]) + 1 /\ Failures(per_ip'[i]) \in Nat
        <5>1. per_ip'[i] = Bump(kept[i])
          BY <2>5, <3>1
        <5>2. Failures(Bump(kept[i])) <= Failures(kept[i]) + 1 /\ Bump(kept[i]) \in Windows
          BY BumpWindow
        <5> QED
          BY <2>5, <5>1, <5>2, BumpWindow
      <4>2. Cardinality(InFlightOf(i)') = Cardinality(InFlightOf(i)) - 1
        BY <2>3, <3>1
      <4> QED
        BY <1>a, <4>1, <4>2, InFlightFacts DEF Bounded, TokenAssumption
    <3>2. CASE i # req[c].ip
      <4>1. Failures(per_ip'[i]) = Failures(per_ip[i])
        BY <2>5, <3>2
      <4>2. Cardinality(InFlightOf(i)') <= Cardinality(InFlightOf(i))
        BY <2>2, InFlightFacts, FS_Subset
      <4> QED
        BY <1>a, <4>1, <4>2, InFlightFacts, InFlightFactsNext DEF Bounded, TokenAssumption
    <3> QED
      BY <3>1, <3>2
  <2>7. Failures(global') <= Failures(global) + 1 /\ Failures(global') \in Nat
    BY <2>4, BumpWindow DEF TypeOK, Windows
  <2> QED
    BY <1>a, <2>3, <2>6, <2>7, InFlightFacts DEF Bounded, TokenAssumption
<1>3. ASSUME UNCHANGED limiter,
             \A c \in Callers : req'[c].pc \in {"Redeem", "Failed"}
                 => req[c].pc \in {"Redeem", "Failed"} /\ req'[c].ip = req[c].ip
      PROVE  Bounded'
  <2>1. InFlight' \subseteq InFlight /\ \A i \in Ips : InFlightOf(i)' \subseteq InFlightOf(i)
    BY <1>3 DEF InFlight, InFlightOf
  <2> QED
    BY <1>3, <1>a, <2>1, Fewer DEF limiter
<1>4. ASSUME NEW c \in Callers, Redeem(c) PROVE Bounded'
  <2>1. req[c] \in [pc : {"Redeem", "Failed"}, ip : Ips, code : Nat]
    BY <1>4 DEF Redeem, TypeOK, Requests, Idle
  <2>2. CASE Return(c)
    BY <1>3, <1>4, <2>2 DEF Redeem, Return, Idle, TypeOK
  <2>3. CASE Goto(c, "Failed")
    <3>1. req' = [req EXCEPT ![c] = [req[c] EXCEPT !.pc = "Failed"]]
      BY <2>1, <2>3 DEF Goto
    <3>2. req'[c].ip = req[c].ip
      BY <2>1, <3>1 DEF TypeOK
    <3> QED
      BY <1>3, <1>4, <2>1, <3>1, <3>2 DEF Redeem, TypeOK
  <2> QED
    BY <1>4, <2>2, <2>3 DEF Redeem, RolledBack
<1>5. CASE Tick
  <2>1. \A i \in Ips : Failures(per_ip'[i]) <= Failures(per_ip[i])
    BY <1>5, OlderWindow DEF Tick, TypeOK, Windows
  <2>2. Failures(global') <= Failures(global)
    BY <1>5, OlderWindow DEF Tick, TypeOK, Windows
  <2>3. \A c \in Callers : req[c].pc \in {"Redeem", "Failed"} => req'[c] = req[c]
    BY <1>5 DEF Tick
  <2>4. \A c \in Callers : req'[c].pc = req[c].pc
    <3>1. TAKE c \in Callers
    <3>2. CASE req[c].pc = "Lookup"
      <4>1. req[c] \in [pc : {"Lookup"}, token : Invites, ago : Nat]
        BY <3>2 DEF TypeOK, Requests, Idle
      <4> QED
        BY <1>5, <3>2, <4>1 DEF Tick
    <3>3. CASE req[c].pc = "Insert"
      <4>1. req[c] \in [pc : {"Insert"}, token : Invites, ago : Nat, entry : Entries]
        BY <3>3 DEF TypeOK, Requests, Idle, Entries
      <4> QED
        BY <1>5, <3>3, <4>1 DEF Tick
    <3>4. CASE req[c].pc \notin {"Lookup", "Insert"}
      BY <1>5, <3>4 DEF Tick
    <3> QED
      BY <3>2, <3>3, <3>4
  <2>5. InFlight' \subseteq InFlight /\ \A i \in Ips : InFlightOf(i)' \subseteq InFlightOf(i)
    BY <2>3, <2>4 DEF InFlight, InFlightOf
  <2> QED
    BY <2>1, <2>2, <2>5, Fewer
<1>6. ASSUME NEW n \in Names, NEW life \in Lifetimes, CreateInvite(n, life) PROVE Bounded'
  BY <1>3, <1>6 DEF CreateInvite
<1>7. CASE DeleteExpired
  BY <1>3, <1>7 DEF DeleteExpired
<1>8. ASSUME NEW i \in invites, RevokeInvite(i) PROVE Bounded'
  BY <1>3, <1>8 DEF RevokeInvite
<1>9. ASSUME NEW c \in Callers, NEW r \in tokens, RevokeToken(c, r) PROVE Bounded'
  BY <1>3, <1>9 DEF RevokeToken, Begin, TypeOK
<1>10. ASSUME NEW c \in Callers, Forget(c) \/ Insert(c) PROVE Bounded'
  BY <1>3, <1>10 DEF Forget, Insert, Return, Idle, TypeOK
<1>11. ASSUME NEW c \in Callers, NEW s \in 1..created, Hit(c, s) \/ Miss(c, s) PROVE Bounded'
  BY <1>3, <1>11 DEF Hit, Miss, Begin, TypeOK, vars
<1>12. ASSUME NEW c \in Callers, Lookup(c) PROVE Bounded'
  <2>1. \A d \in Callers \ {c} : req'[d] = req[d]
    BY <1>12 DEF Lookup, LookupFails, Return, TypeOK
  <2>2. req'[c].pc \in {"Insert", "Idle"}
    BY <1>12 DEF Lookup, LookupFails, Return, Idle, TypeOK
  <2> QED
    BY <1>3, <1>12, <2>1, <2>2 DEF Lookup
<1>13. CASE UNCHANGED vars
  BY <1>3, <1>13 DEF vars
<1> QED
  BY <1>1, <1>2, <1>4, <1>5, <1>6, <1>7, <1>8, <1>9, <1>10, <1>11, <1>12, <1>13 DEF Next, Goes

\* The limiter holds with the gap between its check and its count: a window
\* has at most one failure less than the limit, plus one for each request
\* that can be in flight.
THEOREM FailuresAreBounded ==
    ASSUME TokenAssumption
    PROVE  Spec => []FailuresBounded
<1>1. Init => Bounded
  BY InitBounded
<1>2. TypeOK /\ TypeOK' /\ Bounded /\ [Next]_vars => Bounded'
  BY NextBounded
<1>3. Spec => []TypeOK
  BY TypeCorrect
<1>4. TypeOK /\ Bounded => FailuresBounded
  <2>1. ASSUME TypeOK
        PROVE  /\ \A i \in Ips : Failures(per_ip[i]) \in Nat
               /\ Failures(global) \in Nat
    BY <2>1, BumpWindow DEF TypeOK, Windows
  <2> QED
    BY <2>1, InFlightFacts DEF Bounded, FailuresBounded, TokenAssumption
<1> QED
  BY <1>1, <1>2, <1>3, <1>4, PTL DEF Spec

-----------------------------------------------------------------------------
(* A revocation cannot be undone.                                           *)

\* A code is given once and redeemed once: who holds the invite has not got the
\* token yet, and every token comes from an invite that is spent.
OnceMinted ==
    /\ \A i \in invites : i.id \in 1..created /\ i.id \notin minted
    /\ \A i, j \in invites : i.id = j.id => i = j
    /\ \A n \in minted : n \in 1..created
    /\ \A r \in tokens : r.id \in minted

\* What keeps a revoked token alive: an entry of the cache that is still good,
\* and a resolve that has read the row and will put it there.
Silent(s) ==
    /\ Gone(s)
    /\ ~Fresh(cache[s], 0)
    /\ \A c \in Callers : ~(req[c].pc = "Insert" /\ req[c].token = s)

LEMMA InitMinted == Init => OnceMinted
BY DEF Init, OnceMinted

\* A tick keeps the numbers of invites and tokens.
LEMMA SoonerKeepsId ==
    ASSUME TokenAssumption
    PROVE  /\ \A i \in [id : Nat, name : Names, ttl : Lifetimes, left : Int] : Sooner(i).id = i.id
           /\ \A r \in [id : Nat, name : Names, left : Int] : Sooner(r).id = r.id
BY DEF Sooner

\* Creating an invite takes a new number, redeeming it moves the number over.
LEMMA NextMinted ==
    ASSUME TokenAssumption, TypeOK, OnceMinted, [Next]_vars
    PROVE  OnceMinted'
<1>1. ASSUME NEW n \in Names, NEW life \in Lifetimes, CreateInvite(n, life) PROVE OnceMinted'
  <2>1. \A i \in invites' : i \in invites \/ i = [id |-> created + 1, name |-> n, ttl |-> life, left |-> INVITE_TTL]
    BY <1>1 DEF CreateInvite, Pending
  <2>2. created \in Nat /\ created' = created + 1 /\ UNCHANGED <<tokens, minted>>
    BY <1>1, TokenAssumption DEF CreateInvite, TypeOK
  <2>3. created + 1 \notin 1..created /\ created + 1 \in 1..(created + 1)
        /\ \A n1 \in 1..created : n1 \in 1..(created + 1)
    BY <2>2
  <2> QED
    BY <2>1, <2>2, <2>3 DEF OnceMinted
<1>2. ASSUME invites' \subseteq invites, tokens' \subseteq tokens, UNCHANGED <<created, minted>>
      PROVE  OnceMinted'
  BY <1>2 DEF OnceMinted
<1>3. ASSUME NEW c \in Callers, Redeem(c) PROVE OnceMinted'
  <2>1. CASE UNCHANGED <<invites, tokens, minted>>
    BY <1>2, <1>3, <2>1 DEF Redeem
  <2>2. CASE \E i \in Pending :
                /\ tokens' = tokens \cup {[id |-> i.id, name |-> i.name, left |-> i.ttl]}
                /\ invites' = Pending \ {i}
                /\ minted' = minted \cup {i.id}
    <3>1. PICK i \in Pending :
              /\ tokens' = tokens \cup {[id |-> i.id, name |-> i.name, left |-> i.ttl]}
              /\ invites' = Pending \ {i}
              /\ minted' = minted \cup {i.id}
      BY <2>2
    <3>2. i \in invites /\ invites' \subseteq invites /\ i \notin invites' /\ created' = created
      BY <1>3, <3>1 DEF Redeem, Pending
    <3>3. \A r \in tokens' : r \in tokens \/ r.id = i.id
      BY <3>1
    <3> QED
      BY <3>1, <3>2, <3>3 DEF OnceMinted
  <2> QED
    BY <1>3, <2>1, <2>2 DEF Redeem, RolledBack
<1>4. CASE Tick
  <2>1. \A i \in invites' : \E j \in invites : i = Sooner(j) /\ i.id = j.id
    <3>1. invites' = {Sooner(j) : j \in invites}
      BY <1>4 DEF Tick
    <3>2. \A j \in invites : Sooner(j).id = j.id
      BY SoonerKeepsId DEF TypeOK
    <3> QED
      BY <3>1, <3>2
  <2>2. \A r \in tokens' : \E q \in tokens : r.id = q.id
    <3>1. tokens' = {Sooner(q) : q \in tokens}
      BY <1>4 DEF Tick
    <3>2. \A q \in tokens : Sooner(q).id = q.id
      BY SoonerKeepsId DEF TypeOK
    <3> QED
      BY <3>1, <3>2
  <2>3. UNCHANGED <<created, minted>>
    BY <1>4 DEF Tick
  <2> QED
    BY <2>1, <2>2, <2>3 DEF OnceMinted
<1>5. CASE DeleteExpired
  BY <1>2, <1>5 DEF DeleteExpired, Pending
<1>6. ASSUME NEW i \in invites, RevokeInvite(i) PROVE OnceMinted'
  BY <1>2, <1>6 DEF RevokeInvite
<1>7. ASSUME NEW c \in Callers, NEW r \in tokens, RevokeToken(c, r) PROVE OnceMinted'
  BY <1>2, <1>7 DEF RevokeToken
<1>8. CASE UNCHANGED store
  BY <1>8 DEF store, OnceMinted
<1> QED
  BY <1>1, <1>3, <1>4, <1>5, <1>6, <1>7, <1>8
  DEF Next, Goes, Forget, Hit, Miss, Lookup, Insert, StartRedeem, RecordFailure, vars

\* The row of a revoked token does not come back.
LEMMA GoneStays ==
    ASSUME TokenAssumption, TypeOK, OnceMinted, [Next]_vars, NEW s \in Invites, Gone(s)
    PROVE  Gone(s)'
<1>1. ASSUME tokens' \subseteq tokens, minted \subseteq minted' PROVE Gone(s)'
  BY <1>1 DEF Gone
<1>2. ASSUME NEW c \in Callers, Redeem(c) PROVE Gone(s)'
  <2>1. CASE UNCHANGED <<invites, tokens, minted>>
    BY <1>1, <2>1
  <2>2. CASE \E i \in Pending :
                /\ tokens' = tokens \cup {[id |-> i.id, name |-> i.name, left |-> i.ttl]}
                /\ minted' = minted \cup {i.id}
    <3>1. PICK i \in Pending :
              /\ tokens' = tokens \cup {[id |-> i.id, name |-> i.name, left |-> i.ttl]}
              /\ minted' = minted \cup {i.id}
      BY <2>2
    <3>2. i.id # s
      BY DEF Pending, OnceMinted, Gone
    <3>3. \A r \in tokens' : r \in tokens \/ r.id = i.id
      BY <3>1
    <3> QED
      BY <3>1, <3>2, <3>3 DEF Gone
  <2> QED
    BY <1>2, <2>1, <2>2 DEF Redeem, RolledBack
<1>3. CASE Tick
  <2>1. tokens' = {Sooner(q) : q \in tokens} /\ minted' = minted
    BY <1>3 DEF Tick
  <2>2. \A q \in tokens : Sooner(q).id = q.id
    BY SoonerKeepsId DEF TypeOK
  <2> QED
    BY <2>1, <2>2 DEF Gone
<1>4. CASE UNCHANGED <<tokens, minted>>
  BY <1>1, <1>4
<1>5. ASSUME NEW c \in Callers, NEW r \in tokens, RevokeToken(c, r) PROVE Gone(s)'
  BY <1>1, <1>5 DEF RevokeToken
<1> QED
  BY <1>2, <1>3, <1>4, <1>5
  DEF Next, Goes, CreateInvite, DeleteExpired, RevokeInvite, Forget, Hit, Miss, Lookup, Insert,
      StartRedeem, RecordFailure, store, vars

\* An entry only gets older.
LEMMA StaleStays ==
    ASSUME TokenAssumption, NEW e \in Entries, ~Fresh(e, 0)
    PROVE  ~Fresh(Older(Sooner(e), CACHE_TTL), 0)
<1>1. CASE e.left = Forever \/ e.left = -MaxLag
  BY <1>1 DEF Fresh, Older, Sooner, Unexpired, Entries, TokenAssumption
<1>2. CASE ~(e.left = Forever \/ e.left = -MaxLag)
  <2>1. Sooner(e) = [e EXCEPT !.left = e.left - 1]
    BY <1>2 DEF Sooner
  <2>2. Sooner(e) \in Entries /\ Sooner(e).age = e.age /\ Sooner(e).left = e.left - 1
    BY <2>1 DEF Entries
  <2>3. e.age < CACHE_TTL => e.left <= 0
    BY <1>2 DEF Fresh, Unexpired, Entries, TokenAssumption
  <2> DEFINE f == Sooner(e)
  <2> HIDE DEF f
  <2>4. f \in Entries /\ f.age = e.age /\ f.left = e.left - 1
    BY <2>2 DEF f
  <2>5. ~Fresh(Older(f, CACHE_TTL), 0)
    BY <2>3, <2>4 DEF Fresh, Older, Unexpired, Entries, TokenAssumption
  <2> QED
    BY <2>5 DEF f
<1> QED
  BY <1>1, <1>2

\* Once nothing keeps a revoked token alive, nothing brings it back.
LEMMA SilentStays ==
    ASSUME TokenAssumption, TypeOK, OnceMinted, [Next]_vars, NEW s \in Invites, Silent(s)
    PROVE  Silent(s)'
<1> USE DEF TypeOK, Silent
<1>1. Gone(s)'
  BY GoneStays
<1>2. ~Fresh(NoEntry, 0)
  BY TokenAssumption DEF Fresh, NoEntry
<1>3. ASSUME cache'[s] = cache[s] \/ cache'[s] = NoEntry,
             \A c \in Callers : req'[c] = req[c] \/ req'[c].pc # "Insert"
      PROVE  Silent(s)'
  BY <1>1, <1>2, <1>3 DEF Fresh, Unexpired
<1>4. ASSUME NEW c \in Callers, NEW r \in tokens, RevokeToken(c, r) PROVE Silent(s)'
  BY <1>3, <1>4 DEF RevokeToken, Begin
<1>5. ASSUME NEW c \in Callers, Forget(c) PROVE Silent(s)'
  BY <1>3, <1>5 DEF Forget, Return, Idle
<1>6. ASSUME NEW c \in Callers, NEW n \in 1..created, Miss(c, n) PROVE Silent(s)'
  BY <1>3, <1>6 DEF Miss, Begin
<1>7. ASSUME NEW c \in Callers, Lookup(c) PROVE Silent(s)'
  <2>1. CASE \E r \in tokens :
                /\ r.id = req[c].token
                /\ req' = [req EXCEPT ![c] =
                       [pc |-> "Insert", token |-> r.id, entry |-> CacheEntry(r), ago |-> @.ago]]
                /\ UNCHANGED cache
    <3>1. PICK r \in tokens :
              /\ req' = [req EXCEPT ![c] =
                     [pc |-> "Insert", token |-> r.id, entry |-> CacheEntry(r), ago |-> @.ago]]
              /\ UNCHANGED cache
      BY <2>1
    <3>2. r.id # s
      BY DEF Gone
    <3>3. \A d \in Callers : ~(req'[d].pc = "Insert" /\ req'[d].token = s)
      BY <3>1, <3>2
    <3> QED
      BY <1>1, <3>1, <3>3
  <2>2. CASE cache' = [cache EXCEPT ![req[c].token] = NoEntry] /\ Return(c)
    BY <1>3, <2>2 DEF Return, Idle
  <2>3. CASE LookupFails(c)
    BY <1>3, <2>3 DEF LookupFails, Return, Idle
  <2> QED
    BY <1>7, <2>1, <2>2, <2>3 DEF Lookup
<1>8. ASSUME NEW c \in Callers, Insert(c) PROVE Silent(s)'
  <2>1. req[c].token # s
    BY <1>8 DEF Insert
  <2>2. cache'[s] = cache[s]
    BY <1>8, <2>1 DEF Insert
  <2> QED
    BY <1>3, <1>8, <2>2 DEF Insert, Return, Idle
<1>9. ASSUME NEW c \in Callers, NEW i \in Ips, NEW code \in 0..created, StartRedeem(c, i, code)
      PROVE  Silent(s)'
  BY <1>3, <1>9 DEF StartRedeem, Begin
<1>10. ASSUME NEW c \in Callers, Redeem(c) PROVE Silent(s)'
  <2>1. CASE Return(c)
    BY <1>3, <1>10, <2>1 DEF Redeem, Return, Idle
  <2>2. CASE Goto(c, "Failed")
    <3>1. req[c] \in [pc : {"Redeem", "Failed"}, ip : Ips, code : Nat]
      BY <1>10 DEF Redeem, Requests, Idle
    <3>2. \A d \in Callers : req'[d] = req[d] \/ req'[d].pc = "Failed"
      BY <2>2, <3>1 DEF Goto
    <3> QED
      BY <1>3, <1>10, <3>2 DEF Redeem
  <2> QED
    BY <1>10, <2>1, <2>2 DEF Redeem, RolledBack
<1>11. ASSUME NEW c \in Callers, RecordFailure(c) PROVE Silent(s)'
  BY <1>3, <1>11 DEF RecordFailure, Return, Idle
<1>12. CASE Tick
  <2>1. cache[s] \in Entries
    BY DEF Entries
  <2>2. ~Fresh(cache'[s], 0)
    BY <1>12, <2>1, StaleStays DEF Tick
  <2>3. ASSUME NEW c \in Callers PROVE ~(req'[c].pc = "Insert" /\ req'[c].token = s)
    <3>1. req'[c] = CASE req[c].pc = "Lookup" -> [req[c] EXCEPT !.ago = @ + 1]
                      [] req[c].pc = "Insert" -> [req[c] EXCEPT !.ago = @ + 1, !.entry = Sooner(@)]
                      [] OTHER -> req[c]
      BY <1>12 DEF Tick
    <3>2. CASE req[c].pc = "Lookup"
      <4>1. req[c] \in [pc : {"Lookup"}, token : Invites, ago : Nat]
        BY <3>2 DEF Requests, Idle
      <4> QED
        BY <3>1, <3>2, <4>1
    <3>3. CASE req[c].pc = "Insert"
      <4>1. req[c] \in [pc : {"Insert"}, token : Invites, ago : Nat,
                        entry : [name : Names \cup {"none"}, left : Int, age : 0..CACHE_TTL]]
        BY <3>3 DEF Requests, Idle
      <4>2. req'[c].token = req[c].token
        BY <3>1, <3>3, <4>1
      <4> QED
        BY <3>3, <4>2
    <3>4. CASE req[c].pc \notin {"Lookup", "Insert"}
      BY <3>1, <3>4
    <3> QED
      BY <3>2, <3>3, <3>4
  <2> QED
    BY <1>1, <2>2, <2>3
<1>13. CASE UNCHANGED <<cache, req>>
  BY <1>3, <1>13
<1> QED
  BY <1>4, <1>5, <1>6, <1>7, <1>8, <1>9, <1>10, <1>11, <1>12, <1>13
  DEF Next, Goes, CreateInvite, DeleteExpired, RevokeInvite, Hit, vars

LEMMA MintedHolds ==
    ASSUME TokenAssumption
    PROVE  Spec => [](TypeOK /\ OnceMinted)
<1>1. Init => OnceMinted
  BY InitMinted
<1>2. TypeOK /\ OnceMinted /\ [Next]_vars => OnceMinted'
  BY NextMinted
<1>3. Spec => []TypeOK
  BY TypeCorrect
<1> QED
  BY <1>1, <1>2, <1>3, PTL DEF Spec

\* The row of a revoked token never comes back, not even by redeeming its code
\* again (revoke_token, redeem_invite).
THEOREM RevokedForGood ==
    ASSUME TokenAssumption, NEW s \in Invites
    PROVE  Spec => [](Gone(s) => []Gone(s))
<1>1. TypeOK /\ OnceMinted /\ Gone(s) /\ [Next]_vars => Gone(s)'
  BY GoneStays
<1> QED
  BY <1>1, MintedHolds, PTL DEF Spec

\* A revoked token that no good entry of the cache and no resolve under way
\* keeps alive does not resolve, and never will again: all that can delay a
\* revocation is what had read the row before it (resolve, revoke_token).
THEOREM SilentForGood ==
    ASSUME TokenAssumption, NEW s \in Invites
    PROVE  Spec => [](Silent(s) => []~Resolves(s))
<1>1. TypeOK /\ OnceMinted /\ Silent(s) /\ [Next]_vars => Silent(s)'
  BY SilentStays
<1>2. Silent(s) => ~Resolves(s)
  BY DEF Silent, Gone, Resolves
<1> QED
  BY <1>1, <1>2, MintedHolds, PTL DEF Spec

-----------------------------------------------------------------------------
(***************************************************************************)
(* The statistics cache.                                                   *)
(***************************************************************************)
(* Induction over data: on sets in place of predicates.                     *)

\* The library's well-founded order of the natural numbers, without operators.
LEMMA LeastNat ==
    ASSUME NEW T, T \subseteq Nat, T # {}
    PROVE  \E n \in T : \A m \in T : ~(m < n)
<1> DEFINE R == OpToRel(<, Nat)
<1>1. IsWellFoundedOn(R, Nat)
  BY NatLessThanWellFounded
<1> HIDE DEF R
<1>2. \E n \in T : \A m \in T : ~(<<m, n>> \in R)
  BY <1>1, WFMin, Zenon
<1> QED
  BY <1>2 DEF R, OpToRel

\* Induction, on a set in place of a predicate.
LEMMA SetInduction ==
    ASSUME NEW S, 0 \in S, \A n \in Nat : n \in S => n + 1 \in S
    PROVE  Nat \subseteq S
<1> SUFFICES ASSUME Nat \ S # {} PROVE FALSE
  OBVIOUS
<1>1. PICK n \in Nat \ S : \A m \in Nat \ S : ~(m < n)
  BY LeastNat
<1>2. n # 0 /\ n - 1 \in Nat
  OBVIOUS
<1> QED
  BY <1>1, <1>2

\* Induction over the subsets of a finite set.
LEMMA SubsetInduction ==
    ASSUME NEW S, IsFiniteSet(S), NEW F, {} \in F,
           \A s \in SUBSET S, x \in S : s \in F /\ x \notin s => s \cup {x} \in F
    PROVE  \A s \in SUBSET S : s \in F
<1> DEFINE I == {n \in Nat : \A s \in SUBSET S : Cardinality(s) = n => s \in F}
<1>1. \A s \in SUBSET S : IsFiniteSet(s) /\ Cardinality(s) \in Nat
  BY FS_Subset, FS_CardinalityType
<1>2. 0 \in I
  BY <1>1, FS_EmptySet
<1>3. ASSUME NEW n \in Nat, n \in I PROVE n + 1 \in I
  <2> SUFFICES ASSUME NEW s \in SUBSET S, Cardinality(s) = n + 1 PROVE s \in F
    OBVIOUS
  <2>1. s # {}
    BY <1>1, FS_EmptySet
  <2>2. PICK x \in s : TRUE
    BY <2>1
  <2>3. Cardinality(s \ {x}) = n /\ s \ {x} \in SUBSET S
    <3>1. Cardinality(s \ {x}) = Cardinality(s) - 1
      BY <1>1, <2>2, FS_RemoveElement
    <3> QED
      BY <3>1
  <2>4. s \ {x} \in F
    BY <1>3, <2>3
  <2>5. (s \ {x}) \cup {x} = s /\ x \notin s \ {x} /\ x \in S
    BY <2>2
  <2> QED
    BY <2>3, <2>4, <2>5
<1> HIDE DEF I
<1>4. Nat \subseteq I
  BY <1>2, <1>3, SetInduction
<1> QED
  BY <1>1, <1>4 DEF I

\* What a fold is defined by: c chooses the element to take out, A adds it.
FoldStep(b, A, c, it, s) == IF s = {} THEN b ELSE A[<<it[s \ {c[s]}], c[s]>>]

FoldOf(S, V, b, A, c, it) ==
    /\ it \in [SUBSET S -> V]
    /\ \A s \in SUBSET S : it[s] = FoldStep(b, A, c, it, s)

\* The function that a fold over a finite set is chosen as exists.
LEMMA FoldExists ==
    ASSUME NEW S, IsFiniteSet(S), NEW c, \A s \in SUBSET S : s # {} => c[s] \in s,
           NEW V, NEW b \in V, NEW A \in [V \X S -> V]
    PROVE  \E it : FoldOf(S, V, b, A, c, it)
<1> DEFINE Up(n) == \E it \in [SUBSET S -> V] :
                      \A s \in SUBSET S : Cardinality(s) <= n => it[s] = FoldStep(b, A, c, it, s)
           I == {n \in Nat : Up(n)}
<1>1. \A s \in SUBSET S : IsFiniteSet(s) /\ Cardinality(s) \in Nat /\ Cardinality(s) <= Cardinality(S)
  BY FS_Subset, FS_CardinalityType
<1>2. \A s \in SUBSET S : s # {} =>
        /\ c[s] \in S
        /\ s \ {c[s]} \in SUBSET S
        /\ Cardinality(s \ {c[s]}) = Cardinality(s) - 1
  BY <1>1, FS_RemoveElement
<1>3. \A s \in SUBSET S : Cardinality(s) = 0 => s = {}
  BY <1>1, FS_EmptySet
<1>4. Up(0)
  <2>1. [s \in SUBSET S |-> b] \in [SUBSET S -> V]
    OBVIOUS
  <2>2. \A s \in SUBSET S : Cardinality(s) <= 0 => s = {}
    BY <1>1, <1>3
  <2>3. FoldStep(b, A, c, [s \in SUBSET S |-> b], {}) = b
    BY DEF FoldStep
  <2> QED
    BY <2>1, <2>2, <2>3
<1>5. ASSUME NEW n \in Nat, Up(n) PROVE Up(n + 1)
  <2>1. PICK g \in [SUBSET S -> V] :
          \A s \in SUBSET S : Cardinality(s) <= n => g[s] = FoldStep(b, A, c, g, s)
    BY <1>5
  <2> DEFINE h == [s \in SUBSET S |-> IF Cardinality(s) <= n THEN g[s] ELSE FoldStep(b, A, c, g, s)]
  <2>2. \A s \in SUBSET S : FoldStep(b, A, c, g, s) \in V
    BY <1>2 DEF FoldStep
  <2>3. h \in [SUBSET S -> V]
    BY <2>2
  <2>4. ASSUME NEW s \in SUBSET S, Cardinality(s) <= n + 1
        PROVE  FoldStep(b, A, c, h, s) = FoldStep(b, A, c, g, s)
    <3>1. CASE s = {}
      BY <3>1 DEF FoldStep
    <3>2. CASE s # {}
      <4> DEFINE t == s \ {c[s]}
      <4>1. t \in SUBSET S /\ Cardinality(t) <= n
        BY <3>2, <2>4, <1>1, <1>2
      <4>2. h[t] = g[t]
        BY <4>1
      <4> HIDE DEF h
      <4> QED
        BY <3>2, <4>2 DEF FoldStep
    <3> QED
      BY <3>1, <3>2
  <2>5. \A s \in SUBSET S : Cardinality(s) <= n + 1 => h[s] = FoldStep(b, A, c, h, s)
    BY <2>1, <2>4
  <2> HIDE DEF h
  <2> QED
    BY <2>3, <2>5
<1> HIDE DEF Up
<1>6. Nat \subseteq I
  <2>1. 0 \in I
    BY <1>4
  <2>2. \A n \in Nat : n \in I => n + 1 \in I
    BY <1>5
  <2> HIDE DEF I
  <2> QED
    BY <2>1, <2>2, SetInduction
<1>7. Up(Cardinality(S))
  BY <1>6, <1>1
<1>8. PICK it \in [SUBSET S -> V] :
        \A s \in SUBSET S : Cardinality(s) <= Cardinality(S) => it[s] = FoldStep(b, A, c, it, s)
  BY <1>7 DEF Up
<1>9. \A s \in SUBSET S : it[s] = FoldStep(b, A, c, it, s)
  BY <1>1, <1>8
<1> QED
  BY <1>9 DEF FoldOf

-----------------------------------------------------------------------------
(* Sums over a set.                                                         *)

SumStep(f, it, s) ==
    IF s = {} THEN 0 ELSE f[CHOOSE x \in s : TRUE] + it[s \ {CHOOSE x \in s : TRUE}]

SumOf(S, f, it) ==
    /\ it \in [SUBSET S -> Int]
    /\ \A s \in SUBSET S : it[s] = SumStep(f, it, s)

LEMMA SumExists ==
    ASSUME NEW S, IsFiniteSet(S), NEW f \in [S -> Int]
    PROVE  \E it : SumOf(S, f, it)
<1> DEFINE c == [s \in SUBSET S |-> CHOOSE x \in s : TRUE]
           A == [t \in Int \X S |-> f[t[2]] + t[1]]
<1>1. \A s \in SUBSET S : s # {} => c[s] \in s
  OBVIOUS
<1>2. A \in [Int \X S -> Int]
  OBVIOUS
<1>3. PICK it : FoldOf(S, Int, 0, A, c, it)
  <2>1. 0 \in Int
    OBVIOUS
  <2> HIDE DEF c, A
  <2> QED
    BY <1>1, <1>2, <2>1, FoldExists, Zenon
<1>4. \A s \in SUBSET S : FoldStep(0, A, c, it, s) = SumStep(f, it, s)
  <2> SUFFICES ASSUME NEW s \in SUBSET S PROVE FoldStep(0, A, c, it, s) = SumStep(f, it, s)
    OBVIOUS
  <2>1. CASE s = {}
    BY <2>1 DEF FoldStep, SumStep
  <2>2. CASE s # {}
    <3> DEFINE x == CHOOSE x \in s : TRUE
    <3>1. x \in S /\ c[s] = x
      BY <2>2
    <3>2. FoldStep(0, A, c, it, s) = A[<<it[s \ {x}], x>>]
      BY <3>1, <2>2 DEF FoldStep
    <3>3. SumStep(f, it, s) = f[x] + it[s \ {x}]
      BY <2>2 DEF SumStep
    <3>4. A[<<it[s \ {x}], x>>] = f[x] + it[s \ {x}]
      <4> HIDE DEF x, c
      <4>1. it[s \ {x}] \in Int
        BY <1>3 DEF FoldOf
      <4> QED
        BY <3>1, <4>1
    <3> QED
      BY <3>2, <3>3, <3>4
  <2> QED
    BY <2>1, <2>2
<1>5. SumOf(S, f, it)
  <2> HIDE DEF c, A
  <2> QED
    BY <1>3, <1>4 DEF SumOf, FoldOf
<1> QED
  BY <1>5

\* Such a function is the only one.
LEMMA SumUnique ==
    ASSUME NEW S, IsFiniteSet(S), NEW f \in [S -> Int],
           NEW g, g = [s \in SUBSET S |-> SumStep(f, g, s)],
           NEW h, h = [s \in SUBSET S |-> SumStep(f, h, s)]
    PROVE  g = h
<1> DEFINE Same(n) == \A s \in SUBSET S : Cardinality(s) <= n => g[s] = h[s]
           I == {n \in Nat : Same(n)}
<1>1. \A s \in SUBSET S : IsFiniteSet(s) /\ Cardinality(s) \in Nat /\ Cardinality(s) <= Cardinality(S)
  BY FS_Subset, FS_CardinalityType
<1>2. \A s \in SUBSET S : s # {} =>
        /\ (CHOOSE x \in s : TRUE) \in s
        /\ s \ {CHOOSE x \in s : TRUE} \in SUBSET S
        /\ Cardinality(s \ {CHOOSE x \in s : TRUE}) = Cardinality(s) - 1
  BY <1>1, FS_RemoveElement
<1>3. \A s \in SUBSET S : g[s] = SumStep(f, g, s) /\ h[s] = SumStep(f, h, s)
  OBVIOUS
<1>4. Same(0)
  <2> SUFFICES ASSUME NEW s \in SUBSET S, Cardinality(s) <= 0 PROVE g[s] = h[s]
    OBVIOUS
  <2>1. s = {}
    BY <1>1, FS_EmptySet
  <2> QED
    BY <2>1, <1>3 DEF SumStep
<1>5. ASSUME NEW n \in Nat, Same(n) PROVE Same(n + 1)
  <2> SUFFICES ASSUME NEW s \in SUBSET S, Cardinality(s) <= n + 1 PROVE g[s] = h[s]
    OBVIOUS
  <2> DEFINE t == s \ {CHOOSE x \in s : TRUE}
  <2>1. CASE s = {}
    BY <2>1, <1>3 DEF SumStep
  <2>2. CASE s # {}
    <3>1. t \in SUBSET S /\ Cardinality(t) <= n
      BY <2>2, <1>1, <1>2
    <3>2. g[t] = h[t]
      BY <3>1, <1>5
    <3> QED
      BY <2>2, <3>2, <1>3 DEF SumStep
  <2> QED
    BY <2>1, <2>2
<1> HIDE DEF Same
<1>6. Nat \subseteq I
  <2>1. 0 \in I
    BY <1>4
  <2>2. \A n \in Nat : n \in I => n + 1 \in I
    BY <1>5
  <2> HIDE DEF I
  <2> QED
    BY <2>1, <2>2, SetInduction
<1>7. Same(Cardinality(S))
  BY <1>6, <1>1
<1>8. \A s \in SUBSET S : g[s] = h[s]
  BY <1>7, <1>1 DEF Same
<1>9. [s \in SUBSET S |-> SumStep(f, g, s)] = [s \in SUBSET S |-> SumStep(f, h, s)]
  BY <1>8, <1>3
<1> QED
  BY <1>9

\* Any element can be the one that is taken out first.
LEMMA SumAnyElement ==
    ASSUME NEW S, IsFiniteSet(S), NEW f \in [S -> Int],
           NEW it, SumOf(S, f, it),
           NEW s \in SUBSET S, NEW x \in s
    PROVE  it[s] = f[x] + it[s \ {x}]
<1> DEFINE TakesAny(n) == \A u \in SUBSET S : \A y \in u :
                       Cardinality(u) <= n => it[u] = f[y] + it[u \ {y}]
           I == {n \in Nat : TakesAny(n)}
<1>1. \A u \in SUBSET S : IsFiniteSet(u) /\ Cardinality(u) \in Nat /\ Cardinality(u) <= Cardinality(S)
  BY FS_Subset, FS_CardinalityType
<1>3. it \in [SUBSET S -> Int] /\ \A u \in SUBSET S : it[u] = SumStep(f, it, u)
  BY DEF SumOf
<1>4. TakesAny(0)
  BY <1>1, FS_EmptySet
<1>5. ASSUME NEW n \in Nat, TakesAny(n) PROVE TakesAny(n + 1)
  <2> SUFFICES ASSUME NEW u \in SUBSET S, NEW y \in u, Cardinality(u) <= n + 1
               PROVE  it[u] = f[y] + it[u \ {y}]
    OBVIOUS
  <2> DEFINE c == CHOOSE z \in u : TRUE
  <2>1. c \in u
    OBVIOUS
  <2>2. it[u] = f[c] + it[u \ {c}]
    BY <1>3, <2>1 DEF SumStep
  <2> HIDE DEF c
  <2>3. CASE c = y
    BY <2>2, <2>3
  <2>4. CASE c # y
    <3>1. /\ Cardinality(u \ {c}) <= n /\ Cardinality(u \ {y}) <= n
          /\ u \ {c} \in SUBSET S /\ u \ {y} \in SUBSET S
          /\ y \in u \ {c} /\ c \in u \ {y}
      BY <1>1, <2>1, <2>4, FS_RemoveElement
    <3>2. it[u \ {c}] = f[y] + it[(u \ {c}) \ {y}]
      BY <1>5, <3>1
    <3>3. it[u \ {y}] = f[c] + it[(u \ {y}) \ {c}]
      BY <1>5, <3>1
    <3>4. (u \ {c}) \ {y} = (u \ {y}) \ {c}
      OBVIOUS
    <3>5. it[(u \ {c}) \ {y}] \in Int /\ f[y] \in Int /\ f[c] \in Int
      BY <1>3, <2>1
    <3> DEFINE a == it[(u \ {c}) \ {y}]
    <3>6. it[u] = f[c] + (f[y] + a)
      BY <2>2, <3>2
    <3>7. it[u \ {y}] = f[c] + a
      BY <3>3, <3>4
    <3>8. a \in Int
      BY <3>5
    <3> HIDE DEF a
    <3>9. f[c] + (f[y] + a) = f[y] + (f[c] + a)
      BY <3>5, <3>8
    <3> QED
      BY <3>6, <3>7, <3>9
  <2> QED
    BY <2>3, <2>4
<1> HIDE DEF TakesAny
<1>6. Nat \subseteq I
  <2>1. 0 \in I
    BY <1>4
  <2>2. \A n \in Nat : n \in I => n + 1 \in I
    BY <1>5
  <2> HIDE DEF I
  <2> QED
    BY <2>1, <2>2, SetInduction
<1> QED
  BY <1>6, <1>1 DEF TakesAny

(* The sizes that Count adds up.                                            *)
SizeSum(r, ps) == MapThenSumSet(LAMBDA p : r[p].size, ps)

Sized(r, S) == IsFiniteSet(S) /\ \A p \in S : r[p].size \in Int

\* MapThenSumSet is the value of the only function its definition fits.
LEMMA SizeSumIs ==
    ASSUME NEW S, NEW r, Sized(r, S), NEW f, f = [p \in S |-> r[p].size],
           NEW it, SumOf(S, f, it)
    PROVE  SizeSum(r, S) = it[S]
<1> DEFINE Sums(g) == g = [s \in SUBSET S |->
                         IF s = {} THEN 0
                         ELSE r[CHOOSE x \in s : TRUE].size + g[s \ {CHOOSE x \in s : TRUE}]]
<1>1. SizeSum(r, S) = (CHOOSE g : Sums(g))[S]
  BY DEF SizeSum, MapThenSumSet, MapThenFoldSet
<1>2. ASSUME NEW g
      PROVE [s \in SUBSET S |-> SumStep(f, g, s)]
              = [s \in SUBSET S |->
                         IF s = {} THEN 0
                         ELSE r[CHOOSE x \in s : TRUE].size + g[s \ {CHOOSE x \in s : TRUE}]]
  <2>1. \A s \in SUBSET S : s # {} => (CHOOSE x \in s : TRUE) \in S
    OBVIOUS
  <2>2. \A s \in SUBSET S : SumStep(f, g, s) = 
                         IF s = {} THEN 0
                         ELSE r[CHOOSE x \in s : TRUE].size + g[s \ {CHOOSE x \in s : TRUE}]
    <3> SUFFICES ASSUME NEW s \in SUBSET S
                 PROVE  SumStep(f, g, s) =
                         IF s = {} THEN 0
                         ELSE r[CHOOSE x \in s : TRUE].size + g[s \ {CHOOSE x \in s : TRUE}]
      OBVIOUS
    <3>1. s # {} => f[CHOOSE x \in s : TRUE] = r[CHOOSE x \in s : TRUE].size
      BY <2>1
    <3>2. CASE s = {}
      BY <3>2 DEF SumStep
    <3>3. CASE s # {}
      <4> DEFINE c == CHOOSE x \in s : TRUE
                 rest == g[s \ {c}]
      <4>1. SumStep(f, g, s) = f[c] + rest
        BY <3>3 DEF SumStep
      <4>2. f[c] + rest = r[c].size + rest
        <5> HIDE DEF rest
        <5> QED
          BY <3>1, <3>3
      <4>3. (IF s = {} THEN 0 ELSE r[c].size + g[s \ {c}]) = r[c].size + rest
        <5> HIDE DEF c
        <5> QED
          BY <3>3
      <4> HIDE DEF rest
      <4> QED
        BY <4>1, <4>2, <4>3
    <3> QED
      BY <3>2, <3>3
  <2> QED
    BY <2>2
<1>3. it = [s \in SUBSET S |-> SumStep(f, it, s)]
  BY DEF SumOf
<1>3a. Sums(it)
  BY <1>2, <1>3
<1> DEFINE c == CHOOSE g : Sums(g)
<1>4. Sums(c)
  <2> HIDE DEF Sums
  <2> QED
    BY <1>3a
<1> HIDE DEF c
<1>5. c = [s \in SUBSET S |-> SumStep(f, c, s)]
  BY <1>4, <1>2
<1>6. c = it
  <2>1. f \in [S -> Int]
    BY DEF Sized
  <2>2. IsFiniteSet(S)
    BY DEF Sized
  <2> QED
    BY <1>3, <1>5, <2>1, <2>2, SumUnique
<1> QED
  BY <1>1, <1>6 DEF c

LEMMA SizeSumType ==
    ASSUME NEW S, NEW r, Sized(r, S)
    PROVE  SizeSum(r, S) \in Int
<1> DEFINE f == [p \in S |-> r[p].size]
<1>1. f \in [S -> Int] /\ IsFiniteSet(S)
  BY DEF Sized
<1> HIDE DEF f
<1>2. PICK it : SumOf(S, f, it)
  BY <1>1, SumExists
<1>3. SizeSum(r, S) = it[S]
  BY <1>2, SizeSumIs DEF f
<1> QED
  BY <1>2, <1>3 DEF SumOf

LEMMA SizeSumEmpty ==
    ASSUME NEW r
    PROVE  SizeSum(r, {}) = 0
<1> DEFINE f == [p \in {} |-> r[p].size]
<1>1. f \in [{} -> Int] /\ IsFiniteSet({}) /\ Sized(r, {})
  BY FS_EmptySet DEF Sized
<1>2. PICK it : SumOf({}, f, it)
  <2> HIDE DEF f
  <2> QED
    BY <1>1, SumExists
<1>3. SizeSum(r, {}) = it[{}]
  BY <1>1, <1>2, SizeSumIs
<1> QED
  BY <1>2, <1>3 DEF SumStep, SumOf

LEMMA SizeSumSame ==
    ASSUME NEW S, NEW r, Sized(r, S), NEW q, \A p \in S : q[p].size = r[p].size
    PROVE  SizeSum(q, S) = SizeSum(r, S)
<1> DEFINE f == [p \in S |-> r[p].size]
<1>1. f \in [S -> Int] /\ IsFiniteSet(S) /\ Sized(q, S) /\ f = [p \in S |-> q[p].size]
  BY DEF Sized
<1>2. f = [p \in S |-> r[p].size]
  OBVIOUS
<1> HIDE DEF f
<1>3. PICK it : SumOf(S, f, it)
  BY <1>1, SumExists
<1> QED
  BY <1>1, <1>2, <1>3, SizeSumIs

\* The size of one row and those of the others.
LEMMA SizeSumTake ==
    ASSUME NEW S, NEW r, Sized(r, S), NEW p \in S
    PROVE  /\ Sized(r, S \ {p})
           /\ SizeSum(r, S) = r[p].size + SizeSum(r, S \ {p})
<1> DEFINE T == S \ {p}
           f == [x \in S |-> r[x].size]
           e == [x \in T |-> r[x].size]
<1>1. /\ f \in [S -> Int] /\ IsFiniteSet(S)
      /\ e \in [T -> Int] /\ IsFiniteSet(T) /\ Sized(r, T)
      /\ f[p] = r[p].size /\ T \in SUBSET S
      /\ \A x \in T : e[x] = f[x]
  BY FS_Subset DEF Sized
<1>2. f = [x \in S |-> r[x].size] /\ e = [x \in T |-> r[x].size]
  OBVIOUS
<1> HIDE DEF f, e
<1>3. PICK it : SumOf(S, f, it)
  BY <1>1, SumExists
<1> DEFINE g == [s \in SUBSET T |-> it[s]]
<1>4. \A s \in SUBSET T : g[s] = SumStep(e, g, s)
  <2> SUFFICES ASSUME NEW s \in SUBSET T PROVE g[s] = SumStep(e, g, s)
    OBVIOUS
  <2>1. g[s] = SumStep(f, it, s)
    BY <1>1, <1>3 DEF SumOf
  <2>2. CASE s = {}
    BY <2>1, <2>2 DEF SumStep
  <2>3. CASE s # {}
    <3> DEFINE c == CHOOSE x \in s : TRUE
    <3>1. c \in T /\ s \ {c} \in SUBSET T
      BY <2>3
    <3>2. f[c] = e[c] /\ it[s \ {c}] = g[s \ {c}]
      <4> HIDE DEF c
      <4> QED
        BY <1>1, <3>1
    <3>3. SumStep(f, it, s) = f[c] + it[s \ {c}]
      BY <2>3 DEF SumStep
    <3>4. SumStep(e, g, s) = e[c] + g[s \ {c}]
      <4> HIDE DEF g
      <4> QED
        BY <2>3 DEF SumStep
    <3> QED
      BY <2>1, <3>2, <3>3, <3>4
  <2> QED
    BY <2>2, <2>3
<1>5. SumOf(T, e, g)
  <2>1. g \in [SUBSET T -> Int]
    BY <1>1, <1>3 DEF SumOf
  <2> QED
    BY <1>4, <2>1 DEF SumOf
<1>6. SizeSum(r, T) = g[T]
  <2> HIDE DEF g, T
  <2> QED
    BY <1>1, <1>2, <1>5, SizeSumIs
<1>7. SizeSum(r, S) = it[S]
  BY <1>2, <1>3, SizeSumIs
<1>8. it[S] = f[p] + it[T]
  BY <1>1, <1>3, SumAnyElement
<1> QED
  BY <1>1, <1>6, <1>7, <1>8

LEMMA SizeSumNat ==
    ASSUME NEW S, NEW r, IsFiniteSet(S), \A p \in S : r[p].size \in Nat
    PROVE  SizeSum(r, S) \in Nat
<1> DEFINE F == {s \in SUBSET S : SizeSum(r, s) \in Nat}
<1>1. {} \in F
  BY SizeSumEmpty
<1>2. ASSUME NEW s \in SUBSET S, NEW x \in S, s \in F, x \notin s
      PROVE  s \cup {x} \in F
  <2>1. Sized(r, s \cup {x})
    BY FS_Subset DEF Sized
  <2>2. SizeSum(r, s \cup {x}) = r[x].size + SizeSum(r, (s \cup {x}) \ {x})
    BY <2>1, SizeSumTake
  <2>3. (s \cup {x}) \ {x} = s
    BY <1>2
  <2> QED
    BY <1>2, <2>2, <2>3
<1> HIDE DEF F
<1>3. S \in F
  BY <1>1, <1>2, SubsetInduction
<1> QED
  BY <1>3 DEF F

LEMMA SizeSumUnion ==
    ASSUME NEW S, NEW T, NEW r, Sized(r, S \cup T), S \cap T = {}
    PROVE  SizeSum(r, S \cup T) = SizeSum(r, S) + SizeSum(r, T)
<1> DEFINE F == {s \in SUBSET T : SizeSum(r, S \cup s) = SizeSum(r, S) + SizeSum(r, s)}
<1>1. IsFiniteSet(T) /\ Sized(r, S)
  BY FS_Subset DEF Sized
<1>2. {} \in F
  <2>1. SizeSum(r, S) \in Int
    BY <1>1, SizeSumType
  <2>2. S \cup {} = S
    OBVIOUS
  <2> QED
    BY <2>1, <2>2, SizeSumEmpty
<1>3. ASSUME NEW s \in SUBSET T, NEW x \in T, s \in F, x \notin s
      PROVE  s \cup {x} \in F
  <2>1. Sized(r, s \cup {x}) /\ Sized(r, S \cup (s \cup {x})) /\ Sized(r, s)
    BY FS_Subset DEF Sized
  <2>2. SizeSum(r, s \cup {x}) = r[x].size + SizeSum(r, (s \cup {x}) \ {x})
    BY <2>1, SizeSumTake
  <2>3. SizeSum(r, S \cup (s \cup {x})) = r[x].size + SizeSum(r, (S \cup (s \cup {x})) \ {x})
    BY <2>1, SizeSumTake
  <2>4. (s \cup {x}) \ {x} = s /\ (S \cup (s \cup {x})) \ {x} = S \cup s
    BY <1>3
  <2> DEFINE all == SizeSum(r, S)
             part == SizeSum(r, s)
  <2>5. SizeSum(r, S) \in Int /\ SizeSum(r, s) \in Int /\ r[x].size \in Int
    BY <1>1, <2>1, SizeSumType DEF Sized
  <2>6. SizeSum(r, S \cup s) = all + part
    BY <1>3
  <2>7. SizeSum(r, S \cup (s \cup {x})) = r[x].size + (all + part)
    BY <2>3, <2>4, <2>6
  <2>8. SizeSum(r, s \cup {x}) = r[x].size + part
    BY <2>2, <2>4
  <2> HIDE DEF all, part
  <2>9. r[x].size + (all + part) = all + (r[x].size + part)
    BY <2>5 DEF all, part
  <2>10. SizeSum(r, S \cup (s \cup {x})) = all + SizeSum(r, s \cup {x})
    BY <2>7, <2>8, <2>9
  <2> QED
    BY <2>10 DEF all
<1> HIDE DEF F
<1>4. T \in F
  BY <1>1, <1>2, <1>3, SubsetInduction
<1> QED
  BY <1>4 DEF F

-----------------------------------------------------------------------------
(* What Count returns.                                                      *)

Rows == [Path -> Row \cup {NoRow}]

NonNegative(s) == s.files >= 0 /\ s.size >= 0 /\ \A k \in Kinds : s.kinds[k] >= 0

Held(r, paths) == {p \in paths : r[p] # NoRow}
HeldOf(r, paths, k) == {p \in Held(r, paths) : r[p].kind = k}

LEMMA CountIs ==
    ASSUME NEW r, NEW paths
    PROVE  Count(r, paths) =
             [files |-> Cardinality(Held(r, paths)), size |-> SizeSum(r, Held(r, paths)),
              kinds |-> [k \in Kinds |-> Cardinality(HeldOf(r, paths, k))]]
BY DEF Count, Held, HeldOf, SizeSum

LEMMA HeldSized ==
    ASSUME StatsAssumption, NEW r \in Rows, NEW paths \in SUBSET Path
    PROVE  /\ IsFiniteSet(Held(r, paths)) /\ Sized(r, Held(r, paths))
           /\ \A p \in Held(r, paths) : r[p] \in Row /\ r[p].size \in Nat
           /\ \A k \in Kinds : IsFiniteSet(HeldOf(r, paths, k))
<1>1. IsFiniteSet(Held(r, paths))
  BY FS_Subset DEF StatsAssumption, Held
<1>2. \A p \in Held(r, paths) : r[p] \in Row /\ r[p].size \in Nat
  BY DEF Rows, Held, Row, StatsAssumption
<1>3. \A k \in Kinds : IsFiniteSet(HeldOf(r, paths, k))
  BY <1>1, FS_Subset DEF HeldOf
<1> QED
  BY <1>1, <1>2, <1>3 DEF Sized

LEMMA CountType ==
    ASSUME StatsAssumption, NEW r \in Rows, NEW paths \in SUBSET Path
    PROVE  Count(r, paths) \in Stats /\ NonNegative(Count(r, paths))
<1>1. Cardinality(Held(r, paths)) \in Nat
  BY HeldSized, FS_CardinalityType
<1>2. \A k \in Kinds : Cardinality(HeldOf(r, paths, k)) \in Nat
  BY HeldSized, FS_CardinalityType
<1>3. SizeSum(r, Held(r, paths)) \in Nat
  BY HeldSized, SizeSumNat
<1> QED
  BY <1>1, <1>2, <1>3, CountIs DEF Stats, NonNegative

LEMMA CountSame ==
    ASSUME StatsAssumption, NEW r \in Rows, NEW q \in Rows, NEW paths \in SUBSET Path,
           \A p \in paths : r[p] = q[p]
    PROVE  Count(r, paths) = Count(q, paths)
<1>1. Held(r, paths) = Held(q, paths)
  BY DEF Held
<1>2. \A k \in Kinds : HeldOf(r, paths, k) = HeldOf(q, paths, k)
  BY <1>1 DEF HeldOf, Held
<1>3. SizeSum(r, Held(r, paths)) = SizeSum(q, Held(r, paths))
  <2>1. \A p \in Held(r, paths) : r[p].size = q[p].size
    BY DEF Held
  <2> QED
    BY <2>1, HeldSized, SizeSumSame
<1> QED
  BY <1>1, <1>2, <1>3, CountIs

\* The rows of two disjoint sets of paths are counted separately.
LEMMA CountUnion ==
    ASSUME StatsAssumption, NEW r \in Rows, NEW A \in SUBSET Path, NEW B \in SUBSET Path,
           A \cap B = {}
    PROVE  Count(r, A \cup B) = Plus(Count(r, A), Count(r, B))
<1>1. Held(r, A \cup B) = Held(r, A) \cup Held(r, B) /\ Held(r, A) \cap Held(r, B) = {}
  BY DEF Held
<1>2. Cardinality(Held(r, A \cup B)) = Cardinality(Held(r, A)) + Cardinality(Held(r, B))
  <2>1. Cardinality(Held(r, A) \cap Held(r, B)) = 0
    BY <1>1, FS_EmptySet
  <2>2. Cardinality(Held(r, A)) \in Nat /\ Cardinality(Held(r, B)) \in Nat
    BY HeldSized, FS_CardinalityType
  <2>3. IsFiniteSet(Held(r, A)) /\ IsFiniteSet(Held(r, B))
    BY HeldSized
  <2>4. Cardinality(Held(r, A) \cup Held(r, B))
          = Cardinality(Held(r, A)) + Cardinality(Held(r, B)) - Cardinality(Held(r, A) \cap Held(r, B))
    BY <2>3, FS_Union
  <2>5. Cardinality(Held(r, A \cup B)) = Cardinality(Held(r, A) \cup Held(r, B))
    BY <1>1, Zenon
  <2> QED
    BY <2>1, <2>2, <2>4, <2>5
<1>3. ASSUME NEW k \in Kinds
      PROVE  Cardinality(HeldOf(r, A \cup B, k))
               = Cardinality(HeldOf(r, A, k)) + Cardinality(HeldOf(r, B, k))
  <2>1. /\ HeldOf(r, A \cup B, k) = HeldOf(r, A, k) \cup HeldOf(r, B, k)
        /\ HeldOf(r, A, k) \cap HeldOf(r, B, k) = {}
    BY <1>1 DEF HeldOf
  <2>2. Cardinality(HeldOf(r, A, k) \cap HeldOf(r, B, k)) = 0
    BY <2>1, FS_EmptySet
  <2>3. Cardinality(HeldOf(r, A, k)) \in Nat /\ Cardinality(HeldOf(r, B, k)) \in Nat
    BY HeldSized, FS_CardinalityType
  <2>4. IsFiniteSet(HeldOf(r, A, k)) /\ IsFiniteSet(HeldOf(r, B, k))
    BY HeldSized
  <2>5. Cardinality(HeldOf(r, A, k) \cup HeldOf(r, B, k))
          = Cardinality(HeldOf(r, A, k)) + Cardinality(HeldOf(r, B, k))
              - Cardinality(HeldOf(r, A, k) \cap HeldOf(r, B, k))
    BY <2>4, FS_Union
  <2>6. Cardinality(HeldOf(r, A \cup B, k)) = Cardinality(HeldOf(r, A, k) \cup HeldOf(r, B, k))
    BY <2>1, Zenon
  <2> QED
    BY <2>2, <2>3, <2>5, <2>6
<1>4. SizeSum(r, Held(r, A \cup B)) = SizeSum(r, Held(r, A)) + SizeSum(r, Held(r, B))
  <2>1. Sized(r, Held(r, A) \cup Held(r, B))
    <3>1. A \cup B \in SUBSET Path
      OBVIOUS
    <3> QED
      BY <1>1, <3>1, HeldSized
  <2> QED
    BY <1>1, <2>1, SizeSumUnion
<1> QED
  BY <1>2, <1>3, <1>4, CountIs DEF Plus

LEMMA CountOne ==
    ASSUME StatsAssumption, NEW r \in Rows, NEW p \in Path
    PROVE  Count(r, {p}) = IF r[p] = NoRow THEN NoDelta ELSE One(r[p], 1)
<1>1. CASE r[p] = NoRow
  <2>1. Held(r, {p}) = {} /\ \A k \in Kinds : HeldOf(r, {p}, k) = {}
    BY <1>1 DEF Held, HeldOf
  <2>2. Cardinality({}) = 0 /\ SizeSum(r, {}) = 0
    BY FS_EmptySet, SizeSumEmpty
  <2> QED
    BY <1>1, <2>1, <2>2, CountIs DEF NoDelta
<1>2. CASE r[p] # NoRow
  <2>1. Held(r, {p}) = {p}
    BY <1>2 DEF Held
  <2>2. \A k \in Kinds : HeldOf(r, {p}, k) = IF k = r[p].kind THEN {p} ELSE {}
    BY <2>1 DEF HeldOf
  <2>3. Cardinality({p}) = 1 /\ Cardinality({}) = 0
    BY FS_Singleton, FS_EmptySet
  <2>4. SizeSum(r, {p}) = r[p].size
    <3>1. Sized(r, {p})
      BY <2>1, HeldSized
    <3>2. SizeSum(r, {p}) = r[p].size + SizeSum(r, {p} \ {p})
      BY <3>1, SizeSumTake
    <3>3. {p} \ {p} = {}
      OBVIOUS
    <3> QED
      BY <3>1, <3>2, <3>3, SizeSumEmpty DEF Sized
  <2>5. \A k \in Kinds : Cardinality(HeldOf(r, {p}, k)) = IF k = r[p].kind THEN 1 ELSE 0
    BY <2>2, <2>3
  <2>6. 1 * r[p].size = r[p].size
    BY <2>1, HeldSized
  <2> QED
    BY <1>2, <2>1, <2>3, <2>4, <2>5, <2>6, CountIs DEF One
<1> QED
  BY <1>1, <1>2

-----------------------------------------------------------------------------
(* Adding statistics.                                                       *)

LEMMA PlusType ==
    ASSUME NEW a \in Stats, NEW b \in Stats
    PROVE  Plus(a, b) \in Stats
BY DEF Plus, Stats

LEMMA PlusNonNegative ==
    ASSUME NEW a \in Stats, NEW b \in Stats, NonNegative(a), NonNegative(b)
    PROVE  NonNegative(Plus(a, b))
BY DEF Plus, Stats, NonNegative

LEMMA PlusCommutes ==
    ASSUME NEW a \in Stats, NEW b \in Stats
    PROVE  Plus(a, b) = Plus(b, a)
BY DEF Plus, Stats

LEMMA PlusAssociates ==
    ASSUME NEW a \in Stats, NEW b \in Stats, NEW c \in Stats
    PROVE  Plus(Plus(a, b), c) = Plus(a, Plus(b, c))
<1>1. \A k \in Kinds : (a.kinds[k] + b.kinds[k]) + c.kinds[k] = a.kinds[k] + (b.kinds[k] + c.kinds[k])
  BY DEF Stats
<1>2. (a.files + b.files) + c.files = a.files + (b.files + c.files)
      /\ (a.size + b.size) + c.size = a.size + (b.size + c.size)
  BY DEF Stats
<1> QED
  BY <1>1, <1>2 DEF Plus

LEMMA NoDeltaAddsNothing ==
    NoDelta \in Stats /\ \A a \in Stats : Plus(a, NoDelta) = a /\ Plus(NoDelta, a) = a
BY DEF NoDelta, Plus, Stats

LEMMA OneType ==
    ASSUME StatsAssumption, NEW row \in Row, NEW n \in {1, -1}
    PROVE  One(row, n) \in Stats
<1>1. row.size \in Sizes
  BY DEF Row
<1>2. row.size \in Nat
  BY <1>1 DEF StatsAssumption
<1>3. n * row.size \in Int
  BY <1>2
<1> QED
  BY <1>3 DEF One, Stats

LEMMA OneUndone ==
    ASSUME StatsAssumption, NEW row \in Row
    PROVE  Plus(One(row, -1), One(row, 1)) = NoDelta
<1>1. row.size \in Nat
  <2>1. row.size \in Sizes
    BY DEF Row
  <2> QED
    BY <2>1 DEF StatsAssumption
<1>2. (-1) * row.size + 1 * row.size = 0
  BY <1>1
<1>3. \A k \in Kinds : (IF k = row.kind THEN -1 ELSE 0) + (IF k = row.kind THEN 1 ELSE 0) = 0
  OBVIOUS
<1>4. [k \in Kinds |-> (IF k = row.kind THEN -1 ELSE 0) + (IF k = row.kind THEN 1 ELSE 0)] = [k \in Kinds |-> 0]
  BY <1>3
<1> DEFINE gone == [k \in Kinds |-> IF k = row.kind THEN -1 ELSE 0]
           come == [k \in Kinds |-> IF k = row.kind THEN 1 ELSE 0]
<1>5. /\ One(row, -1) = [files |-> -1, size |-> (-1) * row.size, kinds |-> gone]
      /\ One(row, 1) = [files |-> 1, size |-> 1 * row.size, kinds |-> come]
  <2>1. One(row, -1) = [files |-> -1, size |-> (-1) * row.size, kinds |-> gone]
    BY DEF One
  <2>2. One(row, 1) = [files |-> 1, size |-> 1 * row.size, kinds |-> come]
    BY DEF One
  <2> QED
    BY <2>1, <2>2
<1>6. [k \in Kinds |-> gone[k] + come[k]] = [k \in Kinds |-> 0]
  BY <1>4
<1> HIDE DEF gone, come
<1> DEFINE less == (-1) * row.size
           more == 1 * row.size
<1>7. Plus([files |-> -1, size |-> less, kinds |-> gone], [files |-> 1, size |-> more, kinds |-> come])
        = [files |-> -1 + 1, size |-> less + more, kinds |-> [k \in Kinds |-> gone[k] + come[k]]]
  <2> HIDE DEF less, more
  <2> QED
    BY DEF Plus
<1>8. less + more = 0 /\ -1 + 1 = 0
  BY <1>2
<1> HIDE DEF less, more
<1> QED
  BY <1>5, <1>6, <1>7, <1>8 DEF NoDelta, less, more

-----------------------------------------------------------------------------
(* Applying the deltas of a sequence.                                       *)

\* The element FoldLeft takes out of a set of positions.
LEMMA MaxOfSome ==
    ASSUME NEW n \in Nat, NEW s \in SUBSET (1..n), s # {}
    PROVE  Max(s) \in s /\ \A y \in s : y <= Max(s)
<1> DEFINE T == {n - x : x \in s}
<1>1. T \subseteq Nat /\ T # {}
  <2>1. \A x \in s : x \in Nat /\ n - x \in Nat
    OBVIOUS
  <2>2. PICK x \in s : TRUE
    OBVIOUS
  <2> QED
    BY <2>1, <2>2
<1>2. PICK t \in T : \A m \in T : ~(m < t)
  BY <1>1, LeastNat
<1>3. PICK x \in s : t = n - x
  BY <1>2
<1>4. \A y \in s : n - y \in T
  OBVIOUS
<1>5. \A y \in s : x >= y
  BY <1>2, <1>3, <1>4
<1>6. Max(s) = CHOOSE z \in s : \A y \in s : z >= y
  BY DEF Max
<1>7. Max(s) \in s /\ \A y \in s : Max(s) >= y
  BY <1>3, <1>5, <1>6
<1> QED
  BY <1>7

Totals == {s \in Stats : NonNegative(s)}

LEMMA ApplyDeltaType ==
    ASSUME NEW s \in Stats, NEW d \in Stats
    PROVE  ApplyDelta(s, d) \in Totals
BY DEF ApplyDelta, Plus, Stats, Totals, NonNegative

\* flush_committed applies the deltas one after the other.
LEMMA FoldApplies ==
    ASSUME NEW b \in Totals, NEW q \in Seq(Stats)
    PROVE  \E g \in [0..Len(q) -> Totals] :
             /\ g[0] = b
             /\ \A i \in 1..Len(q) : g[i] = ApplyDelta(g[i - 1], q[i])
             /\ FoldLeft(ApplyDelta, b, q) = g[Len(q)]
<1> DEFINE n == Len(q)
           D == 1..n
           Folds(it) == it = [s \in SUBSET D |->
                           IF s = {} THEN b
                           ELSE ApplyDelta(it[s \ {Max(s)}], q[Max(s)])]
           c == [s \in SUBSET D |-> Max(s)]
           A == [t \in Totals \X D |-> ApplyDelta(t[1], q[t[2]])]
<1>1. n \in Nat /\ DOMAIN q = D /\ \A i \in D : q[i] \in Stats
  OBVIOUS
<1>2. FoldLeft(ApplyDelta, b, q) = (CHOOSE it : Folds(it))[D]
  <2>1. FoldLeft(ApplyDelta, b, q)
          = (CHOOSE it : it = [s \in SUBSET (DOMAIN q) |->
                           IF s = {} THEN b
                           ELSE ApplyDelta(it[s \ {Max(s)}], q[Max(s)])])[DOMAIN q]
    BY DEF FoldLeft, MapThenFoldSet
  <2> QED
    BY <1>1, <2>1
<1>3. \A s \in SUBSET D : s # {} => Max(s) \in s
  BY <1>1, MaxOfSome
<1>4. \E it : Folds(it)
  <2>1. \A s \in SUBSET D : s # {} => c[s] \in s
    BY <1>3
  <2>2. A \in [Totals \X D -> Totals]
    BY <1>1, ApplyDeltaType DEF Totals
  <2>3. IsFiniteSet(D)
    BY <1>1, FS_Interval
  <2>4. PICK it : FoldOf(D, Totals, b, A, c, it)
    <3> HIDE DEF A, c, D
    <3> QED
      BY <2>1, <2>2, <2>3, FoldExists, Zenon
  <2>5. ASSUME NEW s \in SUBSET D
        PROVE  it[s] = IF s = {} THEN b ELSE ApplyDelta(it[s \ {Max(s)}], q[Max(s)])
    <3>1. it[s] = FoldStep(b, A, c, it, s)
      BY <2>4 DEF FoldOf
    <3>2. CASE s = {}
      BY <3>1, <3>2 DEF FoldStep
    <3>3. CASE s # {}
      <4>1. it[s] = A[<<it[s \ {c[s]}], c[s]>>]
        BY <3>1, <3>3 DEF FoldStep
      <4>2. c[s] = Max(s) /\ Max(s) \in D
        BY <1>3, <3>3
      <4>3. it[s \ {Max(s)}] \in Totals
        BY <2>4 DEF FoldOf
      <4> HIDE DEF c, D
      <4>4. A[<<it[s \ {Max(s)}], Max(s)>>] = ApplyDelta(it[s \ {Max(s)}], q[Max(s)])
        BY <4>2, <4>3
      <4> QED
        BY <3>3, <4>1, <4>2, <4>4
    <3> QED
      BY <3>2, <3>3
  <2>6. it = [s \in SUBSET D |-> it[s]]
    BY <2>4 DEF FoldOf
  <2>7. Folds(it)
    BY <2>5, <2>6
  <2> QED
    BY <2>7
<1> DEFINE it == CHOOSE it : Folds(it)
<1>5. Folds(it)
  <2> HIDE DEF Folds
  <2> QED
    BY <1>4
<1> HIDE DEF it
<1>6. it[{}] = b
  BY <1>5
<1>7. ASSUME NEW i \in D
      PROVE  it[1..i] = ApplyDelta(it[1..(i - 1)], q[i])
  <2>0. i \in Nat /\ i \in 1..i /\ i <= n
    BY <1>1
  <2>1. 1..i \in SUBSET D /\ 1..i # {}
    <3>1. \A j \in 1..i : j \in D
      BY <1>1, <2>0
    <3> QED
      BY <2>0, <3>1
  <2>2. Max(1..i) = i
    <3>1. Max(1..i) \in 1..i /\ i <= Max(1..i)
      BY <2>0, <2>1, <1>1, MaxOfSome
    <3> QED
      BY <2>0, <3>1
  <2>3. (1..i) \ {i} = 1..(i - 1)
    BY <1>1
  <2> QED
    BY <1>5, <2>1, <2>2, <2>3
<1> DEFINE I == {i \in Nat : i <= n => it[1..i] \in Totals}
<1>8. Nat \subseteq I
  <2>1. 0 \in I
    <3>1. 1..0 = {}
      OBVIOUS
    <3> QED
      BY <1>6, <3>1
  <2>2. ASSUME NEW i \in Nat, i \in I PROVE i + 1 \in I
    <3>1. CASE i + 1 <= n
      <4>1. it[1..i] \in Totals /\ i + 1 \in D /\ (i + 1) - 1 = i
        BY <1>1, <2>2, <3>1
      <4>2. it[1..(i + 1)] = ApplyDelta(it[1..i], q[i + 1])
        BY <1>7, <4>1
      <4>3. it[1..(i + 1)] \in Totals
        BY <1>1, <4>1, <4>2, ApplyDeltaType DEF Totals
      <4> QED
        BY <4>3
    <3>2. CASE ~(i + 1 <= n)
      BY <3>2
    <3> QED
      BY <3>1, <3>2
  <2> HIDE DEF I
  <2> QED
    BY <2>1, <2>2, SetInduction
<1> DEFINE g == [i \in 0..n |-> it[1..i]]
<1>9. g \in [0..n -> Totals]
  BY <1>1, <1>8
<1>10. g[0] = b
  <2>1. 1..0 = {}
    OBVIOUS
  <2> QED
    BY <1>1, <1>6, <2>1
<1>11. \A i \in D : g[i] = ApplyDelta(g[i - 1], q[i])
  <2> SUFFICES ASSUME NEW i \in D PROVE g[i] = ApplyDelta(g[i - 1], q[i])
    OBVIOUS
  <2>1. g[i] = it[1..i] /\ g[i - 1] = it[1..(i - 1)]
    BY <1>1
  <2> QED
    BY <1>7, <2>1
<1>12. FoldLeft(ApplyDelta, b, q) = g[n]
  BY <1>1, <1>2 DEF it
<1> HIDE DEF g, it
<1> QED
  BY <1>9, <1>10, <1>11, <1>12

-----------------------------------------------------------------------------
(* The type invariant of the cache.                                         *)

Snapshots == [phase : {"read"}, stats : Stats, members : Stats, spoiled : BOOLEAN]

LEMMA SnapshotKinds ==
    ASSUME NEW s \in Snapshots
    PROVE  s # NoSnapshot
BY DEF Snapshots, NoSnapshot

StatsTyped ==
    /\ StatsTypeOK
    /\ snapshot \in [Rebuilders -> {NoSnapshot} \cup Snapshots]
    /\ NonNegative(members)
    /\ \A r \in Rebuilders : snapshot[r] # NoSnapshot =>
         NonNegative(snapshot[r].stats) /\ NonNegative(snapshot[r].members)

LEMMA RowsType ==
    ASSUME StatsTypeOK
    PROVE  rows \in Rows /\ session \in Rows /\ Outer \in SUBSET Path /\ Inner \in SUBSET Path
           /\ Path \in SUBSET Path
BY DEF StatsTypeOK, Rows, Path

LEMMA EmptyType ==
    /\ Empty \in Stats /\ NonNegative(Empty) /\ NoDelta \in Stats /\ <<>> \in Seq(Stats)
    /\ Empty.files >= 0 /\ Empty.size >= 0 /\ \A k \in Kinds : Empty.kinds[k] >= 0
BY DEF Empty, NoDelta, Stats, NonNegative

LEMMA SpoilType ==
    ASSUME StatsTyped
    PROVE  /\ Spoil \in [Rebuilders -> {NoSnapshot} \cup Snapshots]
           /\ \A r \in Rebuilders :
                /\ Spoil[r] = NoSnapshot <=> snapshot[r] = NoSnapshot
                /\ snapshot[r] # NoSnapshot =>
                     /\ Spoil[r].spoiled
                     /\ Spoil[r].stats = snapshot[r].stats
                     /\ Spoil[r].members = snapshot[r].members
<1>1. ASSUME NEW r \in Rebuilders, snapshot[r] # NoSnapshot
      PROVE  /\ Spoil[r] \in Snapshots
             /\ Spoil[r].spoiled
             /\ Spoil[r].stats = snapshot[r].stats
             /\ Spoil[r].members = snapshot[r].members
  <2>1. snapshot[r] \in Snapshots
    BY <1>1 DEF StatsTyped
  <2>2. Spoil[r] = [snapshot[r] EXCEPT !.spoiled = TRUE]
    BY <1>1 DEF Spoil
  <2> QED
    BY <2>1, <2>2 DEF Snapshots
<1>2. ASSUME NEW r \in Rebuilders, snapshot[r] = NoSnapshot
      PROVE  Spoil[r] = NoSnapshot
  BY <1>2 DEF Spoil
<1>3. Spoil = [r \in Rebuilders |-> Spoil[r]]
  BY DEF Spoil
<1>4. \A r \in Rebuilders : Spoil[r] \in {NoSnapshot} \cup Snapshots
  BY <1>1, <1>2
<1>5. Spoil \in [Rebuilders -> {NoSnapshot} \cup Snapshots]
  BY <1>3, <1>4
<1>6. \A r \in Rebuilders : Spoil[r] = NoSnapshot <=> snapshot[r] = NoSnapshot
  BY <1>1, <1>2, SnapshotKinds
<1> QED
  BY <1>1, <1>5, <1>6

\* What a written or deleted file adds to the delta of the request.
LEMMA CountedType ==
    ASSUME StatsAssumption, NEW d \in Stats, NEW old \in Row, NEW new \in Row
    PROVE  /\ Plus(d, One(new, 1)) \in Stats
           /\ Plus(d, One(old, -1)) \in Stats
           /\ Plus(Plus(d, One(old, -1)), One(new, 1)) \in Stats
BY OneType, PlusType

LEMMA CountedDelta ==
    ASSUME StatsAssumption, StatsTypeOK, NEW p \in Path, NEW row \in Row
    PROVE  Counted(p, session[p], row) \in Stats
<1>1. delta \in Stats /\ session[p] \in Row \cup {NoRow}
  BY DEF StatsTypeOK
<1>2. CASE session[p] = NoRow
  BY <1>1, <1>2, OneType, PlusType DEF Counted
<1>3. CASE session[p] # NoRow
  <2>1. session[p] \in Row
    BY <1>1, <1>3
  <2> QED
    BY <1>1, <1>3, <2>1, CountedType DEF Counted
<1> QED
  BY <1>2, <1>3

LEMMA FlushedCache ==
    ASSUME StatsTypeOK
    PROVE  FoldLeft(ApplyDelta, stats_cache, pending_deltas) \in Totals
<1>1. stats_cache \in Totals /\ pending_deltas \in Seq(Stats)
  BY DEF StatsTypeOK, Totals, NonNegative
<1>2. PICK g \in [0..Len(pending_deltas) -> Totals] :
        FoldLeft(ApplyDelta, stats_cache, pending_deltas) = g[Len(pending_deltas)]
  BY <1>1, FoldApplies
<1>3. Len(pending_deltas) \in 0..Len(pending_deltas)
  BY <1>1
<1> QED
  BY <1>2, <1>3

LEMMA StatsTypedInit ==
    ASSUME StatsAssumption, StatsInit
    PROVE  StatsTyped
<1>1. StatsTypeOK
  <2>1. rows \in [Path -> Row \cup {NoRow}] /\ session \in [Path -> Row \cup {NoRow}]
    BY DEF StatsInit
  <2>2. ops \in 0..MaxOps /\ failures \in 0..MaxFailures /\ extra \in 0..MaxExtra
    BY DEF StatsInit, StatsAssumption
  <2> QED
    BY <2>1, <2>2, EmptyType DEF StatsInit, StatsTypeOK
<1> QED
  BY <1>1, EmptyType DEF StatsInit, StatsTyped

LEMMA StatsTypedNext ==
    ASSUME StatsAssumption, StatsTyped, [StatsNext]_statsVars
    PROVE  StatsTyped'
<1> USE DEF StatsTyped, StatsTypeOK, db_vars, cache_vars
<1>1. CASE Receive
  BY <1>1, EmptyType DEF Receive
<1>2. CASE RequestDone
  BY <1>2, EmptyType DEF RequestDone
<1>3. CASE Commit
  BY <1>3, SpoilType DEF Commit
<1>4. CASE Flush
  <2>1. FoldLeft(ApplyDelta, stats_cache, pending_deltas) \in Totals
    BY FlushedCache
  <2> QED
    BY <1>4, <2>1, SpoilType DEF Flush, Drained, Totals, NonNegative
<1>5. CASE Abort
  <2>1. /\ snapshot' \in [Rebuilders -> {NoSnapshot} \cup Snapshots]
        /\ \A r \in Rebuilders : snapshot'[r] # NoSnapshot =>
             NonNegative(snapshot'[r].stats) /\ NonNegative(snapshot'[r].members)
    BY <1>5, SpoilType DEF Abort
  <2>2. failures' \in 0..MaxFailures
    BY <1>5 DEF Abort, StatsAssumption
  <2> QED
    BY <1>5, <2>1, <2>2, EmptyType DEF Abort
<1>6. ASSUME NEW p \in Path, Delete(p) PROVE StatsTyped'
  <2>1. session[p] \in Row
    BY <1>6 DEF Delete
  <2>2. delta' \in Stats
    BY <1>6, <2>1, OneType, PlusType DEF Delete
  <2> QED
    BY <1>6, <2>2 DEF Delete, StatsAssumption
<1>7. ASSUME NEW p \in Path, NEW row \in Row, Upsert(p, row) PROVE StatsTyped'
  <2>1. delta' \in Stats
    BY <1>7, CountedDelta DEF Upsert
  <2> QED
    BY <1>7, <2>1 DEF Upsert, StatsAssumption
<1>8. ASSUME NEW p \in Outer, NEW row \in Row, Fallback(p, row) PROVE StatsTyped'
  <2>1. failures' \in 0..MaxFailures
    BY <1>8 DEF Fallback, StatsAssumption
  <2>2. session' \in [Path -> Row \cup {NoRow}]
    BY <1>8 DEF Fallback, Path
  <2> QED
    BY <1>8, <2>1, <2>2 DEF Fallback
<1>9. CASE Crash
  <2>1. failures' \in 0..MaxFailures
    BY <1>9 DEF Crash, StatsAssumption
  <2>2. snapshot' \in [Rebuilders -> {NoSnapshot} \cup Snapshots] /\ \A r \in Rebuilders : snapshot'[r] = NoSnapshot
    BY <1>9 DEF Crash
  <2>3. StatsTypeOK'
    BY <1>9, <2>1, EmptyType DEF Crash
  <2> QED
    BY <1>9, <2>2, <2>3, EmptyType DEF Crash
<1>10. CASE Stream
  BY <1>10 DEF Stream
<1>11. ASSUME NEW r \in Rebuilders, ReadStats(r) PROVE StatsTyped'
  <2> DEFINE s == [phase |-> "read", stats |-> Count(rows, Path), members |-> Count(rows, Inner),
                   spoiled |-> pc \in {"flush", "flush_part"} \/ partial]
  <2>1. s \in Snapshots /\ NonNegative(s.stats) /\ NonNegative(s.members)
    BY CountType, RowsType DEF Snapshots
  <2> DEFINE none == [phase |-> "read", stats |-> Empty, members |-> Empty, spoiled |-> TRUE]
  <2>2. none \in Snapshots /\ NonNegative(none.stats) /\ NonNegative(none.members)
    BY EmptyType DEF Snapshots
  <2>3. snapshot' = [snapshot EXCEPT ![r] = s] \/ snapshot' = [snapshot EXCEPT ![r] = none]
    BY <1>11 DEF ReadStats
  <2>4. extra' \in 0..MaxExtra /\ failures' \in 0..MaxFailures
    BY <1>11 DEF ReadStats, StatsAssumption
  <2>5. UNCHANGED <<db_vars, cache_vars, shown, ops>>
    BY <1>11 DEF ReadStats
  <2> HIDE DEF s, none
  <2> QED
    BY <2>1, <2>2, <2>3, <2>4, <2>5
<1>12. ASSUME NEW r \in Rebuilders, WriteStats(r) PROVE StatsTyped'
  <2>1. snapshot[r] \in Snapshots /\ NonNegative(snapshot[r].stats) /\ NonNegative(snapshot[r].members)
    BY <1>12 DEF WriteStats
  <2> QED
    BY <1>12, <2>1 DEF WriteStats, Rebuilt, Snapshots, NonNegative
<1>13. CASE UNCHANGED statsVars
  BY <1>13 DEF statsVars
<1> QED
  BY <1>1, <1>2, <1>3, <1>4, <1>5, <1>6, <1>7, <1>8, <1>9, <1>10, <1>11, <1>12, <1>13
     DEF StatsNext, Worker

-----------------------------------------------------------------------------
(* The deltas on their way.                                                 *)

\* From b the deltas of q lead through totals that count files, and with d to
\* total.
Leads(b, q, d, total) ==
    \E f \in [0..Len(q) -> Stats] :
      /\ f[0] = b
      /\ \A i \in 1..Len(q) : f[i] = Plus(f[i - 1], q[i]) /\ NonNegative(f[i])
      /\ Plus(f[Len(q)], d) = total

LEMMA LeadsEmpty ==
    ASSUME NEW b \in Stats, NEW d
    PROVE  /\ Leads(b, <<>>, d, Plus(b, d))
           /\ \A t : Leads(b, <<>>, d, t) => Plus(b, d) = t
<1> DEFINE f == [i \in 0..0 |-> b]
<1>1. Len(<<>>) = 0 /\ 1..0 = {}
  OBVIOUS
<1>2. f \in [0..0 -> Stats] /\ f[0] = b
  OBVIOUS
<1> HIDE DEF f
<1>3. Leads(b, <<>>, d, Plus(b, d))
  <2>1. \A i \in 1..0 : f[i] = Plus(f[i - 1], <<>>[i]) /\ NonNegative(f[i])
    BY <1>1
  <2>2. Plus(f[0], d) = Plus(b, d)
    BY <1>2
  <2> QED
    BY <1>1, <1>2, <2>1, <2>2, Zenon DEF Leads
<1>4. ASSUME NEW t, Leads(b, <<>>, d, t) PROVE Plus(b, d) = t
  BY <1>1, <1>4, Zenon DEF Leads
<1> QED
  BY <1>3, <1>4

LEMMA LeadsOn ==
    ASSUME NEW b \in Stats, NEW q \in Seq(Stats), NEW d \in Stats, NEW c \in Stats,
           NEW t, Leads(b, q, d, t)
    PROVE  Leads(b, q, Plus(d, c), Plus(t, c))
<1>1. PICK f \in [0..Len(q) -> Stats] :
        /\ f[0] = b
        /\ \A i \in 1..Len(q) : f[i] = Plus(f[i - 1], q[i]) /\ NonNegative(f[i])
        /\ Plus(f[Len(q)], d) = t
  BY DEF Leads
<1>2. f[Len(q)] \in Stats
  BY <1>1
<1>3. Plus(f[Len(q)], Plus(d, c)) = Plus(t, c)
  BY <1>1, <1>2, PlusAssociates
<1> QED
  BY <1>1, <1>3 DEF Leads

\* A request that is done appends its delta to those that wait for a COMMIT.
LEMMA LeadsAppend ==
    ASSUME NEW b \in Stats, NEW q \in Seq(Stats), NEW d \in Stats,
           NEW t \in Stats, NonNegative(t), Leads(b, q, d, t)
    PROVE  Leads(b, Append(q, d), NoDelta, t)
<1>1. PICK f \in [0..Len(q) -> Stats] :
        /\ f[0] = b
        /\ \A i \in 1..Len(q) : f[i] = Plus(f[i - 1], q[i]) /\ NonNegative(f[i])
        /\ Plus(f[Len(q)], d) = t
  BY DEF Leads
<1> DEFINE n == Len(q) + 1
           g == [i \in 0..n |-> IF i = n THEN t ELSE f[i]]
<1>2. /\ n \in Nat /\ Len(q) \in Nat /\ Len(Append(q, d)) = n
      /\ \A i \in 1..Len(q) : Append(q, d)[i] = q[i]
      /\ Append(q, d)[n] = d
  OBVIOUS
<1>3. g \in [0..n -> Stats] /\ g[0] = b /\ g[n] = t
  BY <1>1, <1>2
<1>4. ASSUME NEW i \in 1..n
      PROVE  g[i] = Plus(g[i - 1], Append(q, d)[i]) /\ NonNegative(g[i])
  <2>1. CASE i = n
    <3>1. g[i - 1] = f[Len(q)]
      BY <1>2, <2>1
    <3> HIDE DEF n, g
    <3> QED
      BY <1>1, <1>2, <1>3, <2>1, <3>1
  <2>2. CASE i # n
    <3>1. i \in 1..Len(q) /\ g[i] = f[i] /\ g[i - 1] = f[i - 1]
      BY <1>2, <2>2
    <3> HIDE DEF n, g
    <3> QED
      BY <1>1, <1>2, <3>1
  <2> QED
    BY <2>1, <2>2
<1>5. Plus(g[n], NoDelta) = t
  BY <1>3, NoDeltaAddsNothing
<1> HIDE DEF g, n
<1> QED
  BY <1>2, <1>3, <1>4, <1>5 DEF Leads

\* What is never negative is not clamped.
LEMMA ApplyDeltaUnclamped ==
    ASSUME NEW s \in Stats, NEW d \in Stats, NonNegative(Plus(s, d))
    PROVE  ApplyDelta(s, d) = Plus(s, d)
BY DEF ApplyDelta, Plus, Stats, NonNegative

\* The deltas that are applied to a cache that counts m beside b.
LEMMA LeadsApplied ==
    ASSUME NEW b \in Stats, NEW m \in Stats, NonNegative(m), NonNegative(Plus(b, m)),
           NEW q \in Seq(Stats), NEW d \in Stats, NEW t, Leads(b, q, d, t)
    PROVE  \E e \in Stats : /\ FoldLeft(ApplyDelta, Plus(b, m), q) = Plus(e, m)
                            /\ Plus(e, d) = t
                            /\ q = <<>> => e = b
<1>1. PICK f \in [0..Len(q) -> Stats] :
        /\ f[0] = b
        /\ \A i \in 1..Len(q) : f[i] = Plus(f[i - 1], q[i]) /\ NonNegative(f[i])
        /\ Plus(f[Len(q)], d) = t
  BY DEF Leads
<1>2. Plus(b, m) \in Totals
  BY PlusType DEF Totals
<1>3. PICK g \in [0..Len(q) -> Totals] :
        /\ g[0] = Plus(b, m)
        /\ \A i \in 1..Len(q) : g[i] = ApplyDelta(g[i - 1], q[i])
        /\ FoldLeft(ApplyDelta, Plus(b, m), q) = g[Len(q)]
  BY <1>2, FoldApplies
<1> DEFINE I == {i \in Nat : i <= Len(q) => g[i] = Plus(f[i], m)}
<1>4. Nat \subseteq I
  <2>1. 0 \in I
    BY <1>1, <1>3
  <2>2. ASSUME NEW i \in Nat, i \in I PROVE i + 1 \in I
    <3> SUFFICES ASSUME i + 1 <= Len(q) PROVE g[i + 1] = Plus(f[i + 1], m)
      OBVIOUS
    <3> DEFINE j == i + 1
    <3>1. j \in 1..Len(q) /\ j - 1 = i /\ i \in 0..Len(q) /\ i <= Len(q)
      OBVIOUS
    <3>2. g[i] = Plus(f[i], m) /\ f[i] \in Stats /\ q[j] \in Stats /\ f[j] \in Stats
      BY <2>2, <3>1
    <3>3. f[j] = Plus(f[i], q[j]) /\ NonNegative(f[j])
      BY <1>1, <3>1
    <3>4. Plus(Plus(f[i], m), q[j]) = Plus(f[j], m)
      <4> HIDE DEF j
      <4>1. Plus(Plus(f[i], m), q[j]) = Plus(f[i], Plus(m, q[j]))
        BY <3>2, PlusAssociates
      <4>2. Plus(m, q[j]) = Plus(q[j], m)
        BY <3>2, PlusCommutes
      <4>3. Plus(f[i], Plus(q[j], m)) = Plus(Plus(f[i], q[j]), m)
        BY <3>2, PlusAssociates
      <4> QED
        BY <3>3, <4>1, <4>2, <4>3
    <3>5. NonNegative(Plus(f[j], m))
      BY <3>2, <3>3, PlusNonNegative
    <3>6. g[j] = ApplyDelta(Plus(f[i], m), q[j])
      BY <1>3, <3>1, <3>2
    <3> HIDE DEF j
    <3>7. Plus(f[i], m) \in Stats
      BY <3>2, PlusType
    <3>8. g[j] = Plus(f[j], m)
      BY <3>2, <3>4, <3>5, <3>6, <3>7, ApplyDeltaUnclamped
    <3> QED
      BY <3>8 DEF j
  <2> HIDE DEF I
  <2> QED
    BY <2>1, <2>2, SetInduction
<1>5. Len(q) \in Nat /\ f[Len(q)] \in Stats
  OBVIOUS
<1>6. FoldLeft(ApplyDelta, Plus(b, m), q) = Plus(f[Len(q)], m)
  BY <1>3, <1>4, <1>5
<1>7. q = <<>> => f[Len(q)] = b
  BY <1>1
<1> QED
  BY <1>1, <1>5, <1>6, <1>7

-----------------------------------------------------------------------------
(* What a write or a delete does to the counts of the outer files.          *)

\* Only the row of the path that is written changes its part of the count.
LEMMA CountChanged ==
    ASSUME StatsAssumption, NEW r \in Rows, NEW p \in Path, NEW new \in Row \cup {NoRow}
    PROVE  /\ [r EXCEPT ![p] = new] \in Rows
           /\ p \in Inner => Count([r EXCEPT ![p] = new], Outer) = Count(r, Outer)
           /\ p \in Outer => \E rest \in Stats :
                /\ Count(r, Outer) = Plus(rest, IF r[p] = NoRow THEN NoDelta ELSE One(r[p], 1))
                /\ Count([r EXCEPT ![p] = new], Outer)
                     = Plus(rest, IF new = NoRow THEN NoDelta ELSE One(new, 1))
<1> DEFINE q == [r EXCEPT ![p] = new]
<1>1. q \in Rows /\ q[p] = new /\ \A x \in Path : x # p => q[x] = r[x]
  BY DEF Rows
<1>2. Outer \in SUBSET Path /\ Outer \cap Inner = {}
  BY DEF Path, StatsAssumption
<1> HIDE DEF q
<1>3. CASE p \in Inner
  <2>1. \A x \in Outer : q[x] = r[x]
    BY <1>1, <1>2, <1>3
  <2>2. Count(q, Outer) = Count(r, Outer)
    BY <1>1, <1>2, <2>1, CountSame
  <2> QED
    BY <1>1, <1>2, <1>3, <2>2 DEF q
<1>4. CASE p \in Outer
  <2> DEFINE others == Outer \ {p}
  <2>1. others \in SUBSET Path /\ {p} \in SUBSET Path /\ others \cap {p} = {} /\ others \cup {p} = Outer
    BY <1>2, <1>4
  <2> HIDE DEF others
  <2>2. /\ Count(r, others \cup {p}) = Plus(Count(r, others), Count(r, {p}))
        /\ Count(q, others \cup {p}) = Plus(Count(q, others), Count(q, {p}))
    BY <1>1, <2>1, CountUnion
  <2>3. Count(q, others) = Count(r, others)
    <3>1. \A x \in others : q[x] = r[x]
      BY <1>1, <2>1
    <3> QED
      BY <1>1, <2>1, <3>1, CountSame
  <2>4. Count(r, others) \in Stats
    BY <2>1, CountType
  <2>5. /\ Count(r, {p}) = IF r[p] = NoRow THEN NoDelta ELSE One(r[p], 1)
        /\ Count(q, {p}) = IF new = NoRow THEN NoDelta ELSE One(new, 1)
    BY <1>1, CountOne
  <2>6. /\ Count(r, Outer) = Plus(Count(r, others), Count(r, {p}))
        /\ Count(q, Outer) = Plus(Count(r, others), Count(q, {p}))
    BY <2>1, <2>2, <2>3
  <2>7. p \notin Inner
    BY <1>2, <1>4
  <2> QED
    BY <1>1, <2>4, <2>5, <2>6, <2>7 DEF q
<1> QED
  BY <1>3, <1>4 DEF Path

\* One delta for a row that goes and one for a row that comes.
LEMMA Counted2 ==
    ASSUME StatsAssumption, NEW rest \in Stats, NEW old \in Row, NEW new \in Row
    PROVE  /\ Plus(Plus(rest, One(old, 1)), One(old, -1)) = rest
           /\ Plus(Plus(Plus(rest, One(old, 1)), One(old, -1)), One(new, 1)) = Plus(rest, One(new, 1))
<1>1. One(old, 1) \in Stats /\ One(old, -1) \in Stats
  BY OneType
<1>2. Plus(One(old, 1), One(old, -1)) = NoDelta
  BY <1>1, OneUndone, PlusCommutes
<1>3. Plus(Plus(rest, One(old, 1)), One(old, -1)) = Plus(rest, NoDelta)
  BY <1>1, <1>2, PlusAssociates
<1>4. Plus(rest, NoDelta) = rest
  BY NoDeltaAddsNothing
<1> QED
  BY <1>3, <1>4

-----------------------------------------------------------------------------
(* What the cache counts.                                                   *)

Flushing == {"flush", "flush_part"}

\* The deltas to be applied no longer add up to what was committed, and no
\* rebuild that is under way will hide it.
Lost ==
    /\ pc \in Flushing /\ drifted
    /\ \A r \in Rebuilders : snapshot[r] # NoSnapshot => snapshot[r].spoiled

\* b is what the cache counts of the outer files when nothing was lost.
Counts(b) ==
    /\ ~fallback /\ ~Lost => Leads(b, pending_deltas, delta, Count(session, Outer))
    /\ ~drifted => stats_cache = Plus(b, members)
    /\ \A r \in Rebuilders : snapshot[r] # NoSnapshot /\ ~snapshot[r].spoiled =>
         snapshot[r].stats = Plus(b, snapshot[r].members)
    /\ pc \notin Flushing /\ ~partial => b = Count(rows, Outer)

Worked ==
    /\ pc \notin {"request", "flush_part"} => delta = NoDelta
    /\ pc = "idle" => ~partial /\ ~fallback /\ pending_deltas = <<>> /\ session = rows
    /\ fallback => pc \notin Flushing
    /\ pc \in Flushing => rows = session

StatsInv ==
    /\ StatsTyped
    /\ Worked
    /\ \E b \in Stats : Counts(b)

\* What holds of the worker at each point of its loop is preserved.
LEMMA WorkedNext ==
    ASSUME StatsTypeOK, Worked, [StatsNext]_statsVars
    PROVE  Worked'
<1> USE DEF Worked, Flushing, db_vars, cache_vars
<1>1. CASE Worker
  <2>1. CASE Flush
    BY <2>1 DEF Flush, StatsTypeOK, Drained
  <2>2. CASE Commit
    BY <2>2 DEF Commit
  <2> QED
    BY <1>1, <2>1, <2>2 DEF Worker, Receive, RequestDone, Abort, Delete, Upsert, Fallback
<1>2. CASE Crash
  BY <1>2 DEF Crash
<1>3. CASE Stream
  BY <1>3 DEF Stream
<1>4. ASSUME NEW r \in Rebuilders, ReadStats(r) \/ WriteStats(r) PROVE Worked'
  BY <1>4 DEF ReadStats, WriteStats
<1>5. CASE UNCHANGED statsVars
  BY <1>5 DEF statsVars
<1> QED
  BY <1>1, <1>2, <1>3, <1>4, <1>5 DEF StatsNext

\* Whatever b is: a state in which everything is spoiled and the worker is
\* between two transactions counts the committed rows.
LEMMA CountsAnew ==
    ASSUME StatsTypeOK, StatsAssumption, drifted, session = rows,
           pending_deltas = <<>>, delta = NoDelta,
           \A r \in Rebuilders : snapshot[r] # NoSnapshot => snapshot[r].spoiled
    PROVE  \E b \in Stats : Counts(b)
<1> DEFINE b == Count(rows, Outer)
<1>1. b \in Stats
  BY RowsType, CountType
<1> HIDE DEF b
<1>2. Leads(b, <<>>, NoDelta, b)
  <2>1. Leads(b, <<>>, NoDelta, Plus(b, NoDelta)) /\ Plus(b, NoDelta) = b
    BY <1>1, LeadsEmpty, NoDeltaAddsNothing
  <2> QED
    BY <2>1
<1>3. Counts(b)
  BY <1>2 DEF Counts, b
<1> QED
  BY <1>1, <1>3

LEMMA ReceiveCounts ==
    ASSUME StatsInv, Receive
    PROVE  (\E b \in Stats : Counts(b))'
<1>1. PICK b \in Stats : Counts(b)
  BY DEF StatsInv
<1>2. Counts(b)'
  BY <1>1 DEF Receive, Counts, StatsInv, Worked, Lost, Flushing, cache_vars
<1> QED
  BY <1>2

LEMMA RequestDoneCounts ==
    ASSUME StatsAssumption, StatsInv, RequestDone
    PROVE  (\E b \in Stats : Counts(b))'
<1>1. PICK b \in Stats : Counts(b)
  BY DEF StatsInv
<1>2. StatsTypeOK
  BY DEF StatsInv, StatsTyped
<1> DEFINE t == Count(session, Outer)
<1>3. t \in Stats /\ NonNegative(t)
  BY <1>2, RowsType, CountType
<1>4. ASSUME ~fallback PROVE Leads(b, pending_deltas, delta, t)
  BY <1>1, <1>4 DEF Counts, Lost, Flushing, RequestDone
<1>5. ASSUME ~fallback PROVE Leads(b, pending_deltas', NoDelta, t)
  <2>1. CASE delta = NoDelta
    BY <1>4, <1>5, <2>1 DEF RequestDone
  <2>2. CASE delta # NoDelta
    <3>1. delta \in Stats /\ pending_deltas \in Seq(Stats)
      BY <1>2 DEF StatsTypeOK
    <3>2. pending_deltas' = Append(pending_deltas, delta)
      BY <2>2 DEF RequestDone
    <3> HIDE DEF t
    <3> QED
      BY <1>3, <1>4, <1>5, <3>1, <3>2, LeadsAppend
  <2> QED
    BY <2>1, <2>2
<1>6. Counts(b)'
  BY <1>1, <1>5 DEF RequestDone, Counts, Lost, Flushing, cache_vars
<1> QED
  BY <1>6

\* A request adds to its delta what it does to the outer files.
LEMMA WriteCounts ==
    ASSUME StatsInv, NEW c \in Stats, pc = "request",
           delta' = Plus(delta, c),
           Count(session', Outer) = Plus(Count(session, Outer), c),
           UNCHANGED <<rows, pc, pending_deltas, partial, fallback, cache_vars, snapshot>>
    PROVE  (\E b \in Stats : Counts(b))'
<1>1. PICK b \in Stats : Counts(b)
  BY DEF StatsInv
<1>2. delta \in Stats /\ pending_deltas \in Seq(Stats)
  BY DEF StatsInv, StatsTyped, StatsTypeOK
<1>3. ~Lost
  BY DEF Lost, Flushing
<1>4. ASSUME ~fallback PROVE Leads(b, pending_deltas, delta', Count(session', Outer))
  <2>1. Leads(b, pending_deltas, delta, Count(session, Outer))
    BY <1>1, <1>3, <1>4 DEF Counts
  <2> QED
    BY <1>2, <2>1, LeadsOn
<1>5. Counts(b)'
  BY <1>1, <1>4 DEF Counts, Lost, Flushing, cache_vars
<1> QED
  BY <1>5

LEMMA DeleteCounts ==
    ASSUME StatsAssumption, StatsInv, NEW p \in Path, Delete(p)
    PROVE  (\E b \in Stats : Counts(b))'
<1>1. StatsTypeOK
  BY DEF StatsInv, StatsTyped
<1>2. session \in Rows /\ session[p] \in Row /\ delta \in Stats
  BY <1>1, RowsType DEF Delete, Rows, StatsTypeOK
<1>3. session' = [session EXCEPT ![p] = NoRow]
  BY DEF Delete
<1>4. \E c \in Stats : delta' = Plus(delta, c) /\ Count(session', Outer) = Plus(Count(session, Outer), c)
  <2>1. CASE p \in Inner
    <3>1. Count(session', Outer) = Count(session, Outer)
      BY <1>2, <1>3, <2>1, CountChanged
    <3>2. Count(session, Outer) \in Stats
      BY <1>1, RowsType, CountType
    <3> QED
      BY <1>2, <2>1, <3>1, <3>2, NoDeltaAddsNothing DEF Delete
  <2>2. CASE p \notin Inner
    <3>1. p \in Outer
      BY <2>2 DEF Path
    <3>2. PICK rest \in Stats :
            /\ Count(session, Outer) = Plus(rest, One(session[p], 1))
            /\ Count(session', Outer) = Plus(rest, NoDelta)
      <4>1. session[p] # NoRow
        BY DEF Delete
      <4>2. PICK rest \in Stats :
              /\ Count(session, Outer)
                   = Plus(rest, IF session[p] = NoRow THEN NoDelta ELSE One(session[p], 1))
              /\ Count([session EXCEPT ![p] = NoRow], Outer)
                   = Plus(rest, IF NoRow = NoRow THEN NoDelta ELSE One(NoRow, 1))
        BY <1>2, <3>1, CountChanged
      <4> QED
        BY <1>3, <4>1, <4>2
    <3>3. One(session[p], -1) \in Stats
      BY <1>2, OneType
    <3>4. Count(session', Outer) = Plus(Count(session, Outer), One(session[p], -1))
      BY <1>2, <3>2, Counted2, NoDeltaAddsNothing
    <3> QED
      BY <2>2, <3>3, <3>4 DEF Delete
  <2> QED
    BY <2>1, <2>2
<1> QED
  BY <1>4, WriteCounts DEF Delete

LEMMA UpsertCounts ==
    ASSUME StatsAssumption, StatsInv, NEW p \in Path, NEW row \in Row, row # NoRow, Upsert(p, row)
    PROVE  (\E b \in Stats : Counts(b))'
<1>1. StatsTypeOK
  BY DEF StatsInv, StatsTyped
<1>2. session \in Rows /\ session[p] \in Row \cup {NoRow} /\ delta \in Stats
  BY <1>1, RowsType DEF Rows, StatsTypeOK
<1>3. session' = [session EXCEPT ![p] = row] /\ delta' = Counted(p, session[p], row)
  BY DEF Upsert
<1>4. \E c \in Stats : delta' = Plus(delta, c) /\ Count(session', Outer) = Plus(Count(session, Outer), c)
  <2>1. CASE p \in Inner
    <3>1. Count(session', Outer) = Count(session, Outer)
      BY <1>2, <1>3, <2>1, CountChanged
    <3>2. Count(session, Outer) \in Stats
      BY <1>1, RowsType, CountType
    <3> QED
      BY <1>2, <1>3, <2>1, <3>1, <3>2, NoDeltaAddsNothing DEF Counted
  <2>2. CASE p \notin Inner
    <3>1. p \in Outer
      BY <2>2 DEF Path
    <3>2. PICK rest \in Stats :
            /\ Count(session, Outer) = Plus(rest, IF session[p] = NoRow THEN NoDelta ELSE One(session[p], 1))
            /\ Count(session', Outer) = Plus(rest, One(row, 1))
      <4>1. PICK rest \in Stats :
              /\ Count(session, Outer)
                   = Plus(rest, IF session[p] = NoRow THEN NoDelta ELSE One(session[p], 1))
              /\ Count([session EXCEPT ![p] = row], Outer)
                   = Plus(rest, IF row = NoRow THEN NoDelta ELSE One(row, 1))
        BY <1>2, <3>1, CountChanged
      <4> QED
        BY <1>3, <4>1
    <3>3. One(row, 1) \in Stats
      BY OneType
    <3>4. CASE session[p] = NoRow
      <4>1. Count(session', Outer) = Plus(Count(session, Outer), One(row, 1))
        BY <3>2, <3>4, NoDeltaAddsNothing
      <4>2. delta' = Plus(delta, One(row, 1))
        BY <1>3, <2>2, <3>4 DEF Counted
      <4> QED
        BY <3>3, <4>1, <4>2
    <3>5. CASE session[p] # NoRow
      <4> DEFINE old == session[p]
                 c == Plus(One(old, -1), One(row, 1))
      <4>1. old \in Row
        BY <1>2, <3>5
      <4> HIDE DEF old
      <4>2. One(old, -1) \in Stats /\ One(old, 1) \in Stats
        BY <4>1, OneType
      <4>3. c \in Stats
        BY <3>3, <4>2, PlusType
      <4>4. delta' = Plus(delta, c)
        <5>1. delta' = Plus(Plus(delta, One(old, -1)), One(row, 1))
          BY <1>3, <2>2, <3>5 DEF Counted, old
        <5> QED
          BY <1>2, <3>3, <4>2, <5>1, PlusAssociates
      <4>5. Count(session', Outer) = Plus(Count(session, Outer), c)
        <5>1. Count(session, Outer) = Plus(rest, One(old, 1))
          BY <3>2, <3>5 DEF old
        <5>2. Plus(rest, One(old, 1)) \in Stats
          BY <4>2, PlusType
        <5>3. Plus(Plus(rest, One(old, 1)), c) = Plus(Plus(Plus(rest, One(old, 1)), One(old, -1)), One(row, 1))
          BY <3>3, <4>2, <5>2, PlusAssociates
        <5> QED
          BY <3>2, <4>1, <5>1, <5>3, Counted2
      <4> QED
        BY <4>3, <4>4, <4>5
    <3> QED
      BY <3>4, <3>5
  <2> QED
    BY <2>1, <2>2
<1> QED
  BY <1>4, WriteCounts DEF Upsert

LEMMA FallbackCounts ==
    ASSUME StatsInv, NEW p \in Outer, NEW row \in Row, Fallback(p, row)
    PROVE  (\E b \in Stats : Counts(b))'
<1>1. PICK b \in Stats : Counts(b)
  BY DEF StatsInv
<1>2. Counts(b)'
  BY <1>1 DEF Fallback, Counts, Lost, Flushing, cache_vars
<1> QED
  BY <1>2

LEMMA CommitCounts ==
    ASSUME StatsInv, Commit
    PROVE  (\E b \in Stats : Counts(b))'
<1>1. PICK b \in Stats : Counts(b)
  BY DEF StatsInv
<1>2. ~Lost /\ pc' \in Flushing
  BY DEF Commit, Lost, Flushing
<1>3. CASE fallback
  <2>1. \A r \in Rebuilders : snapshot'[r] # NoSnapshot => snapshot'[r].spoiled
    BY <1>3, SpoilType DEF StatsInv, Commit
  <2>2. drifted' /\ Lost'
    BY <1>2, <1>3, <2>1 DEF Commit, Lost
  <2>3. Counts(b)'
    BY <1>2, <2>1, <2>2 DEF Counts
  <2> QED
    BY <2>3
<1>4. CASE ~fallback
  <2>1. Leads(b, pending_deltas, delta, Count(session, Outer))
    BY <1>1, <1>2, <1>4 DEF Counts
  <2>2. Counts(b)'
    BY <1>1, <1>2, <1>4, <2>1 DEF Commit, Counts
  <2> QED
    BY <2>2
<1> QED
  BY <1>3, <1>4

\* A flush moves the base on by the deltas, or loses them for good.
LEMMA FlushCounts ==
    ASSUME StatsAssumption, StatsInv, Flush
    PROVE  (\E b \in Stats : Counts(b))'
<1>1. PICK b \in Stats : Counts(b)
  BY DEF StatsInv
<1>2. /\ StatsTypeOK /\ StatsTyped /\ ~fallback /\ rows = session
      /\ pc = "flush" => delta = NoDelta
      /\ delta \in Stats /\ members \in Stats /\ pending_deltas \in Seq(Stats)
      /\ NonNegative(members) /\ stats_cache \in Stats /\ NonNegative(stats_cache)
  BY DEF StatsInv, StatsTyped, StatsTypeOK, Worked, Flush, Flushing, NonNegative
<1> DEFINE t == Count(session, Outer)
<1>3. t \in Stats /\ NonNegative(t)
  BY <1>2, RowsType, CountType
<1>4. /\ pending_deltas' = <<>> /\ pc' \notin Flushing /\ delta' = delta /\ members' = members
      /\ rows' = rows /\ session' = session /\ drifted' = drifted
      /\ partial' = (pc = "flush_part")
      /\ stats_cache' = FoldLeft(ApplyDelta, stats_cache, pending_deltas)
  BY DEF Flush, Drained, Flushing
<1> HIDE DEF t
\* What remains to be shown of the base that the next transaction starts from.
<1>5. ASSUME NEW e \in Stats, Plus(e, delta) = t,
             ~drifted => stats_cache' = Plus(e, members),
             \A r \in Rebuilders : snapshot'[r] # NoSnapshot /\ ~snapshot'[r].spoiled =>
               snapshot'[r].stats = Plus(e, snapshot'[r].members)
      PROVE  (\E x \in Stats : Counts(x))'
  <2>1. Leads(e, pending_deltas', delta', t)
    BY <1>4, <1>5, LeadsEmpty
  <2>2. ~partial' => e = t
    BY <1>2, <1>5, NoDeltaAddsNothing DEF Flush
  <2>3. Counts(e)'
    BY <1>2, <1>4, <1>5, <2>1, <2>2 DEF Counts, t
  <2> QED
    BY <2>3
<1>6. \A r \in Rebuilders : snapshot'[r] # NoSnapshot /\ ~snapshot'[r].spoiled =>
        snapshot[r] # NoSnapshot /\ snapshot'[r] = snapshot[r] /\ ~snapshot[r].spoiled
        /\ pending_deltas = <<>>
  BY <1>2, SpoilType DEF Flush
<1>7. CASE Lost
  <2>1. PICK e \in Stats : Plus(e, delta) = t
    <3> DEFINE Minus == [files |-> t.files - delta.files, size |-> t.size - delta.size,
                         kinds |-> [k \in Kinds |-> t.kinds[k] - delta.kinds[k]]]
    <3>1. Minus \in Stats /\ Plus(Minus, delta) = t
      BY <1>2, <1>3 DEF Stats, Plus
    <3> QED
      BY <3>1
  <2>2. drifted /\ \A r \in Rebuilders : snapshot'[r] # NoSnapshot => snapshot'[r].spoiled
    BY <1>6, <1>7 DEF Lost
  <2> QED
    BY <1>5, <2>1, <2>2
<1>8. CASE ~Lost
  <2>1. Leads(b, pending_deltas, delta, t)
    BY <1>1, <1>2, <1>8 DEF Counts, t
  <2>2. CASE drifted
    <3>1. PICK e \in Stats : Plus(e, delta) = t /\ (pending_deltas = <<>> => e = b)
      <4>1. PICK f \in [0..Len(pending_deltas) -> Stats] :
              f[0] = b /\ Plus(f[Len(pending_deltas)], delta) = t
        BY <2>1 DEF Leads
      <4>2. Len(pending_deltas) \in 0..Len(pending_deltas)
        BY <1>2
      <4> QED
        BY <4>1, <4>2
    <3>2. \A r \in Rebuilders : snapshot'[r] # NoSnapshot /\ ~snapshot'[r].spoiled =>
            snapshot'[r].stats = Plus(e, snapshot'[r].members)
      BY <1>1, <1>6, <3>1 DEF Counts
    <3> QED
      BY <1>5, <2>2, <3>1, <3>2
  <2>3. CASE ~drifted
    <3>1. stats_cache = Plus(b, members)
      BY <1>1, <2>3 DEF Counts
    <3>2. PICK e \in Stats :
            /\ FoldLeft(ApplyDelta, Plus(b, members), pending_deltas) = Plus(e, members)
            /\ Plus(e, delta) = t
            /\ pending_deltas = <<>> => e = b
      BY <1>2, <2>1, <3>1, LeadsApplied
    <3>3. \A r \in Rebuilders : snapshot'[r] # NoSnapshot /\ ~snapshot'[r].spoiled =>
            snapshot'[r].stats = Plus(e, snapshot'[r].members)
      BY <1>1, <1>6, <3>2 DEF Counts
    <3>4. stats_cache' = Plus(e, members)
      BY <1>4, <3>1, <3>2
    <3> QED
      BY <1>5, <3>2, <3>3, <3>4
  <2> QED
    BY <2>2, <2>3
<1> QED
  BY <1>7, <1>8

\* After an abort the committed rows are counted, or the cache has drifted.
LEMMA AbortCounts ==
    ASSUME StatsAssumption, StatsInv, StatsTyped', Abort
    PROVE  (\E b \in Stats : Counts(b))'
<1>1. PICK b \in Stats : Counts(b)
  BY DEF StatsInv
<1>2. CASE partial
  <2>1. \A r \in Rebuilders : snapshot'[r] # NoSnapshot => snapshot'[r].spoiled
    BY <1>2, SpoilType DEF StatsInv, Abort
  <2>2. /\ StatsTypeOK' /\ drifted' /\ session' = rows' /\ pending_deltas' = <<>> /\ delta' = NoDelta
        /\ ~partial' /\ ~fallback' /\ pc' = "idle"
    BY <1>2 DEF Abort, StatsTyped
  <2>3. PICK e \in Stats : e = Count(rows', Outer)
    BY <2>2, CountType DEF StatsTypeOK, Rows, Path
  <2>4. Leads(e, <<>>, NoDelta, e)
    <3>1. Leads(e, <<>>, NoDelta, Plus(e, NoDelta)) /\ Plus(e, NoDelta) = e
      BY <2>3, LeadsEmpty, NoDeltaAddsNothing
    <3> QED
      BY <3>1
  <2>5. Counts(e)'
    BY <2>1, <2>2, <2>3, <2>4 DEF Counts
  <2> QED
    BY <2>5
<1>3. CASE ~partial
  <2>1. b = Count(rows, Outer)
    BY <1>1, <1>3 DEF Counts, Abort, Flushing
  <2>2. Leads(b, <<>>, NoDelta, b)
    <3>1. Leads(b, <<>>, NoDelta, Plus(b, NoDelta)) /\ Plus(b, NoDelta) = b
      BY LeadsEmpty, NoDeltaAddsNothing
    <3> QED
      BY <3>1
  <2>3. Counts(b)'
    BY <1>1, <1>3, <2>1, <2>2 DEF Abort, Counts
  <2> QED
    BY <2>3
<1> QED
  BY <1>2, <1>3

LEMMA CrashCounts ==
    ASSUME StatsAssumption, StatsInv, Crash
    PROVE  (\E b \in Stats : Counts(b))'
<1>1. PICK e \in Stats : e = Count(rows', Outer)
  <2>1. rows' = rows
    BY DEF Crash
  <2> QED
    BY <2>1, CountType, RowsType DEF StatsInv, StatsTyped
<1>2. Leads(e, <<>>, NoDelta, e)
  <2>1. Leads(e, <<>>, NoDelta, Plus(e, NoDelta)) /\ Plus(e, NoDelta) = e
    BY <1>1, LeadsEmpty, NoDeltaAddsNothing
  <2> QED
    BY <2>1
<1>3. /\ drifted' /\ session' = rows' /\ pending_deltas' = <<>> /\ delta' = NoDelta
      /\ \A r \in Rebuilders : snapshot'[r] = NoSnapshot
  BY DEF Crash
<1>4. Counts(e)'
  BY <1>1, <1>2, <1>3 DEF Counts
<1> QED
  BY <1>4

LEMMA ReadStatsCounts ==
    ASSUME StatsAssumption, StatsInv, NEW r \in Rebuilders, ReadStats(r)
    PROVE  (\E b \in Stats : Counts(b))'
<1>1. PICK b \in Stats : Counts(b)
  BY DEF StatsInv
<1>2. StatsTypeOK /\ snapshot \in [Rebuilders -> {NoSnapshot} \cup Snapshots]
  BY DEF StatsInv, StatsTyped
<1> DEFINE s == [phase |-> "read", stats |-> Count(rows, Path), members |-> Count(rows, Inner),
                 spoiled |-> pc \in {"flush", "flush_part"} \/ partial]
<1> DEFINE none == [phase |-> "read", stats |-> Empty, members |-> Empty, spoiled |-> TRUE]
<1>3. /\ snapshot' = [snapshot EXCEPT ![r] = s] \/ snapshot' = [snapshot EXCEPT ![r] = none]
      /\ snapshot[r] = NoSnapshot
      /\ s.stats = Count(rows, Path) /\ s.members = Count(rows, Inner)
      /\ s.spoiled <=> pc \in Flushing \/ partial
      /\ none.spoiled
  BY DEF ReadStats, Flushing
<1>4. s # NoSnapshot
  BY DEF NoSnapshot
<1>5. Count(rows, Path) = Plus(Count(rows, Outer), Count(rows, Inner))
  BY <1>2, RowsType, CountUnion DEF Path, StatsAssumption
<1>6. UNCHANGED <<rows, session, pc, delta, pending_deltas, partial, fallback,
                  stats_cache, drifted, members>>
  BY DEF ReadStats, db_vars, cache_vars
<1> HIDE DEF s, none
<1>7. (snapshot'[r] = s \/ snapshot'[r] = none) /\ \A x \in Rebuilders : x # r => snapshot'[x] = snapshot[x]
  BY <1>2, <1>3
<1>8. \A x \in Rebuilders : snapshot'[x] # NoSnapshot /\ ~snapshot'[x].spoiled =>
        snapshot'[x].stats = Plus(b, snapshot'[x].members)
  BY <1>1, <1>3, <1>5, <1>7 DEF Counts
<1>9. Lost => Lost'
  BY <1>3, <1>6, <1>7 DEF Lost
<1>10. Counts(b)'
  <2>1. ~fallback' /\ ~Lost' => Leads(b, pending_deltas, delta, Count(session, Outer))'
    BY <1>1, <1>6, <1>9 DEF Counts
  <2>2. (~drifted => stats_cache = Plus(b, members))'
    BY <1>1, <1>6 DEF Counts
  <2>3. (pc \notin Flushing /\ ~partial => b = Count(rows, Outer))'
    BY <1>1, <1>6 DEF Counts
  <2> QED
    BY <1>8, <2>1, <2>2, <2>3 DEF Counts
<1> QED
  BY <1>10

\* A rebuild brings the base back that its query saw, unless it was spoiled.
LEMMA WriteStatsCounts ==
    ASSUME StatsInv, NEW r \in Rebuilders, WriteStats(r)
    PROVE  (\E b \in Stats : Counts(b))'
<1>1. PICK b \in Stats : Counts(b)
  BY DEF StatsInv
<1>2. snapshot \in [Rebuilders -> {NoSnapshot} \cup Snapshots]
  BY DEF StatsInv, StatsTyped
<1>3. /\ snapshot[r] # NoSnapshot
      /\ stats_cache' = snapshot[r].stats /\ members' = snapshot[r].members
      /\ drifted' = snapshot[r].spoiled
      /\ snapshot' = [snapshot EXCEPT ![r] = NoSnapshot]
      /\ UNCHANGED <<rows, session, pc, delta, pending_deltas, partial, fallback>>
  BY DEF WriteStats, Rebuilt, db_vars
<1>4. snapshot'[r] = NoSnapshot /\ \A x \in Rebuilders : x # r => snapshot'[x] = snapshot[x]
  BY <1>2, <1>3
<1>5. Lost => Lost'
  BY <1>3, <1>4 DEF Lost
<1>6. Counts(b)'
  <2>1. ~fallback' /\ ~Lost' => Leads(b, pending_deltas, delta, Count(session, Outer))'
    BY <1>1, <1>3, <1>5 DEF Counts
  <2>2. (~drifted => stats_cache = Plus(b, members))'
    BY <1>1, <1>3 DEF Counts
  <2>3. (pc \notin Flushing /\ ~partial => b = Count(rows, Outer))'
    BY <1>1, <1>3 DEF Counts
  <2>4. \A x \in Rebuilders : snapshot'[x] # NoSnapshot /\ ~snapshot'[x].spoiled =>
          snapshot'[x].stats = Plus(b, snapshot'[x].members)
    BY <1>1, <1>4 DEF Counts
  <2> QED
    BY <2>1, <2>2, <2>3, <2>4 DEF Counts
<1> QED
  BY <1>6

LEMMA StatsInvInit ==
    ASSUME StatsAssumption, StatsInit
    PROVE  StatsInv
<1>1. StatsTyped
  BY StatsTypedInit
<1>2. Worked
  BY DEF StatsInit, Worked, Flushing
<1>3. Count(rows, Outer) = NoDelta
  <2>1. Held(rows, Outer) = {} /\ \A k \in Kinds : HeldOf(rows, Outer, k) = {}
    BY DEF StatsInit, Held, HeldOf, Path
  <2>2. Cardinality({}) = 0 /\ SizeSum(rows, {}) = 0
    BY FS_EmptySet, SizeSumEmpty
  <2> QED
    BY <2>1, <2>2, CountIs DEF NoDelta
<1>4. Leads(NoDelta, <<>>, NoDelta, NoDelta) /\ Plus(NoDelta, Empty) = Empty
  <2>1. Leads(NoDelta, <<>>, NoDelta, Plus(NoDelta, NoDelta)) /\ Plus(NoDelta, NoDelta) = NoDelta
    BY LeadsEmpty, NoDeltaAddsNothing
  <2> QED
    BY <2>1 DEF Empty
<1>5. Counts(NoDelta)
  BY <1>3, <1>4 DEF StatsInit, Counts
<1> QED
  BY <1>1, <1>2, <1>5, EmptyType DEF StatsInv

LEMMA StatsInvNext ==
    ASSUME StatsAssumption, StatsInv, [StatsNext]_statsVars
    PROVE  StatsInv'
<1>1. StatsTyped'
  BY StatsTypedNext DEF StatsInv
<1>2. Worked'
  BY WorkedNext DEF StatsInv, StatsTyped
<1>3. (\E b \in Stats : Counts(b))'
  <2>1. CASE Worker
    BY <1>1, <2>1, ReceiveCounts, RequestDoneCounts, CommitCounts, FlushCounts, AbortCounts,
       DeleteCounts, UpsertCounts, FallbackCounts DEF Worker, StatsAssumption
  <2>2. CASE Crash
    BY <2>2, CrashCounts
  <2>3. ASSUME NEW r \in Rebuilders, ReadStats(r) \/ WriteStats(r)
        PROVE  (\E b \in Stats : Counts(b))'
    BY <2>3, ReadStatsCounts, WriteStatsCounts
  <2>4. CASE Stream \/ UNCHANGED statsVars
    <3>1. PICK b \in Stats : Counts(b)
      BY DEF StatsInv
    <3>2. Counts(b)'
      BY <2>4, <3>1 DEF Stream, statsVars, db_vars, cache_vars, Counts, Lost
    <3> QED
      BY <3>2
  <2> QED
    BY <2>1, <2>2, <2>3, <2>4 DEF StatsNext
<1> QED
  BY <1>1, <1>2, <1>3 DEF StatsInv

\* Type correctness of the cache: rows, deltas, entries and snapshots keep their
\* form, and the cached totals are never negative (apply_delta).
THEOREM StatsTypeCorrect == StatsSpec => []StatsTypeOK
<1>1. StatsInit => StatsTyped
  BY StatsAssumption, StatsTypedInit
<1>2. StatsTyped /\ [StatsNext]_statsVars => StatsTyped'
  BY StatsAssumption, StatsTypedNext
<1>3. StatsTyped => StatsTypeOK
  BY DEF StatsTyped
<1> QED
  BY <1>1, <1>2, <1>3, PTL DEF StatsSpec

\* However requests, group commits, failures and rebuilds interleave: while the
\* worker is idle and nothing has drifted, the cache is the outer files of the
\* database and the members the last rebuild counted (flush_committed, abort,
\* full_rebuild).
THEOREM CacheAccurate == StatsSpec => []Accurate
<1>1. StatsInit => StatsInv
  BY StatsAssumption, StatsInvInit
<1>2. StatsInv /\ [StatsNext]_statsVars => StatsInv'
  BY StatsAssumption, StatsInvNext
<1>3. StatsInv => Accurate
  BY DEF StatsInv, Worked, Counts, Accurate, Flushing
<1> QED
  BY <1>1, <1>2, <1>3, PTL DEF StatsSpec

=============================================================================
