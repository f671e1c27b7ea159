---------------------------- MODULE AccessTokens ----------------------------
(***************************************************************************)
(* Access tokens: an admin creates invites, a client redeems one for a     *)
(* token, requests present the token, the admin revokes it.  tokens.db is  *)
(* behind one mutex (TokenStore.conn) and the resolve cache behind another *)
(* one, so a resolve is up to three steps (the look into the cache, the    *)
(* lookup in the database, the insertion into the cache) and a revocation  *)
(* two.  A redeem is three: the rate limiter is asked before and told      *)
(* after the transaction.                                                  *)
(*                                                                         *)
(* Time is relative: what has a deadline carries the ticks it has left,    *)
(* what has a date the ticks since.  A code and the token minted for it    *)
(* are the number of the invite: both are random and never reused.         *)
(* Hashing, scopes and last_used_at are left out.  The root and the        *)
(* internal token are compared in memory and never reach the store.        *)
(***************************************************************************)
EXTENDS Integers, FiniteSets

CONSTANTS
    Names,              \* token names an admin gives
    Callers,            \* requests in flight
    Ips,                \* peers redeem requests come from
    INVITE_TTL,
    Lifetimes,          \* token_ttl_secs an admin may give
    Forever,            \* the lifetime of a token without expiry
    CACHE_TTL,
    REDEEM_WINDOW,
    REDEEM_PER_IP_MAX,
    REDEEM_GLOBAL_MAX,
    REDEEM_PRUNE_AT,
    MaxInvites,         \* bound: invites created
    MaxLag              \* bound: ticks a resolve takes

ASSUME TokenAssumption ==
    /\ IsFiniteSet(Callers) /\ IsFiniteSet(Ips)
    /\ Forever \in Nat /\ Lifetimes \subseteq 1..Forever
    /\ INVITE_TTL \in Nat /\ INVITE_TTL < Forever
    /\ CACHE_TTL \in Nat \ {0} /\ REDEEM_WINDOW \in Nat \ {0}
    /\ REDEEM_PER_IP_MAX \in Nat \ {0} /\ REDEEM_GLOBAL_MAX \in Nat \ {0}
    /\ REDEEM_PRUNE_AT \in Nat
    /\ MaxInvites \in Nat /\ MaxLag \in Nat

Invites == 1..MaxInvites
Unknown == 0            \* a code no invite has

VARIABLES
    invites,    \* rows of invites: number, name, ttl of the token, ticks left
    tokens,     \* rows of tokens: number, name, ticks left
    created,    \* how many invites there have been
    minted,     \* the invites that have been redeemed
    cache,      \* TokenStore.cache: per token its name, ticks left, ticks since
    per_ip,     \* RedeemLimiter.per_ip: failures and ticks since the first
    global,     \* RedeemLimiter.global
    req         \* the request of each caller

store == <<invites, tokens, created, minted>>
limiter == <<per_ip, global>>
vars == <<store, cache, limiter, req>>

-----------------------------------------------------------------------------
\* A deadline seen by a caller that read the clock d ticks ago.
Unexpired(r, d) == r.left = Forever \/ r.left + d > 0

NoEntry == [name |-> "none", left |-> 0, age |-> CACHE_TTL]
CacheEntry(r) == [name |-> r.name, left |-> r.left, age |-> 0]
Fresh(e, d) == e.age < CACHE_TTL /\ Unexpired(e, d)

\* auth.rs live: the failures of a window that still count.
NoFailures == [n |-> 0, age |-> REDEEM_WINDOW]
Failures(e) == IF e.age < REDEEM_WINDOW THEN e.n ELSE 0
Bump(e) == [n |-> Failures(e) + 1, age |-> IF Failures(e) > 0 THEN e.age ELSE 0]

Idle == [pc |-> "Idle"]

Requests ==
    {Idle}
    \cup [pc : {"Forget"}, name : Names]
    \cup [pc : {"Lookup"}, token : Invites, ago : Nat]
    \cup [pc : {"Insert"}, token : Invites, ago : Nat,
          entry : [name : Names \cup {"none"}, left : Int, age : 0..CACHE_TTL]]
    \cup [pc : {"Redeem", "Failed"}, ip : Ips, code : Nat]

TypeOK ==
    /\ created \in 0..MaxInvites
    /\ minted \subseteq Nat
    /\ invites \subseteq [id : Nat, name : Names, ttl : Lifetimes, left : Int]
    /\ tokens \subseteq [id : Nat, name : Names, left : Int]
    /\ cache \in [Invites -> [name : Names \cup {"none"}, left : Int, age : 0..CACHE_TTL]]
    /\ per_ip \in [Ips -> [n : Nat, age : 0..REDEEM_WINDOW]]
    /\ global \in [n : Nat, age : 0..REDEEM_WINDOW]
    /\ req \in [Callers -> Requests]

Init ==
    /\ invites = {}
    /\ tokens = {}
    /\ created = 0
    /\ minted = {}
    /\ cache = [s \in Invites |-> NoEntry]
    /\ per_ip = [i \in Ips |-> NoFailures]
    /\ global = NoFailures
    /\ req = [c \in Callers |-> Idle]

Begin(c, r) == req[c] = Idle /\ req' = [req EXCEPT ![c] = r]
Goto(c, pc) == req' = [req EXCEPT ![c].pc = pc]
Return(c) == req' = [req EXCEPT ![c] = Idle]

-----------------------------------------------------------------------------
(* The admin.                                                               *)

Pending == {i \in invites : i.left > 0}

\* Mutant of NameTaken: only pending invites are looked at.
NameTakenByInvite(n) == \E i \in Pending : i.name = n

NameTaken(n) == \E r \in Pending \cup tokens : r.name = n

\* create_invite: expired invites are deleted before the name is looked up.
CreateInvite(n, life) ==
    /\ created < MaxInvites
    /\ ~NameTaken(n)
    /\ created' = created + 1
    /\ invites' = Pending \cup
           {[id |-> created + 1, name |-> n, ttl |-> life, left |-> INVITE_TTL]}
    /\ UNCHANGED <<tokens, minted, cache, limiter, req>>

\* list_invites, and a create_invite whose name is taken.
DeleteExpired ==
    /\ invites' = Pending
    /\ UNCHANGED <<tokens, created, minted, cache, limiter, req>>

RevokeInvite(i) ==
    /\ invites' = invites \ {i}
    /\ UNCHANGED <<tokens, created, minted, cache, limiter, req>>

\* revoke_token deletes the row under one mutex, the cached resolutions of
\* that name under the other.
RevokeToken(c, r) ==
    /\ Begin(c, [pc |-> "Forget", name |-> r.name])
    /\ tokens' = tokens \ {r}
    /\ UNCHANGED <<invites, created, minted, cache, limiter>>

Forget(c) ==
    /\ req[c].pc = "Forget"
    /\ cache' = [s \in Invites |->
                    IF cache[s].name = req[c].name THEN NoEntry ELSE cache[s]]
    /\ Return(c)
    /\ UNCHANGED <<store, limiter>>

-----------------------------------------------------------------------------
(* A request that presents a token: TokenStore::resolve.                    *)

\* Mutant of Hit: a hit renews the entry.
HitRenews(c, s) ==
    /\ req[c] = Idle
    /\ Fresh(cache[s], 0)
    /\ cache' = [cache EXCEPT ![s].age = 0]
    /\ UNCHANGED <<store, limiter, req>>

Hit(c, s) ==
    /\ req[c] = Idle
    /\ Fresh(cache[s], 0)
    /\ UNCHANGED vars

Miss(c, s) ==
    /\ ~Fresh(cache[s], 0)
    /\ Begin(c, [pc |-> "Lookup", token |-> s, ago |-> 0])
    /\ UNCHANGED <<store, cache, limiter>>

\* An error of SQLite: the request is refused, the cache left as it is.
LookupFails(c) == Return(c) /\ UNCHANGED cache

\* lookup_token; the connection is still locked when a miss is taken out of
\* the cache.
Lookup(c) ==
    /\ req[c].pc = "Lookup"
    /\ \/ \E r \in tokens :
            /\ r.id = req[c].token
            /\ Unexpired(r, req[c].ago)
            /\ req' = [req EXCEPT ![c] =
                   [pc |-> "Insert", token |-> r.id, entry |-> CacheEntry(r), ago |-> @.ago]]
            /\ UNCHANGED cache
       \/ /\ ~\E r \in tokens : r.id = req[c].token /\ Unexpired(r, req[c].ago)
          /\ cache' = [cache EXCEPT ![req[c].token] = NoEntry]
          /\ Return(c)
       \/ LookupFails(c)
    /\ UNCHANGED <<store, limiter>>

\* The entry is dated when it is inserted, not when its row was read.
Insert(c) ==
    /\ req[c].pc = "Insert"
    /\ cache' = [cache EXCEPT ![req[c].token] = req[c].entry]
    /\ Return(c)
    /\ UNCHANGED <<store, limiter>>

-----------------------------------------------------------------------------
(* A redeem request.                                                        *)

\* Mutant of Allow: only the peer's own failures are looked at.
AllowPerIp(i) == Failures(per_ip[i]) < REDEEM_PER_IP_MAX

Allow(i) ==
    /\ Failures(per_ip[i]) < REDEEM_PER_IP_MAX
    /\ Failures(global) < REDEEM_GLOBAL_MAX

StartRedeem(c, i, code) ==
    /\ Allow(i)
    /\ Begin(c, [pc |-> "Redeem", ip |-> i, code |-> code])
    /\ UNCHANGED <<store, cache, limiter>>

\* NameTaken, or an error of SQLite: the rollback keeps the invite, and the
\* limiter is not told.
RolledBack(c) == Return(c) /\ UNCHANGED <<invites, tokens, minted>>

\* redeem_invite, one IMMEDIATE transaction.  The test for a taken name is
\* part of it.
Redeem(c) ==
    /\ req[c].pc = "Redeem"
    /\ \/ \E i \in Pending :
            /\ i.id = req[c].code
            /\ ~\E r \in tokens : r.name = i.name
            /\ tokens' = tokens \cup {[id |-> i.id, name |-> i.name, left |-> i.ttl]}
            /\ invites' = Pending \ {i}
            /\ minted' = minted \cup {i.id}
            /\ Return(c)
       \/ /\ \A i \in Pending : i.id # req[c].code
          /\ Goto(c, "Failed")
          /\ UNCHANGED <<invites, tokens, minted>>
       \/ RolledBack(c)
    /\ UNCHANGED <<created, cache, limiter>>

\* record_failure, with the pruning of dead entries when there are many.
RecordFailure(c) ==
    /\ req[c].pc = "Failed"
    /\ LET kept == IF Cardinality({i \in Ips : per_ip[i].n > 0}) >= REDEEM_PRUNE_AT
                   THEN [i \in Ips |-> IF Failures(per_ip[i]) > 0 THEN per_ip[i] ELSE NoFailures]
                   ELSE per_ip
       IN per_ip' = [kept EXCEPT ![req[c].ip] = Bump(@)]
    /\ global' = Bump(global)
    /\ Return(c)
    /\ UNCHANGED <<store, cache>>

-----------------------------------------------------------------------------
\* External: one tick of the clocks.
Sooner(r) ==
    IF r.left = Forever \/ r.left = -MaxLag THEN r ELSE [r EXCEPT !.left = @ - 1]
Older(e, cap) == IF e.age = cap THEN e ELSE [e EXCEPT !.age = @ + 1]

Resolving == {c \in Callers : req[c].pc \in {"Lookup", "Insert"}}

Tick ==
    /\ \A c \in Resolving : req[c].ago < MaxLag
    /\ invites' = {Sooner(i) : i \in invites}
    /\ tokens' = {Sooner(r) : r \in tokens}
    /\ cache' = [s \in Invites |-> Older(Sooner(cache[s]), CACHE_TTL)]
    /\ per_ip' = [i \in Ips |-> Older(per_ip[i], REDEEM_WINDOW)]
    /\ global' = Older(global, REDEEM_WINDOW)
    /\ req' = [c \in Callers |->
           CASE req[c].pc = "Lookup" -> [req[c] EXCEPT !.ago = @ + 1]
             [] req[c].pc = "Insert" ->
                  [req[c] EXCEPT !.ago = @ + 1, !.entry = Sooner(@)]
             [] OTHER -> req[c]]
    /\ UNCHANGED <<created, minted>>

Goes(c) == Forget(c) \/ Lookup(c) \/ Insert(c) \/ Redeem(c) \/ RecordFailure(c)

Next ==
    \/ \E n \in Names, life \in Lifetimes : CreateInvite(n, life)
    \/ DeleteExpired
    \/ \E i \in invites : RevokeInvite(i)
    \/ \E c \in Callers :
        \/ \E r \in tokens : RevokeToken(c, r)
        \/ \E s \in 1..created : Hit(c, s) \/ Miss(c, s)
        \/ \E i \in Ips, code \in 0..created : StartRedeem(c, i, code)
        \/ Goes(c)
    \/ Tick

Spec == Init /\ [][Next]_vars

\* A request that has begun is a running task, and clocks run.  Nothing makes
\* an admin or a client begin one.
Fairness == WF_vars(Tick) /\ \A c \in Callers : WF_vars(Goes(c))

FairSpec == Spec /\ Fairness

-----------------------------------------------------------------------------
(* Properties.                                                              *)

\* A name is held once, by a pending invite or by a token, however creations,
\* expiries, redemptions and revocations follow each other: so the collision
\* that redeem_invite answers with NameTaken cannot be reached through the API.
NameHeldOnce ==
    /\ \A i \in Pending, r \in tokens : i.name # r.name
    /\ \A i, j \in Pending : i.name = j.name => i = j
    /\ \A r, q \in tokens : r.name = q.name => r = q

\* The failed redeems of a window stay within the limits although the limiter
\* is asked before the transaction and told after it: the requests in flight
\* are all that can come on top.
FailuresBounded ==
    /\ \A i \in Ips :
        Failures(per_ip[i]) < REDEEM_PER_IP_MAX + Cardinality(Callers)
    /\ Failures(global) < REDEEM_GLOBAL_MAX + Cardinality(Callers)

\* A token whose row is gone stops resolving, for good: the cache and the
\* resolves in flight keep it alive for a while, but not for ever.
Gone(s) == s \in minted /\ \A r \in tokens : r.id # s
Resolves(s) == Fresh(cache[s], 0) \/ \E r \in tokens : r.id = s /\ Unexpired(r, 0)

RevocationTakesEffect == \A s \in Invites : Gone(s) ~> []~Resolves(s)

\* What the comment of TokenStore::revoke_token says instead: 'drop every
\* cached resolution so revocation is immediate'.  It is violated: a resolve
\* that read the row before the revocation inserts it into the cache after it.
RevocationImmediate ==
    \A s \in Invites :
        Gone(s) /\ (\A c \in Callers : req[c].pc # "Forget") => ~Fresh(cache[s], 0)

=============================================================================
