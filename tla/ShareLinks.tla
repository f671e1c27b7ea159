------------------------------ MODULE ShareLinks ------------------------------
(***************************************************************************)
(* Share links: who may read makes a link for a file, its holder reads     *)
(* that file without a token until the link expires.  links.db is written  *)
(* through one connection per request, so the choice of a code and its     *)
(* insertion are two steps; a sweep deletes what has expired.              *)
(*                                                                         *)
(* Time is relative: a link carries the ticks it has left, below zero once *)
(* it has expired.  The files behind the links are FileServing's; the disk *)
(* and the index change under them.                                        *)
(***************************************************************************)
EXTENDS FileServing, FiniteSets

CONSTANTS
    Codes,               \* what gen_code can return
    Targets,             \* what links are asked for: LinkTarget
    Posters,             \* requests that make a link
    Peers,               \* addresses that resolve links
    LinkTtls,            \* expires_in_secs: Never (0), a positive number, or Default
    Default,             \* for a missing or a negative one
    links_ttl_secs,
    Never,               \* ticks left of a link without expiry
    RATE_LIMIT_REQUESTS,
    RATE_LIMIT_WINDOW,
    Unarchived,          \* no archive_path
    Nobody,              \* a poster at rest
    MaxHanded            \* bound: links that have been made

\* The archive path may be split off the path, be part of it, or be there and
\* empty (a request can hold <<>>, which the web UI never sends).
LinkTarget == [path : Seq(Outers \cup UNION {DOMAIN ZipEntries[c] : c \in Contents}),
               archive : {Unarchived} \cup Seq(UNION {DOMAIN ZipEntries[c] : c \in Contents})]

ASSUME LinkAssumption ==
    /\ IsFiniteSet(Codes)
    /\ \A t \in Targets : t.path # <<>>
    /\ LinkTtls \subseteq Nat \cup {Default} /\ Never \in Nat
    /\ \A t \in LinkTtls : t # Default => t < Never
    /\ links_ttl_secs \in 0..(Never - 1)
    /\ RATE_LIMIT_REQUESTS \in Nat \ {0} /\ RATE_LIMIT_WINDOW \in Nat \ {0}
    /\ MaxHanded \in Nat

VARIABLES
    links,      \* the table: code, target, ticks left
    handed,     \* the links whose makers were told of them, until they expire
    posting,    \* each poster's request
    asked,      \* link_rate_limiter: requests of a peer, ticks since the first
    disk,       \* the source's files
    made        \* how many there have been

linkVars == <<links, handed, posting, asked, disk, made>>

LinkInit ==
    /\ links = {} /\ handed = {} /\ made = 0
    /\ posting = [p \in Posters |-> Nobody]
    /\ asked = [p \in Peers |-> [n |-> 0, age |-> RATE_LIMIT_WINDOW]]
    /\ disk \in Disks

LinkExpired(l) == l.left < 0
LiveLinks(rows) == {l \in rows : ~LinkExpired(l)}

LinkTypeOK ==
    /\ \A l \in links \cup handed :
        l.code \in Codes /\ l.target \in Targets /\ l.left \in -1..Never
    /\ made \in 0..MaxHanded /\ disk \in Disks

-----------------------------------------------------------------------------
(* POST /links                                                              *)

\* The clock is read before the blocking part, where links.db is opened.
TicksLeft(ttl) ==
    IF ttl = Default THEN links_ttl_secs
    ELSE IF ttl = 0 THEN Never
    ELSE ttl

PostLink(p, t, ttl) ==
    /\ posting[p] = Nobody /\ made < MaxHanded
    /\ made' = made + 1
    /\ posting' = [posting EXCEPT ![p] = [target |-> t, left |-> TicksLeft(ttl), code |-> {}]]
    /\ UNCHANGED <<links, handed, asked, disk>>

Taken(code) == \E l \in links : l.code = code

\* The loop draws until a code has no row, expired rows included.
ChooseCode(p, code) ==
    /\ posting[p] # Nobody /\ posting[p].code = {}
    /\ ~Taken(code)
    /\ posting' = [posting EXCEPT ![p].code = {code}]
    /\ UNCHANGED <<links, handed, asked, disk, made>>

Minted(p) == {[code |-> c, target |-> posting[p].target, left |-> posting[p].left] :
                  c \in posting[p].code}

\* Mutant of InsertLink: INSERT OR REPLACE.
InsertOrReplace(p) ==
    /\ posting[p] # Nobody /\ posting[p].code # {}
    /\ links' = {l \in links : l.code \notin posting[p].code} \cup Minted(p)
    /\ handed' = handed \cup Minted(p)
    /\ posting' = [posting EXCEPT ![p] = Nobody]
    /\ UNCHANGED <<asked, disk, made>>

\* The code is the primary key: the second of two requests that drew the same
\* one is answered 500 and makes no link.
InsertLink(p) ==
    /\ posting[p] # Nobody /\ posting[p].code # {}
    /\ IF \E c \in posting[p].code : Taken(c)
       THEN UNCHANGED <<links, handed>>
       ELSE links' = links \cup Minted(p) /\ handed' = handed \cup LiveLinks(Minted(p))
    /\ posting' = [posting EXCEPT ![p] = Nobody]
    /\ UNCHANGED <<asked, disk, made>>

-----------------------------------------------------------------------------
(* GET /links/:code, limited per peer; nothing else about it is remembered. *)

InWindow(e) == e.age < RATE_LIMIT_WINDOW
LinkThrottled(peer) == InWindow(asked[peer]) /\ asked[peer].n >= RATE_LIMIT_REQUESTS

Counted(n) == IF n > RATE_LIMIT_REQUESTS THEN n ELSE n + 1

\* The count goes on past the limit; what is above it is all the same.
GetLink(peer) ==
    /\ asked' = [asked EXCEPT ![peer] =
           IF InWindow(@) THEN [@ EXCEPT !.n = Counted(@)] ELSE [n |-> 1, age |-> 0]]
    /\ UNCHANGED <<links, handed, posting, disk, made>>

\* resolve_link
ResolveLink(code) ==
    CASE ~Taken(code) -> "not found"
      [] \E l \in links : l.code = code /\ ~LinkExpired(l) -> "found"
      [] OTHER -> "expired"

\* The hourly task.
SweepExpired ==
    /\ links' = LiveLinks(links)
    /\ UNCHANGED <<handed, posting, asked, disk, made>>

-----------------------------------------------------------------------------
(* Reading with a link.                                                     *)

\* composite_path: an empty archive path counts as none.
CompositePath(t) ==
    IF t.archive \in {Unarchived, <<>>} THEN t.path ELSE t.path \o t.archive

\* check_link_code_auth joins whatever archive path there is: an empty one
\* leaves a "::" at the end, an empty segment.
LinkPath(t) ==
    CASE t.archive = Unarchived -> t.path
      [] t.archive = <<>> -> Append(t.path, "")
      [] OTHER -> t.path \o t.archive

\* 0 for Ok.
CheckLinkCode(code, p) ==
    IF ResolveLink(code) = "not found" THEN 404
    ELSE IF ResolveLink(code) = "expired" THEN 410
    ELSE IF \A l \in links : l.code = code => LinkPath(l.target) # p THEN 403
    ELSE 0

\* get_raw and get_file: a link code is looked at instead of the credentials.
NoLink == {}
Authorised(cred, link, p) ==
    IF link = NoLink THEN CheckScope(cred, "read")
    ELSE CheckLinkCode(CHOOSE c \in link : TRUE, p)

GetRaw(cred, link, p, convert, range) ==
    LET auth == Authorised(cred, link, p)
    IN IF auth # 0 THEN Refused(auth) ELSE ServeRaw(disk, p, convert, range)

\* get_file answers from the index once it is authorised (BlobReads, SearchIndex).
GetFileStatus(cred, link, t) ==
    LET auth == Authorised(cred, link, CompositePath(t))
    IN IF auth # 0 THEN auth ELSE 200

-----------------------------------------------------------------------------
\* External: one tick of the clock.
LinkLater(l) == IF l.left \in {Never, -1} THEN l ELSE [l EXCEPT !.left = @ - 1]

LinkTick ==
    /\ links' = {LinkLater(l) : l \in links}
    /\ handed' = LiveLinks({LinkLater(l) : l \in handed})
    /\ posting' = [p \in Posters |->
           IF posting[p] = Nobody THEN Nobody ELSE LinkLater(posting[p])]
    /\ asked' = [p \in Peers |->
           IF InWindow(asked[p]) THEN [asked[p] EXCEPT !.age = @ + 1] ELSE asked[p]]
    /\ UNCHANGED <<disk, made>>

\* External: the owner of the files changes one.
FileChanges(outer, c) ==
    /\ disk' = [disk EXCEPT ![outer] = c]
    /\ UNCHANGED <<links, handed, posting, asked, made>>

LinkNext ==
    \/ \E p \in Posters :
        \/ \E t \in Targets, ttl \in LinkTtls : PostLink(p, t, ttl)
        \/ \E c \in Codes : ChooseCode(p, c)
        \/ InsertLink(p)
    \/ \E peer \in Peers : GetLink(peer)
    \/ SweepExpired
    \/ LinkTick
    \/ \E o \in DOMAIN disk, c \in OnDisk : FileChanges(o, c)

LinkSpec == LinkInit /\ [][LinkNext]_linkVars

-----------------------------------------------------------------------------
(* Properties.                                                              *)

Holder == [bearer |-> "", cookie |-> ""]

\* Until it expires, the holder of a link gets what a reader with a token gets
\* for the same file, from /raw and from /file: whichever way the path was
\* split when the link was made, whatever other links were made and swept in
\* the meantime, and whatever became of the file; and it opens no other file.  A
\* link made with an empty archive path is left out: it opens nothing (see the
\* README).
LinkGivesWhatMakerSees ==
    \A h \in handed : h.target.archive # <<>> =>
        /\ ResolveLink(h.code) = "found"
        /\ \A maker \in [bearer : DOMAIN TokenScopes, cookie : {""}], convert \in BOOLEAN :
            LET p == CompositePath(h.target)
            IN GetRaw(Holder, {h.code}, p, convert, Malformed)
                 = GetRaw(maker, NoLink, p, convert, Malformed)
        /\ GetFileStatus(Holder, {h.code}, h.target) = 200
        /\ \A t \in Targets :
            CheckLinkCode(h.code, CompositePath(t)) = 0
                => CompositePath(t) = CompositePath(h.target)

=============================================================================
