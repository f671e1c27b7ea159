----------------------------- MODULE FileServing -----------------------------
(***************************************************************************)
(* The routes that serve a source's own files: /raw streams one (whole, a  *)
(* range of it, or as a PNG), /view shows the picture the index says it    *)
(* is.  A composite path names a member of a ZIP.  A DICOM file is drawn   *)
(* by a subprocess, the only part of this module with a state of its own.  *)
(*                                                                         *)
(* A path is the sequence of its segments between the "::"; a disk maps    *)
(* the outer files to what canonicalize and open find there.               *)
(***************************************************************************)
EXTENDS Integers, Sequences

CONSTANTS
    Outers,              \* outer paths, legal or not
    IllegalOuters,       \* with a leading slash, or a component that leaves the root
    Contents,            \* byte contents
    Stored,              \* those a file of the disk may have
    Format,              \* of a content: "jpeg", "tiff", "text", "zip"
    FileSize,                \* of a content
    ZipEntries,          \* of a content: its members' contents, by name
    MAX_MEMBER_BYTES,
    download_zip_member_levels,
    RootToken,           \* the server's root token, "" for an open server
    TokenScopes,         \* of every other token that resolves: its scope
    preview_timeout,     \* ticks of dicom_preview_timeout_secs
    StderrRoom           \* what a pipe holds before its writer waits

OnDisk == Stored \cup {"missing", "outside", "no root"}
Disks == [Outers \ IllegalOuters -> OnDisk]

\* external: the members of a ZIP, and what a member is.
Formats == {"jpeg", "tiff", "text", "zip"}

ASSUME ServingAssumption ==
    /\ IllegalOuters \subseteq Outers /\ Stored \subseteq Contents
    /\ Format \in [Contents -> Formats] /\ FileSize \in [Contents -> Nat]
    /\ \A c \in Contents : \A n \in DOMAIN ZipEntries[c] : ZipEntries[c][n] \in Contents
    /\ MAX_MEMBER_BYTES \in Nat /\ download_zip_member_levels \in Nat
    /\ preview_timeout \in Nat /\ StderrRoom \in Nat

\* A reply: the status, and for a success what is sent as what.
Refused(status) == [status |-> status]
Sent(mime, bytes) == [status |-> 200, mime |-> mime, bytes |-> bytes]

-----------------------------------------------------------------------------
(* Credentials.  "" stands for a header or a cookie that is not there.      *)

Scopes == {"read", "update-index", "admin"}

\* A token that resolves has a scope, and generate_token returns no empty one.
ASSUME CredentialsAssumption ==
    /\ TokenScopes \in [DOMAIN TokenScopes -> Scopes]
    /\ "" \notin DOMAIN TokenScopes

Rank == [s \in Scopes |-> CASE s = "read" -> 0 [] s = "update-index" -> 1 [] s = "admin" -> 2]
Allows(scope, required) == Rank[scope] >= Rank[required]

\* The scope a token resolves to, or "".  On an open server every request is
\* an admin's, whatever it presents.
ResolveToken(token) ==
    IF RootToken = "" THEN "admin"
    ELSE IF token = "" THEN ""
    ELSE IF token = RootToken THEN "admin"
    ELSE IF token \in DOMAIN TokenScopes THEN TokenScopes[token]
    ELSE ""

\* 0 for Ok.  The first credential that resolves wins, even when it is the
\* second that would have sufficed.
CheckScope(cred, required) ==
    LET first == ResolveToken(cred.bearer)
        scope == IF first # "" THEN first ELSE ResolveToken(cred.cookie)
    IN IF scope = "" THEN 401
       ELSE IF ~Allows(scope, required) THEN 403
       ELSE 0

-----------------------------------------------------------------------------
(* Finding the bytes.                                                       *)

\* 0 when the file is there and inside the root.
ResolveSourcePath(disk, outer) ==
    IF outer \in IllegalOuters THEN 400
    ELSE IF disk[outer] \in {"no root", "missing"} THEN 404
    ELSE IF disk[outer] = "outside" THEN 400
    ELSE 0

Found(c) == [status |-> 0, bytes |-> c]

\* One entry read out of an archive.
EntryOf(zip, name) ==
    IF Format[zip] # "zip" THEN Refused(422)
    ELSE IF name \notin DOMAIN ZipEntries[zip] THEN Refused(404)
    ELSE IF FileSize[ZipEntries[zip][name]] > MAX_MEMBER_BYTES THEN Refused(413)
    ELSE Found(ZipEntries[zip][name])

\* A member's bytes: split_composite at the first "::" leaves the rest as the
\* name to look for in the inner ZIP, and no entry has a name with a "::".
MemberOf(zip, member) ==
    LET outer == EntryOf(zip, Head(member))
    IN IF Len(member) = 1 \/ outer.status # 0 THEN outer
       ELSE IF Len(member) = 2 THEN EntryOf(outer.bytes, member[2])
       ELSE IF Format[outer.bytes] # "zip" THEN Refused(422)
       ELSE Refused(404)

\* serve_archive_member looks at the depth between the two tests of the path.
RawMember(disk, p) ==
    IF p[1] \in IllegalOuters THEN Refused(400)
    ELSE IF Len(p) - 1 > download_zip_member_levels THEN Refused(422)
    ELSE IF ResolveSourcePath(disk, p[1]) # 0 THEN Refused(ResolveSourcePath(disk, p[1]))
    ELSE MemberOf(disk[p[1]], Tail(p))

\* What get_view reads: the same, but for the depth.
ViewBytes(disk, p) ==
    IF ResolveSourcePath(disk, p[1]) # 0 THEN Refused(ResolveSourcePath(disk, p[1]))
    ELSE IF Len(p) = 1 THEN Found(disk[p[1]])
    ELSE MemberOf(disk[p[1]], Tail(p))

-----------------------------------------------------------------------------
(* Sending them.                                                            *)

BrowserFormats == {"jpeg"}
Decodable == {"tiff"}

\* A picture a browser shows is sent as what its bytes say it is, another is
\* decoded and sent as PNG.
AsPicture(c) ==
    CASE Format[c] \in BrowserFormats -> Sent(Format[c], c)
      [] Format[c] \in Decodable -> Sent("png", c)
      [] OTHER -> Refused(422)

\* parse_byte_range: no range for a header it does not understand.  An end
\* that is no number counts as none.
Open == -1
Malformed == [start |-> Open, end |-> Open]
ParseByteRange(range) == IF range.start = Open THEN "whole" ELSE "range"

ServeRange(c, range) ==
    LET last == IF FileSize[c] = 0 THEN 0 ELSE FileSize[c] - 1
        end == IF range.end = Open \/ range.end > last THEN last ELSE range.end
    IN IF range.start > end \/ range.start >= FileSize[c]
       THEN Refused(416)
       ELSE [status |-> 206, first |-> range.start, last |-> end,
             length |-> end - range.start + 1]

\* The type of a file that is streamed is guessed from its name.
Guess(name) == <<"type of", name>>

RawFile(disk, p, convert, range) ==
    LET found == ResolveSourcePath(disk, p[1])
    IN IF found # 0 THEN Refused(found)
       ELSE IF convert THEN AsPicture(disk[p[1]])
       ELSE IF ParseByteRange(range) = "range" THEN ServeRange(disk[p[1]], range)
       ELSE Sent(Guess(p[1]), disk[p[1]])

\* get_raw once the request is authorised.
ServeRaw(disk, p, convert, range) ==
    IF Len(p) = 1 THEN RawFile(disk, p, convert, range)
    ELSE LET b == RawMember(disk, p)
         IN IF b.status # 0 THEN b
            ELSE IF convert THEN AsPicture(b.bytes)
            ELSE Sent(Guess(p[Len(p)]), b.bytes)

\* get_raw_path: the token only, the whole file, no members and no picture.
GetRawPath(disk, cred, outer) ==
    IF CheckScope(cred, "read") # 0 THEN Refused(CheckScope(cred, "read"))
    ELSE IF ResolveSourcePath(disk, outer) # 0 THEN Refused(ResolveSourcePath(disk, outer))
    ELSE Sent(Guess(outer), disk[outer])

-----------------------------------------------------------------------------
(* GET /view.  kinds: the indexed kind of a path, "" where there is no row. *)

NoRowFor == ""

\* A picture embedded in an iWork document has no row of its own.
ViewKind(kinds, iworks, p) ==
    LET parent == SubSeq(p, 1, Len(p) - 1)
    IN IF kinds[p] # NoRowFor THEN kinds[p]
       ELSE IF Len(p) > 1 /\ p[Len(p) - 1] \in iworks /\ kinds[parent] # NoRowFor THEN "iwork_preview"
       ELSE NoRowFor

ServeImage(disk, p) ==
    LET b == ViewBytes(disk, p)
    IN IF b.status # 0 THEN b ELSE AsPicture(b.bytes)

\* A DICOM file's path is never split: a member of that kind is not found.
DicomStatus(disk, p) ==
    IF Len(p) > 1 /\ p[1] \notin IllegalOuters THEN 404 ELSE ResolveSourcePath(disk, p[1])

\* All but the drawing of a DICOM file, which is told by the status 0.
GetView(disk, cred, kinds, iworks, p) ==
    LET kind == ViewKind(kinds, iworks, p)
    IN IF CheckScope(cred, "read") # 0 THEN Refused(CheckScope(cred, "read"))
       ELSE IF kind = NoRowFor THEN Refused(404)
       ELSE IF kind \in {"image", "iwork_preview"} THEN ServeImage(disk, p)
       ELSE IF kind = "dicom" THEN Refused(DicomStatus(disk, p))
       ELSE Refused(422)

-----------------------------------------------------------------------------
(* run_preview_binary: the request polls the child until it has exited or   *)
(* the deadline has passed.  Its stdout is drained by a thread, its stderr  *)
(* only after it has exited: a child that fills the pipe waits for ever.    *)

VARIABLES
    preview,    \* "none", "poll", "join" (the thread that drains stdout)
    child,      \* "none", "running", "ok", "failed", "killed"
    stderr,     \* what the child has written to stderr
    left        \* ticks left until the deadline

previewVars == <<preview, child, stderr, left>>

PreviewTypeOK ==
    /\ preview \in {"none", "poll", "join"}
    /\ child \in {"none", "running", "ok", "failed", "killed"}
    /\ stderr \in 0..StderrRoom /\ left \in 0..preview_timeout

PreviewInit == preview = "none" /\ child = "none" /\ stderr = 0 /\ left = 0

SpawnPreview ==
    /\ preview = "none"
    /\ preview' = "poll" /\ child' = "running" /\ stderr' = 0
    /\ left' = preview_timeout

\* try_wait comes first, then the deadline.
\* Mutant of PollPreview: the child is only waited for.
PollNoDeadline ==
    /\ preview = "poll" /\ child # "running"
    /\ preview' = "join"
    /\ UNCHANGED <<child, stderr, left>>

PollPreview ==
    /\ preview = "poll"
    /\ \/ child # "running" /\ UNCHANGED child
       \/ child = "running" /\ left = 0 /\ child' = "killed"
    /\ preview' = "join"
    /\ UNCHANGED <<stderr, left>>

\* The pipe closes with the child, so the thread ends; the request is answered.
JoinPreview ==
    /\ preview = "join"
    /\ preview' = "none" /\ child' = "none" /\ stderr' = 0 /\ left' = 0

PreviewTick == left > 0 /\ left' = left - 1 /\ UNCHANGED <<preview, child, stderr>>

\* external: find-preview-dicom writes warnings, ends one way or the other, or
\* never does.
ChildWrites ==
    /\ child = "running" /\ stderr < StderrRoom
    /\ stderr' = stderr + 1
    /\ UNCHANGED <<preview, child, left>>

ChildExits ==
    /\ child = "running" /\ stderr < StderrRoom
    /\ child' \in {"ok", "failed"}
    /\ UNCHANGED <<preview, stderr, left>>

PreviewNext ==
    SpawnPreview \/ PollPreview \/ JoinPreview \/ PreviewTick \/ ChildWrites \/ ChildExits

\* The request runs and the clock does; nothing makes the child end.
PreviewFairness == WF_previewVars(PollPreview) /\ WF_previewVars(JoinPreview) /\ WF_previewVars(PreviewTick)

-----------------------------------------------------------------------------
\* A request for a preview is answered, even when the child waits for a reader
\* of its stderr that only comes after its exit.
PreviewsEnd == preview = "poll" ~> preview = "none"

=============================================================================
