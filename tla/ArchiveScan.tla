------------------------------ MODULE ArchiveScan ------------------------------
(***************************************************************************)
(* find-scan indexing one archive: the archive is announced with mtime 0,  *)
(* its members arrive from the extractor through a channel, go to the      *)
(* server in batches with the failures met so far, and a last upsert gives *)
(* the archive its mtime.  Members of server_only types are uploaded, and  *)
(* the server extracts them by itself while the scan goes on.              *)
(*                                                                         *)
(* native: the archive subprocess; tempdir: an external extractor that     *)
(* unpacks the archive.  A request clears the errors of the files in it,   *)
(* and then records its failures.                                          *)
(***************************************************************************)
EXTENDS ArchiveExtraction

CONSTANTS
    Tops,             \* archives that can be scanned, and
    External,         \* those of them with an external extractor
    capacity,         \* of the channel
    max_items

\* The name of a member of an earlier version; the versions scanned have none.
Gone == <<"gone">>

ASSUME ArchiveScanAssumption ==
    /\ Tops \subseteq ArchiveIds
    /\ capacity \in Nat \ {0} /\ max_items \in Nat \ {0}
    /\ "gone" \notin EntryNames

OuterPath == <<>>         \* the path of the archive itself

VARIABLES
    archive,          \* the archive that is scanned
    stage,               \* announce, stream, close, submit, done
    sent,             \* batches the extractor has written
    proc,             \* the extractor: running, ok, failed
    channel,
    items, failed,    \* ScanContext.batch and .failures
    uploads,          \* members uploaded and not yet extracted by the server
    requests,         \* the inbox
    listed,           \* the server's rows: path to the lines it has
    outer_mtime,      \* of the archive's row: none, zero, real
    errors            \* indexing_errors

clientVars == <<archive, stage, sent, proc, channel, items, failed>>
serverVars == <<requests, listed, outer_mtime, errors>>
archiveVars == <<clientVars, uploads, serverVars>>

Native == archive \notin External
StreamOf(a) == IF a \notin External THEN Extraction(a) ELSE Unpacked(a)
Out == StreamOf(archive)

\* extract_streaming returns an error.
ExtractionFails(c) == c.corrupt \/ (c.kind = "single" /\ c.entries[1].read # "whole")

\* The rows left by an earlier version of the archive are for the sentinel to
\* take away.
ArchiveInit ==
    /\ archive \in Tops
    /\ stage = "announce" /\ sent = 0 /\ proc = "running" /\ channel = <<>>
    /\ items = <<>> /\ failed = {}
    /\ uploads = {}
    /\ requests = <<>>
    /\ listed = [p \in {Gone} |-> "own"]
    /\ outer_mtime = "real"
    /\ errors = {}

ArchiveItem(p, what) == [path |-> p, lines |-> what]
ArchiveRequest(its, fails) == [items |-> its, failed |-> fails]

\* ScanContext::submit: nothing is sent when there is nothing to send.
Submitted(its, fails) ==
    IF its = <<>> /\ fails = {} THEN requests
    ELSE Append(requests, ArchiveRequest(its, fails))

AnnounceArchive ==
    /\ stage = "announce"
    /\ requests' = Submitted(<<ArchiveItem(OuterPath, "sentinel")>>, failed)
    /\ stage' = "stream"
    /\ UNCHANGED <<archive, sent, proc, channel, items, failed, uploads,
                   listed, outer_mtime, errors>>

\* start_archive_subprocess: a batch per line, as long as there is room.
ExtractMember ==
    /\ stage = "stream" /\ proc = "running" /\ Native
    /\ sent < Len(Out) /\ Len(channel) < capacity
    /\ sent' = sent + 1
    /\ channel' = Append(channel, Out[sent + 1])
    /\ UNCHANGED <<archive, stage, proc, items, failed, uploads, serverVars>>

\* The subprocess ends, at the end of the archive or with an error.
Exit ==
    /\ stage = "stream" /\ proc = "running" /\ Native
    /\ sent = Len(Out)
    /\ proc' = IF ExtractionFails(Contents[archive]) THEN "failed" ELSE "ok"
    /\ UNCHANGED <<archive, stage, sent, channel, items, failed, uploads,
                   serverVars>>

\* It is killed, runs out of memory or cannot be started.
ExtractorDies ==
    /\ stage = "stream" /\ proc = "running" /\ Native
    /\ proc' = "failed"
    /\ UNCHANGED <<archive, stage, sent, channel, items, failed, uploads,
                   serverVars>>

\* run_external_tempdir: all batches at once, or none.
ExtractorEnds(outcome) ==
    /\ stage = "stream" /\ proc = "running" /\ ~Native
    /\ outcome \in {"ok", "failed", "missing"}
    /\ proc' = outcome
    /\ channel' = IF outcome = "ok" THEN Out ELSE <<>>
    /\ UNCHANGED <<archive, stage, sent, items, failed, uploads, serverVars>>

\* maybe_flush: when the batch is full; at any time, when its interval is over.
Push(its, fails, now) ==
    IF its # <<>> /\ (Len(its) >= max_items \/ now)
    THEN /\ requests' = Submitted(its, fails)
         /\ items' = <<>> /\ failed' = {}
    ELSE items' = its /\ failed' = fails /\ UNCHANGED requests

\* One member batch of the channel.  uploaded: whether the upload of a
\* delegated member succeeds.
ReceiveBatch(now, uploaded) ==
    /\ stage = "stream" /\ channel # <<>>
    /\ channel' = Tail(channel)
    /\ LET b == Head(channel)
           reported == Native /\ b.skip_reason
       IN IF b.lines = "none"
          THEN /\ failed' = failed \cup (IF reported THEN {OuterPath} ELSE {})
               /\ UNCHANGED <<items, requests, uploads>>
          ELSE /\ Push(Append(items, ArchiveItem(b.path, b.lines)),
                       failed \cup (IF reported THEN {b.path} ELSE {}), now)
               /\ uploads' = IF b.delegate /\ Native /\ uploaded
                             THEN uploads \cup {b.path} ELSE uploads
    /\ UNCHANGED <<archive, stage, sent, proc, listed, outer_mtime, errors>>

\* The channel is empty and its sender gone: what is left of the members goes
\* out, with the failures.  An external extractor that failed, or is missing,
\* leaves the archive at mtime 0.
FinishArchive ==
    /\ stage = "stream" /\ channel = <<>> /\ proc # "running"
    /\ LET fails == IF proc = "failed" THEN failed \cup {OuterPath} ELSE failed
           complete == Native \/ proc = "ok"
           flush == items # <<>>
       IN /\ requests' = IF flush THEN Submitted(items, fails) ELSE requests
          /\ failed' = IF flush THEN {} ELSE fails
          /\ items' = IF complete THEN <<ArchiveItem(OuterPath, "complete")>> ELSE <<>>
    /\ stage' = "submit"
    /\ UNCHANGED <<archive, sent, proc, channel, uploads, listed, outer_mtime,
                   errors>>

\* The submit that follows the last file of the scan.
CloseArchive ==
    /\ stage = "submit"
    /\ requests' = Submitted(items, failed)
    /\ items' = <<>> /\ failed' = {}
    /\ stage' = "done"
    /\ UNCHANGED <<archive, sent, proc, channel, uploads, listed, outer_mtime,
                   errors>>

\* The server's own find-scan extracts an uploaded member and indexes it under
\* its composite path.
ServerExtract(p) ==
    /\ p \in uploads
    /\ uploads' = uploads \ {p}
    /\ requests' = Append(requests, ArchiveRequest(<<ArchiveItem(p, "own")>>, {}))
    /\ UNCHANGED <<clientVars, listed, outer_mtime, errors>>

-----------------------------------------------------------------------------
(* The server *)

WithItem(rows, item) ==
    CASE item.lines = "sentinel" -> [p \in {} |-> "own"]
      [] item.lines = "complete" -> rows
      [] OTHER -> [p \in DOMAIN rows \cup {item.path} |->
                     IF p = item.path THEN item.lines ELSE rows[p]]

\* Mutant: the failures are recorded first.
CleanupLast(request) ==
    (errors \cup request.failed) \ {request.items[i].path : i \in DOMAIN request.items}

\* do_cleanup_writes: the errors of the files indexed go, then the failures of
\* the same request are recorded.
Cleanup(request) ==
    LET indexed == {request.items[i].path : i \in DOMAIN request.items}
    IN (errors \ indexed) \cup request.failed

Process ==
    /\ requests # <<>>
    /\ LET request == Head(requests)
           kinds == {request.items[i].lines : i \in DOMAIN request.items}
       IN /\ listed' = FoldLeft(WithItem, listed, request.items)
          /\ outer_mtime' = IF "complete" \in kinds THEN "real"
                            ELSE IF "sentinel" \in kinds THEN "zero"
                            ELSE outer_mtime
          /\ errors' = Cleanup(request)
    /\ requests' = Tail(requests)
    /\ UNCHANGED <<clientVars, uploads>>

ArchiveNext ==
    \/ AnnounceArchive \/ ExtractMember \/ Exit \/ ExtractorDies \/ FinishArchive \/ CloseArchive \/ Process
    \/ \E outcome \in {"ok", "failed", "missing"} : ExtractorEnds(outcome)
    \/ \E now, uploaded \in BOOLEAN : ReceiveBatch(now, uploaded)
    \/ \E p \in uploads : ServerExtract(p)

ArchiveSpec == ArchiveInit /\ [][ArchiveNext]_archiveVars

-----------------------------------------------------------------------------
(* Properties *)

Settled == stage = "done" /\ requests = <<>> /\ uploads = {}

\* The members an archive has for a user: reached through entries that are
\* shown and readable, no deeper than max_depth archives in each other.
ShownMembers(a) ==
    LET f[d \in 0..max_depth] ==
          [x \in ArchiveIds |->
             LET c == Contents[x]
                 at(i) == c.entries[i]
                 here == {i \in DOMAIN c.entries :
                            Shown(at(i)) /\ at(i).flags \cap {"dir", "unreadable"} = {}}
                 inner == {i \in here : d > 0 /\ at(i).inner # NoArchive /\ Multifile(at(i).inner)
                             /\ ~("huge" \in at(i).flags /\ Contents[at(i).inner].kind = "7z")
                             /\ at(i).block \notin c.oversized \cup c.tight}
             IN IF c.corrupt THEN {}
                ELSE {<<at(i).name>> : i \in here}
                     \cup UNION {{<<at(i).name>> \o p : p \in f[d - 1][at(i).inner]}
                                   : i \in inner}]
    IN f[max_depth][a]

\* Not a tar with something behind its end, which would be left in the block.
EndsInStep(e) ==
    \/ ~Shown(e) \/ "dir" \in e.flags \/ e.inner = NoArchive
    \/ Contents[e.inner].kind # "tar"
    \/ ~Contents[e.inner].trailing /\ ~Contents[e.inner].corrupt

\* The archives whose members the code finds; section 7 of the README has the
\* others: nothing follows an entry that puts a 7z block out of step or ends
\* it, nothing is hidden in a block that is too large, and what is compressed
\* alone, or shows a preview, is to be shown.
WellPacked(c) ==
    LET at(i) == c.entries[i]
        readable(i) == "unreadable" \notin at(i).flags
        alone(i) == /\ Shown(at(i)) /\ readable(i) /\ "dir" \notin at(i).flags
                    /\ at(i).inner = NoArchive \/ ~Multifile(at(i).inner)
    IN CASE c.kind \in {"zip", "tar"} -> c.oversized = {} /\ c.tight = {}
         [] c.kind = "7z" ->
              /\ c.oversized \cup c.tight \subseteq 1..c.blocks
              /\ \A i \in DOMAIN c.entries :
                   /\ at(i).block \in 0..c.blocks
                   /\ at(i).block = 0 => readable(i)
                   /\ at(i).block \in c.oversized \cup c.tight =>
                        readable(i) /\ ("dir" \in at(i).flags \/ Shown(at(i)))
                   /\ \A j \in DOMAIN c.entries :
                        j > i /\ at(j).block = at(i).block /\ at(i).block # 0 =>
                          readable(i) /\ EndsInStep(at(i))
         [] c.kind = "single" -> DOMAIN c.entries = {1} /\ alone(1)
         [] c.kind = "iwork" ->
              DOMAIN c.entries \subseteq {1}
              /\ \A i \in DOMAIN c.entries : alone(i) /\ at(i).read = "whole"

\* No other member has the name of one whose text could not be read.
NamedOnce(a) ==
    \A i, j \in DOMAIN StreamOf(a) :
      /\ StreamOf(a)[i].skip_reason /\ StreamOf(a)[i].path # OuterPath
      /\ StreamOf(a)[j].path = StreamOf(a)[i].path
      => i = j

\* src/crates/client/src/scan.rs:674-870 with the extractor: when an archive
\* has its mtime and its extractor did not fail, exactly its members can be
\* found, none of an earlier version, and no member has the text of another;
\* an archive whose external extractor failed keeps mtime 0, to be tried again.
MembersListed ==
    Settled =>
      /\ proc = "ok" => /\ outer_mtime = "real"
                        /\ Native => DOMAIN listed = ShownMembers(archive)
                        /\ \A p \in DOMAIN listed : listed[p] # "foreign"
      /\ Gone \notin DOMAIN listed
      /\ ~Native /\ proc # "ok" => outer_mtime = "zero" /\ listed = <<>>

\* scan.rs:748-757 with request.rs:236: a member whose text could not be read
\* stays in the list of errors when the scan is over, whatever else of the
\* archive was indexed after it.
MemberErrorsShown ==
    Settled /\ Native /\ proc = "ok" =>
      \A i \in DOMAIN Out :
        Out[i].skip_reason /\ Out[i].path # <<>> => Out[i].path \in errors

\* MemberBatch.skip_reason, for the archive itself (archive/src/lib.rs:26-31):
\* the failure is shown.  The completion upsert clears it.
ArchiveErrorsShown ==
    Settled /\ Native /\ (proc = "failed" \/ \E i \in DOMAIN Out : Out[i].path = <<>>)
      => OuterPath \in errors

\* scan.rs:773-775: the upload runs after the name-only batch is submitted.
\* It runs after the push, and the batch can arrive last.
DelegatedTextKept ==
    Settled /\ Native /\ proc = "ok" =>
      \A i \in DOMAIN Out : Out[i].delegate => listed[Out[i].path] = "own"

=============================================================================
