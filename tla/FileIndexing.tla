------------------------------ MODULE FileIndexing ------------------------------
(***************************************************************************)
(* How one file is indexed: which extractor find-scan and find-watch take  *)
(* for it, what they send when the extractor works, fails or is missing,   *)
(* and the detour over the server, whose own find-scan extracts what was   *)
(* uploaded.  Requests are applied at once (the inbox is InboxPipeline's   *)
(* subject), archives are unpacked in one step (see ArchiveScan).          *)
(***************************************************************************)
EXTENDS Integers, FiniteSets

CONSTANTS
    SampleFiles,         \* files to index, see SampleFile
    Unindexed,           \* no row
    MaxEdits             \* bound: edits of the file

(* Extensions, one for each verdict of the libraries on it; "" for none.          *)
Extensions == {"", "zip", "pages", "pdf", "html", "png", "docx", "epub", "dcm",
               "exe", "rs", "txt", "class", "iso", "xyz"}

ArchiveExts == {"zip", "pages"}
SpecialistExts == {"pdf", "html", "png", "docx", "epub", "dcm", "exe"}
TextExts == {"html", "rs", "txt"}
BinaryExts == {"png", "pdf", "docx", "zip", "exe", "class", "iso"}
OpenBlockingExts == {"iso"}

(* What a file holds: what its extension promises, text, or binary content  *)
(* that is recognised (a picture, a zip, DICOM) or not.                     *)
Holdings == {"own", "text", "picture", "zipped", "dicom", "data", "empty"}

(* entry: the client's scan.extractors for the extension; server_entry: the *)
(* server's, which knows external tools only.                               *)
Entries == {"none", "builtin", "server_only", "stdout", "tempdir"}
SampleFile == [ext: Extensions, holds: Holdings, entry: Entries,
               server_entry: {"none", "stdout", "tempdir"}, server_fallback: BOOLEAN]

ASSUME FileAssumption ==
    SampleFiles \subseteq SampleFile /\ MaxEdits \in Nat

\* Lines of a file besides its path: text, members of an archive, and what is
\* in the metadata slot.
FoundLines(text, meta) == [text |-> text, meta |-> meta, members |-> FALSE]
NothingFound == FoundLines(FALSE, "")
MemberLinesFound == [NothingFound EXCEPT !.members = TRUE]

-----------------------------------------------------------------------------
(* Extractors *)

\* A specialist on a file of its format; on another it fails or finds nothing,
\* but for the HTML parser, which takes what it gets.
BySpecialist(ext, holds) ==
    IF holds = "empty" THEN NothingFound
    ELSE IF holds = "own" /\ ext \in {"png", "dcm", "exe"} THEN FoundLines(FALSE, "fields")
    ELSE IF holds = "own" THEN FoundLines(TRUE, "fields")
    ELSE IF ext = "html" THEN FoundLines(TRUE, "")
    ELSE NothingFound

\* infer::get, as the MIME line of the fallback.
MimeLine(holds) ==
    CASE holds = "picture" -> "image/png"
      [] holds = "zipped" -> "application/zip"
      [] OTHER -> "application/octet-stream"

\* accepts_bytes: by the extension, or else by a look at the bytes.  A file
\* without content is text.
AcceptsText(ext, holds) ==
    \/ ext \in TextExts
    \/ ext \notin BinaryExts /\ holds \in {"text", "empty"}

\* dispatch_from_bytes: PDF, DICOM by extension or magic, the other
\* specialists, text, MIME.
FromBytes(ext, holds) ==
    CASE ext = "pdf" -> BySpecialist(ext, holds)
      [] ext # "pdf" /\ holds = "dicom" -> FoundLines(FALSE, "fields")
      [] ext \in SpecialistExts \ {"pdf"} /\ holds # "dicom" -> BySpecialist(ext, holds)
      [] ext \notin SpecialistExts /\ holds # "dicom" ->
           IF AcceptsText(ext, holds) THEN FoundLines(holds # "empty", "")
           ELSE FoundLines(FALSE, MimeLine(holds))

\* dispatch_from_path: a binary extension no specialist has is not even opened.
FromPath(ext, holds) ==
    IF ext \in BinaryExts \ SpecialistExts THEN NothingFound ELSE FromBytes(ext, holds)

\* sniff_kind_from_bytes.
SniffedKind(holds) ==
    CASE holds = "dicom" -> "dicom"
      [] holds = "picture" -> "image"
      [] holds = "zipped" -> "archive"
      [] OTHER -> "unknown"

-----------------------------------------------------------------------------
(* Routes *)

\* resolve_extractor; inline: the kinds a program extracts in its own process.
InlineKindOf(ext) ==
    CASE ext = "html" -> "Html"
      [] ext = "png" -> "Media"
      [] ext = "docx" -> "Office"
      [] OTHER -> "Text"

RouteOf(ext, entry, inline) ==
    CASE entry = "server_only" -> "server_only"
      [] entry \in {"stdout", "tempdir"} -> entry
      [] entry \in {"none", "builtin"} ->
           IF ext \in ArchiveExts THEN "archive"
           ELSE IF ext \notin {"pdf", "epub", "dcm"} /\ InlineKindOf(ext) \in inline
           THEN "inline" ELSE "subprocess"

SCAN_INLINE_SET == {"Text", "Html", "Media", "Office"}
WATCH_INLINE_SET == {"Text"}

\* detect_kind: by extension, and for a file without one by its bytes.
DetectKind(ext) ==
    CASE ext \in ArchiveExts -> "archive"
      [] ext = "pdf" -> "pdf"
      [] ext = "exe" -> "executable"
      [] ext = "dcm" -> "dicom"
      [] ext = "png" -> "image"
      [] OTHER -> "unknown"

ScanKind(f) == IF f.ext = "" THEN SniffedKind(f.holds) ELSE DetectKind(f.ext)

\* magic_override_route: what is recognised goes to find-extract-dispatch.
ScanRoute(f, entry) ==
    IF f.ext = "" /\ SniffedKind(f.holds) # "unknown" THEN "subprocess"
    ELSE RouteOf(f.ext, entry, SCAN_INLINE_SET)

WatchRoute(f) == RouteOf(f.ext, f.entry, WATCH_INLINE_SET)

\* FileKind::from_extension.
KindFromExt(ext) ==
    CASE ext = "zip" -> "archive"
      [] ext \in {"pdf", "epub"} -> ext
      [] ext = "png" -> "image"
      [] ext \in {"docx", "pages"} -> "document"
      [] ext = "dcm" -> "dicom"
      [] ext \in {"rs", "html"} -> "code"
      [] ext = "txt" -> "text"
      [] OTHER -> "unknown"

\* mime_to_kind, as a FileKind: there is none for "binary".
MimeKind(meta) ==
    CASE meta = "image/png" -> "image"
      [] meta = "application/zip" -> "archive"
      [] OTHER -> "unknown"

IsMime(meta) == meta \in {"image/png", "application/zip", "application/octet-stream"}

\* The refinement of push_non_archive_files.
RefinedKind(kind, lines, f) ==
    CASE kind \notin {"text", "unknown"} -> kind
      [] kind \in {"text", "unknown"} ->
           IF IsMime(lines.meta) THEN MimeKind(lines.meta)
           ELSE IF lines.text THEN "text"
           ELSE IF kind = "unknown" /\ lines.meta # "" THEN SniffedKind(f.holds)
           ELSE kind

\* What a route gives when it works.  The programs run from a terminal print
\* no lines for an empty file.
Works(f, route) ==
    CASE route = "inline" \/ route = "subprocess" -> FromPath(f.ext, f.holds)
      [] route = "stdout" -> IF f.holds = "empty" THEN NothingFound ELSE FoundLines(TRUE, "first line")
      [] OTHER -> MemberLinesFound

-----------------------------------------------------------------------------
VARIABLES
    sample,              \* the file
    version,             \* its mtime
    absent,              \* the client's programs that are not installed
    server_absent,       \* the server's
    indexed,             \* the server's row
    reported,            \* whether the file is in indexing_errors
    uploaded,            \* versions uploaded and not yet taken by the server
    excused              \* history: versions whose extractor ran and failed

fileVars == <<sample, version, absent, server_absent, indexed, reported,
              uploaded, excused>>
Programs == {"extractor", "tool"}

FileInit ==
    /\ sample \in SampleFiles
    /\ version = 1
    /\ absent \in SUBSET Programs /\ server_absent \in SUBSET Programs
    /\ indexed = Unindexed
    /\ reported = FALSE
    /\ uploaded = {}
    /\ excused = {}

EditSample ==
    /\ version <= MaxEdits
    /\ version' = version + 1
    /\ UNCHANGED <<sample, absent, server_absent, indexed, reported, uploaded, excused>>

InstallExtractors ==
    /\ absent \cup server_absent # {}
    /\ absent' = {} /\ server_absent' = {}
    /\ UNCHANGED <<sample, version, indexed, reported, uploaded, excused>>

-----------------------------------------------------------------------------
(* What one run does for a file: a row it upserts or none, whether it       *)
(* reports an error or uploads the file, and (history) whether the          *)
(* extractor of that row ran and failed.                                    *)

FileRow(v, kind, lines, hash) ==
    [mtime |-> v, kind |-> kind, lines |-> lines, hash |-> hash]
SkipsFile == [row |-> Unindexed, reports |-> FALSE, uploads |-> FALSE, failed |-> FALSE]
Upserts(row, failed) == [SkipsFile EXCEPT !.row = row, !.failed = failed]
Uploads(accepted) == [SkipsFile EXCEPT !.uploads = accepted]

\* The program a route starts.
Needs(route) == IF route \in {"stdout", "tempdir"} THEN "tool" ELSE "extractor"
Missing(route, missing) == route # "inline" /\ Needs(route) \in missing

\* push_non_archive_files, with what the route found or nothing.
PushFile(f, v, route, failed) ==
    LET lines == IF failed THEN NothingFound ELSE Works(f, route)
    IN Upserts(FileRow(v, RefinedKind(ScanKind(f), lines, f), lines,
                       f.holds # "empty" /\ f.ext \notin OpenBlockingExts), failed)

\* The archive routes, from the sentinel to the completion: a tool that is
\* missing or fails leaves mtime 0, but a missing extractor does not; what
\* fails before the first member is reported.
ScanArchive(f, v, route, missing, fails) ==
    LET gone == Missing(route, missing)
        bad == gone \/ fails
        kind == IF f.ext = "pages" /\ route = "archive" THEN "document" ELSE "archive"
        outer == IF route = "tempdir" /\ bad THEN FileRow(0, "archive", NothingFound, FALSE)
                 ELSE FileRow(v, kind, IF bad THEN NothingFound ELSE MemberLinesFound, TRUE)
    IN [Upserts(outer, route = "archive" /\ bad)
          EXCEPT !.reports = bad /\ (route = "archive" \/ ~gone)]

\* process_file.  accepted: whether an upload succeeds.  A failing stdout tool
\* is reported and nothing else: the row stays as it is for the next scan.
ProcessFile(f, v, entry, server_fallback, missing, fails, accepted) ==
    LET route == ScanRoute(f, entry)
    IN CASE route = "server_only" -> Uploads(accepted)
         [] route \in {"archive", "tempdir"} -> ScanArchive(f, v, route, missing, fails)
         [] route = "inline" -> PushFile(f, v, route, fails)
         [] route \in {"subprocess", "stdout"} ->
              CASE Missing(route, missing) -> SkipsFile
                [] ~Missing(route, missing) /\ ~fails -> PushFile(f, v, route, FALSE)
                [] ~Missing(route, missing) /\ fails ->
                     IF server_fallback /\ accepted THEN Uploads(TRUE)
                     ELSE IF route = "stdout" THEN [SkipsFile EXCEPT !.reports = TRUE]
                     ELSE PushFile(f, v, route, TRUE)

\* handle_update.  The stdout of find-extract-archive, one object per line, is
\* parsed as one array: there are no members in it.  The kind is not refined,
\* and the file is always hashed.
WatchFound(f, route, missing, fails) ==
    IF fails \/ Missing(route, missing) \/ route = "archive" THEN NothingFound ELSE Works(f, route)

\* Mutant: a missing extractor is taken for one that failed.
WatchGivesUpLate(route, missing, fails) == route = "archive" /\ fails

WatchGivesUp(route, missing, fails) ==
    \/ Missing(route, missing)
    \/ route = "archive" /\ fails

HandleUpdate(f, v, missing, fails, accepted) ==
    LET route == WatchRoute(f)
        lines == WatchFound(f, route, missing, fails)
    IN CASE route = "server_only" -> Uploads(accepted)
         [] route # "server_only" /\ WatchGivesUp(route, missing, fails) -> SkipsFile
         [] route # "server_only" /\ ~WatchGivesUp(route, missing, fails) ->
              Upserts(FileRow(v, IF lines.members THEN "archive" ELSE KindFromExt(f.ext),
                              lines, f.holds # "empty"),
                      fails /\ ~Missing(route, missing))

\* toml_extractors: the configuration the server writes for its find-scan has
\* its own tools, and no server_only.
ServerEntry(f) == f.server_entry

-----------------------------------------------------------------------------
(* An upsert clears the error.  None of them is older than the row but for  *)
(* the server's, which is forced.                                           *)
Performed(o, v) ==
    /\ indexed' = IF o.row = Unindexed THEN indexed ELSE o.row
    /\ reported' = (o.reports \/ (o.row = Unindexed /\ reported))
    /\ excused' = IF o.failed THEN excused \cup {v} ELSE excused
    /\ UNCHANGED <<sample, version, absent, server_absent>>

UploadOf(o, v) == IF o.uploads THEN {v} ELSE {}

\* run_scan takes a file that is new or newer.
ScanFile(fails, accepted) ==
    LET o == ProcessFile(sample, version, sample.entry, sample.server_fallback,
                         absent, fails, accepted)
    IN /\ indexed # Unindexed => version > indexed.mtime
       /\ Performed(o, version)
       /\ uploaded' = uploaded \cup UploadOf(o, version)

\* find-watch sees the file changed, or touched.
WatchFile(fails, accepted) ==
    LET o == HandleUpdate(sample, version, absent, fails, accepted)
    IN /\ Performed(o, version)
       /\ uploaded' = uploaded \cup UploadOf(o, version)

\* run_index_upload: find-scan --force on the uploaded version.
IndexUpload(v, fails, accepted) ==
    LET o == ProcessFile(sample, v, ServerEntry(sample), FALSE, server_absent,
                         fails, accepted)
    IN /\ v \in uploaded
       /\ Performed(o, v)
       /\ uploaded' = (uploaded \ {v}) \cup UploadOf(o, v)

FileNext ==
    \/ EditSample \/ InstallExtractors
    \/ \E fails, accepted \in BOOLEAN :
         \/ ScanFile(fails, accepted) \/ WatchFile(fails, accepted)
         \/ \E v \in uploaded : IndexUpload(v, fails, accepted)

\* Scans go on, and the programs get installed one day; an extractor that
\* fails on a file may fail on it for ever, but the upload gets through.
FileFairness ==
    /\ WF_fileVars(InstallExtractors)
    /\ WF_fileVars(\E fails \in BOOLEAN : ScanFile(fails, TRUE))
    /\ WF_fileVars(\E v \in uploaded, fails \in BOOLEAN : IndexUpload(v, fails, TRUE))

FileSpec == FileInit /\ [][FileNext]_fileVars /\ FileFairness

-----------------------------------------------------------------------------
(* Properties *)

\* The routes that may extract the file: a client's, or the server's for an
\* upload.
ItsRoutes == {ScanRoute(sample, sample.entry), WatchRoute(sample),
              ScanRoute(sample, ServerEntry(sample))} \ {"server_only"}

\* A row of the current version holds what a route finds in the file, or its
\* name alone because the extractor ran on that version and failed; a version
\* no row shows has been reported.  Not so for what find-watch makes of an
\* archive, which has no members and is not looked at again.
Explained ==
    \/ sample.ext \in ArchiveExts
    \/ /\ indexed # Unindexed /\ indexed.mtime = version
       /\ \/ version \in excused
          \/ indexed.lines \in {Works(sample, r) : r \in ItsRoutes}
    \/ (indexed = Unindexed \/ indexed.mtime # version) /\ reported

\* Whatever the watcher, the scans and the server made of a file while programs
\* were missing, once they are installed the row comes to hold its content:
\* "the file will be retried once the binary is installed" (scan.rs).  And a
\* file handed to the server is indexed there, and not handed on for ever.
RetriedOnceInstalled == <>[]Explained

=============================================================================
