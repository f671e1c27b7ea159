--------------------------- MODULE ArchiveExtraction ---------------------------
(***************************************************************************)
(* What find-extract-archive streams for an archive: one batch per member, *)
(* in the order of the entries, archives in the archive one level deeper   *)
(* under the name of their entry.  Only the entries' properties that steer *)
(* the extractor are kept; Contents says what each archive holds.          *)
(*                                                                         *)
(* A 7z block is one stream: an entry that is not read to its end leaves   *)
(* the rest of the block out of step, and what is read of the entries      *)
(* after it is not theirs.                                                 *)
(***************************************************************************)
EXTENDS Integers, Sequences, FiniteSets, SequencesExt

CONSTANTS
    ArchiveIds, NoArchive,
    Contents,          \* what each archive holds, see Content
    max_depth,         \* ExtractorConfig
    include_hidden

(* An entry: its name; the archive it is, if its name says so; its block    *)
(* (7z: 0 for none); how reading it ends: whole, part, nothing, checksum;   *)
(* and flags:                                                               *)
(*   dir, hidden, excluded, server_only, media                              *)
(*   unreadable     the entry itself cannot be opened (zip, tar), or its    *)
(*                  block cannot be decoded any further (7z)                *)
(*   fails          its extractor fails, panics or finds no text            *)
(*   huge           more than max_temp_file_mb                              *)
(*   no_temp        its temp file cannot be written                         *)
(*   external_dir, external_stdout, external_fails                          *)
(*                  its extension has an external extractor                 *)
(*                                                                          *)
(* A content: kind (zip, tar, 7z, single, iwork); corrupt when it cannot be *)
(* opened; trailing when bytes follow what its format reads; entries; for   *)
(* 7z the number of blocks, those over max_7z_solid_block_mb and those over *)
(* 75% of the free memory.                                                  *)

EntryNames == UNION {{Contents[a].entries[i].name : i \in DOMAIN Contents[a].entries} : a \in ArchiveIds}

ASSUME ContentsAssumption ==
    /\ max_depth \in Nat
    /\ NoArchive \notin ArchiveIds
    /\ \A a \in ArchiveIds :
         LET c == Contents[a]
         IN /\ c.kind \in {"zip", "tar", "7z", "single", "iwork"}
            /\ c.blocks \in Nat
            /\ c.entries \in Seq({c.entries[i] : i \in DOMAIN c.entries})
            /\ c.kind = "single" => c.entries # <<>>
            /\ \A e \in {c.entries[i] : i \in DOMAIN c.entries} :
                 /\ e = [name |-> e.name, inner |-> e.inner, flags |-> e.flags,
                         read |-> e.read, block |-> e.block]
                 /\ e.inner \in ArchiveIds \cup {NoArchive}

\* lines: name for the file name only, own for its text, foreign for text of
\* other entries, none for no line at all; path is <<>> without lines.
Batch(path, lines) ==
    [path |-> path, lines |-> lines, skip_reason |-> FALSE, delegate |-> FALSE]

NameBatch(e) == Batch(<<e.name>>, "name")     \* make_filename_line

Summary == [Batch(<<>>, "none") EXCEPT !.skip_reason = TRUE]

Multifile(id) == Contents[id].kind \in {"zip", "tar", "7z"}

\* Entries the extractor looks at: visible, and excluded by no pattern.
Shown(e) == "excluded" \notin e.flags /\ (include_hidden \/ "hidden" \notin e.flags)

\* extract_member_bytes: the name, then what the extractor finds.  external:
\* whether external_dispatch is configured.
MemberLines(e, external, insync) ==
    IF external /\ e.flags \cap {"external_dir", "external_stdout"} # {}
    THEN IF "external_fails" \notin e.flags THEN "own"
         ELSE IF "external_dir" \in e.flags THEN "none" ELSE "name"
    ELSE IF e.read = "nothing" \/ "fails" \in e.flags THEN "name"
    ELSE IF insync THEN "own" ELSE "foreign"

\* A read error is reported when nothing was read; a bad checksum always, in
\* a 7z archive; of media files nothing is.
SkipReason(e, kind) ==
    \/ kind = "7z" /\ e.read = "checksum"
    \/ e.read = "nothing" /\ "media" \notin e.flags

MemberBatch(e, kind, external, insync) ==
    LET lines == MemberLines(e, external, insync)
    IN [Batch(IF lines = "none" THEN <<>> ELSE <<e.name>>, lines)
          EXCEPT !.skip_reason = SkipReason(e, kind)]

\* server_only: the bytes go to a temp file the client uploads.
DelegateBatch(e) == [NameBatch(e) EXCEPT !.delegate = "no_temp" \notin e.flags]

\* handle_nested_archive: the name first; what is inside, under it, if the
\* depth allows.  sub gives the batches of archives one level deeper.
UnderName(e, b) ==
    IF b.path = <<>> THEN b ELSE [b EXCEPT !.path = <<e.name>> \o @]

Nested(e, sub) ==
    LET skip == Contents[e.inner].kind = "7z" /\ "huge" \in e.flags
        inside == IF skip THEN <<>> ELSE sub[e.inner]
    IN <<NameBatch(e)>> \o [i \in DOMAIN inside |-> UnderName(e, inside[i])]

\* The loops of zip_from_archive and tar_streaming, sevenz_process_entry.
Entry(e, kind, sub, external, insync) ==
    IF "dir" \in e.flags \/ ~Shown(e) \/ (kind # "7z" /\ "unreadable" \in e.flags)
    THEN <<>>
    ELSE IF e.inner # NoArchive /\ Multifile(e.inner) THEN Nested(e, sub)
    ELSE IF "server_only" \in e.flags THEN <<DelegateBatch(e)>>
    ELSE <<MemberBatch(e, kind, external, insync)>>

\* Mutant: an entry that is not shown is left unread.
DrainedIfShown(e, max_nesting) == Shown(e)

\* Whether an entry has been read to its end.  The loops drain what they do
\* not read; a nested tar is read as far as the tar format goes, and a nested
\* archive that fails no further than the failure.
ReadToEnd(e, max_nesting) ==
    \/ e.inner = NoArchive \/ ~Multifile(e.inner) \/ ~Shown(e) \/ "dir" \in e.flags
    \/ max_nesting = 0
    \/ Contents[e.inner].kind # "tar"
    \/ ~Contents[e.inner].trailing /\ ~Contents[e.inner].corrupt

\* One block of a 7z archive, entry by entry until it cannot be decoded; an
\* entry before that is not read to its end puts the block out of step.
DecodeBlock(entries, depth, sub, external) ==
    LET decoded(i) == \A j \in 1..i : "unreadable" \notin entries[j].flags
        insync(i) == \A j \in 1..(i - 1) : ReadToEnd(entries[j], depth)
    IN FlattenSeq([i \in DOMAIN entries |->
         IF decoded(i) THEN Entry(entries[i], "7z", sub, external, insync(i)) ELSE <<>>])

\* The entries at some positions.
EntriesAt(entries, positions) ==
    FlattenSeq([i \in DOMAIN entries |->
      IF i \in positions THEN <<entries[i]>> ELSE <<>>])

\* sevenz_streaming: the blocks over the limit first, by name and with no look
\* at hidden or excluded names; block by block, those that do not fit in
\* memory by name with a reason; last the entries without a block.
SevenZip(c, depth, sub, external) ==
    LET es == c.entries
        In(blocks) == {i \in DOMAIN es : es[i].block \in blocks}
        Names(positions, why) ==
          FlattenSeq([i \in DOMAIN es |->
            IF i \in positions /\ "dir" \notin es[i].flags
            THEN <<[NameBatch(es[i]) EXCEPT !.skip_reason = why]>> ELSE <<>>])
        Block(b) == IF b \in c.oversized THEN <<>>
                    ELSE IF b \in c.tight THEN Names(In({b}), TRUE)
                    ELSE DecodeBlock(EntriesAt(es, In({b})), depth, sub, external)
        Empty(e) == Entry([e EXCEPT !.flags = @ \ {"unreadable"}], "7z", sub, external, TRUE)
    IN (IF c.oversized = {} THEN <<>> ELSE <<Summary>> \o Names(In(c.oversized), FALSE))
       \o FlattenSeq([b \in 1..c.blocks |-> Block(b)])
       \o FlattenSeq([i \in DOMAIN es |-> IF es[i].block = 0 THEN Empty(es[i]) ELSE <<>>])

\* single_compressed: the stem of the name; a read error fails the archive.
Single(c, external) ==
    IF c.entries[1].read # "whole" THEN <<>>
    ELSE <<MemberBatch(c.entries[1], "single", external, TRUE)>>

\* extract_iwork_preview: the preview picture, the only entry looked at, if
\* there is one and it can be read.
Preview(c, external) ==
    IF c.entries = <<>> \/ c.entries[1].read # "whole" THEN <<>>
    ELSE <<MemberBatch(c.entries[1], "iwork", external, TRUE)>>

\* dispatch_streaming, with depth levels of nesting left.
Format(c, depth, sub, external) ==
    IF c.corrupt THEN <<>>
    ELSE CASE c.kind \in {"zip", "tar"} ->
                FlattenSeq([i \in DOMAIN c.entries |->
                  Entry(c.entries[i], c.kind, sub, external, TRUE)])
           [] c.kind = "7z" -> SevenZip(c, depth, sub, external)
           [] c.kind = "single" -> Single(c, external)
           [] c.kind = "iwork" -> Preview(c, external)

Streamed(external) ==
    LET none == [a \in ArchiveIds |-> <<>>]
        f[d \in 0..max_depth] ==
          LET sub == IF d = 0 THEN none ELSE f[d - 1]
          IN [a \in ArchiveIds |-> Format(Contents[a], d, sub, external)]
    IN f

\* extract_streaming of a whole archive in the subprocess, which is not told
\* of external extractors.
Extraction(a) == Streamed(FALSE)[max_depth][a]

\* run_external_tempdir: an external extractor has unpacked the archive; each
\* file is a member, and an archive among them is extracted one level down.
\* Nothing is excluded here, and read errors have no entry.
Unpacked(a) ==
    LET c == Contents[a]
        sub == IF max_depth = 0 THEN [x \in ArchiveIds |-> <<>>]
               ELSE Streamed(TRUE)[max_depth - 1]
        Archive(e) == e.inner # NoArchive /\ max_depth > 0
        File(e) ==
          IF "dir" \in e.flags \/ e.read # "whole" THEN <<>>
          ELSE IF Archive(e) /\ ~Contents[e.inner].corrupt THEN Nested([e EXCEPT !.flags = @ \ {"huge"}], sub)
          ELSE (IF Archive(e) THEN <<NameBatch(e)>> ELSE <<>>)
               \o <<MemberBatch(e, "zip", FALSE, TRUE)>>
    IN FlattenSeq([i \in DOMAIN c.entries |-> File(c.entries[i])])

-----------------------------------------------------------------------------
(* Timestamps of members *)

CONSTANTS NoTime

END_OF_2099 == 47481      \* in days since 1970-01-01
Century == 36525          \* 100 years of 365.25 days

\* sanitize_archive_mtime, in days: a time in the future is one whose year was
\* stored with two digits, unless it is after 2099.
Sanitized(ts, now) ==
    IF ts <= now THEN ts ELSE IF ts <= END_OF_2099 THEN ts - Century ELSE NoTime

\* zip_dos_to_unix, in days: years run from March to February.
DosDays(year, month, day) ==
    IF year <= 1980 THEN NoTime
    ELSE LET y == IF month <= 2 THEN year - 1 ELSE year
             m == IF month <= 2 THEN month + 9 ELSE month - 3
             era == y \div 400
             yoe == y - era * 400
             doy == (153 * m + 2) \div 5 + day - 1
             doe == yoe * 365 + yoe \div 4 - yoe \div 100 + doy
         IN era * 146097 + doe - 719468

=============================================================================
