----------------------------- MODULE LineNumbers -----------------------------
(***************************************************************************)
(* From the lines of a file to what a reader is shown.  The extractor      *)
(* numbers the lines; the index is keyed by those numbers, and the blob    *)
(* holds the contents one below the other in their order, so that a search *)
(* hit is shown rightly only when a line's number is its position in the   *)
(* blob.  The read routes page through the blob, or show a window of it.   *)
(*                                                                         *)
(* A file on disk is a sequence of rows, or of Undecodable where the bytes *)
(* of a row are no UTF-8.                                                  *)
(***************************************************************************)
EXTENDS Normalisation
LOCAL INSTANCE SequencesExt

CONSTANTS Undecodable, MaxLines      \* MAX_LINES_PER_FILE

-----------------------------------------------------------------------------
(* Extraction and submission                                               *)

\* Read line by line: a row that cannot be decoded is left out, its number is not
\* given to another.
ExtractFile(rows) ==
    [i \in 1 .. Len(rows) |-> IndexLine(i - 1 + LINE_CONTENT_START, <<rows[i]>>)]
ExtractText(rows) ==
    SelectSeq(ExtractFile(rows), LAMBDA l : l.content # <<Undecodable>>)

\* From memory (an archive member, an upload): decoded with replacements.
ExtractBytes(rows, replacement) ==
    LET lossy == [i \in 1 .. Len(rows) |-> IF rows[i] = Undecodable THEN replacement ELSE rows[i]]
    IN  ExtractFile(StrLines(lossy))

EnsureMetadataSlot(lines) ==
    IF \E i \in 1 .. Len(lines) : lines[i].line_number = LINE_METADATA THEN lines
    ELSE Append(lines, IndexLine(LINE_METADATA, << << >> >>))

BuildIndexFile(path, lines) ==
    EnsureMetadataSlot(Append(lines, IndexLine(LINE_PATH, << <<path>> >>)))

-----------------------------------------------------------------------------
(* The two places the lines go to                                          *)

\* Trailing white space goes, line breaks included; one row is left.
TrimEnd(text) ==
    LET full == {i \in 1 .. Len(text) : text[i] # << >>}
    IN  IF full = {} THEN << << >> >>
        ELSE SubSeq(text, 1, CHOOSE i \in full : \A j \in full : j <= i)

BlobOf(lines) == FoldLeft(LAMBDA rows, l : rows \o TrimEnd(l.content), << >>, ByNumber(lines))

FtsRows(lines) ==
    {[line_number |-> lines[i].line_number, content |-> TrimEnd(lines[i].content)] :
        i \in {j \in 1 .. Len(lines) : lines[j].line_number < MaxLines}}

Indexed(lines) == [blob |-> BlobOf(lines), fts |-> FtsRows(lines), line_count |-> Len(lines)]

-----------------------------------------------------------------------------
(* Reading                                                                 *)

\* ContentStore::get_lines: positions count from 0.
GetLines(blob, lo, hi) ==
    {[line_number |-> p, content |-> blob[p + 1]] : p \in {q \in lo .. hi : q < Len(blob)}}

Listed(lines) == SetToSortSeq(lines, LAMBDA l1, l2 : l1.line_number < l2.line_number)

ReadChunk(blob, ln) == GetLines(blob, ln, ln)

\* What a search hit shows of line n: nothing for an empty row.
ReadContentBatch(blob, n) == {l \in GetLines(blob, n, n) : l.content # << >>}

GetFileLines(file) == Listed(UNION {ReadChunk(file.blob, ln) : ln \in 0 .. file.line_count - 1})

\* A page of the content, with the two slots in front; NoText: no limit.
GetFileLinesPaged(file, offset, limit) ==
    LET start == LINE_CONTENT_START + IF limit = NoText THEN 0 ELSE offset
        end == IF limit = NoText \/ start + limit > file.line_count
               THEN file.line_count ELSE start + limit
    IN  [lines |-> Listed(GetLines(file.blob, 0, LINE_CONTENT_START - 1)
                          \cup IF end > start THEN GetLines(file.blob, start, end - 1) ELSE {}),
         total |-> IF file.line_count > LINE_CONTENT_START
                   THEN file.line_count - LINE_CONTENT_START ELSE 0]

\* The numbers are sent only when they are not 2, 3, 4, ...
FileResponse(page) ==
    LET content == SelectSeq(page.lines, LAMBDA l : l.line_number >= LINE_CONTENT_START)
        sequential == \A i \in 1 .. Len(content) :
                         content[i].line_number = i - 1 + LINE_CONTENT_START
    IN  [lines |-> [i \in 1 .. Len(content) |-> content[i].content],
         line_offsets |-> IF sequential THEN << >>
                          ELSE [i \in 1 .. Len(content) |-> content[i].line_number],
         total_lines |-> page.total]

\* The numbers a reader gives the rows of a response.
NumberOf(response, i) ==
    IF response.line_offsets = << >> THEN i - 1 + LINE_CONTENT_START ELSE response.line_offsets[i]

LineContext(file, center, window) ==
    Listed(UNION {ReadChunk(file.blob, ln) :
                    ln \in (IF center > window THEN center - window ELSE 0) .. center + window})

\* An image or a sound is shown by its first line.
MetadataContext(file) ==
    << [line_number |-> 0, content |-> IF Len(file.blob) = 0 THEN << >> ELSE file.blob[1]] >>

GetContext(file, kind, center, window) ==
    IF kind \in {"image", "audio"} THEN MetadataContext(file) ELSE LineContext(file, center, window)

CompactLines(lines, center) ==
    LET at == {i \in 1 .. Len(lines) : lines[i].line_number = center}
    IN  [start |-> IF lines = << >> THEN 0 ELSE lines[1].line_number,
         match_index |-> IF at = {} THEN NoText ELSE (CHOOSE i \in at : TRUE) - 1,
         lines |-> lines]

-----------------------------------------------------------------------------
(* What a reader relies on                                                 *)

\* A hit is shown with the row that was indexed under its number; an empty line
\* is no hit.
HitsShowTheirLines(file) ==
    \A r \in file.fts : r.content # << << >> >> =>
        \E l \in ReadContentBatch(file.blob, r.line_number) : r.content = <<l.content>>

\* Page by page a reader gets every line of the blob once, under its number.
PagesCover(file, limit) ==
    LET total == GetFileLinesPaged(file, 0, limit).total
        offsets == {k * limit : k \in 0 .. total \div limit}
        response(o) == FileResponse(GetFileLinesPaged(file, o, limit))
        shown(o) == {[line_number |-> NumberOf(response(o), i), content |-> response(o).lines[i]] :
                        i \in 1 .. Len(response(o).lines)}
    IN  /\ UNION {shown(o) : o \in offsets} = GetLines(file.blob, LINE_CONTENT_START, Len(file.blob))
        /\ \A o1, o2 \in offsets : o1 # o2 => shown(o1) \cap shown(o2) = {}

\* The line asked for is where match_index says, with its neighbours around it.
ContextShows(file, center, window) ==
    LET context == CompactLines(GetContext(file, "text", center, window), center)
    IN  center < Len(file.blob) =>
            /\ context.match_index # NoText
            /\ context.lines[context.match_index + 1].content = file.blob[center + 1]
            /\ \A i \in 1 .. Len(context.lines) : context.lines[i].line_number = context.start + i - 1

=============================================================================
