------------------------------- MODULE IworkText -------------------------------
(***************************************************************************)
(* The text of an iWork document: chunks of compressed records, records    *)
(* that announce their payloads, payloads of tagged fields, or for an old  *)
(* document a flat XML file.  Data are sequences of bytes, text is ASCII;  *)
(* the document's numbers fit a machine word, as its offsets must.         *)
(***************************************************************************)
EXTENDS Integers, FiniteSets, Sequences, SequencesExt, FiniteSetsExt

CONSTANTS
    Unsnap(_),           \* a chunk decompressed (external), or Broken
    Broken

LineFeed == 10
Space == 32
Spaces == {LineFeed, Space}
LINE_CONTENT_START == 2

\* from_utf8, on samples where a byte beyond ASCII is never part of a character.
Utf8(s) == \A i \in DOMAIN s : s[i] < 128
TrimEnd(s, blank) == SubSeq(s, 1, Max({0} \cup {i \in DOMAIN s : s[i] \notin blank}))
Trim(s, blank) == Reverse(TrimEnd(Reverse(TrimEnd(s, blank)), blank))

\* str::lines.
LinesOf(s) ==
    LET split == FoldLeft(LAMBDA ls, c : IF c = LineFeed THEN Append(ls, <<>>)
                                         ELSE [ls EXCEPT ![Len(ls)] = Append(@, c)], <<<<>>>>, s)
    IN IF Last(split) = <<>> THEN Front(split) ELSE split

-----------------------------------------------------------------------------
\* iwa_decompress: a zero byte, a length in three bytes, the chunk.  It ends at
\* what is no chunk; a chunk that does not decompress is left out.
Decompressed(data) ==
    LET f[pos \in 1..(Len(data) + 1)] ==
          IF pos + 3 > Len(data) \/ data[pos] # 0 THEN <<>>
          ELSE LET length == data[pos + 1] + 256 * data[pos + 2] + 65536 * data[pos + 3]
                   chunk == Unsnap(SubSeq(data, pos + 4, pos + 3 + length))
               IN IF pos + 3 + length > Len(data) THEN <<>>
                  ELSE (IF chunk = Broken THEN <<>> ELSE chunk) \o f[pos + 4 + length]
    IN f[1]

\* pb_varint: seven bits a byte, the lowest first, in at most ten bytes.
Varint(data, pos) ==
    LET ends == {i \in pos..Len(data) : data[i] < 128}
        last == Min(ends)
        digits == {i \in pos..last : data[i] % 128 # 0}
    IN IF ends = {} \/ last - pos >= 10 THEN <<>>
       ELSE <<[value |-> MapThenSumSet(LAMBDA i : (data[i] % 128) * 128 ^ (i - pos), digits),
               next |-> last + 1]>>

\* One field, as read or passed over by pb_skip; <<>> when it is malformed or does
\* not end in data.
Field(data, pos) ==
    LET key == Varint(data, pos)
        wire == key[1].value % 8
        number == IF wire \in {0, 2} THEN Varint(data, key[1].next) ELSE <<>>
        size == CASE wire = 0 -> 0 [] wire = 1 -> 8 [] wire = 5 -> 4 [] wire = 2 -> number[1].value
        start == IF wire \in {0, 2} THEN number[1].next ELSE key[1].next
    IN IF \/ key = <<>> \/ wire \notin {0, 1, 2, 5}
          \/ wire \in {0, 2} /\ number = <<>>
          \/ start + size - 1 > Len(data)
       THEN <<>>
       ELSE <<[field |-> key[1].value \div 8, wire |-> wire,
               value |-> IF wire = 0 THEN number[1].value ELSE 0,
               bytes |-> SubSeq(data, start, start + size - 1), next |-> start + size]>>

\* The loop all messages are read with: their fields up to one that is malformed.
Message(data) ==
    LET f[pos \in 1..(Len(data) + 1)] ==
          IF pos > Len(data) THEN [fields |-> <<>>, whole |-> TRUE]
          ELSE LET x == Field(data, pos)
                   rest == f[x[1].next]
               IN IF x = <<>> THEN [fields |-> <<>>, whole |-> FALSE]
                  ELSE [rest EXCEPT !.fields = x \o @]
    IN f[1]

Occurrences(data, field, wire) ==
    SelectSeq(Message(data).fields, LAMBDA x : x.field = field /\ x.wire = wire)

\* parse_message_info, parse_archive_info: type and length of each payload a record
\* has.
MessageInfo(data) ==
    LET types == Occurrences(data, 1, 0)
        lengths == Occurrences(data, 3, 0)
    IN IF ~Message(data).whole \/ types = <<>> \/ lengths = <<>> THEN <<>>
       ELSE <<[type |-> Last(types).value, length |-> Last(lengths).value]>>

ArchiveInfo(data) ==
    FoldLeft(LAMBDA infos, x : infos \o MessageInfo(x.bytes), <<>>, Occurrences(data, 2, 2))

-----------------------------------------------------------------------------
NonEmpty(strings) == SelectSeq(strings, LAMBDA s : s # <<>>)

\* extract_storage_archive_text.
StorageText(payload) ==
    LET found == SelectSeq(Occurrences(payload, 3, 2), LAMBDA x : Utf8(x.bytes))
    IN NonEmpty([i \in DOMAIN found |-> TrimEnd(found[i].bytes, {LineFeed})])

\* extract_cell_string: the last string of a cell whose last type is string.
CellString(data) ==
    LET types == Occurrences(data, 2, 0)
        strings == SelectSeq(Occurrences(data, 6, 2),
                             LAMBDA x : Utf8(x.bytes) /\ Trim(x.bytes, Spaces) # <<>>)
    IN IF types # <<>> /\ Last(types).value = 2 /\ strings # <<>>
       THEN <<Trim(Last(strings).bytes, Spaces)>> ELSE <<>>

\* extract_tile_row_strings: a cell goes from its offset to the next cell's.
RowStrings(data) ==
    LET Buffer(field) == LET xs == Occurrences(data, field, 2)
                         IN IF xs = <<>> THEN <<>> ELSE Last(xs).bytes
        cells == Buffer(3)
        raw == Buffer(4)
        n == Len(raw) \div 2
        offset == [i \in 1..(n + 1) |-> IF i > n THEN Len(cells)
                                        ELSE raw[2 * i - 1] + 256 * raw[2 * i]]
        Cell(i) == IF offset[i] < offset[i + 1] /\ offset[i + 1] <= Len(cells)
                   THEN CellString(SubSeq(cells, offset[i] + 1, offset[i + 1])) ELSE <<>>
    IN IF cells = <<>> \/ Len(raw) % 2 = 1 THEN <<>>
       ELSE FlattenSeq([i \in 1..n |-> Cell(i)])

\* extract_tile_text.
TileText(payload) ==
    FoldLeft(LAMBDA out, x : out \o RowStrings(x.bytes), <<>>, Occurrences(payload, 5, 2))

STORAGE_ARCHIVE_TYPE == 2001
TILE_TYPE == 6002

\* iwa_extract_text.  Of a record that is cut the payloads that are there are
\* read, and what is left of it is then taken for the next record.
RecordText(data) ==
    LET f[pos \in 1..(Len(data) + 1)] ==
          LET header == Varint(data, pos)
              start == header[1].next + header[1].value
              infos == ArchiveInfo(SubSeq(data, header[1].next, start - 1))
              at == [i \in 1..(Len(infos) + 1) |->
                       start + MapThenSumSet(LAMBDA j : infos[j].length, 1..(i - 1))]
              here == Max({0} \cup {i \in DOMAIN infos : at[i + 1] <= Len(data) + 1})
              Payload(i) == SubSeq(data, at[i], at[i + 1] - 1)
              Text(i) == CASE infos[i].type = STORAGE_ARCHIVE_TYPE -> StorageText(Payload(i))
                           [] infos[i].type = TILE_TYPE -> TileText(Payload(i))
                           [] OTHER -> <<>>
          IN IF pos > Len(data) \/ header = <<>> \/ start > Len(data) + 1 THEN <<>>
             ELSE FlattenSeq([i \in 1..here |-> Text(i)]) \o f[at[here + 1]]
    IN f[1]

-----------------------------------------------------------------------------
\* iwork_xml_extract_text: the runs between tags that are long enough and mostly
\* letters.
LessThan == 60
GreaterThan == 62
Letter(c) == c \in 65..90 \/ c \in 97..122

Legible(run) ==
    /\ Len(run) >= 4
    /\ 10 * Cardinality({i \in DOMAIN run : Letter(run[i])}) >= 4 * Len(run)

XmlText(data) ==
    LET Read(s, c) ==
          CASE c = LessThan -> [runs |-> Append(s.runs, <<>>), in_tag |-> TRUE]
            [] c = GreaterThan -> [s EXCEPT !.in_tag = FALSE]
            [] c \notin {LessThan, GreaterThan} /\ s.in_tag -> s
            [] c \notin {LessThan, GreaterThan} /\ ~s.in_tag ->
                 [s EXCEPT !.runs[Len(s.runs)] = Append(@, c)]
        runs == FoldLeft(Read, [runs |-> <<<<>>>>, in_tag |-> FALSE], data).runs
        trimmed == SelectSeq([i \in DOMAIN runs |-> Trim(runs[i], Spaces)], Legible)
        lines == FlattenSeq([i \in DOMAIN trimmed |-> LinesOf(trimmed[i])])
    IN SelectSeq([i \in DOMAIN lines |-> Trim(lines[i], Spaces)], LAMBDA l : Len(l) >= 4)

-----------------------------------------------------------------------------
Distinct(s) == FoldLeft(LAMBDA seen, x : IF x \in ToSet(seen) THEN seen ELSE Append(seen, x), <<>>, s)

\* iwork_streaming, and iwork_extract_preview_into_lines for a document in an
\* archive: the paragraphs of all .iwa entries, each once; without any, those of
\* the first XML entry there is.  An entry that cannot be read is passed over.
Paragraphs(strings) ==
    LET lines == FlattenSeq([i \in DOMAIN strings |-> LinesOf(strings[i])])
    IN NonEmpty([i \in DOMAIN lines |-> TrimEnd(lines[i], Spaces)])

DocumentText(iwa, xml) ==
    LET readable == SelectSeq(iwa, LAMBDA e : e # Broken)
        body == Distinct(FlattenSeq([i \in DOMAIN readable |->
                  Paragraphs(RecordText(Decompressed(readable[i])))]))
    IN IF body # <<>> THEN body
       ELSE IF xml = <<>> \/ Head(xml) = Broken THEN <<>>
       ELSE Distinct(XmlText(Head(xml)))

\* The lines of a document: its preview, when it has one, then its text.
DocumentLines(iwa, xml, previews) ==
    LET body == DocumentText(iwa, xml)
        preview == IF previews = <<>> THEN <<>> ELSE <<[line |-> 1, text |-> Head(previews)]>>
    IN preview \o [i \in DOMAIN body |-> [line |-> LINE_CONTENT_START + i - 1, text |-> body[i]]]

=============================================================================
