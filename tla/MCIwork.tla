-------------------------------- MODULE MCIwork --------------------------------
(***************************************************************************)
(* Small iWork documents, put together the way the format says and read    *)
(* back by IworkText, whole and cut.  A chunk is compressed by one byte    *)
(* before it.                                                              *)
(***************************************************************************)
EXTENDS Integers, FiniteSets, Sequences, SequencesExt

MCBroken == <<-1>>
MCUnsnap(chunk) == IF chunk # <<>> /\ chunk[1] = 7 THEN Tail(chunk) ELSE MCBroken
I == INSTANCE IworkText WITH Unsnap <- MCUnsnap, Broken <- MCBroken

\* Encoders.
MCVarint(n) == IF n < 128 THEN <<n>> ELSE <<128 + (n % 128), n \div 128>>
MCNumber(field, n) == MCVarint(8 * field) \o MCVarint(n)
MCBytes(field, s) == MCVarint(8 * field + 2) \o MCVarint(Len(s)) \o s
MCFixed(field, wire) == MCVarint(8 * field + wire) \o [i \in 1..(IF wire = 1 THEN 8 ELSE 4) |-> 26]

\* A record of payloads, each with its type.
MCRecord(payloads) ==
    LET Info(p) == MCBytes(2, MCNumber(1, p.type) \o MCBytes(2, <<1, 0>>) \o MCNumber(3, Len(p.bytes)))
        header == MCNumber(1, 300) \o FlattenSeq([i \in DOMAIN payloads |-> Info(payloads[i])])
    IN MCVarint(Len(header)) \o header
         \o FlattenSeq([i \in DOMAIN payloads |-> payloads[i].bytes])

MCChunk(s) == LET c == <<7>> \o s IN <<0, Len(c) % 256, Len(c) \div 256, 0>> \o c

\* Payloads and the text they hold.
MCWord == <<65, 66, 67, 68>>
MCOther == <<69, 10, 70>>
MCStored(strings) ==
    [type |-> 2001, text |-> strings,
     bytes |-> MCFixed(9, 5) \o FlattenSeq([i \in DOMAIN strings |-> MCBytes(3, strings[i])]) \o MCFixed(8, 1)]

MCCell(kind, s) == MCNumber(2, kind) \o MCBytes(6, s)
MCOffset(n) == <<n % 256, n \div 256>>
MCTile(cells) ==
    LET At(i) == Len(FlattenSeq(SubSeq(cells, 1, i - 1)))
    IN MCBytes(5, MCNumber(1, 4) \o MCBytes(3, FlattenSeq(cells))
                    \o MCBytes(4, FlattenSeq([i \in DOMAIN cells |-> MCOffset(At(i))])))
MCPayloads ==
    {MCStored(<<>>), MCStored(<<MCWord, MCOther>>),
     [type |-> 6002, text |-> <<MCWord>>, bytes |-> MCTile(<<MCCell(3, MCOther), MCCell(2, MCWord)>>)],
     [type |-> 300, text |-> <<>>, bytes |-> MCBytes(3, MCWord)]}
MCRecords == {<<p>> : p \in MCPayloads} \cup {<<p, q>> : p, q \in MCPayloads}
MCTextOf(record) == FlattenSeq([i \in DOMAIN record |-> record[i].text])

\* A number of several bytes is read as it was written, where it was written, and
\* not when its end is missing.
ASSUME VarintsRoundTrip ==
    \A n \in (0..300) \cup {2001, 6002, 16383} : \A before, after \in {<<>>, <<200>>} :
        LET data == before \o MCVarint(n) \o after
        IN /\ I!Varint(data, Len(before) + 1)
                = <<[value |-> n, next |-> Len(data) - Len(after) + 1]>>
           /\ I!Varint(Front(before \o MCVarint(n)), Len(before) + 1) = <<>>
ASSUME VarintsEnd ==
    \A n \in 1..12 : I!Varint([i \in 1..n |-> IF i < n THEN 128 ELSE 0], 1) # <<>> <=> n <= 10

\* The text of two records is that of the one and then of the other, whatever is
\* between the fields and the payloads.
ASSUME RecordsGiveTheirText ==
    \A a, b \in MCRecords :
        I!RecordText(MCRecord(a) \o MCRecord(b)) = MCTextOf(a) \o MCTextOf(b)

\* A record that is cut gives a part of its text: what is then taken for the
\* next one gives none here.
ASSUME CutRecordGivesItsText ==
    \A a \in MCRecords : LET data == MCRecord(a) IN
        \A n \in 0..Len(data) : IsPrefix(I!RecordText(SubSeq(data, 1, n)), MCTextOf(a))

\* The chunks may end anywhere in a record; one that does not decompress is left
\* out, and what is no chunk ends the document.
ASSUME ChunksAreJoined ==
    \A a \in MCRecords : LET data == MCRecord(a) IN
        \A n \in 0..Len(data) :
            LET first == MCChunk(SubSeq(data, 1, n))
                second == MCChunk(SubSeq(data, n + 1, Len(data)))
            IN /\ I!Decompressed(first \o second) = data
               /\ I!Decompressed(first \o <<0, 1, 0, 0, 9>> \o second) = data
               /\ I!Decompressed(first \o <<1>> \o second) = SubSeq(data, 1, n)
               /\ I!Decompressed(first \o Front(second)) = SubSeq(data, 1, n)

\* Offsets in any order, beyond the buffer or of half a number give no string but
\* those of cells.
ASSUME OffsetsGiveCells ==
    \A raw \in {MCOffset(x) \o MCOffset(y) : x, y \in 0..20} \cup {<<0>>, <<>>, <<255, 255>>} :
        LET cells == MCCell(2, MCWord) \o MCCell(3, MCOther)
            found == I!RowStrings(MCBytes(3, cells) \o MCBytes(4, raw))
        IN /\ ToSet(found) \subseteq {MCWord, I!Trim(MCOther, I!Spaces)}
           /\ raw = MCOffset(0) \o MCOffset(8) => found = <<MCWord>>

\* Old documents: what is in tags, too short or hardly letters is not text.
ASSUME TagsAreNotText ==
    \A before, inside, after \in {<<>>, MCWord, <<49, 50, 51, 52>>, <<65, 66>>} :
        I!XmlText(before \o <<60>> \o inside \o <<62>> \o after)
          = (IF before = MCWord THEN <<MCWord>> ELSE <<>>) \o (IF after = MCWord THEN <<MCWord>> ELSE <<>>)

\* Each paragraph is a line, once, from the first one of the content on; the XML
\* is read only when no entry gives text, and an unreadable entry costs its own.
ASSUME ParagraphsOnce ==
    LET entry == MCChunk(MCRecord(<<MCStored(<<MCWord, MCOther, MCWord>>)>>))
        lines == <<[line |-> 2, text |-> MCWord], [line |-> 3, text |-> <<69>>], [line |-> 4, text |-> <<70>>]>>
        xml == <<MCWord \o MCWord, MCWord>>
    IN /\ I!DocumentLines(<<entry, MCBroken, entry>>, xml, <<>>) = lines
       /\ I!DocumentLines(<<MCBroken>>, xml, <<"preview">>)
            = <<[line |-> 1, text |-> "preview"], [line |-> 2, text |-> xml[1]]>>
       /\ I!DocumentLines(<<>>, <<MCBroken, MCWord>>, <<>>) = <<>>

=============================================================================
