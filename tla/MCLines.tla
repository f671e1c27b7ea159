------------------------------- MODULE MCLines -------------------------------
(***************************************************************************)
(* The lines of a file, from the extractor to the reader, on every small   *)
(* input: Normalisation and LineNumbers have no state, so what they        *)
(* promise is assumed of the bounded inputs below and evaluated once.      *)
(***************************************************************************)
EXTENDS LineNumbers
LOCAL INSTANCE SequencesExt
LOCAL INSTANCE TLC

SeqsUpTo(S, n) == UNION {[1 .. k -> S] : k \in 0 .. n}

\* A row whose words have the given lengths; its characters are all different.
MCRow(lengths) ==
    [i \in 1 .. Len(lengths) |-> [c \in 1 .. lengths[i] |-> 10 * i + c]]
MCRows == {MCRow(ls) : ls \in SeqsUpTo(1 .. 5, 3)}

\* No row is wider than the width asked for, the characters are all there in
\* their order, a row that fits stays as it is, and no row disappears.
ASSUME WrapKeepsWords ==
    \A row \in MCRows : \A max \in 1 .. 4 :
        LET rows == ApplyWordWrap(<<row, <<>>, row, <<>> >>, max)
        IN  /\ \A i \in 1 .. Len(rows) : WordsLength(rows[i]) <= max
            /\ CharsOf(rows) = CharsOf(<<row, row>>)
            /\ WordsLength(row) <= max => rows = StrLines(<<row, <<>>, row, <<>> >>)
            /\ Len(rows) >= 2

-----------------------------------------------------------------------------
(* A batch of two files, of which a formatter may know one or both.        *)

MCWide == << <<1, 1>>, <<1>> >>      \* a row of two words, four characters wide
MCFile(ext, mark, numbers) ==
    [ext |-> ext,
     lines |-> << IndexLine(LINE_PATH, << << <<ext>> >> >>) >>
               \o [i \in 1 .. Len(numbers) |->
                      IndexLine(numbers[i], << << <<mark, i>>, <<mark>> >> >>)]]
MCFiles ==
    {<<MCFile("js", 8, n1), MCFile(e, 9, n2)>> :
        e \in {"js", "json", "txt"}, n1 \in {<<2>>, <<3, 2>>}, n2 \in {<< >>, <<2, 4>>}}

MCFormatters ==
    {<< [mode |-> m1, extensions |-> {"js"}], [mode |-> m2, extensions |-> x] >> :
        m1 \in {"batch", "stdin"}, m2 \in {"batch", "stdin"}, x \in {{"js", "txt"}, {"json"}}}
MCConfigs ==
    {[max_line_length |-> max, no_wrap_extensions |-> {"md"}, formatters |-> fs] :
        max \in {0, 3}, fs \in MCFormatters}

MCLeft == {"formatted", "same", "wiped", "failed"}
\* The programs answer each in its own way, but the same way in every mode.
MCRuns ==
    {[parses |-> parses, batch |-> <<b1, b2>>, stdin |-> <<w1, w2>>,
      wrote |-> << <<w1, w2>>, <<w2, w1>> >>, each |-> << <<w2, w1>>, <<w1, w2>> >>] :
        parses \in BOOLEAN, b1 \in {"failed", "timeout", "exit"}, b2 \in {"timeout", "exit"},
        w1 \in MCLeft, w2 \in MCLeft}

\* Whatever the formatters do, each file keeps its own path and characters and is
\* numbered without a gap; a text never becomes empty; and unless it is exempt it
\* fits the width.  Without a width nothing is touched at all.
ASSUME BatchKeepsFiles ==
    \A files \in MCFiles : \A cfg \in MCConfigs : \A run \in MCRuns :
        LET after == NormalizeBatch(files, cfg, run)
            own(cs) == SelectSeq(cs, LAMBDA c : c \in {8, 9})
            chars(f) == own(CharsOf(ContentText(f.lines)))
        IN  IF cfg.max_line_length = 0 THEN after = files
            ELSE \A i \in 1 .. Len(files) :
                    /\ Normalised(files[i].lines, after[i].lines)
                    /\ chars(after[i]) = chars(files[i])
                    /\ ~IsWrapExempt(files[i], cfg) =>
                         \A j \in 1 .. Len(Content(after[i].lines)) :
                            WordsLength(Content(after[i].lines)[j].content[1]) <= 3

\* A file whose formatter fails is not wrapped either: its extension is exempt.
ASSUME FailedFormatterLeavesWide ==
    \E cfg \in MCConfigs : \E run \in MCRuns :
        LET f == MCFile("js", 8, <<2>>)
            after == NormalizeBatch(<<f, f>>, cfg, run)[1]
        IN  /\ cfg.max_line_length = 3 /\ after = f
            /\ WordsLength(f.lines[2].content[1]) > 3

-----------------------------------------------------------------------------
(* Files of up to four rows: two different rows, an empty one, and one that *)
(* is no UTF-8.                                                            *)

MCPath == <<7>>
MCX == << <<1>> >>
MCY == << <<2>> >>
MCTexts == SeqsUpTo({MCX, MCY, << >>}, 4)
MCBytes == SeqsUpTo({MCX, << >>, Undecodable}, 3)
MCPlainConfig(max) == [max_line_length |-> max, no_wrap_extensions |-> {}, formatters |-> << >>]
MCNoRun == [parses |-> FALSE]
MCNormalised(lines, max) ==
    NormalizeLines([ext |-> "txt", lines |-> lines], MCPlainConfig(max), MCNoRun)
MCIndexed(lines, max) == Indexed(MCNormalised(BuildIndexFile(MCPath, lines), max))

\* A text that can be decoded is shown as it was indexed, with and without
\* normalisation, on whole pages, partial pages and windows; and so is one that
\* came from memory.
ASSUME TextsAreShown ==
    /\ \A rows \in MCTexts : \A max \in {0, 9} :
        LET file == MCIndexed(ExtractText(rows), max)
        IN  /\ HitsShowTheirLines(file)
            /\ \A limit \in {1, 2, 3, 9} : PagesCover(file, limit)
            /\ \A center \in 0 .. 5 : \A window \in 0 .. 2 : ContextShows(file, center, window)
            /\ \A i \in 1 .. Len(GetFileLines(file)) : GetFileLines(file)[i].line_number = i - 1
            /\ GetFileLinesPaged(file, 0, NoText).lines = GetFileLines(file)
    /\ \A rows \in MCBytes : HitsShowTheirLines(MCIndexed(ExtractBytes(rows, MCY), 0))

\* Where a row could not be decoded, normalisation closes the gap in the numbers;
\* without it the hits behind the gap show the line after theirs.
ASSUME GapsNeedNormalisation ==
    /\ \A rows \in MCBytes : HitsShowTheirLines(MCIndexed(ExtractText(rows), 9))
    /\ ~HitsShowTheirLines(MCIndexed(ExtractText(<<Undecodable, MCX, << >>, MCX>>), 0))

\* A line with a line break in it shifts what follows, and the last rows of the
\* blob are on no page: line_count counts lines, not rows.
ASSUME BreaksShift ==
    LET lines == <<IndexLine(LINE_METADATA, <<MCX, MCX>>), IndexLine(2, <<MCY>>)>>
        file == Indexed(BuildIndexFile(MCPath, lines))
    IN  ~HitsShowTheirLines(file) /\ ~PagesCover(file, 9)

\* An image is shown by its path; its metadata is the line after that.
ASSUME ImageContextIsItsPath ==
    LET file == Indexed(BuildIndexFile(MCPath, <<IndexLine(LINE_METADATA, <<MCX>>)>>))
    IN  GetContext(file, "image", 1, 2)[1].content # MCX

=============================================================================
