---------------------------- MODULE Normalisation ----------------------------
(***************************************************************************)
(* What the server does to the lines of a text-like file before it indexes *)
(* them: a pretty-printer or a configured formatter rewrites the text,     *)
(* long lines are wrapped, and the lines are numbered afresh.  A batch     *)
(* formatter runs once over all its files, one by one after a timeout.     *)
(*                                                                         *)
(* A row is a sequence of words and a word a sequence of characters; a     *)
(* text is a sequence of rows.  The content of an index line is a text: a  *)
(* line may have line breaks in it.  What the programs answer is given by  *)
(* a record "run".                                                         *)
(***************************************************************************)
EXTENDS Naturals, Sequences
LOCAL INSTANCE SequencesExt
LOCAL INSTANCE TLC

LINE_PATH == 0
LINE_METADATA == 1
LINE_CONTENT_START == 2

CONSTANT NoText     \* a formatter that gives nothing

IndexLine(n, text) == [line_number |-> n, content |-> text]
IsContent(line) == line.line_number >= LINE_CONTENT_START
ByNumber(lines) == SortSeq(lines, LAMBDA l1, l2 : l1.line_number < l2.line_number)

Content(lines) == ByNumber(SelectSeq(lines, IsContent))
Slots(lines) == SelectSeq(lines, LAMBDA l : ~IsContent(l))

\* The contents one below the other.
ContentText(lines) == FoldLeft(LAMBDA text, l : text \o l.content, << >>, Content(lines))

\* str::lines: an empty last row is no line.
StrLines(text) == IF text # << >> /\ Last(text) = << >> THEN Front(text) ELSE text

IsBlank(text) == \A i \in 1 .. Len(text) : text[i] = << >>

\* The first content line is number 2, whatever the numbers were before.
Renumbered(rows) == [i \in 1 .. Len(rows) |-> IndexLine(i - 1 + LINE_CONTENT_START, <<rows[i]>>)]

-----------------------------------------------------------------------------
(* Word wrap                                                               *)

WordsLength(words) ==
    FoldLeft(LAMBDA n, w : n + Len(w) + 1, 0, words) - IF words = << >> THEN 0 ELSE 1

\* A word too long for a line, cut into pieces of max characters.
HardSplit(word, max) ==
    [i \in 1 .. (Len(word) + max - 1) \div max |->
        SubSeq(word, (i - 1) * max + 1, IF i * max < Len(word) THEN i * max ELSE Len(word))]

\* done: the rows that are full; current: the words of the one being filled.
AddWord(acc, word, max) ==
    LET flushed == IF acc.current = << >> THEN acc.done ELSE Append(acc.done, acc.current)
        pieces == HardSplit(word, max)
    IN  IF Len(word) > max
        THEN [done |-> flushed \o [i \in 1 .. Len(pieces) - 1 |-> <<pieces[i]>>],
              current |-> <<Last(pieces)>>]
        ELSE IF acc.current = << >> THEN [acc EXCEPT !.current = <<word>>]
        ELSE IF WordsLength(acc.current) + 1 + Len(word) <= max
        THEN [acc EXCEPT !.current = Append(@, word)]
        ELSE [done |-> flushed, current |-> <<word>>]

WrapAtWords(row, max) ==
    LET end == FoldLeft(LAMBDA acc, word : AddWord(acc, word, max),
                        [done |-> << >>, current |-> << >>], row)
    IN  IF end.current = << >> THEN end.done ELSE Append(end.done, end.current)

WrapRow(row, max) ==
    IF WordsLength(row) <= max THEN <<row>>
    ELSE IF WrapAtWords(row, max) = << >> THEN << << >> >> ELSE WrapAtWords(row, max)

ApplyWordWrap(text, max) == FoldLeft(LAMBDA rows, row : rows \o WrapRow(row, max), << >>, StrLines(text))

-----------------------------------------------------------------------------
(* One file                                                                *)

\* A program's rewriting of a text: here it puts a row of its own in front.
Format(k, text) == << << <<k>> >> >> \o text

Handles(fmt, file) == file.ext \in fmt.extensions

\* A configured formatter exempts its extensions whether or not it succeeds.
IsWrapExempt(file, cfg) ==
    \/ file.ext \in cfg.no_wrap_extensions
    \/ \E k \in 1 .. Len(cfg.formatters) : Handles(cfg.formatters[k], file)

\* The first stdin formatter that exits with success and prints something.
TryExternalFormatters(text, file, cfg, run) ==
    LET works == {k \in 1 .. Len(cfg.formatters) :
                    /\ cfg.formatters[k].mode = "stdin" /\ Handles(cfg.formatters[k], file)
                    /\ run.stdin[k] = "formatted"}
    IN  IF works = {} THEN NoText
        ELSE LET k == CHOOSE k \in works : \A j \in works : k <= j
             IN  Format(k, text)

\* JSON and TOML, when they parse.
TryBuiltinPretty(text, file, run) ==
    IF file.ext \in {"json", "toml"} /\ run.parses THEN Format(0, text) ELSE NoText

NormalizeLines(file, cfg, run) ==
    LET text == ContentText(file.lines)
        pretty == TryBuiltinPretty(text, file, run)
        formatted == IF pretty # NoText THEN pretty ELSE TryExternalFormatters(text, file, cfg, run)
        working == IF formatted # NoText THEN formatted ELSE text
    IN  IF cfg.max_line_length = 0 THEN file.lines
        ELSE IF Content(file.lines) = << >> THEN Slots(file.lines)
        ELSE Slots(file.lines) \o Renumbered(IF IsWrapExempt(file, cfg) THEN StrLines(working)
                                             ELSE ApplyWordWrap(working, cfg.max_line_length))

-----------------------------------------------------------------------------
(* A batch                                                                 *)

\* What a batch formatter left in the file is read back; an empty file is not.
ApplyFormattedText(acc, i, text) ==
    IF IsBlank(text) THEN acc
    ELSE [files |-> [acc.files EXCEPT ![i].lines = Slots(@) \o Renumbered(StrLines(text))],
          handled |-> acc.handled \cup {i}]

\* What program k leaves of the file's text: rewritten, as it was (it could not
\* parse it, or was not run to its end), wiped, or nothing that can be read.
LeftBehind(k, text, how) ==
    CASE how = "formatted" -> Format(k, text)
      [] how = "same" -> text
      [] how \in {"wiped", "unreadable", "failed"} -> << >>

\* After a timeout each file gets a run of its own.
ApplyPerFile(acc, k, matching, run) ==
    FoldLeft(LAMBDA a, i : ApplyFormattedText(a, i, LeftBehind(k, ContentText(a.files[i].lines), run.each[k][i])),
             acc, matching)

ApplyBatchFormatter(acc, k, cfg, run) ==
    LET matching == SelectSeq([i \in 1 .. Len(acc.files) |-> i],
                       LAMBDA i : i \notin acc.handled /\ Handles(cfg.formatters[k], acc.files[i]))
    IN  CASE run.batch[k] = "failed" -> acc
          [] run.batch[k] = "timeout" -> ApplyPerFile(acc, k, matching, run)
          [] run.batch[k] = "exit" ->
                FoldLeft(LAMBDA a, i : ApplyFormattedText(a, i,
                             LeftBehind(k, ContentText(acc.files[i].lines), run.wrote[k][i])),
                         acc, matching)

\* Batch formatters; then the other files one by one; then the width of what the
\* batch formatters wrote.
NormalizeBatch(files, cfg, run) ==
    LET batch == SelectSeq([k \in 1 .. Len(cfg.formatters) |-> k],
                           LAMBDA k : cfg.formatters[k].mode = "batch")
        end == FoldLeft(LAMBDA acc, k : ApplyBatchFormatter(acc, k, cfg, run),
                        [files |-> files, handled |-> {}], batch)
        wrapped(f) == Slots(f.lines)
                      \o Renumbered(ApplyWordWrap(ContentText(f.lines), cfg.max_line_length))
    IN  IF cfg.max_line_length = 0 THEN files
        ELSE [i \in 1 .. Len(files) |->
                [end.files[i] EXCEPT !.lines =
                    IF i \notin end.handled THEN NormalizeLines(end.files[i], cfg, run)
                    ELSE IF IsWrapExempt(end.files[i], cfg) THEN @
                    ELSE wrapped(end.files[i])]]

-----------------------------------------------------------------------------
(* What a normalised file is                                               *)

CharsOf(text) ==
    FoldLeft(LAMBDA cs, row : cs \o FoldLeft(LAMBDA c, w : c \o w, << >>, row), << >>, text)

\* Path and metadata are as they were; the content is numbered 2, 3, ... with
\* one row to a number.
Normalised(before, after) ==
    /\ Slots(after) = Slots(before)
    /\ LET content == SelectSeq(after, IsContent)
       IN  \A i \in 1 .. Len(content) :
              /\ content[i].line_number = i - 1 + LINE_CONTENT_START
              /\ Len(content[i].content) = 1

=============================================================================
