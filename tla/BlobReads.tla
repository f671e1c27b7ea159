----------------------------- MODULE BlobReads -----------------------------
(***************************************************************************)
(* SqliteContentStore: a blob is cut into chunk rows, and get_lines reads  *)
(* it back over a pooled connection with two statements, beside the        *)
(* archive worker's put_overwrite (a delete and a put, each under the      *)
(* write lock) and the deletes of a compaction.  The pool is ReadPool; one *)
(* key stands for all, because no statement touches the rows of two keys   *)
(* except compaction's, which deletes each key's rows independently.       *)
(*                                                                         *)
(* A line is an element of Lines and Length its size in bytes; Empty is    *)
(* the only line of length 0.  A text is a sequence of lines joined by     *)
(* '\n', so <<Empty>> and <<>> are the same, empty, text.  Compression is  *)
(* undone by decode_chunk and is left out.                                 *)
(***************************************************************************)
EXTENDS ReadPool, SequencesExt

CONSTANTS
    Lines, Length, Empty,
    Blobs,        \* the texts the archive worker stores, as line sequences
    Ranges,       \* the ranges <<lo, hi>> readers ask for
    chunk_size,
    MaxPuts,      \* bound: calls of put_overwrite
    MaxDeletes    \* bound: compactions that find the key orphaned

ASSUME BlobAssumption ==
    /\ Length \in [Lines -> Nat]
    /\ \A l \in Lines : Length[l] = 0 <=> l = Empty
    /\ Empty \in Lines
    /\ Blobs \subseteq Seq(Lines)
    /\ Ranges \subseteq Nat \X Nat
    /\ chunk_size \in Nat
    /\ MaxPuts \in Nat /\ MaxDeletes \in Nat

-----------------------------------------------------------------------------
(* Chunking.                                                                *)

\* str::len of the joined text.
Size(text) ==
    FoldLeft(LAMBDA n, l : n + Length[l], 0, text)
        + IF text = <<>> THEN 0 ELSE Len(text) - 1

\* str::lines: one empty line at the end is not a line of its own.
lines(text) ==
    IF text # <<>> /\ Last(text) = Empty THEN Front(text) ELSE text

\* The local variables of chunk_blob; first_in_chunk is current = <<>>, and
\* current.is_empty() is Size(current) = 0.
NoChunk == [chunks |-> <<>>, current |-> <<>>, start |-> 0]

Flushed(c) ==
    IF Size(c.current) = 0 THEN c
    ELSE [chunks |-> Append(c.chunks,
              [start_line |-> c.start,
               end_line |-> c.start + Len(c.current) - 1,
               data |-> c.current]),
          current |-> <<>>,
          start |-> c.start + Len(c.current)]

\* A line that does not fit starts a new chunk, unless the text so far is empty.
AddLine(c, l, size) ==
    LET d == IF Size(Append(c.current, l)) > size THEN Flushed(c) ELSE c
    IN [d EXCEPT !.current = Append(@, l)]

chunk_blob(text, size) ==
    Flushed(FoldLeft(LAMBDA c, l : AddLine(c, l, size), NoChunk, lines(text))).chunks

\* The rows put inserts: a text without chunks gets one row with no data.
Rows(text, size) ==
    IF chunk_blob(text, size) = <<>>
    THEN {[start_line |-> 0, end_line |-> 0, data |-> <<>>]}
    ELSE Range(chunk_blob(text, size))

\* query_chunks_for_range and the loop over its rows: the lines of the range
\* with their positions.
LinesOf(rows, lo, hi) ==
    UNION {{<<r.start_line + i - 1, lines(r.data)[i]>> :
                i \in {j \in 1..Len(lines(r.data)) :
                           r.start_line + j - 1 \in lo..hi}} :
              r \in {q \in rows : q.start_line <= hi /\ q.end_line >= lo}}

\* What a text must give for a range, and all it may give: the lines that are
\* not empty, each at its position; an empty line at the end of a chunk may
\* be missing.
InPlace(text, r, result) ==
    LET all == {<<i - 1, text[i]>> : i \in {j \in DOMAIN text : j - 1 \in r[1]..r[2]}}
    IN {p \in all : p[2] # Empty} \subseteq result /\ result \subseteq all

\* Cutting and reading back is the identity on the texts and ranges.
ChunkingIsIdentity(texts, ranges, size) ==
    \A text \in texts, r \in ranges :
        InPlace(text, r, LinesOf(Rows(text, size), r[1], r[2]))

-----------------------------------------------------------------------------
VARIABLES
    blobs,      \* the rows of the key in blobs.db
    writing,    \* the blobs put_overwrite has deleted for and not put yet
    versions,   \* the blobs put so far, in order
    deletes,    \* deletes by compaction so far
    step,       \* where get_lines is: Out, Held, Exists or Answered
    answer      \* its result: a range and a set of lines, or None

rvars == <<blobs, writing, versions, deletes, step, answer>>
allvars == <<vars, rvars>>

None == [range |-> <<0, 0>>, found |-> FALSE, lines |-> {}]

ReadInit ==
    /\ Init
    /\ blobs = {}
    /\ writing = <<>>
    /\ versions = <<>>
    /\ deletes = 0
    /\ step = [t \in Threads |-> "Out"]
    /\ answer = [t \in Threads |-> None]

\* Mutant of Put: the rows are inserted without a transaction, the last one
\* in a later step.
PutInTwoSteps ==
    /\ writing # <<>>
    /\ \/ /\ blobs = {}
          /\ \E r \in Rows(writing[1], chunk_size) : blobs' = Rows(writing[1], chunk_size) \ {r}
          /\ UNCHANGED writing
       \/ /\ blobs # {}
          /\ blobs' = Rows(writing[1], chunk_size)
          /\ writing' = <<>>
    /\ versions' = IF writing[1] \in Range(versions) THEN versions
                   ELSE Append(versions, writing[1])
    /\ UNCHANGED <<vars, deletes, step, answer>>

\* put_overwrite deletes and puts, taking the write lock twice; there is one
\* archive worker.
Overwrite(b) ==
    /\ writing = <<>>
    /\ Len(versions) < MaxPuts
    /\ blobs' = {}
    /\ writing' = <<b>>
    /\ UNCHANGED <<vars, versions, deletes, step, answer>>

Put ==
    /\ writing # <<>>
    /\ blobs' = IF blobs = {} THEN Rows(writing[1], chunk_size) ELSE blobs
    /\ versions' = IF blobs = {} THEN Append(versions, writing[1]) ELSE versions
    /\ writing' = <<>>
    /\ UNCHANGED <<vars, deletes, step, answer>>

\* delete_orphan_blobs when the key is not live.
CompactDeletes ==
    /\ blobs # {}
    /\ deletes < MaxDeletes
    /\ deletes' = deletes + 1
    /\ blobs' = {}
    /\ UNCHANGED <<vars, writing, versions, step, answer>>

\* get_lines: a call that gets a connection goes on, one whose open fails
\* returns the error, one at the cap waits.
Enter(t) ==
    /\ \/ /\ AcquireIdle(t) \/ AcquireNew(t)
          /\ step' = [step EXCEPT ![t] = "Held"]
       \/ /\ OpenFails(t) \/ Wait(t)
          /\ UNCHANGED step
    /\ UNCHANGED <<blobs, writing, versions, deletes, answer>>

BlobExists(t) ==
    /\ step[t] = "Held"
    /\ step' = [step EXCEPT ![t] = IF blobs = {} THEN "Answered" ELSE "Exists"]
    /\ UNCHANGED <<vars, blobs, writing, versions, deletes, answer>>

Query(t) ==
    /\ step[t] = "Exists"
    /\ step' = [step EXCEPT ![t] = "Answered"]
    /\ \E r \in Ranges :
        answer' = [answer EXCEPT ![t] =
            [range |-> r, found |-> TRUE, lines |-> LinesOf(blobs, r[1], r[2])]]
    /\ UNCHANGED <<vars, blobs, writing, versions, deletes>>

\* The guard is dropped when get_lines returns.
Leave(t) ==
    /\ step[t] = "Answered"
    /\ Release(t)
    /\ step' = [step EXCEPT ![t] = "Out"]
    /\ answer' = [answer EXCEPT ![t] = None]
    /\ UNCHANGED <<blobs, writing, versions, deletes>>

ReadNext ==
    \/ Put
    \/ CompactDeletes
    \/ \E b \in Blobs : Overwrite(b)
    \/ \E t \in Threads :
        \/ Enter(t)
        \/ BlobExists(t)
        \/ Query(t)
        \/ Leave(t)
        \/ SpuriousWakeup(t) /\ UNCHANGED rvars

ReadSpec == ReadInit /\ [][ReadNext]_allvars

\* A call that has a connection, or was woken, is a running thread.
ReadFairness ==
    \A t \in Threads :
        /\ WF_allvars(t \in woken /\ Enter(t))
        /\ WF_allvars(BlobExists(t) \/ Query(t) \/ Leave(t))

ReadFairSpec == ReadSpec /\ ReadFairness

-----------------------------------------------------------------------------
(* Properties.                                                              *)

\* A reader gets the lines of one stored text, whole and each at its own
\* position, whatever puts, overwrites and compactions run beside it; or no
\* lines, when the blob was deleted between its two statements.
LinesInPlace ==
    \A t \in Threads : answer[t].found =>
        \/ answer[t].lines = {}
        \/ \E i \in DOMAIN versions : InPlace(versions[i], answer[t].range, answer[t].lines)

\* What the comment in chunk_blob says instead, that get_lines reconstructs the
\* lines exactly: a key that is found has all the lines of the range.  It is
\* violated: lines() drops an empty line at the end of a chunk, and a reader
\* between the two halves of put_overwrite finds the key and no lines.
LinesExact ==
    \A t \in Threads : answer[t].found =>
        \E i \in DOMAIN versions :
            answer[t].lines =
                {<<j - 1, lines(versions[i])[j]>> :
                    j \in {k \in DOMAIN lines(versions[i]) :
                               k - 1 \in answer[t].range[1]..answer[t].range[2]}}

=============================================================================
