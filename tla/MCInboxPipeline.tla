-------------------------- MODULE MCInboxPipeline --------------------------
(***************************************************************************)
(* Small instances of InboxPipeline.  Paths a and b belong to source s, z  *)
(* to source t.  h1 and h2 are two versions of a's content, g the content  *)
(* of b, k that of z.                                                      *)
(***************************************************************************)
EXTENDS InboxPipeline

CONSTANTS a, b, z, s, t, h1, h2, g, k

MCPaths == {a, b, z}
MCSourceOf == [p \in MCPaths |-> IF p = z THEN t ELSE s]

F(p, h, m) == [path |-> p, hash |-> h, mtime |-> m, force |-> FALSE]
Body(src, dels, rens, fs) ==
    [source |-> src, deletes |-> dels, renames |-> rens, files |-> fs]

\* Upserts of two versions of a with the same mtime, a two-file request, a
\* delete, and a delete with an upsert of the other path.
CrashBodies ==
    { Body(s, {}, {}, {F(a, h1, 1)}),
      Body(s, {}, {}, {F(a, h2, 1), F(b, g, 1)}),
      Body(s, {a}, {}, {}),
      Body(s, {b}, {}, {F(a, h1, 2)}) }

\* A request with two files, a delete of one of them, and a rename of the other
\* to it with an upsert of the old path.  Only one of the files has content for
\* phase 2 (the others are indexed by name): the order of rows is what is asked.
OrderBodies ==
    { Body(s, {}, {}, {F(b, g, 1), F(a, NoHash, 1)}),
      Body(s, {b}, {}, {}),
      Body(s, {}, {<<a, b>>}, {F(a, NoHash, 3)}) }

\* Two sources, so that a group switches sessions; the file of one has content.
TwoSourceBodies ==
    { Body(s, {a}, {}, {F(b, g, 1)}),
      Body(t, {}, {}, {F(z, NoHash, 1)}) }

=============================================================================
