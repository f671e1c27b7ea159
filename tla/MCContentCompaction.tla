------------------------ MODULE MCContentCompaction ------------------------
(***************************************************************************)
(* Small instances of ContentCompaction: two sources with the same two     *)
(* path names and two hashes, so that a hash can move between paths and be *)
(* shared between sources.  The lines a hash stands for, and the reading of *)
(* them, have no state: MCLines assumes what they promise.                 *)
(***************************************************************************)
EXTENDS ContentCompaction, MCLines, MCTree, TLC

CONSTANTS s, t, p, q, h1, h2, scheduler, admin

MCSymmetry == Permutations({s, t}) \cup Permutations({p, q}) \cup Permutations({h1, h2})
                \cup Permutations({scheduler, admin})

=============================================================================
