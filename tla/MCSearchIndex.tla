---------------------------- MODULE MCSearchIndex ----------------------------
(***************************************************************************)
(* A small instance of SearchIndex: a file a and an archive z with one     *)
(* member; one content that is read differently as a file and as a member  *)
(* (two versions of the extractor), and one other, which is also that of   *)
(* the archive.                                                            *)
(***************************************************************************)
EXTENDS SearchIndex

CONSTANTS plainFile, zipFile, member, hashG, hashH, wordU, wordV

MCExtractions ==
    {<<<<plainFile>>, hashG, {wordU, wordV}>>, <<<<plainFile>>, hashH, {wordV}>>,
     <<<<zipFile>>, hashH, {}>>,
     <<<<zipFile, member>>, hashG, {wordU}>>}

=============================================================================
