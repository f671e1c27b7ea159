-------------------------- MODULE MCResumableUpload --------------------------
(***************************************************************************)
(* Small instances of ResumableUpload: a file of two chunks that becomes   *)
(* one of one chunk, or of two others.                                     *)
(***************************************************************************)
EXTENDS ResumableUpload

MCSize == [v \in Version |-> IF v = 1 THEN 2 ELSE 1]

=============================================================================
