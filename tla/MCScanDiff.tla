----------------------------- MODULE MCScanDiff -----------------------------
(***************************************************************************)
(* A small instance of ScanDiff: a plain file that an older find-scan has  *)
(* indexed, an archive whose first version has a member, a scan of         *)
(* everything with --upgrade and one scoped to the plain file.             *)
(***************************************************************************)
EXTENDS ScanDiff

CONSTANTS plainFile, zipFile, member, full, sub

MCScope == [s \in Scanners |-> IF s = sub THEN {plainFile} ELSE Files]
MCMembersOf == [v \in 1..(MaxOps + 1) |-> IF v = 1 THEN {member} ELSE {}]

=============================================================================
