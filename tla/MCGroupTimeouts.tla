-------------------------- MODULE MCGroupTimeouts --------------------------
(* Small instances of GroupTimeouts: the last request is another source's.   *)
EXTENDS GroupTimeouts

CONSTANTS s, t, g1, g2, g3

OneSource == [r \in Requests |-> s]
TwoSources == [r \in Requests |-> IF r = MaxRequests THEN t ELSE s]
=============================================================================
