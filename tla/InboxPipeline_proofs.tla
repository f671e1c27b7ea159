------------------------ MODULE InboxPipeline_proofs ------------------------
(***************************************************************************)
(* Proofs about InboxPipeline, for every value of its constants: any       *)
(* number of requests, paths, sources, bodies, any capacities, any kinds   *)
(* and number of faults.                                                   *)
(***************************************************************************)
EXTENDS InboxPipeline, FiniteSetTheorems, WellFoundedInduction, TLAPS

\* Whatever has, or had, an inbox file was submitted, with one of the bodies;
\* what is pending has had none; what is still being written was so when a
\* later request got its id.
OnlySubmitted ==
    /\ inbox \cup failed \cup durable \cup uploading \cup pending
          \subseteq {r \in Requests : r < nextReq}
    /\ \A r \in Requests : r < nextReq => body[r] \in Bodies
    /\ pending \cap (inbox \cup failed \cup durable) = {}
    /\ \A r \in Requests : \A q \in beside[r] : q < r
    /\ \A q \in pending \cup uploading, r \in Requests : q < r /\ r < nextReq => q \in beside[r]

\* What is uploaded or accepted is in one of three places.
Accounted == uploading \subseteq inbox \cup failed \cup durable

\* An inbox file and a payload depend on a COMMIT: before it the payloads
\* belong to buffered requests, after it everything still buffered is durable.
CoveredByCommit ==
    /\ pc = "flush" => deletable \cup pendingArchive \subseteq durable
    /\ pc # "flush" => pendingArchive \subseteq deletable

\* Rows are written, and transactions committed, in an open session only.
SessionOpen ==
    pc \in {"deletes", "renames", "files", "done", "commit", "flush"} =>
        sesSource # NoSource

\* The part of the inductive invariant that says where requests and their
\* effects are.
DurabilityInv ==
    /\ OnlySubmitted
    /\ Accounted
    /\ NoAcceptedLoss
    /\ PayloadAfterCommit
    /\ CoveredByCommit
    /\ SessionOpen

\* The inductive invariant.
IInv ==
    /\ TypeOK
    /\ DurabilityInv
    /\ SingleFlight

-----------------------------------------------------------------------------
(* What a request does to the rows yields rows.                             *)

Rows == [Paths -> Row \cup {NoRow}]

\* Deleting paths from a table of rows gives a table of rows.
LEMMA DeletedType ==
    ASSUME NEW d \in Rows, NEW ps
    PROVE  Deleted(d, ps) \in Rows
BY DEF Deleted, Rows

\* Renaming paths of a table of rows gives a table of rows.
LEMMA RenamedType ==
    ASSUME NEW d \in Rows, NEW rns \in SUBSET (Paths \X Paths)
    PROVE  Renamed(d, rns) \in Rows
<1>1. ASSUME NEW p \in Paths
      PROVE  (IF \E rn \in rns : Moves(d, rn) /\ rn[2] = p
              THEN d[(CHOOSE rn \in rns : Moves(d, rn) /\ rn[2] = p)[1]]
              ELSE IF \E rn \in rns : Moves(d, rn) /\ rn[1] = p THEN NoRow ELSE d[p])
                \in Row \cup {NoRow}
  <2>1. CASE \E rn \in rns : Moves(d, rn) /\ rn[2] = p
    <3> DEFINE chosen == CHOOSE rn \in rns : Moves(d, rn) /\ rn[2] = p
    <3>1. chosen \in Paths \X Paths
      BY <2>1
    <3>2. chosen[1] \in Paths
      BY <3>1
    <3> QED
      BY <2>1, <3>2 DEF Rows
  <2>2. CASE ~ \E rn \in rns : Moves(d, rn) /\ rn[2] = p
    BY <2>2 DEF Rows
  <2> QED
    BY <2>1, <2>2
<1> QED
  BY <1>1 DEF Renamed, Rows

\* Upserting a file gives a table of rows.
LEMMA UpsertedType ==
    ASSUME NEW d \in Rows, NEW f \in File
    PROVE  Upserted(d, f) \in Rows
<1>1. [hash |-> f.hash, mtime |-> f.mtime] \in Row
  BY DEF File, Row
<1> QED
  BY <1>1 DEF Upserted, Rows

\* The filename-only fallback of a file is a file.
LEMMA FilenameOnlyType ==
    ASSUME NEW f \in File
    PROVE  FilenameOnly(f) \in File
BY DEF FilenameOnly, File

\* Applying a whole request gives a table of rows.
LEMMA AppliedBodyType ==
    ASSUME NEW d \in Rows, NEW b \in Bodies
    PROVE  AppliedBody(d, b) \in Rows
<1> DEFINE moved == Renamed(Deleted(d, b.deletes), b.renames)
<1>1. moved \in Rows
  BY DeletedType, RenamedType, BodiesAssumption
<1>2. ASSUME NEW p \in Paths
      PROVE  (IF \E f \in b.files : f.path = p
              THEN Upserted(moved, CHOOSE f \in b.files : f.path = p)[p]
              ELSE moved[p]) \in Row \cup {NoRow}
  <2>1. CASE \E f \in b.files : f.path = p
    <3> DEFINE chosen == CHOOSE f \in b.files : f.path = p
    <3>1. chosen \in File
      BY <2>1, BodiesAssumption
    <3>2. Upserted(moved, chosen) \in Rows
      BY <1>1, <3>1, UpsertedType
    <3> HIDE DEF moved
    <3> QED
      BY <2>1, <3>2 DEF Rows
  <2>2. CASE ~ \E f \in b.files : f.path = p
    <3> HIDE DEF moved
    <3> QED
      BY <2>2, <1>1 DEF Rows
  <2> QED
    BY <2>1, <2>2
<1>3. AppliedBody(d, b) =
        [p \in Paths |-> IF \E f \in b.files : f.path = p
                         THEN Upserted(moved, CHOOSE f \in b.files : f.path = p)[p]
                         ELSE moved[p]]
  BY DEF AppliedBody
<1> HIDE DEF moved
<1> QED
  BY <1>2, <1>3 DEF Rows

\* Every step keeps the types.
LEMMA TypeStep ==
    ASSUME IInv, Next
    PROVE  TypeOK'
<1>1. ASSUME NEW b \in Bodies, Submit(b) PROVE TypeOK'
  BY ConstantsAssumption, <1>1
  DEF IInv, DurabilityInv, OnlySubmitted, SessionOpen, SingleFlight, Held, TypeOK,
      Submit, Requests, diskVars, routerVars, workerVars, sessionVars, archVars
<1>2. ASSUME NEW r \in Requests, CreateFile(r) \/ SubmitDone(r) PROVE TypeOK'
  <2>1. CASE CreateFile(r)
    BY <2>1
    DEF IInv, TypeOK, CreateFile, routerVars, workerVars, sessionVars, archVars
  <2>2. CASE SubmitDone(r)
    BY AppliedBodyType, <2>2
    DEF IInv, DurabilityInv, OnlySubmitted, SessionOpen, SingleFlight, Held, TypeOK,
        SubmitDone, Rows, routerVars, workerVars, sessionVars, archVars
  <2> QED
    BY <1>2, <2>1, <2>2
<1>3. CASE RouterScan
  BY <1>3
  DEF IInv, DurabilityInv, OnlySubmitted, SessionOpen, SingleFlight, Held, TypeOK,
      RouterScan, diskVars, clientVars, workerVars, sessionVars, archVars
<1>4. CASE RouterSend
  BY <1>4
  DEF IInv, DurabilityInv, OnlySubmitted, SessionOpen, SingleFlight, Held, TypeOK,
      RouterSend, FormGroup, diskVars, clientVars, workerVars, sessionVars, archVars
<1>5. CASE InboxPause
  BY <1>5
  DEF IInv, DurabilityInv, OnlySubmitted, SessionOpen, SingleFlight, Held, TypeOK,
      InboxPause, Fault, diskVars, clientVars, workerVars, sessionVars, archVars
<1>6. CASE InboxResume
  BY <1>6, ZenonT(30)
  DEF IInv, TypeOK, InboxResume, diskVars, clientVars, workerVars, sessionVars, archVars
<1>7. CASE WorkerRecv
  BY <1>7
  DEF IInv, DurabilityInv, OnlySubmitted, SessionOpen, SingleFlight, Held, TypeOK,
      WorkerRecv, diskVars, clientVars, sessionVars, archVars
<1>8. CASE NextRequest
  BY <1>8
  DEF IInv, DurabilityInv, OnlySubmitted, SessionOpen, SingleFlight, Held, TypeOK,
      NextRequest, IsLeast, diskVars, clientVars, routerVars, sessionVars, archVars
<1>9. CASE DecodeFails
  BY <1>9
  DEF IInv, DurabilityInv, OnlySubmitted, SessionOpen, SingleFlight, Held, TypeOK,
      DecodeFails, Fault, MoveToFailed, Goto, clientVars, routerVars, sessionVars,
      archVars
<1>10. CASE Decode
  BY <1>10
  DEF IInv, DurabilityInv, OnlySubmitted, SessionOpen, SingleFlight, Held, TypeOK,
      Decode, Goto, diskVars, clientVars, routerVars, sessionVars, archVars
<1>11. CASE OpenSession
  <2>1. body[cur] \in Bodies
    BY <1>11
    DEF OpenSession, IInv, DurabilityInv, SingleFlight, Held, OnlySubmitted, TypeOK
  <2>2. sesSource' \in Sources /\ sesSource' # NoSource
    BY <1>11, <2>1, BodiesAssumption, ConstantsAssumption DEF OpenSession
  <2> QED
    BY <1>11, <2>2
    DEF IInv, TypeOK, OpenSession, Goto, diskVars, clientVars, routerVars, archVars
<1>12. CASE OpenFails
  BY <1>12
  DEF IInv, DurabilityInv, OnlySubmitted, SessionOpen, SingleFlight, Held, TypeOK,
      OpenFails, Fault, MoveToFailed, Goto, clientVars, routerVars, sessionVars,
      archVars
<1>13. CASE Deletes
  <2>1. body[cur] \in Bodies
    BY <1>13
    DEF Deletes, IInv, DurabilityInv, SingleFlight, Held, OnlySubmitted, TypeOK
  <2>2. Cardinality(body[cur].deletes) \in Nat
    BY <2>1, BodiesAssumption, FS_CardinalityType
  <2>3. txn' \in Rows
    BY <1>13, DeletedType DEF Deletes, IInv, TypeOK, Rows
  <2> QED
    BY <1>13, <2>2, <2>3
    DEF IInv, TypeOK, Deletes, AddUnits, Rows, diskVars, clientVars, routerVars,
        archVars
<1>14. CASE Renames
  BY RenamedType, BodiesAssumption, <1>14
  DEF IInv, DurabilityInv, OnlySubmitted, SessionOpen, SingleFlight, Held, TypeOK,
      Renames, Rows, diskVars, clientVars, routerVars, archVars
<1>15. CASE IndexFile
  BY UpsertedType, FilenameOnlyType, <1>15
  DEF IInv, DurabilityInv, OnlySubmitted, SessionOpen, SingleFlight, Held, TypeOK,
      IndexFile, AddUnits, Fault, Rows, diskVars, clientVars, routerVars, archVars
<1>16. CASE Cleanup
  BY <1>16
  DEF IInv, DurabilityInv, OnlySubmitted, SessionOpen, SingleFlight, Held, TypeOK,
      Cleanup, AddUnits, diskVars, clientVars, routerVars, archVars
<1>17. CASE RequestDone
  BY <1>17
  DEF IInv, DurabilityInv, OnlySubmitted, SessionOpen, SingleFlight, Held, TypeOK,
      RequestDone, Goto, diskVars, clientVars, routerVars, archVars
<1>18. CASE RequestFails
  BY <1>18
  DEF IInv, DurabilityInv, OnlySubmitted, SessionOpen, SingleFlight, Held, TypeOK,
      RequestFails, InRequest, Fault, NoSession, MoveToFailed, Goto, clientVars,
      routerVars, archVars
<1>19. CASE GroupAborts
  BY <1>19
  DEF IInv, DurabilityInv, OnlySubmitted, SessionOpen, SingleFlight, Held, TypeOK,
      GroupAborts, InRequest, Fault, NoSession, Goto, diskVars, clientVars,
      routerVars, archVars
<1>20. CASE WorkerPanics
  BY <1>20
  DEF IInv, DurabilityInv, OnlySubmitted, SessionOpen, SingleFlight, Held, TypeOK,
      WorkerPanics, InRequest, Fault, NoSession, MoveToFailed, Goto, clientVars,
      routerVars, archVars
<1>21. CASE GroupEnd
  BY <1>21
  DEF IInv, DurabilityInv, OnlySubmitted, SessionOpen, SingleFlight, Held, TypeOK,
      GroupEnd, Goto, diskVars, clientVars, routerVars, sessionVars, archVars
<1>22. CASE Commit
  BY <1>22
  DEF IInv, DurabilityInv, OnlySubmitted, SessionOpen, SingleFlight, Held, TypeOK,
      Commit, Goto, clientVars, routerVars, sessionVars, archVars
<1>23. CASE FlushPayload
  BY <1>23
  DEF IInv, DurabilityInv, OnlySubmitted, SessionOpen, SingleFlight, Held, TypeOK,
      FlushPayload, Fault, IsLeast, clientVars, routerVars, workerVars, archVars
<1>24. CASE FlushDelete
  BY <1>24
  DEF IInv, DurabilityInv, OnlySubmitted, SessionOpen, SingleFlight, Held, TypeOK,
      FlushDelete, Fault, IsLeast, clientVars, routerVars, workerVars, archVars
<1>25. CASE FlushEnd
  BY <1>25
  DEF IInv, DurabilityInv, OnlySubmitted, SessionOpen, SingleFlight, Held, TypeOK,
      FlushEnd, NoSession, Goto, diskVars, clientVars, routerVars, archVars
<1>26. CASE SignalDone
  BY <1>26
  DEF IInv, DurabilityInv, OnlySubmitted, SessionOpen, SingleFlight, Held, TypeOK,
      SignalDone, IsLeast, diskVars, clientVars, sessionVars, archVars
<1>27. CASE ArchiveStart
  <2>1. archTodo' \subseteq File
    BY <1>27, BodiesAssumption
    DEF ArchiveStart, ArchivableFiles, IInv, DurabilityInv, PayloadAfterCommit, OnlySubmitted, TypeOK
  <2> QED
    BY <1>27, <2>1
    DEF IInv, TypeOK, ArchiveStart, diskVars, clientVars, routerVars, workerVars,
        sessionVars
<1>28. CASE ArchiveFile
  BY <1>28
  DEF IInv, DurabilityInv, OnlySubmitted, SessionOpen, SingleFlight, Held, TypeOK,
      ArchiveFile, Fault, File, clientVars, routerVars, workerVars, sessionVars
<1>29. CASE ArchivePut
  BY <1>29
  DEF IInv, DurabilityInv, OnlySubmitted, SessionOpen, SingleFlight, Held, TypeOK,
      ArchivePut, Fault, clientVars, routerVars, workerVars, sessionVars
<1>30. CASE ArchiveDone
  BY <1>30
  DEF IInv, DurabilityInv, OnlySubmitted, SessionOpen, SingleFlight, Held, TypeOK,
      ArchiveDone, clientVars, routerVars, workerVars, sessionVars
<1>31. CASE ArchiveFails
  BY <1>31
  DEF IInv, DurabilityInv, OnlySubmitted, SessionOpen, SingleFlight, Held, TypeOK,
      ArchiveFails, Fault, diskVars, clientVars, routerVars, workerVars, sessionVars
<1>32. CASE Crash
  <2>1. faultsLeft' \in Nat
    BY <1>32 DEF IInv, TypeOK, Crash, Fault
  <2>2. txn' \in Rows /\ sesSource' = NoSource /\ deletable' = {} /\ pendingArchive' = {}
        /\ sinceCommit' = 0
    BY <1>32 DEF IInv, TypeOK, Crash, NoSession, Rows
  <2>3. db' \in Rows /\ expected' \in Rows
    BY <1>32 DEF IInv, TypeOK, Crash, diskVars, Rows
  <2>4. /\ pending' = {} /\ uploading' = {} /\ paused' = FALSE
        /\ inFlight' = {} /\ remaining' = {} /\ channel' = {} /\ doneQ' = {}
        /\ pc' = "idle" /\ ret' = "signal" /\ group' = {} /\ toSignal' = {}
        /\ cur' = NoReq /\ todo' = {}
        /\ archCur' = NoReq /\ archTodo' = {} /\ archPut' = NoHash
    BY <1>32 DEF Crash
  <2>5. UNCHANGED <<nextReq, body, inbox, complete, failed, toArchive, blobs,
                    accepted, beside, durable>>
    BY <1>32 DEF Crash, diskVars
  <2> QED
    BY <2>1, <2>2, <2>3, <2>4, <2>5 DEF IInv, TypeOK, Rows
<1> QED
  BY <1>1, <1>2, <1>3, <1>4, <1>5, <1>6, <1>7, <1>8, <1>9, <1>10, <1>11, <1>12,
     <1>13, <1>14, <1>15, <1>16, <1>17, <1>18, <1>19, <1>20, <1>21, <1>22, <1>23,
     <1>24, <1>25, <1>26, <1>27, <1>28, <1>29, <1>30, <1>31, <1>32
  DEF Next, Router, Worker, Archiver, Failure

\* Every step keeps the parts of in_flight disjoint.
LEMMA FlightStep ==
    ASSUME IInv, Next
    PROVE  SingleFlight'
<1>1. ASSUME NEW b \in Bodies, Submit(b) PROVE SingleFlight'
  BY <1>1
  DEF IInv, SingleFlight, Held, TypeOK, Submit, diskVars, routerVars, workerVars,
      sessionVars, archVars
<1>2. ASSUME NEW r \in Requests, CreateFile(r) \/ SubmitDone(r) PROVE SingleFlight'
  BY <1>2
  DEF IInv, SingleFlight, Held, TypeOK, CreateFile, SubmitDone, routerVars, workerVars,
      sessionVars, archVars
<1>3. CASE RouterScan
  BY <1>3
  DEF IInv, SingleFlight, Held, TypeOK, RouterScan, diskVars, clientVars,
      workerVars, sessionVars, archVars
<1>4. CASE RouterSend
  BY <1>4
  DEF IInv, SingleFlight, Held, TypeOK, RouterSend, FormGroup, diskVars, clientVars,
      workerVars, sessionVars, archVars
<1>5. CASE InboxPause
  BY <1>5
  DEF IInv, SingleFlight, Held, TypeOK, InboxPause, Fault, diskVars, clientVars,
      workerVars, sessionVars, archVars
<1>6. CASE InboxResume
  BY <1>6
  DEF IInv, SingleFlight, Held, TypeOK, InboxResume, diskVars, clientVars,
      workerVars, sessionVars, archVars
<1>7. CASE WorkerRecv
  BY <1>7
  DEF IInv, SingleFlight, Held, TypeOK, WorkerRecv, diskVars, clientVars,
      sessionVars, archVars
<1>8. CASE NextRequest
  BY <1>8
  DEF IInv, SingleFlight, Held, TypeOK, NextRequest, IsLeast, diskVars, clientVars,
      routerVars, sessionVars, archVars
<1>9. CASE DecodeFails
  BY <1>9
  DEF IInv, SingleFlight, Held, TypeOK, DecodeFails, Fault, MoveToFailed, Goto,
      clientVars, routerVars, sessionVars, archVars
<1>10. CASE Decode
  BY <1>10
  DEF IInv, SingleFlight, Held, TypeOK, Decode, Goto, diskVars, clientVars,
      routerVars, sessionVars, archVars
<1>11. CASE OpenSession
  BY <1>11
  DEF IInv, SingleFlight, Held, TypeOK, OpenSession, Goto, diskVars, clientVars,
      routerVars, archVars
<1>12. CASE OpenFails
  BY <1>12
  DEF IInv, SingleFlight, Held, TypeOK, OpenFails, Fault, MoveToFailed, Goto,
      clientVars, routerVars, sessionVars, archVars
<1>13. CASE Deletes
  BY <1>13
  DEF IInv, SingleFlight, Held, TypeOK, Deletes, AddUnits, diskVars, clientVars,
      routerVars, archVars
<1>14. CASE Renames
  BY <1>14
  DEF IInv, SingleFlight, Held, TypeOK, Renames, diskVars, clientVars, routerVars,
      archVars
<1>15. CASE IndexFile
  BY <1>15
  DEF IInv, SingleFlight, Held, TypeOK, IndexFile, AddUnits, Fault, diskVars,
      clientVars, routerVars, archVars
<1>16. CASE Cleanup
  BY <1>16
  DEF IInv, SingleFlight, Held, TypeOK, Cleanup, AddUnits, diskVars, clientVars,
      routerVars, archVars
<1>17. CASE RequestDone
  BY <1>17
  DEF IInv, SingleFlight, Held, TypeOK, RequestDone, Goto, diskVars, clientVars,
      routerVars, archVars
<1>18. CASE RequestFails
  BY <1>18
  DEF IInv, SingleFlight, Held, TypeOK, RequestFails, InRequest, Fault, NoSession,
      MoveToFailed, Goto, clientVars, routerVars, archVars
<1>19. CASE GroupAborts
  BY <1>19
  DEF IInv, SingleFlight, Held, TypeOK, GroupAborts, InRequest, Fault, NoSession,
      Goto, diskVars, clientVars, routerVars, archVars
<1>20. CASE WorkerPanics
  BY <1>20
  DEF IInv, SingleFlight, Held, TypeOK, WorkerPanics, InRequest, Fault, NoSession,
      MoveToFailed, Goto, clientVars, routerVars, archVars
<1>21. CASE GroupEnd
  BY <1>21
  DEF IInv, SingleFlight, Held, TypeOK, GroupEnd, Goto, diskVars, clientVars,
      routerVars, sessionVars, archVars
<1>22. CASE Commit
  BY <1>22
  DEF IInv, SingleFlight, Held, TypeOK, Commit, Goto, clientVars, routerVars,
      sessionVars, archVars
<1>23. CASE FlushPayload
  BY <1>23
  DEF IInv, SingleFlight, Held, TypeOK, FlushPayload, Fault, IsLeast, clientVars,
      routerVars, workerVars, archVars
<1>24. CASE FlushDelete
  BY <1>24
  DEF IInv, SingleFlight, Held, TypeOK, FlushDelete, Fault, IsLeast, clientVars,
      routerVars, workerVars, archVars
<1>25. CASE FlushEnd
  BY <1>25
  DEF IInv, SingleFlight, Held, TypeOK, FlushEnd, NoSession, Goto, diskVars,
      clientVars, routerVars, archVars
<1>26. CASE SignalDone
  BY <1>26
  DEF IInv, SingleFlight, Held, TypeOK, SignalDone, IsLeast, diskVars, clientVars,
      sessionVars, archVars
<1>27. CASE ArchiveStart
  BY <1>27
  DEF IInv, SingleFlight, Held, TypeOK, ArchiveStart, diskVars, clientVars,
      routerVars, workerVars, sessionVars
<1>28. CASE ArchiveFile
  BY <1>28
  DEF IInv, SingleFlight, Held, TypeOK, ArchiveFile, Fault, clientVars, routerVars,
      workerVars, sessionVars
<1>29. CASE ArchivePut
  BY <1>29
  DEF IInv, SingleFlight, Held, TypeOK, ArchivePut, Fault, clientVars, routerVars,
      workerVars, sessionVars
<1>30. CASE ArchiveDone
  BY <1>30
  DEF IInv, SingleFlight, Held, TypeOK, ArchiveDone, clientVars, routerVars,
      workerVars, sessionVars
<1>31. CASE ArchiveFails
  BY <1>31
  DEF IInv, SingleFlight, Held, TypeOK, ArchiveFails, Fault, diskVars, clientVars,
      routerVars, workerVars, sessionVars
<1>32. CASE Crash
  BY <1>32 DEF IInv, SingleFlight, Held, TypeOK, Crash, Fault, NoSession, diskVars
<1> QED
  BY <1>1, <1>2, <1>3, <1>4, <1>5, <1>6, <1>7, <1>8, <1>9, <1>10, <1>11, <1>12,
     <1>13, <1>14, <1>15, <1>16, <1>17, <1>18, <1>19, <1>20, <1>21, <1>22, <1>23,
     <1>24, <1>25, <1>26, <1>27, <1>28, <1>29, <1>30, <1>31, <1>32
  DEF Next, Router, Worker, Archiver, Failure

\* Every step keeps what is accepted accounted for.
LEMMA DurableStep ==
    ASSUME IInv, Next
    PROVE  DurabilityInv'
<1>1. ASSUME NEW b \in Bodies, Submit(b) PROVE DurabilityInv'
  BY ConstantsAssumption, <1>1
  DEF IInv, DurabilityInv, OnlySubmitted, Accounted, NoAcceptedLoss,
      PayloadAfterCommit, CoveredByCommit, SessionOpen, SingleFlight, Held, TypeOK,
      Submit, Requests, diskVars, routerVars, workerVars, sessionVars, archVars
<1>2. ASSUME NEW r \in Requests, CreateFile(r) \/ SubmitDone(r) PROVE DurabilityInv'
  BY <1>2
  DEF IInv, DurabilityInv, OnlySubmitted, Accounted, NoAcceptedLoss,
      PayloadAfterCommit, CoveredByCommit, SessionOpen, SingleFlight, Held, TypeOK,
      CreateFile, SubmitDone, routerVars, workerVars, sessionVars, archVars
<1>3. CASE RouterScan
  BY <1>3
  DEF IInv, DurabilityInv, OnlySubmitted, Accounted, NoAcceptedLoss,
      PayloadAfterCommit, CoveredByCommit, SessionOpen, SingleFlight, Held, TypeOK,
      RouterScan, diskVars, clientVars, workerVars, sessionVars, archVars
<1>4. CASE RouterSend
  BY <1>4
  DEF IInv, DurabilityInv, OnlySubmitted, Accounted, NoAcceptedLoss,
      PayloadAfterCommit, CoveredByCommit, SessionOpen, SingleFlight, Held, TypeOK,
      RouterSend, FormGroup, diskVars, clientVars, workerVars, sessionVars, archVars
<1>5. CASE InboxPause
  BY <1>5
  DEF IInv, DurabilityInv, OnlySubmitted, Accounted, NoAcceptedLoss,
      PayloadAfterCommit, CoveredByCommit, SessionOpen, SingleFlight, Held, TypeOK,
      InboxPause, Fault, diskVars, clientVars, workerVars, sessionVars, archVars
<1>6. CASE InboxResume
  BY <1>6
  DEF IInv, DurabilityInv, OnlySubmitted, Accounted, NoAcceptedLoss,
      PayloadAfterCommit, CoveredByCommit, SessionOpen, SingleFlight, Held, TypeOK,
      InboxResume, diskVars, clientVars, workerVars, sessionVars, archVars
<1>7. CASE WorkerRecv
  BY <1>7
  DEF IInv, DurabilityInv, OnlySubmitted, Accounted, NoAcceptedLoss,
      PayloadAfterCommit, CoveredByCommit, SessionOpen, SingleFlight, Held, TypeOK,
      WorkerRecv, diskVars, clientVars, sessionVars, archVars
<1>8. CASE NextRequest
  BY <1>8
  DEF IInv, DurabilityInv, OnlySubmitted, Accounted, NoAcceptedLoss,
      PayloadAfterCommit, CoveredByCommit, SessionOpen, SingleFlight, Held, TypeOK,
      NextRequest, IsLeast, diskVars, clientVars, routerVars, sessionVars, archVars
<1>9. CASE DecodeFails
  BY <1>9
  DEF IInv, DurabilityInv, OnlySubmitted, Accounted, NoAcceptedLoss,
      PayloadAfterCommit, CoveredByCommit, SessionOpen, SingleFlight, Held, TypeOK,
      DecodeFails, Fault, MoveToFailed, Goto, clientVars, routerVars, sessionVars,
      archVars
<1>10. CASE Decode
  <2>1. body[cur] \in Bodies
    BY <1>10
    DEF Decode, IInv, DurabilityInv, SingleFlight, Held, OnlySubmitted, TypeOK
  <2>2. body[cur].source # NoSource
    BY <2>1, BodiesAssumption, ConstantsAssumption
  <2>3. SessionOpen'
    BY <1>10, <2>2 DEF SessionOpen, Decode, Goto, sessionVars
  <2> QED
    BY <1>10, <2>3
    DEF IInv, DurabilityInv, OnlySubmitted, Accounted, NoAcceptedLoss,
        PayloadAfterCommit, CoveredByCommit, Decode, Goto, diskVars, clientVars,
        sessionVars
<1>11. CASE OpenSession
  <2>1. body[cur] \in Bodies
    BY <1>11
    DEF OpenSession, IInv, DurabilityInv, SingleFlight, Held, OnlySubmitted, TypeOK
  <2>2. sesSource' # NoSource
    BY <1>11, <2>1, BodiesAssumption, ConstantsAssumption DEF OpenSession
  <2> QED
    BY <1>11, <2>2
    DEF IInv, DurabilityInv, OnlySubmitted, Accounted, NoAcceptedLoss, SessionOpen,
        PayloadAfterCommit, CoveredByCommit, OpenSession, Goto, diskVars, clientVars
<1>12. CASE OpenFails
  BY <1>12
  DEF IInv, DurabilityInv, OnlySubmitted, Accounted, NoAcceptedLoss,
      PayloadAfterCommit, CoveredByCommit, SessionOpen, SingleFlight, Held, TypeOK,
      OpenFails, Fault, MoveToFailed, Goto, clientVars, routerVars, sessionVars,
      archVars
<1>13. CASE Deletes
  BY <1>13
  DEF IInv, DurabilityInv, OnlySubmitted, Accounted, NoAcceptedLoss,
      PayloadAfterCommit, CoveredByCommit, SessionOpen, SingleFlight, Held, TypeOK,
      Deletes, AddUnits, diskVars, clientVars, routerVars, archVars
<1>14. CASE Renames
  BY <1>14
  DEF IInv, DurabilityInv, OnlySubmitted, Accounted, NoAcceptedLoss,
      PayloadAfterCommit, CoveredByCommit, SessionOpen, SingleFlight, Held, TypeOK,
      Renames, diskVars, clientVars, routerVars, archVars
<1>15. CASE IndexFile
  BY <1>15
  DEF IInv, DurabilityInv, OnlySubmitted, Accounted, NoAcceptedLoss,
      PayloadAfterCommit, CoveredByCommit, SessionOpen, SingleFlight, Held, TypeOK,
      IndexFile, AddUnits, Fault, diskVars, clientVars, routerVars, archVars
<1>16. CASE Cleanup
  BY <1>16
  DEF IInv, DurabilityInv, OnlySubmitted, Accounted, NoAcceptedLoss,
      PayloadAfterCommit, CoveredByCommit, SessionOpen, SingleFlight, Held, TypeOK,
      Cleanup, AddUnits, diskVars, clientVars, routerVars, archVars
<1>17. CASE RequestDone
  BY <1>17
  DEF IInv, DurabilityInv, OnlySubmitted, Accounted, NoAcceptedLoss,
      PayloadAfterCommit, CoveredByCommit, SessionOpen, SingleFlight, Held, TypeOK,
      RequestDone, Goto, diskVars, clientVars, routerVars, archVars
<1>18. CASE RequestFails
  BY <1>18
  DEF IInv, DurabilityInv, OnlySubmitted, Accounted, NoAcceptedLoss,
      PayloadAfterCommit, CoveredByCommit, SessionOpen, SingleFlight, Held, TypeOK,
      RequestFails, InRequest, Fault, NoSession, MoveToFailed, Goto, clientVars,
      routerVars, archVars
<1>19. CASE GroupAborts
  BY <1>19
  DEF IInv, DurabilityInv, OnlySubmitted, Accounted, NoAcceptedLoss,
      PayloadAfterCommit, CoveredByCommit, SessionOpen, SingleFlight, Held, TypeOK,
      GroupAborts, InRequest, Fault, NoSession, Goto, diskVars, clientVars,
      routerVars, archVars
<1>20. CASE WorkerPanics
  BY <1>20
  DEF IInv, DurabilityInv, OnlySubmitted, Accounted, NoAcceptedLoss,
      PayloadAfterCommit, CoveredByCommit, SessionOpen, SingleFlight, Held, TypeOK,
      WorkerPanics, InRequest, Fault, NoSession, MoveToFailed, Goto, clientVars,
      routerVars, archVars
<1>21. CASE GroupEnd
  BY <1>21
  DEF IInv, DurabilityInv, OnlySubmitted, Accounted, NoAcceptedLoss,
      PayloadAfterCommit, CoveredByCommit, SessionOpen, SingleFlight, Held, TypeOK,
      GroupEnd, Goto, diskVars, clientVars, routerVars, sessionVars, archVars
<1>22. CASE Commit
  BY <1>22
  DEF IInv, DurabilityInv, OnlySubmitted, Accounted, NoAcceptedLoss,
      PayloadAfterCommit, CoveredByCommit, SessionOpen, SingleFlight, Held, TypeOK,
      Commit, Goto, clientVars, routerVars, sessionVars, archVars
<1>23. CASE FlushPayload
  BY <1>23
  DEF IInv, DurabilityInv, OnlySubmitted, Accounted, NoAcceptedLoss,
      PayloadAfterCommit, CoveredByCommit, SessionOpen, SingleFlight, Held, TypeOK,
      FlushPayload, Fault, IsLeast, clientVars, routerVars, workerVars, archVars
<1>24. CASE FlushDelete
  BY <1>24
  DEF IInv, DurabilityInv, OnlySubmitted, Accounted, NoAcceptedLoss,
      PayloadAfterCommit, CoveredByCommit, SessionOpen, SingleFlight, Held, TypeOK,
      FlushDelete, Fault, IsLeast, clientVars, routerVars, workerVars, archVars
<1>25. CASE FlushEnd
  BY <1>25
  DEF IInv, DurabilityInv, OnlySubmitted, Accounted, NoAcceptedLoss,
      PayloadAfterCommit, CoveredByCommit, SessionOpen, SingleFlight, Held, TypeOK,
      FlushEnd, NoSession, Goto, diskVars, clientVars, routerVars, archVars
<1>26. CASE SignalDone
  BY <1>26
  DEF IInv, DurabilityInv, OnlySubmitted, Accounted, NoAcceptedLoss,
      PayloadAfterCommit, CoveredByCommit, SessionOpen, SingleFlight, Held, TypeOK,
      SignalDone, IsLeast, diskVars, clientVars, sessionVars, archVars
<1>27. CASE ArchiveStart
  BY <1>27
  DEF IInv, DurabilityInv, OnlySubmitted, Accounted, NoAcceptedLoss,
      PayloadAfterCommit, CoveredByCommit, SessionOpen, SingleFlight, Held, TypeOK,
      ArchiveStart, diskVars, clientVars, routerVars, workerVars, sessionVars
<1>28. CASE ArchiveFile
  BY <1>28
  DEF IInv, DurabilityInv, OnlySubmitted, Accounted, NoAcceptedLoss,
      PayloadAfterCommit, CoveredByCommit, SessionOpen, SingleFlight, Held, TypeOK,
      ArchiveFile, Fault, clientVars, routerVars, workerVars, sessionVars
<1>29. CASE ArchivePut
  BY <1>29
  DEF IInv, DurabilityInv, OnlySubmitted, Accounted, NoAcceptedLoss,
      PayloadAfterCommit, CoveredByCommit, SessionOpen, SingleFlight, Held, TypeOK,
      ArchivePut, Fault, clientVars, routerVars, workerVars, sessionVars
<1>30. CASE ArchiveDone
  BY <1>30
  DEF IInv, DurabilityInv, OnlySubmitted, Accounted, NoAcceptedLoss,
      PayloadAfterCommit, CoveredByCommit, SessionOpen, SingleFlight, Held, TypeOK,
      ArchiveDone, clientVars, routerVars, workerVars, sessionVars
<1>31. CASE ArchiveFails
  BY <1>31
  DEF IInv, DurabilityInv, OnlySubmitted, Accounted, NoAcceptedLoss,
      PayloadAfterCommit, CoveredByCommit, SessionOpen, SingleFlight, Held, TypeOK,
      ArchiveFails, Fault, diskVars, clientVars, routerVars, workerVars, sessionVars
<1>32. CASE Crash
  BY <1>32
  DEF IInv, DurabilityInv, OnlySubmitted, Accounted, NoAcceptedLoss,
      PayloadAfterCommit, CoveredByCommit, SessionOpen, SingleFlight, Held, TypeOK,
      Crash, Fault, NoSession, diskVars
<1> QED
  BY <1>1, <1>2, <1>3, <1>4, <1>5, <1>6, <1>7, <1>8, <1>9, <1>10, <1>11, <1>12,
     <1>13, <1>14, <1>15, <1>16, <1>17, <1>18, <1>19, <1>20, <1>21, <1>22, <1>23,
     <1>24, <1>25, <1>26, <1>27, <1>28, <1>29, <1>30, <1>31, <1>32
  DEF Next, Router, Worker, Archiver, Failure

-----------------------------------------------------------------------------

\* The server starts in the invariant, with an empty inbox and no session.
LEMMA InitIInv ==
    Init => IInv
<1> SUFFICES ASSUME Init PROVE IInv
  OBVIOUS
<1>1. EmptyDb \in [Paths -> Row \cup {NoRow}]
  BY DEF EmptyDb
<1>2. TypeOK
  BY <1>1, ConstantsAssumption DEF Init, TypeOK
<1>3. OnlySubmitted /\ Accounted /\ NoAcceptedLoss /\ PayloadAfterCommit
  BY DEF Init, OnlySubmitted, Accounted, NoAcceptedLoss, PayloadAfterCommit, Requests
<1>4. CoveredByCommit /\ SessionOpen /\ SingleFlight
  BY DEF Init, CoveredByCommit, SessionOpen, SingleFlight, Held
<1> QED
  BY <1>2, <1>3, <1>4 DEF IInv, DurabilityInv

\* Every step keeps the invariant: the three parts, action by action, above.
LEMMA NextIInv ==
    IInv /\ [Next]_vars => IInv'
<1> SUFFICES ASSUME IInv, [Next]_vars PROVE IInv'
  OBVIOUS
<1>1. CASE Next
  BY <1>1, TypeStep, FlightStep, DurableStep DEF IInv
<1>2. CASE UNCHANGED vars
  BY <1>2
  DEF IInv, DurabilityInv, TypeOK, OnlySubmitted, Accounted, NoAcceptedLoss,
      PayloadAfterCommit, CoveredByCommit, SessionOpen, SingleFlight, Held, vars,
      diskVars, clientVars, routerVars, workerVars, sessionVars, archVars
<1> QED
  BY <1>1, <1>2

\* The inductive invariant holds in every reachable state of the write path.
THEOREM Invariance ==
    Spec => []IInv
<1>1. Init => IInv
  BY InitIInv
<1>2. IInv /\ [Next]_vars => IInv'
  BY NextIInv
<1> QED
  BY <1>1, <1>2, PTL DEF Spec

-----------------------------------------------------------------------------

\* Types, and nothing buffered without a session.
THEOREM TypeCorrect ==
    Spec => []TypeOK
<1>1. IInv => TypeOK
  BY DEF IInv, DurabilityInv
<1> QED
  BY <1>1, Invariance, PTL

\* No accepted request is lost, whatever crashes, errors and panics happen and
\* wherever they fall.
THEOREM AcceptedIsSafe ==
    Spec => []NoAcceptedLoss
<1>1. IInv => NoAcceptedLoss
  BY DEF IInv, DurabilityInv
<1> QED
  BY <1>1, Invariance, PTL

\* Phase 2 never sees a payload whose rows are not committed.
THEOREM PayloadsAreCovered ==
    Spec => []PayloadAfterCommit
<1>1. IInv => PayloadAfterCommit
  BY DEF IInv, DurabilityInv
<1> QED
  BY <1>1, Invariance, PTL

\* The router, the channels and the worker never share a request.
THEOREM OneHandAtATime ==
    Spec => []SingleFlight
<1>1. IInv => SingleFlight
  BY DEF IInv, DurabilityInv
<1> QED
  BY <1>1, Invariance, PTL

\* What is dispatched exists until the worker has dealt with it.
THEOREM DispatchedExists ==
    Spec => []DispatchedFilesExist
<1>1. IInv => DispatchedFilesExist
  BY DEF IInv, SingleFlight, Held, DispatchedFilesExist
<1> QED
  BY <1>1, Invariance, PTL

-----------------------------------------------------------------------------
(* Requests take effect in the order of their names as long as no session  *)
(* is rolled back.  What was rolled back waits in inbox/ while the rest of *)
(* its group, or the group in the channel, goes on: the kinds of fault     *)
(* that do so are excluded here, every other one and any number of crashes *)
(* is allowed.                                                             *)

\* No lock error, failed COMMIT, request error or panic.
NoRollback == Faults \cap {"lock", "commit", "request", "panic"} = {}

\* The requests the pipeline has taken, from the farthest on: waiting for a
\* COMMIT, in hand, in the worker's group, in the channel, in the router's list.
Buffered == deletable
Begun == Buffered \cup {r \in {cur} : Held}
Grouped == Begun \cup group
Dispatched == Grouped \cup channel
Listed == Dispatched \cup remaining

\* Who is in S has been overtaken by nobody, or is durable already.
InOrder(S) == \A r \in S, q \in inbox \ durable : Before(q, r) => q \in S

\* The worker is past the last request of its group.
GroupOver == pc = "signal" \/ (pc \in {"commit", "flush"} /\ ret = "signal")

\* No stage of the pipeline holds a request and not one that was answered before
\* it got its id; what is in flight is at a stage or reported, and what was
\* reported is durable or gone.
OrderInv ==
    /\ InOrder(Buffered) /\ InOrder(Begun) /\ InOrder(Grouped)
    /\ InOrder(Dispatched) /\ InOrder(Listed)
    /\ \A r \in durable, q \in inbox \ durable : ~Before(q, r)
    /\ inFlight \subseteq channel \cup toSignal \cup doneQ
    /\ \A r \in toSignal \cup doneQ : r < nextReq /\ r \notin pending
    /\ (toSignal \cup doneQ) \cap inbox \subseteq durable \cup Grouped
    /\ GroupOver => group = {}

\* The stages of a request and the files it depends on.
stageVars == <<nextReq, body, pending, beside, inbox, durable, inFlight, remaining, channel, doneQ, group, toSignal,
               deletable, cur>>

\* A step that moves no request from one stage to another keeps the order.
LEMMA SameStages ==
    ASSUME OrderInv, UNCHANGED stageVars, Held' <=> Held, GroupOver' => group = {}
    PROVE  OrderInv'
BY DEF OrderInv, InOrder, Before, Listed, Dispatched, Grouped, Begun, Buffered, stageVars

\* A request that gets its id changes nothing for the ones that have one.
LEMMA SubmitKeepsBefore ==
    ASSUME IInv, NEW b \in Bodies, Submit(b)
    PROVE  \A q, r \in inbox \cup durable : Before(q, r)' <=> Before(q, r)
<1>1. \A r \in inbox \cup durable : r \in Requests /\ r # nextReq
  BY DEF IInv, TypeOK, DurabilityInv, OnlySubmitted, Requests
<1>2. body' = [body EXCEPT ![nextReq] = b] /\ beside' = [beside EXCEPT ![nextReq] = pending \cup uploading]
  BY DEF Submit
<1>3. \A r \in inbox \cup durable : body'[r] = body[r] /\ beside'[r] = beside[r]
  BY <1>1, <1>2 DEF IInv, TypeOK
<1> QED
  BY <1>3 DEF Before

\* A request that has no file yet comes before none that has one.
LEMMA PendingIsBeside ==
    ASSUME IInv, NEW r \in pending
    PROVE  \A q \in inbox \cup durable : ~Before(r, q)
BY DEF IInv, DurabilityInv, OnlySubmitted, Before

\* Every step keeps the order: the steps that leave the stages alone, then the
\* ones that move a request.
LEMMA OrderStep ==
    ASSUME NoRollback, IInv, OrderInv, Next
    PROVE  OrderInv'
<1> USE DEF InOrder, Listed, Dispatched, Grouped, Begun, Buffered
<1>1. ASSUME NEW b \in Bodies, Submit(b) PROVE OrderInv'
  <2>1. /\ nextReq \in Nat /\ nextReq' = nextReq + 1 /\ pending' = pending \cup {nextReq}
        /\ UNCHANGED <<inbox, durable, inFlight, remaining, channel, doneQ, group, toSignal,
                       deletable, cur, pc, ret>>
    BY <1>1 DEF Submit, IInv, TypeOK, diskVars, routerVars, workerVars, sessionVars
  <2>2. Listed \subseteq inbox
    BY DEF IInv, SingleFlight
  <2>3. \A q, r \in inbox \cup durable : Before(q, r)' <=> Before(q, r)
    BY <1>1, SubmitKeepsBefore
  <2>4. \A r \in toSignal \cup doneQ : r < nextReq' /\ r \notin pending'
    BY <2>1 DEF OrderInv, IInv, TypeOK, Requests
  <2> QED
    BY <2>1, <2>2, <2>3, <2>4 DEF OrderInv, Held, GroupOver
<1>2. ASSUME NEW r \in Requests, CreateFile(r) \/ SubmitDone(r) PROVE OrderInv'
  <2>1. CASE CreateFile(r)
    <3>1. /\ r \in pending /\ pending' = pending \ {r} /\ inbox' = inbox \cup {r}
          /\ UNCHANGED <<nextReq, body, beside, durable, inFlight, remaining, channel, doneQ,
                         group, toSignal, deletable, cur, pc, ret>>
      BY <2>1 DEF CreateFile, routerVars, workerVars, sessionVars
    <3>2. Listed \subseteq inbox
      BY DEF IInv, SingleFlight
    <3>3. \A q \in inbox \cup durable : ~Before(r, q)
      BY <3>1, PendingIsBeside
    <3>4. \A q, o : Before(q, o)' <=> Before(q, o)
      BY <3>1 DEF Before
    <3>5. r \notin toSignal \cup doneQ
      BY <3>1 DEF OrderInv
    <3>6. ~Before(r, r)
      BY DEF Before, Requests
    <3> QED
      BY <3>1, <3>2, <3>3, <3>4, <3>5, <3>6 DEF OrderInv, Held, GroupOver
  <2>2. CASE SubmitDone(r)
    BY <2>2, SameStages
    DEF SubmitDone, OrderInv, GroupOver, Held, stageVars, clientVars, routerVars, workerVars,
        sessionVars
  <2> QED
    BY <1>2, <2>1, <2>2
<1> USE DEF Before
<1>3. CASE RouterScan
  <2>1. UNCHANGED <<nextReq, body, pending, beside, inbox, durable, channel, group, toSignal, deletable, cur, pc, ret>>
    BY <1>3 DEF RouterScan, diskVars, clientVars, workerVars, sessionVars
  <2>2. /\ remaining = {} /\ doneQ' = {} /\ inFlight' = inFlight \ doneQ
        /\ remaining' \in {{}, inbox \ inFlight'}
    BY <1>3 DEF RouterScan
  <2>3. ASSUME NEW q \in inbox \ durable, q \notin Dispatched
        PROVE  q \in inbox \ inFlight'
    BY <2>2, <2>3 DEF OrderInv
  <2> QED
    BY <2>1, <2>2, <2>3 DEF OrderInv, Held, GroupOver
<1>4. CASE RouterSend
  <2>1. UNCHANGED <<nextReq, body, pending, beside, inbox, durable, doneQ, group, toSignal, deletable, cur, pc, ret>>
    BY <1>4 DEF RouterSend, diskVars, clientVars, workerVars, sessionVars
  <2>2. remaining \subseteq Nat
    BY DEF IInv, TypeOK, Requests
  <2>3. ASSUME NEW g \in FormGroup(remaining), channel = {}, channel' = g,
               inFlight' = inFlight \cup g, remaining' = remaining \ g
        PROVE  OrderInv'
    <3>1. g \subseteq remaining /\ \A r \in g, q \in remaining \ g : r < q
      BY <2>3 DEF FormGroup
    <3>2. \A r \in g, q \in remaining : q < r => q \in g
      BY <3>1, <2>2
    <3> QED
      BY <2>1, <2>3, <3>1, <3>2 DEF OrderInv, Held, GroupOver
  <2>4. ASSUME remaining' = {}, UNCHANGED <<inFlight, channel>>
        PROVE  OrderInv'
    BY <2>1, <2>4 DEF OrderInv, Held, GroupOver
  <2> QED
    BY <1>4, <2>3, <2>4 DEF RouterSend
<1>5. CASE InboxPause
  BY <1>5, SameStages
  DEF InboxPause, OrderInv, GroupOver, Held, stageVars, diskVars, clientVars, workerVars, sessionVars
<1>6. CASE InboxResume
  BY <1>6, SameStages
  DEF InboxResume, OrderInv, GroupOver, Held, stageVars, diskVars, clientVars, workerVars, sessionVars
<1>7. CASE WorkerRecv
  <2>1. \A r \in channel : r < nextReq /\ r \notin pending
    BY DEF IInv, SingleFlight, DurabilityInv, OnlySubmitted
  <2> QED
    BY <1>7, <2>1
    DEF WorkerRecv, OrderInv, IInv, SingleFlight, Held, GroupOver, diskVars, clientVars,
        sessionVars
<1>8. CASE NextRequest
  <2>1. group \subseteq Nat
    BY DEF IInv, TypeOK, Requests
  <2>2. PICK r \in group : IsLeast(r, group) /\ cur' = r /\ group' = group \ {r}
    BY <1>8 DEF NextRequest
  <2>3. pc = "next" /\ pc' = "decode" /\ UNCHANGED <<nextReq, body, pending, beside, inbox, durable, inFlight, remaining,
            channel, doneQ, toSignal, deletable>>
    BY <1>8 DEF NextRequest, diskVars, clientVars, routerVars, sessionVars
  <2>4. \A q \in group : q < r => q \in {}
    BY <2>1, <2>2 DEF IsLeast
  <2> QED
    BY <2>2, <2>3, <2>4 DEF OrderInv, Held, GroupOver
<1>9. CASE DecodeFails
  BY <1>9
  DEF DecodeFails, MoveToFailed, Goto, OrderInv, Held, GroupOver, clientVars, routerVars, sessionVars
<1>10. CASE Decode
  BY <1>10, SameStages
  DEF Decode, Goto, GroupOver, Held, stageVars, diskVars, clientVars, routerVars, sessionVars
<1>11. CASE OpenSession
  BY <1>11, SameStages
  DEF OpenSession, Goto, GroupOver, Held, stageVars, diskVars, clientVars, routerVars
<1>12. CASE OpenFails
  BY <1>12
  DEF OpenFails, MoveToFailed, Goto, OrderInv, Held, GroupOver, clientVars, routerVars, sessionVars
<1>13. CASE Deletes
  BY <1>13, SameStages
  DEF Deletes, AddUnits, GroupOver, Held, stageVars, diskVars, clientVars, routerVars
<1>14. CASE Renames
  BY <1>14, SameStages
  DEF Renames, GroupOver, Held, stageVars, diskVars, clientVars, routerVars
<1>15. CASE IndexFile
  BY <1>15, SameStages
  DEF IndexFile, AddUnits, GroupOver, Held, stageVars, diskVars, clientVars, routerVars
<1>16. CASE Cleanup
  BY <1>16, SameStages
  DEF Cleanup, AddUnits, GroupOver, Held, stageVars, diskVars, clientVars, routerVars
<1>17. CASE RequestDone
  BY <1>17
  DEF RequestDone, Goto, OrderInv, Held, GroupOver, diskVars, clientVars, routerVars
<1>18. CASE RequestFails \/ GroupAborts \/ WorkerPanics
  BY <1>18 DEF NoRollback, RequestFails, GroupAborts, WorkerPanics, Fault
<1>19. CASE GroupEnd
  BY <1>19, SameStages
  DEF GroupEnd, Goto, GroupOver, Held, stageVars, diskVars, clientVars, routerVars, sessionVars
<1>20. CASE Commit
  <2>1. UNCHANGED <<nextReq, body, pending, beside, inbox, inFlight, remaining, channel, doneQ,
                    group, toSignal, deletable, cur, ret>>
    BY <1>20 DEF Commit, Goto, clientVars, routerVars, sessionVars
  <2>2. durable' = durable \cup deletable /\ pc = "commit" /\ pc' = "flush"
    BY <1>20 DEF Commit, Goto
  <2> QED
    BY <2>1, <2>2 DEF OrderInv, Held, GroupOver
<1>21. CASE FlushPayload
  BY <1>21, SameStages
  DEF FlushPayload, OrderInv, GroupOver, Held, stageVars, clientVars, routerVars, workerVars
<1>22. CASE FlushDelete
  <2>1. PICK r \in deletable :
            deletable' = deletable \ {r} /\ inbox' \in {inbox, inbox \ {r}}
    BY <1>22 DEF FlushDelete
  <2>2. r \in durable
    BY <1>22 DEF FlushDelete, IInv, DurabilityInv, CoveredByCommit
  <2>3. UNCHANGED <<nextReq, body, pending, beside, durable, inFlight, remaining, channel, doneQ, group, toSignal, cur,
                    pc, ret>>
    BY <1>22 DEF FlushDelete, clientVars, routerVars, workerVars
  <2> QED
    BY <2>1, <2>2, <2>3 DEF OrderInv, Held, GroupOver
<1>23. CASE FlushEnd
  BY <1>23
  DEF FlushEnd, NoSession, Goto, OrderInv, Held, GroupOver, diskVars, clientVars, routerVars, IInv, TypeOK
<1>24. CASE SignalDone
  BY <1>24
  DEF SignalDone, OrderInv, Held, GroupOver, diskVars, clientVars, sessionVars
<1>25. CASE Archiver \/ ArchiveFails
  BY <1>25, SameStages
  DEF Archiver, ArchiveStart, ArchiveFile, ArchivePut, ArchiveDone, ArchiveFails, OrderInv,
      GroupOver, Held, stageVars, diskVars, clientVars, routerVars, workerVars, sessionVars
<1>26. CASE Crash
  BY <1>26 DEF Crash, NoSession, OrderInv, Held, GroupOver, diskVars, clientVars
<1> QED
  BY <1>1, <1>2, <1>3, <1>4, <1>5, <1>6, <1>7, <1>8, <1>9, <1>10, <1>11, <1>12,
     <1>13, <1>14, <1>15, <1>16, <1>17, <1>18, <1>19, <1>20, <1>21, <1>22, <1>23,
     <1>24, <1>25, <1>26
  DEF Next, Router, Worker, Failure

\* A request takes effect after the ones of its source that had been answered when
\* it got its id, with any number of requests on their way together, of crashes,
\* of files that cannot be decoded, payloads that cannot be written and inbox
\* files that cannot be removed, as long as no session is rolled back.
THEOREM EffectsInArrivalOrder ==
    ASSUME NoRollback
    PROVE  Spec => []ArrivalOrder
<1>1. Init => OrderInv
  BY DEF Init, OrderInv, InOrder, Listed, Dispatched, Grouped, Begun, Buffered, Held,
         GroupOver
<1>2. IInv /\ OrderInv /\ [Next]_vars => OrderInv'
  <2> SUFFICES ASSUME IInv, OrderInv, [Next]_vars PROVE OrderInv'
    OBVIOUS
  <2>1. CASE Next
    BY <2>1, OrderStep
  <2>2. CASE UNCHANGED vars
    BY <2>2, SameStages
    DEF OrderInv, GroupOver, Held, vars, stageVars, diskVars, clientVars, routerVars,
        workerVars, sessionVars
  <2> QED
    BY <2>1, <2>2
<1>3. OrderInv => ArrivalOrder
  BY DEF OrderInv, ArrivalOrder
<1> QED
  BY <1>1, <1>2, <1>3, Invariance, PTL DEF Spec

-----------------------------------------------------------------------------
(* Committed rows keep content they can be given.                           *)

\* The bodies name no renames, and the faults are those that leave files and
\* blobs alone: a locked database, a failed COMMIT or open, an undecodable,
\* failing or panicking request, a failing file, an unreadable source for
\* phase 2.  A lost payload, a failed put, a payload skipped or an inbox file
\* left behind lose content by themselves; so does a crash between the delete
\* and the put of a blob that rows of other paths share.
NoRenames == \A b \in Bodies : b.renames = {}
ContentKeepingFaults == Faults \cap {"crash", "payload", "put", "read", "remove"} = {}

\* The session may hold rows of the request in hand.
Writing ==
    \/ pc \in {"renames", "files", "done"}
    \/ pc \in {"commit", "flush"} /\ ret \in {"renames", "files", "done"}

\* Who brings the content of the rows the session has and the database has not.
Pending == pendingArchive \cup {r \in {cur} : Writing}

Carries(r, p, h) == \E f \in body[r].files : f.path = p /\ f.hash = h

\* The four places the content of a committed row is in, one after the other:
\* the inbox file until its payload is written, then the payload until phase 2
\* comes to the file, then the content store; or quarantine.
InInbox(p, h) ==
    \E r \in inbox : Carries(r, p, h) /\ (r \in deletable => r \in pendingArchive)
InPayload(p, h) ==
    \E r \in toArchive : \E f \in body[r].files :
        f.path = p /\ f.hash = h /\ (r = archCur => f \in archTodo)
Kept(p, h) ==
    \/ h \in blobs \cup {archPut}
    \/ \E r \in failed : Carries(r, p, h)
    \/ InInbox(p, h)
    \/ InPayload(p, h)

RowsKept == \A p \in Paths, h \in Hashes : HasHash(db[p], h) => Kept(p, h)

SessionRowsCarried ==
    \A p \in Paths, h \in Hashes : HasHash(txn[p], h) =>
        txn[p] = db[p] \/ \E r \in Pending : Carries(r, p, h)

\* A request has its payload and its inbox file at once only inside a flush,
\* after its payload was written and before its inbox file is removed.
RecoverInv ==
    /\ pendingArchive \subseteq deletable
    /\ toArchive \cap inbox \subseteq deletable \ pendingArchive
    /\ pc # "flush" => toArchive \cap inbox = {}
    /\ pc = "flush" => txn = db
    /\ archCur \in toArchive \cup {NoReq}
    /\ (pc = "files" \/ (pc \in {"commit", "flush"} /\ ret = "files"))
          => todo \subseteq body[cur].files
    /\ RowsKept
    /\ SessionRowsCarried

\* The variables that say where content is.
placeVars == <<body, inbox, failed, toArchive, db, blobs, txn, deletable, pendingArchive,
               archCur, archTodo, archPut>>

\* A step of the worker that moves no content and keeps or begins the request
\* in hand.
LEMMA SamePlaces ==
    ASSUME RecoverInv, UNCHANGED placeVars, pc # "flush", pc' # "flush",
           Writing => Writing' /\ cur' = cur,
           (pc' = "files" \/ (pc' = "commit" /\ ret' = "files")) => todo' \subseteq body[cur'].files
    PROVE  RecoverInv'
<1>1. \A p, h : Kept(p, h)' <=> Kept(p, h)
  BY DEF Kept, InInbox, InPayload, Carries, placeVars
<1>2. RowsKept'
  BY <1>1 DEF RecoverInv, RowsKept, placeVars
<1>3. SessionRowsCarried'
  BY DEF RecoverInv, SessionRowsCarried, Pending, Carries, placeVars
<1> QED
  BY <1>2, <1>3 DEF RecoverInv, placeVars

\* A step outside the worker that moves no content.
LEMMA SameWorker ==
    ASSUME RecoverInv, UNCHANGED placeVars, UNCHANGED workerVars
    PROVE  RecoverInv'
<1>1. \A p, h : Kept(p, h)' <=> Kept(p, h)
  BY DEF Kept, InInbox, InPayload, Carries, placeVars
<1>2. RowsKept'
  BY <1>1 DEF RecoverInv, RowsKept, placeVars
<1>3. SessionRowsCarried'
  BY DEF RecoverInv, SessionRowsCarried, Pending, Writing, Carries, placeVars, workerVars
<1> QED
  BY <1>2, <1>3 DEF RecoverInv, placeVars, workerVars

\* A request that is rolled back leaves the rows as committed; its inbox file
\* stays or goes into quarantine.
LEMMA RolledBack ==
    ASSUME RecoverInv, NoSession, pc # "flush", pc' \in {"next", "signal"},
           UNCHANGED <<body, toArchive, db, blobs, archCur, archTodo, archPut>>,
           \/ UNCHANGED <<inbox, failed>>
           \/ inbox' = inbox \ {cur} /\ failed' = failed \cup ({cur} \cap inbox)
    PROVE  RecoverInv'
<1>1. \A p, h : Kept(p, h) => Kept(p, h)'
  BY DEF Kept, InInbox, InPayload, Carries, NoSession
<1>2. RowsKept'
  BY <1>1 DEF RecoverInv, RowsKept
<1>3. SessionRowsCarried'
  BY DEF SessionRowsCarried, NoSession
<1> QED
  BY <1>2, <1>3 DEF RecoverInv, NoSession

\* A request quarantined before it wrote anything.
LEMMA Quarantined ==
    ASSUME RecoverInv, pc \in {"decode", "open"}, pc' = "next", MoveToFailed(cur),
           UNCHANGED <<body, txn, deletable, pendingArchive, archCur, archTodo, archPut>>
    PROVE  RecoverInv'
<1>1. \A p, h : Kept(p, h) => Kept(p, h)'
  BY DEF Kept, InInbox, InPayload, Carries, MoveToFailed
<1>2. RowsKept'
  BY <1>1 DEF RecoverInv, RowsKept, MoveToFailed
<1>3. SessionRowsCarried'
  BY DEF RecoverInv, SessionRowsCarried, Pending, Writing, Carries, MoveToFailed
<1> QED
  BY <1>2, <1>3 DEF RecoverInv, MoveToFailed

\* A body without renames leaves the rows as they are.
LEMMA RenamedByNone ==
    ASSUME NEW d \in Rows
    PROVE  Renamed(d, {}) = d
BY DEF Renamed, Rows

\* Every step of the write path keeps the content of committed rows.
LEMMA RecoverStep ==
    ASSUME NoRenames, ContentKeepingFaults, IInv, RecoverInv, Next
    PROVE  RecoverInv'
<1>1. ASSUME NEW b \in Bodies, Submit(b) PROVE RecoverInv'
  <2>1. /\ body' = [body EXCEPT ![nextReq] = b]
        /\ UNCHANGED <<inbox, failed, toArchive, db, blobs, txn, deletable, pendingArchive,
                       archCur, archTodo, archPut, pc, ret, cur, todo>>
    BY <1>1 DEF Submit, diskVars, workerVars, sessionVars, archVars
  <2>2. \A r \in inbox \cup failed \cup toArchive \cup deletable : r \in Requests /\ r < nextReq
    BY DEF IInv, DurabilityInv, OnlySubmitted, PayloadAfterCommit, SingleFlight
  <2>3. \A r \in inbox \cup failed \cup toArchive \cup deletable : r # nextReq /\ body'[r] = body[r]
    BY <2>1, <2>2 DEF IInv, TypeOK, Requests
  <2>4. Held => cur \in inbox
    BY DEF IInv, SingleFlight
  <2>5. \A p, h : Kept(p, h) => Kept(p, h)'
    BY <2>1, <2>3 DEF Kept, InInbox, InPayload, Carries
  <2>6. RowsKept'
    BY <2>1, <2>5 DEF RecoverInv, RowsKept
  <2>7. SessionRowsCarried'
    BY <2>1, <2>3, <2>4 DEF RecoverInv, SessionRowsCarried, Pending, Writing, Held, Carries
  <2> QED
    BY <2>1, <2>3, <2>4, <2>6, <2>7 DEF RecoverInv, Held
<1>2. ASSUME NEW r \in Requests, CreateFile(r) \/ SubmitDone(r) PROVE RecoverInv'
  <2>1. CASE CreateFile(r)
    <3>1. /\ r \in pending /\ inbox' = inbox \cup {r}
          /\ UNCHANGED <<body, failed, toArchive, db, blobs, txn, deletable, pendingArchive,
                         archCur, archTodo, archPut, pc, ret, cur, todo>>
      BY <2>1 DEF CreateFile, workerVars, sessionVars, archVars
    <3>2. r \notin toArchive
      BY <3>1 DEF IInv, DurabilityInv, OnlySubmitted, PayloadAfterCommit
    <3>3. \A p, h : Kept(p, h) => Kept(p, h)'
      BY <3>1 DEF Kept, InInbox, InPayload, Carries
    <3>4. RowsKept'
      BY <3>1, <3>3 DEF RecoverInv, RowsKept
    <3>5. SessionRowsCarried'
      BY <3>1 DEF RecoverInv, SessionRowsCarried, Pending, Writing, Carries
    <3> QED
      BY <3>1, <3>2, <3>4, <3>5 DEF RecoverInv
  <2>2. CASE SubmitDone(r)
    BY <2>2, SameWorker
    DEF SubmitDone, placeVars, routerVars, workerVars, sessionVars, archVars
  <2> QED
    BY <1>2, <2>1, <2>2
<1>3. CASE Router \/ InboxPause \/ InboxResume
  BY <1>3, SameWorker
  DEF Router, RouterScan, RouterSend, InboxPause, InboxResume, placeVars, diskVars, clientVars,
      workerVars, sessionVars, archVars
<1>4. CASE WorkerRecv \/ NextRequest \/ GroupEnd \/ Decode
  BY <1>4, SamePlaces
  DEF WorkerRecv, NextRequest, GroupEnd, Decode, Goto, Writing, placeVars, diskVars, clientVars,
      sessionVars, archVars
<1>5. CASE SignalDone
  BY <1>5, SamePlaces
  DEF SignalDone, Writing, placeVars, diskVars, clientVars, sessionVars, archVars
<1>6. CASE DecodeFails \/ OpenFails
  BY <1>6, Quarantined
  DEF DecodeFails, OpenFails, Goto, clientVars, sessionVars, archVars
<1>7. CASE OpenSession
  <2>1. /\ pc = "open" /\ pc' = "deletes" /\ txn' = db
        /\ UNCHANGED <<body, inbox, failed, toArchive, db, blobs, deletable, pendingArchive,
                       archCur, archTodo, archPut>>
    BY <1>7 DEF OpenSession, Goto, diskVars, clientVars, archVars
  <2>2. \A p, h : Kept(p, h)' <=> Kept(p, h)
    BY <2>1 DEF Kept, InInbox, InPayload, Carries
  <2> QED
    BY <2>1, <2>2 DEF RecoverInv, RowsKept, SessionRowsCarried
<1>8. CASE Deletes
  <2>1. /\ pc = "deletes" /\ txn' = Deleted(txn, body[cur].deletes)
        /\ pc' = "renames" \/ (pc' = "commit" /\ ret' = "renames")
        /\ UNCHANGED <<body, inbox, failed, toArchive, db, blobs, deletable, pendingArchive,
                       archCur, archTodo, archPut, cur, todo>>
    BY <1>8 DEF Deletes, AddUnits, diskVars, clientVars, archVars
  <2>2. \A p, h : Kept(p, h)' <=> Kept(p, h)
    BY <2>1 DEF Kept, InInbox, InPayload, Carries
  <2>3. \A p \in Paths, h \in Hashes : HasHash(txn'[p], h) => txn'[p] = txn[p]
    BY <2>1 DEF HasHash, Deleted
  <2>4. SessionRowsCarried'
    BY <2>1, <2>3 DEF RecoverInv, SessionRowsCarried, Pending, Carries, Writing
  <2> QED
    BY <2>1, <2>2, <2>4 DEF RecoverInv, RowsKept
<1>9. CASE Renames
  <2>1. body[cur].renames = {}
    BY <1>9 DEF Renames, NoRenames, IInv, DurabilityInv, OnlySubmitted, SingleFlight, Held, TypeOK
  <2>2. txn' = txn
    BY <1>9, <2>1, RenamedByNone DEF Renames, IInv, TypeOK, Rows
  <2> QED
    BY <1>9, <2>2, SamePlaces
    DEF Renames, Writing, placeVars, diskVars, clientVars, archVars
<1>10. CASE IndexFile
  <2>1. PICK f \in todo :
            /\ todo' = todo \ {f}
            /\ txn' \in {Upserted(txn, f), Upserted(txn, FilenameOnly(f)), txn}
    BY <1>10 DEF IndexFile
  <2>2. /\ pc = "files" /\ (pc' = "files" \/ (pc' = "commit" /\ ret' = "files"))
        /\ UNCHANGED <<body, inbox, failed, toArchive, db, blobs, deletable, pendingArchive,
                       archCur, archTodo, archPut, cur>>
    BY <1>10 DEF IndexFile, AddUnits, diskVars, clientVars, archVars
  <2>3. \A p, h : Kept(p, h)' <=> Kept(p, h)
    BY <2>2 DEF Kept, InInbox, InPayload, Carries
  <2>4. f \in body[cur].files /\ todo' \subseteq body[cur].files /\ f \in File
    BY <2>1, <2>2 DEF RecoverInv, IInv, TypeOK
  <2>5. ASSUME NEW p \in Paths, NEW h \in Hashes, HasHash(txn'[p], h)
        PROVE  txn'[p] = txn[p] \/ Carries(cur, p, h)
    <3>1. CASE txn' = Upserted(txn, f)
      BY <3>1, <2>4, <2>5 DEF Upserted, HasHash, Carries, IInv, TypeOK
    <3>2. CASE txn' = Upserted(txn, FilenameOnly(f))
      BY <3>2, <2>4, <2>5, ConstantsAssumption
      DEF Upserted, FilenameOnly, HasHash, File, IInv, TypeOK
    <3>3. CASE txn' = txn
      BY <3>3
    <3> QED
      BY <2>1, <3>1, <3>2, <3>3
  <2>6. SessionRowsCarried'
    BY <2>2, <2>5 DEF RecoverInv, SessionRowsCarried, Pending, Carries, Writing
  <2> QED
    BY <2>2, <2>3, <2>4, <2>6 DEF RecoverInv, RowsKept
<1>11. CASE Cleanup
  BY <1>11, SamePlaces
  DEF Cleanup, AddUnits, Writing, placeVars, diskVars, clientVars, archVars
<1>12. CASE RequestDone
  <2>1. /\ pc = "done" /\ pc' = "next" /\ deletable' = deletable \cup {cur}
        /\ body[cur].files = {} => pendingArchive' \in {pendingArchive, pendingArchive \cup {cur}}
        /\ body[cur].files # {} => pendingArchive' = pendingArchive \cup {cur}
        /\ UNCHANGED <<body, inbox, failed, toArchive, db, blobs, txn,
                       archCur, archTodo, archPut, cur>>
    BY <1>12 DEF RequestDone, Goto, diskVars, clientVars, archVars
  <2>2. \A p, h : Kept(p, h) => Kept(p, h)'
    BY <2>1 DEF Kept, InInbox, InPayload, Carries
  <2>3. RowsKept'
    BY <2>1, <2>2 DEF RecoverInv, RowsKept
  <2>4. SessionRowsCarried'
    BY <2>1 DEF RecoverInv, SessionRowsCarried, Pending, Carries
  <2> QED
    BY <2>1, <2>3, <2>4 DEF RecoverInv
<1>13. CASE RequestFails \/ WorkerPanics \/ GroupAborts
  BY <1>13, RolledBack
  DEF RequestFails, WorkerPanics, GroupAborts, InRequest, MoveToFailed, Goto, diskVars,
      clientVars, archVars
<1>14. CASE Commit
  <2>1. /\ pc = "commit" /\ pc' = "flush" /\ db' = txn
        /\ UNCHANGED <<body, inbox, failed, toArchive, blobs, txn, deletable, pendingArchive,
                       archCur, archTodo, archPut, cur, todo, ret>>
    BY <1>14 DEF Commit, Goto, clientVars, sessionVars, archVars
  <2>2. \A p, h : Kept(p, h)' <=> Kept(p, h)
    BY <2>1 DEF Kept, InInbox, InPayload, Carries
  <2>3. ASSUME NEW r \in Pending PROVE r \in inbox /\ (r \in deletable => r \in pendingArchive)
    BY <2>1 DEF Pending, Writing, RecoverInv, IInv, SingleFlight, Held
  <2>4. RowsKept'
    <3>1. ASSUME NEW p \in Paths, NEW h \in Hashes, HasHash(txn[p], h) PROVE Kept(p, h)
      BY <3>1, <2>3 DEF RecoverInv, RowsKept, SessionRowsCarried, Kept, InInbox
    <3> QED
      BY <2>1, <2>2, <3>1 DEF RowsKept
  <2>5. SessionRowsCarried'
    BY <2>1 DEF SessionRowsCarried
  <2> QED
    BY <2>1, <2>4, <2>5 DEF RecoverInv
<1>15. CASE FlushPayload
  <2>1. PICK r \in pendingArchive :
            pendingArchive' = pendingArchive \ {r} /\ toArchive' = toArchive \cup {r}
    BY <1>15 DEF FlushPayload, Fault, ContentKeepingFaults
  <2>2. /\ pc = "flush"
        /\ UNCHANGED <<body, inbox, failed, db, blobs, txn, deletable,
                       archCur, archTodo, archPut, pc, ret, cur, todo>>
    BY <1>15 DEF FlushPayload, clientVars, workerVars, archVars
  <2>3. r \in deletable /\ r \in inbox /\ r \notin toArchive /\ r # archCur
    BY ConstantsAssumption DEF RecoverInv, IInv, SingleFlight, TypeOK
  <2>4. \A p, h : Kept(p, h) => Kept(p, h)'
    BY <2>1, <2>2, <2>3 DEF Kept, InInbox, InPayload, Carries
  <2>5. RowsKept'
    BY <2>2, <2>4 DEF RecoverInv, RowsKept
  <2>6. SessionRowsCarried'
    BY <2>2 DEF RecoverInv, SessionRowsCarried
  <2> QED
    BY <2>1, <2>2, <2>3, <2>5, <2>6 DEF RecoverInv
<1>16. CASE FlushDelete
  <2>1. PICK r \in deletable : deletable' = deletable \ {r} /\ inbox' = inbox \ {r}
    BY <1>16 DEF FlushDelete, Fault, ContentKeepingFaults
  <2>2. /\ pc = "flush" /\ pendingArchive = {}
        /\ UNCHANGED <<body, failed, toArchive, db, blobs, txn, pendingArchive,
                       archCur, archTodo, archPut, pc, ret, cur, todo>>
    BY <1>16 DEF FlushDelete, clientVars, workerVars, archVars
  <2>3. \A p, h : Kept(p, h) => Kept(p, h)'
    BY <2>1, <2>2 DEF Kept, InInbox, InPayload, Carries
  <2>4. RowsKept'
    BY <2>2, <2>3 DEF RecoverInv, RowsKept
  <2>5. SessionRowsCarried'
    BY <2>2 DEF RecoverInv, SessionRowsCarried
  <2> QED
    BY <2>1, <2>2, <2>4, <2>5 DEF RecoverInv
<1>17. CASE FlushEnd
  <2>1. /\ pc = "flush" /\ pc' = ret /\ pendingArchive = {} /\ deletable = {}
        /\ deletable' = {} /\ pendingArchive' = {} /\ txn' = db
        /\ UNCHANGED <<body, inbox, failed, toArchive, db, blobs,
                       archCur, archTodo, archPut, cur, todo, ret>>
    BY <1>17 DEF FlushEnd, NoSession, Goto, RecoverInv, diskVars, clientVars, archVars
  <2>2. \A p, h : Kept(p, h)' <=> Kept(p, h)
    BY <2>1 DEF Kept, InInbox, InPayload, Carries
  <2>3. RowsKept'
    BY <2>1, <2>2 DEF RecoverInv, RowsKept
  <2>4. SessionRowsCarried'
    BY <2>1 DEF SessionRowsCarried
  <2>5. pc' \notin {"commit", "flush"}
    BY <2>1 DEF IInv, TypeOK
  <2> QED
    BY <2>1, <2>3, <2>4, <2>5 DEF RecoverInv
<1>18. CASE ArchiveStart
  <2>1. PICK r \in toArchive : archCur' = r /\ archTodo' = ArchivableFiles(r)
    BY <1>18 DEF ArchiveStart
  <2>2. /\ archCur = NoReq
        /\ UNCHANGED <<body, inbox, failed, toArchive, db, blobs, txn, deletable,
                       pendingArchive, archPut, pc, ret, cur, todo>>
    BY <1>18 DEF ArchiveStart, diskVars, clientVars, workerVars, sessionVars
  <2>3. \A p \in Paths, h \in Hashes : Kept(p, h) => Kept(p, h)'
    BY <2>1, <2>2, ConstantsAssumption
    DEF Kept, InInbox, InPayload, Carries, ArchivableFiles
  <2>4. RowsKept'
    BY <2>2, <2>3 DEF RecoverInv, RowsKept
  <2>5. SessionRowsCarried'
    BY <2>2 DEF RecoverInv, SessionRowsCarried, Pending, Writing, Carries
  <2> QED
    BY <2>1, <2>2, <2>4, <2>5 DEF RecoverInv
<1>19. CASE ArchiveFile
  <2>1. PICK f \in archTodo :
            /\ archTodo' = archTodo \ {f}
            /\ \/ blobs' = blobs \ {f.hash} /\ archPut' = f.hash
               \/ ~HasHash(db[f.path], f.hash) /\ UNCHANGED <<blobs, archPut>>
    BY <1>19 DEF ArchiveFile, Fault, ContentKeepingFaults
  <2>2. /\ archPut = NoHash
        /\ UNCHANGED <<body, inbox, failed, toArchive, db, txn, deletable, pendingArchive,
                       archCur, pc, ret, cur, todo>>
    BY <1>19 DEF ArchiveFile, clientVars, workerVars, sessionVars
  <2>3. ASSUME NEW p \in Paths, NEW h \in Hashes, HasHash(db[p], h), Kept(p, h)
        PROVE  Kept(p, h)'
    <3>1. CASE h \in blobs \cup {archPut}
      BY <2>1, <2>2, <3>1, ConstantsAssumption DEF Kept
    <3>2. CASE (\E r \in failed : Carries(r, p, h)) \/ InInbox(p, h)
      BY <2>2, <3>2 DEF Kept, InInbox, Carries
    <3>3. CASE InPayload(p, h)
      BY <2>1, <2>2, <2>3, <3>3 DEF Kept, InPayload
    <3> QED
      BY <2>3, <3>1, <3>2, <3>3 DEF Kept
  <2>4. RowsKept'
    BY <2>2, <2>3 DEF RecoverInv, RowsKept
  <2>5. SessionRowsCarried'
    BY <2>2 DEF RecoverInv, SessionRowsCarried, Pending, Writing, Carries
  <2> QED
    BY <2>2, <2>4, <2>5 DEF RecoverInv
<1>20. CASE ArchivePut
  <2>1. /\ archPut' = NoHash /\ blobs' = blobs \cup {archPut}
        /\ UNCHANGED <<body, inbox, failed, toArchive, db, txn, deletable, pendingArchive,
                       archCur, archTodo, pc, ret, cur, todo>>
    BY <1>20 DEF ArchivePut, Fault, ContentKeepingFaults, clientVars, workerVars, sessionVars
  <2>2. \A p, h : Kept(p, h) => Kept(p, h)'
    BY <2>1 DEF Kept, InInbox, InPayload, Carries
  <2>3. RowsKept'
    BY <2>1, <2>2 DEF RecoverInv, RowsKept
  <2>4. SessionRowsCarried'
    BY <2>1 DEF RecoverInv, SessionRowsCarried, Pending, Writing, Carries
  <2> QED
    BY <2>1, <2>3, <2>4 DEF RecoverInv
<1>21. CASE ArchiveDone
  <2>1. /\ archTodo = {} /\ archCur' = NoReq /\ toArchive' = toArchive \ {archCur}
        /\ UNCHANGED <<body, inbox, failed, db, blobs, txn, deletable, pendingArchive,
                       archTodo, archPut, pc, ret, cur, todo>>
    BY <1>21 DEF ArchiveDone, clientVars, workerVars, sessionVars
  <2>2. NoReq \notin toArchive
    BY ConstantsAssumption DEF IInv, TypeOK
  <2>3. \A p, h : Kept(p, h) => Kept(p, h)'
    BY <2>1, <2>2 DEF Kept, InInbox, InPayload, Carries
  <2>4. RowsKept'
    BY <2>1, <2>3 DEF RecoverInv, RowsKept
  <2>5. SessionRowsCarried'
    BY <2>1 DEF RecoverInv, SessionRowsCarried, Pending, Writing, Carries
  <2> QED
    BY <2>1, <2>4, <2>5 DEF RecoverInv
<1>22. CASE ArchiveFails
  <2>1. /\ archCur' = NoReq
        /\ UNCHANGED <<body, inbox, failed, toArchive, db, blobs, txn, deletable,
                       pendingArchive, archPut, pc, ret, cur, todo>>
    BY <1>22 DEF ArchiveFails, diskVars, clientVars, workerVars, sessionVars
  <2>2. NoReq \notin toArchive
    BY ConstantsAssumption DEF IInv, TypeOK
  <2>3. \A p, h : Kept(p, h) => Kept(p, h)'
    BY <2>1, <2>2 DEF Kept, InInbox, InPayload, Carries
  <2>4. RowsKept'
    BY <2>1, <2>3 DEF RecoverInv, RowsKept
  <2>5. SessionRowsCarried'
    BY <2>1 DEF RecoverInv, SessionRowsCarried, Pending, Writing, Carries
  <2> QED
    BY <2>1, <2>4, <2>5 DEF RecoverInv
<1>23. CASE Crash
  BY <1>23 DEF Crash, Fault, ContentKeepingFaults
<1> QED
  BY <1>1, <1>2, <1>3, <1>4, <1>5, <1>6, <1>7, <1>8, <1>9, <1>10, <1>11, <1>12, <1>13,
     <1>14, <1>15, <1>16, <1>17, <1>18, <1>19, <1>20, <1>21, <1>22, <1>23
  DEF Next, Worker, Archiver, Failure

\* Whatever fails among locks, COMMITs, opens, requests and files, and whenever
\* phase 2 has to come back to a payload, the content of every committed row can
\* still be produced; hashes may be shared between paths and requests.
THEOREM ContentStaysRecoverable ==
    ASSUME NoRenames, ContentKeepingFaults
    PROVE  Spec => []ContentRecoverable
<1>1. Init => RecoverInv
  BY DEF Init, RecoverInv, RowsKept, SessionRowsCarried, EmptyDb, HasHash
<1>2. IInv /\ RecoverInv /\ [Next]_vars => RecoverInv'
  <2> SUFFICES ASSUME IInv, RecoverInv, [Next]_vars PROVE RecoverInv'
    OBVIOUS
  <2>1. CASE Next
    BY <2>1, RecoverStep
  <2>2. CASE UNCHANGED vars
    BY <2>2, SameWorker
    DEF vars, placeVars, diskVars, clientVars, workerVars, sessionVars, archVars
  <2> QED
    BY <2>1, <2>2
<1>3. RecoverInv => ContentRecoverable
  <2> SUFFICES ASSUME RecoverInv, NEW p \in Paths, NEW h \in Hashes, HasHash(db[p], h)
               PROVE  \/ h \in blobs \cup {archPut}
                      \/ \E r \in inbox : p \in Touches(body[r])
                      \/ \E r \in failed : \E f \in body[r].files : f.hash = h
                      \/ \E r \in toArchive : \E f \in body[r].files :
                            f.hash = h /\ HasHash(db[f.path], h)
    BY DEF ContentRecoverable
  <2>1. Kept(p, h)
    BY DEF RecoverInv, RowsKept
  <2>2. ASSUME NEW r \in inbox, Carries(r, p, h) PROVE p \in Touches(body[r])
    BY <2>2 DEF Carries, Touches
  <2> QED
    BY <2>1, <2>2 DEF Kept, InInbox, InPayload, Carries
<1> QED
  BY <1>1, <1>2, <1>3, Invariance, PTL DEF Spec

-----------------------------------------------------------------------------
(* InboxPipeline implements AtLeastOnceQueue.                               *)

\* The empty inbox is the empty queue.
LEMMA InitRefines ==
    Init => Q!Init
BY DEF Init, Q!Init

\* Every step is a step of the queue or leaves it alone.
LEMMA StepRefines ==
    ASSUME IInv, Next
    PROVE  [Q!Next]_(Q!vars)
<1>1. ASSUME NEW b \in Bodies, Submit(b) PROVE [Q!Next]_(Q!vars)
  BY <1>1 DEF Submit, diskVars, Q!vars
<1>2. ASSUME NEW r \in Requests, CreateFile(r) \/ SubmitDone(r) PROVE [Q!Next]_(Q!vars)
  <2>1. CASE CreateFile(r)
    <3>1. r \notin inbox \cup failed \cup durable
      BY <2>1 DEF CreateFile, IInv, DurabilityInv, OnlySubmitted
    <3>2. Q!Accept(r)
      BY <2>1, <3>1 DEF CreateFile, Q!Accept
    <3> QED
      BY <3>2 DEF Q!Next
  <2>2. CASE SubmitDone(r)
    BY <2>2 DEF SubmitDone, Q!vars
  <2> QED
    BY <1>2, <2>1, <2>2
<1>3. CASE RouterScan
  BY <1>3 DEF RouterScan, diskVars, Q!vars
<1>4. CASE RouterSend
  BY <1>4 DEF RouterSend, diskVars, Q!vars
<1>5. CASE InboxPause
  BY <1>5 DEF InboxPause, diskVars, Q!vars
<1>6. CASE InboxResume
  BY <1>6 DEF InboxResume, diskVars, Q!vars
<1>7. CASE WorkerRecv
  BY <1>7 DEF WorkerRecv, diskVars, Q!vars
<1>8. CASE NextRequest
  BY <1>8 DEF NextRequest, diskVars, Q!vars
<1>9. CASE DecodeFails
  <2>1. cur \in Requests /\ cur \in inbox
    BY <1>9 DEF DecodeFails, IInv, TypeOK, SingleFlight, Held
  <2>2. Q!Reject(cur)
    BY <1>9, <2>1 DEF DecodeFails, MoveToFailed, Q!Reject
  <2> QED
    BY <2>1, <2>2 DEF Q!Next
<1>10. CASE Decode
  BY <1>10 DEF Decode, diskVars, Q!vars
<1>11. CASE OpenSession
  BY <1>11 DEF OpenSession, diskVars, Q!vars
<1>12. CASE OpenFails
  <2>1. cur \in Requests /\ cur \in inbox
    BY <1>12 DEF OpenFails, IInv, TypeOK, SingleFlight, Held
  <2>2. Q!Reject(cur)
    BY <1>12, <2>1 DEF OpenFails, MoveToFailed, Q!Reject
  <2> QED
    BY <2>1, <2>2 DEF Q!Next
<1>13. CASE Deletes
  BY <1>13 DEF Deletes, diskVars, Q!vars
<1>14. CASE Renames
  BY <1>14 DEF Renames, diskVars, Q!vars
<1>15. CASE IndexFile
  BY <1>15 DEF IndexFile, diskVars, Q!vars
<1>16. CASE Cleanup
  BY <1>16 DEF Cleanup, diskVars, Q!vars
<1>17. CASE RequestDone
  BY <1>17 DEF RequestDone, diskVars, Q!vars
<1>18. CASE RequestFails
  <2>1. cur \in Requests /\ cur \in inbox
    BY <1>18 DEF RequestFails, InRequest, IInv, TypeOK, SingleFlight, Held
  <2>2. Q!Reject(cur)
    BY <1>18, <2>1 DEF RequestFails, MoveToFailed, Q!Reject
  <2> QED
    BY <2>1, <2>2 DEF Q!Next
<1>19. CASE GroupAborts
  BY <1>19 DEF GroupAborts, diskVars, Q!vars
<1>20. CASE WorkerPanics
  <2>1. cur \in Requests /\ cur \in inbox
    BY <1>20 DEF WorkerPanics, InRequest, IInv, TypeOK, SingleFlight, Held
  <2>2. Q!Reject(cur)
    BY <1>20, <2>1 DEF WorkerPanics, MoveToFailed, Q!Reject
  <2> QED
    BY <2>1, <2>2 DEF Q!Next
<1>21. CASE GroupEnd
  BY <1>21 DEF GroupEnd, diskVars, Q!vars
<1>22. CASE Commit
  <2>1. deletable \in SUBSET Requests /\ deletable \subseteq inbox
    BY DEF IInv, TypeOK, SingleFlight
  <2>2. Q!Apply(deletable)
    BY <1>22, <2>1 DEF Commit, Q!Apply
  <2> QED
    BY <2>1, <2>2 DEF Q!Next
<1>23. CASE FlushPayload
  BY <1>23 DEF FlushPayload, Q!vars
<1>24. CASE FlushDelete
  <2>1. PICK r \in deletable : inbox' = inbox \ {r} \/ UNCHANGED inbox
    BY <1>24 DEF FlushDelete
  <2>2. r \in Requests /\ r \in inbox \cap durable
    BY <1>24
    DEF FlushDelete, IInv, DurabilityInv, TypeOK, SingleFlight, CoveredByCommit
  <2>3. CASE inbox' = inbox \ {r}
    <3>1. Q!Acknowledge(r)
      BY <1>24, <2>2, <2>3 DEF FlushDelete, Q!Acknowledge
    <3> QED
      BY <2>2, <3>1 DEF Q!Next
  <2>4. CASE UNCHANGED inbox
    BY <1>24, <2>4 DEF FlushDelete, Q!vars
  <2> QED
    BY <2>1, <2>3, <2>4
<1>25. CASE FlushEnd
  BY <1>25 DEF FlushEnd, diskVars, Q!vars
<1>26. CASE SignalDone
  BY <1>26 DEF SignalDone, diskVars, Q!vars
<1>27. CASE ArchiveStart
  BY <1>27 DEF ArchiveStart, diskVars, Q!vars
<1>28. CASE ArchiveFile
  BY <1>28 DEF ArchiveFile, Q!vars
<1>29. CASE ArchivePut
  BY <1>29 DEF ArchivePut, Q!vars
<1>30. CASE ArchiveDone
  BY <1>30 DEF ArchiveDone, Q!vars
<1>31. CASE ArchiveFails
  BY <1>31 DEF ArchiveFails, diskVars, Q!vars
<1>32. CASE Crash
  BY <1>32 DEF Crash, diskVars, Q!vars
<1> QED
  BY <1>1, <1>2, <1>3, <1>4, <1>5, <1>6, <1>7, <1>8, <1>9, <1>10, <1>11, <1>12,
     <1>13, <1>14, <1>15, <1>16, <1>17, <1>18, <1>19, <1>20, <1>21, <1>22, <1>23,
     <1>24, <1>25, <1>26, <1>27, <1>28, <1>29, <1>30, <1>31, <1>32
  DEF Next, Router, Worker, Archiver, Failure

\* The write path is an at-least-once queue: a request leaves inbox/ only when
\* its effects are durable or into quarantine.
THEOREM Refinement ==
    Spec => RefinesQueue
<1>1. Init => Q!Init
  BY InitRefines
<1>2. IInv /\ [Next]_vars => [Q!Next]_(Q!vars)
  <2> SUFFICES ASSUME IInv, [Next]_vars PROVE [Q!Next]_(Q!vars)
    OBVIOUS
  <2>1. CASE Next
    BY <2>1, StepRefines
  <2>2. CASE UNCHANGED vars
    BY <2>2 DEF vars, diskVars, Q!vars
  <2> QED
    BY <2>1, <2>2
<1>3. Spec => []IInv
  BY Invariance
<1> QED
  BY <1>1, <1>2, <1>3, PTL DEF Spec, RefinesQueue, Q!Spec

-----------------------------------------------------------------------------
(* Natural numbers, and functions defined by recursion on one.             *)

\* The library's well-founded order of the natural numbers, without operators.
LEMMA LeastNat ==
    ASSUME NEW T, T \subseteq Nat, T # {}
    PROVE  \E n \in T : \A m \in T : ~(m < n)
<1> DEFINE R == OpToRel(<, Nat)
<1>1. IsWellFoundedOn(R, Nat)
  BY NatLessThanWellFounded
<1> HIDE DEF R
<1>2. \E n \in T : \A m \in T : ~(<<m, n>> \in R)
  BY <1>1, WFMin, Zenon
<1> QED
  BY <1>2 DEF R, OpToRel

\* Induction, on a set in place of a predicate.
LEMMA SetInduction ==
    ASSUME NEW S, 0 \in S, \A n \in Nat : n \in S => n + 1 \in S
    PROVE  Nat \subseteq S
<1> SUFFICES ASSUME Nat \ S # {} PROVE FALSE
  OBVIOUS
<1>1. PICK n \in Nat \ S : \A m \in Nat \ S : ~(m < n)
  BY LeastNat
<1>2. n # 0 /\ n - 1 \in Nat
  OBVIOUS
<1> QED
  BY <1>1, <1>2

\* A function by its first value and what A makes of the one before.
RecursionOf(n, V, b, A, g) ==
    g \in [0..n -> V] /\ g[0] = b /\ \A i \in 1..n : g[i] = A[<<g[i - 1], i>>]

\* b, and what A makes of the value before and the position.
LEMMA RecursionExists ==
    ASSUME NEW n \in Nat, NEW V, NEW b \in V, NEW A \in [V \X (1..n) -> V]
    PROVE  \E g : RecursionOf(n, V, b, A, g)
<1> DEFINE Upto(k) == \E g \in [0..k -> V] : g[0] = b /\ \A i \in 1..k : g[i] = A[<<g[i - 1], i>>]
           I == {k \in Nat : k <= n => Upto(k)}
<1>1. 0 \in I
  <2>1. [i \in 0..0 |-> b] \in [0..0 -> V] /\ [i \in 0..0 |-> b][0] = b
    OBVIOUS
  <2>2. \A i \in 1..0 : FALSE
    OBVIOUS
  <2>3. Upto(0)
    BY <2>1, <2>2, Zenon
  <2> QED
    BY <2>3
<1>2. ASSUME NEW k \in Nat, k \in I PROVE k + 1 \in I
  <2> SUFFICES ASSUME k + 1 <= n PROVE Upto(k + 1)
    OBVIOUS
  <2>1. PICK g \in [0..k -> V] : g[0] = b /\ \A i \in 1..k : g[i] = A[<<g[i - 1], i>>]
    BY <1>2
  <2>2. k \in 0..k /\ k + 1 \in 1..n /\ g[k] \in V
    BY <2>1
  <2>3. A[<<g[k], k + 1>>] \in V
    BY <2>2
  <2> DEFINE h == [i \in 0..(k + 1) |-> IF i = k + 1 THEN A[<<g[k], k + 1>>] ELSE g[i]]
  <2>4. h \in [0..(k + 1) -> V]
    BY <2>1, <2>3
  <2>5. h[0] = b
    BY <2>1
  <2>6. ASSUME NEW i \in 1..(k + 1) PROVE h[i] = A[<<h[i - 1], i>>]
    <3>1. i - 1 \in 0..k /\ i - 1 # k + 1 /\ h[i - 1] = g[i - 1]
      OBVIOUS
    <3>2. CASE i = k + 1
      <4>1. h[i] = A[<<g[k], k + 1>>] /\ i - 1 = k
        BY <3>2
      <4> HIDE DEF h
      <4> QED
        BY <3>1, <3>2, <4>1
    <3>3. CASE i # k + 1
      <4>1. i \in 1..k /\ h[i] = g[i]
        BY <3>3
      <4>2. g[i] = A[<<g[i - 1], i>>]
        BY <2>1, <4>1
      <4> HIDE DEF h
      <4> QED
        BY <3>1, <4>1, <4>2
    <3> QED
      BY <3>2, <3>3
  <2> HIDE DEF h
  <2> QED
    BY <2>4, <2>5, <2>6
<1>3. n \in I
  <2> HIDE DEF I
  <2> QED
    BY <1>1, <1>2, SetInduction
<1> QED
  BY <1>3 DEF RecursionOf

-----------------------------------------------------------------------------
(* What applying a request depends on, and what it leaves alone.           *)

\* A client names paths of its own source only: every source has its own
\* database.
OwnPaths == \A b \in Bodies : \A p \in Touches(b) : SourceOf[p] = b.source

\* Within a request a path is upserted at most once, and is the new name in at
\* most one rename.
OncePerPath ==
    \A b \in Bodies :
        /\ \A f, o \in b.files : f.path = o.path => f = o
        /\ \A rn, o \in b.renames : rn[2] = o[2] => rn = o

\* Two tables have the same rows of a source.
SameRows(s, d, e) == \A p \in Paths : SourceOf[p] = s => d[p] = e[p]

\* The upserts that end a request.
WithFiles(d, fs) ==
    [p \in Paths |-> IF \E f \in fs : f.path = p
                     THEN Upserted(d, CHOOSE f \in fs : f.path = p)[p] ELSE d[p]]

\* The row of a path once f was upserted.
After(y, f) ==
    IF ~f.force /\ y # NoRow /\ f.mtime > 0 /\ f.mtime < y.mtime THEN y
    ELSE [hash |-> f.hash, mtime |-> f.mtime]

\* A request is its deletes, its renames and its upserts, one after the other.
LEMMA AppliedInSteps ==
    ASSUME NEW d, NEW b
    PROVE  AppliedBody(d, b) = WithFiles(Renamed(Deleted(d, b.deletes), b.renames), b.files)
BY DEF AppliedBody, WithFiles

\* An upsert changes the row of its path.
LEMMA UpsertedRow ==
    ASSUME NEW d \in Rows, NEW f \in File, NEW p \in Paths
    PROVE  Upserted(d, f)[p] = IF p = f.path THEN After(d[p], f) ELSE d[p]
<1>1. CASE Stale(d, f)
  BY <1>1 DEF Upserted, Stale, After, Rows, File
<1>2. CASE ~Stale(d, f)
  BY <1>2 DEF Upserted, Stale, After, Rows, File
<1> QED
  BY <1>1, <1>2

\* The row of a path depends on the file of that path only.
LEMMA FilesRow ==
    ASSUME NEW d \in Rows, NEW fs \in SUBSET File, \A f, o \in fs : f.path = o.path => f = o,
           NEW p \in Paths
    PROVE  /\ \A f \in fs : f.path = p => WithFiles(d, fs)[p] = After(d[p], f)
           /\ (\A f \in fs : f.path # p) => WithFiles(d, fs)[p] = d[p]
<1>1. ASSUME NEW f \in fs, f.path = p PROVE WithFiles(d, fs)[p] = After(d[p], f)
  <2> DEFINE chosen == CHOOSE o \in fs : o.path = p
  <2>1. chosen \in fs /\ chosen.path = p
    BY <1>1
  <2>2. chosen = f
    BY <1>1, <2>1
  <2>3. WithFiles(d, fs)[p] = Upserted(d, chosen)[p]
    BY <1>1 DEF WithFiles
  <2> HIDE DEF chosen
  <2> QED
    BY <1>1, <2>2, <2>3, UpsertedRow
<1>2. (\A f \in fs : f.path # p) => WithFiles(d, fs)[p] = d[p]
  BY DEF WithFiles
<1> QED
  BY <1>1, <1>2

\* Upserting files gives a table of rows.
LEMMA WithFilesType ==
    ASSUME NEW d \in Rows, NEW fs \in SUBSET File
    PROVE  WithFiles(d, fs) \in Rows
<1>1. ASSUME NEW p \in Paths, NEW f \in fs, f = CHOOSE o \in fs : o.path = p
      PROVE  Upserted(d, f)[p] \in Row \cup {NoRow}
  BY UpsertedType DEF Rows
<1>2. ASSUME NEW p \in Paths
      PROVE  (IF \E f \in fs : f.path = p
              THEN Upserted(d, CHOOSE f \in fs : f.path = p)[p] ELSE d[p]) \in Row \cup {NoRow}
  <2>1. CASE \E f \in fs : f.path = p
    <3>1. (CHOOSE f \in fs : f.path = p) \in fs
      BY <2>1
    <3> QED
      BY <2>1, <3>1, <1>1
  <2>2. CASE ~ \E f \in fs : f.path = p
    BY <2>2 DEF Rows
  <2> QED
    BY <2>1, <2>2
<1> QED
  BY <1>2 DEF WithFiles, Rows

\* The row of a path depends on the rename to that path, or on whether it moves.
LEMMA RenamedRow ==
    ASSUME NEW d \in Rows, NEW rns \in SUBSET (Paths \X Paths),
           \A rn, o \in rns : rn[2] = o[2] => rn = o, NEW p \in Paths
    PROVE  /\ \A rn \in rns : Moves(d, rn) /\ rn[2] = p => Renamed(d, rns)[p] = d[rn[1]]
           /\ (\A rn \in rns : Moves(d, rn) => rn[2] # p) =>
                  Renamed(d, rns)[p] = IF \E rn \in rns : Moves(d, rn) /\ rn[1] = p
                                       THEN NoRow ELSE d[p]
<1>1. ASSUME NEW rn \in rns, Moves(d, rn), rn[2] = p PROVE Renamed(d, rns)[p] = d[rn[1]]
  <2> DEFINE chosen == CHOOSE o \in rns : Moves(d, o) /\ o[2] = p
  <2>1. chosen \in rns /\ chosen[2] = p
    BY <1>1
  <2>2. chosen = rn
    BY <1>1, <2>1
  <2>3. Renamed(d, rns)[p] = d[chosen[1]]
    BY <1>1 DEF Renamed
  <2> HIDE DEF chosen
  <2> QED
    BY <2>2, <2>3
<1>2. (\A rn \in rns : Moves(d, rn) => rn[2] # p) =>
          Renamed(d, rns)[p] = IF \E rn \in rns : Moves(d, rn) /\ rn[1] = p
                               THEN NoRow ELSE d[p]
  BY DEF Renamed
<1> QED
  BY <1>1, <1>2

\* Renames of one source do the same to tables that agree on that source.
LEMMA SameRenamed ==
    ASSUME NEW d \in Rows, NEW e \in Rows, NEW rns \in SUBSET (Paths \X Paths),
           \A rn, o \in rns : rn[2] = o[2] => rn = o,
           NEW s, SameRows(s, d, e),
           \A rn \in rns : SourceOf[rn[1]] = s /\ SourceOf[rn[2]] = s
    PROVE  SameRows(s, Renamed(d, rns), Renamed(e, rns))
<1>1. \A rn \in rns : (Moves(d, rn) <=> Moves(e, rn)) /\ d[rn[1]] = e[rn[1]]
  BY DEF Moves, SameRows
<1>2. SUFFICES ASSUME NEW p \in Paths, SourceOf[p] = s
               PROVE  Renamed(d, rns)[p] = Renamed(e, rns)[p]
  BY DEF SameRows
<1>3. CASE \E rn \in rns : Moves(d, rn) /\ rn[2] = p
  <2>1. PICK rn \in rns : Moves(d, rn) /\ rn[2] = p
    BY <1>3
  <2>2. Renamed(d, rns)[p] = d[rn[1]]
    BY <2>1, RenamedRow
  <2>3. Renamed(e, rns)[p] = e[rn[1]]
    BY <1>1, <2>1, RenamedRow
  <2> QED
    BY <1>1, <2>2, <2>3
<1>4. CASE \A rn \in rns : Moves(d, rn) => rn[2] # p
  <2>1. Renamed(d, rns)[p] = IF \E rn \in rns : Moves(d, rn) /\ rn[1] = p THEN NoRow ELSE d[p]
    BY <1>4, RenamedRow
  <2>2. Renamed(e, rns)[p] = IF \E rn \in rns : Moves(e, rn) /\ rn[1] = p THEN NoRow ELSE e[p]
    BY <1>1, <1>4, RenamedRow
  <2>3. d[p] = e[p]
    BY <1>2 DEF SameRows
  <2> QED
    BY <1>1, <2>1, <2>2, <2>3
<1> QED
  BY <1>3, <1>4

\* A request does the same to tables that agree on its source.
LEMMA SameApplied ==
    ASSUME OwnPaths, OncePerPath, NEW b \in Bodies, NEW d \in Rows, NEW e \in Rows,
           SameRows(b.source, d, e)
    PROVE  SameRows(b.source, AppliedBody(d, b), AppliedBody(e, b))
<1> DEFINE s == b.source
           x == Deleted(d, b.deletes)
           y == Deleted(e, b.deletes)
           u == Renamed(x, b.renames)
           v == Renamed(y, b.renames)
<1>1. x \in Rows /\ y \in Rows
  BY DeletedType
<1>2. SameRows(s, x, y)
  BY DEF SameRows, Deleted
<1>3. b.renames \in SUBSET (Paths \X Paths) /\ b.files \in SUBSET File
  BY BodiesAssumption
<1>4. \A rn \in b.renames : SourceOf[rn[1]] = s /\ SourceOf[rn[2]] = s
  BY DEF OwnPaths, Touches
<1>5. /\ \A rn, o \in b.renames : rn[2] = o[2] => rn = o
      /\ \A f, o \in b.files : f.path = o.path => f = o
  BY DEF OncePerPath
<1> HIDE DEF x, y, s
<1>6. u \in Rows /\ v \in Rows
  BY <1>1, <1>3, RenamedType
<1>7. SameRows(s, u, v)
  BY <1>1, <1>2, <1>3, <1>4, <1>5, SameRenamed
<1> HIDE DEF u, v
<1>8. ASSUME NEW p \in Paths, SourceOf[p] = s
      PROVE  WithFiles(u, b.files)[p] = WithFiles(v, b.files)[p]
  <2>1. u[p] = v[p]
    BY <1>7, <1>8 DEF SameRows
  <2>2. CASE \E f \in b.files : f.path = p
    <3>1. PICK f \in b.files : f.path = p
      BY <2>2
    <3> QED
      BY <2>1, <3>1, <1>3, <1>5, <1>6, FilesRow
  <2>3. CASE \A f \in b.files : f.path # p
    BY <2>1, <2>3, <1>3, <1>5, <1>6, FilesRow
  <2> QED
    BY <2>2, <2>3
<1>9. AppliedBody(d, b) = WithFiles(u, b.files) /\ AppliedBody(e, b) = WithFiles(v, b.files)
  BY AppliedInSteps DEF u, v, x, y
<1> QED
  BY <1>8, <1>9 DEF SameRows, s

\* A request leaves the rows of other sources alone.
LEMMA OtherRows ==
    ASSUME OwnPaths, OncePerPath, NEW b \in Bodies, NEW d \in Rows, NEW s, s # b.source
    PROVE  SameRows(s, AppliedBody(d, b), d)
<1> DEFINE x == Deleted(d, b.deletes)
           u == Renamed(x, b.renames)
<1>1. x \in Rows
  BY DeletedType
<1>2. b.renames \in SUBSET (Paths \X Paths) /\ b.files \in SUBSET File
  BY BodiesAssumption
<1>3. /\ \A rn, o \in b.renames : rn[2] = o[2] => rn = o
      /\ \A f, o \in b.files : f.path = o.path => f = o
  BY DEF OncePerPath
<1>4. SUFFICES ASSUME NEW p \in Paths, SourceOf[p] = s PROVE AppliedBody(d, b)[p] = d[p]
  BY DEF SameRows
<1>5. /\ p \notin b.deletes
      /\ \A rn \in b.renames : rn[1] # p /\ rn[2] # p
      /\ \A f \in b.files : f.path # p
  BY <1>4 DEF OwnPaths, Touches
<1>6. x[p] = d[p]
  BY <1>5 DEF Deleted
<1> HIDE DEF x
<1>7. u[p] = x[p]
  BY <1>1, <1>2, <1>3, <1>5, RenamedRow
<1>8. u \in Rows
  BY <1>1, <1>2, RenamedType
<1> HIDE DEF u
<1>9. WithFiles(u, b.files)[p] = u[p]
  BY <1>2, <1>3, <1>5, <1>8, FilesRow
<1> QED
  BY <1>6, <1>7, <1>9, AppliedInSteps DEF u, x

-----------------------------------------------------------------------------
(* Applying requests one after the other, as a sequence of tables.         *)

\* Tables of rows, one after each request.
Tables == [0..MaxRequests -> Rows]

\* T[i] is T[i - 1] with request i applied, if i is in I and of the source.
Replays(bd, I, s, T) ==
    \A i \in Requests :
        SameRows(s, T[i], IF i \in I /\ bd[i].source = s THEN AppliedBody(T[i - 1], bd[i])
                          ELSE T[i - 1])

\* Applying the requests of I to d in the order of their names gives, for the
\* source s, the rows of e.  bd[i] is what request i asks for.
Yields(bd, I, s, d, e) ==
    \E T \in Tables : SameRows(s, T[0], d) /\ Replays(bd, I, s, T) /\ SameRows(s, T[MaxRequests], e)

\* Tables between which nothing of the source was applied.
LEMMA Unchanged ==
    ASSUME NEW bd, NEW I, NEW s, NEW T \in Tables, Replays(bd, I, s, T),
           NEW a \in 0..MaxRequests, NEW b \in 0..MaxRequests, a <= b,
           \A i \in I : a < i /\ i <= b => bd[i].source # s
    PROVE  SameRows(s, T[b], T[a])
<1>1. MaxRequests \in Nat
  BY ConstantsAssumption
<1> DEFINE S == {n \in Nat : a + n <= b => SameRows(s, T[a + n], T[a])}
<1>2. 0 \in S
  BY <1>1 DEF SameRows
<1>3. ASSUME NEW n \in Nat, n \in S PROVE n + 1 \in S
  <2> SUFFICES ASSUME a + (n + 1) <= b PROVE SameRows(s, T[a + (n + 1)], T[a])
    OBVIOUS
  <2>1. SameRows(s, T[a + n], T[a])
    BY <1>1, <1>3
  <2>2. PICK i : i = a + (n + 1)
    OBVIOUS
  <2>3. i \in Requests /\ i - 1 = a + n /\ a < i /\ i <= b
    BY <1>1, <2>2 DEF Requests
  <2>4. SameRows(s, T[i], T[i - 1])
    BY <2>3 DEF Replays
  <2> QED
    BY <2>1, <2>2, <2>3, <2>4 DEF SameRows
<1> HIDE DEF S
<1>4. Nat \subseteq S
  BY <1>2, <1>3, SetInduction
<1>5. b - a \in Nat /\ a + (b - a) = b
  BY <1>1
<1>6. b - a \in S
  BY <1>4, <1>5
<1> QED
  BY <1>5, <1>6 DEF S

\* Only the rows of the source matter.
LEMMA SameYield ==
    ASSUME NEW bd, NEW I, NEW s, NEW d, NEW e, Yields(bd, I, s, d, e),
           NEW x, NEW y, SameRows(s, d, x), SameRows(s, e, y)
    PROVE  Yields(bd, I, s, x, y)
<1>1. PICK T \in Tables :
          SameRows(s, T[0], d) /\ Replays(bd, I, s, T) /\ SameRows(s, T[MaxRequests], e)
  BY DEF Yields
<1>2. SameRows(s, T[0], x) /\ SameRows(s, T[MaxRequests], y)
  BY <1>1 DEF SameRows
<1> QED
  BY <1>1, <1>2 DEF Yields

\* Only the requests that are applied matter.
LEMMA SameBodies ==
    ASSUME NEW bd, NEW bd2, NEW I, NEW s, NEW d, NEW e, Yields(bd, I, s, d, e),
           \A i \in I : bd2[i] = bd[i]
    PROVE  Yields(bd2, I, s, d, e)
BY DEF Yields, Replays

\* Without requests of the source its rows are the same.
LEMMA NothingLeft ==
    ASSUME NEW bd, NEW I, NEW s, NEW d \in Rows, NEW e, \A i \in I : bd[i].source # s
    PROVE  Yields(bd, I, s, d, e) <=> SameRows(s, d, e)
<1>1. /\ MaxRequests \in Nat /\ 0 \in 0..MaxRequests
      /\ MaxRequests \in 0..MaxRequests /\ 0 <= MaxRequests
  BY ConstantsAssumption
<1>2. ASSUME Yields(bd, I, s, d, e) PROVE SameRows(s, d, e)
  <2>1. PICK T \in Tables :
            SameRows(s, T[0], d) /\ Replays(bd, I, s, T) /\ SameRows(s, T[MaxRequests], e)
    BY <1>2 DEF Yields
  <2>2. SameRows(s, T[MaxRequests], T[0])
    BY <1>1, <2>1, Unchanged
  <2> QED
    BY <2>1, <2>2 DEF SameRows
<1>3. ASSUME SameRows(s, d, e) PROVE Yields(bd, I, s, d, e)
  <2> DEFINE T == [i \in 0..MaxRequests |-> d]
  <2>1. T \in Tables
    BY DEF Tables
  <2>2. T[0] = d /\ T[MaxRequests] = d
    BY <1>1
  <2>3. \A i \in Requests : T[i] = d /\ T[i - 1] = d
    BY <1>1 DEF Requests
  <2> HIDE DEF T
  <2>4. Replays(bd, I, s, T)
    BY <2>3 DEF Replays, SameRows
  <2>5. SameRows(s, T[0], d) /\ SameRows(s, T[MaxRequests], e)
    BY <1>3, <2>2 DEF SameRows
  <2> QED
    BY <2>1, <2>4, <2>5 DEF Yields
<1> QED
  BY <1>2, <1>3

\* The least request of its source may be applied at once.
LEMMA FirstTaken ==
    ASSUME OwnPaths, OncePerPath,
           NEW bd, NEW I \in SUBSET Requests, \A i \in I : bd[i] \in Bodies,
           NEW r \in I, \A i \in I : i < r => bd[i].source # bd[r].source,
           NEW s, NEW d \in Rows, NEW e, Yields(bd, I, s, d, e)
    PROVE  Yields(bd, I \ {r}, s, AppliedBody(d, bd[r]), e)
<1>1. PICK T \in Tables :
          SameRows(s, T[0], d) /\ Replays(bd, I, s, T) /\ SameRows(s, T[MaxRequests], e)
  BY DEF Yields
<1>2. MaxRequests \in Nat /\ r \in 1..MaxRequests
  BY ConstantsAssumption DEF Requests
<1> DEFINE x == AppliedBody(d, bd[r])
<1>3. x \in Rows
  BY AppliedBodyType
<1>4. CASE bd[r].source # s
  <2>1. SameRows(s, x, d)
    BY <1>4, OtherRows
  <2>2. SameRows(s, T[0], x)
    BY <1>1, <2>1 DEF SameRows
  <2>3. Replays(bd, I \ {r}, s, T)
    BY <1>1, <1>4 DEF Replays
  <2> QED
    BY <1>1, <2>2, <2>3 DEF Yields
<1>5. CASE bd[r].source = s
  <2> DEFINE U == [i \in 0..MaxRequests |-> IF i < r THEN x ELSE T[i]]
  <2>1. U \in Tables
    BY <1>3 DEF Tables
  <2>2. U[0] = x /\ U[MaxRequests] = T[MaxRequests]
    BY <1>2
  <2>3. r - 1 \in 0..MaxRequests /\ 0 \in 0..MaxRequests /\ 0 <= r - 1
        /\ \A i \in I : 0 < i /\ i <= r - 1 => bd[i].source # s
    BY <1>2, <1>5 DEF Requests
  <2>4. SameRows(s, T[r - 1], T[0])
    BY <1>1, <2>3, Unchanged
  <2>5. T[r - 1] \in Rows
    BY <2>3 DEF Tables
  <2>6. SameRows(s, T[r - 1], d)
    BY <1>1, <2>4 DEF SameRows
  <2>7. SameRows(s, AppliedBody(T[r - 1], bd[r]), x)
    BY <1>5, <2>5, <2>6, SameApplied
  <2>8. SameRows(s, T[r], AppliedBody(T[r - 1], bd[r]))
    BY <1>1, <1>5 DEF Replays
  <2>9. SameRows(s, T[r], x)
    BY <2>7, <2>8 DEF SameRows
  <2>10. ASSUME NEW i \in Requests
         PROVE  SameRows(s, U[i], IF i \in I \ {r} /\ bd[i].source = s
                                  THEN AppliedBody(U[i - 1], bd[i]) ELSE U[i - 1])
    <3>1. i \in 1..MaxRequests
      BY DEF Requests
    <3>2. CASE i < r
      <4>1. U[i] = x /\ U[i - 1] = x
        BY <1>2, <3>1, <3>2
      <4>2. ~(i \in I \ {r} /\ bd[i].source = s)
        BY <1>5, <3>2
      <4> HIDE DEF U
      <4> QED
        BY <4>1, <4>2 DEF SameRows
    <3>3. CASE i = r
      <4>1. U[i] = T[r] /\ U[i - 1] = x
        BY <1>2, <3>1, <3>3
      <4> HIDE DEF U
      <4> QED
        BY <4>1, <3>3, <2>9
    <3>4. CASE i > r
      <4>1. U[i] = T[i] /\ U[i - 1] = T[i - 1] /\ i # r
        BY <1>2, <3>1, <3>4
      <4> HIDE DEF U
      <4> QED
        BY <4>1, <1>1 DEF Replays
    <3> QED
      BY <1>2, <3>1, <3>2, <3>3, <3>4
  <2> HIDE DEF U
  <2>11. Replays(bd, I \ {r}, s, U)
    BY <2>10 DEF Replays
  <2>12. SameRows(s, U[0], x) /\ SameRows(s, U[MaxRequests], e)
    BY <1>1, <2>2 DEF SameRows
  <2> QED
    BY <2>1, <2>11, <2>12 DEF Yields
<1> QED
  BY <1>4, <1>5

\* A request above all the others of its source may be added to both sides.
LEMMA LastAdded ==
    ASSUME OwnPaths, OncePerPath,
           NEW bd, NEW I \in SUBSET Requests, \A i \in I : bd[i] \in Bodies,
           NEW r \in Requests, bd[r] \in Bodies, r \notin I,
           \A i \in I : i > r => bd[i].source # bd[r].source,
           NEW s, NEW d \in Rows, NEW e \in Rows, Yields(bd, I, s, d, e)
    PROVE  Yields(bd, I \cup {r}, s, d, AppliedBody(e, bd[r]))
<1>1. PICK T \in Tables :
          SameRows(s, T[0], d) /\ Replays(bd, I, s, T) /\ SameRows(s, T[MaxRequests], e)
  BY DEF Yields
<1>2. MaxRequests \in Nat /\ r \in 1..MaxRequests
  BY ConstantsAssumption DEF Requests
<1> DEFINE x == AppliedBody(e, bd[r])
<1>3. CASE bd[r].source # s
  <2>1. SameRows(s, x, e)
    BY <1>3, OtherRows
  <2>2. SameRows(s, T[MaxRequests], x)
    BY <1>1, <2>1 DEF SameRows
  <2>3. Replays(bd, I \cup {r}, s, T)
    BY <1>1, <1>3 DEF Replays
  <2> QED
    BY <1>1, <2>2, <2>3 DEF Yields
<1>4. CASE bd[r].source = s
  <2>1. r - 1 \in 0..MaxRequests /\ MaxRequests \in 0..MaxRequests /\ r - 1 <= MaxRequests
        /\ \A i \in I : r - 1 < i /\ i <= MaxRequests => i > r \/ i = r
    BY <1>2 DEF Requests
  <2>2. SameRows(s, T[MaxRequests], T[r - 1])
    BY <1>1, <1>4, <2>1, Unchanged
  <2>3. T[r - 1] \in Rows
    BY <2>1 DEF Tables
  <2> DEFINE y == AppliedBody(T[r - 1], bd[r])
             U == [i \in 0..MaxRequests |-> IF i < r THEN T[i] ELSE y]
  <2>4. y \in Rows
    BY <2>3, AppliedBodyType
  <2>5. SameRows(s, e, T[r - 1])
    BY <1>1, <2>2 DEF SameRows
  <2>6. SameRows(s, x, y)
    BY <1>4, <2>3, <2>5, SameApplied
  <2> HIDE DEF x
  <2>7. U \in Tables
    <3> HIDE DEF y
    <3> QED
      BY <2>4 DEF Tables
  <2>8. U[0] = T[0] /\ U[MaxRequests] = y
    <3> HIDE DEF y
    <3> QED
      BY <1>2
  <2>9. ASSUME NEW i \in Requests
        PROVE  SameRows(s, U[i], IF i \in I \cup {r} /\ bd[i].source = s
                                 THEN AppliedBody(U[i - 1], bd[i]) ELSE U[i - 1])
    <3>1. i \in 1..MaxRequests
      BY DEF Requests
    <3>2. CASE i < r
      <4>1. U[i] = T[i] /\ U[i - 1] = T[i - 1] /\ i # r
        <5> HIDE DEF y
        <5> QED
          BY <1>2, <3>1, <3>2
      <4> HIDE DEF U
      <4> QED
        BY <4>1, <1>1 DEF Replays
    <3>3. CASE i = r
      <4>1. U[i] = y /\ U[i - 1] = T[r - 1]
        <5> HIDE DEF y
        <5> QED
          BY <1>2, <3>1, <3>3
      <4> HIDE DEF U
      <4> QED
        BY <4>1, <3>3, <1>4 DEF SameRows
    <3>4. CASE i > r
      <4>1. U[i] = y /\ U[i - 1] = y /\ i # r
        <5> HIDE DEF y
        <5> QED
          BY <1>2, <3>1, <3>4
      <4>2. ~(i \in I \cup {r} /\ bd[i].source = s)
        BY <4>1, <3>4, <1>4
      <4> HIDE DEF U
      <4> QED
        BY <4>1, <4>2 DEF SameRows
    <3> QED
      BY <1>2, <3>1, <3>2, <3>3, <3>4
  <2> HIDE DEF U
  <2>10. Replays(bd, I \cup {r}, s, U)
    BY <2>9 DEF Replays
  <2>11. SameRows(s, U[0], d) /\ SameRows(s, U[MaxRequests], x)
    BY <1>1, <2>6, <2>8 DEF SameRows
  <2> QED
    BY <2>7, <2>10, <2>11 DEF Yields, x
<1> QED
  BY <1>3, <1>4

-----------------------------------------------------------------------------
(* What a request that waits has done already is absorbed when it is       *)
(* applied again, whatever was applied in between: the stale-mtime guard   *)
(* and the deletes see to it.  Renames are not absorbed.                   *)

\* The row x of p is the row y, or b gives both the same row: b deletes p, or it
\* upserts p whatever the mtime, or x is the row b gives and y is not newer.
Redo(b, p, y, x) ==
    \/ y = x
    \/ p \in b.deletes
    \/ \E f \in b.files :
          /\ f.path = p
          /\ \/ f.force \/ f.mtime = 0
             \/ /\ x = [hash |-> f.hash, mtime |-> f.mtime]
                /\ y = NoRow \/ y.mtime <= f.mtime

\* A request without renames changes every row by itself.
LEMMA AppliedRow ==
    ASSUME OncePerPath, NEW b \in Bodies, b.renames = {}, NEW d \in Rows, NEW p \in Paths
    PROVE  LET y == IF p \in b.deletes THEN NoRow ELSE d[p]
           IN  /\ \A f \in b.files : f.path = p => AppliedBody(d, b)[p] = After(y, f)
               /\ (\A f \in b.files : f.path # p) => AppliedBody(d, b)[p] = y
<1> DEFINE x == Deleted(d, b.deletes)
<1>1. x \in Rows /\ x[p] = IF p \in b.deletes THEN NoRow ELSE d[p]
  BY DeletedType DEF Deleted
<1>2. b.files \in SUBSET File /\ \A f, o \in b.files : f.path = o.path => f = o
  BY BodiesAssumption DEF OncePerPath
<1>3. AppliedBody(d, b) = WithFiles(Renamed(x, {}), b.files)
  BY AppliedInSteps
<1> HIDE DEF x
<1>4. Renamed(x, {}) = x
  BY <1>1, RenamedByNone
<1> QED
  BY <1>1, <1>2, <1>3, <1>4, FilesRow

\* Other requests in between do not change what the request gives both.
LEMMA RedoKept ==
    ASSUME OncePerPath, NEW b \in Bodies, NEW c \in Bodies, c.renames = {},
           NEW d \in Rows, NEW e \in Rows, NEW p \in Paths, Redo(b, p, d[p], e[p])
    PROVE  Redo(b, p, AppliedBody(d, c)[p], AppliedBody(e, c)[p])
<1>1. b.files \in SUBSET File /\ c.files \in SUBSET File
  BY BodiesAssumption
<1> DEFINE y == IF p \in c.deletes THEN NoRow ELSE d[p]
           x == IF p \in c.deletes THEN NoRow ELSE e[p]
<1>2. y \in Row \cup {NoRow} /\ x \in Row \cup {NoRow}
  BY DEF Rows
<1>3. Redo(b, p, y, x)
  BY DEF Redo
<1>4. CASE \A f \in c.files : f.path # p
  <2>1. AppliedBody(d, c)[p] = y /\ AppliedBody(e, c)[p] = x
    BY <1>4, AppliedRow
  <2> QED
    BY <1>3, <2>1
<1>5. ASSUME NEW g \in c.files, g.path = p PROVE Redo(b, p, After(y, g), After(x, g))
  <2> HIDE DEF x, y
  <2>1. CASE y = x \/ p \in b.deletes
    BY <2>1 DEF Redo
  <2>2. ASSUME NEW f \in b.files, f.path = p, f.force \/ f.mtime = 0
        PROVE  Redo(b, p, After(y, g), After(x, g))
    BY <2>2 DEF Redo
  <2>3. ASSUME NEW f \in b.files, f.path = p, x = [hash |-> f.hash, mtime |-> f.mtime],
               y = NoRow \/ y.mtime <= f.mtime
        PROVE  Redo(b, p, After(y, g), After(x, g))
    <3>1. f.mtime \in Nat /\ g.mtime \in Nat /\ g.force \in BOOLEAN
      BY <1>1 DEF File
    <3>2. x # NoRow /\ x.mtime = f.mtime
      BY <1>1, <1>2, <2>3, ConstantsAssumption DEF File, Row
    <3>3. y # NoRow => y.mtime \in Nat
      BY <1>2 DEF Row
    <3>4. After(y, g) = After(x, g)
          \/ (After(x, g) = x /\ (After(y, g) = NoRow \/ After(y, g).mtime <= f.mtime))
      <4>1. CASE ~g.force /\ g.mtime > 0 /\ g.mtime < f.mtime
        <5>1. After(x, g) = x
          BY <3>2, <4>1 DEF After
        <5>2. After(y, g) = y \/ After(y, g).mtime = g.mtime
          BY DEF After
        <5> QED
          BY <5>1, <5>2, <3>1, <4>1, <2>3
      <4>2. CASE ~(~g.force /\ g.mtime > 0 /\ g.mtime < f.mtime)
        <5>1. After(x, g) = [hash |-> g.hash, mtime |-> g.mtime]
          BY <3>2, <4>2 DEF After
        <5>2. ~(~g.force /\ y # NoRow /\ g.mtime > 0 /\ g.mtime < y.mtime)
          BY <2>3, <3>1, <3>3, <4>2
        <5>3. After(y, g) = [hash |-> g.hash, mtime |-> g.mtime]
          BY <5>2 DEF After
        <5> QED
          BY <5>1, <5>3
      <4> QED
        BY <4>1, <4>2
    <3> QED
      BY <2>3, <3>4 DEF Redo
  <2> QED
    BY <1>3, <2>1, <2>2, <2>3 DEF Redo
<1>6. CASE \E g \in c.files : g.path = p
  <2>1. PICK g \in c.files : g.path = p
    BY <1>6
  <2>2. AppliedBody(d, c)[p] = After(y, g) /\ AppliedBody(e, c)[p] = After(x, g)
    BY <2>1, AppliedRow
  <2> QED
    BY <1>5, <2>1, <2>2
<1> QED
  BY <1>4, <1>6

\* Once the request was applied the rows are the same.
LEMMA RedoDone ==
    ASSUME OncePerPath, NEW b \in Bodies, b.renames = {},
           NEW d \in Rows, NEW e \in Rows, NEW p \in Paths, Redo(b, p, d[p], e[p])
    PROVE  AppliedBody(d, b)[p] = AppliedBody(e, b)[p]
<1>1. b.files \in SUBSET File /\ \A f, o \in b.files : f.path = o.path => f = o
  BY BodiesAssumption DEF OncePerPath
<1> DEFINE y == IF p \in b.deletes THEN NoRow ELSE d[p]
           x == IF p \in b.deletes THEN NoRow ELSE e[p]
<1>2. y \in Row \cup {NoRow} /\ x \in Row \cup {NoRow}
  BY DEF Rows
<1>3. /\ \A f \in b.files : f.path = p => AppliedBody(d, b)[p] = After(y, f)
                                            /\ AppliedBody(e, b)[p] = After(x, f)
      /\ (\A f \in b.files : f.path # p) => AppliedBody(d, b)[p] = y /\ AppliedBody(e, b)[p] = x
  BY AppliedRow
<1>4. CASE y = x
  BY <1>3, <1>4
<1>5. CASE y # x
  <2>1. PICK f \in b.files :
          /\ f.path = p
          /\ \/ f.force \/ f.mtime = 0
             \/ /\ x = [hash |-> f.hash, mtime |-> f.mtime]
                /\ y = NoRow \/ y.mtime <= f.mtime
    BY <1>5 DEF Redo
  <2>2. f.mtime \in Nat
    BY <1>1 DEF File
  <2> HIDE DEF x, y
  <2>3. CASE f.force \/ f.mtime = 0
    <3>1. After(y, f) = After(x, f)
      BY <2>3 DEF After
    <3> QED
      BY <1>3, <2>1, <3>1
  <2>4. CASE x = [hash |-> f.hash, mtime |-> f.mtime] /\ (y = NoRow \/ y.mtime <= f.mtime)
    <3>1. y # NoRow => y.mtime \in Nat
      BY <1>2 DEF Row
    <3>2. After(y, f) = x
      BY <2>2, <2>4, <3>1 DEF After
    <3>3. After(x, f) = x
      BY <2>2, <2>4 DEF After
    <3> QED
      BY <1>3, <2>1, <3>2, <3>3
  <2> QED
    BY <2>1, <2>3, <2>4
<1> QED
  BY <1>4, <1>5

\* What a request that waits has done already changes nothing.
LEMMA Absorbed ==
    ASSUME OwnPaths, OncePerPath,
           NEW bd, NEW I \in SUBSET Requests, \A i \in I : bd[i] \in Bodies /\ bd[i].renames = {},
           NEW r \in I, NEW s, bd[r].source = s, NEW d \in Rows, NEW x \in Rows, NEW e,
           \A p \in Paths : SourceOf[p] = s => Redo(bd[r], p, d[p], x[p]),
           Yields(bd, I, s, d, e)
    PROVE  Yields(bd, I, s, x, e)
<1>1. PICK T \in Tables :
          SameRows(s, T[0], d) /\ Replays(bd, I, s, T) /\ SameRows(s, T[MaxRequests], e)
  BY DEF Yields
<1>2. MaxRequests \in Nat /\ r \in 1..MaxRequests /\ Requests = 1..MaxRequests
  BY ConstantsAssumption DEF Requests
<1> DEFINE A == [v \in Rows \X (1..MaxRequests) |->
                   IF v[2] \in I /\ bd[v[2]].source = s THEN AppliedBody(v[1], bd[v[2]]) ELSE v[1]]
<1>3. A \in [Rows \X (1..MaxRequests) -> Rows]
  <2>1. ASSUME NEW v \in Rows \X (1..MaxRequests)
        PROVE  (IF v[2] \in I /\ bd[v[2]].source = s
                THEN AppliedBody(v[1], bd[v[2]]) ELSE v[1]) \in Rows
    BY AppliedBodyType
  <2> QED
    BY <2>1
<1>4. ASSUME NEW y \in Rows, NEW i \in Requests
      PROVE  A[<<y, i>>] = IF i \in I /\ bd[i].source = s THEN AppliedBody(y, bd[i]) ELSE y
  BY <1>2
<1> HIDE DEF A
<1>5. PICK U : RecursionOf(MaxRequests, Rows, x, A, U)
  BY <1>2, <1>3, RecursionExists
<1>6. U \in Tables /\ U[0] = x
  BY <1>5 DEF RecursionOf, Tables
<1>7. \A i \in Requests : /\ i - 1 \in 0..MaxRequests /\ i \in 0..MaxRequests
                          /\ T[i - 1] \in Rows /\ U[i - 1] \in Rows
                          /\ T[i] \in Rows /\ U[i] \in Rows
  BY <1>2, <1>6 DEF Tables
<1>8. ASSUME NEW i \in Requests
      PROVE  U[i] = IF i \in I /\ bd[i].source = s THEN AppliedBody(U[i - 1], bd[i]) ELSE U[i - 1]
  <2>1. U[i] = A[<<U[i - 1], i>>]
    BY <1>2, <1>5 DEF RecursionOf
  <2> QED
    BY <1>4, <1>7, <2>1
<1>9. Replays(bd, I, s, U)
  BY <1>8 DEF Replays, SameRows
<1> DEFINE Close(n) == \A p \in Paths : SourceOf[p] = s =>
                          Redo(bd[r], p, T[n][p], U[n][p]) /\ (r <= n => T[n][p] = U[n][p])
           S == {n \in Nat : n <= MaxRequests => Close(n)}
<1>10. 0 \in S
  <2>1. ~(r <= 0)
    BY <1>2
  <2> QED
    BY <2>1, <1>1, <1>6 DEF SameRows
<1>11. ASSUME NEW n \in Nat, n \in S PROVE n + 1 \in S
  <2> SUFFICES ASSUME n + 1 <= MaxRequests PROVE Close(n + 1)
    OBVIOUS
  <2>1. PICK i : i = n + 1
    OBVIOUS
  <2>2. i \in Requests /\ i - 1 = n /\ (r <= i <=> r = i \/ r <= n)
    BY <1>2, <2>1
  <2>3. Close(n)
    BY <1>2, <1>11
  <2> HIDE DEF S
  <2>4. CASE i \in I /\ bd[i].source = s
    <3>1. SameRows(s, T[i], AppliedBody(T[n], bd[i])) /\ U[i] = AppliedBody(U[n], bd[i])
      BY <1>1, <1>8, <2>2, <2>4 DEF Replays
    <3>2. T[n] \in Rows /\ U[n] \in Rows
      BY <1>7, <2>2
    <3>3. ASSUME NEW p \in Paths, SourceOf[p] = s
          PROVE  Redo(bd[r], p, AppliedBody(T[n], bd[i])[p], AppliedBody(U[n], bd[i])[p])
      BY <2>3, <2>4, <3>2, <3>3, RedoKept
    <3>4. ASSUME r = i, NEW p \in Paths, SourceOf[p] = s
          PROVE  AppliedBody(T[n], bd[i])[p] = AppliedBody(U[n], bd[i])[p]
      BY <2>3, <2>4, <3>2, <3>4, RedoDone
    <3>5. ASSUME r <= n
          PROVE  SameRows(s, AppliedBody(T[n], bd[i]), AppliedBody(U[n], bd[i]))
      <4>1. SameRows(s, T[n], U[n])
        BY <2>3, <3>5 DEF SameRows
      <4> QED
        BY <2>4, <3>2, <4>1, SameApplied
    <3> QED
      BY <2>1, <2>2, <3>1, <3>3, <3>4, <3>5 DEF SameRows
  <2>5. CASE ~(i \in I /\ bd[i].source = s)
    <3>1. SameRows(s, T[i], T[n]) /\ U[i] = U[n] /\ r # i
      BY <1>1, <1>8, <2>2, <2>5 DEF Replays
    <3> QED
      BY <2>1, <2>2, <2>3, <3>1 DEF SameRows
  <2> QED
    BY <2>4, <2>5
<1> HIDE DEF S
<1>12. MaxRequests \in S
  BY <1>2, <1>10, <1>11, SetInduction
<1>13. SameRows(s, T[MaxRequests], U[MaxRequests])
  BY <1>2, <1>12 DEF S, SameRows
<1>14. SameRows(s, U[MaxRequests], e) /\ SameRows(s, U[0], x)
  BY <1>1, <1>6, <1>13 DEF SameRows
<1> QED
  BY <1>6, <1>9, <1>14 DEF Yields

-----------------------------------------------------------------------------
(* While nothing is quarantined, no request is overtaken.                  *)

\* A locked database and a failed COMMIT roll back requests that later ones of
\* the group or the channel overtake; an inbox file that is not removed is
\* replayed after later requests were; a file indexed by name only is not what
\* the request asked for.  Every other kind of fault is allowed.
InOrderFaults == Faults \cap {"lock", "commit", "remove", "file"} = {}

\* Who is in S has overtaken no request that was answered before it got its id.
Overtakes(S) == \A r \in S, q \in inbox : Before(q, r) => q \in S

\* While nothing is quarantined no stage of the pipeline holds a request and not
\* one before it that has its inbox file; what is in flight is at a stage or
\* reported, and what was reported is gone.
StagesFollow ==
    failed = {} =>
        /\ Overtakes(Buffered) /\ Overtakes(Begun) /\ Overtakes(Grouped)
        /\ Overtakes(Dispatched) /\ Overtakes(Listed)
        /\ inFlight \subseteq channel \cup toSignal \cup doneQ
        /\ \A r \in toSignal \cup doneQ : r < nextReq /\ r \notin pending
        /\ (toSignal \cup doneQ) \cap inbox \subseteq Grouped
        /\ GroupOver => group = {}

\* No step empties failed/, and one that quarantines a request fills it.
LEMMA NothingFailed ==
    ASSUME IInv, Next, failed' = {}
    PROVE  failed = {} /\ ~(DecodeFails \/ OpenFails \/ RequestFails \/ WorkerPanics)
<1>1. Held => cur \in inbox
  BY DEF IInv, SingleFlight
<1>2. ~(DecodeFails \/ OpenFails \/ RequestFails \/ WorkerPanics)
  BY <1>1 DEF DecodeFails, OpenFails, RequestFails, WorkerPanics, InRequest, MoveToFailed, Held
<1>3. failed' = failed \/ DecodeFails \/ OpenFails \/ RequestFails \/ WorkerPanics
  BY DEF Next, Router, Worker, Archiver, Failure, Submit, CreateFile, SubmitDone, RouterScan, RouterSend,
         InboxPause, InboxResume, WorkerRecv, NextRequest, Decode, OpenSession, Deletes, Renames,
         IndexFile, Cleanup, RequestDone, GroupEnd, Commit, FlushPayload, FlushDelete, FlushEnd,
         SignalDone, ArchiveStart, ArchiveFile, ArchivePut, ArchiveDone, GroupAborts,
         ArchiveFails, Crash, diskVars
<1> QED
  BY <1>2, <1>3

\* A step that moves no request from one stage to another keeps that.
LEMMA SameFollow ==
    ASSUME StagesFollow, failed = {}, UNCHANGED stageVars, Held' <=> Held, GroupOver' => group = {}
    PROVE  StagesFollow'
BY DEF StagesFollow, Overtakes, Before, Listed, Dispatched, Grouped, Begun, Buffered, stageVars

\* Every step keeps that, as long as no fault reorders the requests.
LEMMA FollowStep ==
    ASSUME InOrderFaults, IInv, StagesFollow, Next
    PROVE  StagesFollow'
<1> USE DEF Overtakes, Listed, Dispatched, Grouped, Begun, Buffered
<1>1. SUFFICES ASSUME failed' = {} PROVE StagesFollow'
  BY DEF StagesFollow
<1>2. failed = {} /\ ~(DecodeFails \/ OpenFails \/ RequestFails \/ WorkerPanics)
  BY <1>1, NothingFailed
<1>3. ASSUME NEW b \in Bodies, Submit(b) PROVE StagesFollow'
  <2>1. /\ nextReq \in Nat /\ nextReq' = nextReq + 1 /\ pending' = pending \cup {nextReq}
        /\ UNCHANGED <<inbox, inFlight, remaining, channel, doneQ, group, toSignal,
                       deletable, cur, pc, ret>>
    BY <1>3 DEF Submit, IInv, TypeOK, diskVars, routerVars, workerVars, sessionVars
  <2>2. Listed \subseteq inbox
    BY DEF IInv, SingleFlight
  <2>3. \A q, r \in inbox : Before(q, r)' <=> Before(q, r)
    BY <1>3, SubmitKeepsBefore
  <2>4. \A r \in toSignal \cup doneQ : r < nextReq' /\ r \notin pending'
    BY <1>2, <2>1 DEF StagesFollow, IInv, TypeOK, Requests
  <2> QED
    BY <1>2, <2>1, <2>2, <2>3, <2>4 DEF StagesFollow, Held, GroupOver
<1>4. ASSUME NEW r \in Requests, CreateFile(r) \/ SubmitDone(r) PROVE StagesFollow'
  <2>1. CASE CreateFile(r)
    <3>1. /\ r \in pending /\ pending' = pending \ {r} /\ inbox' = inbox \cup {r}
          /\ UNCHANGED <<nextReq, body, beside, inFlight, remaining, channel, doneQ,
                         group, toSignal, deletable, cur, pc, ret>>
      BY <2>1 DEF CreateFile, routerVars, workerVars, sessionVars
    <3>2. Listed \subseteq inbox
      BY DEF IInv, SingleFlight
    <3>3. \A q \in inbox : ~Before(r, q)
      BY <3>1, PendingIsBeside
    <3>4. \A q, o : Before(q, o)' <=> Before(q, o)
      BY <3>1 DEF Before
    <3>5. r \notin toSignal \cup doneQ
      BY <1>2, <3>1 DEF StagesFollow
    <3> QED
      BY <1>2, <3>1, <3>2, <3>3, <3>4, <3>5 DEF StagesFollow, Held, GroupOver
  <2>2. CASE SubmitDone(r)
    BY <1>2, <2>2, SameFollow
    DEF SubmitDone, StagesFollow, GroupOver, Held, stageVars, clientVars, routerVars, workerVars,
        sessionVars
  <2> QED
    BY <1>4, <2>1, <2>2
<1> USE DEF Before
<1>5. CASE RouterScan
  <2>1. UNCHANGED <<nextReq, body, pending, beside, inbox, channel, group, toSignal, deletable, cur, pc, ret>>
    BY <1>5 DEF RouterScan, diskVars, clientVars, workerVars, sessionVars
  <2>2. /\ remaining = {} /\ doneQ' = {} /\ inFlight' = inFlight \ doneQ
        /\ remaining' \in {{}, inbox \ inFlight'}
    BY <1>5 DEF RouterScan
  <2>3. ASSUME NEW q \in inbox, q \notin Dispatched
        PROVE  q \in inbox \ inFlight'
    BY <1>2, <2>2, <2>3 DEF StagesFollow
  <2> QED
    BY <1>2, <2>1, <2>2, <2>3 DEF StagesFollow, Held, GroupOver
<1>6. CASE RouterSend
  <2>1. UNCHANGED <<nextReq, body, pending, beside, inbox, doneQ, group, toSignal, deletable, cur, pc, ret>>
    BY <1>6 DEF RouterSend, diskVars, clientVars, workerVars, sessionVars
  <2>2. remaining \subseteq Nat
    BY DEF IInv, TypeOK, Requests
  <2>3. ASSUME NEW g \in FormGroup(remaining), channel = {}, channel' = g,
               inFlight' = inFlight \cup g, remaining' = remaining \ g
        PROVE  StagesFollow'
    <3>1. g \subseteq remaining /\ \A r \in g, q \in remaining \ g : r < q
      BY <2>3 DEF FormGroup
    <3>2. \A r \in g, q \in remaining : q < r => q \in g
      BY <3>1, <2>2
    <3> QED
      BY <1>2, <2>1, <2>3, <3>1, <3>2 DEF StagesFollow, Held, GroupOver
  <2>4. ASSUME remaining' = {}, UNCHANGED <<inFlight, channel>>
        PROVE  StagesFollow'
    BY <1>2, <2>1, <2>4 DEF StagesFollow, Held, GroupOver
  <2> QED
    BY <1>6, <2>3, <2>4 DEF RouterSend
<1>7. CASE InboxPause \/ InboxResume
  BY <1>2, <1>7, SameFollow
  DEF InboxPause, InboxResume, StagesFollow, GroupOver, Held, stageVars, diskVars, clientVars,
      workerVars, sessionVars
<1>8. CASE WorkerRecv
  <2>1. \A r \in channel : r < nextReq /\ r \notin pending
    BY DEF IInv, SingleFlight, DurabilityInv, OnlySubmitted
  <2> QED
    BY <1>2, <1>8, <2>1
    DEF WorkerRecv, StagesFollow, IInv, SingleFlight, Held, GroupOver, diskVars, clientVars,
        sessionVars
<1>9. CASE NextRequest
  <2>1. group \subseteq Nat
    BY DEF IInv, TypeOK, Requests
  <2>2. PICK r \in group : IsLeast(r, group) /\ cur' = r /\ group' = group \ {r}
    BY <1>9 DEF NextRequest
  <2>3. pc = "next" /\ pc' = "decode" /\ UNCHANGED <<nextReq, body, pending, beside, inbox, inFlight, remaining,
            channel, doneQ, toSignal, deletable>>
    BY <1>9 DEF NextRequest, diskVars, clientVars, routerVars, sessionVars
  <2>4. \A q \in group : q < r => q \in {}
    BY <2>1, <2>2 DEF IsLeast
  <2> QED
    BY <1>2, <2>2, <2>3, <2>4 DEF StagesFollow, Held, GroupOver
<1>10. CASE Decode \/ OpenSession
  BY <1>2, <1>10, SameFollow
  DEF Decode, OpenSession, Goto, GroupOver, Held, stageVars, diskVars, clientVars, routerVars,
      sessionVars
<1>11. CASE Deletes \/ Renames \/ IndexFile \/ Cleanup
  BY <1>2, <1>11, SameFollow
  DEF Deletes, Renames, IndexFile, Cleanup, AddUnits, GroupOver, Held, stageVars, diskVars,
      clientVars, routerVars
<1>12. CASE RequestDone
  BY <1>2, <1>12
  DEF RequestDone, Goto, StagesFollow, Held, GroupOver, diskVars, clientVars, routerVars
<1>13. CASE GroupAborts
  BY <1>13 DEF InOrderFaults, GroupAborts, Fault
<1>14. CASE GroupEnd
  BY <1>2, <1>14, SameFollow
  DEF GroupEnd, Goto, GroupOver, Held, stageVars, diskVars, clientVars, routerVars, sessionVars
<1>15. CASE Commit
  <2>1. UNCHANGED <<nextReq, body, pending, beside, inbox, inFlight, remaining, channel, doneQ, group, toSignal,
                    deletable, cur, ret>>
    BY <1>15 DEF Commit, Goto, clientVars, routerVars, sessionVars
  <2>2. pc = "commit" /\ pc' = "flush"
    BY <1>15 DEF Commit, Goto
  <2> QED
    BY <1>2, <2>1, <2>2 DEF StagesFollow, Held, GroupOver
<1>16. CASE FlushPayload
  BY <1>2, <1>16, SameFollow
  DEF FlushPayload, StagesFollow, GroupOver, Held, stageVars, clientVars, routerVars, workerVars
<1>17. CASE FlushDelete
  <2>1. PICK r \in deletable :
            deletable' = deletable \ {r} /\ inbox' = inbox \ {r}
    BY <1>17 DEF FlushDelete, Fault, InOrderFaults
  <2>3. UNCHANGED <<nextReq, body, pending, beside, inFlight, remaining, channel, doneQ, group, toSignal, cur,
                    pc, ret>>
    BY <1>17 DEF FlushDelete, clientVars, routerVars, workerVars
  <2> QED
    BY <1>2, <2>1, <2>3 DEF StagesFollow, Held, GroupOver
<1>18. CASE FlushEnd
  BY <1>2, <1>18
  DEF FlushEnd, NoSession, Goto, StagesFollow, Held, GroupOver, diskVars, clientVars,
      routerVars, IInv, TypeOK
<1>19. CASE SignalDone
  BY <1>2, <1>19
  DEF SignalDone, StagesFollow, Held, GroupOver, diskVars, clientVars, sessionVars
<1>20. CASE Archiver \/ ArchiveFails
  BY <1>2, <1>20, SameFollow
  DEF Archiver, ArchiveStart, ArchiveFile, ArchivePut, ArchiveDone, ArchiveFails, StagesFollow,
      GroupOver, Held, stageVars, diskVars, clientVars, routerVars, workerVars, sessionVars
<1>21. CASE Crash
  BY <1>21 DEF Crash, NoSession, StagesFollow, Held, GroupOver, diskVars, clientVars
<1> QED
  BY <1>2, <1>3, <1>4, <1>5, <1>6, <1>7, <1>8, <1>9, <1>10, <1>11, <1>12, <1>13, <1>14, <1>15,
     <1>16, <1>17, <1>18, <1>19, <1>20, <1>21
  DEF Next, Router, Worker, Failure

-----------------------------------------------------------------------------
(* Uploads and the session.                                                *)

\* The requests whose effects are still to come or to be repeated.
Ready == inbox \cap complete

\* Where the worker is, or goes on after the COMMIT it is at.
Stage == IF pc \in {"commit", "flush"} THEN ret ELSE pc
Started == Stage \in {"deletes", "renames", "files", "done"}
\* The requests whose effects the session has, the one in hand included.
Taken == deletable \cup {r \in {cur} : Started}

\* The rows of the session once the request in hand is done.
Finished ==
    CASE Stage = "deletes" -> AppliedBody(txn, body[cur])
      [] Stage = "renames" -> WithFiles(Renamed(txn, body[cur].renames), body[cur].files)
      [] Stage = "files" -> WithFiles(txn, todo)
      [] OTHER -> txn

\* What is complete was submitted and is not on its way any more.
UploadsInv ==
    /\ failed = {} => uploading \subseteq inbox
    /\ (pending \cup uploading) \cap complete = {}
    /\ \A r \in complete : r < nextReq

\* What the session has was complete; without requests it has nothing that is
\* not committed.
SessionInv ==
    /\ deletable \subseteq complete
    /\ Started \/ Stage = "open" => cur \in complete
    /\ deletable = {} /\ ~Started => txn = db
    /\ pc = "flush" => txn = db
    /\ pc = "open" => sesSource = NoSource
    /\ \A r \in deletable : body[r].source = sesSource
    /\ Started => body[cur].source = sesSource
    /\ Stage = "files" => todo \subseteq body[cur].files
    /\ faultsLeft <= MaxFaults

\* Every step keeps what is said of uploads.
LEMMA UploadsStep ==
    ASSUME InOrderFaults, IInv, UploadsInv, SessionInv, Next
    PROVE  UploadsInv'
<1>1. ASSUME NEW b \in Bodies, Submit(b) PROVE UploadsInv'
  <2>1. /\ nextReq \in Nat /\ complete \subseteq Nat
        /\ nextReq' = nextReq + 1 /\ pending' = pending \cup {nextReq}
        /\ UNCHANGED <<uploading, inbox, complete, failed>>
    BY <1>1 DEF Submit, IInv, TypeOK, Requests, diskVars
  <2>2. nextReq \notin complete
    BY <2>1 DEF UploadsInv
  <2> QED
    BY <2>1, <2>2 DEF UploadsInv
<1>2. ASSUME NEW r \in Requests, CreateFile(r) \/ SubmitDone(r) PROVE UploadsInv'
  BY <1>2
  DEF CreateFile, SubmitDone, UploadsInv, IInv, DurabilityInv, OnlySubmitted, Accounted
<1>3. CASE Crash
  BY <1>3 DEF Crash, UploadsInv, diskVars
<1>4. CASE FlushDelete
  <2>1. PICK r \in deletable : inbox' = inbox \ {r}
    BY <1>4 DEF FlushDelete, Fault, InOrderFaults
  <2> QED
    BY <1>4, <2>1 DEF FlushDelete, UploadsInv, SessionInv, clientVars
<1>5. CASE DecodeFails \/ OpenFails \/ RequestFails \/ WorkerPanics
  BY <1>5, NothingFailed
  DEF DecodeFails, OpenFails, RequestFails, WorkerPanics, MoveToFailed, UploadsInv,
      clientVars, Next, Worker, Failure
<1>6. CASE UNCHANGED <<clientVars, inbox, complete, failed>>
  BY <1>6 DEF UploadsInv, clientVars
<1>7. \/ \E b \in Bodies : Submit(b)
      \/ \E r \in Requests : CreateFile(r) \/ SubmitDone(r)
      \/ Crash \/ FlushDelete \/ DecodeFails \/ OpenFails \/ RequestFails \/ WorkerPanics
      \/ UNCHANGED <<clientVars, inbox, complete, failed>>
  BY DEF Next, Router, Worker, Archiver, Failure, RouterScan, RouterSend,
         InboxPause, InboxResume, WorkerRecv, NextRequest, Decode, OpenSession, Deletes, Renames,
         IndexFile, Cleanup, RequestDone, GroupEnd, Commit, FlushPayload, FlushEnd,
         SignalDone, ArchiveStart, ArchiveFile, ArchivePut, ArchiveDone, GroupAborts,
         ArchiveFails, diskVars
<1> QED
  BY <1>1, <1>2, <1>3, <1>4, <1>5, <1>6, <1>7

\* Every step keeps what is said of the session.
LEMMA SessionStep ==
    ASSUME IInv, UploadsInv, SessionInv, Next
    PROVE  SessionInv'
<1> USE DEF Started, Stage
<1>0. /\ faultsLeft \in Nat /\ MaxFaults \in Nat /\ faultsLeft <= MaxFaults
      /\ deletable \subseteq complete
      /\ nextReq \notin complete
      /\ Held => cur \in inbox
      /\ \A r \in inbox : r # nextReq
      /\ NoSource \notin Sources
  BY ConstantsAssumption
  DEF SessionInv, IInv, TypeOK, UploadsInv, SingleFlight, DurabilityInv, OnlySubmitted
<1>1. ASSUME NEW b \in Bodies, Submit(b) PROVE SessionInv'
  <2>1. Started => Held
    BY DEF Held
  <2>2. Started => body'[cur] = body[cur]
    BY <1>0, <1>1, <2>1 DEF Submit, IInv, TypeOK
  <2>3. \A r \in deletable : body'[r] = body[r]
    BY <1>0, <1>1 DEF Submit, IInv, TypeOK
  <2> QED
    BY <1>1, <2>2, <2>3 DEF Submit, SessionInv, diskVars, routerVars, workerVars, sessionVars
<1>2. ASSUME NEW r \in Requests, CreateFile(r) \/ SubmitDone(r) PROVE SessionInv'
  BY <1>2 DEF CreateFile, SubmitDone, SessionInv, routerVars, workerVars, sessionVars
<1>3. CASE Router
  BY <1>3
  DEF Router, RouterScan, RouterSend, SessionInv, diskVars, clientVars, workerVars, sessionVars
<1>4. CASE InboxPause \/ InboxResume
  BY <1>0, <1>4
  DEF InboxPause, InboxResume, Fault, SessionInv, diskVars, clientVars, workerVars, sessionVars
<1>5. CASE WorkerRecv \/ NextRequest \/ GroupEnd
  BY <1>5 DEF WorkerRecv, NextRequest, GroupEnd, Goto, SessionInv, diskVars, clientVars, sessionVars
<1>6. CASE DecodeFails \/ OpenFails
  BY <1>0, <1>6
  DEF DecodeFails, OpenFails, MoveToFailed, Fault, Goto, SessionInv, clientVars, sessionVars
<1>7. CASE Decode
  BY <1>7 DEF Decode, Goto, SessionInv, diskVars, clientVars, sessionVars
<1>8. CASE OpenSession
  BY <1>8 DEF OpenSession, Goto, SessionInv, IInv, TypeOK, diskVars, clientVars, sessionVars
<1>9. CASE Deletes \/ Renames
  BY <1>9 DEF Deletes, Renames, AddUnits, SessionInv, diskVars, clientVars
<1>10. CASE IndexFile
  BY <1>0, <1>10 DEF IndexFile, Fault, AddUnits, SessionInv, diskVars, clientVars
<1>11. CASE Cleanup \/ RequestDone
  BY <1>11 DEF Cleanup, RequestDone, AddUnits, Goto, SessionInv, diskVars, clientVars
<1>12. CASE RequestFails \/ GroupAborts \/ WorkerPanics
  BY <1>0, <1>12
  DEF RequestFails, GroupAborts, WorkerPanics, MoveToFailed, NoSession, Fault, Goto, SessionInv,
      diskVars, clientVars
<1>13. CASE Commit
  BY <1>13 DEF Commit, Goto, SessionInv, clientVars, sessionVars
<1>14. CASE FlushPayload \/ FlushDelete
  BY <1>0, <1>14 DEF FlushPayload, FlushDelete, Fault, SessionInv, clientVars, workerVars
<1>15. CASE FlushEnd
  BY <1>15 DEF FlushEnd, NoSession, Goto, SessionInv, diskVars, clientVars, IInv, TypeOK
<1>16. CASE SignalDone
  BY <1>16 DEF SignalDone, SessionInv, diskVars, clientVars, sessionVars
<1>17. CASE Archiver \/ ArchiveFails
  BY <1>0, <1>17
  DEF Archiver, ArchiveStart, ArchiveFile, ArchivePut, ArchiveDone, ArchiveFails, Fault, SessionInv,
      diskVars, clientVars, workerVars, sessionVars
<1>18. CASE Crash
  BY <1>0, <1>18 DEF Crash, Fault, NoSession, SessionInv, diskVars, clientVars
<1> QED
  BY <1>1, <1>2, <1>3, <1>4, <1>5, <1>6, <1>7, <1>8, <1>9, <1>10, <1>11, <1>12, <1>13, <1>14,
     <1>15, <1>16, <1>17, <1>18
  DEF Next, Worker, Failure

-----------------------------------------------------------------------------
(* The outcome of what is still to be applied.                             *)

\* No rename was submitted.
NoRenamesYet == \A r \in 1..(nextReq - 1) : body[r].renames = {}

\* What is to be applied again to the session's rows when its requests up to m
\* have lost their inbox files.
Waiting(m) == {r \in Ready : r \in deletable => r > m}

\* From the session's rows with the request in hand done, the requests that wait
\* lead to the outcome, if the requests of each source came one after the other.
ForwardInv ==
    failed = {} /\ InTurn /\ NoRenameReplayed =>
        \A s \in Sources : Yields(body, Ready \ Taken, s, Finished, expected)

\* Without renames, so do all of them from the committed rows, and from the
\* session's: what a crash leaves, before and after the COMMIT of the session.
BackwardInv ==
    failed = {} /\ InTurn /\ NoRenamesYet =>
        \A s \in Sources :
            /\ Yields(body, Ready, s, db, expected)
            /\ \A m \in Nat : Yields(body, Waiting(m), s, txn, expected)

\* The inductive invariant.
ReplayInv ==
    /\ IInv
    /\ StagesFollow
    /\ UploadsInv
    /\ SessionInv
    /\ ForwardInv
    /\ BackwardInv

\* The same for the rows of any source.
LEMMA AbsorbedAnywhere ==
    ASSUME OwnPaths, OncePerPath,
           NEW bd, NEW I \in SUBSET Requests, \A i \in I : bd[i] \in Bodies /\ bd[i].renames = {},
           NEW r \in I, NEW s, NEW d \in Rows, NEW x \in Rows, NEW e,
           \A p \in Paths : Redo(bd[r], p, d[p], x[p]),
           Yields(bd, I, s, d, e)
    PROVE  Yields(bd, I, s, x, e)
<1>1. CASE bd[r].source = s
  BY <1>1, Absorbed
<1>2. CASE bd[r].source # s
  <2>1. PICK b \in Bodies : b = bd[r]
    OBVIOUS
  <2>2. ASSUME NEW p \in Paths, SourceOf[p] = s PROVE d[p] = x[p]
    <3>1. p \notin Touches(b)
      BY <1>2, <2>1, <2>2 DEF OwnPaths
    <3>2. p \notin b.deletes /\ \A f \in b.files : f.path # p
      BY <3>1 DEF Touches
    <3>3. Redo(b, p, d[p], x[p])
      BY <2>1
    <3> QED
      BY <3>2, <3>3 DEF Redo
  <2>3. SameRows(s, d, x)
    BY <2>2 DEF SameRows
  <2>4. SameRows(s, e, e)
    BY DEF SameRows
  <2> QED
    BY <2>3, <2>4, SameYield
<1> QED
  BY <1>1, <1>2

\* Upserting one file and then the others is upserting all of them.
LEMMA OneFile ==
    ASSUME NEW d \in Rows, NEW fs \in SUBSET File, \A f, o \in fs : f.path = o.path => f = o,
           NEW f \in fs
    PROVE  WithFiles(Upserted(d, f), fs \ {f}) = WithFiles(d, fs)
<1> DEFINE x == Upserted(d, f)
           gs == fs \ {f}
<1>1. x \in Rows /\ f \in File /\ gs \in SUBSET File /\ \A h, o \in gs : h.path = o.path => h = o
  BY UpsertedType
<1>2. \A p \in Paths : x[p] = IF p = f.path THEN After(d[p], f) ELSE d[p]
  BY UpsertedRow
<1>3. \A o \in gs : o \in fs /\ o.path # f.path
  OBVIOUS
<1>4. \A o \in fs : o = f \/ o \in gs
  OBVIOUS
<1> HIDE DEF x, gs
<1>5. ASSUME NEW p \in Paths PROVE WithFiles(x, gs)[p] = WithFiles(d, fs)[p]
  <2>1. CASE p = f.path
    <3>1. WithFiles(x, gs)[p] = x[p]
      BY <1>1, <1>3, <2>1, FilesRow
    <3>2. WithFiles(d, fs)[p] = After(d[p], f)
      BY <2>1, FilesRow
    <3> QED
      BY <1>2, <2>1, <3>1, <3>2
  <2>2. CASE p # f.path /\ \E o \in gs : o.path = p
    <3>1. PICK o \in gs : o.path = p
      BY <2>2
    <3>2. WithFiles(x, gs)[p] = After(x[p], o)
      BY <1>1, <3>1, FilesRow
    <3>3. WithFiles(d, fs)[p] = After(d[p], o)
      BY <1>3, <3>1, FilesRow
    <3> QED
      BY <1>2, <2>2, <3>2, <3>3
  <2>3. CASE p # f.path /\ \A o \in gs : o.path # p
    <3>1. WithFiles(x, gs)[p] = x[p]
      BY <1>1, <2>3, FilesRow
    <3>2. WithFiles(d, fs)[p] = d[p]
      BY <1>4, <2>3, FilesRow
    <3> QED
      BY <1>2, <2>3, <3>1, <3>2
  <2> QED
    BY <2>1, <2>2, <2>3
<1>6. WithFiles(x, gs) \in Rows /\ WithFiles(d, fs) \in Rows
  BY <1>1, WithFilesType
<1>7. WithFiles(x, gs) = WithFiles(d, fs)
  BY <1>5, <1>6 DEF Rows
<1> QED
  BY <1>7 DEF x, gs

\* Upserting nothing changes nothing.
LEMMA NoFile ==
    ASSUME NEW d \in Rows
    PROVE  WithFiles(d, {}) = d
BY DEF WithFiles, Rows

\* An upsert is repeated by the request it belongs to.
LEMMA UpsertRedoes ==
    ASSUME NEW b, NEW f \in File, f \in b.files, NEW d \in Rows
    PROVE  \A p \in Paths : Redo(b, p, d[p], Upserted(d, f)[p])
<1> SUFFICES ASSUME NEW p \in Paths PROVE Redo(b, p, d[p], Upserted(d, f)[p])
  OBVIOUS
<1>1. PICK y \in Row \cup {NoRow} : y = d[p]
  BY DEF Rows
<1>2. PICK x : x = Upserted(d, f)[p]
  OBVIOUS
<1>3. x = IF p = f.path THEN After(y, f) ELSE y
  BY <1>1, <1>2, UpsertedRow
<1> SUFFICES Redo(b, p, y, x)
  BY <1>1, <1>2
<1>4. CASE x = y
  BY <1>4 DEF Redo
<1>5. CASE x # y
  <2>1. p = f.path /\ x = After(y, f)
    BY <1>3, <1>5
  <2>2. /\ x = [hash |-> f.hash, mtime |-> f.mtime]
        /\ ~(~f.force /\ y # NoRow /\ f.mtime > 0 /\ f.mtime < y.mtime)
    BY <1>5, <2>1 DEF After
  <2>3. f.mtime \in Nat /\ (y # NoRow => y.mtime \in Nat)
    BY DEF File, Row
  <2>4. f.force \/ f.mtime = 0 \/ y = NoRow \/ y.mtime <= f.mtime
    BY ONLY <2>2, <2>3
  <2> QED
    BY <2>1, <2>2, <2>4 DEF Redo
<1> QED
  BY <1>4, <1>5

\* The rows of the session when the request in hand is done, by the step it is at.
LEMMA FinishedAt ==
    /\ Stage = "deletes" => Finished = AppliedBody(txn, body[cur])
    /\ Stage = "renames" => Finished = WithFiles(Renamed(txn, body[cur].renames), body[cur].files)
    /\ Stage = "files" => Finished = WithFiles(txn, todo)
    /\ Stage \notin {"deletes", "renames", "files"} => Finished = txn
BY DEF Finished

\* The same after a step.
LEMMA FinishedNext ==
    /\ Stage' = "deletes" => Finished' = AppliedBody(txn', body'[cur'])
    /\ Stage' = "renames" =>
          Finished' = WithFiles(Renamed(txn', body'[cur'].renames), body'[cur'].files)
    /\ Stage' = "files" => Finished' = WithFiles(txn', todo')
    /\ Stage' \notin {"deletes", "renames", "files"} => Finished' = txn'
BY DEF Finished

\* What is ready was submitted; what the worker has begun is ready.
LEMMA ReadyBodies ==
    ASSUME IInv, SessionInv
    PROVE  /\ Ready \in SUBSET Requests /\ Requests \subseteq Nat
           /\ \A r \in Ready : r < nextReq /\ body[r] \in Bodies
           /\ NoRenamesYet => \A r \in Ready : body[r].renames = {}
           /\ Started \/ Stage = "open" => cur \in Ready \ deletable
           /\ Started => cur \in Requests /\ body[cur] \in Bodies
           /\ db \in Rows /\ txn \in Rows /\ expected \in Rows
<1>1. /\ Ready \in SUBSET Requests /\ Requests \subseteq Nat
      /\ \A r \in inbox : r < nextReq /\ body[r] \in Bodies
  BY DEF Ready, IInv, TypeOK, DurabilityInv, OnlySubmitted, Requests
<1>2. Started \/ Stage = "open" => cur \in inbox \ deletable
  BY DEF IInv, SingleFlight, Held, Started, Stage
<1>3. NoRenamesYet => \A r \in Ready : body[r].renames = {}
  BY <1>1 DEF NoRenamesYet, Ready, Requests, IInv, TypeOK
<1> QED
  BY <1>1, <1>2, <1>3 DEF Ready, SessionInv, IInv, TypeOK, Rows

\* The rows of the session when the request in hand is done are rows.
LEMMA FinishedType ==
    ASSUME IInv, SessionInv
    PROVE  Finished \in Rows
<1>1. CASE Stage = "deletes"
  BY <1>1, FinishedAt, ReadyBodies, AppliedBodyType DEF Started
<1>2. CASE Stage = "renames"
  <2>1. body[cur] \in Bodies /\ txn \in Rows
    BY <1>2, ReadyBodies DEF Started
  <2>2. Renamed(txn, body[cur].renames) \in Rows /\ body[cur].files \in SUBSET File
    BY <2>1, RenamedType, BodiesAssumption
  <2> QED
    BY <1>2, <2>2, FinishedAt, WithFilesType
<1>3. CASE Stage = "files"
  BY <1>3, FinishedAt, ReadyBodies, WithFilesType DEF IInv, TypeOK
<1>4. CASE Stage \notin {"deletes", "renames", "files"}
  BY <1>4, FinishedAt, ReadyBodies
<1> QED
  BY <1>1, <1>2, <1>3, <1>4

\* A request that gets its id beside another of its source, a rename, or a fault
\* when there are renames gives up what the invariant says; no step takes it up
\* again.
LEMMA GuardsKept ==
    ASSUME IInv, SessionInv, Next
    PROVE  /\ InTurn' => InTurn
           /\ NoRenamesYet' => NoRenamesYet
           /\ NoRenameReplayed' => NoRenameReplayed
           /\ NoRenamesYet => NoRenameReplayed
           /\ faultsLeft' # faultsLeft /\ NoRenameReplayed' => NoRenamesYet'
<1>1. nextReq \in Nat /\ faultsLeft \in Nat /\ MaxFaults \in Nat /\ faultsLeft <= MaxFaults
  BY ConstantsAssumption DEF IInv, TypeOK, SessionInv
<1>2. \/ UNCHANGED <<nextReq, body, beside>>
      \/ /\ nextReq' = nextReq + 1
         /\ \A r \in 1..(nextReq - 1) : body'[r] = body[r] /\ beside'[r] = beside[r]
  <2>1. ASSUME NEW b \in Bodies, Submit(b)
        PROVE  /\ nextReq' = nextReq + 1
               /\ \A r \in 1..(nextReq - 1) : body'[r] = body[r] /\ beside'[r] = beside[r]
    BY <1>1, <2>1 DEF Submit, IInv, TypeOK, Requests
  <2>2. UNCHANGED <<nextReq, body, beside>> \/ \E b \in Bodies : Submit(b)
    BY DEF Next, Router, Worker, Archiver, Failure, CreateFile, SubmitDone, RouterScan, RouterSend,
         InboxPause, InboxResume, WorkerRecv, NextRequest, Decode, OpenSession, Deletes, Renames,
         IndexFile, Cleanup, RequestDone, GroupEnd, Commit, FlushPayload, FlushDelete, FlushEnd,
         SignalDone, ArchiveStart, ArchiveFile, ArchivePut, ArchiveDone, GroupAborts,
         DecodeFails, OpenFails, RequestFails, WorkerPanics, ArchiveFails, Crash, clientVars
  <2> QED
    BY <2>1, <2>2
<1>3. faultsLeft' = faultsLeft \/ (faultsLeft > 0 /\ faultsLeft' = faultsLeft - 1)
  BY DEF Next, Router, Worker, Archiver, Failure, Submit, CreateFile, SubmitDone, RouterScan, RouterSend,
         InboxPause, InboxResume, WorkerRecv, NextRequest, Decode, OpenSession, Deletes, Renames,
         IndexFile, Cleanup, RequestDone, GroupEnd, Commit, FlushPayload, FlushDelete, FlushEnd,
         SignalDone, ArchiveStart, ArchiveFile, ArchivePut, ArchiveDone, GroupAborts,
         DecodeFails, OpenFails, RequestFails, WorkerPanics, ArchiveFails, Crash, Fault
<1>4. NoRenamesYet' => NoRenamesYet
  BY <1>1, <1>2 DEF NoRenamesYet
<1>5. faultsLeft' # faultsLeft => faultsLeft' # MaxFaults
  BY <1>1, <1>3
<1>6. InTurn' => InTurn
  <2> SUFFICES ASSUME InTurn', NEW r \in Requests, r < nextReq, NEW q \in beside[r]
               PROVE  body[q].source # body[r].source
    BY DEF InTurn
  <2>1. q \in Requests /\ q < r /\ r < nextReq'
    BY <1>1, <1>2 DEF IInv, TypeOK, DurabilityInv, OnlySubmitted, Requests
  <2>2. r \in 1..(nextReq - 1) /\ q \in 1..(nextReq - 1)
    BY <1>1, <2>1 DEF Requests
  <2>3. beside'[r] = beside[r] /\ body'[r] = body[r] /\ body'[q] = body[q]
    BY <1>2, <2>2
  <2> QED
    BY <2>1, <2>3 DEF InTurn
<1> QED
  BY <1>4, <1>5, <1>6 DEF NoRenameReplayed, NoRenamesYet

\* Without requests of a source beside each other, the ones before a request are
\* those with a smaller id, and nothing that is being written is before one that
\* has its id.
LEMMA InTurnOrder ==
    ASSUME IInv, InTurn
    PROVE  /\ \A q \in Requests, r \in inbox :
                 q < r /\ body[q].source = body[r].source => Before(q, r)
           /\ \A q \in uploading, r \in inbox : q < r => body[q].source # body[r].source
BY DEF IInv, DurabilityInv, OnlySubmitted, InTurn, Before

\* A step that leaves what is to be applied again as it is, to the same rows.
LEMMA SameForward ==
    ASSUME failed = {}, InTurn, NoRenameReplayed, ForwardInv,
           Ready' \ Taken' = Ready \ Taken, Finished' = Finished, expected' = expected,
           \A r \in Ready : body'[r] = body[r]
    PROVE  ForwardInv'
<1>1. ASSUME NEW s \in Sources
      PROVE  Yields(body', Ready' \ Taken', s, Finished', expected')
  <2>1. Yields(body, Ready \ Taken, s, Finished, expected)
    BY DEF ForwardInv
  <2>2. Yields(body', Ready \ Taken, s, Finished, expected)
    BY <2>1, SameBodies
  <2> QED
    BY <2>2
<1> QED
  BY <1>1 DEF ForwardInv

\* Every step keeps the outcome of what waits.
LEMMA ForwardStep ==
    ASSUME OwnPaths, OncePerPath, InOrderFaults, ReplayInv, Next
    PROVE  ForwardInv'
<1>1. SUFFICES ASSUME failed' = {}, InTurn', NoRenameReplayed' PROVE ForwardInv'
  BY DEF ForwardInv
<1>2. /\ IInv /\ StagesFollow /\ UploadsInv /\ SessionInv /\ ForwardInv /\ BackwardInv
      /\ failed = {} /\ InTurn /\ NoRenameReplayed
      /\ (faultsLeft' # faultsLeft => NoRenamesYet)
      /\ ~(DecodeFails \/ OpenFails \/ RequestFails \/ WorkerPanics)
  BY <1>1, NothingFailed, GuardsKept DEF ReplayInv
<1>3. /\ Ready \in SUBSET Requests /\ Requests \subseteq Nat
      /\ \A r \in Ready : r < nextReq /\ body[r] \in Bodies
      /\ Started \/ Stage = "open" => cur \in Ready \ deletable
      /\ Started => cur \in Requests /\ body[cur] \in Bodies
      /\ db \in Rows /\ txn \in Rows /\ expected \in Rows /\ Finished \in Rows
      /\ nextReq \in Nat
  BY <1>2, ReadyBodies, FinishedType DEF IInv, TypeOK
<1>4. ASSUME NEW b \in Bodies, Submit(b) PROVE ForwardInv'
  <2>1. /\ nextReq \in Requests /\ body' = [body EXCEPT ![nextReq] = b]
        /\ UNCHANGED <<inbox, complete, expected, txn, todo, pc, ret, cur, deletable>>
    BY <1>4 DEF Submit, diskVars, workerVars, sessionVars
  <2>2. Ready' = Ready
    BY <2>1 DEF Ready
  <2>3. Taken' = Taken /\ Stage' = Stage
    BY <2>1 DEF Taken, Started, Stage
  <2>4. \A r \in Ready : body'[r] = body[r]
    BY <1>2, <1>3, <2>1 DEF IInv, TypeOK
  <2>5. Started => body'[cur'] = body[cur]
    BY <1>3, <2>1, <2>4
  <2>6. Finished' = Finished
    BY <2>1, <2>3, <2>5, FinishedAt, FinishedNext DEF Started
  <2> QED
    BY <1>2, <2>1, <2>2, <2>3, <2>4, <2>6, SameForward
<1>24. ASSUME NEW r \in Requests, CreateFile(r) PROVE ForwardInv'
  <2>1. /\ r \notin complete /\ inbox' = inbox \cup {r}
        /\ UNCHANGED <<body, complete, expected, txn, todo, pc, ret, cur, deletable>>
    BY <1>2, <1>24 DEF CreateFile, UploadsInv, workerVars, sessionVars
  <2>2. Ready' = Ready /\ Taken' = Taken /\ Finished' = Finished
    BY <2>1 DEF Ready, Taken, Started, Stage, Finished
  <2> QED
    BY <1>2, <2>1, <2>2, SameForward
<1>5. ASSUME NEW r \in Requests, SubmitDone(r) PROVE ForwardInv'
  <2>1. /\ r \in uploading /\ complete' = complete \cup {r}
        /\ expected' = AppliedBody(expected, body[r])
        /\ UNCHANGED <<inbox, body, txn, todo, pc, ret, cur, deletable>>
    BY <1>5 DEF SubmitDone, workerVars, sessionVars
  <2>2. r \in inbox /\ r \notin complete /\ body[r] \in Bodies
    BY <1>2, <2>1 DEF UploadsInv, IInv, DurabilityInv, OnlySubmitted
  <2>3. Taken' = Taken /\ Finished' = Finished
    BY <2>1 DEF Taken, Started, Stage, Finished
  <2>4. r \notin Taken
    BY <1>2, <2>2 DEF Taken, SessionInv
  <2>5. Ready' \ Taken' = (Ready \ Taken) \cup {r}
    BY <2>1, <2>2, <2>3, <2>4 DEF Ready
  <2>6. \A i \in Ready \ Taken : i > r => body[i].source # body[r].source
    BY <1>2, <1>3, <2>1, InTurnOrder DEF Ready
  <2>7. r \notin Ready \ Taken
    BY <2>2 DEF Ready
  <2>8. ASSUME NEW s \in Sources
        PROVE  Yields(body, (Ready \ Taken) \cup {r}, s, Finished, AppliedBody(expected, body[r]))
    <3>1. PICK I \in SUBSET Requests : I = Ready \ Taken
      BY <1>3
    <3>2. Yields(body, I, s, Finished, expected)
      BY <1>2, <3>1 DEF ForwardInv
    <3>3. Yields(body, I \cup {r}, s, Finished, AppliedBody(expected, body[r]))
      BY <1>3, <2>2, <2>6, <2>7, <3>1, <3>2, LastAdded
    <3> QED
      BY <3>1, <3>3
  <2> QED
    BY <2>1, <2>3, <2>5, <2>8 DEF ForwardInv
<1>6. CASE Router \/ InboxPause \/ InboxResume
  <2>1. UNCHANGED <<body, inbox, complete, expected, txn, todo, pc, ret, cur, deletable>>
    BY <1>6
    DEF Router, RouterScan, RouterSend, InboxPause, InboxResume, diskVars, clientVars, workerVars,
        sessionVars
  <2>2. Ready' = Ready /\ Taken' = Taken /\ Finished' = Finished
    BY <2>1 DEF Ready, Taken, Started, Stage, Finished
  <2> QED
    BY <1>2, <2>1, <2>2, SameForward
<1>7. CASE WorkerRecv \/ NextRequest \/ GroupEnd \/ SignalDone
  <2>1. UNCHANGED <<body, inbox, complete, expected, txn, deletable>>
    BY <1>7
    DEF WorkerRecv, NextRequest, GroupEnd, SignalDone, diskVars, clientVars, sessionVars
  <2>2. /\ Stage \notin {"deletes", "renames", "files", "done"}
        /\ Stage' \notin {"deletes", "renames", "files", "done"}
    BY <1>7 DEF WorkerRecv, NextRequest, GroupEnd, SignalDone, Goto, Stage
  <2>3. Ready' = Ready /\ Taken' = Taken
    BY <2>1, <2>2 DEF Ready, Taken, Started
  <2>4. Finished' = Finished
    BY <2>1, <2>2, FinishedAt, FinishedNext
  <2> QED
    BY <1>2, <2>1, <2>3, <2>4, SameForward
<1>8. ASSUME cur \in Ready \ deletable, ~Started, Started', Stage' = "deletes", txn' = txn,
             \A q \in inbox : q < cur /\ body[q].source = body[cur].source => q \in deletable,
             UNCHANGED <<body, inbox, complete, expected, cur, deletable>>
      PROVE  ForwardInv'
  <2>1. Taken = deletable /\ Finished = txn
    BY <1>8, FinishedAt DEF Taken, Started
  <2>2. Taken' = deletable \cup {cur} /\ Ready' = Ready /\ Finished' = AppliedBody(txn, body[cur])
    BY <1>8, FinishedNext DEF Taken, Ready
  <2>3. ASSUME NEW s \in Sources
        PROVE  Yields(body, Ready \ (deletable \cup {cur}), s, AppliedBody(txn, body[cur]),
                      expected)
    <3>1. PICK I \in SUBSET Requests : I = Ready \ deletable
      BY <1>3
    <3>2. Yields(body, I, s, txn, expected)
      BY <1>2, <2>1, <3>1 DEF ForwardInv
    <3>3. /\ cur \in I /\ \A i \in I : body[i] \in Bodies
          /\ \A i \in I : i < cur => body[i].source # body[cur].source
      BY <1>3, <1>8, <3>1 DEF Ready
    <3>4. Yields(body, I \ {cur}, s, AppliedBody(txn, body[cur]), expected)
      BY <1>3, <3>2, <3>3, FirstTaken
    <3>5. I \ {cur} = Ready \ (deletable \cup {cur})
      BY <3>1
    <3> QED
      BY <3>4, <3>5
  <2> QED
    BY <1>8, <2>2, <2>3 DEF ForwardInv
<1>9. Held => \A q \in inbox : q < cur /\ body[q].source = body[cur].source => q \in deletable
  <2>1. CASE Held
    <3>1. \A q \in inbox : Before(q, cur) => q \in deletable \cup {cur}
      BY <1>2, <2>1 DEF StagesFollow, Overtakes, Begun, Buffered
    <3>2. cur \in Nat /\ cur \in inbox /\ inbox \subseteq Requests
      BY <1>2, <2>1 DEF IInv, TypeOK, SingleFlight, Requests
    <3>3. \A q \in inbox : q < cur /\ body[q].source = body[cur].source => Before(q, cur)
      BY <1>2, <3>2, InTurnOrder
    <3> QED
      BY <3>1, <3>2, <3>3
  <2> QED
    BY <2>1
<1>10. CASE Decode
  <2>1. /\ pc = "decode" /\ cur \in complete \cap inbox
        /\ UNCHANGED <<body, inbox, complete, expected, cur, deletable, txn>>
    BY <1>10 DEF Decode, Goto, diskVars, clientVars, sessionVars
  <2>2. Held /\ ~Started /\ Stage = "decode"
    BY <2>1 DEF Held, Started, Stage
  <2>3. cur \in Ready \ deletable
    BY <1>2, <2>1, <2>2 DEF Ready, IInv, SingleFlight
  <2>4. CASE pc' = "deletes"
    <3>1. Stage' = "deletes" /\ Started'
      BY <2>4 DEF Stage, Started
    <3> QED
      BY <1>8, <1>9, <2>1, <2>2, <2>3, <3>1
  <2>5. CASE pc' = "open" \/ (pc' = "commit" /\ ret' = "open")
    <3>1. Stage' = "open"
      BY <2>5 DEF Stage
    <3>2. Ready' = Ready /\ Taken' = Taken
      BY <2>1, <2>2, <3>1 DEF Ready, Taken, Started
    <3>3. Finished' = Finished
      BY <2>1, <2>2, <3>1, FinishedAt, FinishedNext
    <3> QED
      BY <1>2, <2>1, <3>2, <3>3, SameForward
  <2> QED
    BY <1>10, <2>4, <2>5 DEF Decode, Goto
<1>11. CASE OpenSession
  <2>1. /\ pc = "open" /\ pc' = "deletes" /\ txn' = db
        /\ UNCHANGED <<body, inbox, complete, expected, cur, deletable>>
    BY <1>11 DEF OpenSession, Goto, diskVars, clientVars
  <2>2. Held /\ ~Started /\ Stage = "open" /\ Stage' = "deletes" /\ Started'
    BY <2>1 DEF Held, Started, Stage
  <2>3. deletable = {}
    BY <1>2, <2>1 DEF SessionInv, IInv, TypeOK
  <2>4. txn = db
    BY <1>2, <2>2, <2>3 DEF SessionInv
  <2> QED
    BY <1>3, <1>8, <1>9, <2>1, <2>2, <2>4
<1>12. CASE Deletes
  <2>1. /\ Stage = "deletes" /\ Stage' = "renames" /\ txn' = Deleted(txn, body[cur].deletes)
        /\ UNCHANGED <<body, inbox, complete, expected, cur, deletable>>
    BY <1>12 DEF Deletes, AddUnits, Stage, diskVars, clientVars
  <2>2. Ready' = Ready /\ Taken' = Taken
    BY <2>1 DEF Ready, Taken, Started
  <2>3. Finished' = Finished
    BY <2>1, FinishedAt, FinishedNext, AppliedInSteps
  <2> QED
    BY <1>2, <2>1, <2>2, <2>3, SameForward
<1>13. CASE Renames
  <2>1. /\ Stage = "renames" /\ Stage' = "files" /\ txn' = Renamed(txn, body[cur].renames)
        /\ todo' = body[cur].files
        /\ UNCHANGED <<body, inbox, complete, expected, cur, deletable>>
    BY <1>13 DEF Renames, Stage, diskVars, clientVars
  <2>2. Ready' = Ready /\ Taken' = Taken
    BY <2>1 DEF Ready, Taken, Started
  <2>3. Finished' = Finished
    BY <2>1, FinishedAt, FinishedNext
  <2> QED
    BY <1>2, <2>1, <2>2, <2>3, SameForward
<1>14. CASE IndexFile
  <2>1. PICK f \in todo : todo' = todo \ {f} /\ txn' = Upserted(txn, f)
    BY <1>14 DEF IndexFile, Fault, InOrderFaults
  <2>2. /\ Stage = "files" /\ Stage' = "files"
        /\ UNCHANGED <<body, inbox, complete, expected, cur, deletable>>
    BY <1>14 DEF IndexFile, AddUnits, Stage, diskVars, clientVars
  <2>3. todo \subseteq body[cur].files /\ body[cur] \in Bodies
    BY <1>2, <1>3, <2>2 DEF SessionInv, Started
  <2>4. todo \in SUBSET File /\ \A h, o \in todo : h.path = o.path => h = o
    BY <1>2, <2>3 DEF OncePerPath, IInv, TypeOK
  <2>5. Ready' = Ready /\ Taken' = Taken
    BY <2>2 DEF Ready, Taken, Started
  <2>6. WithFiles(Upserted(txn, f), todo \ {f}) = WithFiles(txn, todo)
    BY <1>3, <2>4, OneFile
  <2>7. Finished' = Finished
    BY <2>1, <2>2, <2>6, FinishedAt, FinishedNext
  <2> QED
    BY <1>2, <2>2, <2>5, <2>7, SameForward
<1>15. CASE Cleanup
  <2>1. /\ Stage = "files" /\ Stage' = "done" /\ todo = {}
        /\ UNCHANGED <<body, inbox, complete, expected, cur, deletable, txn>>
    BY <1>15 DEF Cleanup, AddUnits, Stage, diskVars, clientVars
  <2>2. Ready' = Ready /\ Taken' = Taken
    BY <2>1 DEF Ready, Taken, Started
  <2>3. Finished' = Finished
    BY <1>3, <2>1, FinishedAt, FinishedNext, NoFile
  <2> QED
    BY <1>2, <2>1, <2>2, <2>3, SameForward
<1>16. CASE RequestDone
  <2>1. /\ Stage = "done" /\ Stage' = "next" /\ deletable' = deletable \cup {cur}
        /\ UNCHANGED <<body, inbox, complete, expected, cur, txn>>
    BY <1>16 DEF RequestDone, Goto, Stage, diskVars, clientVars
  <2>2. Ready' = Ready /\ Taken' = Taken
    BY <2>1 DEF Ready, Taken, Started
  <2>3. Finished' = Finished
    BY <2>1, FinishedAt, FinishedNext
  <2> QED
    BY <1>2, <2>1, <2>2, <2>3, SameForward
<1>17. CASE GroupAborts
  BY <1>17 DEF InOrderFaults, GroupAborts, Fault
<1>18. CASE Commit
  <2>1. /\ pc = "commit" /\ pc' = "flush"
        /\ UNCHANGED <<body, inbox, complete, expected, ret, cur, todo, deletable, txn>>
    BY <1>18 DEF Commit, Goto, clientVars, sessionVars
  <2>2. Ready' = Ready /\ Taken' = Taken /\ Finished' = Finished
    BY <2>1 DEF Ready, Taken, Started, Finished, Stage
  <2> QED
    BY <1>2, <2>1, <2>2, SameForward
<1>19. CASE FlushPayload
  <2>1. UNCHANGED <<body, inbox, complete, expected, txn, todo, pc, ret, cur, deletable>>
    BY <1>19 DEF FlushPayload, clientVars, workerVars
  <2>2. Ready' = Ready /\ Taken' = Taken /\ Finished' = Finished
    BY <2>1 DEF Ready, Taken, Started, Stage, Finished
  <2> QED
    BY <1>2, <2>1, <2>2, SameForward
<1>20. CASE FlushDelete
  <2>1. PICK r \in deletable : deletable' = deletable \ {r} /\ inbox' = inbox \ {r}
    BY <1>20 DEF FlushDelete, Fault, InOrderFaults
  <2>2. UNCHANGED <<body, complete, expected, txn, todo, pc, ret, cur>>
    BY <1>20 DEF FlushDelete, clientVars, workerVars
  <2>3. Finished' = Finished /\ (Started' <=> Started)
    BY <2>2 DEF Finished, Started, Stage
  <2>4. Started => cur # r
    BY <1>3, <2>1
  <2>5. Ready' \ Taken' = Ready \ Taken
    BY <2>1, <2>2, <2>3, <2>4 DEF Ready, Taken
  <2> QED
    BY <1>2, <2>2, <2>3, <2>5, SameForward
<1>21. CASE FlushEnd
  <2>1. /\ pc = "flush" /\ pc' = ret /\ deletable = {} /\ deletable' = {}
        /\ txn' \in {db, txn}
        /\ UNCHANGED <<body, inbox, complete, expected, ret, cur, todo>>
    BY <1>21 DEF FlushEnd, NoSession, Goto, diskVars, clientVars
  <2>2. txn' = txn
    BY <1>2, <2>1 DEF SessionInv
  <2>3. Stage' = Stage
    BY <1>2, <2>1 DEF Stage, IInv, TypeOK
  <2>4. Ready' = Ready /\ Taken' = Taken /\ Finished' = Finished
    BY <2>1, <2>2, <2>3 DEF Ready, Taken, Started, Finished
  <2> QED
    BY <1>2, <2>1, <2>4, SameForward
<1>22. CASE Archiver \/ ArchiveFails
  <2>1. UNCHANGED <<body, inbox, complete, expected, txn, todo, pc, ret, cur, deletable>>
    BY <1>22
    DEF Archiver, ArchiveStart, ArchiveFile, ArchivePut, ArchiveDone, ArchiveFails, diskVars,
        clientVars,
        workerVars, sessionVars
  <2>2. Ready' = Ready /\ Taken' = Taken /\ Finished' = Finished
    BY <2>1 DEF Ready, Taken, Started, Stage, Finished
  <2> QED
    BY <1>2, <2>1, <2>2, SameForward
<1>23. CASE Crash
  <2>1. /\ faultsLeft' = faultsLeft - 1 /\ pc' = "idle" /\ deletable' = {} /\ txn' = db
        /\ UNCHANGED <<body, inbox, complete, expected>>
    BY <1>23 DEF Crash, Fault, NoSession, diskVars
  <2>2. NoRenamesYet
    BY <1>2, <2>1 DEF IInv, TypeOK
  <2>3. Stage' = "idle"
    BY <2>1 DEF Stage
  <2>4. Ready' \ Taken' = Ready /\ Finished' = db
    BY <2>1, <2>3, FinishedNext DEF Ready, Taken, Started
  <2>5. \A s \in Sources : Yields(body, Ready, s, db, expected)
    BY <1>2, <2>2 DEF BackwardInv
  <2> QED
    BY <2>1, <2>4, <2>5 DEF ForwardInv
<1> QED
  BY <1>2, <1>4, <1>5, <1>6, <1>7, <1>10, <1>11, <1>12, <1>13, <1>14, <1>15, <1>16, <1>17, <1>18,
     <1>19, <1>20, <1>21, <1>22, <1>23, <1>24
  DEF Next, Worker, Failure

\* A step that leaves rows and requests as they are.
LEMMA SameBackward ==
    ASSUME failed = {}, InTurn, NoRenamesYet, BackwardInv,
           Ready' = Ready, deletable' = deletable, db' = db, txn' = txn, expected' = expected,
           \A r \in Ready : body'[r] = body[r]
    PROVE  BackwardInv'
<1>1. ASSUME NEW m \in Nat PROVE Waiting(m)' = Waiting(m) /\ Waiting(m) \subseteq Ready
  BY DEF Waiting
<1>2. ASSUME NEW s \in Sources PROVE Yields(body', Ready', s, db', expected')
  <2>1. Yields(body, Ready, s, db, expected)
    BY DEF BackwardInv
  <2>2. Yields(body', Ready, s, db, expected)
    BY <2>1, SameBodies
  <2> QED
    BY <2>2
<1>3. ASSUME NEW s \in Sources, NEW m \in Nat PROVE Yields(body', Waiting(m)', s, txn', expected')
  <2>1. PICK I : I = Waiting(m)
    OBVIOUS
  <2>2. Yields(body, I, s, txn, expected)
    BY <2>1 DEF BackwardInv
  <2>3. \A r \in I : body'[r] = body[r]
    BY <1>1, <2>1
  <2>4. Yields(body', I, s, txn, expected)
    BY <2>2, <2>3, SameBodies
  <2> QED
    BY <1>1, <2>1, <2>4
<1> QED
  BY <1>2, <1>3 DEF BackwardInv

\* Every step keeps the outcome of repeating everything that waits.
LEMMA BackwardStep ==
    ASSUME OwnPaths, OncePerPath, InOrderFaults, ReplayInv, Next
    PROVE  BackwardInv'
<1>1. SUFFICES ASSUME failed' = {}, InTurn', NoRenamesYet' PROVE BackwardInv'
  BY DEF BackwardInv
<1>2. /\ IInv /\ StagesFollow /\ UploadsInv /\ SessionInv /\ ForwardInv /\ BackwardInv
      /\ failed = {} /\ InTurn /\ NoRenamesYet /\ NoRenameReplayed
      /\ ~(DecodeFails \/ OpenFails \/ RequestFails \/ WorkerPanics)
  BY <1>1, NothingFailed, GuardsKept DEF ReplayInv
<1>3. /\ Ready \in SUBSET Requests /\ Requests \subseteq Nat
      /\ \A r \in Ready : r < nextReq /\ body[r] \in Bodies /\ body[r].renames = {}
      /\ Started => cur \in Ready \ deletable /\ cur \in Requests /\ body[cur] \in Bodies
      /\ db \in Rows /\ txn \in Rows /\ expected \in Rows
      /\ nextReq \in Nat
  BY <1>2, ReadyBodies DEF IInv, TypeOK
<1>4. ASSUME NEW b \in Bodies, Submit(b) PROVE BackwardInv'
  <2>1. /\ nextReq \in Requests /\ body' = [body EXCEPT ![nextReq] = b]
        /\ UNCHANGED <<inbox, complete, expected, db, txn, deletable>>
    BY <1>4 DEF Submit, diskVars, sessionVars
  <2>2. Ready' = Ready
    BY <2>1 DEF Ready
  <2>3. \A r \in Ready : body'[r] = body[r]
    BY <1>2, <1>3, <2>1 DEF IInv, TypeOK
  <2> QED
    BY <1>2, <2>1, <2>2, <2>3, SameBackward
<1>21. ASSUME NEW r \in Requests, CreateFile(r) PROVE BackwardInv'
  <2>1. /\ r \notin complete /\ inbox' = inbox \cup {r}
        /\ UNCHANGED <<body, complete, expected, db, txn, deletable>>
    BY <1>2, <1>21 DEF CreateFile, UploadsInv, sessionVars
  <2>2. Ready' = Ready
    BY <2>1 DEF Ready
  <2> QED
    BY <1>2, <2>1, <2>2, SameBackward
<1>5. ASSUME NEW r \in Requests, SubmitDone(r) PROVE BackwardInv'
  <2>1. /\ r \in uploading /\ complete' = complete \cup {r}
        /\ expected' = AppliedBody(expected, body[r])
        /\ UNCHANGED <<inbox, body, db, txn, deletable>>
    BY <1>5 DEF SubmitDone, sessionVars
  <2>2. r \in inbox /\ r \notin complete /\ body[r] \in Bodies /\ r \notin deletable
    BY <1>2, <2>1 DEF UploadsInv, SessionInv, IInv, DurabilityInv, OnlySubmitted
  <2>3. Ready' = Ready \cup {r} /\ r \notin Ready
    BY <2>1, <2>2 DEF Ready
  <2>4. ASSUME NEW m \in Nat PROVE Waiting(m)' = Waiting(m) \cup {r} /\ Waiting(m) \subseteq Ready
    BY <2>1, <2>2, <2>3 DEF Waiting
  <2>5. \A i \in Ready : i > r => body[i].source # body[r].source
    BY <1>2, <1>3, <2>1, InTurnOrder DEF Ready
  <2>6. ASSUME NEW I \in SUBSET Ready, NEW s \in Sources, NEW d \in Rows,
               Yields(body, I, s, d, expected)
        PROVE  Yields(body, I \cup {r}, s, d, AppliedBody(expected, body[r]))
    <3>1. I \in SUBSET Requests /\ (\A i \in I : body[i] \in Bodies) /\ r \notin I
          /\ \A i \in I : i > r => body[i].source # body[r].source
      BY <1>3, <2>3, <2>5
    <3> QED
      BY <1>3, <2>2, <2>6, <3>1, LastAdded
  <2>7. ASSUME NEW s \in Sources PROVE Yields(body', Ready', s, db', expected')
    <3>1. Yields(body, Ready, s, db, expected)
      BY <1>2 DEF BackwardInv
    <3>2. Yields(body, Ready \cup {r}, s, db, AppliedBody(expected, body[r]))
      BY <1>3, <2>6, <3>1
    <3> QED
      BY <2>1, <2>3, <3>2
  <2>8. ASSUME NEW s \in Sources, NEW m \in Nat PROVE Yields(body', Waiting(m)', s, txn', expected')
    <3>1. Yields(body, Waiting(m), s, txn, expected)
      BY <1>2 DEF BackwardInv
    <3>2. Yields(body, Waiting(m) \cup {r}, s, txn, AppliedBody(expected, body[r]))
      BY <1>3, <2>4, <2>6, <3>1
    <3> QED
      BY <2>1, <2>4, <3>2
  <2> QED
    BY <2>7, <2>8 DEF BackwardInv
<1>6. ASSUME UNCHANGED <<body, inbox, complete, expected, db, txn, deletable>> PROVE BackwardInv'
  <2>1. Ready' = Ready
    BY <1>6 DEF Ready
  <2> QED
    BY <1>2, <1>6, <2>1, SameBackward
<1>7. CASE Router \/ InboxPause \/ InboxResume
  BY <1>6, <1>7
  DEF Router, RouterScan, RouterSend, InboxPause, InboxResume, diskVars, clientVars, sessionVars
<1>8. CASE WorkerRecv \/ NextRequest \/ Decode \/ Cleanup \/ GroupEnd \/ FlushPayload \/ SignalDone
  BY <1>6, <1>8
  DEF WorkerRecv, NextRequest, Decode, Cleanup, GroupEnd, FlushPayload, SignalDone, diskVars,
      clientVars,
      sessionVars
<1>9. CASE OpenSession
  <2>1. /\ pc = "open" /\ txn' = db
        /\ UNCHANGED <<body, inbox, complete, expected, db, deletable>>
    BY <1>9 DEF OpenSession, diskVars, clientVars
  <2>2. deletable = {} /\ ~Started
    BY <1>2, <2>1 DEF SessionInv, IInv, TypeOK, Started, Stage
  <2> QED
    BY <1>2, <1>6, <2>1, <2>2 DEF SessionInv
<1>10. ASSUME Started, \A p \in Paths : Redo(body[cur], p, txn[p], txn'[p]), txn' \in Rows,
              UNCHANGED <<body, inbox, complete, expected, db, deletable>>
       PROVE  BackwardInv'
  <2>1. Ready' = Ready
    BY <1>10 DEF Ready
  <2>2. ASSUME NEW m \in Nat
        PROVE  Waiting(m)' = Waiting(m) /\ Waiting(m) \subseteq Ready /\ cur \in Waiting(m)
    BY <1>3, <1>10, <2>1 DEF Waiting
  <2>3. ASSUME NEW s \in Sources, NEW m \in Nat PROVE Yields(body, Waiting(m), s, txn', expected)
    <3>1. PICK I : I = Waiting(m)
      OBVIOUS
    <3>2. Yields(body, I, s, txn, expected)
      BY <1>2, <3>1 DEF BackwardInv
    <3>3. /\ I \in SUBSET Requests /\ cur \in I
          /\ \A i \in I : body[i] \in Bodies /\ body[i].renames = {}
      BY <1>3, <2>2, <3>1
    <3>4. PICK x \in Rows : x = txn'
      BY <1>10
    <3>5. \A p \in Paths : Redo(body[cur], p, txn[p], x[p])
      BY <1>10, <3>4
    <3>6. Yields(body, I, s, x, expected)
      BY <1>3, <3>2, <3>3, <3>5, AbsorbedAnywhere
    <3> QED
      BY <3>1, <3>4, <3>6
  <2>4. \A s \in Sources : Yields(body, Ready, s, db, expected)
    BY <1>2 DEF BackwardInv
  <2> QED
    BY <1>10, <2>1, <2>2, <2>3, <2>4 DEF BackwardInv
<1>11. CASE Deletes
  <2>1. /\ Stage = "deletes" /\ txn' = Deleted(txn, body[cur].deletes)
        /\ UNCHANGED <<body, inbox, complete, expected, db, deletable>>
    BY <1>11 DEF Deletes, Stage, diskVars, clientVars
  <2>2. \A p \in Paths : Redo(body[cur], p, txn[p], txn'[p])
    BY <2>1 DEF Deleted, Redo
  <2>3. txn' \in Rows
    BY <1>3, <2>1, DeletedType
  <2> QED
    BY <1>10, <2>1, <2>2, <2>3 DEF Started
<1>12. CASE Renames
  <2>1. /\ Stage = "renames" /\ txn' = Renamed(txn, body[cur].renames)
        /\ UNCHANGED <<body, inbox, complete, expected, db, deletable>>
    BY <1>12 DEF Renames, Stage, diskVars, clientVars
  <2>2. body[cur].renames = {}
    BY <1>3, <2>1 DEF Started
  <2>3. txn' = txn
    BY <1>3, <2>1, <2>2, RenamedByNone
  <2> QED
    BY <1>6, <2>1, <2>3
<1>13. CASE IndexFile
  <2>1. PICK f \in todo : txn' = Upserted(txn, f)
    BY <1>13 DEF IndexFile, Fault, InOrderFaults
  <2>2. /\ Stage = "files"
        /\ UNCHANGED <<body, inbox, complete, expected, db, deletable>>
    BY <1>13 DEF IndexFile, Stage, diskVars, clientVars
  <2>3. f \in body[cur].files /\ f \in File
    BY <1>2, <2>1, <2>2 DEF SessionInv, IInv, TypeOK
  <2>4. \A p \in Paths : Redo(body[cur], p, txn[p], txn'[p])
    BY <1>3, <2>1, <2>3, UpsertRedoes
  <2>5. txn' \in Rows
    BY <1>3, <2>1, <2>3, UpsertedType
  <2> QED
    BY <1>10, <2>2, <2>4, <2>5 DEF Started
<1>14. CASE RequestDone
  <2>1. /\ pc = "done" /\ deletable' = deletable \cup {cur}
        /\ UNCHANGED <<body, inbox, complete, expected, db, txn>>
    BY <1>14 DEF RequestDone, diskVars, clientVars
  <2>2. Stage = "done" /\ Started /\ Held
    BY <2>1 DEF Stage, Started, Held
  <2>3. cur \in Ready \ deletable /\ cur \in Nat /\ Ready' = Ready
    BY <1>3, <2>1, <2>2 DEF Ready
  <2>4. ASSUME NEW r \in deletable PROVE r \in Nat /\ r < cur
    <3>1. r \in inbox /\ r \in Nat /\ cur \in inbox /\ cur \in Requests /\ cur # r
      BY <1>2, <2>3 DEF Ready, IInv, TypeOK, SingleFlight, Requests
    <3>2. body[r].source = body[cur].source
      BY <1>2, <2>2 DEF SessionInv
    <3>3. ~Before(cur, r)
      BY <1>2, <2>3, <3>1 DEF StagesFollow, Overtakes, Buffered
    <3>4. ~(cur < r)
      BY <1>2, <3>1, <3>2, <3>3, InTurnOrder
    <3> QED
      BY <2>3, <3>1, <3>4
  <2>5. ASSUME NEW s \in Sources, NEW m \in Nat PROVE Yields(body, Waiting(m)', s, txn, expected)
    <3>1. CASE m < cur
      <4>1. Waiting(m)' = Waiting(m)
        BY <2>1, <2>3, <3>1 DEF Waiting
      <4> QED
        BY <1>2, <4>1 DEF BackwardInv
    <3>2. CASE ~(m < cur)
      <4>1. \A r \in deletable \cup {cur} : ~(r > m)
        BY <2>3, <2>4, <3>2
      <4>2. Waiting(m)' = Ready \ (deletable \cup {cur})
        BY <2>1, <2>3, <4>1 DEF Waiting
      <4>3. Taken = deletable \cup {cur}
        BY <2>2 DEF Taken
      <4>4. Finished = txn
        BY <2>2, FinishedAt
      <4> QED
        BY <1>2, <4>2, <4>3, <4>4 DEF ForwardInv
    <3> QED
      BY <3>1, <3>2
  <2>6. \A s \in Sources : Yields(body, Ready, s, db, expected)
    BY <1>2 DEF BackwardInv
  <2> QED
    BY <2>1, <2>3, <2>5, <2>6 DEF BackwardInv
<1>15. CASE GroupAborts
  BY <1>15 DEF InOrderFaults, GroupAborts, Fault
<1>16. CASE Commit
  <2>1. db' = txn /\ UNCHANGED <<body, inbox, complete, expected, deletable, txn>>
    BY <1>16 DEF Commit, clientVars, sessionVars
  <2>2. Ready' = Ready /\ \A m \in Nat : Waiting(m)' = Waiting(m)
    BY <2>1 DEF Ready, Waiting
  <2>3. \A r \in Ready : r > 0
    BY <1>3 DEF Requests
  <2>4. Waiting(0) = Ready
    BY <2>3 DEF Waiting
  <2>5. \A s \in Sources : \A m \in Nat : Yields(body, Waiting(m), s, txn, expected)
    BY <1>2 DEF BackwardInv
  <2>6. \A s \in Sources : Yields(body, Ready, s, txn, expected)
    BY <2>4, <2>5
  <2> QED
    BY <2>1, <2>2, <2>5, <2>6 DEF BackwardInv
<1>17. CASE FlushDelete
  <2>1. PICK r \in deletable :
            IsLeast(r, deletable) /\ deletable' = deletable \ {r} /\ inbox' = inbox \ {r}
    BY <1>17 DEF FlushDelete, Fault, InOrderFaults
  <2>2. pc = "flush" /\ UNCHANGED <<body, complete, expected, db, txn>>
    BY <1>17 DEF FlushDelete, clientVars, workerVars
  <2>3. txn = db
    BY <1>2, <2>2 DEF SessionInv
  <2>4. deletable \subseteq Nat /\ r \in Nat
    BY <1>2 DEF IInv, TypeOK, Requests
  <2>5. \A q \in deletable : q = r \/ q > r
    BY <2>1, <2>4 DEF IsLeast
  <2>6. Ready' = Ready \ {r}
    BY <2>1, <2>2 DEF Ready
  <2>7. Waiting(r) = Ready \ {r}
    <3>1. ~(r > r)
      BY <2>4
    <3>2. \A q \in Ready : (q \in deletable => q > r) <=> q # r
      BY <2>1, <2>5, <3>1
    <3> QED
      BY <3>2 DEF Waiting
  <2>8. ASSUME NEW m \in Nat PROVE Waiting(m)' \in {Waiting(m), Waiting(r)}
    <3>1. CASE r > m
      <4>1. ASSUME NEW q \in deletable PROVE q > m
        <5>1. q \in Nat /\ (q = r \/ q > r)
          BY <2>4, <2>5
        <5> QED
          BY ONLY <2>4, <3>1, <5>1, m \in Nat
      <4>2. Waiting(m)' = Ready \ {r}
        BY <2>1, <2>6, <4>1 DEF Waiting
      <4> QED
        BY <2>7, <4>2
    <3>2. CASE ~(r > m)
      <4>1. Waiting(m)' = Waiting(m)
        BY <2>1, <2>6, <3>2 DEF Waiting
      <4> QED
        BY <4>1
    <3> QED
      BY <3>1, <3>2
  <2>9. \A s \in Sources : \A m \in Nat : Yields(body, Waiting(m), s, txn, expected)
    BY <1>2 DEF BackwardInv
  <2>10. \A s \in Sources : \A m \in Nat : Yields(body, Waiting(m)', s, txn, expected)
    BY <2>4, <2>8, <2>9
  <2>11. \A s \in Sources : Yields(body, Ready', s, db, expected)
    BY <2>3, <2>4, <2>6, <2>7, <2>9
  <2> QED
    BY <2>2, <2>10, <2>11 DEF BackwardInv
<1>18. CASE FlushEnd
  <2>1. /\ pc = "flush" /\ deletable = {} /\ deletable' = {} /\ txn' \in {db, txn}
        /\ UNCHANGED <<body, inbox, complete, expected, db>>
    BY <1>18 DEF FlushEnd, NoSession, diskVars, clientVars
  <2>2. txn' = txn
    BY <1>2, <2>1 DEF SessionInv
  <2> QED
    BY <1>6, <2>1, <2>2
<1>19. CASE Archiver \/ ArchiveFails
  BY <1>6, <1>19
  DEF Archiver, ArchiveStart, ArchiveFile, ArchivePut, ArchiveDone, ArchiveFails, diskVars,
      clientVars,
      sessionVars
<1>20. CASE Crash
  <2>1. /\ deletable' = {} /\ txn' = db /\ UNCHANGED <<body, inbox, complete, expected, db>>
    BY <1>20 DEF Crash, NoSession, diskVars
  <2>2. Ready' = Ready /\ \A m \in Nat : Waiting(m)' = Ready
    BY <2>1 DEF Ready, Waiting
  <2>3. \A s \in Sources : Yields(body, Ready, s, db, expected)
    BY <1>2 DEF BackwardInv
  <2> QED
    BY <2>1, <2>2, <2>3 DEF BackwardInv
<1> QED
  BY <1>2, <1>4, <1>5, <1>7, <1>8, <1>9, <1>11, <1>12, <1>13, <1>14, <1>15, <1>16, <1>17, <1>18,
     <1>19, <1>20, <1>21
  DEF Next, Worker, Failure

\* The index of an empty inbox is what applying the accepted requests one after
\* the other gives, if the requests of each source came one after the other:
\* after any number of crashes (until a rename was replayed), lost payloads and
\* failing puts, with any number of sources, groups and COMMITs in the middle of
\* a request.
THEOREM ReplaysAreInOrder ==
    ASSUME OwnPaths, OncePerPath, InOrderFaults
    PROVE  Spec => []InOrderOutcome
<1>1. Init => ReplayInv
  <2> SUFFICES ASSUME Init PROVE ReplayInv
    OBVIOUS
  <2>1. IInv /\ EmptyDb \in Rows /\ MaxFaults \in Nat
    BY InitIInv, ConstantsAssumption DEF EmptyDb, Rows
  <2>2. StagesFollow
    BY DEF Init, StagesFollow, Overtakes, Listed, Dispatched, Grouped, Begun, Buffered, Held,
        GroupOver
  <2>3. UploadsInv
    BY DEF Init, UploadsInv
  <2>4. SessionInv
    BY <2>1 DEF Init, SessionInv, Started, Stage
  <2>5. /\ Ready = {} /\ \A m : Waiting(m) = {}
        /\ db = EmptyDb /\ txn = EmptyDb /\ expected = EmptyDb
    BY DEF Init, Ready, Waiting
  <2>6. Finished = txn
    BY FinishedAt DEF Init, Stage
  <2>7. \A s : Yields(body, {}, s, EmptyDb, EmptyDb)
    BY <2>1, NothingLeft DEF SameRows
  <2>8. ForwardInv
    BY <2>5, <2>6, <2>7 DEF ForwardInv
  <2>9. BackwardInv
    BY <2>5, <2>7 DEF BackwardInv
  <2> QED
    BY <2>1, <2>2, <2>3, <2>4, <2>8, <2>9 DEF ReplayInv
<1>2. ReplayInv /\ [Next]_vars => ReplayInv'
  <2> SUFFICES ASSUME ReplayInv, [Next]_vars PROVE ReplayInv'
    OBVIOUS
  <2>1. CASE Next
    <3>1. IInv'
      BY <2>1, NextIInv DEF ReplayInv
    <3> QED
      BY <2>1, <3>1, FollowStep, UploadsStep, SessionStep, ForwardStep, BackwardStep DEF ReplayInv
  <2>2. CASE UNCHANGED vars
    <3>1. IInv'
      BY <2>2, NextIInv DEF ReplayInv
    <3>2. /\ UNCHANGED <<nextReq, body, pending, uploading, expected, beside, inbox, complete, failed, db>>
          /\ UNCHANGED <<inFlight, remaining, channel, doneQ, pc, ret, group, toSignal, cur>>
          /\ UNCHANGED <<todo, sesSource, txn, deletable, faultsLeft>>
      BY <2>2 DEF vars, diskVars, clientVars, routerVars, workerVars, sessionVars
    <3>3. StagesFollow' /\ UploadsInv' /\ SessionInv'
      BY <3>2
      DEF ReplayInv, StagesFollow, Overtakes, Before, Listed, Dispatched, Grouped, Begun, Buffered,
          Held, GroupOver,
          UploadsInv, SessionInv, Started, Stage
    <3>4. ForwardInv'
      BY <3>2 DEF ReplayInv, ForwardInv, InTurn, NoRenameReplayed, Ready, Taken, Finished, Started, Stage
    <3>5. BackwardInv'
      BY <3>2 DEF ReplayInv, BackwardInv, InTurn, NoRenamesYet, Ready, Waiting
    <3> QED
      BY <3>1, <3>3, <3>4, <3>5 DEF ReplayInv
  <2> QED
    BY <2>1, <2>2
<1>3. ReplayInv => InOrderOutcome
  <2> SUFFICES ASSUME ReplayInv, InTurn, NoRenameReplayed, inbox = {}, failed = {}
               PROVE  db = expected
    BY DEF InOrderOutcome, QuiescentState
  <2>1. deletable = {} /\ ~Held
    BY DEF ReplayInv, IInv, SingleFlight
  <2>2. ~Started
    BY <2>1 DEF Held, Started, Stage
  <2>3. txn = db
    BY <2>1, <2>2 DEF ReplayInv, SessionInv
  <2>4. Finished = txn
    BY <2>2, FinishedAt DEF Started
  <2>5. Ready = {} /\ db \in Rows /\ expected \in Rows
    BY DEF Ready, ReplayInv, IInv, TypeOK, Rows
  <2>6. ASSUME NEW s \in Sources PROVE SameRows(s, db, expected)
    <3>1. Yields(body, {}, s, db, expected)
      BY <2>3, <2>4, <2>5 DEF ReplayInv, ForwardInv
    <3> QED
      BY <2>5, <3>1, NothingLeft
  <2>7. \A p \in Paths : SourceOf[p] \in Sources
    BY ConstantsAssumption
  <2>8. \A p \in Paths : db[p] = expected[p]
    BY <2>6, <2>7 DEF SameRows
  <2> QED
    BY <2>5, <2>8 DEF Rows
<1> QED
  BY <1>1, <1>2, <1>3, PTL DEF Spec

=============================================================================
