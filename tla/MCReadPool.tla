----------------------------- MODULE MCReadPool -----------------------------
(***************************************************************************)
(* Small instances of what is read, one part each; a behaviour belongs to  *)
(* one part, and the parts share no variable.                              *)
(*                                                                         *)
(* pool: four threads at the read pool and the reads that go through it;   *)
(* two texts, one with empty lines before, inside and after a chunk        *)
(* boundary, one that replaces it (BlobReads over ReadPool).               *)
(*                                                                         *)
(* links: two requests that make links, two codes, a ZIP with a ZIP in it  *)
(* (ShareLinks over FileServing).                                          *)
(*                                                                         *)
(* preview: one DICOM file drawn by a subprocess (FileServing).            *)
(*                                                                         *)
(* recent: three requests, one rollback and a follower of the activity log *)
(* (RecentActivity).                                                       *)
(***************************************************************************)
EXTENDS BlobReads, ShareLinks, RecentActivity, TLC

CONSTANTS t1, t2, t3, t4, empty, lineA, lineB, codeA, codeB, p1, p2, peer1

VARIABLE part

MCThreads == {t1, t2, t3, t4}

MCLines == {empty, lineA, lineB}
MCLength == empty :> 0 @@ lineA :> 1 @@ lineB :> 2
MCBlobs == {<<empty, lineA, empty, empty, lineA>>, <<lineB, lineB, empty>>}
MCRanges == {<<0, 4>>, <<1, 2>>}

\* chunk_blob and get_lines against the text itself, on every text of up to
\* four lines and every chunk size up to four: every line that is not empty
\* comes back at its own position, and nothing else does.
ASSUME BoundedChunking ==
    \A size \in 0..4 :
        ChunkingIsIdentity(UNION {[1..n -> MCLines] : n \in 0..4},
                           {<<0, 3>>, <<1, 2>>}, size)

ASSUME InstanceChunking == ChunkingIsIdentity(MCBlobs, MCRanges, 3)

-----------------------------------------------------------------------------
\* A picture, a ZIP with a TIFF, a ZIP with a TIFF that is too large and a ZIP
\* within it, and what is no picture.
MCContents == {"jpg", "tif", "huge", "txt", "zip", "inner", "innermost"}
MCFormat == [c \in MCContents |->
    CASE c = "jpg" -> "jpeg" [] c \in {"tif", "huge"} -> "tiff" [] c = "txt" -> "text"
      [] OTHER -> "zip"]
MCSize == [c \in MCContents |->
    CASE c = "huge" -> 3 [] c = "txt" -> 0 [] c \in {"jpg", "tif"} -> 1 [] OTHER -> 2]
MCZipEntries == [c \in MCContents |->
    CASE c = "zip" -> ("m" :> "tif" @@ "in" :> "inner")
      [] c = "inner" -> ("m" :> "tif" @@ "h" :> "huge" @@ "in" :> "innermost")
      [] c = "innermost" -> ("m" :> "jpg")
      [] OTHER -> <<>>]
MCTokenScopes == "reader" :> "read" @@ "indexer" :> "update-index"

MCTargets ==
    {[path |-> <<"z">>, archive |-> Unarchived],
     [path |-> <<"z">>, archive |-> <<"m">>],
     [path |-> <<"z", "in", "m">>, archive |-> Unarchived]}

-----------------------------------------------------------------------------
(* FileServing's operators, on every disk and path of the instance.         *)

MCSegments == {"m", "in", "h"}
MCPaths == {<<o>> \o s : o \in Outers, s \in UNION {[1..n -> MCSegments] : n \in 0..3}}

\* Within the levels a member may be nested, the viewer and the download of a
\* picture as PNG show the same, or refuse alike.
ASSUME ViewIsRaw ==
    \A d \in Disks, p \in MCPaths :
        Len(p) - 1 <= download_zip_member_levels
            => ServeImage(d, p) = ServeRaw(d, p, TRUE, Malformed)

\* What is sent as a range lies in the file, is not empty, and starts where it
\* was asked to; a range that begins in the file is never refused.
ASSUME RangesFit ==
    \A c \in MCContents, s \in 0..4, e \in {Open} \cup 0..4 :
        LET r == ServeRange(c, [start |-> s, end |-> e])
        IN IF r.status = 206
           THEN /\ r.first = s /\ r.first <= r.last /\ r.last < FileSize[c]
                /\ r.length = r.last - r.first + 1
                /\ e # Open => r.last <= e
           ELSE s >= FileSize[c] \/ (e # Open /\ e < s)

\* A bearer that resolves hides the cookie: a session that would do is refused
\* when the header carries a weaker token.
ASSUME FirstCredentialWins ==
    /\ CheckScope([bearer |-> "reader", cookie |-> RootToken], "admin") = 403
    /\ CheckScope([bearer |-> "unknown", cookie |-> RootToken], "admin") = 0
    /\ CheckScope([bearer |-> "", cookie |-> "unknown"], "read") = 401

\* A disk with every file in place; a picture without a row of its own is found
\* through its iWork parent, at any depth.
ASSUME IWorkPreviews ==
    LET d == [o \in Outers \ IllegalOuters |-> "zip"]
        kinds == [p \in MCPaths |-> IF p = <<"z">> THEN "archive" ELSE NoRowFor]
        root == [bearer |-> RootToken, cookie |-> ""]
    IN /\ GetView(d, root, kinds, {"z"}, <<"z", "m">>) = Sent("png", "tif")
       /\ GetView(d, root, kinds, {}, <<"z", "m">>) = Refused(404)
       /\ GetView(d, root, kinds, {"z"}, <<"z">>) = Refused(422)
       /\ GetRawPath(d, root, "z") = ServeRaw(d, <<"z">>, FALSE, Malformed)

\* A link made with an empty archive path is told apart from the file it was
\* made for, so nobody can read that file with it.
ASSUME EmptyArchivePath ==
    LET t == [path |-> <<"z">>, archive |-> <<>>] IN LinkPath(t) # CompositePath(t)

-----------------------------------------------------------------------------
(* Requests that add a file and a member of an archive, change and delete   *)
(* it, and rename it beside another file.                                  *)

MCUpsert(path, mtime) == [path |-> path, mtime |-> mtime]
MCBulk ==
    {[deletes |-> << >>, renames |-> << >>, upserts |-> <<MCUpsert("f", 1), MCUpsert("z::m", 1)>>],
     [deletes |-> <<"g">>, renames |-> << >>, upserts |-> <<MCUpsert("f", 2)>>],
     [deletes |-> << >>, renames |-> << <<"f", "g">> >>, upserts |-> << >>]}

MCLogs ==
    {[i \in 1..n |-> ActivityRow(at[i], "added", ToString(i), NoNewPath)] :
        n \in 0..3, at \in {f \in [1..3 -> 1..3] : f[1] <= f[2] /\ f[2] <= f[3]}}
MCDbs == {[s |-> [log |-> l1, files |-> "f" :> 1], t |-> [log |-> l2, files |-> << >>]] : l1, l2 \in MCLogs}

\* Taking the newest of every source is taking the newest of all: no entry that
\* is left out is newer than one that is shown, and the newest come first.
ASSUME NewestOfAll ==
    \A dbs \in MCDbs, limit \in 0..3 :
        LET shown == GetRecent(dbs, limit, FALSE)
            total == Len(dbs["s"].log) + Len(dbs["t"].log)
            newer(n) == Cardinality({i \in DOMAIN dbs["s"].log : dbs["s"].log[i].occurred_at > n})
                        + Cardinality({i \in DOMAIN dbs["t"].log : dbs["t"].log[i].occurred_at > n})
        IN /\ Len(shown) = IF limit < total THEN limit ELSE total
           /\ \A i \in DOMAIN shown : newer(shown[i].occurred_at) < i
           /\ \A i, j \in DOMAIN shown : i < j => shown[i].occurred_at >= shown[j].occurred_at

\* By mtime, members of archives are left out; more than the maximum is refused.
ASSUME RecentByMtime ==
    LET dbs == [s |-> [log |-> << >>, files |-> "f" :> 2 @@ "z::m" :> 3 @@ "g" :> 1]]
    IN /\ [i \in 1..2 |-> GetRecent(dbs, 2, TRUE)[i].path] = <<"f", "g">>
       /\ GetRecent(dbs, MAX_RECENT_LIMIT + 1, TRUE) = BadRequest

-----------------------------------------------------------------------------
MCInit ==
    /\ part \in {"pool", "links", "preview", "recent"}
    /\ ReadInit /\ LinkInit /\ PreviewInit /\ ActivityInit
    /\ part # "links" => disk = [o \in DOMAIN disk |-> "missing"]

MCNext ==
    \/ part = "pool" /\ ReadNext /\ UNCHANGED <<part, linkVars, previewVars, activityVars>>
    \/ part = "links" /\ LinkNext /\ UNCHANGED <<part, allvars, previewVars, activityVars>>
    \/ part = "preview" /\ PreviewNext /\ UNCHANGED <<part, allvars, linkVars, activityVars>>
    \/ part = "recent" /\ ActivityNext /\ UNCHANGED <<part, allvars, linkVars, previewVars>>

\* The fairness of BlobReads or FileServing, of the part the behaviour belongs to.
MCSpec ==
    /\ MCInit /\ [][MCNext]_<<part, allvars, linkVars, previewVars, activityVars>>
    /\ \A t \in Threads :
        /\ WF_allvars(part = "pool" /\ t \in woken /\ Enter(t))
        /\ WF_allvars(part = "pool" /\ (BlobExists(t) \/ Query(t) \/ Leave(t)))
    /\ WF_previewVars(part = "preview" /\ PollPreview)
    /\ WF_previewVars(part = "preview" /\ JoinPreview)
    /\ WF_previewVars(part = "preview" /\ PreviewTick)

=============================================================================
