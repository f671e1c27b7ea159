------------------------------- MODULE MCTree -------------------------------
(***************************************************************************)
(* The tree of every small set of files: directories in directories, an    *)
(* archive with a directory and archives in it.  DirectoryTree has no      *)
(* state; what it promises is assumed of these sets and evaluated once.    *)
(***************************************************************************)
EXTENDS DirectoryTree
LOCAL INSTANCE SequencesExt

MCOuter == {<<"a">>, <<"z">>, <<"d", "/", "a">>, <<"d", "/", "e", "/", "a">>, <<"d", "/", "z">>}
MCMembers ==
    {<<"z", "::", "m">>, <<"z", "::", "d", "/", "m">>, <<"z", "::", "n">>,
     <<"z", "::", "n", "::", "m">>, <<"z", "::", "d", "/", "n", "::", "m">>,
     <<"d", "/", "z", "::", "d", "/", "m">>}

MCTreeFile(path) == [path |-> path, kind |-> IF Last(path) \in {"z", "n"} THEN "archive" ELSE "text"]

\* Members come with the archive file they are in; an archive in it may have no
\* row of its own.
MCFileSets ==
    {files \in {{MCTreeFile(p) : p \in ps} : ps \in SUBSET (MCOuter \cup MCMembers)} :
        \A f \in files : \E g \in files : g.path = SplitCompositePath(f.path)[1]}

\* One request gives all the listings through which a file is reached, and what
\* it gives is what the listings asked for one by one would be.
ASSUME EveryFileIsReached ==
    \A files \in MCFileSets : \A f \in files :
        LET levels == GetExpandTree([s |-> files], "s", f.path)
        IN  /\ Revealed(levels, f.path)
            /\ \A p \in DOMAIN levels : levels[p] = GetListDir([s |-> files], "s", p)

\* The listing of any prefix in use can be browsed without end or error.
ASSUME ListingsAreSound ==
    \A files \in MCFileSets : \A f \in files : \A p \in AllDirPrefixes(f.path) : Sound(files, p)

\* A directory whose name is not ASCII is not among the levels: they are asked for
\* under another name, and come back empty.
ASSUME ExpandIsAsciiOnly ==
    \A name \in NonAscii :
        LET files == {[path |-> <<name, "/", "a">>, kind |-> "text"]}
            levels == ExpandTree(files, <<name, "/", "a">>)
        IN  /\ ~Revealed(levels, <<name, "/", "a">>)
            /\ GetListDir([s |-> files], "s", <<name, "/">>) # {}

\* A name that sorts behind U+FFFF is shown in every directory but the root.
ASSUME RootEndsAtFFFF ==
    \A name \in Astral :
        LET files == {[path |-> <<name>>, kind |-> "text"], [path |-> <<"d", "/", name>>, kind |-> "text"]}
        IN  /\ ~Revealed(ExpandTree(files, <<name>>), <<name>>)
            /\ Revealed(ExpandTree(files, <<"d", "/", name>>), <<"d", "/", name>>)

\* A member hides the members below a directory of its name.
ASSUME MemberHidesDirectory ==
    LET files == {MCTreeFile(p) : p \in {<<"z">>, <<"z", "::", "d">>, <<"z", "::", "d", "/", "m">>}}
    IN  ~Revealed(ExpandTree(files, <<"z", "::", "d", "/", "m">>), <<"z", "::", "d", "/", "m">>)

ASSUME UnknownSources == GetListDir([s |-> {}], "t", << >>) = NotFound /\ ListSources([s |-> {}]) = {"s"}

=============================================================================
