---------------------------- MODULE MCWatchLoop ----------------------------
(***************************************************************************)
(* Small instances of the client, one part each; a behaviour belongs to    *)
(* one part, and the parts share no variable.                              *)
(*                                                                         *)
(* watch: a source root, two directories, the files a and b and the marker *)
(* in each place (WatchLoop).                                              *)
(*                                                                         *)
(* file: a file of every kind an extractor tells apart, with the programs  *)
(* missing, failing and installed later (FileIndexing).                    *)
(*                                                                         *)
(* select: the walk of a small tree, with its control files and the        *)
(* configuration in every combination of a few settings (Selection).       *)
(***************************************************************************)
EXTENDS WatchLoop, FileIndexing, Selection

CONSTANTS rootDir, dir1, dir2, fileA, fileB, marker

VARIABLE part

-----------------------------------------------------------------------------
MCDirs == {dir1, dir2}
MCNames == {fileA, fileB, marker}
MCIncludes == Paths \ {<<dir1, fileB>>}
MCExcluded == {<<dir1, fileB>>}
MCInitFiles == {<<rootDir, fileA>>, <<dir1, fileA>>}

-----------------------------------------------------------------------------
MCSample(ext, holds, entry) ==
    [ext |-> ext, holds |-> holds, entry |-> entry, server_entry |-> "none",
     server_fallback |-> FALSE]

\* Without an extension; with one whose promise is kept; with one nobody knows
\* and each kind of entry; what is not opened; what is not what its name says;
\* the server's tool; the fallback.
MCSamples ==
    {MCSample("", h, "none") : h \in Holdings \ {"own"}}
    \cup {MCSample(e, "own", "none") : e \in Extensions \ {"", "xyz", "iso", "class"}}
    \cup {MCSample("xyz", h, e) : h \in {"text", "data"}, e \in Entries \ {"builtin"}}
    \cup {MCSample(e, "data", "none") : e \in {"iso", "class"}}
    \cup {MCSample(e, "data", "builtin") : e \in {"html", "pdf"}}
    \cup {[MCSample("xyz", "data", e) EXCEPT !.server_entry = "stdout", !.server_fallback = TRUE] :
            e \in {"stdout", "server_only"}}
    \cup {[MCSample("pdf", "own", "none") EXCEPT !.server_fallback = TRUE]}

-----------------------------------------------------------------------------
MCTreeDirs == {<< >>, <<"a">>, <<"a", "s">>, <<"b">>, <<".h">>}
MCTreeFiles == {<<"f">>, <<"a", "f">>, <<"a", "s", "f">>, <<"a", ".x">>, <<"b", "f">>, <<".h", "f">>}
MCHiddenNames == {".h", ".x"}

MCGlob(kind, path) == [kind |-> kind, path |-> path]
MCNoIndexFile == [include |-> Inherit, exclude |-> {}, respect_gitignore |-> Inherit]
MCNothing == [d \in MCTreeDirs |-> {}]
MCPlain ==
    [noindex |-> {}, index |-> [d \in MCTreeDirs |-> MCNoIndexFile],
     repos |-> {}, ignore |-> MCNothing, keep |-> MCNothing, info |-> MCNothing,
     rulefiles |-> {}, mounted |-> {},
     exclude |-> {}, include |-> {}, include_hidden |-> FALSE, respect_gitignore |-> TRUE,
     cross_filesystems |-> TRUE, walk_root |-> << >>]

\* A directory with a rule has a file for it.
MCRuled(w) ==
    [w EXCEPT !.rulefiles = @ \cup {d \in MCTreeDirs : w.ignore[d] \cup w.keep[d] # {}}
                              \cup {d \in w.repos : w.info[d] # {}}]
MCGitWorlds ==
    LET rules == [MCNothing EXCEPT ![<< >>] = {<<"a", "f">>, <<"b">>, <<"a", "s", "f">>}]
        repo == [MCPlain EXCEPT !.repos = {<< >>}, !.ignore = rules]
        inner == [MCPlain EXCEPT !.repos = {<< >>}, !.ignore[<<"a">>] = {<<"a", "s">>}]
        worlds == {MCPlain, [MCPlain EXCEPT !.respect_gitignore = FALSE], [MCPlain EXCEPT !.ignore = rules],
                   repo, [repo EXCEPT !.ignore[<<"a">>] = {<<"a", "s">>}, !.keep[<<"a">>] = {<<"a", "f">>}],
                   [repo EXCEPT !.repos = {<<"a">>}, !.info[<<"a">>] = {<<"a", "f">>}],
                   [repo EXCEPT !.repos = {<< >>, <<"a">>}],
                   inner, [inner EXCEPT !.rulefiles = {<< >>}]}
    IN  {MCRuled(w) : w \in worlds}
MCIndexed(worlds) ==
    worlds \cup {[w EXCEPT !.index[<<"a">>].include = gs] : w \in worlds,
                    gs \in {{MCGlob("tree", <<"t">>)}, {MCGlob("name", <<"f">>)}, {}}}
           \cup {[w EXCEPT !.noindex = {d}] : w \in worlds, d \in MCTreeDirs \ {<<".h">>}}
MCConfigured(worlds) ==
    worlds \cup {[w EXCEPT !.include = {MCGlob("tree", <<"a", "s">>)}] : w \in worlds}
           \cup {[w EXCEPT !.exclude = {MCGlob("nametree", <<"s">>), MCGlob("at", <<"b", "f">>)}] : w \in worlds}
           \cup {[w EXCEPT !.include_hidden = TRUE, !.cross_filesystems = FALSE, !.mounted = {<<"b">>}] :
                    w \in worlds}
MCWorlds ==
    LET worlds == MCConfigured(MCIndexed(MCGitWorlds))
        overridden == {MCRuled([MCPlain EXCEPT !.repos = {<< >>}, !.ignore[<< >>] = {<<"a", "f">>},
                                               !.index[<<"a">>] = ov]) :
                          ov \in {[MCNoIndexFile EXCEPT !.exclude = {MCGlob("name", <<"f">>)}],
                                  [MCNoIndexFile EXCEPT !.respect_gitignore = FALSE]}}
    IN  worlds \cup overridden \cup {[w EXCEPT !.walk_root = <<"a">>] : w \in worlds}

\* find-watch and find-scan agree on every file of a comparable world, ...
ASSUME WatchIsScan ==
    \A w \in MCWorlds : \A p \in MCTreeFiles :
        w.walk_root = << >> /\ Comparable(w, p) => Agree(w, p)
\* ... and where a world is not comparable each condition is needed: a .noindex
\* in the root, an exclude or a respect_gitignore of an .index, a rule that is
\* taken back, a hidden file.
ASSUME WatchIsNotScan ==
    /\ \E w \in MCWorlds : << >> \in w.noindex /\ ~Agree(w, <<"f">>)
    /\ \E w \in MCWorlds : w.index[<<"a">>].exclude # {} /\ ~Agree(w, <<"a", "s", "f">>)
    /\ \E w \in MCWorlds : w.index[<<"a">>].respect_gitignore # Inherit /\ ~Agree(w, <<"a", "f">>)
    /\ ~Agree(MCPlain, <<"a", ".x">>)

\* A rescan of the directory above a control file finds below it what a scan of
\* the whole source finds, when the control files above it say nothing.
ASSUME RescanIsScan ==
    \A w \in MCWorlds : \A p \in MCTreeFiles :
        w.walk_root = << >> /\ w.noindex \cap {<< >>, <<"a">>} = {} /\ w.index[<<"a">>].include = Inherit
        /\ <<"a">> \in Above(p) /\ Selected(w, <<"a">>)
        => (RescanIndexes(w, <<"a">>, p) <=> ScanIndexes(w, p))
ASSUME ControlFileTarget ==
    /\ ResolveScanTarget(<<"a", "s", ".noindex">>, {".index", ".noindex"}) = <<"a">>
    /\ ResolveScanTarget(<<"a", "s", "f">>, {".index", ".noindex"}) = <<"a", "s", "f">>

\* A directory that appears with its contents, when the source names no globs
\* and neither a hidden file nor an .index is involved.
ASSUME NewDirIsScan ==
    \A w \in MCWorlds : \A p \in MCTreeFiles :
        /\ w.walk_root = << >> /\ w.include = {} /\ w.index[<<"a">>] = MCNoIndexFile
        /\ <<"a">> \in Above(p) /\ <<"a">> \notin w.noindex /\ w.cross_filesystems /\ Comparable(w, p)
        => (NewDirIndexes(w, <<"a">>, p) <=> ScanIndexes(w, p))
\* Without those conditions it indexes what no scan would.
ASSUME NewDirIsNotScan ==
    /\ NewDirIndexes(MCPlain, <<"a">>, <<"a", ".x">>) /\ ~ScanIndexes(MCPlain, <<"a", ".x">>)
    /\ \E w \in MCWorlds : /\ w.noindex = {<<"a">>}
                            /\ NewDirIndexes(w, <<"a">>, <<"a", "f">>) /\ ~ScanIndexes(w, <<"a", "f">>)

-----------------------------------------------------------------------------
\* The part that is not looked at stays in one state, in which it owes nothing.
MCInit ==
    /\ part \in {"watch", "file", "select"}
    /\ Init /\ FileInit /\ WalkInit
    /\ part # "file" => /\ sample = CHOOSE f \in SampleFiles : f.ext \in ArchiveExts
                        /\ absent = {} /\ server_absent = {}
    /\ part # "select" => world = MCPlain

MCNext ==
    \/ part = "watch" /\ Next /\ UNCHANGED <<part, fileVars, walkVars>>
    \/ part = "file" /\ FileNext /\ UNCHANGED <<part, vars, walkVars>>
    \/ part = "select" /\ WalkNext /\ UNCHANGED <<part, vars, fileVars>>

\* FairSpec or FileSpec, of the part the behaviour belongs to.
MCSpec ==
    /\ MCInit /\ [][MCNext]_<<part, vars, fileVars, walkVars>>
    /\ WF_vars(part = "watch" /\ Loop)
    /\ WF_fileVars(part = "file" /\ InstallExtractors)
    /\ WF_fileVars(part = "file" /\ \E fails \in BOOLEAN : ScanFile(fails, TRUE))
    /\ WF_fileVars(part = "file" /\ \E v \in uploaded, fails \in BOOLEAN : IndexUpload(v, fails, TRUE))

=============================================================================
