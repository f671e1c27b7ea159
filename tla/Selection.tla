------------------------------ MODULE Selection ------------------------------
(***************************************************************************)
(* Which files are indexed.  find-scan walks a tree depth first and keeps  *)
(* two stacks on the way, the .gitignore rules and the .index includes     *)
(* that are in force; what the walk yields passes a few more filters.      *)
(* find-watch gets one event per path and decides from the ancestors of    *)
(* that path, and only a directory some walk has yielded reports at all.   *)
(*                                                                         *)
(* A path is the sequence of its names below the source's root << >>.  A   *)
(* world is a tree's control files together with a configuration:          *)
(*   noindex   the directories with a .noindex                             *)
(*   index     what the .index of each directory sets (Inherit: nothing)   *)
(*   repos     the directories with a .git                                 *)
(*   ignore, keep   what the .gitignore of each directory ignores, and     *)
(*                  what it takes back with "!"                            *)
(*   info      what a repository's .git/info/exclude ignores               *)
(*   rulefiles the directories with a .gitignore, or with an info/exclude  *)
(*             that counts; either may be without a rule                   *)
(*   mounted   the directories on another device                           *)
(*   exclude, include   the globs of [scan] and of the source              *)
(*   include_hidden, respect_gitignore, cross_filesystems   the switches   *)
(*   walk_root where the walk starts: a rescan starts below the root       *)
(* The control files themselves are no files of the tree.                  *)
(***************************************************************************)
EXTENDS Naturals, Sequences, SequencesExt

CONSTANTS
    TreeDirs,       \* the directories, << >> among them
    TreeFiles,      \* the files
    HiddenNames,    \* the names that start with a dot
    SelectWorlds,   \* the worlds looked at
    Inherit         \* an .index field that is not set

TreePaths == TreeDirs \cup TreeFiles
TreeNames == UNION {{p[i] : i \in DOMAIN p} : p \in TreePaths}

ASSUME TreeAssumption ==
    /\ TreePaths \subseteq Seq(TreeNames)
    /\ << >> \in TreeDirs
    /\ \A p \in TreeDirs \cup TreeFiles : p # << >> => Front(p) \in TreeDirs
    /\ TreeDirs \cap TreeFiles = {}
    /\ \A w \in SelectWorlds : w.walk_root \in TreeDirs /\ w.repos \subseteq TreeDirs

VARIABLES
    world,
    listing,         \* the directories being read, innermost first: what is left of each
    git_stack,       \* frames [depth, of]: the .gitignore of a directory
    override_stack,  \* frames [depth, terms]: the .index include of a directory
                     \* (sets: of the frames in use each is of a directory inside the one before)
    found            \* what the callback has been given

walkVars == <<world, listing, git_stack, override_stack, found>>

Above(p) == {d \in TreeDirs : IsStrictPrefix(d, p)}
DirectlyIn(d) == {p \in TreePaths : p # << >> /\ Front(p) = d}
Deepest(ds) == CHOOSE d \in ds : \A e \in ds : Len(e) <= Len(d)

-----------------------------------------------------------------------------
(* Globs: "at" a/b, "tree" a/b/**, "name" **/a, "nametree" **/a/**.        *)

GlobMatches(g, p) ==
    \/ g.kind = "at" /\ p = g.path
    \/ g.kind = "tree" /\ IsStrictPrefix(g.path, p)
    \/ g.kind = "name" /\ p # << >> /\ Last(p) = Last(g.path)
    \/ g.kind = "nametree" /\ \E i \in 1 .. Len(p) - 1 : p[i] = Last(g.path)

\* A pattern that ends in /** matches its directory too.
BuildGlobset(gs) ==
    gs \cup {[g EXCEPT !.kind = "at"] : g \in {h \in gs : h.kind = "tree"}}
       \cup {[g EXCEPT !.kind = "name"] : g \in {h \in gs : h.kind = "nametree"}}

IsMatch(gs, p) == \E g \in BuildGlobset(gs) : GlobMatches(g, p)

\* The literal directories the patterns start with; << >> when one may match
\* anywhere, and then nothing is pruned.
IncludeDirPrefixes(gs) ==
    {IF g.kind \in {"name", "nametree"} THEN << >> ELSE g.path : g \in gs}

Reaches(terms, p) == \E t \in terms : IsPrefix(t, p) \/ IsPrefix(p, t)

NoPruning == {<< >>}
SourceTerminals(w) ==
    IF w.include = {} THEN NoPruning ELSE IncludeDirPrefixes(w.include)

-----------------------------------------------------------------------------
(* .gitignore                                                              *)

LoadGitignore(w, d) ==
    [ignore |-> w.ignore[d] \cup IF d \in w.repos THEN w.info[d] \ w.keep[d] ELSE {},
     keep |-> w.keep[d]]

\* The directories whose rules hold for the contents of d.
EnclosingGitignores(w, d) ==
    LET around == {e \in TreeDirs : IsPrefix(e, d)}
        repos == around \cap w.repos
    IN  IF repos = {} THEN {}
        ELSE {e \in around \cap w.rulefiles : IsPrefix(Deepest(repos), e)}

\* The innermost of the directories that says something of p decides.
Gitignored(w, dirs, p) ==
    LET says == {d \in dirs : p \in LoadGitignore(w, d).ignore \cup LoadGitignore(w, d).keep}
    IN  says # {} /\ p \in LoadGitignore(w, Deepest(says)).ignore

\* find-watch asks each .gitignore for p and for p's parents below it.
PathGitignored(w, p) ==
    LET of(d) == {q \in TreePaths : IsPrefix(q, p) /\ IsStrictPrefix(d, q)}
        says(d) == {q \in of(d) : q \in LoadGitignore(w, d).ignore \cup LoadGitignore(w, d).keep}
        speak == {d \in EnclosingGitignores(w, Front(p)) : says(d) # {}}
    IN  /\ speak # {}
        /\ LET d == Deepest(speak) IN Deepest(says(d)) \in LoadGitignore(w, d).ignore

-----------------------------------------------------------------------------
(* The walk                                                                *)

WalkInit ==
    /\ world \in SelectWorlds
    /\ listing = <<DirectlyIn(world.walk_root)>>
    /\ git_stack = IF ~world.respect_gitignore THEN {}
                   ELSE {[depth |-> 0, of |-> d] : d \in EnclosingGitignores(world, world.walk_root)}
    /\ override_stack = {}
    /\ found = {world.walk_root}

Depth(p) == Len(p) - Len(world.walk_root)

\* Mutant of StillAbove: a sibling's frame stays in force.
StillAboveOrBeside(stack, p) == {frame \in stack : frame.depth <= Depth(p)}

\* Frames of finished subtrees go.
StillAbove(stack, p) == {frame \in stack : frame.depth < Depth(p)}

Ignored(stack, p) == Gitignored(world, {frame.of : frame \in stack}, p)

IsHiddenDir(w, d) == ~w.include_hidden /\ Last(d) \in HiddenNames

\* A repository of its own starts afresh.
TrackGitignore(stack, d) ==
    LET outer == IF d \in world.repos THEN {} ELSE stack
    IN  IF (d \in world.repos \/ outer # {}) /\ d \in world.rulefiles
        THEN outer \cup {[depth |-> Depth(d), of |-> d]}
        ELSE outer

OtherDevice(w, d) ==
    ~w.cross_filesystems /\ ((d \in w.mounted) # (w.walk_root \in w.mounted))

\* The terminals of an .index include, below the directory it is in.
OverrideTerms(w, d) ==
    {IF t = << >> THEN << >> ELSE d \o t : t \in IncludeDirPrefixes(w.index[d].include)}

PushOverride(stack, d) ==
    IF world.index[d].include # Inherit /\ << >> \notin OverrideTerms(world, d)
    THEN stack \cup {[depth |-> Depth(d), terms |-> OverrideTerms(world, d)]}
    ELSE stack

\* What may be entered once its .gitignore has been looked at.
DirAllowed(stack, d) ==
    /\ d \notin world.noindex
    /\ ~OtherDevice(world, d)
    /\ Reaches(SourceTerminals(world), d)
    /\ \A frame \in stack : Reaches(frame.terms, d)

VisitFile(p, rest) ==
    /\ p \in TreeFiles
    /\ LET git == StillAbove(git_stack, p)
           pass == ~Ignored(git, p) /\ ~IsMatch(world.exclude, p)
       IN  /\ git_stack' = git
           /\ found' = IF pass THEN found \cup {p} ELSE found
    /\ listing' = <<rest>> \o Tail(listing)
    /\ UNCHANGED <<world, override_stack>>

VisitDir(d, rest) ==
    /\ d \in TreeDirs
    /\ LET git == StillAbove(git_stack, d)
           overrides == StillAbove(override_stack, d)
           tracked == ~Ignored(git, d) /\ ~IsHiddenDir(world, d)
           allowed == tracked /\ DirAllowed(overrides, d)
           enter == allowed /\ ~IsMatch(world.exclude, d)
       IN  /\ git_stack' = IF tracked /\ world.respect_gitignore
                           THEN TrackGitignore(git, d) ELSE git
           /\ override_stack' = IF allowed THEN PushOverride(overrides, d)
                                ELSE IF Ignored(git, d) THEN override_stack
                                ELSE overrides
           /\ found' = IF enter THEN found \cup {d} ELSE found
           /\ listing' = (IF enter THEN <<DirectlyIn(d)>> ELSE << >>) \o <<rest>> \o Tail(listing)
    /\ UNCHANGED world

\* readdir gives the entries of a directory in an order of its own.
WalkEntry ==
    /\ listing # << >>
    /\ \E p \in Head(listing) :
          LET rest == Head(listing) \ {p} IN VisitFile(p, rest) \/ VisitDir(p, rest)

LeaveDir ==
    /\ listing # << >> /\ Head(listing) = {}
    /\ listing' = Tail(listing)
    /\ UNCHANGED <<world, git_stack, override_stack, found>>

WalkNext == WalkEntry \/ LeaveDir

WalkSpec == WalkInit /\ [][WalkNext]_walkVars

-----------------------------------------------------------------------------
(* The same without stacks: p is selected when every step down to it is.   *)

Passes(w, p) ==
    /\ w.respect_gitignore => ~Gitignored(w, EnclosingGitignores(w, Front(p)), p)
    /\ ~IsMatch(w.exclude, p)
    /\ p \in TreeDirs =>
         /\ ~IsHiddenDir(w, p) /\ p \notin w.noindex /\ ~OtherDevice(w, p)
         /\ Reaches(SourceTerminals(w), p)
         /\ \A d \in Above(p) :
               (IsStrictPrefix(w.walk_root, d) /\ w.index[d].include # Inherit) =>
                   \/ << >> \in OverrideTerms(w, d)
                   \/ Reaches(OverrideTerms(w, d), p)

Selected(w, p) ==
    /\ IsPrefix(w.walk_root, p)
    /\ \A q \in TreePaths : (IsStrictPrefix(w.walk_root, q) /\ IsPrefix(q, p)) => Passes(w, q)

\* A repository inside another one: the walk forgets the outer rules for good.
NestedRepos(w) ==
    w.respect_gitignore /\ \E r \in w.repos : \E s \in w.repos : IsStrictPrefix(s, r)

\* A repository whose root has neither file: no rules in force is how the walk
\* knows that it is in no repository, so it reads none below the root either.
RootWithoutRules(w) ==
    /\ w.respect_gitignore /\ EnclosingGitignores(w, w.walk_root) = {}
    /\ \E r \in w.repos \ w.rulefiles : \E d \in w.rulefiles : IsStrictPrefix(r, d)

FollowsRules(w) == ~NestedRepos(w) /\ ~RootWithoutRules(w)

\* Whatever order the directories are read in, a finished subtree leaves nothing
\* behind in the two stacks: the walk yields what every step down selects.
WalkSelects ==
    FollowsRules(world) =>
        /\ \A p \in found : Selected(world, p)
        /\ listing = << >> => \A p \in TreePaths : Selected(world, p) => p \in found

-----------------------------------------------------------------------------
(* What becomes of a path                                                  *)

\* What the .index files of a chain of directories make of the configuration:
\* excludes add up, and of the other fields the innermost one wins.
ApplyOverrides(w, dirs) ==
    LET sets(field) == {d \in dirs : w.index[d][field] # Inherit}
        value(field, global) == IF sets(field) = {} THEN global
                                ELSE w.index[Deepest(sets(field))][field]
    IN  [exclude |-> w.exclude \cup UNION {w.index[d].exclude : d \in dirs},
         respect_gitignore |-> value("respect_gitignore", w.respect_gitignore),
         include |-> value("include", {}),
         include_dir |-> IF sets("include") = {} THEN << >> ELSE Deepest(sets("include"))]

ResolveScan(w, p) == ApplyOverrides(w, Above(p))

\* find-watch: a .noindex anywhere above.
WatchSkips(w, p) == Above(p) \cap w.noindex # {}

IsExcluded(eff, p) == IsMatch(eff.exclude, p)

InDirInclude(eff, p) ==
    eff.include = {} \/ IsMatch(eff.include, SubSeq(p, Len(eff.include_dir) + 1, Len(p)))

InSource(w, p) == w.include = {} \/ IsMatch(w.include, p)

\* find-scan: the callback of its walk, then process_file.
ScanIndexes(w, p) ==
    /\ p \in TreeFiles /\ Selected(w, p)
    /\ w.include_hidden \/ Last(p) \notin HiddenNames
    /\ InSource(w, p)
    /\ InDirInclude(ResolveScan(w, p), p)

\* find-watch: an event comes from a directory that was registered, and passes
\* the loop's filters.
WatchAccepts(w, p) ==
    LET eff == ResolveScan(w, p)
    IN  /\ InSource(w, p)
        /\ ~WatchSkips(w, p)
        /\ InDirInclude(eff, p)
        /\ ~IsExcluded(eff, p)
        /\ ~(eff.respect_gitignore /\ PathGitignored(w, p))

WatchIndexes(w, p) == p \in TreeFiles /\ Selected(w, Front(p)) /\ WatchAccepts(w, p)

\* find-watch, of a directory d that appears with its contents.
NewDirIndexes(w, d, p) ==
    LET eff == ResolveScan(w, d)
        walk == [w EXCEPT !.walk_root = d, !.include = {}, !.exclude = eff.exclude,
                          !.respect_gitignore = eff.respect_gitignore]
    IN  /\ Selected(w, Front(d)) /\ WatchAccepts(w, d)
        /\ p \in TreeFiles /\ Selected(walk, p)

\* The worlds in which the programs are meant to agree on p: the walk follows the
\* rules, the root has no control files, and nothing between sets what only one
\* of them looks at.
Comparable(w, p) ==
    /\ FollowsRules(w)
    /\ << >> \notin w.noindex
    /\ \A d \in TreeDirs : /\ w.index[d].exclude = {} /\ w.index[d].respect_gitignore = Inherit
                           /\ w.keep[d] = {}
    /\ w.include_hidden \/ Last(p) \notin HiddenNames

Agree(w, p) == ScanIndexes(w, p) <=> WatchIndexes(w, p)

-----------------------------------------------------------------------------
(* A control file that changes                                             *)

\* The directory to rescan: one above the one it is in, so that its own
\* directory is an entry of the walk and not its root.
ResolveScanTarget(p, control) ==
    IF Last(p) \in control THEN Front(Front(p)) ELSE p

\* The rescan of d indexes p.
RescanIndexes(w, d, p) == ScanIndexes([w EXCEPT !.walk_root = d], p)

=============================================================================
