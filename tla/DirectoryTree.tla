---------------------------- MODULE DirectoryTree ----------------------------
(***************************************************************************)
(* The directory tree a reader browses.  Nothing keeps a tree: a listing   *)
(* is made from the rows of the files table that begin with a prefix, for  *)
(* a directory the prefix "d/", for an archive "a::".                      *)
(*                                                                         *)
(* A path is a sequence of names with "/" or "::" between them, a prefix   *)
(* one that ends with a separator or is empty, a file [path, kind].        *)
(***************************************************************************)
EXTENDS Naturals, Sequences
LOCAL INSTANCE SequencesExt

CONSTANTS NonAscii,     \* names with a character beyond ASCII in them
          Astral,       \* names that sort behind U+FFFF in UTF-8
          NotFound

Separators == {"/", "::"}
IsComposite(path) == \E i \in 1 .. Len(path) : path[i] = "::"

\* The rows of the range scan: what begins with the prefix; in the root, what
\* sorts below U+FFFF.
InRange(path, prefix) ==
    IF prefix = << >> THEN path[1] \notin Astral ELSE IsPrefix(prefix, path)

Rest(path, prefix) == SubSeq(path, Len(prefix) + 1, Len(path))
Rows(files, prefix) == {f \in files : InRange(f.path, prefix)}

\* sized: size and mtime are known.
FileEntry(file) ==
    [name |-> Last(file.path), path |-> file.path, type |-> "file", kind |-> file.kind, sized |-> TRUE]
DirEntry(prefix, name) ==
    [name |-> name, path |-> prefix \o <<name, "/">>, type |-> "dir", kind |-> "none", sized |-> FALSE]
\* An archive in an archive that has members but no row of its own.
ArchiveEntry(prefix, name) ==
    [name |-> name, path |-> Append(prefix, name), type |-> "file", kind |-> "archive", sized |-> FALSE]

\* Below a directory: members of archives are left out.
DirListing(files, prefix) ==
    LET rows == {f \in Rows(files, prefix) : ~IsComposite(Rest(f.path, prefix))}
        leaves == {f \in rows : Len(Rest(f.path, prefix)) = 1}
    IN  {FileEntry(f) : f \in leaves}
        \cup {DirEntry(prefix, Rest(f.path, prefix)[1]) : f \in rows \ leaves}

\* In an archive: a name that is a row of its own is no directory as well; of "x/"
\* and "x::" the first in the order of the paths wins, which is "x/".
ArchiveListing(files, prefix) ==
    LET rows == Rows(files, prefix)
        leaves == {f \in rows : Len(Rest(f.path, prefix)) = 1}
        seenFiles == {Last(f.path) : f \in leaves}
        below(sep) == {Rest(f.path, prefix)[1] :
                          f \in {g \in rows \ leaves : Rest(g.path, prefix)[2] = sep}}
    IN  {FileEntry(f) : f \in leaves}
        \cup {DirEntry(prefix, name) : name \in below("/") \ seenFiles}
        \cup {ArchiveEntry(prefix, name) : name \in (below("::") \ below("/")) \ seenFiles}

ListDir(files, prefix) ==
    IF IsComposite(prefix) THEN ArchiveListing(files, prefix) ELSE DirListing(files, prefix)

\* Byte by byte: a character beyond ASCII becomes two or more others.
Latin1(name) == IF name \in NonAscii THEN "latin1 " \o name ELSE name

AllDirPrefixes(path) ==
    {<< >>} \cup {[j \in 1 .. i |-> Latin1(path[j])] : i \in {k \in 1 .. Len(path) : path[k] \in Separators}}

ExpandTree(files, path) == [prefix \in AllDirPrefixes(path) |-> ListDir(files, prefix)]

\* The archive a member is in, and its path there.
SplitCompositePath(path) ==
    IF ~IsComposite(path) THEN <<path, NotFound>>
    ELSE LET at == CHOOSE i \in 1 .. Len(path) : path[i] = "::" /\ ~IsComposite(SubSeq(path, 1, i - 1))
         IN  <<SubSeq(path, 1, at - 1), Rest(path, SubSeq(path, 1, at))>>

-----------------------------------------------------------------------------
(* The routes: dbs gives each source that has a database its files         *)

ListSources(dbs) == DOMAIN dbs
GetListDir(dbs, source, prefix) ==
    IF source \notin DOMAIN dbs THEN NotFound ELSE ListDir(dbs[source], prefix)
GetExpandTree(dbs, source, path) ==
    IF source \notin DOMAIN dbs THEN NotFound ELSE ExpandTree(dbs[source], path)

-----------------------------------------------------------------------------
(* What a reader relies on                                                 *)

\* The listing behind an entry, if there is one.
Opens(entry) ==
    IF entry.type = "dir" THEN {entry.path}
    ELSE IF entry.kind = "archive" THEN {Append(entry.path, "::")} ELSE {}

\* The file is found from the root, each listing opened from the one before it.
Revealed(levels, path) ==
    LET ends == {i \in 1 .. Len(path) : path[i] \in Separators}
        before(i) == SubSeq(path, 1, i)
        above(i) == LET lower == {j \in ends : j < i}
                    IN  IF lower = {} THEN 0 ELSE CHOOSE j \in lower : \A k \in lower : k <= j
        listing(i) == IF before(i) \in DOMAIN levels THEN levels[before(i)] ELSE {}
    IN  /\ \A i \in ends : \E e \in listing(above(i)) : before(i) \in Opens(e)
        /\ \E e \in listing(above(Len(path) + 1)) : e.path = path /\ e.type = "file"

\* Opening goes down, so that it ends; no two entries are taken for one another;
\* and behind every entry there is a file.
Sound(files, prefix) ==
    LET entries == ListDir(files, prefix)
    IN  /\ \A e \in entries : \A p \in Opens(e) :
              Len(p) > Len(prefix) /\ IsPrefix(prefix, p) /\ \E f \in files : IsPrefix(e.path, f.path)
        /\ \A d, e \in entries : d # e => d.path # e.path /\ d.name # e.name

=============================================================================
