---------------------------- MODULE BinmanExtract ---------------------------
(***************************************************************************)
(* bm unpacks the archive of a package into a fresh directory: extractTarGz *)
(* of cmd/binman/store.go, one step per entry, and the last look at every   *)
(* symlink.  os.Root keeps every operation below the directory: a link that *)
(* leads out of it is an error (FileTree's "escape").                       *)
(*                                                                         *)
(* An entry is [name, node], or [name, hard] for a hard link to the entry   *)
(* named "hard".  Files that are hard links of each other share an inode,   *)
(* so that writing one writes the others.                                  *)
(***************************************************************************)
EXTENDS FileTree

CONSTANTS Package,   \* what every name must start with
          MetaFile   \* .binman-meta

VARIABLES tar,     \* the archive
          read,    \* entries that were read
          pkg,     \* the directory
          inode,   \* the inodes of the files in pkg: the entry that created them
          bm       \* "reading", "accepted" or "refused"

extraction == <<read, pkg, inode, bm>>

ExtractInit == read = 0 /\ pkg = <<>> /\ inode = <<>> /\ bm = "reading"

IsHard(e) == "hard" \in DOMAIN e
Kind(e) == IF IsHard(e) THEN "hard" ELSE e.node.t

\* archivePath: the name below the package; the package itself is skipped.
Rooted(name) == name # <<>> /\ Head(name) = Package
Place(e) == Tail(e.name)

\* root.MkdirAll, one level at a time.
Mkdir(made, dir) ==
    IF ~made.ok THEN made
    ELSE IF Resolves(made.tree, dir)
         THEN [made EXCEPT !.ok = Is("dir", made.tree, Eval(made.tree, dir).at)]
    ELSE LET real == Real(made.tree, dir)
         IN IF Reaches(made.tree, dir) /\ ~Exists(made.tree, real)
            THEN [made EXCEPT !.tree = With(@, real, Dir)]
            ELSE [made EXCEPT !.ok = FALSE]
MkdirAll(tree, dir) ==
    Iterate(LAMBDA made, i : Mkdir(made, SubSeq(dir, 1, i)),
            [ok |-> TRUE, tree |-> tree], Len(dir))

\* validateSymlink looks at the text of the name and the target only.
Escapes(name, to) ==
    LET clean == Clean(Front(name) \o to)
    IN clean # <<>> /\ Head(clean) = ".."

-----------------------------------------------------------------------------
\* One entry e.  "tree" is the directory once the parents of the entry were made,
\* "spot" where the entry goes in it.

\* What it takes: writeArchiveFile replaces no link and no directory,
FileFits(tree, spot) == ~Exists(tree, spot) \/ Is("file", tree, spot)

\* what is in the place of a link makes room, unless it is a directory with entries,
LinkFits(e, tree, spot) == /\ ~e.node.abs
                           /\ ~Escapes(Place(e), e.node.to)
                           /\ Entries(tree, spot) = {}

\* and root.Link does not follow a link at its source, and does not replace.
Linked(e, tree) == Real(tree, Tail(e.hard))
HardFits(e, tree, spot) == /\ Rooted(e.hard) /\ Tail(e.hard) # <<>>
                           /\ Resolves(tree, Front(Tail(e.hard)))
                           /\ ~Exists(tree, spot)
                           /\ Linked(e, tree) \in DOMAIN tree
                           /\ tree[Linked(e, tree)].t # "dir"
Fits(e, tree, spot) == CASE Kind(e) = "dir"  -> MkdirAll(tree, Place(e)).ok
                         [] Kind(e) = "file" -> FileFits(tree, spot)
                         [] Kind(e) = "link" -> LinkFits(e, tree, spot)
                         [] Kind(e) = "hard" -> HardFits(e, tree, spot)

Took(tree, inodes) == /\ pkg' = tree
                      /\ inode' = inodes
                      /\ read' = read + 1
                      /\ UNCHANGED bm

SkipRoot(e) == e.name = <<Package>> /\ Took(pkg, inode)

\* Mutant: a directory entry empties the directory.
ExtractFreshDir(e, tree, spot) ==
    /\ Kind(e) = "dir"
    /\ Took(With(Without(tree, Under(tree, spot)), spot, Dir),
            Without(inode, Under(pkg, spot)))

ExtractDir(e, tree, spot) ==
    /\ Kind(e) = "dir"
    /\ Took(MkdirAll(tree, Place(e)).tree, inode)

\* writeArchiveFile: a new file, or new contents for the file that is there.
ExtractFile(e, tree, spot) ==
    /\ Kind(e) = "file"
    /\ \/ /\ ~Exists(tree, spot)
          /\ Took(With(tree, spot, e.node), With(inode, spot, read + 1))
       \/ /\ Exists(tree, spot)
          /\ Took([q \in DOMAIN tree |->
                     IF q \in DOMAIN inode /\ inode[q] = inode[spot] THEN e.node ELSE tree[q]],
                  inode)

ExtractLink(e, tree, spot) ==
    /\ Kind(e) = "link"
    /\ Took(With(tree, spot, e.node), Without(inode, {spot}))

ExtractHardLink(e, tree, spot) ==
    /\ Kind(e) = "hard"
    /\ LET source == Linked(e, tree)
       IN Took(With(tree, spot, tree[source]),
               IF source \in DOMAIN inode
               THEN With(inode, spot, inode[source]) ELSE inode)

\* Whether bm takes an entry, and what it does then.
Named(e) == Rooted(e.name) /\ Place(e) # <<>> /\ Place(e) # <<MetaFile>>
Unpacks(e) ==
    /\ Named(e)
    /\ \E made \in {MkdirAll(pkg, Front(Place(e)))} :
         /\ made.ok
         /\ Reaches(made.tree, Place(e))
         /\ Fits(e, made.tree, Real(made.tree, Place(e)))

Unpack(e) ==
    /\ Unpacks(e)
    /\ \E tree \in {MkdirAll(pkg, Front(Place(e))).tree} :
       \E spot \in {Real(tree, Place(e))} :
          \/ ExtractDir(e, tree, spot) \/ ExtractFile(e, tree, spot)
          \/ ExtractLink(e, tree, spot) \/ ExtractHardLink(e, tree, spot)

\* Any error ends the extraction; what was unpacked so far is discarded later.
Refuse(e) ==
    /\ e.name # <<Package>> /\ ~Unpacks(e)
    /\ bm' = "refused"
    /\ UNCHANGED <<read, pkg, inode>>

\* Mutant: the links are not looked at again.
FinishUnchecked ==
    /\ read = Len(tar)
    /\ bm' = "accepted"
    /\ UNCHANGED <<read, pkg, inode>>

\* validateExtractedSymlinks.
Broken == {p \in DOMAIN pkg : pkg[p].t = "link" /\ ~Resolves(pkg, p)}
Finish ==
    /\ read = Len(tar)
    /\ bm' = IF Broken = {} THEN "accepted" ELSE "refused"
    /\ UNCHANGED <<read, pkg, inode>>

Extract ==
    /\ bm = "reading"
    /\ \/ /\ read < Len(tar)
          /\ \E e \in {tar[read + 1]} : SkipRoot(e) \/ Unpack(e) \/ Refuse(e)
       \/ Finish

-----------------------------------------------------------------------------
(* Every link of a package that bm accepts leads to something inside the   *)
(* package, also through other links: validateSymlink looks at one link's  *)
(* text, and a chain of links that pass may still leave (store.go          *)
(* validateExtractedSymlinks).  And everything in it is in a directory of   *)
(* the package, whatever replaced what.                                    *)
AcceptedClosed ==
    bm = "accepted" => \A p \in DOMAIN pkg : /\ Is("dir", pkg, Front(p))
                                             /\ pkg[p].t = "link" => Resolves(pkg, p)

(* A package is what its archive says, whatever the order of the entries:  *)
(* if no name occurs twice or below something that is not a directory, the  *)
(* package itself being one, each entry of an accepted archive is there as *)
(* it was written, and the only other things are directories.              *)
Names(t) == {t[i].name : i \in DOMAIN t}
Simple(t) == /\ \A i, j \in DOMAIN t : t[i].name = t[j].name => i = j
             /\ \A i, j \in DOMAIN t : IsStrictPrefix(t[i].name, t[j].name) => Kind(t[i]) = "dir"
             /\ \A i \in DOMAIN t : /\ ~IsHard(t[i])
                                    /\ t[i].name = <<Package>> => Kind(t[i]) = "dir"
Verbatim ==
    bm = "accepted" /\ Simple(tar) =>
        /\ \A i \in DOMAIN tar :
             LET p == Tail(tar[i].name) IN Exists(pkg, p) /\ Node(pkg, p) = tar[i].node
        /\ \A p \in DOMAIN pkg : <<Package>> \o p \in Names(tar) \/ Is("dir", pkg, p)
=============================================================================
