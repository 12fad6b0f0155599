------------------------------ MODULE Delivery ------------------------------
(***************************************************************************)
(* From a package in the Nix store to a package in the prefix: cmd/artifact *)
(* builds the archive (ArtifactTree), bm unpacks it elsewhere              *)
(* (BinmanExtract).  The two programs share nothing but the archive, and   *)
(* neither knows what the other checks; bm also reads archives that others  *)
(* made.                                                                   *)
(***************************************************************************)
EXTENDS ArtifactTree

CONSTANTS MetaFile,
          Archives   \* archives that artifact did not make

ASSUME ArchivesAssumption ==
    \A archive \in Archives :
       /\ archive \in Seq(ToSet(archive))
       /\ \A e \in ToSet(archive) :
            \/ DOMAIN e = {"name", "node"} /\ e.name \in Seq(Name) /\ IsNode(e.node)
            \/ DOMAIN e = {"name", "hard"} /\ {e.name, e.hard} \subseteq Seq(Name)

VARIABLES read, pkg, inode, bm

B == INSTANCE BinmanExtract

extraction == <<read, pkg, inode, bm>>
all == <<disk, pass, todo, tar, read, pkg, inode, bm>>

\* A package to be built, or an archive from elsewhere.
Foreign == disk = <<>> /\ pass = "done" /\ todo = {} /\ tar \in Archives
DInit == (Init \/ Foreign) /\ B!ExtractInit
Build == Next /\ UNCHANGED extraction
Install == pass = "done" /\ B!Extract /\ UNCHANGED vars
DNext == Build \/ Install
DSpec == DInit /\ [][DNext]_all

FromStore == disk # <<>>

-----------------------------------------------------------------------------
(* The copy of a package whose links form a circle through other store     *)
(* paths stops: a directory is never copied inside a copy of itself        *)
(* (copyNode, activeDirectories), so the copy is no deeper than there are   *)
(* directories.                                                            *)
CopyBounded ==
    pass = "copy" => \A j \in todo :
        Len(j.dst) <= 2 + Cardinality({p \in DOMAIN disk : disk[p].t = "dir" /\ p[1] # Out})

(* Whatever the package contains, what is archived has been through every   *)
(* pass: everything is in a directory of the copy, no link dangles, every   *)
(* file was rewritten, and there is no static library and no hidden         *)
(* program, unless it was given that name in the place of its wrapper       *)
(* (normalize, in the order of its passes).  A relative link may still name *)
(* the package, and so lead back to the store: see Anchored.                *)
Built == {p \in DOMAIN disk : IsStrictPrefix(<<Out>>, p)}
Taken == {Public[n] : n \in DOMAIN Public}
SelfContained ==
    pass = "done" => \A p \in Built :
        /\ Is("dir", disk, Front(p))
        /\ disk[p].t = "link" => Resolves(disk, p)
        /\ disk[p].t = "file" => /\ \E c \in Content : disk[p].c = Rewritten[c]
                                 /\ Last(p) \notin (Static \cup DOMAIN Public) \ Taken

\* Where a program was wrapped twice, the wrapper in between is a file and is listed
\* after what it hides (a name sorts behind the same name with one more dot).
Wrapper(p) == Append(Front(p), Public[Last(p)])
Paired(tree) ==
    \A p \in DOMAIN tree :
        p[1] # Out /\ Last(p) \in DOMAIN Public /\ Public[Last(p)] \in DOMAIN Public =>
            /\ Is("file", tree, Wrapper(p))
            /\ Rank[Last(p)] < Rank[Public[Last(p)]]

(* A program that was wrapped twice is hidden by neither wrapper: files are *)
(* renamed in the order of a list that still has the old names (prepareFile *)
(* of normalize).                                                          *)
NothingHidden ==
    pass = "done" /\ Paired(disk) =>
        \A p \in Built : disk[p].t = "file" => Last(p) \notin DOMAIN Public

-----------------------------------------------------------------------------
\* Packages whose links mean the same in the copy: a link that leads into the package
\* is one of its own, relative, and does so within the package, through links of this
\* kind and by its text too (the hook make-symlinks-relative of nixpkgs leaves packages
\* like this); or it is absolute, and what is copied in its place has no link in it.

InSource(p) == <<Source>> \o p
Keeps(tree, r) == /\ ~tree[r].abs
                  /\ Resolves(tree, r) /\ IsPrefix(<<Source>>, Eval(tree, r).at)
Own(tree) == [p \in {Tail(q) : q \in {r \in DOMAIN tree : /\ IsStrictPrefix(<<Source>>, r)
                                                          /\ tree[r].t = "link" => Keeps(tree, r)}}
                |-> tree[InSource(p)]]
Linkless(tree, p) == \A q \in Under(tree, p) : tree[q].t # "link"
Anchored(tree) ==
    \A p \in DOMAIN tree : tree[p].t = "link" /\ p[1] # Out /\ Resolves(tree, p) =>
        \/ Eval(tree, p).at[1] # Source
        \/ tree[p].abs /\ Linkless(tree, Eval(tree, p).at)
        \/ /\ p[1] = Source /\ ~tree[p].abs
           /\ ~B!Escapes(Tail(p), tree[p].to)
           /\ Resolves(Own(tree), Tail(p))

\* Nothing in the package has the name of bm's own file, or gets it.
Unreserved(tree) ==
    \A p \in Entries(tree, <<Source>>) :
        /\ Last(p) # MetaFile
        /\ Last(p) \in DOMAIN Public => Public[Last(p)] # MetaFile
\* The bound of the model cuts no path off.
Shallow(tree) == \A p \in DOMAIN tree : Len(p) <= MaxWalk

(* bm does not refuse what artifact makes: createArchive writes parents     *)
(* first and under one name, and the links it keeps pass validateSymlink    *)
(* and the look at every link.                                             *)
NeverRefused ==
    bm = "refused" /\ FromStore => ~(Anchored(disk) /\ Unreserved(disk) /\ Shallow(disk))

-----------------------------------------------------------------------------
\* What an installation should have at a path of the package: the file the path
\* leads to in the store, as far as normalize leaves it, or the program that file is
\* the wrapper of.

Hidden(tree, r, p) == Last(r) \in DOMAIN Public /\ Wrapper(r) = p /\ tree[r].t = "file"
HiddenBy(tree, p) == {r \in DOMAIN tree : Hidden(tree, r, p)}
Program(p) ==
    LET once == HiddenBy(disk, p)
        twice == UNION {HiddenBy(disk, r) : r \in once}
    IN IF twice # {} THEN CHOOSE r \in twice : TRUE
       ELSE IF once # {} THEN CHOOSE r \in once : TRUE ELSE p

Unread == UNION {Under(disk, Append(Eval(disk, InSource(Front(d))).at, Last(d))) :
                   d \in {e \in ToSet(Dropped) : Resolves(disk, InSource(Front(e)))}}
Left == Without(disk, Unread \cup {p \in DOMAIN disk : /\ Last(p) \in Static \cup DOMAIN Public
                                                      /\ disk[p].t # "dir"})
Wanted(left, p) == /\ Resolves(left, InSource(p))
                   /\ Is("file", left, Eval(left, InSource(p)).at)
Expected(left, p) == Rewritten[disk[Program(Eval(left, InSource(p)).at)].c]

\* Wrappers are files, and what they hide are files; there are two at most.  No link
\* that is copied as what it leads to leads to a wrapper: the copy would have it alone.
Wrapped(tree) ==
    \A p \in DOMAIN tree : p[1] # Out =>
        /\ Last(p) \in DOMAIN Public =>
             /\ tree[p].t # "link"
             /\ Wrapper(p) \in DOMAIN tree => tree[Wrapper(p)].t = "file"
             /\ Public[Last(p)] \in DOMAIN Public => Public[Public[Last(p)]] \notin DOMAIN Public
        /\ tree[p].t = "link" /\ Resolves(tree, p) /\ ~Keeps(tree, p) =>
             HiddenBy(tree, Eval(tree, p).at) = {}

\* The paths that are looked at: nothing in a package mentions the output.
Paths == ({Tail(p) : p \in DOMAIN disk} \cup
          UNION {{Tail(l) \o Tail(p) : p \in DOMAIN disk} :
                 l \in {q \in DOMAIN disk : q[1] = Source /\ disk[q].t = "link"}})
         \cap Seq(Name \ {Out})

(* Every file of an Anchored, Paired and Wrapped package is installed where *)
(* the package has it, also through links and in other store paths, with    *)
(* its contents rewritten and programs in the place of their wrappers; only *)
(* what normalize removes is missing.  Copying, renaming and removing       *)
(* dangling links depend on each other's order, and on what the links mean  *)
(* after the copy.  (Of packages that are not, less is true: see README.)   *)
Delivered ==
    bm = "accepted" /\ Anchored(disk) /\ Paired(disk) /\ Wrapped(disk) =>
        LET left == Left
        IN \A p \in Paths \ {<<>>} : Wanted(left, p) =>
              /\ Resolves(pkg, p)
              /\ pkg[Eval(pkg, p).at] = File(Expected(left, p))

(* What bm accepts, whoever made it: see BinmanExtract.                     *)
AcceptedClosed == B!AcceptedClosed
Verbatim == B!Verbatim
=============================================================================
