---------------------------- MODULE ArtifactTree ----------------------------
(***************************************************************************)
(* cmd/artifact: the passes that turn a package in the Nix store into a    *)
(* standalone tree and an archive (normalize.go, archive.go).              *)
(*                                                                         *)
(* "disk" is the store: the package at <<Source>>, the store paths it      *)
(* refers to, and the tree under construction at <<Out>>.  The passes are  *)
(* sequential; each works on a list made when it starts.  What a file      *)
(* contains is left to Rewritten (PortableBinary models it).               *)
(***************************************************************************)
EXTENDS FileTree

CONSTANTS Source, Out,   \* names of the package and of its output in the store
          Package,       \* the name of the artifact
          Static,        \* names that end with .a or .pyc
          Public,        \* [wrapped names -> name]: .x-wrapped is renamed to x
          Content,       \* contents of files
          Rewritten,     \* [Content -> Content \cup {Refused}]: normalizeFile
          Refused,
          Trees          \* the stores that are considered

\* What of a package nobody reads, in the order in which it is removed.
Dropped == << <<"nix-support">>, <<"share", "man">>, <<"share", "doc">>,
              <<"share", "bash-completion">> >>

ASSUME ArtifactAssumption == /\ {Source, Out, Package} \cup Static \subseteq Name
                             /\ Source # Out
                             /\ Refused \notin Content
                             /\ Rewritten \in [Content -> Content \cup {Refused}]
                             /\ Public \in [DOMAIN Public -> Name]
                             /\ \A m, n \in DOMAIN Public : Public[m] = Public[n] => m = n
                             /\ Static \cap DOMAIN Public = {}
                             /\ ToSet(Dropped) \subseteq Seq(Name \ {Out})
                             /\ \A d \in ToSet(Dropped) : Last(d) \notin DOMAIN Public

\* The package is a directory (if not, copyTree fails at once).  The output is not there
\* yet and nothing mentions it, as its name has a digest of its inputs; no link leads to
\* the store as a whole.
ASSUME TreesAssumption ==
    \A tree \in Trees :
       /\ IsTree(tree) /\ IsFiniteSet(DOMAIN tree) /\ Is("dir", tree, <<Source>>)
       /\ DOMAIN tree \subseteq Seq(Name \ {Out})
       /\ \A p \in DOMAIN tree :
            /\ tree[p].t = "file" => tree[p].c \in Content
            /\ tree[p].t = "link" => /\ tree[p].to \in Seq((Name \ {Out}) \cup {".."})
                                     /\ Resolves(tree, p) => Eval(tree, p).at # <<>>

VARIABLES disk,    \* the store
          pass,    \* the pass that is under way
          todo,    \* copy: the nodes to copy; drop: positions in Dropped; else paths
          tar      \* the archive: what was written so far

vars == <<disk, pass, todo, tar>>

Job(src, dst, active) == [src |-> src, dst |-> dst, active |-> active]
Jobs(tree, src, dst, active) ==
    {Job(q, Append(dst, Last(q)), active) : q \in Entries(tree, src)}
Files(tree) == {p \in Under(tree, <<Out>>) : tree[p].t = "file"}
Links(tree) == {p \in Under(tree, <<Out>>) : tree[p].t = "link"}

Fail == pass' = "failed" /\ todo' = {} /\ UNCHANGED <<disk, tar>>

-----------------------------------------------------------------------------
\* copyTree, copyNode: depth first, in the order of the directory.

Init == \E tree \in Trees :
    /\ disk = With(tree, <<Out>>, Dir)
    /\ pass = "copy"
    /\ todo = Jobs(tree, <<Source>>, <<Out>>, {})
    /\ tar = <<>>

Turn(j) == pass = "copy" /\ \A k \in todo : j = k \/ Before(j.dst, k.dst)
\* A relative link that stays in the package is kept, whatever it says.
Kept(j, target) == ~disk[j.src].abs /\ IsPrefix(<<Source>>, target)

CopyLink(j) ==
    /\ Turn(j) /\ disk[j.src].t = "link"
    /\ \E target \in {Eval(disk, j.src)} :
         \/ /\ target.st \in {"absent", "escape"}     \* nothing is there: skipped
            /\ todo' = todo \ {j}
            /\ UNCHANGED <<disk, pass, tar>>
         \/ target.st \in {"loop", "notdir"} /\ Fail
         \/ /\ target.st = "ok" /\ Kept(j, target.at)
            /\ disk' = With(disk, j.dst, disk[j.src])
            /\ todo' = todo \ {j}
            /\ UNCHANGED <<pass, tar>>
         \/ /\ target.st = "ok" /\ ~Kept(j, target.at)
            /\ todo' = (todo \ {j}) \cup {Job(target.at, j.dst, j.active)}
            /\ UNCHANGED <<disk, pass, tar>>

\* Mutant: a directory that is being copied is copied again.
CopyEveryDir(j) ==
    /\ Turn(j) /\ disk[j.src].t = "dir"
    /\ disk' = With(disk, j.dst, Dir)
    /\ todo' = (todo \ {j}) \cup Jobs(disk, j.src, j.dst, j.active \cup {j.src})
    /\ UNCHANGED <<pass, tar>>

CopyDir(j) ==
    /\ Turn(j) /\ disk[j.src].t = "dir"
    /\ \/ j.src \in j.active /\ Fail
       \/ /\ j.src \notin j.active
          /\ disk' = With(disk, j.dst, Dir)
          /\ todo' = (todo \ {j}) \cup Jobs(disk, j.src, j.dst, j.active \cup {j.src})
          /\ UNCHANGED <<pass, tar>>

CopyFile(j) ==
    /\ Turn(j) /\ disk[j.src].t = "file"
    /\ disk' = With(disk, j.dst, disk[j.src])
    /\ todo' = todo \ {j}
    /\ UNCHANGED <<pass, tar>>

CopyDone ==
    /\ pass = "copy" /\ todo = {}
    /\ pass' = "drop"
    /\ todo' = DOMAIN Dropped
    /\ UNCHANGED <<disk, tar>>

-----------------------------------------------------------------------------
\* normalize: the passes over the copy.

\* os.RemoveAll of what nobody reads.  What is not there is no error; what is in the
\* store, where a link may lead, cannot be removed.
Drop(i) ==
    /\ pass = "drop" /\ \A k \in todo : i <= k
    /\ LET dir == Eval(disk, <<Out>> \o Front(Dropped[i]))
           gone == IF dir.st = "ok" THEN Under(disk, Append(dir.at, Last(Dropped[i]))) ELSE {}
           stuck == \/ dir.st \in {"loop", "notdir"}
                    \/ dir.st = "ok" /\ ~Is("dir", disk, dir.at)
                    \/ \E p \in gone : p[1] # Out
       IN \/ stuck /\ Fail
          \/ /\ ~stuck
             /\ disk' = Without(disk, gone)
             /\ todo' = todo \ {i}
             /\ UNCHANGED <<pass, tar>>

\* The list of the files is made next.
DropDone ==
    /\ pass = "drop" /\ todo = {}
    /\ pass' = "prepare"
    /\ todo' = {p \in Files(disk) : Last(p) \in Static \cup DOMAIN Public}
    /\ UNCHANGED <<disk, tar>>

\* prepareFile of a static library or of bytecode.
RemoveStatic ==
    /\ pass = "prepare" /\ todo # {} /\ Last(First(todo)) \in Static
    /\ disk' = Without(disk, {First(todo)})
    /\ todo' = todo \ {First(todo)}
    /\ UNCHANGED <<pass, tar>>

\* Mutant: a wrapper that exists is kept.
UnwrapAbsent ==
    /\ pass = "prepare" /\ todo # {} /\ Last(First(todo)) \in DOMAIN Public
    /\ LET p == First(todo)
           public == Append(Front(p), Public[Last(p)])
       IN /\ disk' = IF public \in DOMAIN disk THEN Without(disk, {p})
                     ELSE With(Without(disk, {p}), public, disk[p])
          /\ todo' = todo \ {p}
    /\ UNCHANGED <<pass, tar>>

\* Mutant: a file that takes a name is not looked at again.
UnwrapOnce ==
    /\ pass = "prepare" /\ todo # {} /\ Last(First(todo)) \in DOMAIN Public
    /\ LET p == First(todo)
           public == Append(Front(p), Public[Last(p)])
       IN \/ Entries(disk, public) # {} /\ Fail
          \/ /\ Entries(disk, public) = {}
             /\ disk' = With(Without(disk, {p}), public, disk[p])
             /\ todo' = todo \ {p, public}
             /\ UNCHANGED <<pass, tar>>

\* prepareFile of a wrapped program: it takes the place of its wrapper.  os.Remove
\* refuses a directory with entries.
Unwrap ==
    /\ pass = "prepare" /\ todo # {} /\ Last(First(todo)) \in DOMAIN Public
    /\ LET p == First(todo)
           public == Append(Front(p), Public[Last(p)])
       IN \/ Entries(disk, public) # {} /\ Fail
          \/ /\ Entries(disk, public) = {}
             /\ disk' = With(Without(disk, {p}), public, disk[p])
             /\ todo' = todo \ {p}
             /\ UNCHANGED <<pass, tar>>

\* Mutant: dangling links stay.
PrepareOnly ==
    /\ pass = "prepare" /\ todo = {}
    /\ pass' = "rewrite"
    /\ UNCHANGED <<disk, todo, tar>>

PrepareDone ==
    /\ pass = "prepare" /\ todo = {}
    /\ pass' = "dangling"
    /\ todo' = Links(disk)
    /\ UNCHANGED <<disk, tar>>

\* removeDanglingSymlinks.
RemoveDangling ==
    /\ pass = "dangling" /\ todo # {}
    /\ LET p == First(todo)
           target == Eval(disk, p)
       IN \/ target.st \in {"loop", "notdir"} /\ Fail
          \/ /\ target.st \in {"absent", "escape"}
             /\ disk' = Without(disk, {p})
             /\ todo' = todo \ {p}
             /\ UNCHANGED <<pass, tar>>
          \/ /\ target.st = "ok"
             /\ todo' = todo \ {p}
             /\ UNCHANGED <<disk, pass, tar>>

DanglingDone ==
    /\ pass = "dangling" /\ todo = {}
    /\ pass' = "rewrite"
    /\ UNCHANGED <<disk, todo, tar>>

\* normalizeFile of every regular file.
Rewrite ==
    /\ pass = "rewrite"
    /\ LET files == Files(disk)
       IN \/ (\E p \in files : Rewritten[disk[p].c] = Refused) /\ Fail
          \/ /\ \A p \in files : Rewritten[disk[p].c] # Refused
             /\ disk' = [p \in DOMAIN disk |->
                            IF p \in files THEN File(Rewritten[disk[p].c]) ELSE disk[p]]
             /\ pass' = "archive"
             /\ todo' = Under(disk, <<Out>>)
             /\ UNCHANGED tar

\* Mutant: names are relative to the tree.
ArchiveBare ==
    /\ pass = "archive" /\ todo # {}
    /\ tar' = Append(tar, [name |-> Tail(First(todo)), node |-> disk[First(todo)]])
    /\ todo' = todo \ {First(todo)}
    /\ UNCHANGED <<disk, pass>>

\* createArchive: one entry per path, links as they are.
ArchiveEntry ==
    /\ pass = "archive" /\ todo # {}
    /\ LET p == First(todo)
       IN /\ tar' = Append(tar, [name |-> <<Package>> \o Tail(p), node |-> disk[p]])
          /\ todo' = todo \ {p}
    /\ UNCHANGED <<disk, pass>>

ArchiveDone ==
    /\ pass = "archive" /\ todo = {}
    /\ pass' = "done"
    /\ UNCHANGED <<disk, todo, tar>>

Next == \/ \E j \in todo : CopyLink(j) \/ CopyDir(j) \/ CopyFile(j)
        \/ CopyDone
        \/ \E i \in todo : Drop(i)
        \/ DropDone
        \/ RemoveStatic \/ Unwrap \/ PrepareDone
        \/ RemoveDangling \/ DanglingDone
        \/ Rewrite
        \/ ArchiveEntry \/ ArchiveDone
=============================================================================
