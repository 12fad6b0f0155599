------------------------- MODULE BinmanStoreProofs -------------------------
(***************************************************************************)
(* Proofs about BinmanStore: whatever packages, plans and prefixes, the    *)
(* symlinks of the user among what is in them, however many commands run,  *)
(* and wherever they fail or are killed.                                   *)
(*                                                                         *)
(* The invariants are not inductive alone.  A link is made, and a store is *)
(* replaced, on the strength of what the command that holds the lock did   *)
(* before; CommandInv records what that is at each point of the command,   *)
(* and the lock is why no other command can spoil it.  And a link is found *)
(* again, where it was put, because all that stands in the prefix stands   *)
(* in directories (Standing): no symlink can have come between.            *)
(*                                                                         *)
(* The last part is about the plan that an install is given (BinmanPlan).  *)
(***************************************************************************)
EXTENDS BinmanStore, BinmanPlan, SequenceTheorems, TLAPS

\* Whatever stands in the prefix stands in directories.
Standing == \A l \in Loc : prefix[l] # Absent => Reachable(l)

\* Something was written into the store of a package only through a symlink.
AlienAstray == \A p \in Pkg : store[p].alien => p \in astray

\* No link that must be as planned leads to p: it may be renamed away, replaced
\* or deleted.
NoLinks(p) == p \in astray \/ \A l \in Loc : IsLink(prefix[l]) => prefix[l].pkg # p

\* The store of p is as the plan wants it: p may be linked.
Ready(c, p) == /\ store[p].present
               /\ ~Unreadable(p)
               /\ store[p].roots = LinkTo(c, p)

\* Check passed p, and its store has not been touched since.
Passed(c, p) == /\ c.meta[p] = store[p]
                /\ p \notin c.changed =>
                     /\ store[p].present
                     /\ c.install => store[p].digest = c.art[p]

CompletePackage(p, e) == e.present /\ ~e.alien => /\ e.digest # NoDigest
                                                  /\ e.files = Content[p][e.digest]

Working == {"unlink", "swap", "put", "removing"}
Linking == {"link", "files", "place"}

PlanInv(c) == /\ c.install => /\ c.art \in [Pkg -> Digest]
                              /\ \A i \in DOMAIN c.ops : c.ops[i].pkg \in c.pkgs
              /\ ~c.install => c.changed = {}

JobInv(c) == /\ c.todo \subseteq c.pkgs
             /\ c.meta \in [Pkg -> Package]
             /\ \A p \in c.todo : Passed(c, p)
             /\ c.pc \in Working => \E p \in c.pkgs \ c.todo : c.cur = {p}
             /\ c.install => \A p \in c.pkgs \ c.todo :
                               (p \in c.cur /\ c.pc \in Working) \/ Ready(c, p)

CurInv(c) ==
    /\ c.pc \in {"unlink", "swap"} => \A p \in c.cur : Passed(c, p)
    /\ c.pc \in {"swap", "put", "removing"} => \A p \in c.cur : NoLinks(p)
    /\ c.pc = "put" => \A p \in c.cur : /\ p \in torn \/ CompletePackage(p, c.backup)
                                        /\ c.backup.alien => p \in astray

\* The files that are left are files of the package at hand, and leaves of it
\* unless something was written into its store.
LeftInv(c, p) == /\ c.k \in DOMAIN c.ops
                 /\ c.left \subseteq UnlinkFiles(p)
                 /\ p \in astray \/ c.left \subseteq LinkFiles(p)

LinkInv(c) ==
    /\ c.pc \in Linking => \A p \in c.pkgs : Ready(c, p)
    /\ c.pc \in {"files", "place"} => LeftInv(c, c.ops[c.k].pkg)

CommandInv(c) ==
    /\ c.pc # "idle" => PlanInv(c)
    /\ c.pc \in {"read", "swap", "put"} \union Linking => c.install
    /\ c.pc = "removing" => ~c.install
    /\ c.pc \in {"job"} \union Working => JobInv(c)
    /\ CurInv(c)
    /\ LinkInv(c)

Inv == /\ TypeOK
       /\ Standing
       /\ AlienAstray
       /\ NoOrphanLinks
       /\ Complete
       /\ \A s \in Proc : CommandInv(cmd[s])

-----------------------------------------------------------------------------
\* What stands at a path, told apart.
LEMMA LinkFacts ==
    /\ \A p, f, n : /\ IsLink(Link(p, f, n)) /\ Link(p, f, n).pkg = p
                    /\ Link(p, f, n).file = f /\ Link(p, f, n).up = n
    /\ \A e \in {Absent, Directory, Foreign} : ~IsSymlink(e) /\ ~IsLink(e)
    /\ \A e \in UserLinks : IsSymlink(e) /\ ~IsLink(e)
    /\ \A e \in Links : IsLink(e) /\ \E p \in Pkg, f \in File, l \in Loc : e = Link(p, f, Up[l])
    /\ \A e : IsLink(e) => IsSymlink(e)
    /\ Absent # Directory
    /\ \A p \in Pkg, f \in File, l \in Loc : Link(p, f, Up[l]) \in Links
  <1>1. \A p, f, n : /\ IsLink(Link(p, f, n)) /\ Link(p, f, n).pkg = p
                     /\ Link(p, f, n).file = f /\ Link(p, f, n).up = n
    BY DEF Link, IsLink
  <1>2. \A e \in {Absent, Directory, Foreign} : ~IsSymlink(e) /\ ~IsLink(e)
    BY DEF IsLink, IsSymlink, Absent, Directory, Foreign
  <1>3. \A e \in UserLinks : IsSymlink(e) /\ ~IsLink(e)
    BY DEF IsLink, IsSymlink, UserLinks, UserLink
  <1>4. \A e \in Links : IsLink(e) /\ \E p \in Pkg, f \in File, l \in Loc : e = Link(p, f, Up[l])
    BY <1>1 DEF Links
  <1>5. \A e : IsLink(e) => IsSymlink(e)
    BY DEF IsLink, IsSymlink
  <1>6. Absent # Directory
    BY DEF Absent, Directory
  <1>7. \A p \in Pkg, f \in File, l \in Loc : Link(p, f, Up[l]) \in Links
    BY DEF Links
  <1> QED BY <1>1, <1>2, <1>3, <1>4, <1>5, <1>6, <1>7

\* A link that stands at a path is that of a file of a package.
LEMMA LinkAt ==
    ASSUME TypeOK, NEW l \in Loc, IsLink(prefix[l])
    PROVE  /\ prefix[l] # Absent
           /\ prefix[l].pkg \in Pkg /\ prefix[l].file \in File
           /\ prefix[l] = Link(prefix[l].pkg, prefix[l].file, prefix[l].up)
  <1>1. prefix[l] \in Links
    BY LinkFacts DEF TypeOK, Entry
  <1> QED BY <1>1, LinkFacts

\* The text of a link is one that may stand at a path.
LEMMA TextFacts ==
    ASSUME NEW p \in Pkg, NEW r \in Root, NEW f \in File
    PROVE  /\ Dest[r][f] \in Loc
           /\ Text(p, r, f) \in Entry
           /\ IsLink(Text(p, r, f)) /\ Text(p, r, f).pkg = p /\ Text(p, r, f).file = f
           /\ Text(p, r, f).up = Up[Dest[r][f]]
  <1>1. Dest[r][f] \in Loc
    BY StoreAssumption
  <1>2. Text(p, r, f) = Link(p, f, Up[Dest[r][f]])
    BY DEF Text
  <1>3. Text(p, r, f) \in Links
    BY <1>1, <1>2, LinkFacts
  <1>4. Text(p, r, f) \in Entry
    BY <1>3 DEF Entry
  <1>5. \A n : /\ IsLink(Link(p, f, n)) /\ Link(p, f, n).pkg = p
                /\ Link(p, f, n).file = f /\ Link(p, f, n).up = n
    BY LinkFacts
  <1> QED BY <1>1, <1>2, <1>4, <1>5

\* What stands at l is found at l.
LEMMA Found ==
    ASSUME Standing, NEW l \in Loc, prefix[l] # Absent
    PROVE  Place(l) = At(l)
  <1>1. Reachable(l)
    BY DEF Standing
  <1>2. Turns(l) = {}
    BY <1>1, LinkFacts DEF Reachable, Turns
  <1> QED BY <1>2 DEF Place

\* Directories stay, and what appears appears in directories.
LEMMA StandingChange ==
    ASSUME TypeOK, Standing, NEW l \in Loc, NEW e, prefix' = [prefix EXCEPT ![l] = e],
           prefix[l] # Directory, e = Absent \/ Reachable(l)
    PROVE  Standing'
  <1> SUFFICES ASSUME NEW m \in Loc, prefix'[m] # Absent
               PROVE  \A a \in Above[m] : prefix'[a] = Directory
    BY DEF Standing, Reachable
  <1>1. prefix'[l] = e /\ \A x \in Loc : x # l => prefix'[x] = prefix[x]
    BY DEF TypeOK
  <1>2. Reachable(m)
    BY <1>1 DEF Standing
  <1>3. Above[m] \subseteq Loc
    BY StoreAssumption
  <1> QED BY <1>1, <1>2, <1>3 DEF Reachable

\* A command that has ended, and a package that is not installed, are typed.
LEMMA IdleType == Idle \in Command /\ Idle.pc = "idle" /\ NoPackage \in Package
  <1>1. NoPackage \in Package
    BY DEF NoPackage, Package, NoDigest
  <1>2. <<>> \in Seq(Operation)
    OBVIOUS
  <1> QED BY <1>1, <1>2 DEF Idle, Command, Unlocked

\* A command that goes on keeps its side of the lock.
LEMMA GotoType ==
    ASSUME TypeOK, NEW self \in Proc, NEW c \in Command, Goto(self, c),
           c.pc \in Locked <=> cmd[self].pc \in Locked, UNCHANGED holder
    PROVE  /\ cmd' \in [Proc -> Command]
           /\ \A s \in Proc : cmd'[s].pc \in Locked <=> holder' = s
           /\ holder' \in Proc \union {NoOne}
  BY DEF TypeOK, Goto

\* A command that returns holds the lock no longer.
LEMMA ReturnType ==
    ASSUME TypeOK, NEW self \in Proc, Return(self)
    PROVE  /\ cmd' \in [Proc -> Command]
           /\ \A s \in Proc : cmd'[s].pc \in Locked <=> holder' = s
           /\ holder' \in Proc \union {NoOne}
  BY IdleType, StoreAssumption DEF TypeOK, Return, Locked

\* The parts of TypeOK that are not about commands.
DiskType == /\ prefix \in [Loc -> Entry]
            /\ store \in [Pkg -> Package]
            /\ commands \in Nat
            /\ aborts \in Nat
            /\ torn \in SUBSET Pkg
            /\ astray \in SUBSET Pkg

CommandType == /\ cmd \in [Proc -> Command]
               /\ \A s \in Proc : cmd[s].pc \in Locked <=> holder = s
               /\ holder \in Proc \union {NoOne}

\* The type invariant is the conjunction of the two.
LEMMA TypeParts == DiskType /\ CommandType <=> TypeOK
  BY DEF TypeOK, DiskType, CommandType

\* The same in the next state.
LEMMA TypePartsNext == DiskType' /\ CommandType' => TypeOK'
  BY DEF TypeOK, DiskType, CommandType

\* Before the lock, types are preserved.
LEMMA PrepareType ==
    ASSUME TypeOK, NEW self \in Proc, Start(self) \/ Prepare(self)
    PROVE  TypeOK'
  <1>0. DiskType'
    <2>1. UNCHANGED <<prefix, store, aborts, torn, astray>>
      BY DEF Start, Prepare, StartInstall, StartRemove, ReadMetadata, Stage, Lock,
             Check, disk, bounds, history
    <2>2. commands' = commands \/ commands' = commands + 1
      BY DEF Start, Prepare, StartInstall, StartRemove, ReadMetadata, Stage, Lock,
             Check, disk, bounds
    <2> QED BY <2>1, <2>2 DEF TypeOK, DiskType
  <1> DEFINE c == cmd[self]
  <1>c. c \in Command
    BY DEF TypeOK
  <1>1. ASSUME NEW wanted \in Plan, NEW d \in [Pkg -> Digest], StartInstall(self, wanted, d)
        PROVE  CommandType'
    <2>1. wanted.pkgs \in SUBSET Pkg /\ wanted.ops \in Seq(Operation)
      BY StoreAssumption
    <2>2. [Idle EXCEPT !.pc = "read", !.install = TRUE, !.pkgs = wanted.pkgs,
                       !.ops = wanted.ops, !.art = d, !.todo = wanted.pkgs]
            \in Command
      BY <2>1, IdleType DEF Command, Unlocked
    <2> QED BY <1>1, <1>c, <2>2, GotoType, IdleType
            DEF StartInstall, CommandType, Locked, Command
  <1>2. ASSUME NEW names \in SUBSET Pkg, StartRemove(self, names) PROVE CommandType'
    <2>1. [Idle EXCEPT !.pc = "ready", !.pkgs = names] \in Command
      BY IdleType DEF Command, Unlocked
    <2> QED BY <1>2, <1>c, <2>1, GotoType, IdleType
            DEF StartRemove, CommandType, Locked, Command
  <1>3. ASSUME NEW p \in Pkg, ReadMetadata(self, p) PROVE CommandType'
    <2>1. CASE Unreadable(p)
      BY <1>3, <2>1, ReturnType DEF ReadMetadata, CommandType
    <2>2. CASE ~Unreadable(p)
      <3>1. PICK ch \in SUBSET Pkg :
              Goto(self, [c EXCEPT !.todo = @ \ {p}, !.changed = ch])
        BY <1>3, <1>c, <2>2 DEF ReadMetadata, Command
      <3>2. [c EXCEPT !.todo = @ \ {p}, !.changed = ch] \in Command
        BY <1>c DEF Command
      <3> QED BY <1>3, <1>c, <2>2, <3>1, <3>2, GotoType
              DEF ReadMetadata, CommandType, Command
    <2> QED BY <2>1, <2>2
  <1>4. ASSUME Stage(self) PROVE CommandType'
    <2>1. [c EXCEPT !.pc = "ready"] \in Command
      BY <1>c DEF Command, Unlocked
    <2> QED BY <1>4, <1>c, <2>1, GotoType DEF Stage, CommandType, Locked, Command
  <1>5. ASSUME Lock(self) PROVE CommandType'
    <2>1. [c EXCEPT !.pc = "check"] \in Command
      BY <1>c DEF Command, Locked
    <2> QED BY <1>5, <1>c, <2>1, StoreAssumption
            DEF Lock, Goto, CommandType, TypeOK, Command, Locked
  <1>6. ASSUME Check(self) PROVE CommandType'
    <2>1. CASE Return(self)
      BY <2>1, ReturnType DEF CommandType
    <2>2. CASE Goto(self, [c EXCEPT !.pc = "job", !.todo = c.pkgs, !.meta = store])
               /\ UNCHANGED holder
      <3>1. [c EXCEPT !.pc = "job", !.todo = c.pkgs, !.meta = store] \in Command
        BY <1>c DEF Command, Locked, TypeOK
      <3> QED BY <1>6, <1>c, <2>2, <3>1, GotoType DEF Check, CommandType, Locked, Command
    <2> QED BY <1>6, <2>1, <2>2 DEF Check
  <1> QED BY <1>0, <1>1, <1>2, <1>3, <1>4, <1>5, <1>6, TypePartsNext DEF Start, Prepare

\* A step that goes on with a command of the right shape, on the same side of
\* the lock, preserves the types if what it does to the disk does.
LEMMA StepType ==
    ASSUME TypeOK, NEW self \in Proc, NEW c \in Command, Goto(self, c),
           c.pc \in Locked <=> cmd[self].pc \in Locked, UNCHANGED holder,
           DiskType'
    PROVE  TypeOK'
  BY GotoType, TypePartsNext DEF CommandType

\* The targets and operations of a command are typed.
LEMMA PlanTypes ==
    ASSUME NEW c \in Command, NEW p
    PROVE  /\ LinkTo(c, p) \in SUBSET Root
           /\ \A i \in DOMAIN c.ops : c.ops[i] \in Operation
  <1>1. \A i \in DOMAIN c.ops : c.ops[i] \in Operation
    BY DEF Command
  <1> QED BY <1>1 DEF LinkTo, Operation

\* The artifact that is put in place is a package.
LEMMA StagedType ==
    ASSUME NEW c \in Command, NEW p \in Pkg, c.art \in [Pkg -> Digest]
    PROVE  Staged(c, p) \in Package
  <1>1. c.art[p] \in Digest
    OBVIOUS
  <1>2. Content[p][c.art[p]] \in SUBSET File
    BY <1>1, StoreAssumption
  <1> QED BY <1>1, <1>2, PlanTypes DEF Staged, Package

\* A job, from the one before it.
Job(self, p) == NextJob(self, p) \/ DoJob(self, p)

\* Unlinking and replacing packages preserves the types.
LEMMA JobType ==
    ASSUME Inv, NEW self \in Proc, NEW p \in Pkg, Job(self, p)
    PROVE  TypeOK'
  <1> DEFINE c == cmd[self]
  <1>t. TypeOK /\ c \in Command
    BY DEF Inv, TypeOK
  <1>a. ASSUME c.install, c.pc # "idle" PROVE c.art \in [Pkg -> Digest]
    BY <1>a DEF Inv, CommandInv, PlanInv
  <1>1. ASSUME NextJob(self, p) PROVE TypeOK'
    <2>1. PICK pc \in {"unlink", "swap"} :
            Goto(self, [c EXCEPT !.todo = @ \ {p}, !.cur = {p}, !.pc = pc])
      BY <1>1 DEF NextJob
    <2>2. [c EXCEPT !.todo = @ \ {p}, !.cur = {p}, !.pc = pc] \in Command
      BY <1>t DEF Command, Locked
    <2>3. DiskType'
      BY <1>1, <1>t DEF NextJob, TypeOK, DiskType, disk, bounds, history
    <2> QED BY <1>1, <1>t, <2>1, <2>2, <2>3, StepType DEF NextJob, Locked, Command
  <1>2. ASSUME NEW r, NEW f, NEW l \in Loc, Unlink(self, p, r, f, l) PROVE TypeOK'
    <2>1. Absent \in Entry
      BY DEF Entry
    <2> QED BY <1>2, <1>t, <2>1 DEF Unlink, TypeOK, bounds, history
  <1>3. ASSUME BackUp(self, p) PROVE TypeOK'
    <2>1. [c EXCEPT !.pc = "put", !.backup = store[p]] \in Command
      BY <1>t DEF Command, Locked, TypeOK
    <2>2. DiskType'
      BY <1>3, <1>t, IdleType DEF BackUp, TypeOK, DiskType, bounds, history
    <2> QED BY <1>3, <1>t, <2>1, <2>2, StepType DEF BackUp, Locked, Command
  <1>4. ASSUME Put(self, p) PROVE TypeOK'
    <2>1. [c EXCEPT !.pc = "job", !.backup = NoPackage] \in Command
      BY <1>t, IdleType DEF Command, Locked
    <2>2. c.install
      BY <1>4 DEF Put, Inv, CommandInv
    <2>3. Staged(c, p) \in Package
      BY <1>4, <1>a, <1>t, <2>2, StagedType DEF Put
    <2>4. DiskType'
      BY <1>4, <1>t, <2>3 DEF Put, TypeOK, DiskType, bounds, history
    <2> QED BY <1>4, <1>t, <2>1, <2>4, StepType DEF Put, Locked, Command
  <1>5. ASSUME WriteMetadata(self, p) PROVE TypeOK'
    <2>1. [c EXCEPT !.pc = "job"] \in Command
      BY <1>t DEF Command, Locked
    <2>2. c.install
      BY <1>5 DEF WriteMetadata, Inv, CommandInv
    <2>3. c.art[p] \in Digest /\ LinkTo(c, p) \in SUBSET Root
      BY <1>5, <1>a, <1>t, <2>2, PlanTypes DEF WriteMetadata
    <2>4. store' \in [Pkg -> Package]
      BY <1>5, <1>t, <2>3 DEF WriteMetadata, TypeOK, Package
    <2>5. DiskType'
      BY <1>5, <1>t, <2>4 DEF WriteMetadata, TypeOK, DiskType, bounds, history
    <2> QED BY <1>5, <1>t, <2>1, <2>5, StepType DEF WriteMetadata, Locked, Command
  <1>6. ASSUME NEW files \in SUBSET File, NEW keepMeta \in BOOLEAN,
               RemoveSome(self, p, files, keepMeta)
        PROVE  TypeOK'
    <2>1. [store[p] EXCEPT !.files = files] \in Package
      BY <1>t DEF TypeOK, Package
    <2>2. [store[p] EXCEPT !.files = files, !.digest = NoDigest, !.roots = {}]
            \in Package
      BY <1>t DEF TypeOK, Package
    <2>3. store' \in [Pkg -> Package]
      BY <1>6, <1>t, <2>1, <2>2 DEF RemoveSome, TypeOK
    <2> QED BY <1>6, <1>t, <2>3 DEF RemoveSome, TypeOK, bounds, history
  <1>7. ASSUME Removed(self, p) PROVE TypeOK'
    <2>1. [c EXCEPT !.pc = "job"] \in Command
      BY <1>t DEF Command, Locked
    <2>2. DiskType'
      BY <1>7, <1>t, IdleType DEF Removed, TypeOK, DiskType, bounds, history
    <2> QED BY <1>7, <1>t, <2>1, <2>2, StepType DEF Removed, Locked, Command
  <1> QED BY <1>1, <1>2, <1>3, <1>4, <1>5, <1>6, <1>7 DEF Job, DoJob

\* Linking preserves the types.
LEMMA LinkType ==
    ASSUME Inv, NEW self \in Proc, NEW p \in Pkg, NEW r \in Root,
           LinkPackage(self, p, r)
    PROVE  TypeOK'
  <1> DEFINE c == cmd[self]
  <1>t. TypeOK /\ c \in Command /\ c.left \subseteq File
    BY DEF Inv, TypeOK, Command
  <1>l. c.pc \in Linking /\ c.pc \in Locked
    BY DEF LinkPackage, AtOperation, Linking, Locked
  <1>1. ASSUME ListFiles(self, p) PROVE TypeOK'
    <2>1. PICK files \in SUBSET UnlinkFiles(p) :
            Goto(self, [c EXCEPT !.pc = "files", !.left = files])
      BY <1>1 DEF ListFiles, LinkFiles, UnlinkFiles
    <2>2. files \subseteq File
      BY <1>t DEF UnlinkFiles, TypeOK, Package
    <2>3. [c EXCEPT !.pc = "files", !.left = files] \in Command
      BY <1>t, <2>2 DEF Command, Locked
    <2>4. DiskType' /\ UNCHANGED holder
      BY <1>1, <1>t DEF ListFiles, TypeOK, DiskType, disk, bounds, history
    <2>5. [c EXCEPT !.pc = "files", !.left = files].pc = "files"
      BY <1>t DEF Command
    <2> QED BY <1>t, <1>l, <2>1, <2>3, <2>4, <2>5, StepType DEF Locked
  <1>2. ASSUME ListFails(self, p) \/ LinkFails(self, r) PROVE TypeOK'
    BY <1>2, <1>t, ReturnType DEF ListFails, LinkFails, TypeOK, disk, bounds, history
  <1>3. ASSUME NEW l \in Loc, MakeDir(self, r, l) PROVE TypeOK'
    <2>1. Directory \in Entry
      BY DEF Entry
    <2> QED BY <1>3, <1>t, <2>1 DEF MakeDir, TypeOK, bounds, history
  <1>4. ASSUME NEW f \in c.left, Linked(self, f), UNCHANGED holder, DiskType' PROVE TypeOK'
    <2>1. [c EXCEPT !.pc = "files", !.left = @ \ {f}, !.file = {}] \in Command
      BY <1>t DEF Command, Locked
    <2>2. [c EXCEPT !.pc = "files", !.left = @ \ {f}, !.file = {}].pc = "files"
      BY <1>t DEF Command
    <2> QED BY <1>4, <1>t, <1>l, <2>1, <2>2, StepType DEF Linked, Locked
  <1>5. ASSUME NEW f \in c.left, NEW l \in Loc,
               LinkFile(self, p, r, f, l) \/ KeepLink(self, p, r, f, l)
        PROVE  TypeOK'
    <2>1. Text(p, r, f) \in Entry
      BY <1>t, TextFacts
    <2>2. DiskType'
      BY <1>5, <1>t, <2>1
         DEF LinkFile, KeepLink, Strays, TypeOK, DiskType, disk, bounds
    <2> QED BY <1>4, <1>5, <2>2 DEF LinkFile, KeepLink
  <1>6. ASSUME NEW f \in c.left, NEW l \in Loc, RemoveStale(self, p, r, f, l)
        PROVE  TypeOK'
    <2>1. [c EXCEPT !.pc = "place", !.file = {f}] \in Command
      BY <1>t DEF Command, Locked
    <2>2. Absent \in Entry
      BY DEF Entry
    <2>3. DiskType'
      BY <1>6, <1>t, <2>2 DEF RemoveStale, Strays, TypeOK, DiskType, bounds
    <2>4. [c EXCEPT !.pc = "place", !.file = {f}].pc = "place"
      BY <1>t DEF Command
    <2> QED BY <1>6, <1>t, <1>l, <2>1, <2>3, <2>4, StepType DEF RemoveStale, Locked
  <1>7. ASSUME NEW f \in c.left, NEW q \in Pkg, NEW g \in File,
               LinkInStore(self, p, f, q, g)
        PROVE  TypeOK'
    <2>1. store' \in [Pkg -> Package]
      BY <1>7, <1>t DEF LinkInStore, TypeOK, Package
    <2>2. DiskType'
      BY <1>7, <1>t, <2>1 DEF LinkInStore, TypeOK, DiskType, bounds
    <2> QED BY <1>4, <1>7, <2>2 DEF LinkInStore
  <1>8. ASSUME NEW f \in c.left, LinkElsewhere(self, p, f) PROVE TypeOK'
    <2>1. DiskType'
      BY <1>8, <1>t DEF LinkElsewhere, TypeOK, DiskType, disk, bounds
    <2> QED BY <1>4, <1>8, <2>1 DEF LinkElsewhere
  <1>9. ASSUME NextOperation(self, r) PROVE TypeOK'
    <2>1. [c EXCEPT !.pc = "link", !.k = @ + 1] \in Command
      <3>1. c.k + 1 \in Nat \ {0}
        BY <1>t DEF Command
      <3> QED BY <1>t, <3>1 DEF Command, Locked
    <2>2. DiskType' /\ UNCHANGED holder
      BY <1>9, <1>t DEF NextOperation, TypeOK, DiskType, disk, bounds, history
    <2>3. [c EXCEPT !.pc = "link", !.k = @ + 1].pc = "link"
      BY <1>t DEF Command
    <2> QED BY <1>9, <1>t, <1>l, <2>1, <2>2, <2>3, StepType DEF NextOperation, Locked
  <1> QED BY <1>1, <1>2, <1>3, <1>5, <1>6, <1>7, <1>8, <1>9 DEF LinkPackage, LinkOne

\* The remaining steps of a command preserve the types.
LEMMA OtherType ==
    ASSUME Inv, NEW self \in Proc,
           \/ UnlinkFails(self) \/ Unlinked(self) \/ JobsDone(self)
           \/ LinksDone(self) \/ Unlock(self) \/ Abort(self)
           \/ \E p \in cmd[self].cur : PutBack(self, p)
    PROVE  TypeOK'
  <1> DEFINE c == cmd[self]
  <1>t. TypeOK /\ c \in Command
    BY DEF Inv, TypeOK
  <1>1. ASSUME UnlinkFails(self) \/ Unlock(self) \/ Abort(self) PROVE TypeOK'
    <2>1. CommandType'
      BY <1>1, <1>t, ReturnType DEF UnlinkFails, Unlock, Abort, CommandType
    <2>2. DiskType'
      BY <1>1, <1>t DEF UnlinkFails, Unlock, Abort, TypeOK, DiskType, disk, bounds,
                 history
    <2> QED BY <2>1, <2>2, TypePartsNext
  <1>2. ASSUME Unlinked(self) \/ JobsDone(self) \/ LinksDone(self) PROVE TypeOK'
    <2>1. PICK d \in {c.cur, {}}, pc \in {"swap", "removing", "link", "done"} :
            Goto(self, [c EXCEPT !.cur = d, !.pc = pc])
      <3>1. c = [c EXCEPT !.cur = c.cur]
        BY <1>t DEF Command
      <3>2. CASE Unlinked(self)
        <4>1. PICK pc \in {"swap", "removing"} : Goto(self, [c EXCEPT !.pc = pc])
          BY <3>2 DEF Unlinked
        <4>2. [c EXCEPT !.pc = pc] = [c EXCEPT !.cur = c.cur, !.pc = pc]
          BY <1>t DEF Command
        <4> QED BY <4>1, <4>2
      <3>3. CASE JobsDone(self)
        BY <3>3 DEF JobsDone
      <3>4. CASE LinksDone(self)
        <4>1. [c EXCEPT !.pc = "done"] = [c EXCEPT !.cur = c.cur, !.pc = "done"]
          BY <1>t DEF Command
        <4> QED BY <3>4, <4>1 DEF LinksDone
      <3> QED BY <1>2, <3>2, <3>3, <3>4
    <2>2. [c EXCEPT !.cur = d, !.pc = pc] \in Command
      BY <1>t DEF Command, Locked
    <2>3. DiskType' /\ UNCHANGED holder /\ c.pc \in Locked
      BY <1>2, <1>t DEF Unlinked, JobsDone, LinksDone, TypeOK, DiskType, disk, bounds,
                        history, Locked
    <2>4. [c EXCEPT !.cur = d, !.pc = pc].pc \in Locked
      BY <1>t DEF Command, Locked
    <2> QED BY <1>t, <2>1, <2>2, <2>3, <2>4, StepType
  <1>3. ASSUME NEW p \in c.cur, PutBack(self, p) PROVE TypeOK'
    <2>1. c.backup \in Package /\ p \in Pkg
      BY <1>t DEF Command
    <2> QED BY <1>3, <1>t, <2>1, ReturnType DEF PutBack, TypeOK, history
  <1> QED BY <1>1, <1>2, <1>3

-----------------------------------------------------------------------------
\* What a command relies on, as long as it does not run.

StepOf(self) == \/ Start(self)
                \/ Step(self)
                \/ \E p \in cmd[self].cur : PutBack(self, p)
                \/ Abort(self)

\* A command relies on the disk only while it holds the lock.
LEMMA SameInv ==
    ASSUME NEW s \in Proc, CommandInv(cmd[s]), cmd'[s] = cmd[s],
           cmd[s].pc \notin Locked \/ UNCHANGED <<disk, history>>
    PROVE  CommandInv(cmd[s])'
  <1>1. CASE cmd[s].pc \notin Locked
    BY <1>1 DEF CommandInv, PlanInv, CurInv, LinkInv, Locked, Working, Linking
  <1>2. CASE UNCHANGED <<disk, history>>
    BY <1>2 DEF CommandInv, PlanInv, JobInv, CurInv, LinkInv, LeftInv, Passed, Ready,
                NoLinks, LinkFiles, UnlinkFiles, Unreadable, LinkTo, CompletePackage,
                disk, history
  <1> QED BY <1>1, <1>2

\* A step of one command leaves all others alone, and the disk too unless the
\* command holds the lock.
LEMMA StepFrame ==
    ASSUME TypeOK, NEW self \in Proc, StepOf(self)
    PROVE  /\ \A s \in Proc \ {self} : cmd'[s] = cmd[s]
           /\ cmd[self].pc \in Locked \/ UNCHANGED <<disk, history>>
  <1>1. ASSUME Start(self) \/ Prepare(self)
        PROVE  (\A s \in Proc \ {self} : cmd'[s] = cmd[s]) /\ UNCHANGED <<disk, history>>
    BY <1>1 DEF TypeOK, Start, Prepare, StartInstall, StartRemove, ReadMetadata, Stage,
                Lock, Check, Goto, Return
  <1>2. ASSUME NEW p, Job(self, p)
        PROVE  (\A s \in Proc \ {self} : cmd'[s] = cmd[s]) /\ cmd[self].pc \in Locked
    BY <1>2 DEF TypeOK, Job, DoJob, NextJob, Unlink, BackUp, Put, WriteMetadata,
                RemoveSome, Removed, Goto, Locked
  <1>3. ASSUME NEW p \in Pkg, NEW r \in Root, LinkPackage(self, p, r)
        PROVE  (\A s \in Proc \ {self} : cmd'[s] = cmd[s]) /\ cmd[self].pc \in Locked
    <2>1. cmd[self].pc \in Locked
      BY <1>3 DEF LinkPackage, AtOperation, Locked
    <2>2. \/ UNCHANGED cmd \/ Return(self) \/ \E c : Goto(self, c)
      BY <1>3 DEF LinkPackage, LinkOne, ListFiles, ListFails, MakeDir, LinkFile, KeepLink,
                  RemoveStale, LinkInStore, LinkElsewhere, LinkFails, NextOperation, Linked
    <2> QED BY <2>1, <2>2 DEF TypeOK, Goto, Return
  <1>4. ASSUME \/ UnlinkFails(self) \/ Unlinked(self) \/ JobsDone(self)
               \/ LinksDone(self) \/ Unlock(self)
               \/ \E p \in cmd[self].cur : PutBack(self, p)
        PROVE  (\A s \in Proc \ {self} : cmd'[s] = cmd[s]) /\ cmd[self].pc \in Locked
    BY <1>4 DEF TypeOK, UnlinkFails, Unlinked, JobsDone, LinksDone, Unlock,
                PutBack, Goto, Return, Locked
  <1>5. ASSUME Abort(self)
        PROVE  (\A s \in Proc \ {self} : cmd'[s] = cmd[s]) /\ UNCHANGED <<disk, history>>
    BY <1>5 DEF TypeOK, Abort, Return
  <1> QED BY <1>1, <1>2, <1>3, <1>4, <1>5 DEF StepOf, Step, Job

\* The lock: what the others rely on survives a step.
LEMMA OthersStep ==
    ASSUME Inv, NEW self \in Proc, StepOf(self), NEW s \in Proc \ {self}
    PROVE  CommandInv(cmd[s])'
  <1>1. cmd'[s] = cmd[s] /\ (cmd[self].pc \in Locked \/ UNCHANGED <<disk, history>>)
    BY StepFrame DEF Inv
  <1>2. cmd[s].pc \notin Locked \/ cmd[self].pc \notin Locked
    BY DEF Inv, TypeOK
  <1> QED BY <1>1, <1>2, SameInv DEF Inv

\* A command that returns relies on nothing.
LEMMA ReturnInv ==
    ASSUME TypeOK, NEW self \in Proc, Return(self)
    PROVE  CommandInv(cmd[self])'
  <1>1. cmd[self]' = Idle
    BY DEF TypeOK, Return
  <1> QED BY <1>1 DEF Idle, CommandInv, CurInv, LinkInv, Working, Linking

-----------------------------------------------------------------------------
\* What a command relies on, as it runs.

\* A step that goes on with d makes d the command.
LEMMA GotoIs ==
    ASSUME TypeOK, NEW self \in Proc, NEW d, Goto(self, d)
    PROVE  cmd[self]' = d
  BY DEF TypeOK, Goto

\* Before the lock nothing is relied on; Check makes sure of what the jobs need.
LEMMA PrepareInv ==
    ASSUME Inv, NEW self \in Proc, Start(self) \/ Prepare(self)
    PROVE  CommandInv(cmd[self])'
  <1> DEFINE c == cmd[self]
  <1>t. TypeOK /\ c \in Command /\ CommandInv(c)
    BY DEF Inv, TypeOK
  <1>e. DOMAIN Idle = DOMAIN c
    BY <1>t, IdleType DEF Command
  <1>1. ASSUME NEW wanted \in Plan, NEW d \in [Pkg -> Digest], StartInstall(self, wanted, d)
        PROVE  CommandInv(c)'
    <2>1. \A i \in DOMAIN wanted.ops : wanted.ops[i].pkg \in wanted.pkgs
      BY StoreAssumption
    <2>2. /\ c'.pc = "read" /\ c'.install /\ c'.art = d
          /\ c'.ops = wanted.ops /\ c'.pkgs = wanted.pkgs
      BY <1>1, <1>t DEF StartInstall, Goto, Idle, TypeOK
    <2>3. PlanInv(c)'
      BY <1>t, <2>1, <2>2 DEF PlanInv, TypeOK
    <2> QED BY <2>2, <2>3 DEF CommandInv, PlanInv, CurInv, LinkInv, Working, Linking
  <1>2. ASSUME NEW names \in SUBSET Pkg, StartRemove(self, names) PROVE CommandInv(c)'
    <2>1. c'.pc = "ready" /\ ~c'.install /\ c'.changed = {}
      BY <1>2, <1>t DEF StartRemove, Goto, Idle, TypeOK
    <2> QED BY <2>1 DEF CommandInv, PlanInv, CurInv, LinkInv, Working, Linking
  <1>3. ASSUME NEW p \in Pkg, ReadMetadata(self, p) PROVE CommandInv(c)'
    <2>1. CASE Return(self)
      BY <1>t, <2>1, ReturnInv
    <2>2. CASE ~Return(self)
      <3>1. /\ c'.pc = "read" /\ c'.install = c.install /\ c'.art = c.art
            /\ c'.ops = c.ops /\ c'.pkgs = c.pkgs
        <4>1. PICK ch : Goto(self, [c EXCEPT !.todo = @ \ {p}, !.changed = ch])
          BY <1>3, <2>2 DEF ReadMetadata
        <4>2. c' = [c EXCEPT !.todo = @ \ {p}, !.changed = ch]
          BY <1>t, <4>1, GotoIs
        <4> QED BY <1>3, <1>t, <4>2 DEF ReadMetadata, Command
      <3> QED BY <1>t, <1>3, <3>1
              DEF ReadMetadata, CommandInv, PlanInv, CurInv, LinkInv, Working, Linking
    <2> QED BY <2>1, <2>2
  <1>4. ASSUME Stage(self) \/ Lock(self) PROVE CommandInv(c)'
    <2>1. /\ c'.pc \in {"ready", "check"} /\ c'.install = c.install /\ c'.art = c.art
          /\ c'.ops = c.ops /\ c'.pkgs = c.pkgs /\ c'.changed = c.changed
      BY <1>4, <1>t DEF Stage, Lock, Goto, TypeOK, Command
    <2> QED BY <1>t, <1>4, <2>1
            DEF Stage, Lock, CommandInv, PlanInv, CurInv, LinkInv, Working, Linking
  <1>5. ASSUME Check(self) PROVE CommandInv(c)'
    <2>1. CASE \E p \in c.pkgs : Unreadable(p) \/ Stale(c, p)
      BY <1>5, <1>t, <2>1, ReturnInv DEF Check
    <2>2. CASE ~(\E p \in c.pkgs : Unreadable(p) \/ Stale(c, p))
      <3>1. /\ c'.pc = "job" /\ c'.install = c.install /\ c'.art = c.art
            /\ c'.ops = c.ops /\ c'.pkgs = c.pkgs /\ c'.changed = c.changed
            /\ c'.todo = c.pkgs /\ c'.meta = store
        <4>1. Goto(self, [c EXCEPT !.pc = "job", !.todo = c.pkgs, !.meta = store])
          BY <1>5, <2>2 DEF Check
        <4> QED BY <1>t, <4>1 DEF Goto, TypeOK, Command
      <3>2. UNCHANGED disk
        BY <1>5 DEF Check
      <3>3. \A p \in c.pkgs : Passed(c, p)'
        BY <2>2, <3>1, <3>2 DEF Passed, Stale, disk
      <3>4. JobInv(c)'
        BY <1>t, <3>1, <3>3 DEF JobInv, Working, TypeOK
      <3>5. PlanInv(c)'
        BY <1>t, <1>5, <3>1 DEF Check, CommandInv, PlanInv
      <3> QED BY <3>1, <3>4, <3>5 DEF CommandInv, PlanInv, CurInv, LinkInv, Linking
    <2> QED BY <2>1, <2>2
  <1> QED BY <1>1, <1>2, <1>3, <1>4, <1>5 DEF Start, Prepare

\* A job relies on what Check found, and on no link to a package whose store it
\* replaces or deletes; when it is done the package is as the plan wants it.
LEMMA JobStep ==
    ASSUME Inv, NEW self \in Proc, NEW p \in Pkg, Job(self, p)
    PROVE  CommandInv(cmd[self])'
  <1> DEFINE c == cmd[self]
  <1>t. TypeOK /\ c \in Command /\ CommandInv(c)
    BY DEF Inv, TypeOK
  <1>j. /\ c.pc \in {"job"} \union Working
        /\ PlanInv(c) /\ JobInv(c)
    BY <1>t DEF Job, DoJob, NextJob, Unlink, BackUp, Put, WriteMetadata, RemoveSome, Removed,
                CommandInv, Working
  <1>1. ASSUME NextJob(self, p) PROVE CommandInv(c)'
    <2>1. PICK pc \in {"unlink", "swap"} :
            /\ pc = IF c.meta[p].present THEN "unlink" ELSE "swap"
            /\ Goto(self, [c EXCEPT !.todo = @ \ {p}, !.cur = {p}, !.pc = pc])
      BY <1>1 DEF NextJob
    <2>2. c' = [c EXCEPT !.todo = @ \ {p}, !.cur = {p}, !.pc = pc]
      BY <1>t, <2>1, GotoIs
    <2>3. /\ c'.pc = pc /\ c'.install = c.install /\ c'.art = c.art
          /\ c'.ops = c.ops /\ c'.pkgs = c.pkgs /\ c'.changed = c.changed
          /\ c'.todo = c.todo \ {p} /\ c'.cur = {p} /\ c'.meta = c.meta
      BY <1>t, <2>2 DEF Command
    <2>4. UNCHANGED <<prefix, store, torn, astray>> /\ c.pc = "job" /\ p \in c.todo
      BY <1>1 DEF NextJob, disk, history
    <2>5. p \in c.pkgs /\ Passed(c, p)
      BY <1>j, <2>4 DEF JobInv
    <2>6. \A q \in c.todo : Passed(c, q)'
      BY <1>j, <2>3, <2>4 DEF JobInv, Passed
    <2>7. \A q \in c.pkgs : Ready(c, q) => Ready(c, q)'
      BY <2>3, <2>4 DEF Ready, Unreadable, LinkTo
    <2>8. JobInv(c)'
      BY <1>j, <2>1, <2>3, <2>4, <2>5, <2>6, <2>7 DEF JobInv, Working
    <2>9. PlanInv(c)'
      BY <1>j, <2>3 DEF PlanInv
    <2>10. pc = "swap" => ~store[p].present /\ c.install
      BY <1>j, <2>1, <2>5 DEF Passed, PlanInv
    <2>11. pc = "swap" => NoLinks(p)'
      BY <2>4, <2>10 DEF Inv, NoOrphanLinks, NoLinks
    <2>12. CurInv(c)'
      BY <2>1, <2>3, <2>4, <2>6, <2>11 DEF CurInv
    <2> QED BY <2>1, <2>3, <2>8, <2>9, <2>10, <2>12 DEF CommandInv, LinkInv, Linking
  <1>2. ASSUME NEW r, NEW f, NEW l \in Loc, Unlink(self, p, r, f, l)
        PROVE  CommandInv(c)'
    <2>1. UNCHANGED <<c, store, torn>> /\ c.pc = "unlink"
      BY <1>2 DEF Unlink, history
    <2>2. JobInv(c)'
      BY <1>j, <2>1 DEF JobInv, Passed, Ready, Unreadable, LinkTo
    <2>3. PlanInv(c)'
      BY <1>j, <2>1 DEF PlanInv
    <2>4. CurInv(c)'
      BY <1>t, <2>1 DEF CommandInv, CurInv, Passed
    <2> QED BY <2>1, <2>2, <2>3, <2>4 DEF CommandInv, LinkInv, Linking
  <1> DEFINE Frame == /\ \A q \in Pkg \ {p} : store'[q] = store[q]
                      /\ c.cur = {p} /\ p \in c.pkgs \ c.todo
                      /\ c'.install = c.install /\ c'.art = c.art
                      /\ c'.ops = c.ops /\ c'.pkgs = c.pkgs
                      /\ c'.changed = c.changed /\ c'.todo = c.todo
                      /\ c'.meta = c.meta
                      /\ c.pc \in Working
  <1>3. ASSUME Frame PROVE /\ PlanInv(c)'
                           /\ \A q \in c.todo : Passed(c, q)'
                           /\ \A q \in c.pkgs \ {p} : Ready(c, q) => Ready(c, q)'
    <2>1. c.pkgs \subseteq Pkg /\ c.todo \subseteq Pkg
      BY <1>t DEF Command
    <2> QED BY <1>3, <1>j, <2>1
            DEF PlanInv, JobInv, Passed, Ready, Unreadable, LinkTo
  <1>4. ASSUME Frame, c'.pc = "job", c.install => Ready(c, p)' PROVE CommandInv(c)'
    <2>1. JobInv(c)'
      BY <1>3, <1>4, <1>j DEF JobInv, Working
    <2> QED BY <1>3, <1>4, <2>1 DEF CommandInv, CurInv, LinkInv, Linking
  <1>c. c.pc \in Working /\ p \in c.cur => c.cur = {p} /\ p \in c.pkgs \ c.todo
    BY <1>j DEF JobInv
  <1>5. ASSUME BackUp(self, p) PROVE CommandInv(c)'
    <2>1. c' = [c EXCEPT !.pc = "put", !.backup = store[p]]
      BY <1>5, <1>t, GotoIs DEF BackUp
    <2>2. Frame /\ c'.pc = "put" /\ c'.backup = store[p] /\ c'.cur = c.cur
      BY <1>5, <1>t, <1>c, <2>1 DEF BackUp, Command, TypeOK, Working
    <2>3. JobInv(c)'
      BY <1>3, <1>j, <2>2 DEF JobInv, Working
    <2>4. c.install /\ NoLinks(p)
      BY <1>5, <1>t, <2>2 DEF BackUp, CommandInv, CurInv
    <2>5. NoLinks(p)'
      BY <1>5, <2>4 DEF BackUp, NoLinks, history
    <2>6. /\ p \in torn' \/ CompletePackage(p, store[p])
          /\ store[p].alien => p \in astray'
      BY <1>5 DEF BackUp, Inv, AlienAstray, Complete, CompletePackage, Unreadable, history
    <2>7. CurInv(c)'
      BY <2>2, <2>5, <2>6 DEF CurInv, CompletePackage
    <2> QED BY <1>3, <2>2, <2>3, <2>4, <2>7 DEF CommandInv, LinkInv, Linking
  <1>6. ASSUME Put(self, p) PROVE CommandInv(c)'
    <2>1. c' = [c EXCEPT !.pc = "job", !.backup = NoPackage]
      BY <1>6, <1>t, GotoIs DEF Put
    <2>2. Frame /\ c'.pc = "job" /\ c.install
      BY <1>6, <1>t, <1>c, <2>1 DEF Put, Command, TypeOK, Working, CommandInv
    <2>3. store'[p] = Staged(c, p) /\ c.art[p] \in Digest
      BY <1>6, <1>t, <1>j, <2>2 DEF Put, TypeOK, PlanInv
    <2>4. Ready(c, p)'
      BY <2>2, <2>3, StoreAssumption DEF Ready, Unreadable, NoDigest, Staged, LinkTo
    <2> QED BY <1>4, <2>2, <2>4
  <1>7. ASSUME WriteMetadata(self, p) PROVE CommandInv(c)'
    <2>1. c' = [c EXCEPT !.pc = "job"]
      BY <1>7, <1>t, GotoIs DEF WriteMetadata
    <2>2. Frame /\ c'.pc = "job" /\ c.install
      BY <1>7, <1>t, <1>c, <2>1 DEF WriteMetadata, Command, TypeOK, Working, CommandInv
    <2>3. store[p].present /\ c.art[p] \in Digest
      BY <1>7, <1>t, <1>j, <2>2 DEF WriteMetadata, PlanInv, CommandInv, CurInv, Passed
    <2>4. /\ store'[p].present /\ store'[p].digest = c.art[p]
          /\ store'[p].roots = LinkTo(c, p)
      BY <1>7, <1>t, <2>3 DEF WriteMetadata, TypeOK, Package
    <2>5. Ready(c, p)'
      BY <2>2, <2>3, <2>4, StoreAssumption DEF Ready, Unreadable, NoDigest, LinkTo
    <2> QED BY <1>4, <2>2, <2>5
  <1>8. ASSUME NEW files \in SUBSET File, NEW keepMeta \in BOOLEAN,
               RemoveSome(self, p, files, keepMeta)
        PROVE  CommandInv(c)'
    <2>1. c' = c /\ c.pc = "removing" /\ ~c.install
      BY <1>8, <1>t DEF RemoveSome, CommandInv
    <2>2. Frame
      BY <1>8, <1>t, <1>c, <2>1 DEF RemoveSome, TypeOK, Working
    <2>3. JobInv(c)'
      BY <1>3, <1>j, <2>1, <2>2 DEF JobInv
    <2>4. CurInv(c)'
      BY <1>8, <1>t, <2>1 DEF RemoveSome, CommandInv, CurInv, NoLinks
    <2> QED BY <1>3, <2>1, <2>2, <2>3, <2>4 DEF CommandInv, LinkInv, Linking
  <1>9. ASSUME Removed(self, p) PROVE CommandInv(c)'
    <2>1. c' = [c EXCEPT !.pc = "job"]
      BY <1>9, <1>t, GotoIs DEF Removed
    <2>2. Frame /\ c'.pc = "job" /\ ~c.install
      BY <1>9, <1>t, <1>c, <2>1 DEF Removed, Command, TypeOK, Working, CommandInv
    <2> QED BY <1>4, <2>2
  <1> QED BY <1>1, <1>2, <1>5, <1>6, <1>7, <1>8, <1>9 DEF Job, DoJob

\* The operation at hand, and what is known of it.
LEMMA AtHand ==
    ASSUME Inv, NEW self \in Proc, NEW p \in Pkg, NEW r \in Root,
           AtOperation(cmd[self], p, r)
    PROVE  LET c == cmd[self]
           IN  /\ c \in Command /\ c.install /\ c.k \in DOMAIN c.ops
               /\ DOMAIN c.ops \subseteq Nat
               /\ c.ops[c.k] = [pkg |-> p, root |-> r]
               /\ p \in c.pkgs /\ Ready(c, p) /\ r \in LinkTo(c, p)
               /\ c.left \subseteq File /\ holder = self
  <1> DEFINE c == cmd[self]
  <1>1. c \in Command /\ CommandInv(c) /\ holder = self
    BY DEF Inv, TypeOK, AtOperation, Locked
  <1>2. c.install /\ PlanInv(c) /\ LinkInv(c) /\ c.left \subseteq File
    BY <1>1 DEF CommandInv, AtOperation, Linking, Command
  <1>3. c.ops \in Seq(Operation) /\ c.k \in Nat \ {0}
    BY <1>1 DEF Command
  <1>4. c.k \in DOMAIN c.ops /\ DOMAIN c.ops \subseteq Nat
    BY <1>3 DEF AtOperation
  <1>5. c.ops[c.k] = [pkg |-> p, root |-> r]
    <2>1. c.ops[c.k] \in Operation
      BY <1>3, <1>4
    <2> QED BY <2>1 DEF Operation, AtOperation
  <1>6. p \in c.pkgs
    BY <1>2, <1>4, <1>5 DEF PlanInv
  <1>7. Ready(c, p)
    BY <1>2, <1>6 DEF LinkInv, AtOperation, Linking
  <1>8. r \in LinkTo(c, p)
    BY <1>4, <1>5 DEF LinkTo
  <1> QED BY <1>1, <1>2, <1>4, <1>5, <1>6, <1>7, <1>8

\* What is known of the files that are left.
LEMMA LeftFacts ==
    ASSUME Inv, NEW self \in Proc, NEW p \in Pkg, NEW r \in Root,
           AtOperation(cmd[self], p, r), cmd[self].pc \in {"files", "place"}
    PROVE  LeftInv(cmd[self], p)
  <1>1. CommandInv(cmd[self]) /\ cmd[self].ops[cmd[self].k] = [pkg |-> p, root |-> r]
    BY AtHand DEF Inv
  <1> QED BY <1>1 DEF CommandInv, LinkInv

\* Linking relies on every package of the plan being as the plan wants it.
LEMMA LinkStep ==
    ASSUME Inv, NEW self \in Proc, NEW p \in Pkg, NEW r \in Root,
           LinkPackage(self, p, r)
    PROVE  CommandInv(cmd[self])'
  <1> DEFINE c == cmd[self]
             Same == /\ c'.install = c.install /\ c'.art = c.art /\ c'.pkgs = c.pkgs
                     /\ c'.ops = c.ops /\ c'.changed = c.changed
  <1>l. AtOperation(c, p, r) /\ c.pc \in Linking
    BY DEF LinkPackage, AtOperation, Linking
  <1>t. /\ TypeOK /\ c \in Command /\ CommandInv(c) /\ c.install
        /\ c.k \in DOMAIN c.ops /\ c.ops[c.k] = [pkg |-> p, root |-> r]
        /\ c.left \subseteq File
    BY <1>l, AtHand DEF Inv
  <1>c. c \in Command
    BY <1>t
  <1>1. ASSUME Same, c'.pc \in Linking,
               c'.pc \in {"files", "place"} => LeftInv(c, p)' /\ c'.k = c.k,
               \A q \in c.pkgs : Ready(c, q)'
        PROVE  CommandInv(c)'
    <2>1. PlanInv(c)'
      BY <1>t, <1>l, <1>1 DEF CommandInv, PlanInv, Linking
    <2>2. c'.pc \in {"files", "place"} => c'.ops[c'.k].pkg = p
      BY <1>t, <1>1
    <2>3. LinkInv(c)'
      BY <1>1, <2>2 DEF LinkInv
    <2>4. CurInv(c)'
      BY <1>1 DEF CurInv, Linking
    <2> QED BY <1>t, <1>1, <2>1, <2>3, <2>4 DEF CommandInv, Linking, Working
  <1>2. ASSUME Same, UNCHANGED store PROVE \A q \in c.pkgs : Ready(c, q)'
    BY <1>t, <1>l, <1>2 DEF CommandInv, LinkInv, Ready, Unreadable, LinkTo
  <1>3. c.pc \in {"files", "place"} => LeftInv(c, p)
    BY <1>l, LeftFacts
  <1>4. ASSUME ListFiles(self, p) PROVE CommandInv(c)'
    <2>1. PICK files :
             /\ files \in IF store[p].alien THEN SUBSET store[p].files ELSE {LinkFiles(p)}
             /\ Goto(self, [c EXCEPT !.pc = "files", !.left = files])
      BY <1>4 DEF ListFiles
    <2>2. c' = [c EXCEPT !.pc = "files", !.left = files]
      BY <1>t, <2>1, GotoIs
    <2>3. Same /\ c'.pc = "files" /\ c'.k = c.k /\ c'.left = files
      BY <1>c, <2>2 DEF Command
    <2>4. UNCHANGED <<store, astray>>
      BY <1>4 DEF ListFiles, disk, history
    <2>5. files \subseteq UnlinkFiles(p) /\ (p \in astray \/ files \subseteq LinkFiles(p))
      BY <2>1 DEF Inv, AlienAstray, LinkFiles, UnlinkFiles
    <2>6. LeftInv(c, p)'
      BY <1>t, <2>3, <2>4, <2>5 DEF LeftInv, LinkFiles, UnlinkFiles
    <2> QED BY <1>1, <1>2, <2>3, <2>4, <2>6 DEF Linking
  <1>5. ASSUME ListFails(self, p) \/ LinkFails(self, r) PROVE CommandInv(c)'
    BY <1>5, <1>t, ReturnInv DEF ListFails, LinkFails
  <1>6. ASSUME NEW l \in Loc, MakeDir(self, r, l) PROVE CommandInv(c)'
    <2>1. UNCHANGED <<c, store, astray>> /\ c.pc = "files"
      BY <1>6 DEF MakeDir, history
    <2>2. LeftInv(c, p)'
      BY <1>3, <2>1 DEF LeftInv, LinkFiles, UnlinkFiles
    <2> QED BY <1>1, <1>2, <2>1, <2>2 DEF Linking
  <1>7. ASSUME NEW f, Linked(self, f), astray \subseteq astray',
               c.pc \in {"files", "place"},
               UnlinkFiles(p) \subseteq UnlinkFiles(p)',
               p \in astray' \/ LinkFiles(p)' = LinkFiles(p),
               Same => \A q \in c.pkgs : Ready(c, q)'
        PROVE  CommandInv(c)'
    <2>1. c' = [c EXCEPT !.pc = "files", !.left = @ \ {f}, !.file = {}]
      BY <1>7, <1>t, GotoIs DEF Linked
    <2>2. Same /\ c'.pc = "files" /\ c'.k = c.k /\ c'.left = c.left \ {f}
      BY <1>c, <2>1 DEF Command
    <2>3. LeftInv(c, p)'
      BY <1>3, <1>7, <2>2 DEF LeftInv
    <2> QED BY <1>1, <1>7, <2>2, <2>3 DEF Linking
  <1>8. ASSUME NEW f \in c.left, NEW l \in Loc,
               LinkFile(self, p, r, f, l) \/ KeepLink(self, p, r, f, l)
        PROVE  CommandInv(c)'
    <2>1. /\ Linked(self, f) /\ astray \subseteq astray' /\ UNCHANGED store
      BY <1>8 DEF LinkFile, KeepLink, Strays, disk
    <2>2. c.pc \in {"files", "place"}
      BY <1>8 DEF LinkFile, KeepLink
    <2> QED BY <1>2, <1>7, <2>1, <2>2 DEF LinkFiles, UnlinkFiles
  <1>9. ASSUME NEW f \in c.left, NEW l \in Loc, RemoveStale(self, p, r, f, l)
        PROVE  CommandInv(c)'
    <2>1. c' = [c EXCEPT !.pc = "place", !.file = {f}]
      BY <1>9, <1>t, GotoIs DEF RemoveStale
    <2>2. Same /\ c'.pc = "place" /\ c'.k = c.k /\ c'.left = c.left
      BY <1>c, <2>1 DEF Command
    <2>3. UNCHANGED store /\ astray \subseteq astray' /\ c.pc = "files"
      BY <1>9 DEF RemoveStale, Strays
    <2>4. LeftInv(c, p)'
      BY <1>3, <2>2, <2>3 DEF LeftInv, LinkFiles, UnlinkFiles
    <2> QED BY <1>1, <1>2, <2>2, <2>3, <2>4 DEF Linking
  <1>10. ASSUME NEW f \in c.left, NEW q \in Pkg, NEW g \in File,
                LinkInStore(self, p, f, q, g)
         PROVE  CommandInv(c)'
    <2>1. /\ Linked(self, f) /\ c.pc = "files" /\ astray' = astray \union {p, q}
          /\ store' = [store EXCEPT ![q].present = TRUE, ![q].alien = TRUE,
                                    ![q].files = @ \union {g}]
      BY <1>10 DEF LinkInStore
    <2>2. \A x \in Pkg : /\ store'[x].digest = store[x].digest
                         /\ store'[x].roots = store[x].roots
                         /\ store[x].present => store'[x].present
                         /\ store[x].files \subseteq store'[x].files
      BY <1>t, <2>1 DEF TypeOK, Package
    <2>3. ASSUME Same PROVE \A x \in c.pkgs : Ready(c, x)'
      <3>1. \A x \in c.pkgs : Ready(c, x) /\ x \in Pkg
        BY <1>t, <1>l DEF CommandInv, LinkInv, Command
      <3> QED BY <2>2, <2>3, <3>1 DEF Ready, Unreadable, LinkTo
    <2>4. UnlinkFiles(p) \subseteq UnlinkFiles(p)'
      BY <2>2 DEF UnlinkFiles
    <2> QED BY <1>7, <2>1, <2>3, <2>4
  <1>11. ASSUME NEW f \in c.left, LinkElsewhere(self, p, f) PROVE CommandInv(c)'
    <2>1. /\ Linked(self, f) /\ c.pc = "files" /\ astray \subseteq astray'
          /\ UNCHANGED store
      BY <1>11 DEF LinkElsewhere, disk
    <2> QED BY <1>2, <1>7, <2>1 DEF LinkFiles, UnlinkFiles
  <1>12. ASSUME NextOperation(self, r) PROVE CommandInv(c)'
    <2>1. c' = [c EXCEPT !.pc = "link", !.k = @ + 1]
      BY <1>12, <1>t, GotoIs DEF NextOperation
    <2>2. Same /\ c'.pc = "link" /\ UNCHANGED store
      BY <1>12, <1>c, <2>1 DEF NextOperation, Command, disk
    <2> QED BY <1>1, <1>2, <2>2 DEF Linking
  <1> QED BY <1>4, <1>5, <1>6, <1>8, <1>9, <1>10, <1>11, <1>12 DEF LinkPackage, LinkOne

\* The transitions between the passes, and the ways in which a command ends.
LEMMA PassStep ==
    ASSUME Inv, NEW self \in Proc,
           \/ UnlinkFails(self) \/ Unlinked(self) \/ JobsDone(self)
           \/ LinksDone(self) \/ Unlock(self) \/ Abort(self)
           \/ \E p \in cmd[self].cur : PutBack(self, p)
    PROVE  CommandInv(cmd[self])'
  <1> DEFINE c == cmd[self]
  <1>t. TypeOK /\ c \in Command /\ CommandInv(c)
    BY DEF Inv, TypeOK
  <1>1. ASSUME \/ UnlinkFails(self) \/ Unlock(self) \/ Abort(self)
               \/ \E p \in cmd[self].cur : PutBack(self, p)
        PROVE  CommandInv(c)'
    <2>1. Return(self)
      BY <1>1 DEF UnlinkFails, Unlock, Abort, PutBack
    <2> QED BY <1>t, <2>1, ReturnInv
  <1>2. ASSUME Unlinked(self) PROVE CommandInv(c)'
    <2>1. PICK pc : /\ pc = IF c.install THEN "swap" ELSE "removing"
                    /\ Goto(self, [c EXCEPT !.pc = pc])
      BY <1>2 DEF Unlinked
    <2>2. c' = [c EXCEPT !.pc = pc]
      BY <1>t, <2>1, GotoIs
    <2>3. /\ c'.pc = pc /\ c'.install = c.install /\ c'.art = c.art
          /\ c'.ops = c.ops /\ c'.pkgs = c.pkgs /\ c'.changed = c.changed
          /\ c'.todo = c.todo /\ c'.cur = c.cur /\ c'.meta = c.meta
      BY <1>t, <2>2 DEF Command
    <2>4. UNCHANGED <<disk, history>> /\ c.pc = "unlink" /\ JobInv(c) /\ PlanInv(c)
      BY <1>2, <1>t DEF Unlinked, CommandInv, Working
    <2>5. ASSUME NEW p \in c.cur PROVE Passed(c, p) /\ NoLinks(p)
      <3>1. Passed(c, p) /\ p \in Pkg
        BY <1>t, <2>4 DEF CommandInv, CurInv, Command
      <3>2. SUFFICES ASSUME NEW l \in Loc, IsLink(prefix[l]), prefix[l].pkg = p,
                            p \notin astray
                     PROVE  FALSE
        BY <3>1 DEF NoLinks
      <3>3. PICK f \in store[p].files, rr \in store[p].roots :
               prefix[l] = Link(p, f, Up[l]) /\ Dest[rr][f] = l
        BY <1>t, <3>2, LinkAt DEF Inv, NoOrphanLinks
      <3>4. Place(l) = At(l)
        BY <1>t, <3>2, LinkAt, Found DEF Inv
      <3>5. Own(p, rr, f, l) /\ rr \in Targets(c, p) /\ f \in UnlinkFiles(p)
        BY <3>1, <3>3, <3>4 DEF Own, Text, Targets, UnlinkFiles, Passed
      <3>6. ~store[p].alien
        BY <3>1, <3>2 DEF Inv, AlienAstray
      <3> QED BY <1>2, <3>5, <3>6 DEF Unlinked
    <2>6. \A p \in c.todo \union c.cur : Passed(c, p)'
      BY <2>3, <2>4, <2>5 DEF JobInv, Passed, disk
    <2>7. \A p \in c.pkgs : Ready(c, p) => Ready(c, p)'
      BY <2>3, <2>4 DEF Ready, Unreadable, LinkTo, disk
    <2>8. JobInv(c)'
      BY <2>1, <2>3, <2>4, <2>6, <2>7 DEF JobInv, Working
    <2>9. CurInv(c)'
      BY <2>1, <2>3, <2>4, <2>5, <2>6 DEF CurInv, NoLinks, disk, history
    <2> QED BY <2>1, <2>3, <2>4, <2>8, <2>9 DEF CommandInv, PlanInv, LinkInv, Linking
  <1>3. ASSUME JobsDone(self) PROVE CommandInv(c)'
    <2>1. PICK pc : /\ pc = IF c.install THEN "link" ELSE "done"
                    /\ Goto(self, [c EXCEPT !.cur = {}, !.pc = pc])
      BY <1>3 DEF JobsDone
    <2>2. c' = [c EXCEPT !.cur = {}, !.pc = pc]
      BY <1>t, <2>1, GotoIs
    <2>3. /\ c'.pc = pc /\ c'.install = c.install /\ c'.art = c.art
          /\ c'.ops = c.ops /\ c'.pkgs = c.pkgs /\ c'.changed = c.changed
          /\ c'.k = c.k
      BY <1>t, <2>2 DEF Command
    <2>4. UNCHANGED disk /\ c.pc = "job" /\ c.todo = {} /\ JobInv(c) /\ PlanInv(c)
      BY <1>3, <1>t DEF JobsDone, CommandInv
    <2>5. c.install => \A p \in c.pkgs : Ready(c, p)'
      BY <2>3, <2>4 DEF JobInv, Working, Ready, Unreadable, LinkTo, disk
    <2> QED BY <2>1, <2>3, <2>4, <2>5
            DEF CommandInv, PlanInv, CurInv, LinkInv, Working, Linking
  <1>4. ASSUME LinksDone(self) PROVE CommandInv(c)'
    <2>1. c' = [c EXCEPT !.pc = "done"]
      BY <1>4, <1>t, GotoIs DEF LinksDone
    <2>2. /\ c'.pc = "done" /\ c'.install = c.install /\ c'.art = c.art
          /\ c'.ops = c.ops /\ c'.pkgs = c.pkgs /\ c'.changed = c.changed
          /\ c'.k = c.k /\ c.pc = "link"
      BY <1>4, <1>t, <2>1 DEF Command, LinksDone
    <2> QED BY <1>t, <2>2 DEF CommandInv, PlanInv, CurInv, LinkInv, Working, Linking
  <1> QED BY <1>1, <1>2, <1>3, <1>4

-----------------------------------------------------------------------------
\* What a step may do to the prefix and to the store.

\* The store of p is renamed, replaced or deleted.
Replaces(self, p) ==
    \/ BackUp(self, p)
    \/ Put(self, p)
    \/ WriteMetadata(self, p)
    \/ \E files \in SUBSET File, keepMeta \in BOOLEAN : RemoveSome(self, p, files, keepMeta)
    \/ Removed(self, p)
    \/ PutBack(self, p)

\* The operation at hand does something about a path.
LinksAt(self, p, r, f, l) == \/ LinkFile(self, p, r, f, l)
                             \/ KeepLink(self, p, r, f, l)
                             \/ RemoveStale(self, p, r, f, l)

WritesLink(self, p, r) ==
    /\ AtOperation(cmd[self], p, r)
    /\ \/ \E l \in Loc : MakeDir(self, r, l)
       \/ \E f \in cmd[self].left, l \in Loc : /\ Reachable(l)
                                               /\ Place(Dest[r][f]) = At(l)
                                               /\ LinksAt(self, p, r, f, l)
       \/ \E f \in cmd[self].left, q \in Pkg, g \in File : LinkInStore(self, p, f, q, g)
       \/ \E f \in cmd[self].left : LinkElsewhere(self, p, f)

\* A step that does anything to the disk is one of these.
LEMMA DiskStep ==
    ASSUME TypeOK, [Next]_vars
    PROVE  \/ UNCHANGED <<disk, history>>
           \/ \E self \in Proc : \E p \in cmd[self].cur :
                 \/ \E r \in Targets(cmd[self], p), f \in UnlinkFiles(p), l \in Loc :
                       Unlink(self, p, r, f, l)
                 \/ Replaces(self, p)
           \/ \E self \in Proc, p \in Pkg, r \in Root : WritesLink(self, p, r)
  <1>1. ASSUME NEW self \in Proc, Start(self) \/ Prepare(self)
        PROVE  UNCHANGED <<disk, history>>
    BY <1>1 DEF Start, StartInstall, StartRemove, Prepare, ReadMetadata, Stage, Lock, Check
  <1>2. ASSUME NEW self \in Proc,
               \/ \E p \in Pkg : NextJob(self, p)
               \/ UnlinkFails(self) \/ Unlinked(self) \/ JobsDone(self)
               \/ LinksDone(self) \/ Unlock(self) \/ Abort(self)
        PROVE  UNCHANGED <<disk, history>>
    BY <1>2 DEF NextJob, UnlinkFails, Unlinked, JobsDone, LinksDone, Unlock, Abort
  <1>3. ASSUME NEW self \in Proc, NEW p, DoJob(self, p)
        PROVE  \/ \E r \in Targets(cmd[self], p), f \in UnlinkFiles(p), l \in Loc :
                     Unlink(self, p, r, f, l)
               \/ Replaces(self, p)
    BY <1>3 DEF DoJob, Replaces
  <1>4. ASSUME NEW self \in Proc, NEW p \in Pkg, NEW r \in Root, LinkPackage(self, p, r)
        PROVE  UNCHANGED <<disk, history>> \/ WritesLink(self, p, r)
    <2>1. ASSUME \/ ListFiles(self, p) \/ ListFails(self, p) \/ LinkFails(self, r)
                 \/ NextOperation(self, r)
          PROVE  UNCHANGED <<disk, history>>
      BY <2>1 DEF ListFiles, ListFails, LinkFails, NextOperation
    <2>2. AtOperation(cmd[self], p, r)
      BY <1>4 DEF LinkPackage
    <2> QED BY <1>4, <2>1, <2>2 DEF LinkPackage, LinkOne, WritesLink, LinksAt
  <1>5. ASSUME UNCHANGED vars PROVE UNCHANGED <<disk, history>>
    BY <1>5 DEF vars, disk, history
  <1>6. ASSUME NEW self \in Proc, Step(self)
        PROVE  \/ UNCHANGED <<disk, history>>
               \/ \E p \in cmd[self].cur :
                     \/ \E r \in Targets(cmd[self], p), f \in UnlinkFiles(p), l \in Loc :
                           Unlink(self, p, r, f, l)
                     \/ Replaces(self, p)
               \/ \E p \in Pkg, r \in Root : WritesLink(self, p, r)
    <2>1. CASE \E p \in cmd[self].cur : DoJob(self, p)
      BY <1>3, <2>1
    <2>2. CASE \E p \in Pkg, r \in Root : LinkPackage(self, p, r)
      BY <1>4, <2>2
    <2> QED BY <1>1, <1>2, <1>6, <2>1, <2>2 DEF Step
  <1>7. ASSUME NEW self \in Proc, NEW p \in cmd[self].cur, PutBack(self, p)
        PROVE  Replaces(self, p)
    BY <1>7 DEF Replaces
  <1> QED BY <1>1, <1>2, <1>5, <1>6, <1>7 DEF Next

\* A store is replaced while nothing that must be as planned leads to it.
LEMMA ReplaceFacts ==
    ASSUME Inv, NEW self \in Proc, NEW p \in cmd[self].cur, Replaces(self, p)
    PROVE  /\ p \in Pkg /\ CommandInv(cmd[self]) /\ cmd[self] \in Command
           /\ \A q \in Pkg \ {p} : store'[q] = store[q]
           /\ torn \ {p} \subseteq torn'
           /\ UNCHANGED <<prefix, astray>>
           /\ NoLinks(p)
  <1>1. p \in Pkg /\ CommandInv(cmd[self]) /\ cmd[self] \in Command
    BY DEF Inv, TypeOK, Command
  <1>2. store \in [Pkg -> Package]
    BY DEF Inv, TypeOK
  <1>3. \A q \in Pkg \ {p} : store'[q] = store[q]
    BY <1>2 DEF Replaces, BackUp, Put, WriteMetadata, RemoveSome, Removed, PutBack
  <1>4. torn \ {p} \subseteq torn' /\ UNCHANGED <<prefix, astray>>
    BY DEF Replaces, BackUp, Put, WriteMetadata, RemoveSome, Removed, PutBack, history
  <1>5. NoLinks(p)
    BY <1>1 DEF CommandInv, CurInv, Replaces, BackUp, Put, WriteMetadata, RemoveSome,
                Removed, PutBack
  <1> QED BY <1>1, <1>3, <1>4, <1>5

\* What linking does to a path, to the store and to the history.
LEMMA WriteFacts ==
    ASSUME Inv, NEW self \in Proc, NEW p \in Pkg, NEW r \in Root,
           WritesLink(self, p, r)
    PROVE  /\ AtOperation(cmd[self], p, r)
           /\ cmd[self].left \subseteq UnlinkFiles(p) /\ cmd[self].left \subseteq File
           /\ astray \subseteq astray' /\ UNCHANGED torn
           /\ cmd[self].pc \in {"files", "place"}
  <1>1. AtOperation(cmd[self], p, r)
    BY DEF WritesLink
  <1>2. cmd[self].pc \in {"files", "place"}
    BY DEF WritesLink, LinksAt, MakeDir, LinkFile, KeepLink, RemoveStale, LinkInStore,
           LinkElsewhere
  <1>3. cmd[self].left \subseteq UnlinkFiles(p) /\ cmd[self].left \subseteq File
    BY <1>1, <1>2, AtHand, LeftFacts DEF LeftInv
  <1>4. astray \subseteq astray' /\ UNCHANGED torn
    BY DEF WritesLink, LinksAt, MakeDir, LinkFile, KeepLink, RemoveStale, LinkInStore,
           LinkElsewhere, Strays, history
  <1> QED BY <1>1, <1>2, <1>3, <1>4

-----------------------------------------------------------------------------
\* Links and packages.

\* Nothing is put where no directory is, and no directory goes.
LEMMA StandingStep == Inv /\ [Next]_vars => Standing'
  <1> SUFFICES ASSUME Inv, [Next]_vars PROVE Standing'
    OBVIOUS
  <1>t. TypeOK /\ Standing
    BY DEF Inv
  <1>0. ASSUME UNCHANGED prefix PROVE Standing'
    BY <1>t, <1>0 DEF Standing, Reachable
  <1>1. ASSUME NEW self, NEW p, NEW r, NEW f, NEW l \in Loc, Unlink(self, p, r, f, l)
        PROVE  Standing'
    <2>1. IsLink(prefix[l]) /\ prefix' = [prefix EXCEPT ![l] = Absent]
      BY <1>1, LinkFacts DEF Unlink, Own, Text
    <2> QED BY <1>t, <2>1, LinkFacts, StandingChange
  <1>2. ASSUME NEW self \in Proc, NEW p \in Pkg, NEW r \in Root, WritesLink(self, p, r)
        PROVE  Standing'
    <2>1. ASSUME NEW l \in Loc, MakeDir(self, r, l) PROVE Standing'
      <3>1. /\ prefix[l] = Absent /\ Reachable(l)
            /\ prefix' = [prefix EXCEPT ![l] = Directory]
        BY <2>1 DEF MakeDir
      <3> QED BY <1>t, <3>1, LinkFacts, StandingChange
    <2>2. ASSUME NEW f, NEW l \in Loc, Reachable(l), LinksAt(self, p, r, f, l)
          PROVE  Standing'
      <3>1. CASE LinkFile(self, p, r, f, l)
        <4>1. /\ prefix[l] = Absent
              /\ prefix' = [prefix EXCEPT ![l] = Text(p, r, f)]
          BY <3>1 DEF LinkFile
        <4> QED BY <1>t, <2>2, <4>1, LinkFacts, StandingChange
      <3>2. CASE KeepLink(self, p, r, f, l)
        BY <1>0, <3>2 DEF KeepLink, disk
      <3>3. CASE RemoveStale(self, p, r, f, l)
        <4>1. IsSymlink(prefix[l]) /\ prefix' = [prefix EXCEPT ![l] = Absent]
          BY <3>3 DEF RemoveStale
        <4> QED BY <1>t, <4>1, LinkFacts, StandingChange
      <3> QED BY <2>2, <3>1, <3>2, <3>3 DEF LinksAt
    <2>3. ASSUME NEW f, NEW q, NEW g,
                 LinkInStore(self, p, f, q, g) \/ LinkElsewhere(self, p, f)
          PROVE  Standing'
      BY <1>0, <2>3 DEF LinkInStore, LinkElsewhere, disk
    <2> QED BY <1>2, <2>1, <2>2, <2>3 DEF WritesLink
  <1>3. ASSUME NEW self \in Proc, NEW p \in cmd[self].cur, Replaces(self, p)
        PROVE  Standing'
    BY <1>0, <1>3, ReplaceFacts
  <1>4. ASSUME UNCHANGED <<disk, history>> PROVE Standing'
    BY <1>0, <1>4 DEF disk
  <1> QED BY <1>t, <1>1, <1>2, <1>3, <1>4, DiskStep

\* Into the store of a package something else is written only on the way astray.
LEMMA AlienStep == Inv /\ [Next]_vars => AlienAstray'
  <1> SUFFICES ASSUME Inv, [Next]_vars PROVE AlienAstray'
    OBVIOUS
  <1>t. TypeOK /\ AlienAstray
    BY DEF Inv
  <1>0. ASSUME UNCHANGED store, astray \subseteq astray' PROVE AlienAstray'
    BY <1>t, <1>0 DEF AlienAstray
  <1>1. ASSUME NEW self, NEW p, NEW r, NEW f, NEW l \in Loc, Unlink(self, p, r, f, l)
        PROVE  AlienAstray'
    BY <1>0, <1>1 DEF Unlink, history
  <1>2. ASSUME NEW self \in Proc, NEW p \in cmd[self].cur, Replaces(self, p)
        PROVE  AlienAstray'
    <2>1. store'[p].alien => p \in astray
      <3>1. CASE BackUp(self, p) \/ Removed(self, p)
        <4>1. store'[p] = NoPackage
          BY <1>t, <1>2, <3>1, ReplaceFacts DEF BackUp, Removed, TypeOK
        <4> QED BY <4>1 DEF NoPackage
      <3>2. CASE Put(self, p)
        <4>1. store'[p] = Staged(cmd[self], p)
          BY <1>t, <1>2, <3>2, ReplaceFacts DEF Put, TypeOK
        <4> QED BY <4>1 DEF Staged
      <3>3. ASSUME store'[p].alien = store[p].alien PROVE store'[p].alien => p \in astray
        BY <1>t, <1>2, <3>3, ReplaceFacts DEF AlienAstray
      <3>5. CASE WriteMetadata(self, p)
        <4>1. store'[p].alien = store[p].alien
          BY <1>t, <1>2, <3>5, ReplaceFacts DEF WriteMetadata, TypeOK, Package
        <4> QED BY <3>3, <4>1
      <3>6. ASSUME NEW files, NEW keepMeta, RemoveSome(self, p, files, keepMeta)
            PROVE  store'[p].alien => p \in astray
        <4>1. p \in Pkg /\ store \in [Pkg -> Package]
          BY <1>t, <1>2, ReplaceFacts DEF TypeOK
        <4>2. store'[p] = IF keepMeta /\ ~Unreadable(p)
                          THEN [store[p] EXCEPT !.files = files]
                          ELSE [store[p] EXCEPT !.files = files, !.digest = NoDigest,
                                                !.roots = {}]
          BY <3>6, <4>1 DEF RemoveSome
        <4>3. store[p] \in Package
          BY <4>1
        <4>4. store'[p].alien = store[p].alien
          BY <4>2, <4>3 DEF Package
        <4> QED BY <3>3, <4>4
      <3>4. CASE PutBack(self, p)
        <4>1. store'[p] = cmd[self].backup /\ cmd[self].pc = "put"
          BY <1>t, <1>2, <3>4, ReplaceFacts DEF PutBack, TypeOK
        <4> QED BY <1>2, <4>1, ReplaceFacts DEF CommandInv, CurInv
      <3> QED BY <1>2, <3>1, <3>2, <3>4, <3>5, <3>6 DEF Replaces
    <2> QED BY <1>t, <1>2, <2>1, ReplaceFacts DEF AlienAstray
  <1>3. ASSUME NEW self \in Proc, NEW p \in Pkg, NEW r \in Root, WritesLink(self, p, r)
        PROVE  AlienAstray'
    <2>1. CASE \E f, q, g : q \in Pkg /\ LinkInStore(self, p, f, q, g)
      <3>1. PICK f, q, g : q \in Pkg /\ LinkInStore(self, p, f, q, g)
        BY <2>1
      <3>2. q \in astray' /\ \A x \in Pkg \ {q} : store'[x] = store[x]
        BY <1>t, <3>1 DEF LinkInStore, TypeOK
      <3> QED BY <1>t, <1>3, <3>2, WriteFacts DEF AlienAstray
    <2>2. CASE ~(\E f, q, g : q \in Pkg /\ LinkInStore(self, p, f, q, g))
      <3>1. UNCHANGED store
        BY <1>3, <2>2 DEF WritesLink, LinksAt, MakeDir, LinkFile, KeepLink, RemoveStale,
                          LinkElsewhere, disk
      <3> QED BY <1>0, <1>3, <3>1, WriteFacts
    <2> QED BY <2>1, <2>2
  <1>4. ASSUME UNCHANGED <<disk, history>> PROVE AlienAstray'
    BY <1>0, <1>4 DEF disk, history
  <1> QED BY <1>t, <1>1, <1>2, <1>3, <1>4, DiskStep

\* The store of p may change when no link leads to p.
LEMMA StoreChange ==
    ASSUME NoOrphanLinks, NEW p \in Pkg, NoLinks(p), UNCHANGED prefix,
           astray \subseteq astray', \A q \in Pkg \ {p} : store'[q] = store[q],
           \A l \in Loc : IsLink(prefix[l]) => prefix[l].pkg \in Pkg
    PROVE  NoOrphanLinks'
  BY DEF NoOrphanLinks, NoLinks, Unreadable

\* A link may appear to a file of a package that is as the plan wants it, or
\* anywhere if it is known to be astray.
LEMMA LinkAppears ==
    ASSUME TypeOK, NoOrphanLinks, UNCHANGED store, astray \subseteq astray',
           NEW c \in Command, NEW p \in Pkg, NEW r \in Root, NEW f \in File, NEW l \in Loc,
           Ready(c, p), r \in LinkTo(c, p), f \in store[p].files,
           l = Dest[r][f] \/ p \in astray',
           prefix' = [prefix EXCEPT ![l] = Text(p, r, f)]
    PROVE  NoOrphanLinks'
  <1>1. prefix'[l] = Text(p, r, f) /\ \A m \in Loc : m # l => prefix'[m] = prefix[m]
    BY DEF TypeOK
  <1> SUFFICES ASSUME NEW m \in Loc, IsLink(prefix'[m]), prefix'[m].pkg \notin astray'
               PROVE  LET q == prefix'[m].pkg  g == prefix'[m].file
                      IN  /\ store[q].present
                          /\ ~Unreadable(q)
                          /\ g \in store[q].files
                          /\ prefix'[m].up = Up[m]
                          /\ \E x \in store[q].roots : Dest[x][g] = m
    BY DEF NoOrphanLinks, Unreadable
  <1>2. CASE m = l
    <2>1. prefix'[m].pkg = p /\ prefix'[m].file = f /\ prefix'[m].up = Up[Dest[r][f]]
      BY <1>1, <1>2, TextFacts
    <2>2. l = Dest[r][f]
      BY <2>1
    <2> QED BY <1>2, <2>1, <2>2 DEF Ready
  <1>3. CASE m # l
    <2>1. prefix'[m] = prefix[m]
      BY <1>1, <1>3
    <2> QED BY <2>1 DEF NoOrphanLinks
  <1> QED BY <1>2, <1>3

\* Links other than those a step makes were there before.
LEMMA LinksVanish ==
    ASSUME TypeOK, NoOrphanLinks, UNCHANGED store, astray \subseteq astray', NEW l \in Loc,
           NEW e \in {Absent, Directory}, prefix' = [prefix EXCEPT ![l] = e]
    PROVE  NoOrphanLinks'
  <1>1. \A m \in Loc : IsLink(prefix'[m]) => prefix'[m] = prefix[m]
    BY LinkFacts DEF TypeOK
  <1> QED BY <1>1 DEF NoOrphanLinks, Unreadable

\* Links are made only to what is there, and packages replaced or deleted only
\* when nothing leads to them.
LEMMA LinksStep == Inv /\ [Next]_vars => NoOrphanLinks'
  <1> SUFFICES ASSUME Inv, [Next]_vars PROVE NoOrphanLinks'
    OBVIOUS
  <1>t. TypeOK /\ NoOrphanLinks
    BY DEF Inv
  <1>0. ASSUME UNCHANGED disk, astray \subseteq astray' PROVE NoOrphanLinks'
    BY <1>t, <1>0 DEF NoOrphanLinks, Unreadable, disk
  <1>1. ASSUME NEW self, NEW p, NEW r, NEW f, NEW l \in Loc, Unlink(self, p, r, f, l)
        PROVE  NoOrphanLinks'
    BY <1>t, <1>1, LinksVanish DEF Unlink, history
  <1>2. ASSUME NEW self \in Proc, NEW p \in cmd[self].cur, Replaces(self, p)
        PROVE  NoOrphanLinks'
    <2>1. \A l \in Loc : IsLink(prefix[l]) => prefix[l].pkg \in Pkg
      BY <1>t, LinkAt
    <2> QED BY <1>t, <1>2, <2>1, ReplaceFacts, StoreChange
  <1>3. ASSUME NEW self \in Proc, NEW p \in Pkg, NEW r \in Root, WritesLink(self, p, r)
        PROVE  NoOrphanLinks'
    <2> DEFINE c == cmd[self]
    <2>1. /\ AtOperation(c, p, r) /\ c.left \subseteq store[p].files
          /\ c.left \subseteq File /\ astray \subseteq astray'
      BY <1>3, WriteFacts DEF UnlinkFiles
    <2>2. c \in Command /\ Ready(c, p) /\ r \in LinkTo(c, p)
      BY <2>1, AtHand
    <2>3. ASSUME NEW l \in Loc, MakeDir(self, r, l) PROVE NoOrphanLinks'
      BY <1>t, <2>1, <2>3, LinksVanish DEF MakeDir
    <2>4. ASSUME NEW f \in c.left, NEW l \in Loc, LinksAt(self, p, r, f, l)
          PROVE  NoOrphanLinks'
      <3>1. CASE LinkFile(self, p, r, f, l)
        <4>1. /\ UNCHANGED store /\ prefix' = [prefix EXCEPT ![l] = Text(p, r, f)]
              /\ l = Dest[r][f] \/ p \in astray'
          BY <3>1 DEF LinkFile, Strays
        <4>2. f \in File /\ f \in store[p].files
          BY <2>1
        <4> QED BY <1>t, <2>1, <2>2, <4>1, <4>2, LinkAppears
      <3>2. CASE KeepLink(self, p, r, f, l)
        BY <1>0, <2>1, <3>2 DEF KeepLink
      <3>3. CASE RemoveStale(self, p, r, f, l)
        BY <1>t, <2>1, <3>3, LinksVanish DEF RemoveStale
      <3> QED BY <2>4, <3>1, <3>2, <3>3 DEF LinksAt
    <2>5. ASSUME NEW f, NEW q \in Pkg, NEW g \in File, LinkInStore(self, p, f, q, g)
          PROVE  NoOrphanLinks'
      <3>1. /\ UNCHANGED prefix /\ q \in astray'
            /\ \A x \in Pkg \ {q} : store'[x] = store[x]
        BY <1>t, <2>5 DEF LinkInStore, TypeOK
      <3>2. \A l \in Loc : IsLink(prefix[l]) => prefix[l].pkg \in Pkg
        BY <1>t, LinkAt
      <3> QED BY <1>t, <2>1, <3>1, <3>2 DEF NoOrphanLinks, Unreadable
    <2>6. ASSUME NEW f, LinkElsewhere(self, p, f) PROVE NoOrphanLinks'
      BY <1>0, <2>1, <2>6 DEF LinkElsewhere
    <2> QED BY <1>3, <2>3, <2>4, <2>5, <2>6 DEF WritesLink
  <1>4. ASSUME UNCHANGED <<disk, history>> PROVE NoOrphanLinks'
    BY <1>0, <1>4 DEF history
  <1> QED BY <1>t, <1>1, <1>2, <1>3, <1>4, DiskStep

\* Completeness of a package is at stake only where its store changes.
LEMMA CompleteChange ==
    ASSUME Complete, NEW p \in Pkg, \A q \in Pkg \ {p} : store'[q] = store[q],
           torn \ {p} \subseteq torn', p \in torn' \/ CompletePackage(p, store'[p])
    PROVE  Complete'
  BY DEF Complete, CompletePackage, Unreadable

\* Install puts complete packages in place, and puts back what it took away;
\* only an interrupted removal, and a link that goes astray, leave others.
LEMMA CompleteStep == Inv /\ [Next]_vars => Complete'
  <1> SUFFICES ASSUME Inv, [Next]_vars PROVE Complete'
    OBVIOUS
  <1>t. TypeOK /\ Complete
    BY DEF Inv
  <1>0. ASSUME UNCHANGED <<store, torn>> PROVE Complete'
    BY <1>t, <1>0 DEF Complete, Unreadable
  <1>1. ASSUME NEW self, NEW p, NEW r, NEW f, NEW l \in Loc, Unlink(self, p, r, f, l)
        PROVE  Complete'
    BY <1>0, <1>1 DEF Unlink, history
  <1>2. ASSUME NEW self \in Proc, NEW p \in cmd[self].cur, Replaces(self, p)
        PROVE  Complete'
    <2> DEFINE c == cmd[self]
    <2>0. /\ p \in Pkg /\ CommandInv(c) /\ c \in Command
          /\ \A q \in Pkg \ {p} : store'[q] = store[q]
          /\ torn \ {p} \subseteq torn'
      BY <1>2, ReplaceFacts
    <2>1. p \in torn' \/ CompletePackage(p, store'[p])
      <3>1. CASE BackUp(self, p) \/ Removed(self, p)
        <4>1. store'[p] = NoPackage
          BY <1>t, <2>0, <3>1 DEF BackUp, Removed, TypeOK
        <4> QED BY <4>1 DEF NoPackage, CompletePackage
      <3>2. CASE Put(self, p)
        <4>1. store'[p] = Staged(c, p)
          BY <1>t, <2>0, <3>2 DEF Put, TypeOK
        <4>2. c.art[p] \in Digest
          BY <2>0, <3>2 DEF Put, CommandInv, PlanInv
        <4> QED BY <4>1, <4>2, StoreAssumption DEF Staged, CompletePackage, NoDigest
      <3>3. CASE WriteMetadata(self, p)
        <4>1. store[p].present /\ store[p].digest = c.art[p]
          BY <1>2, <2>0, <3>3 DEF WriteMetadata, CommandInv, CurInv, Passed
        <4>2. /\ store'[p].present /\ store'[p].digest = store[p].digest
              /\ store'[p].files = store[p].files /\ store'[p].alien = store[p].alien
          BY <1>t, <2>0, <3>3, <4>1 DEF WriteMetadata, TypeOK, Package
        <4>3. torn' = torn
          BY <3>3 DEF WriteMetadata, history
        <4> QED BY <1>t, <2>0, <4>1, <4>2, <4>3 DEF Complete, CompletePackage, Unreadable
      <3>4. ASSUME NEW files, NEW keepMeta, RemoveSome(self, p, files, keepMeta)
            PROVE  p \in torn'
        BY <3>4 DEF RemoveSome
      <3>5. CASE PutBack(self, p)
        <4>1. store'[p] = c.backup /\ torn' = torn /\ c.pc = "put"
          BY <1>t, <2>0, <3>5 DEF PutBack, TypeOK, history
        <4> QED BY <1>2, <2>0, <4>1 DEF CommandInv, CurInv
      <3> QED BY <1>2, <3>1, <3>2, <3>3, <3>4, <3>5 DEF Replaces
    <2> QED BY <1>t, <2>0, <2>1, CompleteChange
  <1>3. ASSUME NEW self \in Proc, NEW p \in Pkg, NEW r \in Root, WritesLink(self, p, r)
        PROVE  Complete'
    <2>1. UNCHANGED torn
      BY <1>3, WriteFacts
    <2>2. CASE \E f, q, g : q \in Pkg /\ LinkInStore(self, p, f, q, g)
      <3>1. PICK f, q, g : q \in Pkg /\ LinkInStore(self, p, f, q, g)
        BY <2>2
      <3>2. store'[q].alien /\ \A x \in Pkg \ {q} : store'[x] = store[x]
        BY <1>t, <3>1 DEF LinkInStore, TypeOK, Package
      <3>3. CompletePackage(q, store'[q])
        BY <3>2 DEF CompletePackage
      <3> QED BY <1>t, <2>1, <3>1, <3>2, <3>3, CompleteChange
    <2>3. CASE ~(\E f, q, g : q \in Pkg /\ LinkInStore(self, p, f, q, g))
      <3>1. UNCHANGED store
        BY <1>3, <2>3 DEF WritesLink, LinksAt, MakeDir, LinkFile, KeepLink, RemoveStale,
                          LinkElsewhere, disk
      <3> QED BY <1>0, <2>1, <3>1
    <2> QED BY <2>2, <2>3
  <1>4. ASSUME UNCHANGED <<disk, history>> PROVE Complete'
    BY <1>0, <1>4 DEF disk, history
  <1> QED BY <1>t, <1>1, <1>2, <1>3, <1>4, DiskStep

-----------------------------------------------------------------------------
\* The invariant.

\* A fresh prefix and one that an older bm filled satisfy the invariant.
LEMMA InitInv == Init => Inv
  <1> SUFFICES ASSUME Init PROVE Inv
    OBVIOUS
  <1>1. PICK old \in {{}, Legacy}, kept \in Existing :
          /\ store = [p \in Pkg |->
                IF \A o \in old : o.pkg # p THEN NoPackage
                ELSE [present |-> TRUE, digest |-> 1, files |-> Content[p][1],
                      alien |-> FALSE,
                      roots |-> {o.root : o \in {q \in old : q.pkg = p}}]]
          /\ prefix = [l \in Loc |->
                IF Projection(old, l) # {}
                THEN CHOOSE e \in Projection(old, l) : TRUE
                ELSE IF \E m \in Loc : Projection(old, m) # {} /\ l \in Above[m]
                THEN Directory
                ELSE kept[l]]
    BY DEF Init
  <1>2. /\ holder = NoOne /\ cmd = [s \in Proc |-> Idle]
        /\ commands = 0 /\ aborts = 0 /\ torn = {} /\ astray = {}
    BY DEF Init
  <1>3. old \subseteq Operation
    BY <1>1, StoreAssumption
  <1>4. \A l \in Loc : \/ prefix[l] \in Projection(old, l)
                       \/ prefix[l] \in {Absent, Directory, Foreign} \union UserLinks
    BY <1>1, StoreAssumption
  <1>5. \A l \in Loc : Projection(old, l) \subseteq Links
    BY DEF Projection
  <1>6. \A p \in Pkg : (\A o \in old : o.pkg # p) \/
          store[p] = [present |-> TRUE, digest |-> 1, files |-> Content[p][1],
                      alien |-> FALSE,
                      roots |-> {o.root : o \in {q \in old : q.pkg = p}}]
    BY <1>1
  <1>7. store \in [Pkg -> Package]
    <2>1. ASSUME NEW p \in Pkg
          PROVE  [present |-> TRUE, digest |-> 1, files |-> Content[p][1], alien |-> FALSE,
                  roots |-> {o.root : o \in {q \in old : q.pkg = p}}] \in Package
      <3>1. {o.root : o \in {q \in old : q.pkg = p}} \in SUBSET Root
        BY <1>3 DEF Operation
      <3>2. Content[p][1] \in SUBSET File
        BY StoreAssumption
      <3> QED BY <3>1, <3>2, StoreAssumption DEF Package
    <2> QED BY <1>1, <2>1, IdleType
  <1>8. TypeOK
    <2>1. prefix \in [Loc -> Entry]
      BY <1>1, <1>4, <1>5 DEF Entry
    <2>2. cmd \in [Proc -> Command] /\ \A s \in Proc : cmd[s].pc \in Locked <=> holder = s
      BY <1>2, IdleType, StoreAssumption DEF Locked
    <2> QED BY <1>1, <1>2, <1>7, <2>1, <2>2 DEF TypeOK
  <1>9. NoOrphanLinks
    <2> SUFFICES ASSUME NEW l \in Loc, IsLink(prefix[l])
                 PROVE  LET p == prefix[l].pkg  f == prefix[l].file
                        IN  /\ store[p].present
                            /\ ~Unreadable(p)
                            /\ f \in store[p].files
                            /\ prefix[l].up = Up[l]
                            /\ \E r \in store[p].roots : Dest[r][f] = l
      BY DEF NoOrphanLinks
    <2> DEFINE p == prefix[l].pkg
               f == prefix[l].file
    <2>1. prefix[l] \in Projection(old, l)
      BY <1>4, LinkFacts
    <2>2. PICK o \in old : o.pkg = p /\ f \in Content[p][1] /\ Dest[o.root][f] = l
      BY <2>1 DEF Projection
    <2>3. prefix[l].up = Up[l]
      BY <2>1 DEF Projection
    <2>4. store[p] = [present |-> TRUE, digest |-> 1, files |-> Content[p][1],
                      alien |-> FALSE,
                      roots |-> {q.root : q \in {x \in old : x.pkg = p}}]
      BY <1>6, <1>8, <2>2, LinkAt
    <2>5. /\ store[p].present /\ ~Unreadable(p) /\ f \in store[p].files
          /\ o.root \in store[p].roots
      BY <2>2, <2>4 DEF Unreadable, NoDigest
    <2> QED BY <2>2, <2>3, <2>5
  <1>10. \A p \in Pkg : /\ ~store[p].alien
                        /\ store[p].present =>
                             ~Unreadable(p) /\ store[p].files = Content[p][store[p].digest]
    <2> SUFFICES ASSUME NEW p \in Pkg
                 PROVE  /\ ~store[p].alien
                        /\ store[p].present =>
                             ~Unreadable(p) /\ store[p].files = Content[p][store[p].digest]
      OBVIOUS
    <2>1. CASE \A o \in old : o.pkg # p
      <3>1. store[p] = NoPackage
        BY <1>1, <2>1
      <3> QED BY <3>1 DEF NoPackage
    <2>2. CASE ~(\A o \in old : o.pkg # p)
      <3>1. store[p] = [present |-> TRUE, digest |-> 1, files |-> Content[p][1],
                        alien |-> FALSE,
                        roots |-> {o.root : o \in {q \in old : q.pkg = p}}]
        BY <1>6, <2>2
      <3>2. store[p].digest = 1 /\ store[p].files = Content[p][1] /\ ~store[p].alien
        BY <3>1
      <3> QED BY <3>2 DEF Unreadable, NoDigest
    <2> QED BY <2>1, <2>2
  <1>11. \A s \in Proc : CommandInv(cmd[s])
    BY <1>2, IdleType DEF CommandInv, CurInv, LinkInv, Working, Linking
  <1>12. Standing
    BY DEF Init, Standing
  <1> QED BY <1>8, <1>9, <1>10, <1>11, <1>12 DEF Inv, AlienAstray, Complete

\* Every step preserves the invariant.
LEMMA InvStep == Inv /\ [Next]_vars => Inv'
  <1> SUFFICES ASSUME Inv, [Next]_vars PROVE Inv'
    OBVIOUS
  <1>t. TypeOK /\ \A s \in Proc : CommandInv(cmd[s]) /\ cmd[s].cur \subseteq Pkg
    BY DEF Inv, TypeOK, Command
  <1>1. Standing' /\ AlienAstray' /\ NoOrphanLinks' /\ Complete'
    BY StandingStep, AlienStep, LinksStep, CompleteStep
  <1>2. ASSUME NEW self \in Proc, Step(self)
        PROVE  \/ Prepare(self)
               \/ \E p \in Pkg : Job(self, p)
               \/ \E p \in Pkg, r \in Root : LinkPackage(self, p, r)
               \/ UnlinkFails(self) \/ Unlinked(self) \/ JobsDone(self)
               \/ LinksDone(self) \/ Unlock(self)
    <2>1. (\E p \in cmd[self].cur : DoJob(self, p)) => \E p \in Pkg : Job(self, p)
      BY <1>t DEF Job
    <2>2. (\E p \in Pkg : NextJob(self, p)) => \E p \in Pkg : Job(self, p)
      BY DEF Job
    <2> QED BY <1>2, <2>1, <2>2 DEF Step
  <1>3. ASSUME NEW self \in Proc, StepOf(self) PROVE TypeOK'
    BY <1>2, <1>3, <1>t, PrepareType, JobType, LinkType, OtherType DEF StepOf
  <1>4. ASSUME NEW self \in Proc, StepOf(self)
        PROVE  \A s \in Proc : CommandInv(cmd[s])'
    <2>1. CommandInv(cmd[self])'
      BY <1>2, <1>4, PrepareInv, JobStep, LinkStep, PassStep DEF StepOf
    <2>2. \A s \in Proc \ {self} : CommandInv(cmd[s])'
      BY <1>4, OthersStep
    <2> QED BY <2>1, <2>2
  <1>5. ASSUME UNCHANGED vars
        PROVE  TypeOK' /\ \A s \in Proc : CommandInv(cmd[s])'
    <2>1. TypeOK'
      BY <1>t, <1>5 DEF vars, TypeOK
    <2>2. \A s \in Proc : cmd'[s] = cmd[s]
      BY <1>5 DEF vars
    <2>3. UNCHANGED <<disk, history>>
      BY <1>5 DEF vars, disk, history
    <2> QED BY <1>t, <2>1, <2>2, <2>3, SameInv
  <1> QED BY <1>1, <1>3, <1>4, <1>5 DEF Inv, Next, StepOf

\* The invariant holds in every behaviour.
THEOREM StoreInvariance == Spec => []Inv
  BY InitInv, InvStep, PTL DEF Spec

\* Types, and the lock: it is held exactly by the process in its critical section.
THEOREM StoreTypes == Spec => []TypeOK
  <1>1. Inv => TypeOK
    BY DEF Inv
  <1> QED BY <1>1, StoreInvariance, PTL

\* Whatever symlinks the prefix has, no crash, failure or race leaves a link that
\* dangles, or that no metadata knows, to a package for which no link was made
\* through a symlink on its way and into whose store none was.  (Of the others it
\* says nothing: linkPackage follows symlinks, and such links may dangle.)
THEOREM LinksAreNeverOrphaned == Spec => []NoOrphanLinks
  <1>1. Inv => NoOrphanLinks
    BY DEF Inv
  <1> QED BY <1>1, StoreInvariance, PTL

\* A package is complete under its digest, whichever installs failed, unless its
\* removal was interrupted, or a link was written into its store through a symlink
\* and nothing has replaced the store since.
THEOREM PackagesAreComplete == Spec => []Complete
  <1>1. Inv => Complete
    BY DEF Inv
  <1> QED BY <1>1, StoreInvariance, PTL

-----------------------------------------------------------------------------
\* What a step may do to a path of the prefix.

\* The command that holds the lock may take away what is at l.
MayTake(l) ==
    \E s \in Proc : /\ holder = s
                    /\ \/ IsLink(prefix[l]) /\ prefix[l].pkg \in cmd[s].pkgs
                       \/ \E i \in DOMAIN cmd[s].ops : Arrives(cmd[s], i, l)

\* A path changes only from absent, or from a symlink that may be taken away.
Allowed(l) == \/ prefix'[l] = prefix[l]
              \/ prefix[l] = Absent
              \/ IsSymlink(prefix[l]) /\ MayTake(l)

\* Each step changes a path of the prefix only as allowed.
LEMMA PrefixStep == Inv /\ [Next]_vars => \A l \in Loc : Allowed(l)
  <1> SUFFICES ASSUME Inv, [Next]_vars, NEW l \in Loc PROVE Allowed(l)
    OBVIOUS
  <1>t. TypeOK /\ \A s \in Proc : CommandInv(cmd[s])
    BY DEF Inv
  <1>0. ASSUME UNCHANGED prefix PROVE Allowed(l)
    BY <1>0 DEF Allowed
  <1>1. ASSUME NEW self \in Proc, NEW p \in cmd[self].cur, NEW r, NEW f, NEW m \in Loc,
               Unlink(self, p, r, f, m)
        PROVE  Allowed(l)
    <2>1. holder = self /\ p \in cmd[self].pkgs
      BY <1>t, <1>1 DEF Unlink, TypeOK, Locked, CommandInv, JobInv, Working
    <2>2. IsLink(prefix[m]) /\ prefix[m].pkg = p
      BY <1>1, LinkFacts DEF Unlink, Own, Text
    <2>3. IsSymlink(prefix[m]) /\ MayTake(m)
      BY <2>1, <2>2, LinkFacts DEF MayTake
    <2>4. m = l \/ prefix'[l] = prefix[l]
      BY <1>t, <1>1 DEF Unlink, TypeOK
    <2> QED BY <2>3, <2>4 DEF Allowed
  <1>2. ASSUME NEW self \in Proc, NEW p \in cmd[self].cur, Replaces(self, p)
        PROVE  Allowed(l)
    BY <1>0, <1>2, ReplaceFacts
  <1>3. ASSUME NEW self \in Proc, NEW p \in Pkg, NEW r \in Root, WritesLink(self, p, r)
        PROVE  Allowed(l)
    <2> DEFINE c == cmd[self]
    <2>1. AtOperation(c, p, r) /\ c.left \subseteq UnlinkFiles(p)
      BY <1>3, WriteFacts
    <2>2. holder = self /\ c.k \in DOMAIN c.ops /\ c.ops[c.k] = [pkg |-> p, root |-> r]
      BY <2>1, AtHand
    <2>3. ASSUME NEW m \in Loc, prefix[m] = Absent,
                 \E e : prefix' = [prefix EXCEPT ![m] = e]
          PROVE  Allowed(l)
      BY <1>t, <2>3 DEF Allowed, TypeOK
    <2>4. ASSUME NEW f \in c.left, NEW m \in Loc, Place(Dest[r][f]) = At(m),
                 RemoveStale(self, p, r, f, m)
          PROVE  Allowed(l)
      <3>1. Arrives(c, c.k, m)
        BY <2>1, <2>2, <2>4 DEF Arrives
      <3>2. IsSymlink(prefix[m]) /\ MayTake(m)
        BY <2>2, <2>4, <3>1 DEF RemoveStale, MayTake
      <3>3. m = l \/ prefix'[l] = prefix[l]
        BY <1>t, <2>4 DEF RemoveStale, TypeOK
      <3> QED BY <3>2, <3>3 DEF Allowed
    <2>5. ASSUME NEW m \in Loc, MakeDir(self, r, m) PROVE Allowed(l)
      BY <2>3, <2>5 DEF MakeDir
    <2>6. ASSUME NEW f, NEW m \in Loc, LinkFile(self, p, r, f, m) PROVE Allowed(l)
      BY <2>3, <2>6 DEF LinkFile
    <2>7. ASSUME NEW f, NEW q, NEW g, NEW m,
                 \/ KeepLink(self, p, r, f, m)
                 \/ LinkInStore(self, p, f, q, g)
                 \/ LinkElsewhere(self, p, f)
          PROVE  Allowed(l)
      BY <1>0, <2>7 DEF KeepLink, LinkInStore, LinkElsewhere, disk
    <2> QED BY <1>3, <2>4, <2>5, <2>6, <2>7 DEF WritesLink, LinksAt
  <1>4. ASSUME UNCHANGED <<disk, history>> PROVE Allowed(l)
    BY <1>0, <1>4 DEF disk
  <1> QED BY <1>t, <1>1, <1>2, <1>3, <1>4, DiskStep

\* No regular file of the user's in the prefix, and no directory there, is ever
\* replaced or removed.  (A symlink of the user's is, where an operation arrives
\* at it; that it is taken away nowhere else is OthersAreKept.)
THEOREM UserFilesAreKept == Spec => UserFilesKept
  <1>1. Inv /\ [Next]_vars =>
          \A l \in Loc : prefix[l] \in {Directory, Foreign} => prefix'[l] = prefix[l]
    BY PrefixStep, LinkFacts DEF Allowed, Absent, Directory, Foreign
  <1>2. Inv /\ [Next]_vars =>
          [\A l \in Loc : prefix[l] \in {Directory, Foreign} => prefix'[l] = prefix[l]]_vars
    BY <1>1
  <1> QED BY <1>2, StoreInvariance, PTL DEF Spec, UserFilesKept

\* A command takes away only links to its own packages, and symlinks, whoever made
\* them, at which one of its own operations arrives.
THEOREM OthersAreKept == Spec => OthersKept
  <1>1. Inv /\ [Next]_vars =>
          [\A l \in Loc : IsSymlink(prefix[l]) /\ prefix'[l] # prefix[l] =>
             \E s \in Proc : /\ holder = s
                             /\ \/ IsLink(prefix[l]) /\ prefix[l].pkg \in cmd[s].pkgs
                                \/ \E i \in DOMAIN cmd[s].ops :
                                      Arrives(cmd[s], i, l)]_vars
    <2> SUFFICES ASSUME Inv, [Next]_vars, NEW l \in Loc, IsSymlink(prefix[l]),
                        prefix'[l] # prefix[l]
                 PROVE  MayTake(l)
      BY DEF MayTake
    <2>1. prefix[l] # Absent
      BY LinkFacts
    <2> QED BY <2>1, PrefixStep DEF Allowed
  <1> QED BY <1>1, StoreInvariance, PTL DEF Spec, OthersKept

-----------------------------------------------------------------------------
(***************************************************************************)
(* An install which succeeds, and none of whose links went through a       *)
(* symlink, leaves the prefix as its plan declares it, whatever was there  *)
(* before, whichever commands ran and failed, and whatever other processes *)
(* do meanwhile.                                                           *)
(*                                                                         *)
(* Two facts carry it.  When the jobs are done no link leads to a package  *)
(* of the plan (JobsRec), so all there are afterwards were made by its     *)
(* operations.  And the operations that are done hold the paths they claim *)
(* until a later one claims them (LinksRec).                               *)
(***************************************************************************)

\* The job of p is done: it has the digest that was resolved, and no links.
Fresh(c, p) == store[p].digest = c.art[p] /\ NoLinks(p)

JobsRec(c) ==
    c.install /\ c.pc \in {"job"} \union Working =>
        \A p \in c.pkgs \ c.todo : (p \in c.cur /\ c.pc \in Working) \/ Fresh(c, p)

\* The links an operation makes at l.
Made(c, i, l) == {Link(c.ops[i].pkg, f, Up[l]) : f \in LinkFiles(c.ops[i].pkg)}

\* Links to the packages of the plan are where an operation claims the path.
OnlyPlanned(c) ==
    \A l \in Loc : IsLink(prefix[l]) /\ prefix[l].pkg \in c.pkgs =>
       \E i \in DOMAIN c.ops : c.ops[i].pkg = prefix[l].pkg /\ Claims(c, i, l)

\* An operation that is done has its paths, but for those that a later one, the
\* one at hand included, claims as well.
Placed(c) ==
    \A l \in Loc, i \in DOMAIN c.ops :
       i < c.k /\ Claims(c, i, l) /\ (\A j \in DOMAIN c.ops : j > i /\ j <= c.k => ~Claims(c, j, l))
       => prefix[l] \in Made(c, i, l)

\* The operation at hand has linked all of its files but those that are left.
DoneSoFar(c, p, r) ==
    \A f \in LinkFiles(p) \ c.left : prefix[Dest[r][f]] = Text(p, r, f)

Ahead(c) == c.pc \in {"files", "place"} =>
              DoneSoFar(c, c.ops[c.k].pkg, c.ops[c.k].root)

\* None of the packages has anything astray.
OnCourse(c) == \A p \in c.pkgs : p \notin astray

LinksRec(c) ==
    c.install /\ c.pc \in Linking \union {"done"} =>
        /\ \A p \in c.pkgs : Ready(c, p) /\ store[p].digest = c.art[p]
        /\ OnCourse(c) => OnlyPlanned(c) /\ Placed(c) /\ Ahead(c)
        /\ c.pc = "done" => c.k > Len(c.ops)

\* Before that, the operation at hand is the first one.
Begun(c) == c.pc \notin Linking \union {"done"} => c.k = 1

Rec(c) == Begun(c) /\ JobsRec(c) /\ LinksRec(c)

RecInv == Inv /\ \A s \in Proc : Rec(cmd[s])

-----------------------------------------------------------------------------
\* What a command that does not run relies on survives.
LEMMA RecSame ==
    ASSUME NEW s \in Proc, Rec(cmd[s]), cmd'[s] = cmd[s],
           cmd[s].pc \notin Locked \/ UNCHANGED <<disk, history>>
    PROVE  Rec(cmd[s])'
  <1>1. CASE cmd[s].pc \notin Locked
    BY <1>1 DEF Rec, Begun, JobsRec, LinksRec, Locked, Working, Linking
  <1>2. CASE UNCHANGED <<disk, history>>
    <2> DEFINE c == cmd[s]
    <2>1. UNCHANGED <<prefix, store, astray, c>>
      BY <1>2 DEF disk, history
    <2>2. JobsRec(c)'
      BY <2>1 DEF Rec, JobsRec, Fresh, NoLinks
    <2>3. /\ OnlyPlanned(c)' <=> OnlyPlanned(c)
          /\ Placed(c)' <=> Placed(c)
          /\ Ahead(c)' <=> Ahead(c)
          /\ OnCourse(c)' <=> OnCourse(c)
      BY <2>1 DEF OnlyPlanned, Placed, Made, Claims, Ahead, DoneSoFar, LinkFiles, OnCourse,
                  Text
    <2>4. \A p : Ready(c, p)' <=> Ready(c, p)
      BY <2>1 DEF Ready, Unreadable, LinkTo
    <2>5. LinksRec(c)'
      BY <2>1, <2>3, <2>4 DEF Rec, LinksRec
    <2> QED BY <2>1, <2>2, <2>5 DEF Rec, Begun
  <1> QED BY <1>1, <1>2

LEMMA RecOthers ==
    ASSUME RecInv, NEW self \in Proc, StepOf(self), NEW s \in Proc \ {self}
    PROVE  Rec(cmd[s])'
  <1>1. cmd'[s] = cmd[s] /\ (cmd[self].pc \in Locked \/ UNCHANGED <<disk, history>>)
    BY StepFrame DEF RecInv, Inv
  <1>2. cmd[s].pc \notin Locked \/ cmd[self].pc \notin Locked
    BY DEF RecInv, Inv, TypeOK
  <1> QED BY <1>1, <1>2, RecSame DEF RecInv

LEMMA RecReturn ==
    ASSUME TypeOK, NEW self \in Proc, Return(self)
    PROVE  Rec(cmd[self])'
  <1>1. cmd'[self] = Idle
    BY DEF TypeOK, Return
  <1> QED BY <1>1 DEF Idle, Rec, Begun, JobsRec, LinksRec

\* Before the first job nothing is promised.
LEMMA RecPrepare ==
    ASSUME RecInv, NEW self \in Proc, Start(self) \/ Prepare(self)
    PROVE  Rec(cmd[self])'
  <1> DEFINE c == cmd[self]
  <1>t. TypeOK /\ c \in Command /\ (c.pc \in Unlocked \union {"check"} => c.k = 1)
    BY DEF RecInv, Inv, TypeOK, Rec, Begun, Linking, Unlocked
  <1>1. ASSUME c'.pc \in {"read", "ready", "check"}, c'.k = 1 PROVE Rec(c)'
    BY <1>1 DEF Rec, Begun, JobsRec, LinksRec, Working, Linking
  <1>2. ASSUME NEW wanted \in Plan, NEW d \in [Pkg -> Digest], StartInstall(self, wanted, d)
        PROVE  Rec(c)'
    BY <1>1, <1>2, <1>t DEF StartInstall, Goto, Idle, TypeOK
  <1>3. ASSUME NEW names \in SUBSET Pkg, StartRemove(self, names) PROVE Rec(c)'
    BY <1>1, <1>3, <1>t DEF StartRemove, Goto, Idle, TypeOK
  <1>4. ASSUME NEW p \in Pkg, ReadMetadata(self, p) PROVE Rec(c)'
    <2>1. CASE Return(self)
      BY <1>t, <2>1, RecReturn
    <2>2. CASE ~Return(self)
      <3>1. PICK ch : Goto(self, [c EXCEPT !.todo = @ \ {p}, !.changed = ch])
        BY <1>4, <2>2 DEF ReadMetadata
      <3>2. c' = [c EXCEPT !.todo = @ \ {p}, !.changed = ch]
        BY <1>t, <3>1, GotoIs
      <3>3. c'.pc = "read" /\ c'.k = 1
        BY <1>4, <1>t, <3>2 DEF ReadMetadata, Command, Unlocked
      <3> QED BY <1>1, <3>3
    <2> QED BY <2>1, <2>2
  <1>5. ASSUME Stage(self) \/ Lock(self) PROVE Rec(c)'
    BY <1>1, <1>5, <1>t DEF Stage, Lock, Goto, TypeOK, Command, Unlocked
  <1>6. ASSUME Check(self) PROVE Rec(c)'
    <2>1. CASE Return(self)
      BY <1>t, <2>1, RecReturn
    <2>2. CASE ~Return(self)
      <3>1. Goto(self, [c EXCEPT !.pc = "job", !.todo = c.pkgs, !.meta = store])
        BY <1>6, <2>2 DEF Check
      <3>2. c' = [c EXCEPT !.pc = "job", !.todo = c.pkgs, !.meta = store]
        BY <1>t, <3>1, GotoIs
      <3>3. c'.pc = "job" /\ c'.todo = c.pkgs /\ c'.pkgs = c.pkgs /\ c'.k = 1
        BY <1>6, <1>t, <3>2 DEF Check, Command
      <3> QED BY <3>3 DEF Rec, Begun, JobsRec, LinksRec, Linking
    <2> QED BY <2>1, <2>2
  <1> QED BY <1>2, <1>3, <1>4, <1>5, <1>6 DEF Start, Prepare

-----------------------------------------------------------------------------
\* A job leaves its package fresh, and the others as they are.
LEMMA RecJob ==
    ASSUME RecInv, NEW self \in Proc, NEW p \in Pkg, Job(self, p)
    PROVE  Rec(cmd[self])'
  <1> DEFINE c == cmd[self]
  <1>t. TypeOK /\ c \in Command /\ CommandInv(c) /\ Rec(c)
    BY DEF RecInv, Inv, TypeOK
  <1>j. c.pc \in {"job"} \union Working /\ JobInv(c)
    BY <1>t DEF Job, DoJob, NextJob, Unlink, BackUp, Put, WriteMetadata, RemoveSome, Removed,
                CommandInv, Working
  <1>c. c.pc \in Working /\ p \in c.cur => c.cur = {p} /\ p \in c.pkgs \ c.todo
    BY <1>j DEF JobInv
  <1>k. c.k = 1
    BY <1>t, <1>j DEF Rec, Begun, Working, Linking
  <1>1. ASSUME NextJob(self, p) PROVE Rec(c)'
    <2>1. PICK pc \in {"unlink", "swap"} :
            Goto(self, [c EXCEPT !.todo = @ \ {p}, !.cur = {p}, !.pc = pc])
      BY <1>1 DEF NextJob
    <2>2. c' = [c EXCEPT !.todo = @ \ {p}, !.cur = {p}, !.pc = pc]
      BY <1>t, <2>1, GotoIs
    <2>3. /\ c'.pc = pc /\ c'.install = c.install /\ c'.art = c.art
          /\ c'.pkgs = c.pkgs /\ c'.todo = c.todo \ {p} /\ c'.cur = {p} /\ c'.k = c.k
      BY <1>t, <2>2 DEF Command
    <2>4. UNCHANGED <<prefix, store, astray>> /\ c.pc = "job"
      BY <1>1 DEF NextJob, disk, history
    <2>5. \A q \in c.pkgs : Fresh(c, q) => Fresh(c, q)'
      BY <2>3, <2>4 DEF Fresh, NoLinks
    <2>6. JobsRec(c)'
      BY <1>t, <2>1, <2>3, <2>4, <2>5 DEF Rec, JobsRec, Working
    <2> QED BY <1>k, <2>1, <2>3, <2>6 DEF Rec, Begun, LinksRec, Linking
  <1>2. ASSUME NEW r, NEW f, NEW m \in Loc, Unlink(self, p, r, f, m) PROVE Rec(c)'
    <2>1. UNCHANGED <<c, store, astray>> /\ c.pc = "unlink"
      BY <1>2 DEF Unlink, history
    <2>2. \A l \in Loc : prefix'[l] = prefix[l] \/ prefix'[l] = Absent
      BY <1>t, <1>2 DEF Unlink, TypeOK
    <2>3. \A q \in c.pkgs : Fresh(c, q) => Fresh(c, q)'
      BY <2>1, <2>2, LinkFacts DEF Fresh, NoLinks
    <2> QED BY <1>t, <2>1, <2>3 DEF Rec, Begun, JobsRec, LinksRec, Linking
  <1> DEFINE Frame == /\ \A q \in Pkg \ {p} : store'[q] = store[q]
                      /\ UNCHANGED <<prefix, astray>>
                      /\ c'.install = c.install /\ c'.art = c.art
                      /\ c'.pkgs = c.pkgs /\ c'.todo = c.todo /\ c'.cur = c.cur
                      /\ c'.k = c.k /\ c.pc \in Working /\ p \in c.cur
  <1>3. ASSUME Frame, c'.pc \in Working PROVE Rec(c)'
    <2>1. \A q \in c.pkgs \ {p} : Fresh(c, q) => Fresh(c, q)'
      BY <1>3, <1>t DEF Fresh, NoLinks, Command
    <2>2. JobsRec(c)'
      BY <1>t, <1>c, <1>3, <2>1 DEF Rec, JobsRec
    <2> QED BY <1>k, <1>3, <2>2 DEF Rec, Begun, LinksRec, Linking, Working
  <1>4. ASSUME Frame, c'.pc = "job", c.install => Fresh(c, p)' PROVE Rec(c)'
    <2>1. \A q \in c.pkgs \ {p} : Fresh(c, q) => Fresh(c, q)'
      BY <1>4, <1>t DEF Fresh, NoLinks, Command
    <2>2. JobsRec(c)'
      BY <1>t, <1>c, <1>4, <2>1 DEF Rec, JobsRec
    <2> QED BY <1>k, <1>4, <2>2 DEF Rec, Begun, LinksRec, Linking
  <1>5. ASSUME BackUp(self, p) PROVE Rec(c)'
    <2>1. c' = [c EXCEPT !.pc = "put", !.backup = store[p]]
      BY <1>5, <1>t, GotoIs DEF BackUp
    <2>2. Frame /\ c'.pc \in Working
      BY <1>5, <1>t, <2>1 DEF BackUp, Command, TypeOK, Working, history
    <2> QED BY <1>3, <2>2
  <1>6. ASSUME Put(self, p) PROVE Rec(c)'
    <2>1. c' = [c EXCEPT !.pc = "job", !.backup = NoPackage]
      BY <1>6, <1>t, GotoIs DEF Put
    <2>2. Frame /\ c'.pc = "job"
      BY <1>6, <1>t, <2>1 DEF Put, Command, TypeOK, Working, history
    <2>3. NoLinks(p) /\ store'[p].digest = c.art[p]
      BY <1>6, <1>t DEF Put, TypeOK, CommandInv, CurInv, Staged
    <2>4. Fresh(c, p)'
      BY <2>2, <2>3 DEF Fresh, NoLinks
    <2> QED BY <1>4, <2>2, <2>4
  <1>7. ASSUME WriteMetadata(self, p) PROVE Rec(c)'
    <2>1. c' = [c EXCEPT !.pc = "job"]
      BY <1>7, <1>t, GotoIs DEF WriteMetadata
    <2>2. Frame /\ c'.pc = "job"
      BY <1>7, <1>t, <2>1 DEF WriteMetadata, Command, TypeOK, Working, history
    <2>3. NoLinks(p) /\ store'[p].digest = c.art[p]
      BY <1>7, <1>t DEF WriteMetadata, TypeOK, Package, CommandInv, CurInv
    <2>4. Fresh(c, p)'
      BY <2>2, <2>3 DEF Fresh, NoLinks
    <2> QED BY <1>4, <2>2, <2>4
  <1>8. ASSUME NEW files \in SUBSET File, NEW keepMeta \in BOOLEAN,
               RemoveSome(self, p, files, keepMeta)
        PROVE  Rec(c)'
    <2>1. c' = c /\ c.pc = "removing"
      BY <1>8 DEF RemoveSome
    <2>2. Frame
      BY <1>8, <1>t, <2>1 DEF RemoveSome, TypeOK, Working, history
    <2> QED BY <1>3, <2>1, <2>2 DEF Working
  <1>9. ASSUME Removed(self, p) PROVE Rec(c)'
    <2>1. c' = [c EXCEPT !.pc = "job"] /\ ~c.install
      BY <1>9, <1>t, GotoIs DEF Removed, CommandInv
    <2>2. Frame /\ c'.pc = "job"
      BY <1>9, <1>t, <2>1 DEF Removed, Command, TypeOK, Working, history
    <2> QED BY <1>4, <2>1, <2>2
  <1> QED BY <1>1, <1>2, <1>5, <1>6, <1>7, <1>8, <1>9 DEF Job, DoJob

-----------------------------------------------------------------------------
\* Linking: what a command has to keep from one step to the next.
LEMMA RecKeep ==
    ASSUME RecInv, NEW self \in Proc,
           cmd[self].pc \in Linking, cmd'[self].pc \in Linking,
           cmd'[self].install = cmd[self].install, cmd'[self].art = cmd[self].art,
           cmd'[self].pkgs = cmd[self].pkgs, cmd'[self].ops = cmd[self].ops,
           CommandInv(cmd[self])',
           \A q \in Pkg : store'[q].digest = store[q].digest,
           OnCourse(cmd[self])' =>
              OnlyPlanned(cmd[self])' /\ Placed(cmd[self])' /\ Ahead(cmd[self])'
    PROVE  Rec(cmd[self])'
  <1> DEFINE c == cmd[self]
  <1>1. LinksRec(c) /\ c.pkgs \subseteq Pkg
    BY DEF RecInv, Rec, Inv, TypeOK, Command
  <1>2. c.install => \A p \in c.pkgs : store[p].digest = c.art[p]
    BY <1>1 DEF LinksRec
  <1>3. \A p \in c'.pkgs : Ready(c, p)'
    BY DEF CommandInv, LinkInv
  <1>4. c'.install => \A p \in c'.pkgs : Ready(c, p)' /\ store'[p].digest = c'.art[p]
    BY <1>1, <1>2, <1>3
  <1>5. LinksRec(c)'
    BY <1>4 DEF LinksRec, Linking
  <1> QED BY <1>5 DEF Rec, Begun, JobsRec, Working, Linking

\* What is known of the operation at hand, if nothing is astray.
LEMMA HandFacts ==
    ASSUME RecInv, NEW self \in Proc, NEW p \in Pkg, NEW r \in Root,
           AtOperation(cmd[self], p, r), OnCourse(cmd[self])
    PROVE  LET c == cmd[self]
           IN  /\ p \notin astray /\ ~store[p].alien
               /\ OnlyPlanned(c) /\ Placed(c)
               /\ c.pc \in {"files", "place"} =>
                     /\ DoneSoFar(c, p, r) /\ c.left \subseteq LinkFiles(p)
                     /\ \A f \in c.left : Dest[r][f] \in Loc /\ Claims(c, c.k, Dest[r][f])
  <1> DEFINE c == cmd[self]
  <1>1. /\ c.install /\ p \in c.pkgs /\ c.k \in DOMAIN c.ops
        /\ c.ops[c.k] = [pkg |-> p, root |-> r] /\ c.left \subseteq File
    BY AtHand DEF RecInv
  <1>2. p \notin astray /\ ~store[p].alien
    BY <1>1 DEF OnCourse, RecInv, Inv, AlienAstray
  <1>3. OnlyPlanned(c) /\ Placed(c) /\ Ahead(c)
    BY <1>1 DEF RecInv, Rec, LinksRec, AtOperation, Linking
  <1>4. ASSUME c.pc \in {"files", "place"}
        PROVE  /\ DoneSoFar(c, p, r) /\ c.left \subseteq LinkFiles(p)
               /\ \A f \in c.left : Dest[r][f] \in Loc /\ Claims(c, c.k, Dest[r][f])
    <2>1. DoneSoFar(c, p, r)
      BY <1>1, <1>3, <1>4 DEF Ahead
    <2>2. c.left \subseteq LinkFiles(p)
      BY <1>2, <1>4, LeftFacts DEF RecInv, LeftInv
    <2>3. \A f \in File : Dest[r][f] \in Loc
      BY StoreAssumption
    <2>4. \A f \in LinkFiles(p) : Claims(c, c.k, Dest[r][f])
      BY <1>1 DEF Claims
    <2> QED BY <1>1, <2>1, <2>2, <2>3, <2>4
  <1> QED BY <1>2, <1>3, <1>4

\* A step of the operation at hand may clear the path of a file that is left, link
\* it, or make a directory where there is nothing.
LEMMA RecWrite ==
    ASSUME RecInv, NEW self \in Proc, NEW p \in Pkg, NEW r \in Root,
           AtOperation(cmd[self], p, r), OnCourse(cmd[self]), UNCHANGED store,
           cmd[self].pc \in {"files", "place"},
           cmd'[self].pkgs = cmd[self].pkgs, cmd'[self].ops = cmd[self].ops,
           cmd'[self].k = cmd[self].k,
           NEW m \in Loc, NEW e, prefix' = [prefix EXCEPT ![m] = e],
           \/ e = Directory /\ prefix[m] = Absent /\ cmd'[self].left = cmd[self].left
           \/ \E f \in cmd[self].left :
                /\ m = Dest[r][f]
                /\ \/ e = Absent /\ cmd'[self].left = cmd[self].left
                   \/ e = Text(p, r, f) /\ cmd'[self].left = cmd[self].left \ {f}
    PROVE  OnlyPlanned(cmd[self])' /\ Placed(cmd[self])' /\ Ahead(cmd[self])'
  <1> DEFINE c == cmd[self]
  <1>0. /\ c \in Command /\ c.k \in DOMAIN c.ops /\ DOMAIN c.ops \subseteq Nat
        /\ c.ops[c.k] = [pkg |-> p, root |-> r] /\ c.left \subseteq File
        /\ prefix \in [Loc -> Entry]
    BY AtHand DEF RecInv, Inv, TypeOK
  <1>h. /\ OnlyPlanned(c) /\ Placed(c) /\ DoneSoFar(c, p, r)
        /\ \A f \in c.left : Dest[r][f] \in Loc /\ Claims(c, c.k, Dest[r][f])
    BY HandFacts
  <1>1. /\ prefix'[m] = e
        /\ \A l \in Loc : l # m => prefix'[l] = prefix[l]
    BY <1>0
  <1>2. \A i \in DOMAIN c.ops, l \in Loc : Claims(c, i, l)' <=> Claims(c, i, l)
    BY DEF Claims, LinkFiles
  <1>3. \A i \in DOMAIN c.ops, l \in Loc : Made(c, i, l)' = Made(c, i, l)
    BY DEF Made, LinkFiles
  <1>4. /\ e \in {Absent, Directory} \/ (IsLink(e) /\ e.pkg = p)
        /\ prefix[m] = Absent \/ Claims(c, c.k, m)
        /\ IsLink(e) => Claims(c, c.k, m)
    <2>1. CASE e = Directory /\ prefix[m] = Absent
      BY <2>1, LinkFacts
    <2>2. ASSUME NEW f \in c.left, m = Dest[r][f], e = Absent \/ e = Text(p, r, f)
          PROVE  /\ e = Absent \/ (IsLink(e) /\ e.pkg = p)
                 /\ Claims(c, c.k, m)
      BY <1>0, <1>h, <2>2, TextFacts
    <2> QED BY <2>1, <2>2
  <1>5. OnlyPlanned(c)'
    <2> SUFFICES ASSUME NEW l \in Loc, IsLink(prefix'[l]), prefix'[l].pkg \in c.pkgs
                 PROVE  \E i \in DOMAIN c.ops : c.ops[i].pkg = prefix'[l].pkg /\ Claims(c, i, l)
      BY <1>2 DEF OnlyPlanned
    <2>1. CASE l # m
      <3>1. prefix'[l] = prefix[l]
        BY <1>1, <2>1
      <3> QED BY <1>h, <3>1 DEF OnlyPlanned
    <2>2. CASE l = m
      <3>1. e.pkg = p /\ Claims(c, c.k, m)
        BY <1>1, <1>4, <2>2, LinkFacts
      <3> QED BY <1>0, <1>1, <2>2, <3>1
    <2> QED BY <2>1, <2>2
  <1>6. Placed(c)'
    <2> SUFFICES ASSUME NEW l \in Loc, NEW i \in DOMAIN c.ops, i < c.k, Claims(c, i, l),
                        \A j \in DOMAIN c.ops : j > i /\ j <= c.k => ~Claims(c, j, l)
                 PROVE  prefix'[l] \in Made(c, i, l)
      BY <1>2, <1>3 DEF Placed
    <2>1. prefix[l] \in Made(c, i, l)
      BY <1>h DEF Placed
    <2>2. ~Claims(c, c.k, l)
      <3>1. c.k > i /\ c.k <= c.k
        BY <1>0
      <3> QED BY <1>0, <3>1
    <2>3. prefix[l] # Absent
      <3>1. PICK f : prefix[l] = Link(c.ops[i].pkg, f, Up[l])
        BY <2>1 DEF Made
      <3>2. IsLink(prefix[l])
        BY <3>1, LinkFacts
      <3> QED BY <3>2, LinkFacts
    <2> QED BY <1>1, <1>4, <2>1, <2>2, <2>3
  <1>7. Ahead(c)'
    <2>1. DoneSoFar(c, p, r)'
      <3> SUFFICES ASSUME NEW g \in LinkFiles(p), g \notin c'.left
                   PROVE  prefix'[Dest[r][g]] = Text(p, r, g)
        BY DEF DoneSoFar, LinkFiles, Text
      <3>1. g \in File /\ Dest[r][g] \in Loc /\ IsLink(Text(p, r, g))
        <4>1. g \in File
          BY DEF LinkFiles, RecInv, Inv, TypeOK, Package
        <4> QED BY <4>1, TextFacts
      <3>2. CASE g \in c.left
        BY <1>1, <3>2
      <3>3. CASE g \notin c.left
        <4>1. prefix[Dest[r][g]] = Text(p, r, g)
          BY <1>h, <3>3 DEF DoneSoFar
        <4>2. prefix[Dest[r][g]] # Absent
          BY <3>1, <4>1, LinkFacts
        <4>3. \A f \in c.left : Dest[r][f] # Dest[r][g]
          BY <1>0, <3>1, <3>3, StoreAssumption
        <4>4. Dest[r][g] # m
          BY <4>2, <4>3
        <4> QED BY <1>1, <3>1, <4>1, <4>4
      <3> QED BY <3>2, <3>3
    <2>2. c'.ops[c'.k] = [pkg |-> p, root |-> r]
      BY <1>0
    <2> QED BY <2>1, <2>2 DEF Ahead
  <1> QED BY <1>5, <1>6, <1>7

\* If the prefix and the store stay, so does what is placed.
LEMMA RecStay ==
    ASSUME NEW self \in Proc, UNCHANGED <<prefix, store>>,
           OnlyPlanned(cmd[self]), Placed(cmd[self]),
           cmd'[self].pkgs = cmd[self].pkgs, cmd'[self].ops = cmd[self].ops
    PROVE  /\ OnlyPlanned(cmd[self])'
           /\ cmd'[self].k = cmd[self].k => Placed(cmd[self])'
  <1> DEFINE c == cmd[self]
  <1>1. \A i \in DOMAIN c.ops, l \in Loc : /\ Claims(c, i, l)' <=> Claims(c, i, l)
                                           /\ Made(c, i, l)' = Made(c, i, l)
    BY DEF Claims, Made, LinkFiles
  <1>2. OnlyPlanned(c)'
    BY <1>1 DEF OnlyPlanned
  <1>3. c'.k = c.k => Placed(c)'
    BY <1>1 DEF Placed
  <1> QED BY <1>2, <1>3

\* Linking does what the operation at hand asks for; it is done when all its
\* files are linked.
LEMMA RecLink ==
    ASSUME RecInv, NEW self \in Proc, NEW p \in Pkg, NEW r \in Root,
           LinkPackage(self, p, r)
    PROVE  Rec(cmd[self])'
  <1> DEFINE c == cmd[self]
             Same == /\ c'.install = c.install /\ c'.art = c.art /\ c'.pkgs = c.pkgs
                     /\ c'.ops = c.ops
  <1>l. AtOperation(c, p, r) /\ c.pc \in Linking
    BY DEF LinkPackage, AtOperation, Linking
  <1>t. /\ TypeOK /\ Inv /\ c \in Command /\ c.k \in DOMAIN c.ops
        /\ DOMAIN c.ops \subseteq Nat
        /\ c.ops[c.k] = [pkg |-> p, root |-> r] /\ p \in c.pkgs /\ c.left \subseteq File
    BY <1>l, AtHand DEF RecInv, Inv
  <1>c. c \in Command
    BY <1>t
  <1>i. CommandInv(c)'
    BY <1>t, LinkStep
  <1>1. ASSUME Same, c'.pc \in Linking,
               \A q \in Pkg : store'[q].digest = store[q].digest,
               OnCourse(c)' => OnlyPlanned(c)' /\ Placed(c)' /\ Ahead(c)'
        PROVE  Rec(c)'
    BY <1>l, <1>i, <1>1, RecKeep
  <1>2. ASSUME Same, OnCourse(c)', astray \subseteq astray'
        PROVE  /\ OnCourse(c) /\ OnlyPlanned(c) /\ Placed(c)
               /\ c.pc \in {"files", "place"} =>
                     /\ DoneSoFar(c, p, r) /\ c.left \subseteq LinkFiles(p)
                     /\ \A f \in c.left : Dest[r][f] \in Loc /\ Claims(c, c.k, Dest[r][f])
    <2>1. OnCourse(c)
      BY <1>2 DEF OnCourse
    <2> QED BY <1>l, <2>1, HandFacts
  <1>3. ASSUME ListFiles(self, p) PROVE Rec(c)'
    <2>1. PICK files :
             /\ files \in IF store[p].alien THEN SUBSET store[p].files ELSE {LinkFiles(p)}
             /\ Goto(self, [c EXCEPT !.pc = "files", !.left = files])
      BY <1>3 DEF ListFiles
    <2>2. c' = [c EXCEPT !.pc = "files", !.left = files]
      BY <1>t, <2>1, GotoIs
    <2>3. Same /\ c'.pc = "files" /\ c'.k = c.k /\ c'.left = files
      BY <1>c, <2>2 DEF Command
    <2>4. UNCHANGED <<prefix, store, astray>>
      BY <1>3 DEF ListFiles, disk, history
    <2>5. ASSUME OnCourse(c)' PROVE OnlyPlanned(c)' /\ Placed(c)' /\ Ahead(c)'
      <3>1. OnCourse(c) /\ OnlyPlanned(c) /\ Placed(c)
        BY <1>2, <2>3, <2>4, <2>5
      <3>2. files = LinkFiles(p)
        BY <1>l, <2>1, <3>1, HandFacts
      <3>3. DoneSoFar(c, p, r)'
        BY <2>3, <2>4, <3>2 DEF DoneSoFar, LinkFiles
      <3>4. Ahead(c)'
        BY <1>t, <2>3, <3>3 DEF Ahead
      <3> QED BY <2>3, <2>4, <3>1, <3>4, RecStay
    <2> QED BY <1>1, <2>3, <2>4, <2>5 DEF Linking
  <1>4. ASSUME ListFails(self, p) \/ LinkFails(self, r) PROVE Rec(c)'
    BY <1>4, <1>t, RecReturn DEF ListFails, LinkFails
  <1>5. ASSUME NEW l \in Loc, MakeDir(self, r, l) PROVE Rec(c)'
    <2>1. /\ UNCHANGED <<c, store, astray>> /\ c.pc = "files" /\ prefix[l] = Absent
          /\ prefix' = [prefix EXCEPT ![l] = Directory]
      BY <1>5 DEF MakeDir, history
    <2>2. ASSUME OnCourse(c)' PROVE OnlyPlanned(c)' /\ Placed(c)' /\ Ahead(c)'
      <3>1. OnCourse(c)
        BY <1>2, <2>1, <2>2
      <3> QED BY <1>l, <2>1, <3>1, RecWrite
    <2> QED BY <1>1, <2>1, <2>2 DEF Linking
  <1>6. ASSUME NEW f, Linked(self, f)
        PROVE  Same /\ c'.pc = "files" /\ c'.k = c.k /\ c'.left = c.left \ {f}
    <2>1. c' = [c EXCEPT !.pc = "files", !.left = @ \ {f}, !.file = {}]
      BY <1>6, <1>t, GotoIs DEF Linked
    <2> QED BY <1>c, <2>1 DEF Command
  <1>7. ASSUME NEW f \in c.left, NEW l \in Loc, LinkFile(self, p, r, f, l) PROVE Rec(c)'
    <2>1. /\ Linked(self, f) /\ UNCHANGED store /\ c.pc \in {"files", "place"}
          /\ prefix' = [prefix EXCEPT ![l] = Text(p, r, f)]
          /\ Strays(p, r, f, l)
      BY <1>7 DEF LinkFile
    <2>2. astray \subseteq astray' /\ (l = Dest[r][f] \/ p \in astray')
      BY <2>1 DEF Strays
    <2>3. Same /\ c'.pc = "files" /\ c'.k = c.k /\ c'.left = c.left \ {f}
      BY <1>6, <2>1
    <2>4. ASSUME OnCourse(c)' PROVE OnlyPlanned(c)' /\ Placed(c)' /\ Ahead(c)'
      <3>1. OnCourse(c)
        BY <1>2, <2>2, <2>3, <2>4
      <3>2. l = Dest[r][f]
        BY <1>t, <2>2, <2>3, <2>4 DEF OnCourse
      <3> QED BY <1>l, <2>1, <2>3, <3>1, <3>2, RecWrite
    <2> QED BY <1>1, <2>1, <2>3, <2>4 DEF Linking
  <1>8. ASSUME NEW f \in c.left, NEW l \in Loc, KeepLink(self, p, r, f, l) PROVE Rec(c)'
    <2>1. /\ Linked(self, f) /\ UNCHANGED <<prefix, store>> /\ c.pc = "files"
          /\ prefix[l] = Text(p, r, f) /\ Strays(p, r, f, l)
      BY <1>8 DEF KeepLink, disk
    <2>2. astray \subseteq astray' /\ (l = Dest[r][f] \/ p \in astray')
      BY <2>1 DEF Strays
    <2>3. Same /\ c'.pc = "files" /\ c'.k = c.k /\ c'.left = c.left \ {f}
      BY <1>6, <2>1
    <2>4. ASSUME OnCourse(c)' PROVE OnlyPlanned(c)' /\ Placed(c)' /\ Ahead(c)'
      <3>1. /\ OnlyPlanned(c) /\ Placed(c) /\ DoneSoFar(c, p, r)
        BY <1>2, <2>1, <2>2, <2>3, <2>4
      <3>2. l = Dest[r][f]
        BY <1>t, <2>2, <2>3, <2>4 DEF OnCourse
      <3>3. DoneSoFar(c, p, r)'
        BY <2>1, <2>3, <3>1, <3>2 DEF DoneSoFar, LinkFiles, Text
      <3>4. Ahead(c)'
        BY <1>t, <2>3, <3>3 DEF Ahead
      <3> QED BY <2>1, <2>3, <3>1, <3>4, RecStay
    <2> QED BY <1>1, <2>1, <2>3, <2>4 DEF Linking
  <1>9. ASSUME NEW f \in c.left, NEW l \in Loc, RemoveStale(self, p, r, f, l)
        PROVE  Rec(c)'
    <2>1. c' = [c EXCEPT !.pc = "place", !.file = {f}]
      BY <1>9, <1>t, GotoIs DEF RemoveStale
    <2>2. Same /\ c'.pc = "place" /\ c'.k = c.k /\ c'.left = c.left
      BY <1>c, <2>1 DEF Command
    <2>3. /\ UNCHANGED store /\ c.pc = "files"
          /\ prefix' = [prefix EXCEPT ![l] = Absent]
          /\ astray \subseteq astray' /\ (l = Dest[r][f] \/ p \in astray')
      BY <1>9 DEF RemoveStale, Strays
    <2>4. ASSUME OnCourse(c)' PROVE OnlyPlanned(c)' /\ Placed(c)' /\ Ahead(c)'
      <3>1. OnCourse(c)
        BY <1>2, <2>2, <2>3, <2>4
      <3>2. l = Dest[r][f]
        BY <1>t, <2>2, <2>3, <2>4 DEF OnCourse
      <3> QED BY <1>l, <2>2, <2>3, <3>1, <3>2, RecWrite
    <2> QED BY <1>1, <2>2, <2>3, <2>4 DEF Linking
  <1>10. ASSUME NEW f \in c.left, Linked(self, f), p \in astray',
                \A q \in Pkg : store'[q].digest = store[q].digest
         PROVE  Rec(c)'
    <2>1. Same /\ c'.pc = "files"
      BY <1>6, <1>10
    <2>2. ~OnCourse(c)'
      BY <1>t, <1>10, <2>1 DEF OnCourse
    <2> QED BY <1>1, <1>10, <2>1, <2>2 DEF Linking
  <1>11. ASSUME NEW f \in c.left, NEW q \in Pkg, NEW g \in File,
                LinkInStore(self, p, f, q, g)
         PROVE  Rec(c)'
    <2>1. \A x \in Pkg : store'[x].digest = store[x].digest
      BY <1>t, <1>11 DEF LinkInStore, TypeOK, Package
    <2> QED BY <1>10, <1>11, <2>1 DEF LinkInStore
  <1>12. ASSUME NEW f \in c.left, LinkElsewhere(self, p, f) PROVE Rec(c)'
    BY <1>10, <1>12 DEF LinkElsewhere, disk
  <1>13. ASSUME NextOperation(self, r) PROVE Rec(c)'
    <2>1. c' = [c EXCEPT !.pc = "link", !.k = @ + 1]
      BY <1>13, <1>t, GotoIs DEF NextOperation
    <2>2. Same /\ c'.pc = "link" /\ c'.k = c.k + 1
      BY <1>c, <2>1 DEF Command
    <2>3. UNCHANGED <<prefix, store, astray>> /\ c.pc = "files" /\ c.left = {}
      BY <1>13 DEF NextOperation, disk, history
    <2>4. ASSUME OnCourse(c)' PROVE OnlyPlanned(c)' /\ Placed(c)' /\ Ahead(c)'
      <3>0. OnlyPlanned(c) /\ Placed(c) /\ DoneSoFar(c, p, r)
        BY <1>2, <2>2, <2>3, <2>4
      <3>1. \A i \in DOMAIN c.ops, l \in Loc : /\ Claims(c, i, l)' <=> Claims(c, i, l)
                                               /\ Made(c, i, l)' = Made(c, i, l)
        BY <2>2, <2>3 DEF Claims, Made, LinkFiles
      <3>2. Placed(c)'
        <4> SUFFICES ASSUME NEW l \in Loc, NEW i \in DOMAIN c.ops, i < c.k + 1,
                            Claims(c, i, l),
                            \A j \in DOMAIN c.ops : j > i /\ j <= c.k + 1 => ~Claims(c, j, l)
                     PROVE  prefix[l] \in Made(c, i, l)
          BY <2>2, <2>3, <3>1 DEF Placed
        <4>1. CASE i = c.k
          <5>1. PICK f \in LinkFiles(p) : Dest[r][f] = l
            BY <1>t, <4>1 DEF Claims
          <5>2. prefix[l] = Link(p, f, Up[l])
            BY <2>3, <3>0, <5>1 DEF DoneSoFar, Text
          <5> QED BY <1>t, <4>1, <5>1, <5>2 DEF Made
        <4>2. CASE i # c.k
          <5>1. i < c.k /\ \A j \in DOMAIN c.ops : j <= c.k => j <= c.k + 1
            BY <1>t, <4>2
          <5>2. \A j \in DOMAIN c.ops : j > i /\ j <= c.k => ~Claims(c, j, l)
            BY <5>1
          <5> QED BY <3>0, <5>1, <5>2 DEF Placed
        <4> QED BY <4>1, <4>2
      <3>3. Ahead(c)'
        BY <2>2 DEF Ahead
      <3> QED BY <2>2, <2>3, <3>0, <3>2, <3>3, RecStay
    <2> QED BY <1>1, <2>2, <2>3, <2>4 DEF Linking
  <1> QED BY <1>3, <1>4, <1>5, <1>7, <1>8, <1>9, <1>11, <1>12, <1>13
          DEF LinkPackage, LinkOne

\* Between the passes: the first operation finds no links to the packages, and
\* after the last one nothing is left to claim.
LEMMA RecPass ==
    ASSUME RecInv, NEW self \in Proc,
           \/ UnlinkFails(self) \/ Unlinked(self) \/ JobsDone(self)
           \/ LinksDone(self) \/ Unlock(self) \/ Abort(self)
           \/ \E p \in cmd[self].cur : PutBack(self, p)
    PROVE  Rec(cmd[self])'
  <1> DEFINE c == cmd[self]
  <1>t. TypeOK /\ c \in Command /\ CommandInv(c) /\ Rec(c)
    BY DEF RecInv, Inv, TypeOK
  <1>1. ASSUME \/ UnlinkFails(self) \/ Unlock(self) \/ Abort(self)
               \/ \E p \in c.cur : PutBack(self, p)
        PROVE  Rec(c)'
    <2>1. Return(self)
      BY <1>1 DEF UnlinkFails, Unlock, Abort, PutBack
    <2> QED BY <1>t, <2>1, RecReturn
  <1>2. ASSUME Unlinked(self) PROVE Rec(c)'
    <2>1. PICK pc \in {"swap", "removing"} : Goto(self, [c EXCEPT !.pc = pc])
      BY <1>2 DEF Unlinked
    <2>2. c' = [c EXCEPT !.pc = pc]
      BY <1>t, <2>1, GotoIs
    <2>3. /\ c'.pc = pc /\ c'.install = c.install /\ c'.art = c.art
          /\ c'.pkgs = c.pkgs /\ c'.todo = c.todo /\ c'.cur = c.cur /\ c'.k = c.k
      BY <1>t, <2>2 DEF Command
    <2>4. UNCHANGED <<disk, history>> /\ c.pc = "unlink"
      BY <1>2 DEF Unlinked
    <2>5. \A q \in c.pkgs : Fresh(c, q) => Fresh(c, q)'
      BY <2>3, <2>4 DEF Fresh, NoLinks, disk, history
    <2> QED BY <1>t, <2>1, <2>3, <2>4, <2>5 DEF Rec, Begun, JobsRec, LinksRec, Working, Linking
  <1>3. ASSUME JobsDone(self) PROVE Rec(c)'
    <2>1. PICK pc : /\ pc = IF c.install THEN "link" ELSE "done"
                    /\ Goto(self, [c EXCEPT !.cur = {}, !.pc = pc])
      BY <1>3 DEF JobsDone
    <2>2. c' = [c EXCEPT !.cur = {}, !.pc = pc]
      BY <1>t, <2>1, GotoIs
    <2>3. /\ c'.pc = pc /\ c'.install = c.install /\ c'.art = c.art
          /\ c'.ops = c.ops /\ c'.pkgs = c.pkgs /\ c'.k = c.k
      BY <1>t, <2>2 DEF Command
    <2>4. /\ UNCHANGED <<prefix, store, astray>> /\ c.pc = "job" /\ c.todo = {}
          /\ JobInv(c) /\ JobsRec(c)
      BY <1>3, <1>t DEF JobsDone, CommandInv, Rec, disk, history
    <2>5. CASE c.install
      <3>1. \A p \in c.pkgs : Ready(c, p) /\ Fresh(c, p)
        BY <2>4, <2>5 DEF JobInv, JobsRec, Working
      <3>2. \A p \in c.pkgs : Ready(c, p)' /\ store'[p].digest = c'.art[p]
        BY <2>3, <2>4, <3>1 DEF Ready, Unreadable, LinkTo, Fresh
      <3>3. OnCourse(c)' => OnlyPlanned(c)'
        BY <2>3, <2>4, <3>1 DEF OnCourse, OnlyPlanned, Fresh, NoLinks
      <3>4. Placed(c)'
        <4>1. c.k = 1
          BY <1>t, <2>4 DEF Rec, Begun, Linking
        <4> QED BY <1>t, <2>3, <4>1 DEF Placed, Command
      <3>5. Ahead(c)'
        BY <2>1, <2>3, <2>5 DEF Ahead
      <3> QED BY <2>1, <2>3, <2>5, <3>2, <3>3, <3>4, <3>5
              DEF Rec, Begun, JobsRec, LinksRec, Working, Linking
    <2>6. CASE ~c.install
      BY <2>1, <2>3, <2>6 DEF Rec, Begun, JobsRec, LinksRec, Linking
    <2> QED BY <2>5, <2>6
  <1>4. ASSUME LinksDone(self) PROVE Rec(c)'
    <2>1. c' = [c EXCEPT !.pc = "done"]
      BY <1>4, <1>t, GotoIs DEF LinksDone
    <2>2. /\ c'.pc = "done" /\ c'.install = c.install /\ c'.art = c.art
          /\ c'.ops = c.ops /\ c'.pkgs = c.pkgs /\ c'.k = c.k
      BY <1>t, <2>1 DEF Command
    <2>3. UNCHANGED <<prefix, store, astray>> /\ c.pc = "link" /\ c.k > Len(c.ops)
      BY <1>4 DEF LinksDone, disk, history
    <2>4. \A p \in c.pkgs : Ready(c, p)' <=> Ready(c, p)
      BY <2>2, <2>3 DEF Ready, Unreadable, LinkTo
    <2>5. LinksRec(c) /\ c.pc \in Linking
      BY <1>t, <2>3 DEF Rec, Linking
    <2>6. c.install /\ OnCourse(c)' => OnlyPlanned(c)' /\ Placed(c)' /\ Ahead(c)'
      <3> SUFFICES ASSUME c.install, OnCourse(c)'
                   PROVE  OnlyPlanned(c)' /\ Placed(c)' /\ Ahead(c)'
        OBVIOUS
      <3>1. OnlyPlanned(c) /\ Placed(c)
        BY <2>2, <2>3, <2>5 DEF LinksRec, OnCourse
      <3>2. Ahead(c)'
        BY <2>2 DEF Ahead
      <3> QED BY <2>2, <2>3, <3>1, <3>2, RecStay
    <2>7. LinksRec(c)'
      BY <2>2, <2>3, <2>4, <2>5, <2>6 DEF LinksRec
    <2> QED BY <2>2, <2>7 DEF Rec, Begun, JobsRec, Working, Linking
  <1> QED BY <1>1, <1>2, <1>3, <1>4

-----------------------------------------------------------------------------
\* No command has begun.
LEMMA RecInit == Init => RecInv
  <1> SUFFICES ASSUME Init PROVE RecInv
    OBVIOUS
  <1>1. \A s \in Proc : ~cmd[s].install /\ cmd[s].k = 1
    <2>1. cmd = [s \in Proc |-> Idle]
      BY DEF Init
    <2>2. ~Idle.install /\ Idle.k = 1
      BY DEF Idle
    <2> QED BY <2>1, <2>2
  <1>2. \A s \in Proc : Rec(cmd[s])
    BY <1>1 DEF Rec, Begun, JobsRec, LinksRec
  <1> QED BY <1>2, InitInv DEF RecInv

\* Every step preserves the invariant.
LEMMA RecStep == RecInv /\ [Next]_vars => RecInv'
  <1> SUFFICES ASSUME RecInv, [Next]_vars PROVE RecInv'
    OBVIOUS
  <1>1. Inv'
    BY InvStep DEF RecInv
  <1>t. \A s \in Proc : cmd[s].cur \subseteq Pkg
    BY DEF RecInv, Inv, TypeOK, Command
  <1>2. ASSUME NEW self \in Proc, StepOf(self) PROVE Rec(cmd[self])'
    <2>1. CASE \/ \E p \in Pkg : NextJob(self, p)
               \/ \E p \in cmd[self].cur : DoJob(self, p)
      <3>1. PICK p \in Pkg : Job(self, p)
        BY <1>t, <2>1 DEF Job
      <3> QED BY <3>1, RecJob
    <2> QED BY <1>2, <2>1, RecPrepare, RecLink, RecPass DEF StepOf, Step
  <1>3. ASSUME NEW self \in Proc, StepOf(self) PROVE \A s \in Proc : Rec(cmd[s])'
    BY <1>2, <1>3, RecOthers
  <1>4. ASSUME UNCHANGED vars PROVE \A s \in Proc : Rec(cmd[s])'
    <2>1. UNCHANGED <<disk, history>> /\ \A s \in Proc : cmd'[s] = cmd[s]
      BY <1>4 DEF vars, disk, history
    <2> QED BY <2>1, RecSame DEF RecInv
  <1> QED BY <1>1, <1>3, <1>4 DEF RecInv, Next, StepOf

\* In every reachable state the command that holds the lock has done what its
\* plan asks for so far.
THEOREM ReconcileInvariance == Spec => []RecInv
  BY RecInit, RecStep, PTL DEF Spec

\* An install that succeeds has made the prefix what its plan declares: digests,
\* targets, the last operation that claims a path, and no other links.  It is so if
\* no link of its packages, and none in their stores, was written through a
\* symlink; of the other installs that succeed it says nothing.
THEOREM InstallReconciles == Spec => []Reconciled
  <1>1. ASSUME RecInv PROVE Reconciled
    <2> SUFFICES ASSUME NEW s \in Proc, Succeeds(s), cmd[s].pkgs \intersect astray = {}
                 PROVE  AsPlanned(cmd[s])
      BY DEF Reconciled
    <2> DEFINE c == cmd[s]
    <2>1. /\ \A p \in c.pkgs : Ready(c, p) /\ store[p].digest = c.art[p]
          /\ OnlyPlanned(c) /\ Placed(c) /\ c.k > Len(c.ops)
      <3>1. OnCourse(c)
        BY DEF OnCourse
      <3> QED BY <1>1, <3>1 DEF RecInv, Rec, LinksRec, Succeeds
    <2>2. c.k \in Nat /\ c.ops \in Seq(Operation)
      BY <1>1 DEF RecInv, Inv, TypeOK, Command
    <2>3. \A i \in DOMAIN c.ops : i < c.k /\ i \in Nat
      BY <2>1, <2>2
    <2>4. \A l \in Loc, i \in DOMAIN c.ops :
            (Claims(c, i, l) /\ \A j \in DOMAIN c.ops : j > i => ~Claims(c, j, l))
            => prefix[l] \in Made(c, i, l)
      BY <2>1, <2>3 DEF Placed
    <2>5. \A l \in Loc, p \in c.pkgs :
            IsLink(prefix[l]) /\ prefix[l].pkg = p
            => \E i \in DOMAIN c.ops : c.ops[i].pkg = p /\ Claims(c, i, l)
      BY <2>1 DEF OnlyPlanned
    <2> QED BY <2>1, <2>4, <2>5 DEF AsPlanned, Ready, Made
  <1> QED BY <1>1, ReconcileInvariance, PTL

-----------------------------------------------------------------------------
(***************************************************************************)
(* The plan that these commands carry out (BinmanPlan).  While the groups  *)
(* are read, the plan so far is faithful to the mentions read so far; that *)
(* is inductive, because a mention is later than all that were read, so    *)
(* what it asks for is either listed already or belongs at the end.        *)
(***************************************************************************)

ReadSoFar == {m \in Mentions : Earlier(m, at)}

PlanTyped ==
    /\ Len(groups) \in Nat /\ DOMAIN groups = 1..Len(groups)
    /\ \A i \in DOMAIN groups : groups[i].packages \in Seq(Packages)
    /\ at \in (1..(Len(groups) + 1)) \X Nat
    /\ at[2] # 0 => at \in Mentions
    /\ plan \in [packages : Seq(Packages), links : Seq({Asked(m) : m \in Mentions}),
                 linkTo : [Packages -> Seq({Asked(m).root : m \in Mentions})]]

PlanningInv == /\ PlanTyped
               /\ PlanOf(ReadSoFar)
               /\ status = "planned" => at[1] > Len(groups)

\* Nothing is read, nothing is listed.
LEMMA ListsNothing ==
    ASSUME NEW f, DOMAIN f = {}
    PROVE  Lists(<<>>, f)
  BY DEF Lists, ToSet

\* g asks for what f does, and then, at the later mention m, for v.
OneMore(f, g, m, v) == /\ DOMAIN g = DOMAIN f \cup {m} /\ m \notin DOMAIN f
                       /\ \A n \in DOMAIN f : g[n] = f[n] /\ Earlier(n, m)
                       /\ g[m] = v

AppendNew(s, v) == IF v \in ToSet(s) THEN s ELSE Append(s, v)

\* One mention more, later than all the others: a list stays one if what it
\* asks for is appended unless it is there.
LEMMA ListsOneMore ==
    ASSUME NEW V, NEW s \in Seq(V), NEW v \in V, NEW f, NEW g, NEW m,
           OneMore(f, g, m, v), Lists(s, f)
    PROVE  AppendNew(s, v) \in Seq(V) /\ Lists(AppendNew(s, v), g)
  <1>0. /\ DOMAIN g = DOMAIN f \cup {m} /\ m \notin DOMAIN f
        /\ \A n \in DOMAIN f : g[n] = f[n] /\ Earlier(n, m)
        /\ g[m] = v
    BY DEF OneMore
  <1> DEFINE t == AppendNew(s, v)
  <1>t. t = IF v \in ToSet(s) THEN s ELSE Append(s, v)
    BY DEF AppendNew
  <1> SUFFICES t \in Seq(V) /\ Lists(t, g)
    OBVIOUS
  <1> HIDE DEF t
  <1>1. /\ \A i, j \in DOMAIN s : s[i] = s[j] => i = j
        /\ \A i \in DOMAIN s : \E n \in DOMAIN f : f[n] = s[i]
        /\ \A n \in DOMAIN f : \E i \in DOMAIN s : s[i] = f[n]
        /\ \A i, j \in DOMAIN s : i < j =>
              \E n \in DOMAIN f : /\ f[n] = s[i]
                                  /\ \A l \in DOMAIN f : f[l] = s[j] => Earlier(n, l)
    <2>1. ToSet(s) = {f[n] : n \in DOMAIN f}
      BY DEF Lists
    <2>2. ToSet(s) = {s[i] : i \in DOMAIN s}
      BY DEF ToSet
    <2>3. \A i \in DOMAIN s : s[i] \in {f[n] : n \in DOMAIN f}
      BY <2>1, <2>2
    <2>4. \A n \in DOMAIN f : f[n] \in {s[i] : i \in DOMAIN s}
      BY <2>1, <2>2
    <2> QED BY <2>3, <2>4 DEF Lists
  <1>2. \A i, j \in DOMAIN s : i < j =>
          \E n \in DOMAIN g : /\ g[n] = s[i]
                              /\ \A l \in DOMAIN g : g[l] = s[j] => Earlier(n, l)
    BY <1>0, <1>1
  <1>3. CASE g[m] \in ToSet(s)
    <2>1. PICK k \in DOMAIN s : s[k] = g[m]
      BY <1>0, <1>3 DEF ToSet
    <2>2. \A i \in DOMAIN s : \E n \in DOMAIN g : g[n] = s[i]
      BY <1>0, <1>1
    <2>3. \A n \in DOMAIN g : \E i \in DOMAIN s : s[i] = g[n]
      BY <1>0, <1>1, <2>1
    <2>4. ToSet(s) = {g[n] : n \in DOMAIN g}
      BY <1>0, <2>2, <2>3 DEF ToSet
    <2> QED BY <1>0, <1>1, <1>2, <1>3, <1>t, <2>4 DEF Lists
  <1>4. CASE g[m] \notin ToSet(s)
    <2> DEFINE L == Len(s)
    <2>1. L \in Nat /\ DOMAIN s = 1..L
      OBVIOUS
    <2>2. /\ t \in Seq(V) /\ DOMAIN t = 1..(L + 1)
          /\ \A i \in 1..L : t[i] = s[i]
          /\ t[L + 1] = g[m]
      BY <1>0, <1>4, <1>t, AppendProperties
    <2>3. \A i \in 1..L : s[i] # g[m]
      BY <1>0, <1>4, <2>1 DEF ToSet
    <2> HIDE DEF L
    <2>4. \A i \in DOMAIN t : i \in 1..L \/ i = L + 1
      BY <1>0, <2>1, <2>2
    <2>5. \A i \in 1..L : i \in DOMAIN t /\ i # L + 1
      BY <1>0, <2>1, <2>2
    <2>6. \A i, j \in DOMAIN t : t[i] = t[j] => i = j
      BY <1>0, <1>1, <2>1, <2>2, <2>3, <2>4
    <2>7. \A i \in DOMAIN t : \E n \in DOMAIN g : g[n] = t[i]
      BY <1>0, <1>1, <2>1, <2>2, <2>4
    <2>8. \A n \in DOMAIN g : \E i \in DOMAIN t : t[i] = g[n]
      <3>1. L + 1 \in DOMAIN t
        BY <1>0, <2>1, <2>2
      <3>2. \A n \in DOMAIN f : \E i \in DOMAIN t : t[i] = g[n]
        BY <1>0, <1>1, <2>1, <2>2, <2>5
      <3> QED BY <1>0, <2>2, <3>1, <3>2
    <2>9. ToSet(t) = {g[n] : n \in DOMAIN g}
      BY <1>0, <2>7, <2>8 DEF ToSet
    <2>10. ASSUME NEW i \in DOMAIN t, NEW j \in DOMAIN t, i < j
           PROVE  \E n \in DOMAIN g : /\ g[n] = t[i]
                                      /\ \A l \in DOMAIN g : g[l] = t[j] => Earlier(n, l)
      <3>1. i \in 1..L
        BY <1>0, <2>1, <2>4, <2>10
      <3>2. CASE j \in 1..L
        BY <1>0, <1>2, <2>1, <2>2, <2>10, <3>1, <3>2
      <3>3. CASE j = L + 1
        <4>1. PICK n \in DOMAIN f : f[n] = s[i]
          BY <1>0, <1>1, <2>1, <3>1
        <4>2. n \in DOMAIN g /\ g[n] = t[i] /\ Earlier(n, m)
          BY <1>0, <2>2, <3>1, <4>1
        <4>3. \A l \in DOMAIN g : g[l] = t[j] => l = m
          BY <1>0, <1>1, <2>1, <2>2, <2>3, <3>3
        <4> QED BY <4>2, <4>3
      <3> QED BY <1>0, <2>4, <3>2, <3>3
    <2>11. Lists(t, g)
      BY <1>0, <2>6, <2>9, <2>10 DEF Lists
    <2> QED BY <1>0, <2>2, <2>11
  <1> QED BY <1>3, <1>4

LEMMA GroupsTyped ==
    ASSUME PlanInit
    PROVE  /\ Len(groups) \in Nat /\ DOMAIN groups = 1..Len(groups)
           /\ \A i \in DOMAIN groups : groups[i].packages \in Seq(Packages)
  <1>1. PICK file \in Manifests, args \in Args, link \in LinkFlag :
           groups = IF args = <<>> THEN file ELSE Append(file, Group(args, link))
    BY DEF PlanInit
  <1> DEFINE G == ToSet(file) \cup {Group(args, link)}
  <1>2. file \in Seq(ToSet(file))
    BY PlanAssumption
  <1>3. file \in Seq(G) /\ Group(args, link) \in G
    <2>1. \A i \in 1..Len(file) : file[i] \in G
      BY <1>2 DEF ToSet
    <2>2. Len(file) \in Nat /\ file = [i \in 1..Len(file) |-> file[i]]
      BY <1>2
    <2> HIDE DEF G
    <2>3. file \in Seq(G)
      BY <2>1, <2>2, <1>2
    <2> QED BY <2>3 DEF G
  <1>4. \A g \in G : g.packages \in Seq(Packages)
    <2>1. ASSUME NEW s, NEW S, s \in Seq(S), ToSet(s) \subseteq Packages
          PROVE  s \in Seq(Packages)
      <3>1. \A i \in 1..Len(s) : s[i] \in Packages
        BY <2>1 DEF ToSet
      <3> QED BY <2>1, <3>1
    <2>2. ASSUME NEW g \in ToSet(file)
          PROVE  g.packages \in Seq(Packages)
      <3>1. g.packages \in Seq(ToSet(g.packages))
        BY PlanAssumption
      <3>2. ToSet(g.packages) \subseteq Packages
        BY DEF Packages
      <3> QED BY <2>1, <3>1, <3>2
    <2>3. Group(args, link).packages \in Seq(Packages)
      <3>1. args \in Seq(ToSet(args))
        BY PlanAssumption
      <3>2. ToSet(args) \subseteq Packages
        <4>1. ToSet(args) \in {ToSet(a) : a \in Args}
          BY <1>1
        <4>2. UNION {ToSet(a) : a \in Args} \subseteq Packages
          BY Zenon DEF Packages
        <4> QED BY <4>1, <4>2, Zenon
      <3>3. args \in Seq(Packages)
        BY <2>1, <3>1, <3>2
      <3> QED BY <3>3 DEF Group
    <2> QED BY <2>2, <2>3
  <1>5. groups \in Seq(G)
    <2>1. Append(file, Group(args, link)) \in Seq(G)
      BY <1>3, AppendProperties
    <2> QED BY <1>1, <1>3, <2>1
  <1>6. \A i \in DOMAIN groups : groups[i] \in G
    BY <1>5, ElementOfSeq
  <1> HIDE DEF G
  <1> QED BY <1>4, <1>5, <1>6

LEMMA PlanningInit == PlanInit => PlanningInv
  <1> SUFFICES ASSUME PlanInit PROVE PlanningInv
    OBVIOUS
  <1>1. /\ at = <<1, 0>> /\ status = "planning"
        /\ plan = [packages |-> <<>>, links |-> <<>>, linkTo |-> [p \in Packages |-> <<>>]]
    BY DEF PlanInit
  <1>2. PlanTyped
    <2>1. at \in (1..(Len(groups) + 1)) \X Nat /\ at[2] = 0
      BY <1>1, GroupsTyped
    <2>2. plan \in [packages : Seq(Packages), links : Seq({Asked(m) : m \in Mentions}),
                    linkTo : [Packages -> Seq({Asked(m).root : m \in Mentions})]]
      BY <1>1
    <2> QED BY <2>1, <2>2, GroupsTyped DEF PlanTyped
  <1>3. ReadSoFar = {}
    <2> SUFFICES ASSUME NEW m \in Mentions, Earlier(m, at) PROVE FALSE
      BY DEF ReadSoFar
    <2>1. PICK i \in DOMAIN groups : \E j \in DOMAIN groups[i].packages : m = <<i, j>>
      BY DEF Mentions
    <2>2. PICK j \in DOMAIN groups[i].packages : m = <<i, j>>
      BY <2>1
    <2>3. i \in Nat /\ i >= 1 /\ j \in Nat
      <3>1. groups[i].packages \in Seq(Packages)
        BY GroupsTyped
      <3> QED BY <3>1, GroupsTyped
    <2> QED BY <1>1, <2>2, <2>3 DEF Earlier
  <1>4. PlanOf({})
    <2>1. DOMAIN PackagesOf({}) = {} /\ DOMAIN LinksOf({}) = {}
          /\ \A p \in Packages : DOMAIN TargetsOf({}, p) = {}
      BY DEF PackagesOf, LinksOf, TargetsOf
    <2>2. \A p \in Packages : plan.linkTo[p] = <<>>
      BY <1>1
    <2> QED BY <1>1, <2>1, <2>2, ListsNothing DEF PlanOf
  <1> QED BY <1>1, <1>2, <1>3, <1>4 DEF PlanningInv

\* Which mentions are earlier than where plan is.
LEMMA MentionFacts ==
    ASSUME PlanTyped, NEW m \in Mentions
    PROVE  /\ m = <<m[1], m[2]>>
           /\ m[1] \in DOMAIN groups /\ m[1] \in Nat
           /\ m[2] \in 1..Len(groups[m[1]].packages) /\ m[2] \in Nat
           /\ groups[m[1]].packages[m[2]] \in Packages
           /\ Asked(m).pkg = groups[m[1]].packages[m[2]]
           /\ Asked(m).root = Clean[groups[m[1]].linkTo]
           /\ Asked(m).pkg \in Packages
  <1>1. PICK i \in DOMAIN groups : \E j \in DOMAIN groups[i].packages : m = <<i, j>>
    BY DEF Mentions
  <1>2. PICK j \in DOMAIN groups[i].packages : m = <<i, j>>
    BY <1>1
  <1>3. groups[i].packages \in Seq(Packages) /\ DOMAIN groups = 1..Len(groups) /\ Len(groups) \in Nat
    BY DEF PlanTyped
  <1>4. j \in 1..Len(groups[i].packages)
    BY <1>3
  <1>5. groups[i].packages[j] \in Packages
    BY <1>3, <1>4, ElementOfSeq
  <1>6. m[1] = i /\ m[2] = j
    BY <1>2
  <1>7. /\ Asked(m).pkg = groups[m[1]].packages[m[2]]
        /\ Asked(m).root = Clean[groups[m[1]].linkTo]
    BY DEF Asked, Op
  <1> QED BY <1>2, <1>3, <1>4, <1>5, <1>6, <1>7

\* A step of the reading changes neither the groups nor what they ask for.
LEMMA AskedKept ==
    ASSUME groups' = groups
    PROVE  /\ Mentions' = Mentions
           /\ \A m : Asked(m)' = Asked(m)
           /\ \A M : PackagesOf(M)' = PackagesOf(M) /\ LinksOf(M)' = LinksOf(M)
           /\ \A M, p : TargetsOf(M, p)' = TargetsOf(M, p)
  <1>1. Mentions' = Mentions
    BY DEF Mentions
  <1>2. \A m : Asked(m)' = Asked(m)
    BY DEF Asked
  <1>3. \A M : PackagesOf(M)' = PackagesOf(M) /\ LinksOf(M)' = LinksOf(M)
    BY <1>2 DEF PackagesOf, LinksOf
  <1>4. \A M, p : TargetsOf(M, p)' = TargetsOf(M, p)
    BY <1>2 DEF TargetsOf
  <1> QED BY <1>1, <1>2, <1>3, <1>4

\* What was read is earlier than where plan is, which is not read yet.
LEMMA ReadBefore ==
    ASSUME PlanTyped
    PROVE  /\ ReadSoFar \subseteq Mentions
           /\ at \notin ReadSoFar
           /\ \A m \in ReadSoFar : Earlier(m, at)
  <1>1. at[1] \in Int /\ at[2] \in Int
    BY DEF PlanTyped
  <1>2. ~Earlier(at, at)
    BY <1>1 DEF Earlier
  <1> QED BY <1>2 DEF ReadSoFar

\* The three tables of the plan after the package at hand.
LEMMA TakeExtendsPlan ==
    ASSUME PlanTyped, PlanOf(ReadSoFar), at \in Mentions, TakePackage, groups' = groups,
           NEW M, M = ReadSoFar \cup {at}
    PROVE  /\ PlanOf(M)'
           /\ plan' \in [packages : Seq(Packages), links : Seq({Asked(m) : m \in Mentions}),
                         linkTo : [Packages -> Seq({Asked(m).root : m \in Mentions})]]
  <1> DEFINE p == Asked(at).pkg
             r == Asked(at).root
             R == ReadSoFar
             A == {Asked(m) : m \in Mentions}
             T == {Asked(m).root : m \in Mentions}
  <1>1. /\ p = This.packages[at[2]] /\ r = Target /\ p \in Packages
        /\ Asked(at) = Op(p, r)
    <2>1. /\ p = groups[at[1]].packages[at[2]] /\ r = Clean[groups[at[1]].linkTo]
          /\ p \in Packages
      BY MentionFacts
    <2>2. Asked(at) = Op(p, r)
      BY <2>1 DEF Asked
    <2> QED BY <2>1, <2>2 DEF This, Target
  <1>2. plan' = [plan EXCEPT
             !.packages = IF p \in ToSet(@) THEN @ ELSE Append(@, p),
             !.links = IF r = "" \/ Seen(Op(p, r)) THEN @ ELSE Append(@, Op(p, r)),
             !.linkTo[p] = IF r = "" \/ Seen(Op(p, r)) THEN @ ELSE Append(@, r)]
    BY <1>1 DEF TakePackage
  <1>3. /\ plan.packages \in Seq(Packages) /\ plan.links \in Seq(A)
        /\ plan.linkTo \in [Packages -> Seq(T)] /\ Asked(at) \in A /\ r \in T
        /\ plan \in [packages : Seq(Packages), links : Seq(A), linkTo : [Packages -> Seq(T)]]
    BY DEF PlanTyped
  <1>4. /\ Lists(plan.packages, PackagesOf(R)) /\ Lists(plan.links, LinksOf(R))
        /\ \A q \in Packages : Lists(plan.linkTo[q], TargetsOf(R, q))
    BY DEF PlanOf
  <1>5. /\ at \notin R /\ \A m \in R : Earlier(m, at)
    BY ReadBefore
  <1> DEFINE packages == IF p \in ToSet(plan.packages) THEN plan.packages
                                                       ELSE Append(plan.packages, p)
             links == IF r = "" \/ Seen(Op(p, r)) THEN plan.links ELSE Append(plan.links, Op(p, r))
             targets == IF r = "" \/ Seen(Op(p, r)) THEN plan.linkTo[p]
                                                    ELSE Append(plan.linkTo[p], r)
  <1>6. packages \in Seq(Packages) /\ Lists(packages, PackagesOf(M))
    <2>1. /\ DOMAIN PackagesOf(R) = R /\ DOMAIN PackagesOf(M) = R \cup {at}
          /\ \A m \in R : PackagesOf(M)[m] = PackagesOf(R)[m]
          /\ PackagesOf(M)[at] = p
      BY DEF PackagesOf
    <2>2. packages = IF p \in ToSet(plan.packages) THEN plan.packages
                                                   ELSE Append(plan.packages, p)
      OBVIOUS
    <2>3. /\ plan.packages \in Seq(Packages) /\ p \in Packages /\ Lists(plan.packages, PackagesOf(R))
          /\ OneMore(PackagesOf(R), PackagesOf(M), at, p)
          /\ packages = AppendNew(plan.packages, p)
      <3> HIDE DEF R, p, packages
      <3> QED BY <1>1, <1>3, <1>4, <1>5, <2>1, <2>2 DEF OneMore, AppendNew
    <2> HIDE DEF R, p, packages
    <2> QED BY <2>3, ListsOneMore
  <1>7. links \in Seq(A) /\ Lists(links, LinksOf(M))
    <2>1. CASE r = ""
      <3>1. LinksOf(M) = LinksOf(R)
        BY <2>1 DEF LinksOf
      <3> QED BY <1>3, <1>4, <2>1, <3>1
    <2>2. CASE r # ""
      <3>1. /\ DOMAIN LinksOf(M) = DOMAIN LinksOf(R) \cup {at}
            /\ DOMAIN LinksOf(R) \subseteq R
            /\ \A m \in DOMAIN LinksOf(R) : LinksOf(M)[m] = LinksOf(R)[m]
            /\ LinksOf(M)[at] = Op(p, r)
        BY <1>1, <2>2 DEF LinksOf
      <3>2. links = IF Op(p, r) \in ToSet(plan.links) THEN plan.links
                                                      ELSE Append(plan.links, Op(p, r))
        BY <2>2 DEF Seen
      <3>3. /\ at \notin DOMAIN LinksOf(R)
            /\ \A m \in DOMAIN LinksOf(R) : Earlier(m, at)
        BY <1>5, <3>1
      <3>4. Op(p, r) \in A
        BY <1>1, <1>3
      <3>5. /\ plan.links \in Seq(A) /\ Op(p, r) \in A /\ Lists(plan.links, LinksOf(R))
            /\ OneMore(LinksOf(R), LinksOf(M), at, Op(p, r))
            /\ links = AppendNew(plan.links, Op(p, r))
        <4> HIDE DEF R, p, r, A, links
        <4> QED BY <1>3, <1>4, <3>1, <3>2, <3>3, <3>4 DEF OneMore, AppendNew
      <3> HIDE DEF R, p, r, A, links
      <3> QED BY <3>5, ListsOneMore
    <2> QED BY <2>1, <2>2
  \* An operation is listed exactly if its root is a target of its package.
  <1>8. Seen(Op(p, r)) <=> r # "" /\ r \in ToSet(plan.linkTo[p])
    <2>1. ToSet(plan.links) = {LinksOf(R)[m] : m \in DOMAIN LinksOf(R)}
      BY <1>4 DEF Lists
    <2>2. ToSet(plan.linkTo[p]) = {TargetsOf(R, p)[m] : m \in DOMAIN TargetsOf(R, p)}
      BY <1>1, <1>4 DEF Lists
    <2>3. Seen(Op(p, r)) <=> \E m \in R : Asked(m).root # "" /\ Asked(m) = Op(p, r)
      BY <2>1 DEF Seen, LinksOf
    <2>4. r \in ToSet(plan.linkTo[p])
            <=> \E m \in R : Asked(m).root # "" /\ Asked(m).pkg = p /\ Asked(m).root = r
      BY <2>2 DEF TargetsOf
    <2>5. \A m : Asked(m) = Op(p, r) <=> Asked(m).pkg = p /\ Asked(m).root = r
      BY DEF Asked, Op
    <2> QED BY <2>3, <2>4, <2>5
  <1>9. targets \in Seq(T) /\ Lists(targets, TargetsOf(M, p))
    <2>1. CASE r = ""
      <3>1. TargetsOf(M, p) = TargetsOf(R, p)
        BY <2>1 DEF TargetsOf
      <3> QED BY <1>1, <1>3, <1>4, <2>1, <3>1
    <2>2. CASE r # ""
      <3>1. /\ DOMAIN TargetsOf(M, p) = DOMAIN TargetsOf(R, p) \cup {at}
            /\ DOMAIN TargetsOf(R, p) \subseteq R
            /\ \A m \in DOMAIN TargetsOf(R, p) : TargetsOf(M, p)[m] = TargetsOf(R, p)[m]
            /\ TargetsOf(M, p)[at] = r
        BY <2>2 DEF TargetsOf
      <3>2. targets = IF r \in ToSet(plan.linkTo[p]) THEN plan.linkTo[p]
                                                     ELSE Append(plan.linkTo[p], r)
        BY <1>8, <2>2
      <3>3. /\ at \notin DOMAIN TargetsOf(R, p)
            /\ \A m \in DOMAIN TargetsOf(R, p) : Earlier(m, at)
        BY <1>5, <3>1
      <3>4. plan.linkTo[p] \in Seq(T) /\ Lists(plan.linkTo[p], TargetsOf(R, p))
        BY <1>1, <1>3, <1>4
      <3>5. /\ plan.linkTo[p] \in Seq(T) /\ r \in T /\ Lists(plan.linkTo[p], TargetsOf(R, p))
            /\ OneMore(TargetsOf(R, p), TargetsOf(M, p), at, r)
            /\ targets = AppendNew(plan.linkTo[p], r)
        <4> HIDE DEF R, p, r, T, targets
        <4> QED BY <1>3, <3>1, <3>2, <3>3, <3>4 DEF OneMore, AppendNew
      <3> HIDE DEF R, p, r, T, targets
      <3> QED BY <3>5, ListsOneMore
    <2> QED BY <2>1, <2>2
  <1>10. ASSUME NEW q \in Packages, q # p
         PROVE  Lists(plan.linkTo[q], TargetsOf(M, q))
    <2>1. TargetsOf(M, q) = TargetsOf(R, q)
      BY <1>10 DEF TargetsOf
    <2> QED BY <1>4, <2>1
  <1>11. plan' = [packages |-> packages, links |-> links,
                  linkTo |-> [plan.linkTo EXCEPT ![p] = targets]]
    <2> HIDE DEF p, r
    <2> QED BY <1>2, <1>3
  <1>12. /\ plan'.packages = packages /\ plan'.links = links
         /\ plan'.linkTo[p] = targets
         /\ \A q \in Packages : q # p => plan'.linkTo[q] = plan.linkTo[q]
    <2> HIDE DEF p, packages, links, targets
    <2> QED BY <1>1, <1>3, <1>11
  <1>13. PlanOf(M)'
    <2>1. /\ PackagesOf(M)' = PackagesOf(M) /\ LinksOf(M)' = LinksOf(M)
          /\ \A q : TargetsOf(M, q)' = TargetsOf(M, q)
      BY AskedKept
    <2>2. /\ Lists(plan'.packages, PackagesOf(M)')
          /\ Lists(plan'.links, LinksOf(M)')
      BY <1>6, <1>7, <1>12, <2>1
    <2>3. \A q \in Packages : Lists(plan'.linkTo[q], TargetsOf(M, q)')
      BY <1>9, <1>10, <1>12, <2>1
    <2> HIDE DEF p, r, R, A, T, packages, links, targets
    <2> QED BY <2>2, <2>3 DEF PlanOf
  <1>14. plan' \in [packages : Seq(Packages), links : Seq(A), linkTo : [Packages -> Seq(T)]]
    <2> HIDE DEF p, packages, links, targets, A, T
    <2> QED BY <1>1, <1>3, <1>6, <1>7, <1>9, <1>11
  <1> QED BY <1>13, <1>14

\* The next thing to read is later than what was read, and nothing is between.
LEMMA ReadNext ==
    ASSUME PlanTyped, at \in Mentions, groups' = groups,
           at' = IF at[2] < Len(This.packages) THEN <<at[1], at[2] + 1>> ELSE <<at[1] + 1, 0>>
    PROVE  /\ ReadSoFar' = ReadSoFar \cup {at}
           /\ at' \in (1..(Len(groups) + 1)) \X Nat
           /\ at'[2] # 0 => at' \in Mentions
  <1>1. /\ at[1] \in DOMAIN groups /\ at[1] \in Nat
        /\ at[2] \in 1..Len(This.packages) /\ at[2] \in Nat
        /\ at = <<at[1], at[2]>>
    BY MentionFacts DEF This
  <1>2. /\ Len(groups) \in Nat /\ DOMAIN groups = 1..Len(groups)
        /\ This.packages \in Seq(Packages)
        /\ DOMAIN This.packages = 1..Len(This.packages) /\ Len(This.packages) \in Nat
    <2>1. /\ Len(groups) \in Nat /\ DOMAIN groups = 1..Len(groups)
          /\ This.packages \in Seq(Packages)
      BY <1>1 DEF PlanTyped, This
    <2> QED BY <2>1
  <1>3. Mentions' = Mentions
    BY AskedKept
  <1>4. ASSUME NEW m \in Mentions
        PROVE  Earlier(m, at') <=> Earlier(m, at) \/ m = at
    <2>1. /\ m = <<m[1], m[2]>> /\ m[1] \in Nat /\ m[2] \in Nat /\ m[2] >= 1
          /\ m[1] = at[1] => m[2] <= Len(This.packages)
      <3>1. /\ m = <<m[1], m[2]>> /\ m[1] \in Nat
            /\ m[2] \in 1..Len(groups[m[1]].packages) /\ m[2] \in Nat
        BY MentionFacts
      <3>2. m[1] = at[1] => groups[m[1]].packages = This.packages
        BY DEF This
      <3> QED BY <1>2, <3>1, <3>2
    <2>2. m = at <=> m[1] = at[1] /\ m[2] = at[2]
      BY <1>1, <2>1
    <2>3. CASE at[2] < Len(This.packages)
      <3>1. at'[1] = at[1] /\ at'[2] = at[2] + 1
        BY <2>3
      <3> QED BY <1>1, <2>1, <2>2, <3>1 DEF Earlier
    <2>4. CASE ~(at[2] < Len(This.packages))
      <3>1. at'[1] = at[1] + 1 /\ at'[2] = 0
        BY <2>4
      <3>2. at[2] = Len(This.packages)
        BY <1>1, <1>2, <2>4
      <3> QED BY <1>1, <1>2, <2>1, <2>2, <3>1, <3>2 DEF Earlier
    <2> QED BY <2>3, <2>4
  <1>5. ReadSoFar' = ReadSoFar \cup {at}
    <2>1. ReadSoFar' = {m \in Mentions : Earlier(m, at')}
      BY <1>3 DEF ReadSoFar, Earlier
    <2> QED BY <1>4, <2>1 DEF ReadSoFar
  <1>6. at' \in (1..(Len(groups) + 1)) \X Nat
    BY <1>1, <1>2
  <1>7. at'[2] # 0 => at' \in Mentions
    <2> SUFFICES ASSUME at'[2] # 0 PROVE at' \in Mentions
      OBVIOUS
    <2>1. at' = <<at[1], at[2] + 1>> /\ at[2] < Len(This.packages)
      BY <1>1
    <2>2. at[2] + 1 \in DOMAIN groups[at[1]].packages
      BY <1>1, <1>2, <2>1 DEF This
    <2> QED BY <1>1, <2>1, <2>2 DEF Mentions
  <1> QED BY <1>5, <1>6, <1>7

LEMMA PlanningStep == PlanningInv /\ [PlanNext]_planVars => PlanningInv'
  <1> SUFFICES ASSUME PlanningInv, [PlanNext]_planVars
               PROVE  PlanningInv'
    OBVIOUS
  <1>1. PlanTyped /\ PlanOf(ReadSoFar) /\ (status = "planned" => at[1] > Len(groups))
    BY DEF PlanningInv
  \* Neither what is read nor the plan changes.
  <1>2. ASSUME UNCHANGED <<groups, plan>>,
               at' \in (1..(Len(groups) + 1)) \X Nat,
               at'[2] # 0 => at' \in Mentions,
               ReadSoFar' = ReadSoFar
        PROVE  PlanTyped' /\ PlanOf(ReadSoFar)'
    <2>1. /\ Mentions' = Mentions /\ \A m : Asked(m)' = Asked(m)
      BY <1>2, AskedKept
    <2>2. /\ {Asked(m) : m \in Mentions}' = {Asked(m) : m \in Mentions}
          /\ {Asked(m).root : m \in Mentions}' = {Asked(m).root : m \in Mentions}
      BY <2>1
    <2>3. PlanTyped'
      BY <1>1, <1>2, <2>1, <2>2 DEF PlanTyped
    <2>4. PlanOf(ReadSoFar)'
      <3>1. PICK R : R = ReadSoFar
        OBVIOUS
      <3>2. /\ PackagesOf(R)' = PackagesOf(R) /\ LinksOf(R)' = LinksOf(R)
            /\ \A p : TargetsOf(R, p)' = TargetsOf(R, p)
        BY <1>2, AskedKept
      <3>3. PlanOf(R)
        BY <1>1, <3>1
      <3>4. PlanOf(R)'
        BY <1>2, <3>2, <3>3 DEF PlanOf
      <3>5. R = ReadSoFar'
        BY <1>2, <3>1
      <3> QED BY <3>4, <3>5 DEF PlanOf, PackagesOf, LinksOf, TargetsOf
    <2> QED BY <2>3, <2>4
  <1>3. ASSUME UNCHANGED <<groups, at, plan>>,
               status' = "planned" => at[1] > Len(groups)
        PROVE  PlanningInv'
    <2>1. at' \in (1..(Len(groups) + 1)) \X Nat /\ (at'[2] # 0 => at' \in Mentions)
      BY <1>1, <1>3 DEF PlanTyped
    <2>2. ReadSoFar' = ReadSoFar
      BY <1>3 DEF ReadSoFar, Mentions, Earlier
    <2> QED BY <1>2, <1>3, <2>1, <2>2 DEF PlanningInv
  <1>4. CASE BeginGroup
    <2>1. CASE RefusePlan
      BY <1>3, <2>1 DEF RefusePlan
    <2>2. CASE /\ This.packages # <<>> /\ at' = <<at[1], 1>>
               /\ UNCHANGED <<groups, appended, plan, status>>
      <3>1. /\ status = "planning" /\ at[1] \in 1..Len(groups) /\ at[1] \in Nat
            /\ at = <<at[1], 0>> /\ at[2] = 0
        BY <1>1, <1>4 DEF BeginGroup, PlanTyped
      <3>2. 1 \in DOMAIN This.packages
        <4>1. This.packages \in Seq(Packages)
          BY <1>1, <3>1 DEF PlanTyped, This
        <4> QED BY <2>2, <4>1
      <3>3. at' \in Mentions
        BY <1>1, <2>2, <3>1, <3>2 DEF Mentions, This, PlanTyped
      <3>4. at' \in (1..(Len(groups) + 1)) \X Nat
        BY <1>1, <2>2, <3>1 DEF PlanTyped
      <3>5. ReadSoFar' = ReadSoFar
        <4>1. Mentions' = Mentions
          BY <2>2, AskedKept
        <4>2. ASSUME NEW m \in Mentions
              PROVE  Earlier(m, at') <=> Earlier(m, at)
          <5>1. m[1] \in Nat /\ m[2] \in Nat /\ m[2] >= 1
            BY <1>1, MentionFacts
          <5>2. at'[1] = at[1] /\ at'[2] = 1
            BY <2>2
          <5> QED BY <3>1, <5>1, <5>2 DEF Earlier
        <4>3. ReadSoFar' = {m \in Mentions : Earlier(m, at')}
          BY <4>1 DEF ReadSoFar, Earlier
        <4> QED BY <4>2, <4>3 DEF ReadSoFar
      <3>6. status' # "planned"
        BY <2>2, <3>1
      <3> QED BY <1>2, <2>2, <3>3, <3>4, <3>5, <3>6 DEF PlanningInv
    <2> QED BY <1>4, <2>1, <2>2 DEF BeginGroup
  <1>5. CASE NextPackage
    <2>1. CASE RefusePlan
      BY <1>3, <2>1 DEF RefusePlan
    <2>2. CASE /\ TakePackage
               /\ at' = IF at[2] < Len(This.packages) THEN <<at[1], at[2] + 1>>
                                                      ELSE <<at[1] + 1, 0>>
               /\ UNCHANGED <<groups, appended, status>>
      <3>1. status = "planning" /\ at \in Mentions
        BY <1>1, <1>5 DEF NextPackage, PlanTyped
      <3>2. /\ ReadSoFar' = ReadSoFar \cup {at}
            /\ at' \in (1..(Len(groups) + 1)) \X Nat
            /\ at'[2] # 0 => at' \in Mentions
        BY <1>1, <2>2, <3>1, ReadNext
      <3>3. PICK M : M = ReadSoFar \cup {at}
        OBVIOUS
      <3>4. /\ PlanOf(M)'
            /\ plan' \in [packages : Seq(Packages), links : Seq({Asked(m) : m \in Mentions}),
                          linkTo : [Packages -> Seq({Asked(m).root : m \in Mentions})]]
        BY <1>1, <2>2, <3>1, <3>3, TakeExtendsPlan
      <3>5. M = ReadSoFar'
        BY <3>2, <3>3
      <3>6. PlanOf(ReadSoFar)'
        BY <3>4, <3>5 DEF PlanOf, PackagesOf, LinksOf, TargetsOf
      <3>7. PlanTyped'
        <4>1. /\ Mentions' = Mentions /\ \A m : Asked(m)' = Asked(m)
          BY <2>2, AskedKept
        <4>2. /\ {Asked(m) : m \in Mentions}' = {Asked(m) : m \in Mentions}
              /\ {Asked(m).root : m \in Mentions}' = {Asked(m).root : m \in Mentions}
          BY <4>1
        <4> QED BY <1>1, <2>2, <3>2, <3>4, <4>1, <4>2 DEF PlanTyped
      <3> QED BY <2>2, <3>1, <3>6, <3>7 DEF PlanningInv
    <2> QED BY <1>5, <2>1, <2>2 DEF NextPackage
  <1>6. CASE EndPlan
    BY <1>3, <1>6 DEF EndPlan, RefusePlan
  <1>7. CASE UNCHANGED planVars
    BY <1>1, <1>3, <1>7 DEF planVars
  <1> QED BY <1>4, <1>5, <1>6, <1>7 DEF PlanNext

(* Whatever the file and the command line ask for, in however many groups   *)
(* and spellings: the plan that `bm install` carries out has each package,  *)
(* link operation and target once, in the order of first mention.           *)
THEOREM PlanIsFaithful == PlanSpec => []Faithful
  <1>1. PlanningInv => Faithful
    <2> SUFFICES ASSUME PlanningInv, status = "planned" PROVE PlanOf(Mentions)
      BY DEF Faithful
    <2>1. ASSUME NEW m \in Mentions PROVE Earlier(m, at)
      <3>1. m[1] \in 1..Len(groups) /\ at[1] > Len(groups) /\ Len(groups) \in Nat
            /\ at[1] \in Nat
        BY MentionFacts DEF PlanningInv, PlanTyped
      <3> QED BY <3>1 DEF Earlier
    <2>2. ReadSoFar = Mentions
      BY <2>1 DEF ReadSoFar
    <2> QED BY <2>2 DEF PlanningInv
  <1> QED BY <1>1, PlanningInit, PlanningStep, PTL DEF PlanSpec

(* A plan is one that BinmanStore may be given: its operations are of its   *)
(* packages, and the targets that install compares and unlinks, linkTo, are *)
(* those that BinmanStore reads from the operations.                        *)
THEOREM PlanFitsTheStore ==
    PlanSpec => [](status = "planned" =>
                     /\ \A i \in DOMAIN plan.links : plan.links[i].pkg \in ToSet(plan.packages)
                     /\ \A p \in Packages : ToSet(plan.linkTo[p]) = LinkTo([ops |-> plan.links], p))
  <1>1. ASSUME Faithful, status = "planned"
        PROVE  /\ \A i \in DOMAIN plan.links : plan.links[i].pkg \in ToSet(plan.packages)
               /\ \A p \in Packages : ToSet(plan.linkTo[p]) = LinkTo([ops |-> plan.links], p)
    <2>1. /\ ToSet(plan.packages) = {Asked(m).pkg : m \in Mentions}
          /\ ToSet(plan.links) = {Asked(m) : m \in {n \in Mentions : Asked(n).root # ""}}
      <3>1. /\ ToSet(plan.packages) = {PackagesOf(Mentions)[m] : m \in DOMAIN PackagesOf(Mentions)}
            /\ ToSet(plan.links) = {LinksOf(Mentions)[m] : m \in DOMAIN LinksOf(Mentions)}
        BY <1>1 DEF Faithful, PlanOf, Lists
      <3> QED BY <3>1 DEF PackagesOf, LinksOf
    <2>2. \A i \in DOMAIN plan.links : plan.links[i].pkg \in ToSet(plan.packages)
      <3>1. \A i \in DOMAIN plan.links : plan.links[i] \in ToSet(plan.links)
        BY DEF ToSet
      <3> QED BY <2>1, <3>1
    <2>3. ASSUME NEW p \in Packages
          PROVE  ToSet(plan.linkTo[p]) = LinkTo([ops |-> plan.links], p)
      <3> DEFINE T == {n \in Mentions : Asked(n).root # "" /\ Asked(n).pkg = p}
      <3>1. ToSet(plan.linkTo[p]) = {Asked(m).root : m \in T}
        <4>1. ToSet(plan.linkTo[p])
                = {TargetsOf(Mentions, p)[m] : m \in DOMAIN TargetsOf(Mentions, p)}
          BY <1>1 DEF Faithful, PlanOf, Lists
        <4> QED BY <4>1 DEF TargetsOf
      <3>2. LinkTo([ops |-> plan.links], p) = {o.root : o \in {q \in ToSet(plan.links) : q.pkg = p}}
        BY DEF LinkTo, ToSet
      <3> HIDE DEF T
      <3>3. \A o \in ToSet(plan.links) : \E m \in Mentions : Asked(m).root # "" /\ o = Asked(m)
        BY <2>1
      <3>4. \A m \in Mentions : Asked(m).root # "" => Asked(m) \in ToSet(plan.links)
        BY <2>1
      <3>5. ASSUME NEW r, r \in ToSet(plan.linkTo[p])
            PROVE  r \in LinkTo([ops |-> plan.links], p)
        <4>1. PICK m \in T : r = Asked(m).root
          BY <3>1, <3>5
        <4>2. Asked(m) \in ToSet(plan.links) /\ Asked(m).pkg = p
          BY <3>4, <4>1 DEF T
        <4> QED BY <3>2, <4>1, <4>2
      <3>6. ASSUME NEW r, r \in LinkTo([ops |-> plan.links], p)
            PROVE  r \in ToSet(plan.linkTo[p])
        <4>1. PICK o \in ToSet(plan.links) : o.pkg = p /\ r = o.root
          BY <3>2, <3>6
        <4>2. PICK m \in Mentions : Asked(m).root # "" /\ o = Asked(m)
          BY <3>3
        <4> QED BY <3>1, <4>1, <4>2 DEF T
      <3> QED BY <3>5, <3>6
    <2> QED BY <2>2, <2>3
  <1> QED BY <1>1, PlanIsFaithful, PTL
=============================================================================
