----------------------------- MODULE BinmanStore -----------------------------
(***************************************************************************)
(* `bm install` and `bm remove` (cmd/binman: install.go, store.go) on one  *)
(* prefix: the store of packages with their metadata, and the tree of      *)
(* symlinks that projects them.                                            *)
(*                                                                         *)
(* Commands run concurrently.  They resolve and read metadata without the  *)
(* lock, and modify the prefix while they hold it, one link, rename or     *)
(* write at a time; any of those may fail, and the process may be killed   *)
(* between any two.                                                        *)
(*                                                                         *)
(* The system follows symlinks to directories on the way to a path: those  *)
(* the user keeps, and those that an older bm projected.  A link may so    *)
(* end up at another path than the one it was meant for, or in the store   *)
(* of another package; what bm does about that (nothing) is part of the    *)
(* model, and the history variable astray says to which packages it has    *)
(* happened.                                                               *)
(*                                                                         *)
(* Within one pass the order of packages, and of the files of a package,   *)
(* is left open; the order of the link operations of a plan is kept.       *)
(***************************************************************************)
EXTENDS Integers, Sequences

CONSTANTS
    Proc,         \* who runs bm; NoOne is not one of them
    NoOne,
    Pkg,          \* package names
    Digest,       \* layer digests: positive numbers, as 0 stands for none
    File,         \* names of files within packages
    DirSymlink,   \* those that are symlinks to directories
    Content,      \* Content[p][d]: the files of the layer d of p
    Root,         \* link-to directories
    Loc,          \* paths in the prefix, outside store/
    Dest,         \* Dest[r][f]: the path of f under r, filepath.Join
    Inner,        \* Inner[r]: a path just below r, at which nothing stands
    Above,        \* Above[l]: the proper ancestors of l in the prefix
    Up,           \* Up[l]: how many there are
    Moved,        \* Moved[l][a][t]: the path l with t for a, an ancestor of l
    Existing,     \* the prefixes a user may have: what is kept at each path
    Legacy,       \* packages an older bm may have installed: [pkg, root]
    Plan,         \* the plans installed: [pkgs, ops], see manifest.go
    MaxCommands,  \* bound: commands ever started
    MaxAborts     \* bound: processes killed, or failed by the system

\* Where a path may lead: to a path of the prefix, into the store of a package,
\* nowhere (it cannot be followed), or to some path that is not in Loc.
At(l) == [kind |-> "path", loc |-> l]
InStore(p) == [kind |-> "store", pkg |-> p]
Nowhere == [kind |-> "nowhere"]
Elsewhere == [kind |-> "elsewhere"]

\* What may be at a path of the prefix.  The text of a link is filepath.Rel from
\* the directory it is meant for: so many times "..", and then the file.
Absent == [kind |-> "absent"]
Directory == [kind |-> "dir"]
Foreign == [kind |-> "file"]
UserLink(to) == [kind |-> "user", to |-> to]
Link(p, f, n) == [kind |-> "link", pkg |-> p, file |-> f, up |-> n]

UserLinks == {UserLink(At(l)) : l \in Loc} \union {UserLink(InStore(p)) : p \in Pkg}
             \union {UserLink(Nowhere), UserLink(Elsewhere)}
Links == {Link(p, f, Up[l]) : p \in Pkg, f \in File, l \in Loc}
Entry == {Absent, Directory, Foreign} \union UserLinks \union Links

IsLink(e) == e.kind = "link"
IsSymlink(e) == e.kind \in {"link", "user"}

\* What is in store/<package>: the names of its files, and whether something was
\* written there that is not of its layer.
NoDigest == 0    \* .binman-meta cannot be read
Package == [present : BOOLEAN, digest : Digest \union {NoDigest},
            roots : SUBSET Root, files : SUBSET File, alien : BOOLEAN]
NoPackage == [present |-> FALSE, digest |-> NoDigest, roots |-> {}, files |-> {},
              alien |-> FALSE]
Operation == [pkg : Pkg, root : Root]

ASSUME StoreAssumption ==
    /\ NoOne \notin Proc
    /\ Digest \subseteq Nat \ {0}
    /\ 1 \in Digest
    /\ DirSymlink \subseteq File
    /\ Content \in [Pkg -> [Digest -> SUBSET File]]
    /\ Dest \in [Root -> [File -> Loc]]
    /\ \A r \in Root, f, g \in File : Dest[r][f] = Dest[r][g] => f = g
    /\ Inner \in [Root -> Loc]
    /\ Above \in [Loc -> SUBSET Loc]
    /\ Up \in [Loc -> Nat]
    /\ Moved \in [Loc -> [Loc -> [Loc -> Loc]]]
    /\ Existing \subseteq [Loc -> {Absent, Directory, Foreign} \union UserLinks]
    /\ Legacy \subseteq Operation
    /\ Plan \subseteq [pkgs : SUBSET Pkg, ops : Seq(Operation)]
    /\ \A plan \in Plan : \A i \in DOMAIN plan.ops : plan.ops[i].pkg \in plan.pkgs

VARIABLES
    prefix,    \* the projection: [Loc -> Entry]
    store,     \* [Pkg -> Package]
    holder,    \* who holds store/.lock
    cmd,       \* [Proc -> the command it runs]
    commands,  \* commands started so far
    aborts,    \* commands killed or failed by the system so far
    torn,      \* history: packages whose removal was interrupted
    astray     \* history: packages with a link, or a store, that is not as planned

disk == <<prefix, store>>
bounds == <<commands, aborts>>
vars == <<prefix, store, holder, cmd, commands, aborts, torn, astray>>
history == <<torn, astray>>

-----------------------------------------------------------------------------
\* One command.  The fields are the local variables of install, commitInstall
\* and remove.

Unlocked == {"idle", "read", "ready"}
Locked == {"check", "job", "unlink", "swap", "put", "removing", "link", "files",
           "place", "done"}

Idle == [pc |-> "idle", install |-> FALSE,
         pkgs |-> {}, ops |-> <<>>,   \* the plan, or the names to remove
         art |-> <<>>,                \* the artifacts resolved
         changed |-> {},              \* jobs whose archive is downloaded
         todo |-> {},                 \* packages this pass has not done yet
         meta |-> <<>>,               \* metadata read under the lock
         cur |-> {},                  \* the package at hand, as a singleton
         backup |-> NoPackage,        \* staged.old
         k |-> 1,                     \* the link operation at hand
         left |-> {},                 \* its files that are not linked yet
         file |-> {}]                 \* the file at hand, as a singleton

Command ==
    [pc : Unlocked \union Locked, install : BOOLEAN,
     pkgs : SUBSET Pkg, ops : Seq(Operation),
     art : [Pkg -> Digest] \union {<<>>}, changed : SUBSET Pkg,
     todo : SUBSET Pkg, meta : [Pkg -> Package] \union {<<>>},
     cur : SUBSET Pkg, backup : Package, k : Nat \ {0},
     left : SUBSET File, file : SUBSET File]

LinkTo(c, p) == {c.ops[i].root : i \in {j \in DOMAIN c.ops : c.ops[j].pkg = p}}

\* packageFiles, without and with directory symlinks.
LinkFiles(p) == store[p].files \ DirSymlink
UnlinkFiles(p) == store[p].files

Goto(self, c) == cmd' = [cmd EXCEPT ![self] = c]

\* Mutant: an error returns before the lock is released.
ReturnKeepsLock(self) == /\ cmd' = [cmd EXCEPT ![self] = Idle]
                         /\ UNCHANGED holder

\* The command returns, with or without an error, and gives up the lock.
Return(self) == /\ cmd' = [cmd EXCEPT ![self] = Idle]
                /\ holder' = IF holder = self THEN NoOne ELSE holder

-----------------------------------------------------------------------------
\* The way to a path: os.Root follows a symlink on it, and refuses one that leads
\* out of the prefix.

MaxHops == 8

\* Where the symlink at a leads when something is looked for below it.  A file
\* of the layer is not a directory; otherwise the way goes on in the store.
Leads(a) ==
    LET e == prefix[a]
    IN  IF ~IsLink(e) THEN e.to
        ELSE IF e.up # Up[a] THEN Elsewhere
        ELSE IF e.file \in store[e.pkg].files \ DirSymlink /\ ~store[e.pkg].alien
        THEN Nowhere
        ELSE InStore(e.pkg)

Turns(l) == {a \in Above[l] : IsSymlink(prefix[a])}

Detour(l) ==
    LET walk[n \in 0 .. MaxHops, m \in Loc] ==
          IF Turns(m) = {} THEN At(m)
          ELSE IF n = 0 THEN Nowhere
          ELSE LET a == CHOOSE a \in Turns(m) : TRUE
               IN  IF Leads(a).kind = "path" THEN walk[n - 1, Moved[m][a][Leads(a).loc]]
                   ELSE Leads(a)
    IN  walk[MaxHops, l]

\* What is at l is at Place(l).
Place(l) == IF Turns(l) = {} THEN At(l) ELSE Detour(l)

Reachable(l) == \A a \in Above[l] : prefix[a] = Directory

\* Readlink fails with neither ENOENT nor EINVAL: it must, or it may.
Obstructed(l) ==
    \/ Place(l) = Nowhere
    \/ \E m \in Loc : (\E a \in Above[m] : prefix[a] = Foreign) /\ Place(l) = At(m)

Uncertain(l) == Place(l).kind \in {"store", "elsewhere"}

-----------------------------------------------------------------------------
\* The links that the packages "old" want at l.
Projection(old, l) ==
    {e \in Links : \E o \in old : /\ e.pkg = o.pkg
                                  /\ e.file \in Content[o.pkg][1]
                                  /\ Dest[o.root][e.file] = l
                                  /\ e.up = Up[l]}

\* A fresh prefix, or one that an older bm filled: it projected directory
\* symlinks too.
Init ==
    \E old \in {{}, Legacy}, kept \in Existing :
      /\ store = [p \in Pkg |->
                    IF \A o \in old : o.pkg # p THEN NoPackage
                    ELSE [present |-> TRUE, digest |-> 1, files |-> Content[p][1],
                          alien |-> FALSE,
                          roots |-> {o.root : o \in {q \in old : q.pkg = p}}]]
      /\ prefix = [l \in Loc |->
                    IF Projection(old, l) # {}
                    THEN CHOOSE e \in Projection(old, l) : TRUE
                    ELSE IF \E m \in Loc : Projection(old, m) # {} /\ l \in Above[m]
                    THEN Directory
                    ELSE kept[l]]
      /\ \A l \in Loc : prefix[l] # Absent => Reachable(l)
      /\ holder = NoOne
      /\ cmd = [s \in Proc |-> Idle]
      /\ commands = 0
      /\ aborts = 0
      /\ torn = {}
      /\ astray = {}

-----------------------------------------------------------------------------
\* Before the lock.

\* install, up to and including resolve: the registry may have any layer d[p] of
\* each package p by then.
StartInstall(self, plan, d) ==
    /\ cmd[self].pc = "idle"
    /\ commands < MaxCommands
    /\ commands' = commands + 1
    /\ \A p \in Pkg \ plan.pkgs : d[p] = 1
    /\ Goto(self, [Idle EXCEPT !.pc = "read", !.install = TRUE,
                               !.pkgs = plan.pkgs, !.ops = plan.ops,
                               !.art = d, !.todo = plan.pkgs])
    /\ UNCHANGED <<disk, holder, aborts, history>>

StartRemove(self, names) ==
    /\ cmd[self].pc = "idle"
    /\ commands < MaxCommands
    /\ commands' = commands + 1
    /\ Goto(self, [Idle EXCEPT !.pc = "ready", !.pkgs = names])
    /\ UNCHANGED <<disk, holder, aborts, history>>

\* A package in the store whose metadata cannot be read is an error.
Unreadable(p) == store[p].present /\ store[p].digest = NoDigest

ReadMetadata(self, p) ==
    LET c == cmd[self]
    IN  /\ c.pc = "read"
        /\ p \in c.todo
        /\ IF Unreadable(p) THEN Return(self)
           ELSE /\ Goto(self, [c EXCEPT
                     !.todo = @ \ {p},
                     !.changed = IF store[p].present /\ store[p].digest = c.art[p]
                                 THEN @ ELSE @ \union {p}])
                /\ UNCHANGED holder
        /\ UNCHANGED <<disk, bounds, history>>

\* The archives of changed jobs are downloaded and extracted to a workspace.
Stage(self) == /\ cmd[self].pc = "read"
               /\ cmd[self].todo = {}
               /\ Goto(self, [cmd[self] EXCEPT !.pc = "ready"])
               /\ UNCHANGED <<disk, holder, bounds, history>>

-----------------------------------------------------------------------------
\* Under the lock: withPrefixLock, then commitInstall or remove.

Lock(self) == /\ cmd[self].pc = "ready"
              /\ holder = NoOne
              /\ holder' = self
              /\ Goto(self, [cmd[self] EXCEPT !.pc = "check"])
              /\ UNCHANGED <<disk, bounds, history>>

\* Mutant: that a package is unchanged is not checked again under the lock.
StaleIgnoresDigest(c, p) ==
    (c.install => p \notin c.changed) /\ ~store[p].present

\* install: "changed during installation; retry".  remove: "not installed".
Stale(c, p) ==
    IF c.install
    THEN p \notin c.changed /\ ~(store[p].present /\ store[p].digest = c.art[p])
    ELSE ~store[p].present

Check(self) ==
    LET c == cmd[self]
    IN  /\ c.pc = "check"
        /\ IF \E p \in c.pkgs : Unreadable(p) \/ Stale(c, p) THEN Return(self)
           ELSE /\ Goto(self, [c EXCEPT !.pc = "job", !.todo = c.pkgs,
                                        !.meta = store])
                /\ UNCHANGED holder
        /\ UNCHANGED <<disk, bounds, history>>

NextJob(self, p) ==
    LET c == cmd[self]
    IN  /\ c.pc = "job"
        /\ p \in c.todo
        /\ Goto(self, [c EXCEPT !.todo = @ \ {p}, !.cur = {p},
                     !.pc = IF c.meta[p].present THEN "unlink" ELSE "swap"])
        /\ UNCHANGED <<disk, holder, bounds, history>>

\* relativePath: what the link for f under r says.
Text(p, r, f) == Link(p, f, Up[Dest[r][f]])

\* unlinkPackage: every file of the store under every recorded target.

\* Mutant: links are looked for where the plan wants them.
TargetsOfPlan(c, p) == LinkTo(c, p)

Targets(c, p) == c.meta[p].roots

\* Mutant: any symlink at the path of a file counts as that of the package.
OwnAnyLink(p, r, f, l) == IsLink(prefix[l]) /\ Place(Dest[r][f]) = At(l)

Own(p, r, f, l) == /\ prefix[l] = Text(p, r, f)
                   /\ Place(Dest[r][f]) = At(l)

\* (A link that is in a store is removed as well.  Of a store with something alien
\* in it, the model knows only which names it had.)
Unlink(self, p, r, f, l) ==
    /\ cmd[self].pc = "unlink"
    /\ p \in cmd[self].cur
    /\ r \in Targets(cmd[self], p)
    /\ f \in UnlinkFiles(p)
    /\ Own(p, r, f, l)
    /\ prefix' = [prefix EXCEPT ![l] = Absent]
    /\ UNCHANGED <<store, holder, cmd, bounds, history>>

Stuck(c) == \E p \in c.cur : \E r \in Targets(c, p), f \in UnlinkFiles(p) :
               Obstructed(Dest[r][f])

MayBeStuck(c) == \E p \in c.cur :
                   \/ store[p].alien
                   \/ \E r \in Targets(c, p), f \in UnlinkFiles(p) :
                         Uncertain(Dest[r][f])

UnlinkFails(self) == /\ cmd[self].pc = "unlink"
                     /\ Stuck(cmd[self]) \/ MayBeStuck(cmd[self])
                     /\ Return(self)
                     /\ UNCHANGED <<disk, bounds, history>>

Unlinked(self) ==
    LET c == cmd[self]
    IN  /\ c.pc = "unlink"
        /\ \A p \in c.cur :
              \/ store[p].alien
              \/ /\ ~Stuck(c)
                 /\ \A r \in Targets(c, p), f \in UnlinkFiles(p), l \in Loc :
                       ~Own(p, r, f, l)
        /\ Goto(self, [c EXCEPT !.pc = IF c.install THEN "swap" ELSE "removing"])
        /\ UNCHANGED <<disk, holder, bounds, history>>

\* replaceStore: two renames, and back if the second one fails.
BackUp(self, p) ==
    LET c == cmd[self]
    IN  /\ c.pc = "swap"
        /\ p \in c.cur \intersect c.changed
        /\ Goto(self, [c EXCEPT !.pc = "put", !.backup = store[p]])
        /\ store' = [store EXCEPT ![p] = NoPackage]
        /\ UNCHANGED <<prefix, holder, bounds, history>>

Staged(c, p) == [present |-> TRUE, digest |-> c.art[p], roots |-> LinkTo(c, p),
                 files |-> Content[p][c.art[p]], alien |-> FALSE]

Put(self, p) ==
    LET c == cmd[self]
    IN  /\ c.pc = "put"
        /\ p \in c.cur
        /\ Goto(self, [c EXCEPT !.pc = "job", !.backup = NoPackage])
        /\ store' = [store EXCEPT ![p] = Staged(c, p)]
        /\ torn' = torn \ {p}
        /\ UNCHANGED <<prefix, holder, bounds, astray>>

PutBack(self, p) ==
    /\ cmd[self].pc = "put"
    /\ p \in cmd[self].cur
    /\ cmd[self].backup.present
    /\ aborts < MaxAborts
    /\ aborts' = aborts + 1
    /\ store' = [store EXCEPT ![p] = cmd[self].backup]
    /\ Return(self)
    /\ UNCHANGED <<prefix, commands, history>>

\* The store of a job that is not Changed stays, with new targets.
WriteMetadata(self, p) ==
    LET c == cmd[self]
    IN  /\ c.pc = "swap"
        /\ p \in c.cur \ c.changed
        /\ Goto(self, [c EXCEPT !.pc = "job"])
        /\ store' = [store EXCEPT ![p].digest = c.art[p],
                                  ![p].roots = LinkTo(c, p)]
        /\ UNCHANGED <<prefix, holder, bounds, history>>

\* remove: RemoveAll(store) takes entries in any order, .binman-meta among them.
RemoveSome(self, p, files, keepMeta) ==
    /\ cmd[self].pc = "removing"
    /\ p \in cmd[self].cur
    /\ files \subseteq store[p].files
    /\ store' = [store EXCEPT ![p] =
                   IF keepMeta /\ ~Unreadable(p) THEN [@ EXCEPT !.files = files]
                   ELSE [@ EXCEPT !.files = files, !.digest = NoDigest, !.roots = {}]]
    /\ store' # store
    /\ torn' = torn \union {p}
    /\ UNCHANGED <<prefix, holder, cmd, bounds, astray>>

Removed(self, p) ==
    LET c == cmd[self]
    IN  /\ c.pc = "removing"
        /\ p \in c.cur
        /\ Goto(self, [c EXCEPT !.pc = "job"])
        /\ store' = [store EXCEPT ![p] = NoPackage]
        /\ torn' = torn \ {p}
        /\ UNCHANGED <<prefix, holder, bounds, astray>>

JobsDone(self) ==
    LET c == cmd[self]
    IN  /\ c.pc = "job"
        /\ c.todo = {}
        /\ Goto(self, [c EXCEPT !.cur = {},
                                !.pc = IF c.install THEN "link" ELSE "done"])
        /\ UNCHANGED <<disk, holder, bounds, history>>

-----------------------------------------------------------------------------
\* linkPackage, for the operation at hand.

\* (The guards that these actions share are in LinkPackage and LinkOne.)
AtOperation(c, p, r) ==
    /\ c.pc \in {"link", "files", "place"}
    /\ c.k <= Len(c.ops)
    /\ p = c.ops[c.k].pkg
    /\ r = c.ops[c.k].root

ListFiles(self, p) ==
    /\ cmd[self].pc = "link"
    /\ \E files \in IF store[p].alien THEN SUBSET store[p].files ELSE {LinkFiles(p)} :
          Goto(self, [cmd[self] EXCEPT !.pc = "files", !.left = files])
    /\ UNCHANGED <<disk, holder, bounds, history>>

\* packageFiles: a symlink in the store leads nowhere.
ListFails(self, p) == /\ cmd[self].pc = "link"
                      /\ store[p].alien
                      /\ Return(self)
                      /\ UNCHANGED <<disk, bounds, history>>

\* MkdirAll makes the directories above these.
Wanted(c, r) == {Inner[r]} \union {Dest[r][f] : f \in c.left}

\* MkdirAll, one directory.
MakeDir(self, r, l) ==
    /\ cmd[self].pc = "files"
    /\ prefix[l] = Absent
    /\ Reachable(l)
    /\ \E w \in Wanted(cmd[self], r), m \in Loc : l \in Above[m] /\ Place(w) = At(m)
    /\ prefix' = [prefix EXCEPT ![l] = Directory]
    /\ UNCHANGED <<store, holder, cmd, bounds, history>>

\* The link-to directory is there, for all that bm sees.
Opened(r) == /\ Place(Inner[r]) # Nowhere
             /\ \A m \in Loc : Place(Inner[r]) = At(m) => Reachable(m)

Linked(self, f) == Goto(self, [cmd[self] EXCEPT !.pc = "files", !.left = @ \ {f},
                                                !.file = {}])

\* What is done for f is done at l: another path than the plan has?
Strays(p, r, f, l) == astray' = IF l = Dest[r][f] THEN astray ELSE astray \union {p}

\* What is at the path of f is at l.
LinkFile(self, p, r, f, l) ==
    /\ \/ cmd[self].pc = "files"
       \/ cmd[self].pc = "place" /\ f \in cmd[self].file
    /\ prefix[l] = Absent
    /\ prefix' = [prefix EXCEPT ![l] = Text(p, r, f)]
    /\ Linked(self, f)
    /\ Strays(p, r, f, l)
    /\ UNCHANGED <<store, holder, bounds, torn>>

\* Mutant: any link of a package that is there is kept.
KeepAnyLink(self, p, r, f, l) ==
    /\ cmd[self].pc = "files"
    /\ IsLink(prefix[l])
    /\ Linked(self, f)
    /\ Strays(p, r, f, l)
    /\ UNCHANGED <<disk, holder, bounds, torn>>

KeepLink(self, p, r, f, l) ==
    /\ cmd[self].pc = "files"
    /\ prefix[l] = Text(p, r, f)
    /\ Linked(self, f)
    /\ Strays(p, r, f, l)
    /\ UNCHANGED <<disk, holder, bounds, torn>>

\* Mutant: whatever is in the way is removed.
RemoveAnything(self, p, r, f, l) ==
    /\ cmd[self].pc = "files"
    /\ prefix[l] \notin {Absent, Text(p, r, f)}
    /\ prefix' = [prefix EXCEPT ![l] = Absent]
    /\ Goto(self, [cmd[self] EXCEPT !.pc = "place", !.file = {f}])
    /\ Strays(p, r, f, l)
    /\ UNCHANGED <<store, holder, bounds, torn>>

\* Another symlink is there, whoever made it: it is removed, and then replaced.
RemoveStale(self, p, r, f, l) ==
    /\ cmd[self].pc = "files"
    /\ IsSymlink(prefix[l])
    /\ prefix[l] # Text(p, r, f)
    /\ prefix' = [prefix EXCEPT ![l] = Absent]
    /\ Goto(self, [cmd[self] EXCEPT !.pc = "place", !.file = {f}])
    /\ Strays(p, r, f, l)
    /\ UNCHANGED <<store, holder, bounds, torn>>

\* The path of f leads into the store of q: the link is written there, under some
\* name g, in the place of a symlink of that name if there is one.
LinkInStore(self, p, f, q, g) ==
    /\ cmd[self].pc = "files"
    /\ store' = [store EXCEPT ![q].present = TRUE, ![q].alien = TRUE,
                              ![q].files = @ \union {g}]
    /\ Linked(self, f)
    /\ astray' = astray \union {p, q}
    /\ UNCHANGED <<prefix, holder, bounds, torn>>

LinkElsewhere(self, p, f) ==
    /\ cmd[self].pc = "files"
    /\ Linked(self, f)
    /\ astray' = astray \union {p}
    /\ UNCHANGED <<disk, holder, bounds, torn>>

\* A directory cannot be made (it must be one that is there already, where the
\* last part of the path is a symlink), or what is not a symlink would be replaced.
Refused(c, r) ==
    \/ \E w \in Wanted(c, r) : Place(w).kind # "path"
    \/ \E w \in Wanted(c, r), m \in Loc :
          /\ \/ \E a \in Above[m] : prefix[a] = Foreign
             \/ w # m /\ ~Reachable(m)
          /\ Place(w) = At(m)
    \/ \E f \in c.left, m \in Loc :
          prefix[m] \in {Directory, Foreign} /\ Place(Dest[r][f]) = At(m)

\* The symlink that was removed was on the way to the link that is to replace it.
Cut(c, r) == \E f \in c.file : ~\E l \in Loc : /\ Place(Dest[r][f]) = At(l)
                                             /\ Reachable(l)
                                             /\ prefix[l] = Absent

LinkFails(self, r) == /\ \/ cmd[self].pc = "files" /\ Refused(cmd[self], r)
                         \/ cmd[self].pc = "place" /\ Cut(cmd[self], r)
                      /\ Return(self)
                      /\ UNCHANGED <<disk, bounds, history>>

NextOperation(self, r) ==
    /\ cmd[self].pc = "files"
    /\ Opened(r)
    /\ cmd[self].left = {}
    /\ Goto(self, [cmd[self] EXCEPT !.pc = "link", !.k = @ + 1])
    /\ UNCHANGED <<disk, holder, bounds, history>>

LinksDone(self) ==
    LET c == cmd[self]
    IN  /\ c.pc = "link"
        /\ c.k > Len(c.ops)
        /\ Goto(self, [c EXCEPT !.pc = "done"])
        /\ UNCHANGED <<disk, holder, bounds, history>>

Unlock(self) == /\ cmd[self].pc = "done"
                /\ Return(self)
                /\ UNCHANGED <<disk, bounds, history>>

\* The process is killed, or a call fails for a reason of its own (the
\* network, a full disk).  Either way flock is released.
Abort(self) == /\ cmd[self].pc # "idle"
               /\ aborts < MaxAborts
               /\ aborts' = aborts + 1
               /\ Return(self)
               /\ UNCHANGED <<disk, commands, history>>

-----------------------------------------------------------------------------
Start(self) == \/ \E plan \in Plan, d \in [Pkg -> Digest] : StartInstall(self, plan, d)
               \/ \E names \in SUBSET Pkg \ {{}} : StartRemove(self, names)

Prepare(self) == \/ \E p \in Pkg : ReadMetadata(self, p)
                 \/ Stage(self)
                 \/ Lock(self)
                 \/ Check(self)

DoJob(self, p) ==
    \/ \E r \in Targets(cmd[self], p), f \in UnlinkFiles(p), l \in Loc :
          Unlink(self, p, r, f, l)
    \/ BackUp(self, p)
    \/ Put(self, p)
    \/ WriteMetadata(self, p)
    \/ \E files \in SUBSET File, keepMeta \in BOOLEAN :
          RemoveSome(self, p, files, keepMeta)
    \/ Removed(self, p)

\* One file, when the directories for it are there.
LinkOne(self, p, r, f) ==
    /\ Opened(r)
    /\ \/ \E l \in Loc :
             /\ Reachable(l)
             /\ Place(Dest[r][f]) = At(l)
             /\ \/ LinkFile(self, p, r, f, l)
                \/ KeepLink(self, p, r, f, l)
                \/ RemoveStale(self, p, r, f, l)
       \/ \E q \in Pkg, g \in File : /\ Place(Dest[r][f]) = InStore(q)
                                     /\ LinkInStore(self, p, f, q, g)
       \/ /\ Place(Dest[r][f]) = Elsewhere
          /\ LinkElsewhere(self, p, f)

LinkPackage(self, p, r) ==
    /\ AtOperation(cmd[self], p, r)
    /\ \/ ListFiles(self, p)
       \/ ListFails(self, p)
       \/ \E l \in Loc : MakeDir(self, r, l)
       \/ \E f \in cmd[self].left : LinkOne(self, p, r, f)
       \/ LinkFails(self, r)
       \/ NextOperation(self, r)

\* What a command that runs does next, unless it is interrupted.
Step(self) == \/ Prepare(self)
              \/ \E p \in Pkg : NextJob(self, p)
              \/ \E p \in cmd[self].cur : DoJob(self, p)
              \/ UnlinkFails(self)
              \/ Unlinked(self)
              \/ JobsDone(self)
              \/ \E p \in Pkg, r \in Root : LinkPackage(self, p, r)
              \/ LinksDone(self)
              \/ Unlock(self)

Next == \E self \in Proc : \/ Start(self)
                           \/ Step(self)
                           \/ \E p \in cmd[self].cur : PutBack(self, p)
                           \/ Abort(self)

Spec == Init /\ [][Next]_vars

\* The operating system runs every process that can take a step.
FairSpec == Spec /\ \A self \in Proc : WF_vars(Step(self))

-----------------------------------------------------------------------------
\* Properties.

\* Types, and the lock: held by a process exactly while it is in its critical
\* section (withPrefixLock unlocks on every return).
TypeOK == /\ prefix \in [Loc -> Entry]
          /\ store \in [Pkg -> Package]
          /\ holder \in Proc \union {NoOne}
          /\ cmd \in [Proc -> Command]
          /\ \A s \in Proc : cmd[s].pc \in Locked <=> holder = s
          /\ commands \in Nat
          /\ aborts \in Nat
          /\ torn \in SUBSET Pkg
          /\ astray \in SUBSET Pkg

\* A link of a package leads to a file that the package has, and stands where the
\* metadata of the package tells remove to look for it.  So no crash or failure
\* leaves a dangling link, or one that no later command would clean up.  It is not
\* so for a package one of whose links was written through a symlink on its way:
\* that link may dangle, and is forgotten when the symlink goes.  Nor for a package
\* in whose store such a link was written.
NoOrphanLinks ==
    \A l \in Loc : IsLink(prefix[l]) /\ prefix[l].pkg \notin astray =>
      LET p == prefix[l].pkg  f == prefix[l].file
      IN  /\ store[p].present
          /\ ~Unreadable(p)
          /\ f \in store[p].files
          /\ prefix[l].up = Up[l]
          /\ \E r \in store[p].roots : Dest[r][f] = l

\* A package is complete under the digest its metadata records, so install is
\* right not to download it again.  No interruption of install makes it otherwise;
\* two things do: a removal that is interrupted, and a link of another package that
\* is written into the store, through a symlink that leads there.
Complete ==
    \A p \in Pkg : store[p].present /\ p \notin torn /\ ~store[p].alien =>
                     /\ ~Unreadable(p)
                     /\ store[p].files = Content[p][store[p].digest]

\* When install succeeds the prefix is what the plan declares: the digest that
\* was resolved, the last operation that maps a file to a path wins (USAGE.md
\* "Concurrency", TestInstallConflictOrder), and no other link leads to its
\* packages (TestInstallLinksAndReconcilesTargetsWithoutDownload).
Claims(c, i, l) ==
    \E f \in LinkFiles(c.ops[i].pkg) : Dest[c.ops[i].root][f] = l

AsPlanned(c) ==
    /\ \A p \in c.pkgs : /\ store[p].present
                         /\ store[p].digest = c.art[p]
                         /\ store[p].roots = LinkTo(c, p)
    /\ \A l \in Loc, i \in DOMAIN c.ops :
         (Claims(c, i, l) /\ \A j \in DOMAIN c.ops : j > i => ~Claims(c, j, l))
         => prefix[l] \in {Link(c.ops[i].pkg, f, Up[l]) : f \in LinkFiles(c.ops[i].pkg)}
    /\ \A l \in Loc, p \in c.pkgs :
         IsLink(prefix[l]) /\ prefix[l].pkg = p
         => \E i \in DOMAIN c.ops : c.ops[i].pkg = p /\ Claims(c, i, l)

Succeeds(s) == cmd[s].pc = "done" /\ cmd[s].install

\* It is so unless, now or before, a link of one of its packages, or one in its
\* store, was written through a symlink on its way.
Reconciled ==
    \A s \in Proc : Succeeds(s) /\ cmd[s].pkgs \intersect astray = {} => AsPlanned(cmd[s])

\* A command takes away only links to the packages it names, and symlinks, those of
\* the user among them, at which one of its own operations arrives: remove leaves a
\* link that "was later overridden by another package" alone (USAGE.md, Remove).
Arrives(c, i, l) ==
    \E f \in UnlinkFiles(c.ops[i].pkg) : Place(Dest[c.ops[i].root][f]) = At(l)

OthersKept ==
    [][\A l \in Loc : IsSymlink(prefix[l]) /\ prefix'[l] # prefix[l] =>
         \E s \in Proc : /\ holder = s
                         /\ \/ IsLink(prefix[l]) /\ prefix[l].pkg \in cmd[s].pkgs
                            \/ \E i \in DOMAIN cmd[s].ops :
                                  Arrives(cmd[s], i, l)]_vars

\* A regular file of the user's is never replaced, and no directory is taken away
\* (linkPackage refuses, unlinkPackage skips).  A symlink of the user's is not
\* safe: see OthersKept.
UserFilesKept ==
    [][\A l \in Loc : prefix[l] \in {Directory, Foreign} => prefix'[l] = prefix[l]]_vars

\* Every command ends, whatever it finds in the prefix and whoever else runs.
CommandsEnd == \A s \in Proc : cmd[s].pc # "idle" ~> cmd[s].pc = "idle"

\* remove gets through: it "cleans up the symlinks that still point to these
\* packages, and then deletes the stores" (USAGE.md, Remove).
RemoveUnobstructed ==
    \A s \in Proc : cmd[s].pc = "unlink" /\ ~cmd[s].install => ~Stuck(cmd[s])

\* When install succeeds, a link into the store is at the path of every leaf file of
\* its packages: it "links their leaf files into the prefix" (USAGE.md, Install).
InstalledIsLinked ==
    \A s \in Proc : Succeeds(s) =>
       \A i \in DOMAIN cmd[s].ops : \A f \in LinkFiles(cmd[s].ops[i].pkg) :
          \E l \in Loc : /\ Place(Dest[cmd[s].ops[i].root][f]) = At(l)
                        /\ IsLink(prefix[l])
==============================================================================
