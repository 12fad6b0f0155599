-------------------------- MODULE NixcacheRetention --------------------------
(***************************************************************************)
(* What `nixcache prune` may delete (prune.go, roots.go): the segments     *)
(* that retention gives up, less those that provide the closure of a root. *)
(*                                                                         *)
(* Root protection is modelled as the code computes it, one path of the    *)
(* worklist at a time, since a segment may hold a path in another build    *)
(* with other references.  When a candidate is deleted is the business of  *)
(* NixcacheGC: here a run deletes any of its candidates, in any order, and *)
(* may fail in between, while segments are pushed.                         *)
(***************************************************************************)
EXTENDS Integers, FiniteSets

CONSTANTS
    Segment,      \* segments ever pushed
    System,       \* cacheSystems
    Snapshot,     \* snapshot IDs
    Package,      \* package keys
    NoPackage,    \* the empty key, of a segment from before there were keys
    Path,         \* store paths
    SystemOf, SnapshotOf, PackageOf, CreatedAt,  \* fields of a segment
    Entries,      \* Entries[s]: the paths of s, with their references
    Age,          \* Age[s]: the place of s in the order of compareSegments
    Roots,        \* the roots files there may be: [System -> SUBSET Path]
    Keep,         \* --snapshot-keep
    Window,       \* --package-retain-days, in units of CreatedAt
    PackageKeep   \* --package-keep

\* compareSegments is a total order, by time first, in which segments have a
\* newest.  nix copy exports closures: a segment has the references of its paths.
ASSUME RetentionAssumption ==
    /\ System # {}
    /\ NoPackage \notin Package
    /\ SystemOf \in [Segment -> System]
    /\ SnapshotOf \in [Segment -> Snapshot]
    /\ PackageOf \in [Segment -> Package \union {NoPackage}]
    /\ CreatedAt \in [Segment -> Nat]
    /\ \A s \in Segment :
          /\ DOMAIN Entries[s] \subseteq Path
          /\ \A p \in DOMAIN Entries[s] : Entries[s][p] \subseteq DOMAIN Entries[s]
    /\ Age \in [Segment -> Nat]
    /\ \A s, t \in Segment : /\ Age[s] = Age[t] => s = t
                             /\ CreatedAt[s] < CreatedAt[t] => Age[s] < Age[t]
    /\ \A S \in SUBSET Segment : S # {} => \E s \in S : \A t \in S : Age[t] <= Age[s]
    /\ Roots \subseteq [System -> SUBSET Path]
    /\ Keep \in Nat \ {0}
    /\ Window \in Nat
    /\ PackageKeep \in Nat \ {0}

VARIABLES
    fresh,    \* segments not pushed yet
    present,  \* segments in the registry
    run       \* the prune run, with its local variables

vars == <<fresh, present, run>>

\* Ever deleted.  No tag is pushed twice.
Deleted == Segment \ (fresh \union present)

-----------------------------------------------------------------------------
\* Retention, for the segments S.

Newest(S) == CHOOSE s \in S : \A t \in S : Age[t] <= Age[s]

Members(S, y, n) == {s \in S : SystemOf[s] = y /\ SnapshotOf[s] = n}

SnapshotsOf(S, y) == {SnapshotOf[s] : s \in {t \in S : SystemOf[t] = y}}

\* Mutant: the first segment of a snapshot counts.
SnapshotTimeFirst(S, y, n) ==
    CreatedAt[CHOOSE s \in Members(S, y, n) : \A t \in Members(S, y, n) : Age[s] <= Age[t]]

SnapshotTime(S, y, n) == CreatedAt[Newest(Members(S, y, n))]

\* keptSnapshots: what it may return for y.  Snapshots of the same time come out
\* of a map and of an unstable sort in any order.
KeptChoices(S, y) ==
    {K \in SUBSET SnapshotsOf(S, y) :
        /\ Cardinality(K) = IF Cardinality(SnapshotsOf(S, y)) < Keep
                            THEN Cardinality(SnapshotsOf(S, y)) ELSE Keep
        /\ \A n \in K, m \in SnapshotsOf(S, y) \ K :
              SnapshotTime(S, y, n) >= SnapshotTime(S, y, m)}

Group(S, s) == {t \in S : /\ SystemOf[t] = SystemOf[s]
                          /\ SnapshotOf[t] = SnapshotOf[s]
                          /\ PackageOf[t] = PackageOf[s]}

Newer(S, s) == {t \in Group(S, s) : Age[t] > Age[s]}

\* Mutant: sorted oldest first.
RecentFromOldest(S, s) ==
    LET older == {t \in Group(S, s) : Age[t] < Age[s]}
    IN  CreatedAt[s] > CreatedAt[Newest(Group(S, s))] - Window \/ Cardinality(older) < PackageKeep

\* retainedSegmentsByPackage, for a segment of a kept snapshot.
Recent(S, s) == \/ CreatedAt[s] > CreatedAt[Newest(Group(S, s))] - Window
                \/ Cardinality(Newer(S, s)) < PackageKeep

\* segmentsToDelete.
ToDelete(S, kept) ==
    {s \in S : ~ /\ SnapshotOf[s] \in kept[SystemOf[s]]
                 /\ PackageOf[s] = NoPackage \/ Recent(S, s)}

-----------------------------------------------------------------------------
\* Root protection.

Providers(S, y, p) == {s \in S : SystemOf[s] = y /\ p \in DOMAIN Entries[s]}

Provided(S, y) == {p \in Path : Providers(S, y, p) # {}}

\* providers[path]: the newest segment of the system that has the path.
Provider(S, y, p) == Newest(Providers(S, y, p))

References(S, y, p) == Entries[Provider(S, y, p)][p]

Phase == {"idle", "roots", "walk", "delete"}

\* The local variables of pruneCache and protectedSegments.
NoRun == [pc |-> "idle",
          seg |-> {},                            \* segments fetched
          roots |-> [y \in System |-> {}],
          todo |-> {},                           \* systems still to be walked
          at |-> CHOOSE y \in System : TRUE,     \* the system being walked
          pending |-> {}, visited |-> {},
          protected |-> {},
          kept |-> [y \in System |-> {}],
          left |-> {}]                           \* deletions not done

Run == [pc : Phase, seg : SUBSET Segment, roots : [System -> SUBSET Path],
        todo : SUBSET System, at : System, pending : SUBSET Path,
        visited : SUBSET Path, protected : SUBSET Segment,
        kept : [System -> SUBSET Snapshot], left : SUBSET Segment]

TypeOK == /\ fresh \subseteq Segment
          /\ present \subseteq Segment \ fresh
          /\ run \in Run
          /\ run.seg \intersect fresh = {}
          /\ run.left \subseteq run.seg \intersect present

Init == /\ fresh = Segment
        /\ present = {}
        /\ run = NoRun

-----------------------------------------------------------------------------
\* pushSegment: a tag of its own, with everything nix copy exported.
Push(s) == /\ s \in fresh
           /\ fresh' = fresh \ {s}
           /\ present' = present \union {s}
           /\ UNCHANGED run

\* The segments are fetched; the roots have been evaluated before.
Start(roots) ==
    /\ run.pc = "idle"
    /\ present # {}
    /\ run' = [NoRun EXCEPT !.pc = "roots", !.seg = present, !.roots = roots,
                            !.todo = System]
    /\ UNCHANGED <<fresh, present>>

\* Mutant: uncached roots are walked as well.
SeedAll(y) ==
    /\ run.pc = "roots"
    /\ y \in run.todo
    /\ run' = [run EXCEPT !.pc = "walk", !.todo = @ \ {y}, !.at = y,
                          !.pending = run.roots[y], !.visited = {}]
    /\ UNCHANGED <<fresh, present>>

\* The next system, in any order.  Roots that are not cached do not matter.
Seed(y) ==
    /\ run.pc = "roots"
    /\ y \in run.todo
    /\ run' = [run EXCEPT !.pc = "walk", !.todo = @ \ {y}, !.at = y,
                          !.pending = run.roots[y] \intersect Provided(run.seg, y),
                          !.visited = {}]
    /\ UNCHANGED <<fresh, present>>

\* Mutant: references are not followed.
VisitAlone(p) ==
    /\ run.pc = "walk"
    /\ p \in run.pending
    /\ run' = [run EXCEPT !.pending = @ \ {p}, !.visited = @ \union {p},
                          !.protected = @ \union {Provider(run.seg, run.at, p)}]
    /\ UNCHANGED <<fresh, present>>

\* A path of the worklist.  Its provider is protected, and its references are
\* next; without a provider the run ends.
Visit(p) ==
    /\ run.pc = "walk"
    /\ p \in run.pending
    /\ run' = IF p \in run.visited THEN [run EXCEPT !.pending = @ \ {p}]
              ELSE IF p \notin Provided(run.seg, run.at) THEN NoRun
              ELSE [run EXCEPT
                      !.pending = (@ \ {p}) \union References(run.seg, run.at, p),
                      !.visited = @ \union {p},
                      !.protected = @ \union {Provider(run.seg, run.at, p)}]
    /\ UNCHANGED <<fresh, present>>

Walked == /\ run.pc = "walk"
          /\ run.pending = {}
          /\ run' = [run EXCEPT !.pc = "roots"]
          /\ UNCHANGED <<fresh, present>>

Candidates(S, kept, protected) == ToDelete(S, kept) \ protected

\* The candidates whose grace period is over, which NixcacheGC decides, will be
\* deleted.
Plan(kept, doomed) ==
    /\ run.pc = "roots"
    /\ run.todo = {}
    /\ \A y \in System : kept[y] \in KeptChoices(run.seg, y)
    /\ doomed \subseteq Candidates(run.seg, kept, run.protected)
    /\ run' = [run EXCEPT !.pc = "delete", !.kept = kept, !.left = doomed]
    /\ UNCHANGED <<fresh, present>>

Delete(s) == /\ run.pc = "delete"
             /\ s \in run.left
             /\ present' = present \ {s}
             /\ run' = [run EXCEPT !.left = @ \ {s}]
             /\ UNCHANGED fresh

\* The run is complete, fails or is killed.
End == /\ run.pc # "idle"
       /\ run' = NoRun
       /\ UNCHANGED <<fresh, present>>

Next == \/ \E s \in Segment : Push(s)
        \/ \E roots \in Roots : Start(roots)
        \/ \E y \in System : Seed(y)
        \/ \E p \in Path : Visit(p)
        \/ Walked
        \/ \E kept \in [System -> SUBSET Snapshot], doomed \in SUBSET run.seg :
              Plan(kept, doomed)
        \/ \E s \in Segment : Delete(s)
        \/ End

Spec == Init /\ [][Next]_vars

-----------------------------------------------------------------------------
\* Properties.

\* What the roots R reach among the segments S, newest builds counting: the
\* least set with the cached roots that has the references of its paths.
Follows(S, y, P) == \A p \in P : p \in Provided(S, y) => References(S, y, p) \subseteq P
Reachable(S, y, R) ==
    {p \in Path : \A P \in SUBSET Path :
        R \intersect Provided(S, y) \subseteq P /\ Follows(S, y, P) => p \in P}

\* No walk meets a path without a provider (roots.go, "cached root closure is
\* incomplete"), whatever earlier runs deleted, where they failed, and in which
\* order builds of a path were pushed: otherwise every later run would end there.
ClosureComplete == run.pc = "walk" => run.pending \subseteq Provided(run.seg, run.at)

\* The segments that serve the closure of the cached roots stay while a run
\* deletes, in every system, whatever retention thinks of them.
RootsServed ==
    run.pc = "delete" =>
        \A y \in System : \A p \in Reachable(run.seg, y, run.roots[y]) :
            /\ p \in Provided(run.seg, y)
            /\ Provider(run.seg, y, p) \in present

\* History is given up only for something newer that is still there, over all
\* the runs: a segment of the same package in the same snapshot, of which
\* PackageKeep remain, or Keep snapshots at least as recent.
Superseded(s, S) ==
    \/ PackageOf[s] # NoPackage /\ Cardinality(Newer(S, s)) >= PackageKeep
    \/ LET recent == {t \in S : SystemOf[t] = SystemOf[s] /\ CreatedAt[t] >= CreatedAt[s]}
       IN  Cardinality({SnapshotOf[t] : t \in recent}) >= Keep
DeletedSuperseded == \A s \in Deleted : Superseded(s, present)

\* A run that fails between two deletions leaves a registry in which the next one
\* comes to the same verdicts: it may keep the same snapshots, and then retains
\* what this one retained and gives up what this one did not get to.
VerdictStable ==
    run.pc = "delete" =>
        LET S == run.seg \intersect present
        IN  /\ \A y \in System : run.kept[y] \intersect SnapshotsOf(S, y) \in KeptChoices(S, y)
            /\ ToDelete(S, run.kept) = ToDelete(run.seg, run.kept) \intersect present
==============================================================================
