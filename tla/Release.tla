------------------------------ MODULE Release -------------------------------
(***************************************************************************)
(* How packages get from master to the two registries: the workflows build, *)
(* prune-nix-cache, prune-obsolete-images and delete-untagged-images, and   *)
(* the commands nixcache index, probe, publication and push they call.     *)
(*                                                                         *)
(* One platform.  A build is a package in a version; its identity is the   *)
(* pair of store paths (out, archive), so equal versions are equal outputs, *)
(* and the archive of a build has the same layer every time.               *)
(***************************************************************************)
EXTENDS Integers, FiniteSets

CONSTANTS Package, Version, None,
          PushExcluded,  \* push_exclude_pkgs
          Root,          \* the store paths that discovery asks for, of each build
          Requires,      \* the closure of each store path
          MaxRequests, MaxFaults

Build == Package \X Version
Path == DOMAIN Requires

ASSUME ReleaseAssumption ==
    /\ None \notin Version
    /\ PushExcluded \subseteq Package
    /\ Root \in [Build -> SUBSET Path]
    /\ Requires \in [Path -> SUBSET Path]
    /\ \A p \in Path : p \in Requires[p] /\ \A q \in Requires[p] : Requires[q] \subseteq Requires[p]
    /\ MaxRequests \in Nat /\ MaxFaults \in Nat

VARIABLES want,      \* master: the version of each package
          events,    \* triggers of a workflow that have not reached the group yet
          pending,   \* the run that waits in the group nix-cache-lifecycle
          run,       \* the run that is in progress
          phase, index, unchecked, selected,  \* discovery
          job, todo,                          \* the build jobs
          segments, blobs,                    \* the cache: manifests, NAR blobs
          tag, untagged, layers,              \* the tools: tags, other manifests, layers
          requests, faults

group == <<events, pending>>
progress == <<run, phase, index, unchecked, selected, job, todo>>
cache == <<segments, blobs>>
tools == <<tag, untagged, layers>>
vars == <<want, group, progress, cache, tools, requests, faults>>

Closure(b) == UNION {Requires[r] : r \in Root[b]}
Served(s) == UNION {Closure(b) : b \in s}

Nothing == [p \in Package |-> None]
Wanted(w) == {p \in Package : w[p] # None}
Other(kind) == [kind |-> kind, at |-> Nothing, names |-> {}, check |-> FALSE]
BuildRun(w, names, check) == [kind |-> "build", at |-> w, names |-> names, check |-> check]
NoRun == Other("none")

Resting == /\ run = NoRun /\ phase = "idle"
           /\ index = {} /\ unchecked = {} /\ selected = {}
           /\ job = [p \in Package |-> "done"]
           /\ todo = [p \in Package |-> {}]

Init == /\ want \in [Package -> Version]
        /\ events = {} /\ pending = {}
        /\ Resting
        /\ segments = {} /\ blobs = {}
        /\ tag = Nothing /\ untagged = {} /\ layers = {}
        /\ requests = 0 /\ faults = 0

-----------------------------------------------------------------------------
\* Triggers.  A push to master starts the build and the obsolete clean-up; both
\* are in the group, where one run waits and a newer one takes its place.

Commit ==
    /\ requests < MaxRequests
    /\ want' \in [Package -> Version \cup {None}] \ {want}
    /\ events' = events \cup {BuildRun(want', Wanted(want') \ PushExcluded, TRUE), Other("obsolete")}
    /\ requests' = requests + 1
    /\ UNCHANGED <<pending, progress, cache, tools, faults>>

\* The bound: nothing else is triggered while a trigger is on its way.
Trigger(new) ==
    /\ events = {}
    /\ events' = new
    /\ UNCHANGED <<want, pending, progress, cache, tools, faults>>
\* The bound: a run of a weekly trigger ends before the next such trigger.
Weekly(e) == /\ e \notin pending /\ run.kind # e.kind
             /\ Trigger({e}) /\ UNCHANGED requests
WeeklyBuild == Weekly(BuildRun(want, Wanted(want), FALSE))
WeeklyCleanUp == Weekly(Other("obsolete"))
Dispatch ==
    /\ requests < MaxRequests /\ requests' = requests + 1
    /\ \/ Trigger({BuildRun(want, Wanted(want), TRUE)})
       \/ \E p \in Wanted(want) : Trigger({BuildRun(want, {p}, FALSE)})
       \/ Trigger({Other("prune")})

\* A build checks out the commit that triggered it, the clean-ups master.
Begin(e) ==
    /\ run' = IF e.kind = "build" THEN e ELSE [e EXCEPT !.at = want]
    /\ phase' = IF e.kind = "build" THEN "index" ELSE "delete"
    /\ UNCHANGED <<want, index, unchecked, selected, job, todo, cache, tools, requests, faults>>

\* The group: one run at a time, and one that waits, the newest.
Idle == run = NoRun /\ pending = {}
Queue(e) ==
    /\ e \in events
    /\ events' = events \ {e}
    /\ \/ Idle /\ Begin(e) /\ UNCHANGED pending
       \/ ~Idle /\ pending' = {e} /\ UNCHANGED <<want, progress, cache, tools, requests, faults>>
Start(e) ==
    /\ run = NoRun /\ e \in pending
    /\ pending' = {}
    /\ Begin(e) /\ UNCHANGED events

\* Mutant: the artifact with the index outlives the run.
EndRunKeepsIndex ==
    /\ run' = NoRun /\ phase' = "idle" /\ index' = index /\ unchecked' = {} /\ selected' = {}
    /\ job' = [p \in Package |-> "done"] /\ todo' = [p \in Package |-> {}]
    /\ UNCHANGED <<want, group, cache, tools, requests>>
EndRun ==
    /\ run' = NoRun /\ phase' = "idle" /\ index' = {} /\ unchecked' = {} /\ selected' = {}
    /\ job' = [p \in Package |-> "done"] /\ todo' = [p \in Package |-> {}]
    /\ UNCHANGED <<want, group, cache, tools, requests>>

Fault == faults < MaxFaults /\ faults' = faults + 1

-----------------------------------------------------------------------------
\* Discovery.

\* createFrozenIndex; a run that does not check selects what it was asked for.
CreateIndex ==
    /\ phase = "index"
    /\ index' = Served(segments)
    /\ unchecked' = IF run.check THEN run.names ELSE {}
    /\ selected' = IF run.check THEN {} ELSE run.names
    /\ phase' = "discover"
    /\ UNCHANGED <<want, group, run, job, todo, cache, tools, requests, faults>>

BuildAt(p) == <<p, run.at[p]>>

\* Mutant: a manifest is enough.
PublicationByManifest(p) == tag[p] = run.at[p]
\* publicationReady: the manifest has the identity, and its layer is there.
PublicationReady(p) == tag[p] = run.at[p] /\ BuildAt(p) \in layers

\* probeStorePath, for every root, against the frozen index.
Probe(b) == Root[b] \subseteq index

Check(p) ==
    /\ phase = "discover" /\ p \in unchecked
    /\ unchecked' = unchecked \ {p}
    /\ selected' = IF Probe(BuildAt(p)) /\ PublicationReady(p)
                   THEN selected ELSE selected \cup {p}
    /\ UNCHANGED <<want, group, run, phase, index, job, todo, cache, tools, requests, faults>>

\* An answer that is neither found nor missing ends the discovery, and the run.
Abort ==
    /\ phase = "index" \/ (phase = "discover" /\ unchecked # {})
    /\ Fault
    /\ EndRun

StartJobs ==
    /\ phase = "discover" /\ unchecked = {}
    /\ phase' = "jobs"
    /\ job' = [p \in Package |-> IF p \in selected THEN "build" ELSE "done"]
    /\ UNCHANGED <<want, group, run, index, unchecked, selected, todo, cache, tools, requests, faults>>

-----------------------------------------------------------------------------
\* The jobs of the matrix, side by side.

Advance(p, from, to) ==
    /\ phase = "jobs" /\ job[p] = from
    /\ job' = [job EXCEPT ![p] = to]
    /\ UNCHANGED <<want, group, run, phase, index, unchecked, selected, requests>>

NixBuild(p) ==
    /\ Advance(p, "build", "copy")
    /\ todo' = [todo EXCEPT ![p] = Closure(BuildAt(p))]
    /\ UNCHANGED <<cache, tools, faults>>

\* pushFile: a blob that exists is skipped.
PushFile(p, n) ==
    /\ Advance(p, "copy", "copy")
    /\ n \in todo[p]
    /\ todo' = [todo EXCEPT ![p] = @ \ {n}]
    /\ blobs' = blobs \cup {n}
    /\ UNCHANGED <<segments, tools, faults>>

\* pushSegment after its blobs: the manifest under a tag of its own.
PushSegment(p) ==
    /\ Advance(p, "copy", "layer")
    /\ todo[p] = {}
    /\ segments' = segments \cup {BuildAt(p)}
    /\ UNCHANGED <<todo, blobs, tools, faults>>

\* oras push: the layer unless it exists, then the manifest under the tag.
PushLayer(p) ==
    /\ Advance(p, "layer", "tag")
    /\ layers' = layers \cup {BuildAt(p)}
    /\ UNCHANGED <<todo, cache, tag, untagged, faults>>
PushTag(p) ==
    /\ Advance(p, "tag", "done")
    /\ tag' = [tag EXCEPT ![p] = run.at[p]]
    /\ untagged' = IF tag[p] = None THEN untagged ELSE untagged \cup {<<p, tag[p]>>}
    /\ UNCHANGED <<todo, cache, layers, faults>>

\* Mutant: a closure that cannot be pushed does not stop the publication.
FailToPublish(p) ==
    /\ \/ \E from \in {"build", "layer", "tag"} : Advance(p, from, "failed")
       \/ Advance(p, "copy", "layer")
    /\ Fault
    /\ UNCHANGED <<todo, cache, tools>>
\* Any step of a job may fail, and ends the job only (fail-fast: false).
Fail(p) ==
    /\ \E from \in {"build", "copy", "layer", "tag"} : Advance(p, from, "failed")
    /\ Fault
    /\ UNCHANGED <<todo, cache, tools>>

\* Mutant: a job that fails keeps the run from ending.
FinishWhenDone ==
    /\ phase = "jobs" /\ \A p \in Package : job[p] = "done"
    /\ EndRun /\ UNCHANGED faults
Finish ==
    /\ phase = "jobs" /\ \A p \in Package : job[p] \in {"done", "failed"}
    /\ EndRun /\ UNCHANGED faults

-----------------------------------------------------------------------------
\* The clean-ups.  A blob or layer goes with the last manifest that has it.

\* Mutant: a prune that is not in the group.
DeleteSegmentAnyTime(b) ==
    /\ b \in segments
    /\ segments' = segments \ {b}
    /\ blobs' = blobs \ (Closure(b) \ Served(segments'))
    /\ UNCHANGED <<want, group, progress, tools, requests, faults>>
\* prune-nix-cache: what the current roots need stays (see NixcacheRetention for
\* which segments go, NixcacheGC for when).
DeleteSegment(b) ==
    /\ run.kind = "prune" /\ b \in segments
    /\ segments' = segments \ {b}
    /\ \A p \in Wanted(run.at) :
          Closure(BuildAt(p)) \cap Served(segments) \subseteq Served(segments')
    /\ blobs' = blobs \ (Closure(b) \ Served(segments'))
    /\ UNCHANGED <<want, group, progress, tools, requests, faults>>

Obsolete == Package \ Wanted(run.at)

\* prune-obsolete-images: versions all of whose tags are not expected any more.
DeleteObsolete(p) ==
    /\ run.kind = "obsolete"
    /\ p \in Obsolete /\ tag[p] # None
    /\ tag' = [tag EXCEPT ![p] = None]
    /\ layers' = layers \ ({<<p, tag[p]>>} \ untagged)
    /\ UNCHANGED <<want, group, progress, cache, untagged, requests, faults>>

\* A clean-up ends when its work is done, or fails; a prune may leave anything.
EndCleanUp ==
    /\ phase = "delete"
    /\ \/ UNCHANGED faults /\ (run.kind = "obsolete" => \A p \in Obsolete : tag[p] = None)
       \/ Fault
    /\ EndRun

\* delete-untagged-images is in no group.
DeleteUntagged(b) ==
    /\ b \in untagged
    /\ untagged' = untagged \ {b}
    /\ layers' = IF tag[b[1]] = b[2] THEN layers ELSE layers \ {b}
    /\ UNCHANGED <<want, group, progress, cache, tag, requests, faults>>

-----------------------------------------------------------------------------
Job(p) == \/ NixBuild(p) \/ PushSegment(p) \/ PushLayer(p) \/ PushTag(p)
          \/ \E n \in Path : PushFile(p, n)

\* What the run in progress does as long as nothing fails.
Work == \/ CreateIndex \/ StartJobs \/ Finish
        \/ \E p \in Package : Check(p) \/ Job(p) \/ DeleteObsolete(p)

Next == \/ Commit \/ Dispatch \/ WeeklyBuild \/ WeeklyCleanUp
        \/ \E e \in events : Queue(e)
        \/ \E e \in pending : Start(e)
        \/ Work \/ Abort \/ EndCleanUp
        \/ \E p \in Package : Fail(p)
        \/ \E b \in Build : DeleteSegment(b) \/ DeleteUntagged(b)

Spec == Init /\ [][Next]_vars

\* A run goes on and ends, the weekly triggers come, and a run that waits when the
\* group is free starts, unless it is displaced at that very moment every time.
FairSpec == /\ Spec
            /\ WF_vars(Work) /\ WF_vars(EndCleanUp)
            /\ WF_vars(\E e \in events : Queue(e))
            /\ \A k \in {"build", "prune", "obsolete"} :
                  SF_vars(\E e \in pending : e.kind = k /\ Start(e))
            /\ SF_vars(WeeklyBuild) /\ SF_vars(WeeklyCleanUp)

-----------------------------------------------------------------------------
Request == {r \in [kind : {"none", "build", "prune", "obsolete"}, at : [Package -> Version \cup {None}],
                   names : SUBSET Package, check : BOOLEAN] :
              r.names \subseteq Wanted(r.at) /\ (r.kind # "build" => r.names = {})}

TypeOK ==
    /\ want \in [Package -> Version \cup {None}]
    /\ events \cup pending \subseteq {r \in Request : r.kind # "none"}
    /\ run \in Request
    /\ phase \in {"idle", "index", "discover", "jobs", "delete"}
    /\ index \subseteq Path
    /\ unchecked \subseteq run.names /\ selected \subseteq run.names
    /\ job \in [Package -> {"build", "copy", "layer", "tag", "done", "failed"}]
    /\ todo \in [Package -> SUBSET Path]
    /\ segments \subseteq Build /\ blobs \subseteq Path
    /\ tag \in [Package -> Version \cup {None}]
    /\ untagged \subseteq Build /\ layers \subseteq Build
    /\ requests \in 0..MaxRequests /\ faults \in 0..MaxFaults

Available(b) == Closure(b) \subseteq Served(segments) \cap blobs

(* Every NAR of every segment is in the registry: a push that skips a blob  *)
(* because it exists (push.go:181) finds it there when it tags the segment. *)
SegmentsIntact == Served(segments) \subseteq blobs

(* What the frozen index promises can be downloaded as long as the run      *)
(* lasts (index.go; release-model.md: builds and prunes exclude each other). *)
IndexServable == index \subseteq Served(segments) \cap blobs

(* A tool is published only when its whole closure is in the cache.         *)
PublishedIsCached ==
    [][\A p \in Package : tag'[p] \notin {tag[p], None} => Available(<<p, tag'[p]>>)]_vars

(* A run that checks builds the packages that lack something, and no other: *)
(* asking for the roots alone finds a closure that is not complete, a failed *)
(* query is not a missing path, a manifest whose layer is gone does not     *)
(* count as published.                                                     *)
SelectsExactly ==
    [][phase = "discover" /\ phase' = "jobs" /\ run.check =>
          selected = {p \in run.names : \/ ~Available(BuildAt(p))
                                        \/ tag[p] # run.at[p]
                                        \/ BuildAt(p) \notin layers}]_vars

(* When requests and failures cease, the tools are those of master, and      *)
(* complete: although a run that waits may be displaced, and the untagged   *)
(* clean-up may take the layer that a publication has just found.           *)
Published == \A p \in Package : /\ tag[p] = want[p]
                                /\ want[p] # None => <<p, want[p]>> \in layers
Converges == <>[]Published
=============================================================================
