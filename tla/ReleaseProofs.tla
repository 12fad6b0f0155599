---------------------------- MODULE ReleaseProofs ----------------------------
(***************************************************************************)
(* Proofs about discovery, build and publication, for all packages,        *)
(* versions, closures and triggers, whatever fails.                        *)
(*                                                                         *)
(* The group is what everything rests on: segments and blobs go only in the *)
(* phase "delete" of a prune, and then there is no index and no job        *)
(* (RunInv).  So the blobs a push has uploaded or skipped are there when it *)
(* tags its segment (JobInv), and what discovery has found about a package *)
(* stays true until the jobs start (CheckInv).                             *)
(***************************************************************************)
EXTENDS Release, TLAPS

RunInv ==
    /\ phase = "idle" <=> run.kind = "none"
    /\ phase \in {"index", "discover", "jobs"} <=> run.kind = "build"
    /\ phase \notin {"discover", "jobs"} => index = {} /\ unchecked = {} /\ selected = {}
    /\ phase = "discover" => index = Served(segments)
    /\ \A p \in Package : job[p] # "done" => phase = "jobs" /\ p \in selected

CacheInv == SegmentsIntact /\ IndexServable

JobInv ==
    \A p \in Package :
       /\ job[p] = "copy" => Closure(BuildAt(p)) \ todo[p] \subseteq blobs
       /\ job[p] \in {"layer", "tag"} => BuildAt(p) \in segments

Lacking(p) == \/ ~Available(BuildAt(p))
              \/ tag[p] # run.at[p]
              \/ BuildAt(p) \notin layers

CheckInv ==
    phase = "discover" /\ run.check =>
       /\ selected \cap unchecked = {}
       /\ \A p \in run.names \ unchecked : p \in selected <=> Lacking(p)

Inv == TypeOK /\ RunInv /\ CacheInv /\ JobInv /\ CheckInv

-----------------------------------------------------------------------------
\* About closures.

LEMMA ClosureFacts ==
    ASSUME NEW b \in Build
    PROVE  Closure(b) \subseteq Path /\ Root[b] \subseteq Closure(b)
  <1>1. Root[b] \subseteq Path
    BY ReleaseAssumption
  <1>2. \A r \in Path : r \in Requires[r] /\ Requires[r] \subseteq Path
    BY ReleaseAssumption
  <1> QED BY <1>1, <1>2 DEF Closure

LEMMA ServedType == ASSUME NEW S \in SUBSET Build PROVE Served(S) \subseteq Path
  BY ClosureFacts DEF Served

\* Segments are closed: who has the roots of a build has all it needs.
LEMMA ServedClosed ==
    ASSUME NEW S \in SUBSET Build, NEW b \in Build, Root[b] \subseteq Served(S)
    PROVE  Closure(b) \subseteq Served(S)
  <1> SUFFICES ASSUME NEW r \in Root[b], NEW q \in Requires[r] PROVE q \in Served(S)
    BY DEF Closure
  <1>1. PICK s \in S : r \in Closure(s)
    BY DEF Served
  <1>2. PICK t \in Root[s] : r \in Requires[t]
    BY <1>1 DEF Closure
  <1>3. t \in Path
    BY <1>1, ReleaseAssumption
  <1>4. q \in Requires[t]
    BY <1>2, <1>3, ReleaseAssumption
  <1> QED BY <1>1, <1>2, <1>4 DEF Served, Closure

LEMMA BuildAtType ==
    ASSUME TypeOK, NEW p \in run.names
    PROVE  p \in Package /\ run.at[p] \in Version /\ BuildAt(p) \in Build
  BY DEF TypeOK, Request, Wanted, BuildAt, Build

-----------------------------------------------------------------------------
\* Triggers and the group.

LEMMA BuildRunType ==
    ASSUME NEW w \in [Package -> Version \cup {None}], NEW names \in SUBSET Wanted(w), NEW check \in BOOLEAN
    PROVE  BuildRun(w, names, check) \in Request /\ BuildRun(w, names, check).kind # "none"
  BY DEF BuildRun, Request, Wanted

LEMMA OtherType ==
    ASSUME NEW kind \in {"none", "prune", "obsolete"}
    PROVE  Other(kind) \in Request /\ Other(kind).kind = kind
  BY DEF Other, Request, Wanted, Nothing

\* What waits does not matter to the run in progress.
LEMMA QueueKeeps ==
    ASSUME Inv, UNCHANGED <<progress, cache, tools, faults>>,
           want' \in [Package -> Version \cup {None}], requests' \in 0..MaxRequests,
           (events \cup pending)' \subseteq {r \in Request : r.kind # "none"}
    PROVE  Inv'
  <1> USE DEF progress, cache, tools
  <1>1. TypeOK'
    BY DEF Inv, TypeOK
  <1>2. RunInv'
    BY DEF Inv, RunInv
  <1>3. CacheInv'
    BY DEF Inv, CacheInv, SegmentsIntact, IndexServable
  <1>4. JobInv'
    BY DEF Inv, JobInv, BuildAt
  <1>5. CheckInv'
    BY DEF Inv, CheckInv, Lacking, Available, BuildAt
  <1> QED BY <1>1, <1>2, <1>3, <1>4, <1>5 DEF Inv

LEMMA CommitKeeps == ASSUME Inv, Commit PROVE Inv'
  <1>1. want' \in [Package -> Version \cup {None}]
    BY DEF Commit
  <1>2. BuildRun(want', Wanted(want') \ PushExcluded, TRUE) \in {r \in Request : r.kind # "none"}
    BY <1>1, BuildRunType
  <1>3. Other("obsolete") \in {r \in Request : r.kind # "none"}
    BY OtherType
  <1>4. (events \cup pending)' \subseteq {r \in Request : r.kind # "none"}
    BY <1>2, <1>3 DEF Commit, Inv, TypeOK
  <1>5. requests' \in 0..MaxRequests
    BY ReleaseAssumption DEF Commit, Inv, TypeOK
  <1> QED BY <1>1, <1>4, <1>5, QueueKeeps DEF Commit

LEMMA TriggerKeeps ==
    ASSUME Inv, NEW new, Trigger(new), new \subseteq {r \in Request : r.kind # "none"},
           requests' \in 0..MaxRequests
    PROVE  Inv'
  <1>1. (events \cup pending)' \subseteq {r \in Request : r.kind # "none"}
    BY DEF Trigger, Inv, TypeOK
  <1>2. want' \in [Package -> Version \cup {None}]
    BY DEF Trigger, Inv, TypeOK
  <1> QED BY <1>1, <1>2, QueueKeeps DEF Trigger

LEMMA TriggersKeep == ASSUME Inv, Dispatch \/ WeeklyBuild \/ WeeklyCleanUp PROVE Inv'
  <1>0. want \in [Package -> Version \cup {None}] /\ requests \in 0..MaxRequests
    BY DEF Inv, TypeOK
  <1>1. CASE WeeklyBuild
    <2>1. BuildRun(want, Wanted(want), FALSE) \in {r \in Request : r.kind # "none"}
      BY <1>0, BuildRunType
    <2> QED BY <1>0, <1>1, <2>1, TriggerKeeps DEF WeeklyBuild, Weekly
  <1>2. CASE WeeklyCleanUp
    <2>1. Other("obsolete") \in {r \in Request : r.kind # "none"}
      BY OtherType
    <2> QED BY <1>0, <1>2, <2>1, TriggerKeeps DEF WeeklyCleanUp, Weekly
  <1>3. CASE Dispatch
    <2>0. requests' \in 0..MaxRequests
      BY <1>0, <1>3, ReleaseAssumption DEF Dispatch
    <2>1. CASE Trigger({BuildRun(want, Wanted(want), TRUE)})
      <3>1. BuildRun(want, Wanted(want), TRUE) \in {r \in Request : r.kind # "none"}
        BY <1>0, BuildRunType
      <3> QED BY <2>0, <2>1, <3>1, TriggerKeeps
    <2>2. CASE \E p \in Wanted(want) : Trigger({BuildRun(want, {p}, FALSE)})
      <3>1. PICK p \in Wanted(want) : Trigger({BuildRun(want, {p}, FALSE)})
        BY <2>2
      <3>2. BuildRun(want, {p}, FALSE) \in {r \in Request : r.kind # "none"}
        BY <1>0, BuildRunType
      <3> QED BY <2>0, <3>1, <3>2, TriggerKeeps
    <2>3. CASE Trigger({Other("prune")})
      <3>1. Other("prune") \in {r \in Request : r.kind # "none"}
        BY OtherType
      <3> QED BY <2>0, <2>3, <3>1, TriggerKeeps
    <2> QED BY <1>3, <2>1, <2>2, <2>3 DEF Dispatch
  <1> QED BY <1>1, <1>2, <1>3

LEMMA BeginKeeps ==
    ASSUME Inv, run = NoRun, NEW e \in events \cup pending, Begin(e),
           (events \cup pending)' \subseteq events \cup pending
    PROVE  Inv'
  <1>0. run.kind = "none" /\ phase = "idle"
    BY OtherType DEF NoRun, Inv, RunInv
  <1>1. e \in Request /\ e.kind # "none"
    BY DEF Inv, TypeOK
  <1>2. run' \in Request /\ run'.kind = e.kind
    BY <1>1 DEF Begin, Inv, TypeOK, Request, Wanted
  <1>3. phase' = IF e.kind = "build" THEN "index" ELSE "delete"
    BY DEF Begin
  <1>4. UNCHANGED <<want, index, unchecked, selected, job, todo, segments, blobs,
                    tag, untagged, layers, requests, faults>>
    BY DEF Begin, cache, tools
  <1>5. index = {} /\ unchecked = {} /\ selected = {} /\ \A p \in Package : job[p] = "done"
    BY <1>0 DEF Inv, RunInv
  <1>6. TypeOK'
    BY <1>2, <1>3, <1>4, <1>5 DEF Inv, TypeOK
  <1>7. RunInv'
    BY <1>1, <1>2, <1>3, <1>4, <1>5 DEF RunInv
  <1>8. CacheInv'
    BY <1>4 DEF Inv, CacheInv, SegmentsIntact, IndexServable
  <1>9. JobInv'
    BY <1>4, <1>5 DEF JobInv
  <1>10. CheckInv'
    BY <1>3 DEF CheckInv
  <1> QED BY <1>6, <1>7, <1>8, <1>9, <1>10 DEF Inv

LEMMA GroupKeeps ==
    ASSUME Inv, (\E e \in events : Queue(e)) \/ (\E e \in pending : Start(e))
    PROVE  Inv'
  <1>1. ASSUME NEW e \in events, Queue(e) PROVE Inv'
    <2>1. CASE Idle /\ Begin(e) /\ UNCHANGED pending
      BY <1>1, <2>1, BeginKeeps DEF Queue, Idle
    <2>2. CASE pending' = {e} /\ UNCHANGED <<want, progress, cache, tools, requests, faults>>
      <3>1. /\ (events \cup pending)' \subseteq {r \in Request : r.kind # "none"}
            /\ want' \in [Package -> Version \cup {None}] /\ requests' \in 0..MaxRequests
        BY <1>1, <2>2 DEF Queue, Inv, TypeOK
      <3> QED BY <2>2, <3>1, QueueKeeps
    <2> QED BY <1>1, <2>1, <2>2 DEF Queue
  <1>2. ASSUME NEW e \in pending, Start(e) PROVE Inv'
    BY <1>2, BeginKeeps DEF Start
  <1> QED BY <1>1, <1>2

LEMMA EndRunKeeps ==
    ASSUME Inv, EndRun, faults' \in 0..MaxFaults
    PROVE  Inv'
  <1>1. run' \in Request /\ run'.kind = "none"
    BY OtherType DEF EndRun, NoRun
  <1>2. /\ phase' = "idle" /\ index' = {} /\ unchecked' = {} /\ selected' = {}
        /\ job' = [p \in Package |-> "done"] /\ todo' = [p \in Package |-> {}]
    BY DEF EndRun
  <1>3. UNCHANGED <<want, events, pending, segments, blobs, tag, untagged, layers, requests>>
    BY DEF EndRun, group, cache, tools
  <1>4. TypeOK'
    BY <1>1, <1>2, <1>3 DEF Inv, TypeOK
  <1>5. RunInv'
    BY <1>1, <1>2 DEF RunInv
  <1>6. CacheInv'
    BY <1>2, <1>3 DEF Inv, CacheInv, SegmentsIntact, IndexServable
  <1>7. JobInv' /\ CheckInv'
    BY <1>2 DEF JobInv, CheckInv
  <1> QED BY <1>4, <1>5, <1>6, <1>7 DEF Inv

LEMMA FaultType == ASSUME Inv, Fault \/ UNCHANGED faults PROVE faults' \in 0..MaxFaults
  BY ReleaseAssumption DEF Fault, Inv, TypeOK

LEMMA EndsKeep == ASSUME Inv, Abort \/ Finish \/ EndCleanUp PROVE Inv'
  BY EndRunKeeps, FaultType DEF Abort, Finish, EndCleanUp

-----------------------------------------------------------------------------
\* Discovery.

\* The frozen index is the live one: nothing is deleted while discovery runs.
LEMMA ProbeFacts ==
    ASSUME Inv, phase = "discover", NEW p \in run.names
    PROVE  Probe(BuildAt(p)) <=> Available(BuildAt(p))
  <1>1. BuildAt(p) \in Build
    BY BuildAtType DEF Inv
  <1>2. segments \in SUBSET Build /\ Served(segments) \subseteq blobs /\ index = Served(segments)
    BY DEF Inv, TypeOK, CacheInv, SegmentsIntact, RunInv
  <1>3. Available(BuildAt(p)) => Probe(BuildAt(p))
    BY <1>1, <1>2, ClosureFacts DEF Available, Probe
  <1>4. Probe(BuildAt(p)) => Available(BuildAt(p))
    BY <1>1, <1>2, ServedClosed DEF Available, Probe
  <1> QED BY <1>3, <1>4

LEMMA CreateIndexKeeps == ASSUME Inv, CreateIndex PROVE Inv'
  <1>1. /\ phase = "index" /\ phase' = "discover" /\ index' = Served(segments)
        /\ unchecked' = (IF run.check THEN run.names ELSE {})
        /\ selected' = (IF run.check THEN {} ELSE run.names)
        /\ UNCHANGED <<want, events, pending, run, job, todo, segments, blobs,
                       tag, untagged, layers, requests, faults>>
    BY DEF CreateIndex, group, cache, tools
  <1>2. index' \subseteq Path
    BY <1>1, ServedType DEF Inv, TypeOK
  <1>3. TypeOK'
    BY <1>1, <1>2 DEF Inv, TypeOK
  <1>4. RunInv'
    BY <1>1 DEF Inv, RunInv, Served
  <1>5. CacheInv'
    BY <1>1 DEF Inv, CacheInv, SegmentsIntact, IndexServable
  <1>6. \A p \in Package : job[p] = "done"
    BY <1>1 DEF Inv, RunInv
  <1>7. JobInv'
    BY <1>1, <1>6 DEF JobInv
  <1>8. CheckInv'
    BY <1>1 DEF CheckInv
  <1> QED BY <1>3, <1>4, <1>5, <1>7, <1>8 DEF Inv

LEMMA CheckKeeps == ASSUME Inv, NEW p \in Package, Check(p) PROVE Inv'
  <1>1. /\ phase = "discover" /\ p \in unchecked /\ unchecked' = unchecked \ {p}
        /\ selected' = (IF Probe(BuildAt(p)) /\ PublicationReady(p)
                        THEN selected ELSE selected \cup {p})
        /\ UNCHANGED <<want, events, pending, run, phase, index, job, todo, segments, blobs,
                       tag, untagged, layers, requests, faults>>
    BY DEF Check, group, cache, tools
  <1>2. p \in run.names
    BY <1>1 DEF Inv, TypeOK
  <1>3. TypeOK'
    BY <1>1, <1>2 DEF Inv, TypeOK
  <1>4. RunInv'
    BY <1>1 DEF Inv, RunInv, Served
  <1>5. CacheInv'
    BY <1>1 DEF Inv, CacheInv, SegmentsIntact, IndexServable
  <1>6. JobInv'
    BY <1>1 DEF Inv, JobInv, BuildAt
  <1>7. p \in selected' <=> p \in selected \/ Lacking(p)
    BY <1>1, <1>2, ProbeFacts DEF Lacking, PublicationReady
  <1>8. \A q \in Package : Lacking(q)' <=> Lacking(q)
    BY <1>1 DEF Lacking, Available, BuildAt
  <1>9. run.names \subseteq Package
    BY DEF Inv, TypeOK, Request, Wanted
  <1>10. CheckInv'
    <2> SUFFICES ASSUME run.check
                 PROVE  /\ selected' \cap unchecked' = {}
                        /\ \A q \in run.names \ unchecked' : q \in selected' <=> Lacking(q)'
      BY <1>1 DEF CheckInv
    <2>1. /\ selected \cap unchecked = {}
          /\ \A q \in run.names \ unchecked : q \in selected <=> Lacking(q)
      BY <1>1 DEF Inv, CheckInv
    <2>2. selected' \cap unchecked' = {}
      BY <1>1, <2>1
    <2>3. \A q \in run.names \ unchecked' : q \in selected' <=> Lacking(q)
      <3> SUFFICES ASSUME NEW q \in run.names \ unchecked' PROVE q \in selected' <=> Lacking(q)
        OBVIOUS
      <3>1. CASE q = p
        BY <1>1, <1>7, <2>1, <3>1
      <3>2. CASE q # p
        BY <1>1, <2>1, <3>2
      <3> QED BY <3>1, <3>2
    <2> QED BY <1>8, <1>9, <2>2, <2>3
  <1> QED BY <1>3, <1>4, <1>5, <1>6, <1>10 DEF Inv

LEMMA StartJobsKeeps == ASSUME Inv, StartJobs PROVE Inv'
  <1>1. /\ phase = "discover" /\ phase' = "jobs"
        /\ job' = [p \in Package |-> IF p \in selected THEN "build" ELSE "done"]
        /\ UNCHANGED <<want, events, pending, run, index, unchecked, selected, todo, segments,
                       blobs, tag, untagged, layers, requests, faults>>
    BY DEF StartJobs, group, cache, tools
  <1>2. TypeOK'
    BY <1>1 DEF Inv, TypeOK
  <1>3. RunInv'
    BY <1>1 DEF Inv, RunInv
  <1>4. CacheInv'
    BY <1>1 DEF Inv, CacheInv, SegmentsIntact, IndexServable
  <1>5. JobInv' /\ CheckInv'
    BY <1>1 DEF JobInv, CheckInv
  <1> QED BY <1>2, <1>3, <1>4, <1>5 DEF Inv

-----------------------------------------------------------------------------
\* The jobs only add to the cache.

LEMMA AdvanceFacts ==
    ASSUME Inv, NEW p \in Package, NEW from, NEW to, from # "done", Advance(p, from, to)
    PROVE  /\ phase = "jobs" /\ p \in run.names /\ job[p] = from
           /\ BuildAt(p) \in Build /\ Closure(BuildAt(p)) \subseteq Path
           /\ job' = [job EXCEPT ![p] = to]
           /\ UNCHANGED <<want, events, pending, run, phase, index, unchecked, selected, requests>>
  <1>1. phase = "jobs" /\ job[p] = from /\ job' = [job EXCEPT ![p] = to]
    BY DEF Advance
  <1>2. p \in selected
    BY <1>1 DEF Inv, RunInv
  <1>3. p \in run.names
    BY <1>2 DEF Inv, TypeOK
  <1>4. BuildAt(p) \in Build
    BY <1>3, BuildAtType DEF Inv
  <1> QED BY <1>1, <1>3, <1>4, ClosureFacts DEF Advance, group

LEMMA JobKeeps ==
    ASSUME Inv, NEW p \in Package, NEW from \in {"build", "copy", "layer", "tag"},
           NEW to \in {"build", "copy", "layer", "tag", "done", "failed"}, Advance(p, from, to),
           todo' \in [Package -> SUBSET Path], \A q \in Package \ {p} : todo'[q] = todo[q],
           segments \subseteq segments', segments' \subseteq Build,
           blobs \subseteq blobs', blobs' \subseteq Path,
           tag' \in [Package -> Version \cup {None}], untagged' \subseteq Build, layers' \subseteq Build,
           faults' \in 0..MaxFaults,
           SegmentsIntact',
           to = "copy" => Closure(BuildAt(p)) \ todo'[p] \subseteq blobs',
           to \in {"layer", "tag"} => BuildAt(p) \in segments'
    PROVE  Inv'
  <1>1. /\ phase = "jobs" /\ p \in run.names /\ job[p] = from
        /\ job' = [job EXCEPT ![p] = to]
        /\ UNCHANGED <<want, events, pending, run, phase, index, unchecked, selected, requests>>
    BY AdvanceFacts
  <1>2. TypeOK'
    BY <1>1 DEF Inv, TypeOK
  <1>3. RunInv'
    BY <1>1 DEF Inv, RunInv, TypeOK
  <1>4. Served(segments) \subseteq Served(segments')
    BY DEF Served
  <1>5. CacheInv'
    BY <1>1, <1>4 DEF Inv, CacheInv, IndexServable
  <1>6. JobInv'
    <2> SUFFICES ASSUME NEW q \in Package
                 PROVE  /\ job'[q] = "copy" => Closure(BuildAt(q)) \ todo'[q] \subseteq blobs'
                        /\ job'[q] \in {"layer", "tag"} => BuildAt(q) \in segments'
      BY <1>1 DEF JobInv, BuildAt
    <2>1. CASE q = p
      BY <1>1, <2>1 DEF Inv, TypeOK
    <2>2. CASE q # p
      BY <1>1, <2>2 DEF Inv, TypeOK, JobInv
    <2> QED BY <2>1, <2>2
  <1>7. CheckInv'
    BY <1>1 DEF CheckInv
  <1> QED BY <1>2, <1>3, <1>5, <1>6, <1>7 DEF Inv

LEMMA NixBuildKeeps == ASSUME Inv, NEW p \in Package, NixBuild(p) PROVE Inv'
  <1>1. Advance(p, "build", "copy") /\ todo' = [todo EXCEPT ![p] = Closure(BuildAt(p))]
    BY DEF NixBuild
  <1>2. Closure(BuildAt(p)) \subseteq Path
    BY <1>1, AdvanceFacts
  <1>3. /\ todo' \in [Package -> SUBSET Path] /\ todo'[p] = Closure(BuildAt(p))
        /\ \A q \in Package \ {p} : todo'[q] = todo[q]
    BY <1>1, <1>2 DEF Inv, TypeOK
  <1>4. UNCHANGED <<segments, blobs, tag, untagged, layers, faults>>
    BY DEF NixBuild, cache, tools
  <1>5. SegmentsIntact'
    BY <1>4 DEF Inv, CacheInv, SegmentsIntact
  <1>6. /\ segments \subseteq Build /\ blobs \subseteq Path /\ faults \in 0..MaxFaults
        /\ tag \in [Package -> Version \cup {None}] /\ untagged \subseteq Build /\ layers \subseteq Build
    BY DEF Inv, TypeOK
  <1> QED BY <1>1, <1>3, <1>4, <1>5, <1>6, JobKeeps

LEMMA PushFileKeeps ==
    ASSUME Inv, NEW p \in Package, NEW n \in Path, PushFile(p, n) PROVE Inv'
  <1>1. /\ Advance(p, "copy", "copy") /\ todo' = [todo EXCEPT ![p] = @ \ {n}]
        /\ blobs' = blobs \cup {n}
        /\ UNCHANGED <<segments, tag, untagged, layers, faults>>
    BY DEF PushFile, tools
  <1>2. job[p] = "copy"
    BY <1>1, AdvanceFacts
  <1>3. /\ todo' \in [Package -> SUBSET Path] /\ todo'[p] = todo[p] \ {n}
        /\ \A q \in Package \ {p} : todo'[q] = todo[q]
    BY <1>1 DEF Inv, TypeOK
  <1>4. Closure(BuildAt(p)) \ todo'[p] \subseteq blobs'
    BY <1>1, <1>2, <1>3 DEF Inv, JobInv
  <1>5. SegmentsIntact'
    BY <1>1 DEF Inv, CacheInv, SegmentsIntact
  <1>6. /\ segments \subseteq Build /\ blobs \subseteq Path /\ faults \in 0..MaxFaults
        /\ tag \in [Package -> Version \cup {None}] /\ untagged \subseteq Build /\ layers \subseteq Build
    BY DEF Inv, TypeOK
  <1> QED BY <1>1, <1>3, <1>4, <1>5, <1>6, JobKeeps

\* The blobs that were skipped are still there when the manifest refers to them.
LEMMA PushSegmentKeeps == ASSUME Inv, NEW p \in Package, PushSegment(p) PROVE Inv'
  <1>1. /\ Advance(p, "copy", "layer") /\ todo[p] = {}
        /\ segments' = segments \cup {BuildAt(p)}
        /\ UNCHANGED <<todo, blobs, tag, untagged, layers, faults>>
    BY DEF PushSegment, tools
  <1>2. job[p] = "copy" /\ BuildAt(p) \in Build
    BY <1>1, AdvanceFacts
  <1>3. Closure(BuildAt(p)) \subseteq blobs
    BY <1>1, <1>2 DEF Inv, JobInv
  <1>4. SegmentsIntact'
    BY <1>1, <1>3 DEF Inv, CacheInv, SegmentsIntact, Served
  <1>5. /\ segments \subseteq Build /\ blobs \subseteq Path /\ faults \in 0..MaxFaults
        /\ tag \in [Package -> Version \cup {None}] /\ untagged \subseteq Build /\ layers \subseteq Build
        /\ todo \in [Package -> SUBSET Path]
    BY DEF Inv, TypeOK
  <1> QED BY <1>1, <1>2, <1>4, <1>5, JobKeeps

LEMMA PublishKeeps == ASSUME Inv, NEW p \in Package, PushLayer(p) \/ PushTag(p) PROVE Inv'
  <1>1. /\ segments \subseteq Build /\ blobs \subseteq Path /\ faults \in 0..MaxFaults
        /\ tag \in [Package -> Version \cup {None}] /\ untagged \subseteq Build /\ layers \subseteq Build
        /\ todo \in [Package -> SUBSET Path]
    BY DEF Inv, TypeOK
  <1>2. CASE PushLayer(p)
    <2>1. /\ Advance(p, "layer", "tag") /\ layers' = layers \cup {BuildAt(p)}
          /\ UNCHANGED <<todo, segments, blobs, tag, untagged, faults>>
      BY <1>2 DEF PushLayer, cache
    <2>2. job[p] = "layer" /\ BuildAt(p) \in Build
      BY <2>1, AdvanceFacts
    <2>3. BuildAt(p) \in segments
      BY <2>2 DEF Inv, JobInv
    <2>4. SegmentsIntact'
      BY <2>1 DEF Inv, CacheInv, SegmentsIntact
    <2> QED BY <1>1, <2>1, <2>2, <2>3, <2>4, JobKeeps
  <1>3. CASE PushTag(p)
    <2>1. /\ Advance(p, "tag", "done") /\ tag' = [tag EXCEPT ![p] = run.at[p]]
          /\ untagged' = (IF tag[p] = None THEN untagged ELSE untagged \cup {<<p, tag[p]>>})
          /\ UNCHANGED <<todo, segments, blobs, layers, faults>>
      BY <1>3 DEF PushTag, cache
    <2>2. run.at[p] \in Version
      BY <2>1, AdvanceFacts, BuildAtType DEF Inv
    <2>3. tag' \in [Package -> Version \cup {None}]
      BY <1>1, <2>1, <2>2
    <2>4. untagged' \subseteq Build
      BY <1>1, <2>1 DEF Build
    <2>5. SegmentsIntact'
      BY <2>1 DEF Inv, CacheInv, SegmentsIntact
    <2> QED BY <1>1, <2>1, <2>3, <2>4, <2>5, JobKeeps
  <1> QED BY <1>2, <1>3

LEMMA FailKeeps == ASSUME Inv, NEW p \in Package, Fail(p) PROVE Inv'
  <1>1. PICK from \in {"build", "copy", "layer", "tag"} : Advance(p, from, "failed")
    BY DEF Fail
  <1>2. UNCHANGED <<todo, segments, blobs, tag, untagged, layers>>
    BY DEF Fail, cache, tools
  <1>3. faults' \in 0..MaxFaults
    BY FaultType DEF Fail
  <1>4. SegmentsIntact'
    BY <1>2 DEF Inv, CacheInv, SegmentsIntact
  <1>5. /\ segments \subseteq Build /\ blobs \subseteq Path
        /\ tag \in [Package -> Version \cup {None}] /\ untagged \subseteq Build /\ layers \subseteq Build
        /\ todo \in [Package -> SUBSET Path]
    BY DEF Inv, TypeOK
  <1> QED BY <1>1, <1>2, <1>3, <1>4, <1>5, JobKeeps

-----------------------------------------------------------------------------
\* The clean-ups.

\* The group keeps a prune away from the index and from the jobs.
LEMMA CleanUpFacts ==
    ASSUME Inv, run.kind \in {"prune", "obsolete"}
    PROVE  /\ phase \notin {"index", "discover", "jobs"} /\ index = {}
           /\ \A p \in Package : job[p] = "done"
  BY DEF Inv, RunInv

LEMMA DeleteSegmentKeeps == ASSUME Inv, NEW b \in Build, DeleteSegment(b) PROVE Inv'
  <1>1. /\ run.kind = "prune" /\ segments' = segments \ {b}
        /\ blobs' = blobs \ (Closure(b) \ Served(segments'))
        /\ UNCHANGED <<want, events, pending, run, phase, index, unchecked, selected, job, todo,
                       tag, untagged, layers, requests, faults>>
    BY DEF DeleteSegment, group, progress, tools
  <1>2. /\ phase \notin {"index", "discover", "jobs"} /\ index = {}
        /\ \A p \in Package : job[p] = "done"
    BY <1>1, CleanUpFacts
  <1>3. TypeOK'
    BY <1>1 DEF Inv, TypeOK
  <1>4. RunInv'
    BY <1>1, <1>2 DEF Inv, RunInv
  <1>5. Served(segments') \subseteq Served(segments)
    BY <1>1 DEF Served
  <1>6. CacheInv'
    BY <1>1, <1>2, <1>5 DEF Inv, CacheInv, SegmentsIntact, IndexServable
  <1>7. JobInv' /\ CheckInv'
    BY <1>1, <1>2 DEF JobInv, CheckInv
  <1> QED BY <1>3, <1>4, <1>6, <1>7 DEF Inv

LEMMA DeleteObsoleteKeeps == ASSUME Inv, NEW p \in Package, DeleteObsolete(p) PROVE Inv'
  <1>1. /\ run.kind = "obsolete" /\ tag' = [tag EXCEPT ![p] = None]
        /\ layers' \subseteq layers
        /\ UNCHANGED <<want, events, pending, run, phase, index, unchecked, selected, job, todo,
                       segments, blobs, untagged, requests, faults>>
    BY DEF DeleteObsolete, group, progress, cache
  <1>2. /\ phase \notin {"index", "discover", "jobs"} /\ index = {}
        /\ \A q \in Package : job[q] = "done"
    BY <1>1, CleanUpFacts
  <1>3. TypeOK'
    BY <1>1 DEF Inv, TypeOK
  <1>4. RunInv'
    BY <1>1, <1>2 DEF Inv, RunInv
  <1>5. CacheInv'
    BY <1>1 DEF Inv, CacheInv, SegmentsIntact, IndexServable
  <1>6. JobInv' /\ CheckInv'
    BY <1>1, <1>2 DEF JobInv, CheckInv
  <1> QED BY <1>3, <1>4, <1>5, <1>6 DEF Inv

\* A manifest is untagged: its layer does not matter to what has been checked.
LEMMA DeleteUntaggedKeeps == ASSUME Inv, NEW b \in Build, DeleteUntagged(b) PROVE Inv'
  <1>1. /\ untagged' = untagged \ {b}
        /\ layers' = (IF tag[b[1]] = b[2] THEN layers ELSE layers \ {b})
        /\ UNCHANGED <<want, events, pending, run, phase, index, unchecked, selected, job, todo,
                       segments, blobs, tag, requests, faults>>
    BY DEF DeleteUntagged, group, progress, cache
  <1>2. TypeOK'
    BY <1>1 DEF Inv, TypeOK
  <1>3. RunInv'
    BY <1>1 DEF Inv, RunInv, Served
  <1>4. CacheInv'
    BY <1>1 DEF Inv, CacheInv, SegmentsIntact, IndexServable
  <1>5. JobInv'
    BY <1>1 DEF Inv, JobInv, BuildAt
  <1>6. \A p \in Package : Lacking(p)' <=> Lacking(p)
    <2> SUFFICES ASSUME NEW p \in Package, tag[p] = run.at[p]
                 PROVE  BuildAt(p) \in layers' <=> BuildAt(p) \in layers
      BY <1>1 DEF Lacking, Available, BuildAt
    <2>1. CASE BuildAt(p) = b
      BY <1>1, <2>1 DEF BuildAt
    <2>2. CASE BuildAt(p) # b
      BY <1>1, <2>2
    <2> QED BY <2>1, <2>2
  <1>7. run.names \subseteq Package
    BY DEF Inv, TypeOK, Request, Wanted
  <1>8. CheckInv'
    BY <1>1, <1>6, <1>7 DEF Inv, CheckInv
  <1> QED BY <1>2, <1>3, <1>4, <1>5, <1>8 DEF Inv

-----------------------------------------------------------------------------
\* The invariant.

LEMMA InitInv == Init => Inv
  <1> SUFFICES ASSUME Init PROVE Inv
    OBVIOUS
  <1>1. /\ want \in [Package -> Version] /\ events = {} /\ pending = {}
        /\ run = NoRun /\ phase = "idle" /\ index = {} /\ unchecked = {} /\ selected = {}
        /\ job = [p \in Package |-> "done"] /\ todo = [p \in Package |-> {}]
        /\ segments = {} /\ blobs = {} /\ tag = Nothing /\ untagged = {} /\ layers = {}
        /\ requests = 0 /\ faults = 0
    BY DEF Init, Resting
  <1>2. run \in Request /\ run.kind = "none"
    BY <1>1, OtherType DEF NoRun
  <1>3. requests \in 0..MaxRequests /\ faults \in 0..MaxFaults
    BY <1>1, ReleaseAssumption
  <1>4. TypeOK
    BY <1>1, <1>2, <1>3 DEF TypeOK, Nothing
  <1>5. RunInv
    BY <1>1, <1>2 DEF RunInv
  <1>6. CacheInv
    BY <1>1 DEF CacheInv, SegmentsIntact, IndexServable, Served
  <1>7. JobInv /\ CheckInv
    BY <1>1 DEF JobInv, CheckInv
  <1> QED BY <1>4, <1>5, <1>6, <1>7 DEF Inv

LEMMA StutterInv == ASSUME Inv, UNCHANGED vars PROVE Inv'
  <1>1. /\ want' \in [Package -> Version \cup {None}] /\ requests' \in 0..MaxRequests
        /\ (events \cup pending)' \subseteq {r \in Request : r.kind # "none"}
    BY DEF vars, group, Inv, TypeOK
  <1> QED BY <1>1, QueueKeeps DEF vars

LEMMA NextInv == ASSUME Inv, [Next]_vars PROVE Inv'
  <1>1. CASE UNCHANGED vars
    BY <1>1, StutterInv
  <1>2. CASE Commit \/ Dispatch \/ WeeklyBuild \/ WeeklyCleanUp
    BY <1>2, CommitKeeps, TriggersKeep
  <1>3. CASE (\E e \in events : Queue(e)) \/ (\E e \in pending : Start(e))
    BY <1>3, GroupKeeps
  <1>4. CASE CreateIndex \/ StartJobs \/ \E p \in Package : Check(p)
    BY <1>4, CreateIndexKeeps, StartJobsKeeps, CheckKeeps
  <1>5. CASE Finish \/ Abort \/ EndCleanUp
    BY <1>5, EndsKeep
  <1>6. CASE \E p \in Package : Job(p)
    BY <1>6, NixBuildKeeps, PushFileKeeps, PushSegmentKeeps, PublishKeeps DEF Job
  <1>7. CASE \E p \in Package : Fail(p)
    BY <1>7, FailKeeps
  <1>8. CASE \E p \in Package : DeleteObsolete(p)
    BY <1>8, DeleteObsoleteKeeps
  <1>9. CASE \E b \in Build : DeleteSegment(b) \/ DeleteUntagged(b)
    BY <1>9, DeleteSegmentKeeps, DeleteUntaggedKeeps
  <1> QED BY <1>1, <1>2, <1>3, <1>4, <1>5, <1>6, <1>7, <1>8, <1>9 DEF Next, Work

LEMMA Invariance == Spec => []Inv
  BY InitInv, NextInv, PTL DEF Spec

-----------------------------------------------------------------------------
\* The state of the workflows, of the cache and of the tools stays well formed:
\* in particular a run builds only what its commit has.
THEOREM TypeCorrect == Spec => []TypeOK
  BY Invariance, PTL DEF Inv

\* Every NAR of every segment is in the registry: what push skips because it
\* exists cannot be deleted before the segment is tagged.
THEOREM CacheIntact == Spec => []SegmentsIntact
  BY Invariance, PTL DEF Inv, CacheInv

\* What the frozen index of a run promises can be downloaded all through the run.
THEOREM FrozenIndexServable == Spec => []IndexServable
  BY Invariance, PTL DEF Inv, CacheInv

\* Nothing is published whose closure is not in the cache.
THEOREM PublicationIsCached == Spec => PublishedIsCached
  <1>1. ASSUME Inv, [Next]_vars
        PROVE  [\A p \in Package : tag'[p] \notin {tag[p], None} => Available(<<p, tag'[p]>>)]_vars
    <2> SUFFICES ASSUME Next, NEW p \in Package, tag'[p] \notin {tag[p], None}
                 PROVE  Available(<<p, tag'[p]>>)
      BY <1>1
    <2>1. PICK q \in Package : PushTag(q) \/ DeleteObsolete(q)
      BY DEF Next, Work, Job, Commit, Dispatch, Weekly, WeeklyBuild, WeeklyCleanUp, Trigger, Queue,
             Start, Begin, CreateIndex, StartJobs, Finish, Check, NixBuild, PushSegment, PushLayer,
             PushFile, Abort, EndCleanUp, EndRun, Fail, DeleteSegment, DeleteUntagged, tools, progress
    <2>2. tag \in [Package -> Version \cup {None}]
      BY <1>1 DEF Inv, TypeOK
    <2>3. ~DeleteObsolete(q)
      BY <2>2 DEF DeleteObsolete
    <2>4. Advance(q, "tag", "done") /\ tag' = [tag EXCEPT ![q] = run.at[q]]
      BY <2>1, <2>3 DEF PushTag
    <2>5. p = q /\ tag'[p] = run.at[p]
      BY <2>2, <2>4
    <2>6. job[q] = "tag" /\ BuildAt(q) \in Build
      BY <1>1, <2>4, AdvanceFacts
    <2>7. BuildAt(q) \in segments
      BY <1>1, <2>6 DEF Inv, JobInv
    <2>8. Closure(BuildAt(q)) \subseteq Served(segments)
      BY <2>7 DEF Served
    <2>9. Available(BuildAt(q))
      BY <1>1, <2>8 DEF Inv, CacheInv, SegmentsIntact, Available
    <2> QED BY <2>5, <2>9 DEF BuildAt
  <1> QED BY <1>1, Invariance, PTL DEF Spec, PublishedIsCached

\* A run that checks builds exactly the packages that lack something.
THEOREM SelectionIsExact == Spec => SelectsExactly
  <1>1. ASSUME Inv, [Next]_vars
        PROVE  [phase = "discover" /\ phase' = "jobs" /\ run.check =>
                  selected = {p \in run.names : \/ ~Available(BuildAt(p))
                                                \/ tag[p] # run.at[p]
                                                \/ BuildAt(p) \notin layers}]_vars
    <2> SUFFICES ASSUME Next, phase = "discover", phase' = "jobs", run.check
                 PROVE  selected = {p \in run.names : Lacking(p)}
      BY <1>1 DEF Lacking
    <2>1. StartJobs
      BY DEF Next, Work, Job, Commit, Dispatch, Weekly, WeeklyBuild, WeeklyCleanUp, Trigger, Queue,
             Start, Begin, CreateIndex, Finish, Check, NixBuild, PushSegment, PushLayer, PushTag,
             PushFile, Abort, EndCleanUp, EndRun, Fail, Advance, DeleteSegment, DeleteObsolete,
             DeleteUntagged, progress
    <2>2. unchecked = {}
      BY <2>1 DEF StartJobs
    <2>3. selected \subseteq run.names
      BY <1>1 DEF Inv, TypeOK
    <2> QED BY <1>1, <2>2, <2>3 DEF Inv, CheckInv
  <1> QED BY <1>1, Invariance, PTL DEF Spec, SelectsExactly
=============================================================================
