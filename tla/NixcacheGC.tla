----------------------------- MODULE NixcacheGC -----------------------------
(***************************************************************************)
(* The prune run of cmd/nixcache (prune.go, gc.go) against the registry.   *)
(*                                                                         *)
(* A run lists the tags, fetches the segments, chooses candidates, carries *)
(* their waiting times over from the newest GC record, and then - every    *)
(* check passed - saves a new record, deletes the old records and deletes  *)
(* the segments whose grace period is over.  It may fail or be killed      *)
(* between any two steps, and segments are pushed while it runs.           *)
(*                                                                         *)
(* Which segments are candidates is left open here: retention and root     *)
(* protection are modelled in other modules, and nothing below depends on  *)
(* them.  Prune runs exclude one another (the nix-cache-lifecycle group).  *)
(***************************************************************************)
EXTENDS Integers

CONSTANTS Tag,         \* segment tags
          Grace,       \* gcGrace, in clock units
          MaxSkew,     \* how far the clock of a runner may be ahead
          MaxVersion,  \* bound: versions ever pushed
          MaxClock     \* bound: the last reading of the clock

ASSUME GCAssumption == /\ Grace \in Nat
                       /\ MaxSkew \in Nat
                       /\ MaxVersion \in Nat
                       /\ MaxClock \in Nat

VARIABLES
    clock,     \* real time
    versions,  \* package versions ever created; the last one has this number
    tagged,    \* the registry: [Tag -> version], 0 for a tag it lacks
    records,   \* the registry: the GC records present
    run,       \* the prune run, with its local variables
    reported,  \* the versions the last complete run reported deleted
    journal    \* history: every GC record ever saved

registry == <<tagged, records>>
vars == <<clock, versions, tagged, records, run, reported, journal>>

-----------------------------------------------------------------------------
\* GC records: gcState and gcCandidate.  "wall" is history: the real time at
\* which the plan of the record was made.

NotListed == [ver |-> 0, since |-> 0]
Verdict == [Tag -> [ver : Nat, since : Nat]]
Record == [at : Nat, wall : Nat, cand : Verdict]
NoRecord == [at |-> 0, wall |-> 0, cand |-> [t \in Tag |-> NotListed]]

Lists(r, t) == r.cand[t].ver # 0

\* loadGC: the tags of records sort by creation time, and the last one counts.
Newest(R) == CHOOSE r \in R : \A q \in R : q.at <= r.at
Previous(R) == IF R = {} THEN NoRecord ELSE Newest(R)

\* Mutant: the version is not compared.
CarriesAnyVersion(prev, t, v, now) == /\ Lists(prev, t)
                                      /\ prev.cand[t].since <= now

\* gcPlan: a candidate keeps its time if the previous record lists the same
\* version, and starts to wait now otherwise.
Carries(prev, t, v, now) == /\ prev.cand[t].ver = v
                            /\ prev.cand[t].since <= now

PlanRecord(cand, seg, prev, now) ==
    [at |-> now, wall |-> clock,
     cand |-> [t \in Tag |->
                 IF t \notin cand THEN NotListed
                 ELSE IF Carries(prev, t, seg[t], now)
                 THEN prev.cand[t]
                 ELSE [ver |-> seg[t], since |-> now]]]

\* Mutant: one unit early.
EligibleEarly(r) == {t \in Tag : Lists(r, t) /\ r.at - r.cand[t].since >= Grace - 1}

Eligible(r) == {t \in Tag : Lists(r, t) /\ r.at - r.cand[t].since >= Grace}

-----------------------------------------------------------------------------
Phase == {"idle", "listed", "fetched", "planned", "mapped", "checked", "saved"}

NoTags == [t \in Tag |-> 0]

\* The local variables of pruneCache and executeGC.
NoRun == [pc |-> "idle",
          list |-> {},           \* segment tags listed
          old |-> {},            \* gcTags: the records listed
          seg |-> NoTags,        \* segments fetched
          next |-> NoRecord,     \* the record planned
          doomed |-> {},         \* toDelete
          vers |-> NoTags,       \* versionByTag
          oldLeft |-> {},        \* old records whose deletion is not done
          left |-> {}]           \* segments whose deletion is not done

Run == [pc : Phase, list : SUBSET Tag, old : SUBSET Record, seg : [Tag -> Nat],
        next : Record, doomed : SUBSET Tag, vers : [Tag -> Nat],
        oldLeft : SUBSET Record, left : SUBSET Tag]

TypeOK == /\ clock \in Nat
          /\ versions \in Nat
          /\ tagged \in [Tag -> Nat]
          /\ records \in SUBSET Record
          /\ run \in Run
          /\ reported \in SUBSET Nat
          /\ journal \in SUBSET Record

Init == /\ clock = 1
        /\ versions = 0
        /\ tagged = NoTags
        /\ records = {}
        /\ run = NoRun
        /\ reported = {}
        /\ journal = {}

-----------------------------------------------------------------------------
\* The environment: time, and whoever pushes a segment.  A tag may move to a
\* new version; a manifest has a new digest whenever it is pushed.

Tick == /\ clock < MaxClock
        /\ clock' = clock + 1
        /\ UNCHANGED <<versions, registry, run, reported, journal>>

Push(t) == /\ versions < MaxVersion
           /\ versions' = versions + 1
           /\ tagged' = [tagged EXCEPT ![t] = versions + 1]
           /\ UNCHANGED <<clock, records, run, reported, journal>>

-----------------------------------------------------------------------------
\* The run.

ListTags == /\ run.pc = "idle"
            /\ run' = [NoRun EXCEPT !.pc = "listed",
                                    !.list = {t \in Tag : tagged[t] # 0},
                                    !.old = records]
            /\ UNCHANGED <<clock, versions, registry, reported, journal>>

\* A listed tag that is gone is skipped; with no segment the run is over.
FetchSegments ==
    LET seg == [t \in Tag |-> IF t \in run.list THEN tagged[t] ELSE 0]
    IN  /\ run.pc = "listed"
        /\ run' = IF seg = NoTags THEN NoRun
                  ELSE [run EXCEPT !.pc = "fetched", !.seg = seg]
        /\ UNCHANGED <<clock, versions, registry, reported, journal>>

\* Mutant: the clock is not compared with the newest record.
MakePlanAnyTime(cand, now) ==
    LET prev == Previous(run.old)
        next == PlanRecord(cand, run.seg, prev, now)
    IN  /\ run.pc = "fetched"
        /\ cand \subseteq {t \in Tag : run.seg[t] # 0}
        /\ run' = [run EXCEPT !.pc = "planned", !.next = next,
                              !.doomed = Eligible(next)]
        /\ UNCHANGED <<clock, versions, registry, reported, journal>>

\* loadGC and gcPlan.  The run ends here if the clock of this runner is not
\* beyond the newest record, and if it is a dry run.
MakePlan(cand, now) ==
    LET prev == Previous(run.old)
        next == PlanRecord(cand, run.seg, prev, now)
    IN  /\ run.pc = "fetched"
        /\ cand \subseteq {t \in Tag : run.seg[t] # 0}
        /\ \/ /\ now > prev.at
              /\ run' = [run EXCEPT !.pc = "planned", !.next = next,
                                    !.doomed = Eligible(next)]
           \/ run' = NoRun
        /\ UNCHANGED <<clock, versions, registry, reported, journal>>

\* versionsByTag, and the check that it knows every tag it will be asked for.
MapVersions ==
    /\ run.pc = "planned"
    /\ run' = IF (\A t \in run.doomed : tagged[t] # 0) /\ run.old \subseteq records
              THEN [run EXCEPT !.pc = "mapped", !.vers = tagged]
              ELSE NoRun
    /\ UNCHANGED <<clock, versions, registry, reported, journal>>

\* Every segment about to be deleted is resolved again.
CheckDigests ==
    /\ run.pc = "mapped"
    /\ run' = IF \A t \in run.doomed : tagged[t] = run.seg[t]
              THEN [run EXCEPT !.pc = "checked"]
              ELSE NoRun
    /\ UNCHANGED <<clock, versions, registry, reported, journal>>

\* Mutant: the old records are listed again, and the new one is among them.
SaveGCListsAgain ==
    /\ run.pc = "checked"
    /\ records' = records \union {run.next}
    /\ journal' = journal \union {run.next}
    /\ run' = [run EXCEPT !.pc = "saved", !.oldLeft = run.old \union {run.next},
                          !.left = run.doomed]
    /\ UNCHANGED <<clock, versions, tagged, reported>>

\* saveGC.  The manifest may be stored although the answer is lost.
SaveGC ==
    /\ run.pc = "checked"
    /\ records' = records \union {run.next}
    /\ journal' = journal \union {run.next}
    /\ \/ run' = [run EXCEPT !.pc = "saved", !.oldLeft = run.old,
                             !.left = run.doomed]
       \/ run' = NoRun
    /\ UNCHANGED <<clock, versions, tagged, reported>>

\* deleteVersions on the old records: in any order, as they run concurrently.
DeleteOldRecord(r) ==
    /\ run.pc = "saved"
    /\ r \in run.oldLeft
    /\ records' = records \ {r}
    /\ run' = [run EXCEPT !.oldLeft = @ \ {r}]
    /\ UNCHANGED <<clock, versions, tagged, reported, journal>>

\* deleteVersions on the segments: a version takes with it whatever tags it has.
DeleteSegment(t) ==
    /\ run.pc = "saved"
    /\ run.oldLeft = {}
    /\ t \in run.left
    /\ tagged' = [u \in Tag |-> IF tagged[u] = run.vers[t] THEN 0 ELSE tagged[u]]
    /\ run' = [run EXCEPT !.left = @ \ {t}]
    /\ UNCHANGED <<clock, versions, records, reported, journal>>

\* Mutant: the deletions still running are not waited for.
FinishEarly ==
    /\ run.pc = "saved"
    /\ run.oldLeft = {}
    /\ reported' = {run.seg[t] : t \in run.doomed}
    /\ run' = NoRun
    /\ UNCHANGED <<clock, versions, registry, journal>>

Finish ==
    /\ run.pc = "saved"
    /\ run.oldLeft = {}
    /\ run.left = {}
    /\ reported' = {run.seg[t] : t \in run.doomed}
    /\ run' = NoRun
    /\ UNCHANGED <<clock, versions, registry, journal>>

\* A request fails (after the deletions that already took effect, whether or
\* not their answers arrived), or the job is cancelled or killed.
Fail == /\ run.pc # "idle"
        /\ run' = NoRun
        /\ UNCHANGED <<clock, versions, registry, reported, journal>>

Next == \/ Tick
        \/ \E t \in Tag : Push(t)
        \/ ListTags
        \/ FetchSegments
        \/ \E cand \in SUBSET Tag, now \in clock .. clock + MaxSkew :
              MakePlan(cand, now)
        \/ MapVersions
        \/ CheckDigests
        \/ SaveGC
        \/ \E r \in run.oldLeft : DeleteOldRecord(r)
        \/ \E t \in run.left : DeleteSegment(t)
        \/ Finish
        \/ Fail

Spec == Init /\ [][Next]_vars

-----------------------------------------------------------------------------
\* Properties.

\* Record i and every later one list version v of t.
ListedSince(i, t, v) ==
    \A j \in journal : j.at >= i.at => j.cand[t].ver = v

Vanishes(t) == tagged[t] # 0 /\ tagged'[t] = 0

\* A segment disappears only if the very version that disappears was listed by
\* every record saved during a whole grace period up to now.  A record in which
\* it was absent, or had another version, restarts its period for good, however
\* runs fail and resume in between: "a failed cleanup cannot resurrect an old
\* grace period" (prune.go, executeGC).
GraceHonoured ==
    [][\A t \in Tag : Vanishes(t) =>
         \E i \in journal : /\ ListedSince(i, t, tagged[t])
                            /\ Newest(journal).at - i.at >= Grace]_vars

\* The same in real time, for runners whose clocks disagree by up to MaxSkew:
\* the segment had been waiting for Grace - MaxSkew when it disappeared.
WallGraceHonoured ==
    [][\A t \in Tag : Vanishes(t) =>
         \E i \in journal : /\ ListedSince(i, t, tagged[t])
                            /\ clock - i.wall >= Grace - MaxSkew]_vars

\* The registry never loses the newest record ever saved, at whatever point runs
\* fail: executeGC saves the new record before it deletes the old ones, so
\* loadGC of the next run resumes from the history that is in force.
HistoryKept ==
    journal # {} => records # {} /\ Newest(records) = Newest(journal)

\* What a complete run reported deleted is gone, under every tag: deleteVersions
\* waits for all its concurrent deletions, and pushes never bring a version back.
ReportedGone == \A t \in Tag : tagged[t] \notin reported

\* The protocol implements the abstract promise: the verdict in force is the
\* newest record in the registry (loadGC), and nothing else a run does shows.
Promise == INSTANCE GracePeriod WITH verdictAt <- Previous(records).at,
                                     waiting <- Previous(records).cand
ImplementsGracePeriod == Promise!Spec
==============================================================================
