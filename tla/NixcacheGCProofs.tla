-------------------------- MODULE NixcacheGCProofs --------------------------
(***************************************************************************)
(* Proofs about the prune protocol, for every set of tags, grace period,   *)
(* clock skew and bound.  The inductive invariant has three parts: the     *)
(* history of records, the registry, and what a run knows at each phase.   *)
(***************************************************************************)
EXTENDS NixcacheGC, TLAPS

IsLast(r) == r \in journal /\ \A q \in journal : q.at <= r.at

\* A listed version has been listed by every record since the time given.
Chained(r, t) ==
    Lists(r, t) =>
      \E i \in journal : /\ i.at = r.cand[t].since
                         /\ i.at <= r.at
                         /\ \A j \in journal :
                              i.at <= j.at /\ j.at <= r.at
                                => j.cand[t].ver = r.cand[t].ver

Dated(r) == r.wall <= clock /\ r.wall <= r.at /\ r.at <= r.wall + MaxSkew

HistoryInv == /\ records \subseteq journal
              /\ \A p, q \in journal : p.at = q.at => p = q
              /\ journal # {} => \E r \in records : IsLast(r)
              /\ \A r \in journal : Dated(r) /\ \A t \in Tag : Chained(r, t)

RegistryInv == /\ \A t \in Tag : tagged[t] <= versions
               /\ \A t, u \in Tag : t # u /\ tagged[t] = tagged[u] => tagged[t] = 0

\* The plan: newer than all history, and a listed version is new or carried over.
PlanInv == /\ Dated(run.next)
           /\ run.next.at > 0
           /\ \A q \in journal : q.at < run.next.at
           /\ \A t \in Tag : Lists(run.next, t) =>
                \/ run.next.cand[t].since = run.next.at
                \/ \E p \in records : IsLast(p) /\ p.cand[t] = run.next.cand[t]

\* A version fetched under a tag can only be found under that tag.
FetchedInv == \A t \in Tag : /\ run.seg[t] <= versions
                             /\ \A u \in Tag : t # u /\ run.seg[t] # 0
                                               => tagged[u] # run.seg[t]

DoomedInv == \A t \in run.doomed : /\ run.seg[t] # 0
                                   /\ run.next.cand[t].ver = run.seg[t]
                                   /\ run.next.at - run.next.cand[t].since >= Grace

RunInv ==
    /\ run.pc \in {"listed", "fetched", "planned", "mapped", "checked"} =>
         run.old = records
    /\ run.pc \in {"fetched", "planned", "mapped", "checked"} =>
         \A t \in Tag : run.seg[t] <= tagged[t]
    /\ run.pc \in {"fetched", "planned", "mapped", "checked", "saved"} => FetchedInv
    /\ run.pc \in {"planned", "mapped", "checked"} => PlanInv
    /\ run.pc \in {"planned", "mapped", "checked", "saved"} => DoomedInv
    /\ run.pc = "mapped" =>
         \A t \in run.doomed : run.seg[t] <= run.vers[t] /\ run.vers[t] <= tagged[t]
    /\ run.pc \in {"checked", "saved"} =>
         \A t \in run.doomed : run.vers[t] = run.seg[t]
    /\ run.pc = "saved" => /\ run.next \in records
                           /\ IsLast(run.next)
                           /\ run.next \notin run.oldLeft
                           /\ run.left \subseteq run.doomed
                           /\ \A t \in run.doomed \ run.left, u \in Tag :
                                tagged[u] # run.seg[t]

ReportInv == /\ ReportedGone
             /\ \A v \in reported : v # 0 /\ v <= versions

Inv == TypeOK /\ HistoryInv /\ RegistryInv /\ RunInv /\ ReportInv

-----------------------------------------------------------------------------
\* The newest of a set of records is the one that is newer than all others.
LEMMA NewestIs ==
    ASSUME NEW R, NEW m \in R, \A r \in R : r.at \in Nat,
           \A q \in R : q.at <= m.at,
           \A p, q \in R : p.at = q.at => p = q
    PROVE  Newest(R) = m
  <1>1. \A q \in R : q.at <= Newest(R).at
    BY DEF Newest
  <1>2. Newest(R) \in R
    BY DEF Newest
  <1>3. Newest(R).at = m.at
    BY <1>1, <1>2
  <1> QED BY <1>2, <1>3

\* The values that stand for "no record" and "no run" have the types of the others.
LEMMA NoRecordType == NoRecord \in Record /\ NoRun \in Run
  <1>1. NoRecord \in Record
    BY DEF NoRecord, Record, Verdict, NotListed
  <1> QED BY <1>1 DEF NoRun, Run, Phase, NoTags

\* loadGC finds the newest record of the history, or there is none at all.
LEMMA PreviousIs ==
    ASSUME TypeOK, HistoryInv
    PROVE  /\ Previous(records) \in Record
           /\ records = {} => journal = {} /\ Previous(records) = NoRecord
           /\ records # {} => /\ Previous(records) \in records
                              /\ IsLast(Previous(records))
  <1>1. CASE records = {}
    BY <1>1, NoRecordType DEF Previous, HistoryInv
  <1>2. CASE records # {}
    <2>1. PICK m \in records : IsLast(m)
      BY <1>2 DEF HistoryInv
    <2>2. \A r \in records : r.at \in Nat
      BY DEF TypeOK, Record
    <2>3. Newest(records) = m
      BY <2>1, <2>2, NewestIs DEF HistoryInv, IsLast
    <2> QED BY <1>2, <2>1, <2>3 DEF Previous, TypeOK
  <1> QED BY <1>1, <1>2

\* An empty registry satisfies the invariant.
LEMMA InitInv == Init => Inv
  <1> SUFFICES ASSUME Init PROVE Inv
    OBVIOUS
  <1>1. TypeOK
    BY NoRecordType DEF Init, TypeOK, NoTags
  <1>2. HistoryInv /\ RegistryInv /\ ReportInv
    BY DEF Init, HistoryInv, RegistryInv, ReportInv, ReportedGone, NoTags
  <1>3. RunInv
    BY DEF Init, RunInv, NoRun
  <1> QED BY <1>1, <1>2, <1>3 DEF Inv

\* A planned record is a record, and it satisfies PlanInv and DoomedInv.
LEMMA PlanRecordType ==
    ASSUME TypeOK, NEW cand, NEW prev \in Record, NEW now \in Nat
    PROVE  PlanRecord(cand, run.seg, prev, now) \in Record
  BY DEF TypeOK, PlanRecord, Record, Verdict, NotListed, Run

\* Every step of a run, and of its environment, preserves the types.
LEMMA TypeInv == Inv /\ [Next]_vars => TypeOK'
  <1> SUFFICES ASSUME Inv, [Next]_vars PROVE TypeOK'
    OBVIOUS
  <1> USE GCAssumption DEF Inv, TypeOK, registry
  <1>1. CASE Tick
    BY <1>1 DEF Tick
  <1>2. ASSUME NEW t \in Tag, Push(t) PROVE TypeOK'
    BY <1>2 DEF Push
  <1>3. CASE ListTags
    BY <1>3, NoRecordType DEF ListTags, NoRun, Run, Phase
  <1>4. CASE FetchSegments
    BY <1>4, NoRecordType DEF FetchSegments, Run, Phase
  <1>5. ASSUME NEW cand \in SUBSET Tag, NEW now \in clock .. clock + MaxSkew,
               MakePlan(cand, now)
        PROVE  TypeOK'
    <2>1. Previous(run.old) \in Record
      BY <1>5, PreviousIs DEF MakePlan, RunInv
    <2>2. now \in Nat
      OBVIOUS
    <2>3. PlanRecord(cand, run.seg, Previous(run.old), now) \in Record
      BY <2>1, <2>2, PlanRecordType
    <2>4. Eligible(PlanRecord(cand, run.seg, Previous(run.old), now)) \in SUBSET Tag
      BY DEF Eligible
    <2>5. run' \in Run
      <3>1. CASE run' = NoRun
        BY <3>1, NoRecordType
      <3>2. CASE run' # NoRun
        BY <1>5, <2>3, <2>4, <3>2 DEF MakePlan, Run, Phase
      <3> QED BY <3>1, <3>2
    <2> QED BY <1>5, <2>5 DEF MakePlan
  <1>6. CASE MapVersions
    BY <1>6, NoRecordType DEF MapVersions, Run, Phase
  <1>7. CASE CheckDigests
    BY <1>7, NoRecordType DEF CheckDigests, Run, Phase
  <1>8. CASE SaveGC
    BY <1>8, NoRecordType DEF SaveGC, Run, Phase
  <1>9. ASSUME NEW r \in run.oldLeft, DeleteOldRecord(r) PROVE TypeOK'
    BY <1>9 DEF DeleteOldRecord, Run
  <1>10. ASSUME NEW t \in run.left, DeleteSegment(t) PROVE TypeOK'
    BY <1>10 DEF DeleteSegment, Run
  <1>11. CASE Finish
    BY <1>11, NoRecordType DEF Finish, Run
  <1>12. CASE Fail
    BY <1>12, NoRecordType DEF Fail
  <1>13. CASE UNCHANGED vars
    BY <1>13 DEF vars
  <1> QED BY <1>1, <1>2, <1>3, <1>4, <1>5, <1>6, <1>7, <1>8, <1>9, <1>10, <1>11,
             <1>12, <1>13 DEF Next

-----------------------------------------------------------------------------
\* The history is only touched by SaveGC and DeleteOldRecord.
LEMMA HistoryStep == Inv /\ [Next]_vars => HistoryInv'
  <1> SUFFICES ASSUME Inv, [Next]_vars PROVE HistoryInv'
    OBVIOUS
  <1> USE DEF Inv
  <1>1. CASE UNCHANGED <<records, journal>> /\ clock' >= clock
    <2>1. \A r \in journal : Dated(r)' 
      BY <1>1, TypeInv DEF HistoryInv, Dated, TypeOK, Record
    <2> QED BY <1>1, <2>1 DEF HistoryInv, IsLast, Chained
  <1>2. CASE SaveGC
    <2>1. PICK n \in Record : n = run.next
      BY DEF TypeOK, Run
    <2>2. /\ PlanInv
          /\ records' = records \union {n}
          /\ journal' = journal \union {n}
          /\ clock' = clock
      BY <1>2, <2>1 DEF SaveGC, RunInv
    <2>3. \A q \in journal : q.at \in Nat /\ q.at < n.at
      BY <2>1, <2>2 DEF PlanInv, TypeOK, Record
    <2>4. records' \subseteq journal'
      BY <2>2 DEF HistoryInv
    <2>5. \A p, q \in journal' : p.at = q.at => p = q
      BY <2>2, <2>3 DEF HistoryInv, Record
    <2>6. IsLast(n)' /\ n \in records'
      BY <2>2, <2>3 DEF IsLast, Record
    <2>7. ASSUME NEW r \in journal' PROVE Dated(r)'
      BY <2>1, <2>2 DEF HistoryInv, PlanInv, Dated
    <2>8. ASSUME NEW r \in journal, NEW t \in Tag PROVE Chained(r, t)'
      <3> USE DEF Chained
      <3>1. r.at \in Nat /\ n.at \in Nat /\ r.at < n.at
        BY <2>3 DEF Record
      <3>2. Chained(r, t)
        BY DEF HistoryInv
      <3> QED BY <2>2, <3>1, <3>2
    <2>9. ASSUME NEW t \in Tag PROVE Chained(n, t)'
      <3> SUFFICES ASSUME Lists(n, t)
                   PROVE  \E i \in journal' :
                            /\ i.at = n.cand[t].since
                            /\ i.at <= n.at
                            /\ \A j \in journal' : i.at <= j.at /\ j.at <= n.at
                                                    => j.cand[t].ver = n.cand[t].ver
        BY DEF Chained, Lists
      <3>1. CASE n.cand[t].since = n.at
        BY <2>2, <2>3, <3>1 DEF Record
      <3>2. CASE \E p \in records : IsLast(p) /\ p.cand[t] = n.cand[t]
        <4>1. PICK p \in journal : IsLast(p) /\ p.cand[t] = n.cand[t]
          BY <3>2 DEF HistoryInv
        <4>2. PICK i \in journal :
                /\ i.at = n.cand[t].since
                /\ i.at <= p.at
                /\ \A j \in journal : i.at <= j.at /\ j.at <= p.at
                                       => j.cand[t].ver = n.cand[t].ver
          BY <4>1 DEF HistoryInv, Chained, Lists
        <4>3. \A j \in journal : j.at <= p.at
          BY <4>1 DEF IsLast
        <4> QED BY <2>1, <2>2, <2>3, <4>1, <4>2, <4>3 DEF Record
      <3> QED BY <2>1, <2>2, <3>1, <3>2 DEF PlanInv
    <2> QED BY <2>2, <2>4, <2>5, <2>6, <2>7, <2>8, <2>9 DEF HistoryInv
  <1>3. ASSUME NEW r \in run.oldLeft, DeleteOldRecord(r) PROVE HistoryInv'
    <2>1. PICK n \in Record : n = run.next
      BY DEF TypeOK, Run
    <2>2. n \in records' /\ IsLast(n)'
      BY <1>3, <2>1 DEF DeleteOldRecord, RunInv, IsLast
    <2> QED BY <1>3, <2>2 DEF DeleteOldRecord, HistoryInv, Dated, Chained
  <1>4. \/ UNCHANGED <<records, journal>> /\ clock' >= clock
        \/ SaveGC
        \/ \E r \in run.oldLeft : DeleteOldRecord(r)
    <2>1. CASE Tick
      BY <2>1 DEF Tick, registry, TypeOK
    <2>2. CASE \E t \in Tag : Push(t)
      BY <2>2 DEF Push, TypeOK
    <2>3. CASE ListTags \/ FetchSegments \/ MapVersions \/ CheckDigests \/ Finish \/ Fail
      BY <2>3 DEF ListTags, FetchSegments, MapVersions, CheckDigests, Finish, Fail,
                  registry, TypeOK
    <2>4. CASE \E cand \in SUBSET Tag, now \in clock .. clock + MaxSkew : MakePlan(cand, now)
      BY <2>4 DEF MakePlan, registry, TypeOK
    <2>5. CASE \E t \in run.left : DeleteSegment(t)
      BY <2>5 DEF DeleteSegment, TypeOK
    <2>6. CASE UNCHANGED vars
      BY <2>6 DEF vars, TypeOK
    <2> QED BY <2>1, <2>2, <2>3, <2>4, <2>5, <2>6 DEF Next
  <1> QED BY <1>1, <1>2, <1>3, <1>4

\* Versions are never reused, so tags share none and a deletion hits one tag.
LEMMA RegistryStep == Inv /\ [Next]_vars => RegistryInv'
  <1> SUFFICES ASSUME Inv, [Next]_vars PROVE RegistryInv'
    OBVIOUS
  <1> USE DEF Inv, RegistryInv, TypeOK
  <1>1. CASE UNCHANGED <<tagged, versions>>
    BY <1>1
  <1>2. ASSUME NEW t \in Tag, Push(t) PROVE RegistryInv'
    BY <1>2 DEF Push
  <1>3. ASSUME NEW t \in run.left, DeleteSegment(t) PROVE RegistryInv'
    BY <1>3 DEF DeleteSegment
  <1>4. \/ UNCHANGED <<tagged, versions>>
        \/ \E t \in Tag : Push(t)
        \/ \E t \in run.left : DeleteSegment(t)
    BY DEF Next, vars, registry, Tick, ListTags, FetchSegments, MakePlan, MapVersions,
           CheckDigests, SaveGC, DeleteOldRecord, Finish, Fail
  <1> QED BY <1>1, <1>2, <1>3, <1>4

-----------------------------------------------------------------------------
\* A run that ends relies on nothing any more.
LEMMA NoRunInv == run' = NoRun => RunInv'
  BY DEF NoRun, RunInv

\* The plan made by MakePlan satisfies what the later phases rely on.
LEMMA MakePlanRun ==
    ASSUME Inv, NEW cand \in SUBSET Tag, NEW now \in clock .. clock + MaxSkew,
           MakePlan(cand, now), run' # NoRun
    PROVE  RunInv'
  <1> USE DEF Inv
  <1> DEFINE prev == Previous(run.old)
  <1>1. /\ run' = [run EXCEPT !.pc = "planned",
                              !.next = PlanRecord(cand, run.seg, prev, now),
                              !.doomed = Eligible(PlanRecord(cand, run.seg, prev, now))]
        /\ now > prev.at
        /\ cand \subseteq {t \in Tag : run.seg[t] # 0}
        /\ run.pc = "fetched"
        /\ UNCHANGED <<clock, versions, tagged, records, journal>>
    BY DEF MakePlan, registry
  <1>2. /\ run.old = records
        /\ FetchedInv
        /\ \A t \in Tag : run.seg[t] <= tagged[t]
    BY <1>1 DEF RunInv
  <1>3. /\ prev \in Record
        /\ records = {} => journal = {} /\ prev = NoRecord
        /\ records # {} => prev \in records /\ IsLast(prev)
    BY <1>2, PreviousIs
  <1>4. now \in Nat /\ clock <= now /\ now <= clock + MaxSkew
    BY GCAssumption DEF TypeOK
  <1>5. PICK n \in Record : n = PlanRecord(cand, run.seg, prev, now)
    BY <1>3, <1>4, PlanRecordType
  <1>7. /\ run'.pc = "planned"
        /\ run'.next = n
        /\ run'.doomed = Eligible(n)
        /\ run'.old = run.old
        /\ run'.seg = run.seg
    BY <1>1, <1>5 DEF TypeOK, Run
  <1>8. n.at = now /\ n.wall = clock
    BY <1>5 DEF PlanRecord
  <1>9. ASSUME NEW t \in Tag, Lists(n, t)
        PROVE  /\ run.seg[t] # 0
               /\ n.cand[t].ver = run.seg[t]
               /\ n.cand[t].since = now \/ n.cand[t] = prev.cand[t]
    BY <1>1, <1>5, <1>9 DEF PlanRecord, Lists, NotListed, Carries
  <1>10. PlanInv'
    <2>1. Dated(n)'
      BY <1>1, <1>4, <1>8 DEF Dated, TypeOK
    <2>2. \A q \in journal : q.at < now
      BY <1>1, <1>3, <1>4 DEF IsLast, TypeOK, Record
    <2>3. now > 0
      BY <1>1, <1>3, <1>4 DEF Record
    <2>4. ASSUME NEW t \in Tag, Lists(n, t)
          PROVE  \/ n.cand[t].since = n.at
                 \/ \E p \in records : IsLast(p) /\ p.cand[t] = n.cand[t]
      <3>1. CASE n.cand[t].since = now
        BY <1>8, <3>1
      <3>2. CASE n.cand[t] = prev.cand[t]
        <4>1. records # {}
          BY <1>3, <2>4, <3>2 DEF NoRecord, Lists, NotListed
        <4> QED BY <1>3, <3>2, <4>1
      <3> QED BY <1>9, <2>4, <3>1, <3>2
    <2> QED BY <1>1, <1>7, <1>8, <2>1, <2>2, <2>3, <2>4 DEF PlanInv, IsLast, Dated, Lists
  <1>11. DoomedInv'
    <2> QED BY <1>7, <1>9 DEF DoomedInv, Eligible
  <1>12. FetchedInv'
    BY <1>1, <1>2, <1>7 DEF FetchedInv
  <1> QED BY <1>1, <1>2, <1>7, <1>10, <1>11, <1>12 DEF RunInv

\* What a run knows stays true under its own steps and under pushes.
LEMMA RunStep == Inv /\ [Next]_vars => RunInv'
  <1> SUFFICES ASSUME Inv, [Next]_vars, run' # NoRun PROVE RunInv'
    BY NoRunInv
  <1> USE DEF Inv, TypeOK, registry
  <1>1. CASE Tick
    <2>1. UNCHANGED <<versions, tagged, records, run, journal>> /\ clock' = clock + 1
      BY <1>1 DEF Tick
    <2>2. PlanInv => PlanInv'
      BY <2>1 DEF PlanInv, Dated, IsLast, Run, Record
    <2> QED BY <2>1, <2>2 DEF RunInv, FetchedInv, DoomedInv, IsLast
  <1>2. ASSUME NEW t \in Tag, Push(t) PROVE RunInv'
    <2>1. /\ UNCHANGED <<clock, records, run, journal>>
          /\ versions' = versions + 1
          /\ tagged' = [tagged EXCEPT ![t] = versions + 1]
      BY <1>2 DEF Push
    <2>2. PlanInv => PlanInv'
      BY <2>1 DEF PlanInv, Dated, IsLast
    <2>3. FetchedInv => FetchedInv'
      BY <2>1 DEF FetchedInv, Run
    <2>4. DoomedInv => DoomedInv'
      BY <2>1 DEF DoomedInv
    <2>5. \A u \in Tag : tagged[u] <= tagged'[u]
      BY <2>1 DEF RegistryInv
    <2>6. run.pc \in {"fetched", "planned", "mapped", "checked"} =>
            \A u \in Tag : run.seg[u] <= tagged'[u]
      BY <2>1, <2>5 DEF RunInv, Run
    <2>7. run.pc = "mapped" =>
            \A u \in run.doomed : /\ run.seg[u] <= run.vers[u]
                                  /\ run.vers[u] <= tagged'[u]
      BY <2>1, <2>5 DEF RunInv, Run
    <2>8. run.pc = "saved" => \A d \in run.doomed \ run.left, u \in Tag :
                                 tagged'[u] # run.seg[d]
      BY <2>1 DEF RunInv, FetchedInv, Run
    <2> QED BY <2>1, <2>2, <2>3, <2>4, <2>6, <2>7, <2>8 DEF RunInv, IsLast
  <1>3. CASE ListTags
    BY <1>3 DEF ListTags, NoRun, RunInv
  <1>4. CASE FetchSegments
    <2>1. PICK seg \in [Tag -> Nat] :
            /\ seg = [t \in Tag |-> IF t \in run.list THEN tagged[t] ELSE 0]
            /\ run' = [run EXCEPT !.pc = "fetched", !.seg = seg]
      BY <1>4 DEF FetchSegments
    <2>2. /\ run'.pc = "fetched"
          /\ run'.seg = seg
          /\ run'.old = run.old
          /\ run.pc = "listed"
          /\ UNCHANGED <<clock, versions, tagged, records, journal>>
      BY <1>4, <2>1 DEF FetchSegments, Run
    <2> QED BY <2>1, <2>2 DEF RunInv, FetchedInv, RegistryInv
  <1>5. ASSUME NEW cand \in SUBSET Tag, NEW now \in clock .. clock + MaxSkew,
               MakePlan(cand, now)
        PROVE  RunInv'
    BY <1>5, MakePlanRun
  <1>6. CASE MapVersions
    <2>1. /\ run.pc = "planned"
          /\ run' = [run EXCEPT !.pc = "mapped", !.vers = tagged]
          /\ UNCHANGED <<clock, versions, tagged, records, journal>>
      BY <1>6 DEF MapVersions
    <2>2. /\ run'.pc = "mapped"
          /\ run'.vers = tagged
          /\ run'.seg = run.seg
          /\ run'.old = run.old
          /\ run'.next = run.next
          /\ run'.doomed = run.doomed
      BY <2>1 DEF Run
    <2> QED BY <2>1, <2>2
            DEF RunInv, PlanInv, DoomedInv, FetchedInv, Dated, IsLast, Lists, Run
  <1>7. CASE CheckDigests
    <2>1. /\ run.pc = "mapped"
          /\ \A t \in run.doomed : tagged[t] = run.seg[t]
          /\ run' = [run EXCEPT !.pc = "checked"]
          /\ UNCHANGED <<clock, versions, tagged, records, journal>>
      BY <1>7 DEF CheckDigests
    <2>2. /\ run'.pc = "checked"
          /\ run'.vers = run.vers
          /\ run'.seg = run.seg
          /\ run'.old = run.old
          /\ run'.next = run.next
          /\ run'.doomed = run.doomed
      BY <2>1 DEF Run
    <2>3. \A t \in run.doomed : run.vers[t] = run.seg[t]
      BY <2>1 DEF RunInv, Run
    <2> QED BY <2>1, <2>2, <2>3
            DEF RunInv, PlanInv, DoomedInv, FetchedInv, Dated, IsLast, Lists
  <1>8. CASE SaveGC
    <2>1. /\ run.pc = "checked"
          /\ records' = records \union {run.next}
          /\ journal' = journal \union {run.next}
          /\ run' = [run EXCEPT !.pc = "saved", !.oldLeft = run.old,
                                !.left = run.doomed]
          /\ UNCHANGED <<clock, versions, tagged>>
      BY <1>8 DEF SaveGC
    <2>2. /\ run'.pc = "saved"
          /\ run'.oldLeft = run.old
          /\ run'.left = run.doomed
          /\ run'.vers = run.vers
          /\ run'.seg = run.seg
          /\ run'.next = run.next
          /\ run'.doomed = run.doomed
      BY <2>1 DEF Run
    <2>3. PlanInv /\ run.old = records
      BY <2>1 DEF RunInv
    <2>4. run.next \notin run.old
      BY <2>3 DEF PlanInv, HistoryInv, Run, Record
    <2>5. IsLast(run.next)'
      BY <2>1, <2>2, <2>3 DEF IsLast, PlanInv, Run, Record
    <2> QED BY <2>1, <2>2, <2>4, <2>5 DEF RunInv, DoomedInv, FetchedInv
  <1>9. ASSUME NEW r \in run.oldLeft, DeleteOldRecord(r) PROVE RunInv'
    <2>1. /\ run.pc = "saved"
          /\ records' = records \ {r}
          /\ run' = [run EXCEPT !.oldLeft = run.oldLeft \ {r}]
          /\ UNCHANGED <<clock, versions, tagged, journal>>
      BY <1>9 DEF DeleteOldRecord
    <2>2. /\ run'.pc = "saved"
          /\ run'.oldLeft = run.oldLeft \ {r}
          /\ run'.left = run.left
          /\ run'.vers = run.vers
          /\ run'.seg = run.seg
          /\ run'.next = run.next
          /\ run'.doomed = run.doomed
      BY <2>1 DEF Run
    <2> QED BY <2>1, <2>2 DEF RunInv, DoomedInv, FetchedInv, IsLast
  <1>10. ASSUME NEW t \in run.left, DeleteSegment(t) PROVE RunInv'
    <2>1. /\ run.pc = "saved"
          /\ tagged' = [u \in Tag |-> IF tagged[u] = run.vers[t] THEN 0 ELSE tagged[u]]
          /\ run' = [run EXCEPT !.left = run.left \ {t}]
          /\ UNCHANGED <<clock, versions, records, journal>>
      BY <1>10 DEF DeleteSegment
    <2>2. /\ run'.pc = "saved"
          /\ run'.oldLeft = run.oldLeft
          /\ run'.left = run.left \ {t}
          /\ run'.vers = run.vers
          /\ run'.seg = run.seg
          /\ run'.next = run.next
          /\ run'.doomed = run.doomed
      BY <2>1 DEF Run
    <2>3. /\ t \in run.doomed
          /\ run.vers[t] = run.seg[t]
          /\ \A d \in run.doomed : run.seg[d] # 0
      BY <2>1 DEF RunInv, DoomedInv
    <2>4. \A d \in run.doomed \ (run.left \ {t}), u \in Tag : tagged'[u] # run.seg[d]
      BY <2>1, <2>3 DEF RunInv
    <2> QED BY <2>1, <2>2, <2>4 DEF RunInv, DoomedInv, FetchedInv, IsLast
  <1>11. CASE Finish
    BY <1>11 DEF Finish
  <1>12. CASE Fail
    BY <1>12 DEF Fail
  <1>13. CASE UNCHANGED vars
    BY <1>13 DEF vars, RunInv, PlanInv, DoomedInv, FetchedInv, Dated, IsLast
  <1> QED BY <1>1, <1>2, <1>3, <1>4, <1>5, <1>6, <1>7, <1>8, <1>9, <1>10, <1>11,
             <1>12, <1>13 DEF Next

\* Versions that were deleted never come back, since every push makes a new one.
LEMMA ReportStep == Inv /\ [Next]_vars => ReportInv'
  <1> SUFFICES ASSUME Inv, [Next]_vars PROVE ReportInv'
    OBVIOUS
  <1> USE DEF Inv, ReportInv, ReportedGone, TypeOK
  <1>1. CASE UNCHANGED <<tagged, versions, reported>>
    BY <1>1
  <1>2. ASSUME NEW t \in Tag, Push(t) PROVE ReportInv'
    BY <1>2 DEF Push
  <1>3. ASSUME NEW t \in run.left, DeleteSegment(t) PROVE ReportInv'
    BY <1>3 DEF DeleteSegment
  <1>4. CASE Finish
    <2>1. /\ reported' = {run.seg[t] : t \in run.doomed}
          /\ UNCHANGED <<tagged, versions>>
          /\ run.pc = "saved" /\ run.left = {}
      BY <1>4 DEF Finish, registry
    <2>2. \A t \in run.doomed : /\ run.seg[t] # 0
                                /\ run.seg[t] <= versions
                                /\ \A u \in Tag : tagged[u] # run.seg[t]
      BY <2>1 DEF RunInv, FetchedInv, DoomedInv, Run
    <2> QED BY <2>1, <2>2
  <1>5. \/ UNCHANGED <<tagged, versions, reported>>
        \/ \E t \in Tag : Push(t)
        \/ \E t \in run.left : DeleteSegment(t)
        \/ Finish
    BY DEF Next, vars, registry, Tick, ListTags, FetchSegments, MakePlan, MapVersions,
           CheckDigests, SaveGC, DeleteOldRecord, Fail
  <1> QED BY <1>1, <1>2, <1>3, <1>4, <1>5

-----------------------------------------------------------------------------
\* The invariant holds throughout: the parts are inductive only together, since
\* what a run may rely on comes from the history it started from.
THEOREM Invariance == Spec => []Inv
  <1>1. Inv /\ [Next]_vars => Inv'
    BY TypeInv, HistoryStep, RegistryStep, RunStep, ReportStep DEF Inv
  <1> QED BY InitInv, <1>1, PTL DEF Spec

\* Every variable keeps its type.
THEOREM TypeCorrect == Spec => []TypeOK
  BY Invariance, PTL DEF Inv

\* The newest record ever saved is in the history, and newer than all others.
LEMMA NewestOfJournal ==
    ASSUME Inv, NEW m, IsLast(m)
    PROVE  Newest(journal) = m
  BY NewestIs DEF Inv, IsLast, HistoryInv, TypeOK, Record

\* However runs fail, the newest record ever saved is still in the registry and
\* is the one loadGC picks: no waiting time is lost or brought back.
THEOREM HistoryIsKept == Spec => []HistoryKept
  <1>1. Inv => HistoryKept
    <2> SUFFICES ASSUME Inv, journal # {} PROVE records # {} /\ Newest(records) = Newest(journal)
      BY DEF HistoryKept
    <2>1. PICK m \in records : IsLast(m)
      BY DEF Inv, HistoryInv
    <2>2. Newest(journal) = m
      BY <2>1, NewestOfJournal
    <2>3. Newest(records) = m
      BY <2>1, NewestIs DEF Inv, IsLast, HistoryInv, TypeOK, Record
    <2> QED BY <2>1, <2>2, <2>3
  <1> QED BY Invariance, <1>1, PTL

\* A complete run reports as deleted only versions that are gone for good.
THEOREM ReportedIsGone == Spec => []ReportedGone
  <1>1. Inv => ReportedGone
    BY DEF Inv, ReportInv
  <1> QED BY Invariance, <1>1, PTL

\* The only step that takes a tag away is the deletion of a segment the newest
\* record lists, in the version deleted, for at least the grace period.
LEMMA VanishStep ==
    ASSUME Inv, [Next]_vars, NEW t \in Tag, Vanishes(t)
    PROVE  /\ IsLast(run.next) /\ run.next \in records
           /\ run.next.cand[t].ver = tagged[t]
           /\ run.next.at - run.next.cand[t].since >= Grace
           /\ tagged' = [tagged EXCEPT ![t] = 0]
           /\ UNCHANGED <<clock, records, journal>>
  <1> USE DEF Inv, TypeOK
  <1>1. PICK d \in run.left : DeleteSegment(d)
    <2>1. \/ UNCHANGED tagged
          \/ \E u \in Tag : Push(u)
          \/ \E u \in run.left : DeleteSegment(u)
      BY DEF Next, vars, registry, Tick, ListTags, FetchSegments, MakePlan, MapVersions,
             CheckDigests, SaveGC, DeleteOldRecord, Finish, Fail
    <2>2. ~ UNCHANGED tagged
      BY DEF Vanishes
    <2>3. ASSUME NEW u \in Tag, Push(u) PROVE FALSE
      BY <2>3 DEF Push, Vanishes
    <2> QED BY <2>1, <2>2, <2>3
  <1>2. /\ run.pc = "saved"
        /\ tagged' = [u \in Tag |-> IF tagged[u] = run.vers[d] THEN 0 ELSE tagged[u]]
        /\ UNCHANGED <<clock, records, journal>>
    BY <1>1 DEF DeleteSegment
  <1>3. /\ d \in run.doomed
        /\ run.vers[d] = run.seg[d]
        /\ run.next.cand[d].ver = run.seg[d]
        /\ run.next.at - run.next.cand[d].since >= Grace
        /\ run.seg[d] # 0
        /\ \A u \in Tag : d # u => tagged[u] # run.seg[d]
    BY <1>2 DEF RunInv, DoomedInv, FetchedInv, Run
  <1>4. t = d /\ tagged[t] = run.seg[t]
    BY <1>2, <1>3 DEF Vanishes
  <1> QED BY <1>2, <1>3, <1>4 DEF RunInv

\* The version that disappears was listed throughout its waiting time.
LEMMA VanishedWasListed ==
    ASSUME Inv, [Next]_vars, NEW t \in Tag, Vanishes(t)
    PROVE  \E i \in journal : /\ ListedSince(i, t, tagged[t])
                              /\ run.next.at - i.at >= Grace
  <1>1. /\ IsLast(run.next)
        /\ run.next.cand[t].ver = tagged[t]
        /\ run.next.at - run.next.cand[t].since >= Grace
    BY VanishStep
  <1>2. PICK i \in journal :
          /\ i.at = run.next.cand[t].since
          /\ \A j \in journal : i.at <= j.at /\ j.at <= run.next.at
                                => j.cand[t].ver = tagged[t]
    BY <1>1 DEF Inv, HistoryInv, IsLast, Chained, Lists, Vanishes
  <1> QED BY <1>1, <1>2 DEF ListedSince, IsLast

\* A segment disappears only after every record of a whole grace period listed
\* the very version that disappears.
THEOREM GraceIsHonoured == Spec => GraceHonoured
  <1>1. Inv /\ [Next]_vars =>
          [\A t \in Tag : Vanishes(t) =>
             \E i \in journal : /\ ListedSince(i, t, tagged[t])
                                /\ Newest(journal).at - i.at >= Grace]_vars
    <2> SUFFICES ASSUME Inv, [Next]_vars, NEW t \in Tag, Vanishes(t)
                 PROVE  \E i \in journal : /\ ListedSince(i, t, tagged[t])
                                           /\ Newest(journal).at - i.at >= Grace
      OBVIOUS
    <2>1. Newest(journal) = run.next
      BY VanishStep, NewestOfJournal
    <2> QED BY <2>1, VanishedWasListed
  <1> QED BY Invariance, <1>1, PTL DEF Spec, GraceHonoured

\* In real time the wait was at least the grace period less the clock skew.
THEOREM WallGraceIsHonoured == Spec => WallGraceHonoured
  <1>1. Inv /\ [Next]_vars =>
          [\A t \in Tag : Vanishes(t) =>
             \E i \in journal : /\ ListedSince(i, t, tagged[t])
                                /\ clock - i.wall >= Grace - MaxSkew]_vars
    <2> SUFFICES ASSUME Inv, [Next]_vars, NEW t \in Tag, Vanishes(t)
                 PROVE  \E i \in journal : /\ ListedSince(i, t, tagged[t])
                                           /\ clock - i.wall >= Grace - MaxSkew
      OBVIOUS
    <2>1. PICK i \in journal : /\ ListedSince(i, t, tagged[t])
                              /\ run.next.at - i.at >= Grace
      BY VanishedWasListed
    <2>2. IsLast(run.next)
      BY VanishStep
    <2>3. Dated(run.next) /\ Dated(i)
      BY <2>2 DEF Inv, HistoryInv, IsLast
    <2>4. clock - i.wall >= Grace - MaxSkew
      BY <2>1, <2>2, <2>3, GCAssumption DEF Dated, IsLast, Inv, TypeOK, Record
    <2> QED BY <2>1, <2>4
  <1> QED BY Invariance, <1>1, PTL DEF Spec, WallGraceHonoured

-----------------------------------------------------------------------------
\* What a run does to the abstract verdict.
LEMMA PreviousUnchanged ==
    ASSUME Inv, [Next]_vars, ~ SaveGC
    PROVE  Previous(records)' = Previous(records)
  <1> USE DEF Inv
  <1>1. UNCHANGED records \/ \E r \in run.oldLeft : DeleteOldRecord(r)
    BY DEF Next, vars, registry, Tick, Push, ListTags, FetchSegments, MakePlan, MapVersions,
           CheckDigests, DeleteSegment, Finish, Fail
  <1>2. CASE UNCHANGED records
    BY <1>2 DEF Previous, Newest
  <1>3. ASSUME NEW r \in run.oldLeft, DeleteOldRecord(r)
        PROVE  Previous(records)' = Previous(records)
    <2>1. PICK n \in records : n = run.next /\ IsLast(n) /\ n # r
      BY <1>3 DEF DeleteOldRecord, RunInv
    <2>2. records' = records \ {r}
      BY <1>3 DEF DeleteOldRecord
    <2>3. Newest(records) = n
      BY <2>1, NewestIs DEF IsLast, HistoryInv, TypeOK, Record
    <2>4. Newest(records \ {r}) = n
      <3>1. /\ n \in records \ {r}
            /\ \A q \in records \ {r} : q.at \in Nat /\ q.at <= n.at
            /\ \A p, q \in records \ {r} : p.at = q.at => p = q
        BY <2>1 DEF IsLast, HistoryInv, TypeOK, Record
      <3> QED BY <3>1, NewestIs
    <2> QED BY <2>1, <2>2, <2>3, <2>4 DEF Previous
  <1> QED BY <1>1, <1>2, <1>3

\* Saving a record makes it the verdict in force.
LEMMA PreviousSaved ==
    ASSUME Inv, SaveGC, NEW n, n = run.next
    PROVE  Previous(records)' = n
  <1>1. /\ records' = records \union {n}
        /\ n \in Record
        /\ \A q \in journal : q.at < n.at
    BY DEF SaveGC, Inv, RunInv, PlanInv, TypeOK, Run
  <1>2. \A r \in records' : r.at \in Nat /\ r.at <= n.at
    BY <1>1 DEF Inv, HistoryInv, TypeOK, Record
  <1>3. \A p, q \in records' : p.at = q.at => p = q
    BY <1>1 DEF Inv, HistoryInv, TypeOK, Record
  <1>4. Newest(records') = n
    BY <1>1, <1>2, <1>3, NewestIs
  <1> QED BY <1>1, <1>4 DEF Previous, Newest

\* The protocol implements the abstract promise of a grace period: saving a record
\* passes the verdict, deleting a segment is the abstract deletion, and every
\* other step of a run, its failures included, is invisible.
THEOREM RunsImplementGracePeriod == Spec => ImplementsGracePeriod
  <1>1. Init => Promise!Init
    BY DEF Init, Promise!Init, Promise!NotListed, Previous, NoRecord, NotListed, NoTags
  <1>2. Inv /\ [Next]_vars => [Promise!Next]_(Promise!vars)
    <2> SUFFICES ASSUME Inv, [Next]_vars PROVE [Promise!Next]_(Promise!vars)
      OBVIOUS
    <2> USE DEF Promise!Next, Promise!vars
    <2>1. CASE SaveGC
      <3>1. PICK n \in Record : n = run.next
        BY DEF Inv, TypeOK, Run
      <3>2. Previous(records)' = n
        BY <2>1, <3>1, PreviousSaved
      <3>3. /\ PlanInv
            /\ UNCHANGED tagged
        BY <2>1 DEF SaveGC, Inv, RunInv
      <3>4. /\ Previous(records) \in Record
            /\ records = {} => Previous(records).at = 0
            /\ records # {} => IsLast(Previous(records))
        BY PreviousIs DEF Inv, NoRecord
      <3>5. n.at > Previous(records).at
        BY <3>1, <3>3, <3>4 DEF PlanInv, IsLast
      <3>6. ASSUME NEW t \in Tag
            PROVE  \/ n.cand[t].ver = 0
                   \/ n.cand[t].ver # 0 /\ n.cand[t].since = n.at
                   \/ n.cand[t].ver # 0 /\ n.cand[t] = Previous(records).cand[t]
        <4>1. ASSUME NEW p \in records, IsLast(p) PROVE p = Previous(records)
          BY <3>4, <4>1, PreviousIs DEF Inv, HistoryInv, IsLast, TypeOK, Record
        <4> QED BY <3>1, <3>3, <4>1 DEF PlanInv, Lists
      <3>7. Promise!PassVerdict
        BY <3>2, <3>3, <3>4, <3>5, <3>6 DEF Promise!PassVerdict, Record, Verdict
      <3> QED BY <3>7
    <2>2. CASE ~ SaveGC
      <3>1. Previous(records)' = Previous(records)
        BY <2>2, PreviousUnchanged
      <3>2. \/ UNCHANGED tagged
            \/ \E t \in Tag : Push(t)
            \/ \E t \in Tag : Vanishes(t)
        <4>1. \/ UNCHANGED tagged
              \/ \E t \in Tag : Push(t)
              \/ \E t \in run.left : DeleteSegment(t)
          BY <2>2 DEF Next, vars, registry, Tick, ListTags, FetchSegments, MakePlan,
                      MapVersions, CheckDigests, DeleteOldRecord, Finish, Fail
        <4>2. ASSUME NEW t \in run.left, DeleteSegment(t), ~ UNCHANGED tagged
              PROVE  \E u \in Tag : Vanishes(u)
          BY <4>2 DEF DeleteSegment, Vanishes, Inv, TypeOK
        <4> QED BY <4>1, <4>2
      <3>3. ASSUME NEW t \in Tag, Push(t) PROVE Promise!Publish(t)
        <4>1. PICK v \in Nat : v = versions + 1 /\ v # 0
          BY DEF Inv, TypeOK
        <4>2. tagged' = [tagged EXCEPT ![t] = v]
          BY <3>3, <4>1 DEF Push
        <4>3. tagged'[t] = v
          BY <4>2 DEF Inv, TypeOK
        <4>4. \A u \in Tag : tagged[u] # v
          BY <4>1 DEF Inv, TypeOK, RegistryInv
        <4>5. UNCHANGED <<Previous(records).at, Previous(records).cand>>
          BY <3>1
        <4> QED BY <4>1, <4>2, <4>3, <4>4, <4>5 DEF Promise!Publish
      <3>4. ASSUME NEW t \in Tag, Vanishes(t) PROVE Promise!Delete(t)
        <4>1. /\ IsLast(run.next) /\ run.next \in records
              /\ run.next.cand[t].ver = tagged[t]
              /\ run.next.at - run.next.cand[t].since >= Grace
              /\ tagged' = [tagged EXCEPT ![t] = 0]
          BY <3>4, VanishStep
        <4>2. Previous(records) = run.next
          <5>1. Previous(records) \in records /\ IsLast(Previous(records))
            BY <4>1, PreviousIs DEF Inv
          <5> QED BY <4>1, <5>1 DEF Inv, HistoryInv, IsLast, TypeOK, Record
        <4> QED BY <3>1, <3>4, <4>1, <4>2 DEF Promise!Delete, Vanishes
      <3> QED BY <3>1, <3>2, <3>3, <3>4
    <2> QED BY <2>1, <2>2
  <1> QED BY Invariance, <1>1, <1>2, PTL DEF Spec, ImplementsGracePeriod, Promise!Spec
====
