----------------------- MODULE NixcacheRetentionProofs -----------------------
(***************************************************************************)
(* Proofs about root protection, for every cache, roots and retention.     *)
(*                                                                         *)
(* Segments are closed under references, and a prune run deletes whole     *)
(* segments, so the worklist never runs out of providers (WalkInv).  When  *)
(* it is empty, what was visited contains the cached roots and follows     *)
(* references: it covers their closure, and all its providers are          *)
(* protected (Saved), which no deletion of the run disturbs.               *)
(*                                                                         *)
(* The second half is about retention: what a run gives up is superseded   *)
(* by something that stays, and a run that fails half way leaves a         *)
(* registry on which the next one decides alike.  Both rest on two facts.  *)
(* The newest segment of a kept snapshot, and the newest of each package   *)
(* in it, are retained (NewestRetained, NewestOfGroupRetained).  And of    *)
(* the segments newer than a given one, either fewer than PackageKeep      *)
(* exist or PackageKeep are retained (NewestFew).                          *)
(***************************************************************************)
EXTENDS NixcacheRetention, TLAPS, FiniteSetTheorems

\* The providers of the closure in system y are protected.
Saved(y) == \A p \in Reachable(run.seg, y, run.roots[y]) :
               /\ p \in Provided(run.seg, y)
               /\ Provider(run.seg, y, p) \in run.protected

\* The worklist: everything it holds has a provider, and what was visited lacks
\* only what is pending.
WalkInv == run.pc = "walk" =>
    /\ run.at \notin run.todo
    /\ run.pending \union run.visited \subseteq Provided(run.seg, run.at)
    /\ run.roots[run.at] \intersect Provided(run.seg, run.at)
          \subseteq run.pending \union run.visited
    /\ \A p \in run.visited :
          /\ References(run.seg, run.at, p) \subseteq run.pending \union run.visited
          /\ Provider(run.seg, run.at, p) \in run.protected

\* The systems that were walked.
Done == System \ (run.todo \union (IF run.pc = "walk" THEN {run.at} ELSE {}))

RunInv == run.pc # "idle" =>
    /\ run.pc # "delete" => run.seg \subseteq present /\ run.left = {}
    /\ run.pc = "delete" => run.todo = {}
    /\ run.protected \subseteq present
    /\ run.protected \intersect run.left = {}
    /\ \A y \in Done : Saved(y)

Inv == TypeOK /\ WalkInv /\ RunInv

-----------------------------------------------------------------------------
\* The newest of some segments is one of them.
LEMMA NewestIn ==
    ASSUME NEW S \in SUBSET Segment, S # {}
    PROVE  Newest(S) \in S
  <1>1. \E s \in S : \A t \in S : Age[t] <= Age[s]
    BY RetentionAssumption
  <1> QED BY <1>1 DEF Newest

\* A path that is provided has a provider, which has the references of the path
\* as well.
LEMMA ProviderFacts ==
    ASSUME NEW S \in SUBSET Segment, NEW y, NEW p \in Provided(S, y)
    PROVE  /\ Provider(S, y, p) \in S
           /\ References(S, y, p) \subseteq Provided(S, y)
  <1> DEFINE s == Provider(S, y, p)
  <1>1. Providers(S, y, p) \in SUBSET Segment /\ Providers(S, y, p) # {}
    BY DEF Provided, Providers
  <1>2. s \in Providers(S, y, p)
    BY <1>1, NewestIn DEF Provider
  <1>3. s \in S /\ s \in Segment /\ SystemOf[s] = y /\ p \in DOMAIN Entries[s]
    BY <1>2 DEF Providers
  <1>4. Entries[s][p] \subseteq DOMAIN Entries[s] /\ DOMAIN Entries[s] \subseteq Path
    BY <1>3, RetentionAssumption
  <1>5. \A q \in Entries[s][p] : q \in Path /\ s \in Providers(S, y, q)
    BY <1>3, <1>4 DEF Providers
  <1>6. \A q \in Entries[s][p] : q \in Provided(S, y)
    BY <1>5 DEF Provided
  <1> QED BY <1>3, <1>6 DEF References

\* A set of paths with the cached roots and the references of its paths has the
\* whole closure.
LEMMA ReachableWithin ==
    ASSUME NEW S, NEW y, NEW R, NEW P \in SUBSET Path,
           R \intersect Provided(S, y) \subseteq P,
           \A p \in P : References(S, y, p) \subseteq P
    PROVE  Reachable(S, y, R) \subseteq P
  <1>1. Follows(S, y, P)
    BY DEF Follows
  <1> QED BY <1>1 DEF Reachable

LEMMA NoRunType == NoRun \in Run
  <1>1. (CHOOSE y \in System : TRUE) \in System
    BY RetentionAssumption
  <1> QED BY <1>1 DEF NoRun, Run, Phase

\* A step that ends the run keeps the invariant.
LEMMA EndStep ==
    ASSUME TypeOK, run' = NoRun, UNCHANGED <<fresh, present>>
    PROVE  Inv'
  <1>1. NoRun.pc = "idle" /\ NoRun.seg = {} /\ NoRun.left = {}
    BY DEF NoRun
  <1>2. TypeOK'
    BY <1>1, NoRunType DEF TypeOK
  <1>3. WalkInv' /\ RunInv'
    BY <1>1 DEF WalkInv, RunInv
  <1> QED BY <1>2, <1>3 DEF Inv

-----------------------------------------------------------------------------
THEOREM InitInv == Init => Inv
  <1> SUFFICES ASSUME Init PROVE Inv
    OBVIOUS
  <1>1. NoRun.pc = "idle" /\ NoRun.seg = {} /\ NoRun.left = {}
    BY DEF NoRun
  <1>2. TypeOK
    BY <1>1, NoRunType DEF Init, TypeOK
  <1> QED BY <1>1, <1>2 DEF Init, Inv, WalkInv, RunInv

LEMMA PushStep ==
    ASSUME Inv, NEW s \in Segment, Push(s)
    PROVE  Inv'
  <1> USE DEF Inv, Push
  <1>1. TypeOK'
    BY DEF TypeOK
  <1>2. run' = run /\ present \subseteq present'
    OBVIOUS
  <1>3. WalkInv'
    BY <1>2 DEF WalkInv
  <1>4. Done' = Done /\ \A y : Saved(y)' <=> Saved(y)
    BY <1>2 DEF Done, Saved
  <1>5. RunInv'
    BY <1>2, <1>4 DEF RunInv
  <1> QED BY <1>1, <1>3, <1>5

LEMMA StartStep ==
    ASSUME Inv, NEW roots \in Roots, Start(roots)
    PROVE  Inv'
  <1> USE DEF Inv, Start
  <1>1. roots \in [System -> SUBSET Path] /\ present \in SUBSET Segment
    BY RetentionAssumption DEF TypeOK
  <1>2. run' = [NoRun EXCEPT !.pc = "roots", !.seg = present, !.roots = roots, !.todo = System]
    OBVIOUS
  <1>3. run' \in Run
    BY <1>1, <1>2, NoRunType DEF Run, Phase
  <1>4. /\ run'.pc = "roots" /\ run'.seg = present /\ run'.todo = System
        /\ run'.left = {} /\ run'.protected = {}
    BY <1>2 DEF NoRun
  <1>5. TypeOK'
    BY <1>3, <1>4 DEF TypeOK
  <1>6. WalkInv'
    BY <1>4 DEF WalkInv
  <1>7. Done' = {}
    BY <1>4 DEF Done
  <1>8. RunInv'
    BY <1>4, <1>7 DEF RunInv
  <1> QED BY <1>5, <1>6, <1>8

\* What the walk of one system leaves alone in a system that is done.
LEMMA SavedStays ==
    ASSUME NEW y, Saved(y), run'.seg = run.seg, run'.roots = run.roots,
           run.protected \subseteq run'.protected
    PROVE  Saved(y)'
  BY DEF Saved

LEMMA SeedStep ==
    ASSUME Inv, NEW y \in System, Seed(y)
    PROVE  Inv'
  <1> USE DEF Inv
  <1>0. run \in Run
    BY DEF TypeOK
  <1>1. /\ run' = [run EXCEPT !.pc = "walk", !.todo = run.todo \ {y}, !.at = y,
                     !.pending = run.roots[y] \intersect Provided(run.seg, y), !.visited = {}]
        /\ run.pc = "roots" /\ y \in run.todo
        /\ UNCHANGED <<fresh, present>>
    BY DEF Seed
  <1>2. run' \in Run
    <2>1. run.roots[y] \intersect Provided(run.seg, y) \subseteq Path
      BY DEF Provided
    <2>2. run.todo \ {y} \in SUBSET System
      BY <1>0 DEF Run
    <2> DEFINE seeds == run.roots[y] \intersect Provided(run.seg, y)
               rest == run.todo \ {y}
    <2>3. seeds \in SUBSET Path /\ rest \in SUBSET System
      BY <2>1, <2>2
    <2>4. run' = [run EXCEPT !.pc = "walk", !.todo = rest, !.at = y, !.pending = seeds, !.visited = {}]
      BY <1>1
    <2> HIDE DEF seeds, rest
    <2> QED BY <1>0, <2>3, <2>4 DEF Run, Phase
  <1>3. /\ run'.pc = "walk" /\ run'.seg = run.seg /\ run'.roots = run.roots
        /\ run'.todo = run.todo \ {y} /\ run'.at = y /\ run'.visited = {}
        /\ run'.pending = run.roots[y] \intersect Provided(run.seg, y)
        /\ run'.protected = run.protected /\ run'.left = run.left
    BY <1>0, <1>1 DEF Run
  <1>4. TypeOK'
    BY <1>1, <1>2, <1>3 DEF TypeOK
  <1>5. WalkInv'
    BY <1>3 DEF WalkInv
  <1>6. Done' = Done
    BY <1>1, <1>3 DEF Done
  <1>7. \A z \in Done' : Saved(z)'
    BY <1>1, <1>3, <1>6, SavedStays DEF RunInv
  <1>8. RunInv'
    BY <1>1, <1>3, <1>7 DEF RunInv
  <1> QED BY <1>4, <1>5, <1>8

LEMMA VisitStep ==
    ASSUME Inv, NEW p \in Path, Visit(p)
    PROVE  Inv'
  <1> USE DEF Inv
  <1> DEFINE y == run.at
             more == References(run.seg, y, p)
  <1>0. /\ run \in Run /\ run.pc = "walk" /\ p \in run.pending
        /\ run.seg \in SUBSET Segment
        /\ p \in Provided(run.seg, y)
    BY DEF TypeOK, Visit, WalkInv, Run
  <1>1. CASE p \in run.visited
    <2>1. /\ run' = [run EXCEPT !.pending = run.pending \ {p}]
          /\ UNCHANGED <<fresh, present>>
      BY <1>1 DEF Visit
    <2>2. run' \in Run
      BY <1>0, <2>1 DEF Run
    <2>3. /\ run'.pc = run.pc /\ run'.seg = run.seg /\ run'.roots = run.roots
          /\ run'.todo = run.todo /\ run'.at = run.at /\ run'.visited = run.visited
          /\ run'.protected = run.protected /\ run'.left = run.left
          /\ run'.pending = run.pending \ {p}
      BY <1>0, <2>1 DEF Run
    <2>4. TypeOK'
      BY <2>1, <2>2, <2>3 DEF TypeOK
    <2>5. run'.pending \union run'.visited = run.pending \union run.visited
      BY <1>1, <2>3
    <2>6. WalkInv'
      BY <2>3, <2>5 DEF WalkInv
    <2>7. Done' = Done /\ \A z : Saved(z)' <=> Saved(z)
      BY <2>3 DEF Done, Saved
    <2>8. RunInv'
      BY <2>1, <2>3, <2>7 DEF RunInv
    <2> QED BY <2>4, <2>6, <2>8
  <1>2. CASE p \notin run.visited
    <2>1. /\ run' = [run EXCEPT !.pending = (run.pending \ {p}) \union more,
                                !.visited = run.visited \union {p},
                                !.protected = run.protected \union {Provider(run.seg, y, p)}]
          /\ UNCHANGED <<fresh, present>>
      BY <1>0, <1>2 DEF Visit
    <2>2. Provider(run.seg, y, p) \in run.seg /\ more \subseteq Provided(run.seg, y)
      BY <1>0, ProviderFacts
    <2>3. more \subseteq Path
      BY <2>2 DEF Provided
    <2>4. run' \in Run
      BY <1>0, <2>1, <2>2, <2>3 DEF Run
    <2>5. /\ run'.pc = "walk" /\ run'.seg = run.seg /\ run'.roots = run.roots
          /\ run'.todo = run.todo /\ run'.at = run.at /\ run'.left = run.left
          /\ run'.visited = run.visited \union {p}
          /\ run'.protected = run.protected \union {Provider(run.seg, y, p)}
          /\ run'.pending = (run.pending \ {p}) \union more
      BY <1>0, <2>1 DEF Run
    <2>6. TypeOK'
      BY <2>1, <2>4, <2>5 DEF TypeOK
    <2>7. run'.pending \union run'.visited = run.pending \union run.visited \union more
      BY <1>0, <2>5
    <2>8. \A q \in run'.visited :
             /\ References(run.seg, y, q) \subseteq run'.pending \union run'.visited
             /\ Provider(run.seg, y, q) \in run'.protected
      BY <1>0, <2>5, <2>7 DEF WalkInv
    <2>9. WalkInv'
      <3>1. run'.pending \union run'.visited \subseteq Provided(run.seg, y)
        BY <1>0, <2>2, <2>7 DEF WalkInv
      <3>2. run.roots[y] \intersect Provided(run.seg, y) \subseteq run'.pending \union run'.visited
        BY <1>0, <2>7 DEF WalkInv
      <3> QED BY <1>0, <2>5, <2>8, <3>1, <3>2 DEF WalkInv
    <2>10. Done' = Done /\ \A z \in Done : Saved(z)'
      BY <1>0, <2>5, SavedStays DEF Done, RunInv
    <2>11. Provider(run.seg, y, p) \in present /\ Provider(run.seg, y, p) \notin run.left
      <3>1. run.left = {}
        BY <1>0 DEF RunInv
      <3> QED BY <1>0, <2>2, <3>1 DEF RunInv
    <2>12. RunInv'
      BY <1>0, <2>1, <2>5, <2>10, <2>11 DEF RunInv
    <2> QED BY <2>6, <2>9, <2>12
  <1> QED BY <1>1, <1>2

\* When the worklist is empty, the closure of the system was visited.
LEMMA WalkedStep ==
    ASSUME Inv, Walked
    PROVE  Inv'
  <1> USE DEF Inv
  <1> DEFINE y == run.at
  <1>0. /\ run \in Run /\ run.pc = "walk" /\ run.pending = {}
        /\ run' = [run EXCEPT !.pc = "roots"]
        /\ UNCHANGED <<fresh, present>>
    BY DEF TypeOK, Walked
  <1>1. run' \in Run
    BY <1>0 DEF Run, Phase
  <1>2. /\ run'.pc = "roots" /\ run'.seg = run.seg /\ run'.roots = run.roots
        /\ run'.todo = run.todo /\ run'.protected = run.protected /\ run'.left = run.left
    BY <1>0 DEF Run
  <1>3. TypeOK'
    BY <1>0, <1>1, <1>2 DEF TypeOK
  <1>4. WalkInv'
    BY <1>2 DEF WalkInv
  <1>5. Reachable(run.seg, y, run.roots[y]) \subseteq run.visited
    <2>1. run.visited \in SUBSET Path
      BY <1>0 DEF Run
    <2>2. /\ run.roots[y] \intersect Provided(run.seg, y) \subseteq run.visited
          /\ \A p \in run.visited : References(run.seg, y, p) \subseteq run.visited
      BY <1>0 DEF WalkInv
    <2> QED BY <2>1, <2>2, ReachableWithin
  <1>6. Saved(y)
    BY <1>0, <1>5 DEF Saved, WalkInv
  <1>7. \A z \in Done' : z = y \/ z \in Done
    BY <1>0, <1>2 DEF Done
  <1>8. \A z \in Done' : Saved(z)
    BY <1>0, <1>6, <1>7 DEF RunInv
  <1>9. \A z \in Done' : Saved(z)'
    BY <1>2, <1>8, SavedStays
  <1>10. RunInv'
    BY <1>0, <1>2, <1>9 DEF RunInv
  <1> QED BY <1>3, <1>4, <1>10

LEMMA PlanStep ==
    ASSUME Inv, NEW kept \in [System -> SUBSET Snapshot], NEW doomed \in SUBSET run.seg,
           Plan(kept, doomed)
    PROVE  Inv'
  <1> USE DEF Inv
  <1>0. /\ run \in Run /\ run.pc = "roots" /\ run.todo = {}
        /\ doomed \intersect run.protected = {}
        /\ run' = [run EXCEPT !.pc = "delete", !.kept = kept, !.left = doomed]
        /\ UNCHANGED <<fresh, present>>
    BY DEF TypeOK, Plan, Candidates
  <1>1. run.seg \subseteq present /\ doomed \in SUBSET Segment
    BY <1>0 DEF RunInv, Run
  <1>2. run' \in Run
    BY <1>0, <1>1 DEF Run, Phase
  <1>3. /\ run'.pc = "delete" /\ run'.seg = run.seg /\ run'.roots = run.roots
        /\ run'.todo = run.todo /\ run'.protected = run.protected /\ run'.left = doomed
    BY <1>0 DEF Run
  <1>4. TypeOK'
    BY <1>0, <1>1, <1>2, <1>3 DEF TypeOK
  <1>5. WalkInv'
    BY <1>3 DEF WalkInv
  <1>6. Done' = Done
    BY <1>0, <1>3 DEF Done
  <1>7. \A z \in Done' : Saved(z)'
    BY <1>0, <1>3, <1>6, SavedStays DEF RunInv
  <1>8. RunInv'
    BY <1>0, <1>3, <1>7 DEF RunInv
  <1> QED BY <1>4, <1>5, <1>8

LEMMA DeleteStep ==
    ASSUME Inv, NEW s \in Segment, Delete(s)
    PROVE  Inv'
  <1> USE DEF Inv
  <1>0. /\ run \in Run /\ run.pc = "delete" /\ s \in run.left
        /\ present' = present \ {s} /\ fresh' = fresh
        /\ run' = [run EXCEPT !.left = run.left \ {s}]
    BY DEF TypeOK, Delete
  <1>1. run' \in Run
    BY <1>0 DEF Run
  <1>2. /\ run'.pc = "delete" /\ run'.seg = run.seg /\ run'.roots = run.roots
        /\ run'.todo = run.todo /\ run'.protected = run.protected
        /\ run'.left = run.left \ {s}
    BY <1>0 DEF Run
  <1>3. TypeOK'
    BY <1>0, <1>1, <1>2 DEF TypeOK
  <1>4. WalkInv'
    BY <1>2 DEF WalkInv
  <1>5. Done' = Done
    BY <1>0, <1>2 DEF Done
  <1>6. \A z \in Done' : Saved(z)'
    BY <1>0, <1>2, <1>5, SavedStays DEF RunInv
  <1>7. run'.protected \subseteq present'
    BY <1>0, <1>2 DEF RunInv
  <1>8. RunInv'
    BY <1>0, <1>2, <1>6, <1>7 DEF RunInv
  <1> QED BY <1>3, <1>4, <1>8

\* Every step keeps the invariant.
THEOREM NextInv == Inv /\ [Next]_vars => Inv'
  <1> SUFFICES ASSUME Inv, [Next]_vars PROVE Inv'
    OBVIOUS
  <1>1. ASSUME NEW s \in Segment, Push(s) PROVE Inv'
    BY <1>1, PushStep
  <1>2. ASSUME NEW roots \in Roots, Start(roots) PROVE Inv'
    BY <1>2, StartStep
  <1>3. ASSUME NEW y \in System, Seed(y) PROVE Inv'
    BY <1>3, SeedStep
  <1>4. ASSUME NEW p \in Path, Visit(p) PROVE Inv'
    BY <1>4, VisitStep
  <1>5. CASE Walked
    BY <1>5, WalkedStep
  <1>6. ASSUME NEW kept \in [System -> SUBSET Snapshot], NEW doomed \in SUBSET run.seg,
               Plan(kept, doomed)
        PROVE  Inv'
    BY <1>6, PlanStep
  <1>7. ASSUME NEW s \in Segment, Delete(s) PROVE Inv'
    BY <1>7, DeleteStep
  <1>8. CASE End
    BY <1>8, EndStep DEF End, Inv
  <1>9. CASE UNCHANGED vars
    <2>1. fresh' = fresh /\ present' = present /\ run' = run
      BY <1>9 DEF vars
    <2>2. TypeOK' /\ WalkInv'
      BY <2>1 DEF Inv, TypeOK, WalkInv
    <2>3. Done' = Done /\ \A z : Saved(z)' <=> Saved(z)
      BY <2>1 DEF Done, Saved
    <2>4. RunInv'
      BY <2>1, <2>3 DEF Inv, RunInv
    <2> QED BY <2>2, <2>4 DEF Inv
  <1> QED BY <1>1, <1>2, <1>3, <1>4, <1>5, <1>6, <1>7, <1>8, <1>9 DEF Next

\* Inv holds in every reachable state: the walk keeps its books, and the
\* segments of every closure that was walked stay.
THEOREM RetentionInvariance == Spec => []Inv
  <1> QED BY InitInv, NextInv, PTL DEF Spec

\* The variables have their types; a deletion is of a segment that was fetched
\* and is present.
THEOREM RetentionTypes == Spec => []TypeOK
  <1>1. Inv => TypeOK
    BY DEF Inv
  <1> QED BY <1>1, RetentionInvariance, PTL

\* No run ends with "cached root closure is incomplete".
THEOREM ClosureIsComplete == Spec => []ClosureComplete
  <1>1. Inv => ClosureComplete
    BY DEF Inv, WalkInv, ClosureComplete
  <1> QED BY <1>1, RetentionInvariance, PTL

\* Prune never deletes the segment that serves a path of a cached root closure.
THEOREM RootsAreServed == Spec => []RootsServed
  <1>1. ASSUME Inv PROVE RootsServed
    <2> SUFFICES ASSUME run.pc = "delete", NEW y \in System,
                        NEW p \in Reachable(run.seg, y, run.roots[y])
                 PROVE  p \in Provided(run.seg, y) /\ Provider(run.seg, y, p) \in present
      BY DEF RootsServed
    <2>1. y \in Done /\ run.protected \subseteq present /\ \A z \in Done : Saved(z)
      BY <1>1 DEF Inv, RunInv, Done
    <2> QED BY <2>1 DEF Saved
  <1> QED BY <1>1, RetentionInvariance, PTL

-----------------------------------------------------------------------------
\* Retention: what stays when a run deletes what it decided to.
Retained(S, kept) == S \ ToDelete(S, kept)

\* What a run knows while it deletes: the snapshots it kept are a choice
\* keptSnapshots may make, and all that it retains is still there.
Verdicts == run.pc = "delete" =>
    /\ \A y \in System : run.kept[y] \in KeptChoices(run.seg, y)
    /\ run.left \subseteq ToDelete(run.seg, run.kept)
    /\ Retained(run.seg, run.kept) \subseteq present

Finite == IsFiniteSet(present) /\ IsFiniteSet(run.seg)

History == Inv /\ Finite /\ Verdicts /\ DeletedSuperseded

-----------------------------------------------------------------------------
\* The newest of some segments, and when it is known.
LEMMA NewestIs ==
    ASSUME NEW S \in SUBSET Segment, NEW m \in S, \A t \in S : Age[t] <= Age[m]
    PROVE  Newest(S) = m
  <1>1. Newest(S) \in S /\ \A t \in S : Age[t] <= Age[Newest(S)]
    BY DEF Newest
  <1>2. Age[m] <= Age[Newest(S)] /\ Age[Newest(S)] <= Age[m]
    BY <1>1
  <1>3. Age[m] \in Nat /\ Age[Newest(S)] \in Nat
    BY <1>1, RetentionAssumption
  <1>4. Age[m] = Age[Newest(S)]
    BY <1>2, <1>3
  <1> QED BY <1>1, <1>4, RetentionAssumption

LEMMA NewestOf ==
    ASSUME NEW S \in SUBSET Segment, S # {}
    PROVE  Newest(S) \in S /\ \A t \in S : Age[t] <= Age[Newest(S)]
  <1>1. \E s \in S : \A t \in S : Age[t] <= Age[s]
    BY RetentionAssumption
  <1> QED BY <1>1 DEF Newest

\* Segments are created in the order of their age.
LEMMA OlderCreated ==
    ASSUME NEW s \in Segment, NEW t \in Segment, Age[s] <= Age[t]
    PROVE  CreatedAt[s] <= CreatedAt[t]
  <1>1. Age[s] \in Nat /\ Age[t] \in Nat /\ CreatedAt[s] \in Nat /\ CreatedAt[t] \in Nat
    BY RetentionAssumption
  <1>2. CreatedAt[t] < CreatedAt[s] => Age[t] < Age[s]
    BY RetentionAssumption
  <1> QED BY <1>1, <1>2

\* A finite set without as many elements as a number has fewer, and a subset
\* has no more.
LEMMA Fewer ==
    ASSUME NEW T, IsFiniteSet(T), NEW S \in SUBSET T
    PROVE  /\ IsFiniteSet(S)
           /\ Cardinality(S) \in Nat /\ Cardinality(T) \in Nat
           /\ Cardinality(S) <= Cardinality(T)
           /\ Cardinality(S) = Cardinality(T) => S = T
  BY FS_Subset, FS_CardinalityType

LEMMA FewerGroups ==
    ASSUME NEW S \in SUBSET Segment, IsFiniteSet(S), NEW s
    PROVE  /\ Newer(S, s) \in SUBSET Segment
           /\ IsFiniteSet(Newer(S, s)) /\ Cardinality(Newer(S, s)) \in Nat
  <1>1. Newer(S, s) \in SUBSET S
    BY DEF Newer, Group
  <1> QED BY <1>1, Fewer

\* If PackageKeep segments of its group are newer than s, then the newest
\* PackageKeep of them are.
LEMMA NewestFew ==
    ASSUME NEW S \in SUBSET Segment, IsFiniteSet(S), NEW s \in Segment,
           Cardinality(Newer(S, s)) >= PackageKeep
    PROVE  LET T == {t \in Newer(S, s) : Cardinality(Newer(S, t)) < PackageKeep}
           IN  IsFiniteSet(T) /\ Cardinality(T) >= PackageKeep
  <1> DEFINE N == Newer(S, s)
             T == {t \in N : Cardinality(Newer(S, t)) < PackageKeep}
  <1>0. PackageKeep \in Nat /\ \A t \in Segment : Age[t] \in Nat
    BY RetentionAssumption
  <1>1. N \in SUBSET Segment /\ IsFiniteSet(N) /\ Cardinality(N) \in Nat
    BY FewerGroups
  <1>2. /\ IsFiniteSet(T) /\ Cardinality(T) \in Nat
        /\ Cardinality(T) = Cardinality(N) => T = N
    <2>1. T \in SUBSET N
      OBVIOUS
    <2> QED BY <1>1, <2>1, Fewer
  <1>3. ASSUME Cardinality(T) < PackageKeep PROVE FALSE
    <2> DEFINE rest == N \ T
               m == Newest(rest)
    <2>1. rest # {}
      <3>1. T # N
        BY <1>0, <1>1, <1>2, <1>3
      <3> QED BY <3>1
    <2>2. m \in rest /\ \A t \in rest : Age[t] <= Age[m]
      <3>1. rest \in SUBSET Segment
        BY <1>1
      <3> HIDE DEF rest
      <3> QED BY <2>1, <3>1, NewestOf
    <2>3. m \in N /\ m \in Segment
      BY <1>1, <2>2
    <2>4. ASSUME NEW t \in Newer(S, m) PROVE t \in T
      <3>1. t \in Group(S, m) /\ m \in Group(S, s) /\ Age[t] > Age[m] /\ Age[m] > Age[s]
        BY <2>3, <2>4 DEF Newer
      <3>2. t \in Group(S, s) /\ t \in Segment
        BY <3>1 DEF Group
      <3>3. Age[t] > Age[s] /\ ~ (Age[t] <= Age[m])
        BY <1>0, <2>3, <3>1, <3>2
      <3>4. t \in N
        BY <3>2, <3>3 DEF Newer
      <3> QED BY <2>2, <3>3, <3>4
    <2>5. Cardinality(Newer(S, m)) <= Cardinality(T) /\ Cardinality(Newer(S, m)) \in Nat
      <3>1. Newer(S, m) \in SUBSET T
        BY <2>4
      <3> QED BY <1>2, <3>1, Fewer
    <2>6. m \in T
      BY <1>0, <1>2, <1>3, <2>3, <2>5
    <2> QED BY <2>2, <2>6
  <1> QED BY <1>0, <1>2, <1>3

-----------------------------------------------------------------------------
\* A segment of a kept snapshot is retained unless its group has PackageKeep
\* newer ones and it is out of the window.
LEMMA RetainedIf ==
    ASSUME NEW S, NEW kept, NEW s \in S, SnapshotOf[s] \in kept[SystemOf[s]],
           PackageOf[s] = NoPackage \/ Recent(S, s)
    PROVE  s \in Retained(S, kept)
  BY DEF Retained, ToDelete

LEMMA WithoutNewer ==
    ASSUME NEW S \in SUBSET Segment, NEW s, Newer(S, s) = {}
    PROVE  Recent(S, s)
  <1>1. Cardinality(Newer(S, s)) = 0
    BY FS_EmptySet
  <1>2. PackageKeep \in Nat \ {0}
    BY RetentionAssumption
  <1>3. Cardinality(Newer(S, s)) < PackageKeep
    BY <1>1, <1>2
  <1> QED BY <1>3 DEF Recent

\* The newest segment of a kept snapshot is retained.
LEMMA NewestRetained ==
    ASSUME NEW S \in SUBSET Segment, NEW kept, NEW y, NEW n \in kept[y],
           Members(S, y, n) # {}
    PROVE  /\ Newest(Members(S, y, n)) \in Retained(S, kept)
           /\ Newest(Members(S, y, n)) \in Members(S, y, n)
  <1> DEFINE M == Members(S, y, n)
             m == Newest(M)
  <1>1. M \in SUBSET Segment /\ M # {}
    BY DEF Members
  <1>2. m \in M /\ \A t \in M : Age[t] <= Age[m]
    <2> HIDE DEF M
    <2> QED BY <1>1, NewestOf
  <1>3. m \in S /\ m \in Segment /\ SystemOf[m] = y /\ SnapshotOf[m] = n
    BY <1>2 DEF Members
  <1>4. Newer(S, m) = {}
    <2> SUFFICES ASSUME NEW t \in Newer(S, m) PROVE FALSE
      OBVIOUS
    <2>1. t \in M /\ t \in Segment /\ Age[t] > Age[m]
      BY <1>3 DEF Newer, Group, Members
    <2>2. Age[t] \in Nat /\ Age[m] \in Nat
      BY <1>3, <2>1, RetentionAssumption
    <2> QED BY <1>2, <2>1, <2>2
  <1> QED BY <1>2, <1>3, <1>4, WithoutNewer, RetainedIf

\* So is the newest segment of a package in a kept snapshot.
LEMMA NewestOfGroupRetained ==
    ASSUME NEW S \in SUBSET Segment, NEW kept, NEW s \in S,
           SnapshotOf[s] \in kept[SystemOf[s]]
    PROVE  /\ Newest(Group(S, s)) \in Retained(S, kept)
           /\ Newest(Group(S, s)) \in Group(S, s)
           /\ \A t \in Group(S, s) : Age[t] <= Age[Newest(Group(S, s))]
  <1> DEFINE G == Group(S, s)
             m == Newest(G)
  <1>1. G \in SUBSET Segment /\ s \in G
    BY DEF Group
  <1>2. m \in G /\ \A t \in G : Age[t] <= Age[m]
    <2>1. G # {}
      BY <1>1
    <2> HIDE DEF G
    <2> QED BY <1>1, <2>1, NewestOf
  <1>3. /\ m \in S /\ m \in Segment /\ SystemOf[m] = SystemOf[s]
        /\ SnapshotOf[m] = SnapshotOf[s] /\ PackageOf[m] = PackageOf[s]
    BY <1>2 DEF Group
  <1>4. Newer(S, m) = {}
    <2> SUFFICES ASSUME NEW t \in Newer(S, m) PROVE FALSE
      OBVIOUS
    <2>1. t \in G /\ t \in Segment /\ Age[t] > Age[m]
      BY <1>3 DEF Newer, Group
    <2>2. Age[t] \in Nat /\ Age[m] \in Nat
      BY <1>3, <2>1, RetentionAssumption
    <2> QED BY <1>2, <2>1, <2>2
  <1>5. m \in Retained(S, kept)
    BY <1>3, <1>4, WithoutNewer, RetainedIf
  <1> QED BY <1>2, <1>5

\* Where PackageKeep segments are newer than s in a kept snapshot, PackageKeep
\* of them are retained.
LEMMA RetainedNewer ==
    ASSUME NEW S \in SUBSET Segment, IsFiniteSet(S), NEW kept, NEW s \in Segment,
           SnapshotOf[s] \in kept[SystemOf[s]],
           Cardinality(Newer(S, s)) >= PackageKeep,
           NEW U \in SUBSET Segment, IsFiniteSet(U), Retained(S, kept) \subseteq U
    PROVE  Cardinality(Newer(U, s)) >= PackageKeep
  <1> DEFINE T == {t \in Newer(S, s) : Cardinality(Newer(S, t)) < PackageKeep}
  <1>1. IsFiniteSet(T) /\ Cardinality(T) >= PackageKeep
    BY NewestFew
  <1>2. ASSUME NEW t \in T PROVE t \in Newer(U, s)
    <2>1. /\ t \in S /\ SystemOf[t] = SystemOf[s] /\ SnapshotOf[t] = SnapshotOf[s]
          /\ PackageOf[t] = PackageOf[s] /\ Age[t] > Age[s]
      BY <1>2 DEF Newer, Group
    <2>2. Recent(S, t)
      BY <1>2 DEF Recent
    <2>3. t \in U
      BY <2>1, <2>2, RetainedIf
    <2> QED BY <2>1, <2>3 DEF Newer, Group
  <1>3. /\ Cardinality(T) \in Nat /\ Cardinality(Newer(U, s)) \in Nat
        /\ Cardinality(T) <= Cardinality(Newer(U, s))
    <2>1. IsFiniteSet(Newer(U, s))
      BY FewerGroups
    <2>2. T \in SUBSET Newer(U, s)
      BY <1>2
    <2> QED BY <2>1, <2>2, Fewer
  <1>4. PackageKeep \in Nat
    BY RetentionAssumption
  <1> QED BY <1>1, <1>3, <1>4

-----------------------------------------------------------------------------
\* SnapshotTime is the same for a kept snapshot, and no later for another, when
\* only segments that are not retained have gone.
LEMMA SnapshotsFinite ==
    ASSUME NEW S \in SUBSET Segment, IsFiniteSet(S), NEW y
    PROVE  /\ IsFiniteSet(SnapshotsOf(S, y))
           /\ Cardinality(SnapshotsOf(S, y)) \in Nat
  <1> DEFINE M == {t \in S : SystemOf[t] = y}
  <1>1. IsFiniteSet(M)
    <2>1. M \in SUBSET S
      OBVIOUS
    <2> QED BY <2>1, Fewer
  <1>2. IsFiniteSet({SnapshotOf[s] : s \in M})
    <2> DEFINE N == {SnapshotOf[s] : s \in M}
               f == [s \in M |-> SnapshotOf[s]]
    <2>1. f \in Surjection(M, N)
      BY DEF Surjection
    <2>2. IsFiniteSet(N)
      <3> HIDE DEF M, N, f
      <3> QED BY <1>1, <2>1, FS_Surjection
    <2> QED BY <2>2
  <1> QED BY <1>2, FS_CardinalityType DEF SnapshotsOf

LEMMA MembersOf ==
    ASSUME NEW S, NEW y, NEW n
    PROVE  n \in SnapshotsOf(S, y) <=> Members(S, y, n) # {}
  BY DEF SnapshotsOf, Members

LEMMA SameTime ==
    ASSUME NEW S \in SUBSET Segment, NEW kept, NEW U \in SUBSET S,
           Retained(S, kept) \subseteq U,
           NEW y, NEW n \in kept[y], n \in SnapshotsOf(S, y)
    PROVE  n \in SnapshotsOf(U, y) /\ SnapshotTime(U, y, n) = SnapshotTime(S, y, n)
  <1> DEFINE m == Newest(Members(S, y, n))
  <1>1. Members(S, y, n) # {}
    BY MembersOf
  <1>2. m \in U /\ m \in Members(S, y, n)
    BY <1>1, NewestRetained
  <1>3. \A t \in Members(S, y, n) : Age[t] <= Age[m]
    <2>1. Members(S, y, n) \in SUBSET Segment
      BY DEF Members
    <2> QED BY <1>1, <2>1, NewestOf
  <1>4. m \in Members(U, y, n) /\ Members(U, y, n) \subseteq Members(S, y, n)
    BY <1>2 DEF Members
  <1>5. Newest(Members(U, y, n)) = m
    <2>1. Members(U, y, n) \in SUBSET Segment
      BY DEF Members
    <2>2. \A t \in Members(U, y, n) : Age[t] <= Age[m]
      BY <1>3, <1>4
    <2> HIDE DEF m
    <2> QED BY <1>4, <2>1, <2>2, NewestIs
  <1> QED BY <1>4, <1>5, MembersOf DEF SnapshotTime

LEMMA NoLaterTime ==
    ASSUME NEW S \in SUBSET Segment, NEW U \in SUBSET S,
           NEW y, NEW n \in SnapshotsOf(U, y)
    PROVE  /\ n \in SnapshotsOf(S, y)
           /\ SnapshotTime(U, y, n) \in Nat /\ SnapshotTime(S, y, n) \in Nat
           /\ SnapshotTime(U, y, n) <= SnapshotTime(S, y, n)
  <1> DEFINE u == Newest(Members(U, y, n))
             s == Newest(Members(S, y, n))
  <1>1. /\ Members(U, y, n) # {} /\ Members(U, y, n) \subseteq Members(S, y, n)
        /\ Members(S, y, n) \in SUBSET Segment
    BY MembersOf DEF Members
  <1>2. u \in Members(U, y, n)
    BY <1>1, NewestOf
  <1>3. s \in Members(S, y, n) /\ \A t \in Members(S, y, n) : Age[t] <= Age[s]
    BY <1>1, NewestOf
  <1>4. u \in Segment /\ s \in Segment /\ Age[u] <= Age[s]
    BY <1>1, <1>2, <1>3
  <1>5. CreatedAt[u] <= CreatedAt[s] /\ CreatedAt[u] \in Nat /\ CreatedAt[s] \in Nat
    BY <1>4, OlderCreated, RetentionAssumption
  <1>6. n \in SnapshotsOf(S, y)
    BY <1>1, MembersOf
  <1> QED BY <1>5, <1>6 DEF SnapshotTime

\* The snapshots that were kept may be kept again.
LEMMA SameSnapshots ==
    ASSUME NEW S \in SUBSET Segment, IsFiniteSet(S), NEW kept, NEW U \in SUBSET S,
           Retained(S, kept) \subseteq U, NEW y, kept[y] \in KeptChoices(S, y)
    PROVE  kept[y] \intersect SnapshotsOf(U, y) \in KeptChoices(U, y)
  <1> DEFINE K == kept[y]
             before == SnapshotsOf(S, y)
             after == SnapshotsOf(U, y)
  <1>1. /\ K \subseteq before
        /\ Cardinality(K) = IF Cardinality(before) < Keep THEN Cardinality(before) ELSE Keep
        /\ \A n \in K, m \in before \ K : SnapshotTime(S, y, n) >= SnapshotTime(S, y, m)
    BY DEF KeptChoices
  <1>2. K \subseteq after /\ \A n \in K : SnapshotTime(U, y, n) = SnapshotTime(S, y, n)
    <2>1. ASSUME NEW n \in K
          PROVE  n \in after /\ SnapshotTime(U, y, n) = SnapshotTime(S, y, n)
      <3>1. n \in before
        BY <1>1
      <3> QED BY <3>1, SameTime
    <2> QED BY <2>1
  <1>3. after \subseteq before
    BY DEF SnapshotsOf
  <1>4. /\ Cardinality(K) \in Nat /\ Cardinality(after) \in Nat /\ Cardinality(before) \in Nat
        /\ Cardinality(K) <= Cardinality(after) /\ Cardinality(after) <= Cardinality(before)
    <2>1. IsFiniteSet(before)
      BY SnapshotsFinite
    <2>2. IsFiniteSet(after)
      BY <1>3, <2>1, Fewer
    <2> HIDE DEF K, before, after
    <2> QED BY <1>2, <1>3, <2>1, <2>2, Fewer
  <1>5. Cardinality(K) = IF Cardinality(after) < Keep THEN Cardinality(after) ELSE Keep
    <2>1. Keep \in Nat
      BY RetentionAssumption
    <2> HIDE DEF K, before, after
    <2> QED BY <1>1, <1>4, <2>1
  <1>6. ASSUME NEW n \in K, NEW m \in after \ K
        PROVE  SnapshotTime(U, y, n) >= SnapshotTime(U, y, m)
    <2>1. SnapshotTime(U, y, n) = SnapshotTime(S, y, n) /\ n \in after
      BY <1>2
    <2>2. SnapshotTime(S, y, n) >= SnapshotTime(S, y, m)
      BY <1>1, <1>3
    <2>3. /\ SnapshotTime(U, y, m) <= SnapshotTime(S, y, m)
          /\ SnapshotTime(U, y, m) \in Nat /\ SnapshotTime(S, y, m) \in Nat
      BY <1>6, NoLaterTime
    <2>4. SnapshotTime(U, y, n) \in Nat
      BY <2>1, NoLaterTime
    <2> QED BY <2>1, <2>2, <2>3, <2>4
  <1>7. K \intersect after = K
    BY <1>2
  <1> QED BY <1>2, <1>5, <1>6, <1>7 DEF KeptChoices

\* Retention within a kept snapshot does not change either.
LEMMA SameRecent ==
    ASSUME NEW S \in SUBSET Segment, IsFiniteSet(S), NEW kept, NEW U \in SUBSET S,
           Retained(S, kept) \subseteq U,
           NEW s \in U, SnapshotOf[s] \in kept[SystemOf[s]]
    PROVE  Recent(U, s) <=> Recent(S, s)
  <1> DEFINE m == Newest(Group(S, s))
  <1>1. /\ m \in U /\ m \in Group(S, s)
        /\ \A t \in Group(S, s) : Age[t] <= Age[m]
    BY NewestOfGroupRetained
  <1>2. Newest(Group(U, s)) = m
    <2>1. m \in Group(U, s) /\ Group(U, s) \in SUBSET Segment
      BY <1>1 DEF Group
    <2>2. \A t \in Group(U, s) : Age[t] <= Age[m]
      BY <1>1 DEF Group
    <2> HIDE DEF m
    <2> QED BY <2>1, <2>2, NewestIs
  <1>3. /\ Cardinality(Newer(U, s)) \in Nat /\ Cardinality(Newer(S, s)) \in Nat
        /\ Cardinality(Newer(U, s)) <= Cardinality(Newer(S, s))
    <2>1. Newer(U, s) \in SUBSET Newer(S, s)
      BY DEF Newer, Group
    <2>2. IsFiniteSet(Newer(S, s))
      BY FewerGroups
    <2> QED BY <2>1, <2>2, Fewer
  <1>4. Cardinality(Newer(S, s)) >= PackageKeep => Cardinality(Newer(U, s)) >= PackageKeep
    <2>1. IsFiniteSet(U) /\ U \in SUBSET Segment /\ s \in Segment
      BY Fewer
    <2> QED BY <2>1, RetainedNewer
  <1>5. PackageKeep \in Nat
    BY RetentionAssumption
  <1>6. Cardinality(Newer(U, s)) < PackageKeep <=> Cardinality(Newer(S, s)) < PackageKeep
    BY <1>3, <1>4, <1>5
  <1> QED BY <1>2, <1>6 DEF Recent

LEMMA SameVerdicts ==
    ASSUME NEW S \in SUBSET Segment, IsFiniteSet(S), NEW kept, NEW U \in SUBSET S,
           Retained(S, kept) \subseteq U
    PROVE  ToDelete(U, kept) = ToDelete(S, kept) \intersect U
  <1>1. ASSUME NEW s \in U PROVE s \in ToDelete(U, kept) <=> s \in ToDelete(S, kept)
    <2>1. SnapshotOf[s] \in kept[SystemOf[s]] => (Recent(U, s) <=> Recent(S, s))
      BY SameRecent
    <2> QED BY <2>1 DEF ToDelete
  <1> QED BY <1>1 DEF ToDelete

-----------------------------------------------------------------------------
\* The snapshots of segments in S that are as recent as s.
AsRecent(S, s) ==
    {SnapshotOf[t] : t \in {t \in S : SystemOf[t] = SystemOf[s] /\ CreatedAt[t] >= CreatedAt[s]}}

LEMMA SupersededIs ==
    ASSUME NEW s, NEW S
    PROVE  Superseded(s, S) <=> \/ PackageOf[s] # NoPackage /\ Cardinality(Newer(S, s)) >= PackageKeep
                                \/ Cardinality(AsRecent(S, s)) >= Keep
  BY DEF Superseded, AsRecent

LEMMA AsRecentFinite ==
    ASSUME NEW S \in SUBSET Segment, IsFiniteSet(S), NEW s
    PROVE  IsFiniteSet(AsRecent(S, s)) /\ Cardinality(AsRecent(S, s)) \in Nat
  <1>1. AsRecent(S, s) \in SUBSET SnapshotsOf(S, SystemOf[s])
    BY DEF AsRecent, SnapshotsOf
  <1>2. IsFiniteSet(SnapshotsOf(S, SystemOf[s]))
    BY SnapshotsFinite
  <1> QED BY <1>1, <1>2, Fewer

\* What supersedes s in S supersedes t in U, if it is there.
LEMMA EnoughNewer ==
    ASSUME NEW S \in SUBSET Segment, NEW U \in SUBSET Segment,
           IsFiniteSet(S), IsFiniteSet(U), NEW s, NEW t,
           PackageOf[t] # NoPackage, Newer(S, s) \subseteq Newer(U, t),
           Cardinality(Newer(S, s)) >= PackageKeep
    PROVE  Superseded(t, U)
  <1>1. /\ Cardinality(Newer(S, s)) \in Nat /\ Cardinality(Newer(U, t)) \in Nat
        /\ Cardinality(Newer(S, s)) <= Cardinality(Newer(U, t))
    <2>1. IsFiniteSet(Newer(U, t))
      BY FewerGroups
    <2> QED BY <2>1, Fewer
  <1>2. PackageKeep \in Nat
    BY RetentionAssumption
  <1>3. Cardinality(Newer(U, t)) >= PackageKeep
    BY <1>1, <1>2
  <1> QED BY <1>3, SupersededIs

LEMMA EnoughRecent ==
    ASSUME NEW U \in SUBSET Segment, IsFiniteSet(U), NEW t,
           NEW K \in SUBSET AsRecent(U, t), Cardinality(K) >= Keep
    PROVE  Superseded(t, U)
  <1>1. /\ Cardinality(K) \in Nat /\ Cardinality(AsRecent(U, t)) \in Nat
        /\ Cardinality(K) <= Cardinality(AsRecent(U, t))
    BY AsRecentFinite, Fewer
  <1>2. Keep \in Nat
    BY RetentionAssumption
  <1>3. Cardinality(AsRecent(U, t)) >= Keep
    BY <1>1, <1>2
  <1> QED BY <1>3, SupersededIs

LEMMA SupersededGrows ==
    ASSUME NEW U \in SUBSET Segment, IsFiniteSet(U), NEW S \in SUBSET U,
           NEW s, Superseded(s, S)
    PROVE  Superseded(s, U)
  <1>1. IsFiniteSet(S) /\ S \in SUBSET Segment
    BY Fewer
  <1>2. Newer(S, s) \subseteq Newer(U, s) /\ AsRecent(S, s) \in SUBSET AsRecent(U, s)
    BY DEF Newer, Group, AsRecent
  <1>3. CASE PackageOf[s] # NoPackage /\ Cardinality(Newer(S, s)) >= PackageKeep
    BY <1>1, <1>2, <1>3, EnoughNewer
  <1>4. CASE Cardinality(AsRecent(S, s)) >= Keep
    BY <1>2, <1>4, EnoughRecent
  <1> QED BY <1>3, <1>4, SupersededIs

\* A segment that a run gives up is superseded by what the run retains.
LEMMA GivenUp ==
    ASSUME NEW S \in SUBSET Segment, IsFiniteSet(S), NEW kept,
           NEW d \in ToDelete(S, kept), kept[SystemOf[d]] \in KeptChoices(S, SystemOf[d]),
           NEW U \in SUBSET Segment, IsFiniteSet(U), Retained(S, kept) \subseteq U
    PROVE  \/ PackageOf[d] # NoPackage /\ Cardinality(Newer(U, d)) >= PackageKeep
           \/ Cardinality(AsRecent(U, d)) >= Keep
  <1> DEFINE y == SystemOf[d]
             K == kept[y]
             all == SnapshotsOf(S, y)
  <1>0. d \in S /\ d \in Segment
    BY DEF ToDelete
  <1>1. CASE SnapshotOf[d] \in K
    <2>1. PackageOf[d] # NoPackage /\ ~ (Cardinality(Newer(S, d)) < PackageKeep)
      BY <1>1 DEF ToDelete, Recent
    <2>2. Cardinality(Newer(S, d)) \in Nat /\ PackageKeep \in Nat
      BY FewerGroups, RetentionAssumption
    <2>3. Cardinality(Newer(S, d)) >= PackageKeep
      BY <2>1, <2>2
    <2>4. Cardinality(Newer(U, d)) >= PackageKeep
      BY <1>0, <1>1, <2>3, RetainedNewer
    <2> QED BY <2>1, <2>4
  <1>2. CASE SnapshotOf[d] \notin K
    <2>1. /\ K \subseteq all
          /\ Cardinality(K) = IF Cardinality(all) < Keep THEN Cardinality(all) ELSE Keep
          /\ \A n \in K, m \in all \ K : SnapshotTime(S, y, n) >= SnapshotTime(S, y, m)
      BY DEF KeptChoices
    <2>2. SnapshotOf[d] \in all /\ d \in Members(S, y, SnapshotOf[d])
      BY <1>0 DEF SnapshotsOf, Members
    <2>3. Cardinality(K) = Keep
      <3>1. IsFiniteSet(all)
        BY SnapshotsFinite
      <3>2. K # all
        BY <1>2, <2>2
      <3>3. Cardinality(K) # Cardinality(all)
        <4> HIDE DEF K, all
        <4> QED BY <2>1, <3>1, <3>2, Fewer
      <3> QED BY <2>1, <3>3
    <2>4. CreatedAt[d] <= SnapshotTime(S, y, SnapshotOf[d])
      <3> DEFINE M == Members(S, y, SnapshotOf[d])
      <3>1. M \in SUBSET Segment /\ M # {}
        BY <2>2 DEF Members
      <3>2. Newest(M) \in M /\ Age[d] <= Age[Newest(M)]
        <4> HIDE DEF M
        <4>1. d \in M
          BY <2>2 DEF M
        <4> QED BY <3>1, <4>1, NewestOf
      <3>3. Newest(M) \in Segment
        BY <3>1, <3>2
      <3> QED BY <1>0, <3>2, <3>3, OlderCreated DEF SnapshotTime
    <2>5. ASSUME NEW n \in K PROVE n \in AsRecent(U, d)
      <3> DEFINE m == Newest(Members(S, y, n))
      <3>1. Members(S, y, n) # {}
        BY <2>1, MembersOf
      <3>2. m \in U /\ m \in Segment /\ SystemOf[m] = y /\ SnapshotOf[m] = n
        <4>1. m \in Retained(S, kept) /\ m \in Members(S, y, n)
          BY <3>1, NewestRetained
        <4> QED BY <4>1 DEF Members
      <3>3. SnapshotTime(S, y, n) >= SnapshotTime(S, y, SnapshotOf[d])
        BY <1>2, <2>1, <2>2
      <3>4. /\ CreatedAt[m] = SnapshotTime(S, y, n)
            /\ CreatedAt[m] \in Nat /\ CreatedAt[d] \in Nat
            /\ SnapshotTime(S, y, SnapshotOf[d]) \in Nat
        <4>1. SnapshotTime(S, y, SnapshotOf[d]) \in Nat
          BY <2>2, NoLaterTime
        <4>2. CreatedAt[m] \in Nat /\ CreatedAt[d] \in Nat
          BY <1>0, <3>2, RetentionAssumption
        <4> QED BY <4>1, <4>2 DEF SnapshotTime
      <3>5. CreatedAt[m] >= CreatedAt[d]
        BY <2>4, <3>3, <3>4
      <3> QED BY <3>2, <3>5 DEF AsRecent
    <2>6. Cardinality(AsRecent(U, d)) >= Keep
      <3>1. K \in SUBSET AsRecent(U, d)
        BY <2>5
      <3>2. /\ Cardinality(K) \in Nat /\ Cardinality(AsRecent(U, d)) \in Nat
            /\ Cardinality(K) <= Cardinality(AsRecent(U, d))
        BY <3>1, AsRecentFinite, Fewer
      <3>3. Keep \in Nat
        BY RetentionAssumption
      <3> QED BY <2>3, <3>2, <3>3
    <2> QED BY <2>6
  <1> QED BY <1>1, <1>2

\* A deletion of what is superseded takes nothing away from what was.
LEMMA StillSuperseded ==
    ASSUME NEW S \in SUBSET Segment, IsFiniteSet(S), NEW d \in Segment, NEW s \in Segment,
           Superseded(s, S), Superseded(d, S \ {d})
    PROVE  Superseded(s, S \ {d})
  <1> DEFINE U == S \ {d}
  <1>0. /\ U \in SUBSET Segment /\ IsFiniteSet(U)
        /\ \A t \in Segment : Age[t] \in Nat /\ CreatedAt[t] \in Nat
    BY Fewer, RetentionAssumption
  <1>1. ASSUME SystemOf[d] = SystemOf[s], CreatedAt[d] >= CreatedAt[s]
        PROVE  AsRecent(U, d) \in SUBSET AsRecent(U, s)
    <2>1. \A t \in U : CreatedAt[t] >= CreatedAt[d] => CreatedAt[t] >= CreatedAt[s]
      BY <1>0, <1>1
    <2> HIDE DEF U
    <2> QED BY <1>1, <2>1 DEF AsRecent
  <1>2. CASE PackageOf[s] # NoPackage /\ Cardinality(Newer(S, s)) >= PackageKeep
    <2>1. CASE d \notin Newer(S, s)
      <3>1. Newer(S, s) \subseteq Newer(U, s)
        BY <2>1 DEF Newer, Group
      <3> QED BY <1>0, <1>2, <3>1, EnoughNewer
    <2>2. CASE d \in Newer(S, s)
      <3>1. /\ SystemOf[d] = SystemOf[s] /\ SnapshotOf[d] = SnapshotOf[s]
            /\ PackageOf[d] = PackageOf[s] /\ Age[d] > Age[s]
        BY <2>2 DEF Newer, Group
      <3>2. CASE Cardinality(Newer(U, d)) >= PackageKeep
        <4>1. \A t \in U : Age[t] > Age[d] => Age[t] > Age[s]
          BY <1>0, <3>1
        <4>2. Newer(U, d) \subseteq Newer(U, s)
          <5> HIDE DEF U
          <5> QED BY <3>1, <4>1 DEF Newer, Group
        <4> QED BY <1>0, <1>2, <3>2, <4>2, EnoughNewer
      <3>3. CASE Cardinality(AsRecent(U, d)) >= Keep
        <4>1. CreatedAt[d] >= CreatedAt[s]
          <5>1. Age[s] <= Age[d]
            BY <1>0, <3>1
          <5> QED BY <1>0, <5>1, OlderCreated
        <4>2. AsRecent(U, d) \in SUBSET AsRecent(U, s)
          BY <1>1, <3>1, <4>1
        <4> QED BY <1>0, <3>3, <4>2, EnoughRecent
      <3> QED BY <3>2, <3>3, SupersededIs
    <2> QED BY <2>1, <2>2
  <1>3. CASE Cardinality(AsRecent(S, s)) >= Keep
    <2>1. CASE ~ (SystemOf[d] = SystemOf[s] /\ CreatedAt[d] >= CreatedAt[s])
      <3>1. AsRecent(S, s) \in SUBSET AsRecent(U, s)
        BY <2>1 DEF AsRecent
      <3> QED BY <1>0, <1>3, <3>1, EnoughRecent
    <2>2. CASE SystemOf[d] = SystemOf[s] /\ CreatedAt[d] >= CreatedAt[s]
      <3>1. CASE Cardinality(Newer(U, d)) >= PackageKeep
        <4>1. Newer(U, d) # {}
          <5>1. Cardinality(Newer(U, d)) # 0
            BY <3>1, RetentionAssumption
          <5> QED BY <5>1, FS_EmptySet
        <4>2. PICK e \in Newer(U, d) : TRUE
          BY <4>1
        <4>3. /\ e \in U /\ e \in Segment /\ SystemOf[e] = SystemOf[d]
              /\ SnapshotOf[e] = SnapshotOf[d] /\ Age[e] > Age[d]
          BY <4>2 DEF Newer, Group
        <4>4. CreatedAt[e] >= CreatedAt[s]
          <5>1. Age[d] <= Age[e]
            BY <1>0, <4>3
          <5>2. CreatedAt[d] <= CreatedAt[e]
            BY <4>3, <5>1, OlderCreated
          <5> QED BY <1>0, <2>2, <4>3, <5>2
        <4>5. SnapshotOf[d] \in AsRecent(U, s)
          BY <2>2, <4>3, <4>4 DEF AsRecent
        <4>6. AsRecent(S, s) \in SUBSET AsRecent(U, s)
          BY <4>5 DEF AsRecent
        <4> QED BY <1>0, <1>3, <4>6, EnoughRecent
      <3>2. CASE Cardinality(AsRecent(U, d)) >= Keep
        <4>1. AsRecent(U, d) \in SUBSET AsRecent(U, s)
          BY <1>1, <2>2
        <4> QED BY <1>0, <3>2, <4>1, EnoughRecent
      <3> QED BY <3>1, <3>2, SupersededIs
    <2> QED BY <2>1, <2>2
  <1> QED BY <1>2, <1>3, SupersededIs

-----------------------------------------------------------------------------
THEOREM InitHistory == Init => History
  <1> SUFFICES ASSUME Init PROVE History
    OBVIOUS
  <1>1. NoRun.pc = "idle" /\ NoRun.seg = {}
    BY DEF NoRun
  <1>2. Finite /\ Verdicts
    BY <1>1, FS_EmptySet DEF Init, Finite, Verdicts
  <1>3. DeletedSuperseded
    BY DEF Init, Deleted, DeletedSuperseded
  <1> QED BY <1>2, <1>3, InitInv DEF History

\* Steps that leave the registry alone.
LEMMA RegistryAlone ==
    ASSUME DeletedSuperseded, UNCHANGED <<fresh, present>>
    PROVE  DeletedSuperseded'
  BY DEF DeletedSuperseded, Deleted, Superseded

\* Steps of a run that does not delete yet, or any more.
LEMMA NotDeleting ==
    ASSUME History, UNCHANGED <<fresh, present>>, run'.pc # "delete",
           IsFiniteSet(run'.seg)
    PROVE  Finite' /\ Verdicts' /\ DeletedSuperseded'
  <1>1. Finite' /\ Verdicts'
    BY DEF History, Finite, Verdicts
  <1> QED BY <1>1, RegistryAlone DEF History

LEMMA PushHistory ==
    ASSUME History, NEW s \in Segment, Push(s)
    PROVE  Finite' /\ Verdicts' /\ DeletedSuperseded'
  <1>0. /\ TypeOK /\ s \in fresh
        /\ fresh' = fresh \ {s} /\ present' = present \union {s} /\ run' = run
    BY DEF History, Inv, Push
  <1>1. IsFiniteSet(present') /\ present' \in SUBSET Segment /\ present \in SUBSET present'
    BY <1>0, FS_AddElement DEF History, Finite, TypeOK
  <1>2. Finite' /\ Verdicts'
    BY <1>0, <1>1 DEF History, Finite, Verdicts
  <1>3. Deleted' \subseteq Deleted
    BY <1>0 DEF Deleted
  <1>4. ASSUME NEW t \in Deleted' PROVE Superseded(t, present')
    <2>1. Superseded(t, present)
      BY <1>3 DEF History, DeletedSuperseded
    <2> QED BY <1>1, <2>1, SupersededGrows
  <1>5. \A t : Superseded(t, present)' <=> Superseded(t, present')
    BY DEF Superseded
  <1> QED BY <1>2, <1>4, <1>5 DEF DeletedSuperseded

LEMMA DeleteHistory ==
    ASSUME History, NEW d \in Segment, Delete(d)
    PROVE  Finite' /\ Verdicts' /\ DeletedSuperseded'
  <1>0. /\ TypeOK /\ run \in Run /\ run.pc = "delete" /\ d \in run.left
        /\ fresh' = fresh /\ present' = present \ {d}
        /\ run' = [run EXCEPT !.left = run.left \ {d}]
    BY DEF History, Inv, Delete, TypeOK
  <1>1. /\ run'.pc = "delete" /\ run'.seg = run.seg /\ run'.kept = run.kept
        /\ run'.left = run.left \ {d}
    BY <1>0 DEF Run
  <1>2. /\ present \in SUBSET Segment /\ IsFiniteSet(present)
        /\ present' \in SUBSET Segment /\ IsFiniteSet(present')
        /\ run.seg \in SUBSET Segment /\ IsFiniteSet(run.seg)
    <2>1. present' \in SUBSET present
      BY <1>0
    <2> QED BY <1>0, <2>1, Fewer DEF History, Finite, TypeOK, Run
  <1>3. /\ d \in ToDelete(run.seg, run.kept)
        /\ Retained(run.seg, run.kept) \subseteq present'
        /\ run.kept[SystemOf[d]] \in KeptChoices(run.seg, SystemOf[d])
    <2>1. d \in ToDelete(run.seg, run.kept)
      BY <1>0 DEF History, Verdicts
    <2>2. Retained(run.seg, run.kept) \subseteq present'
      BY <1>0, <2>1 DEF History, Verdicts, Retained
    <2>3. SystemOf[d] \in System
      BY RetentionAssumption
    <2> QED BY <1>0, <2>1, <2>2, <2>3 DEF History, Verdicts
  <1>4. Finite'
    BY <1>1, <1>2 DEF Finite
  <1>5. Verdicts'
    <2>1. \A y \in System : run'.kept[y] \in KeptChoices(run'.seg, y)
      BY <1>0, <1>1 DEF History, Verdicts
    <2>2. run'.left \subseteq ToDelete(run'.seg, run'.kept)
      BY <1>0, <1>1 DEF History, Verdicts
    <2>3. Retained(run'.seg, run'.kept) \subseteq present'
      BY <1>1, <1>3
    <2> QED BY <2>1, <2>2, <2>3 DEF Verdicts
  <1>6. Superseded(d, present')
    BY <1>2, <1>3, GivenUp, SupersededIs
  <1>7. ASSUME NEW t \in Deleted' PROVE Superseded(t, present')
    <2>1. t = d \/ t \in Deleted
      BY <1>0 DEF Deleted
    <2>2. CASE t \in Deleted
      <3>1. Superseded(t, present) /\ t \in Segment
        BY <2>2 DEF History, DeletedSuperseded, Deleted
      <3> QED BY <1>0, <1>2, <1>6, <3>1, StillSuperseded
    <2> QED BY <1>6, <2>1, <2>2
  <1>8. \A t : Superseded(t, present)' <=> Superseded(t, present')
    BY DEF Superseded
  <1> QED BY <1>4, <1>5, <1>7, <1>8 DEF DeletedSuperseded

LEMMA PlanHistory ==
    ASSUME History, NEW kept \in [System -> SUBSET Snapshot], NEW doomed \in SUBSET run.seg,
           Plan(kept, doomed)
    PROVE  Finite' /\ Verdicts' /\ DeletedSuperseded'
  <1>0. /\ run \in Run /\ run.pc = "roots"
        /\ \A y \in System : kept[y] \in KeptChoices(run.seg, y)
        /\ doomed \subseteq ToDelete(run.seg, kept)
        /\ run' = [run EXCEPT !.pc = "delete", !.kept = kept, !.left = doomed]
        /\ UNCHANGED <<fresh, present>>
    BY DEF History, Inv, TypeOK, Plan, Candidates
  <1>1. run'.pc = "delete" /\ run'.seg = run.seg /\ run'.kept = kept /\ run'.left = doomed
    BY <1>0 DEF Run
  <1>2. run.seg \subseteq present
    BY <1>0 DEF History, Inv, RunInv
  <1>3. Finite'
    BY <1>0, <1>1 DEF History, Finite
  <1>4. Verdicts'
    BY <1>0, <1>1, <1>2 DEF Verdicts, Retained
  <1> QED BY <1>0, <1>3, <1>4, RegistryAlone DEF History

\* Every step keeps the invariant.
THEOREM NextHistory == History /\ [Next]_vars => History'
  <1> SUFFICES ASSUME History, [Next]_vars PROVE History'
    OBVIOUS
  <1>0. Inv' /\ run \in Run /\ IsFiniteSet(run.seg) /\ IsFiniteSet(present)
    BY NextInv DEF History, Finite, Inv, TypeOK
  <1> DEFINE Rest == Finite' /\ Verdicts' /\ DeletedSuperseded'
  <1>1. ASSUME NEW s \in Segment, Push(s) PROVE Rest
    BY <1>1, PushHistory
  <1>2. ASSUME NEW roots \in Roots, Start(roots) PROVE Rest
    <2>1. run'.pc = "roots" /\ run'.seg = present /\ UNCHANGED <<fresh, present>>
      BY <1>2 DEF Start, NoRun
    <2> QED BY <1>0, <2>1, NotDeleting
  <1>3. ASSUME NEW y \in System, Seed(y) PROVE Rest
    <2>1. run'.pc = "walk" /\ run'.seg = run.seg /\ UNCHANGED <<fresh, present>>
      BY <1>0, <1>3 DEF Seed, Run
    <2> QED BY <1>0, <2>1, NotDeleting
  <1>4. ASSUME NEW p \in Path, Visit(p) PROVE Rest
    <2>1. /\ UNCHANGED <<fresh, present>>
          /\ \/ run'.pc = "walk" /\ run'.seg = run.seg
             \/ run'.pc = "idle" /\ run'.seg = {}
      BY <1>0, <1>4 DEF Visit, NoRun, Run
    <2>2. IsFiniteSet(run'.seg) /\ run'.pc # "delete"
      BY <1>0, <2>1, FS_EmptySet
    <2> QED BY <2>1, <2>2, NotDeleting
  <1>5. ASSUME Walked PROVE Rest
    <2>1. run'.pc = "roots" /\ run'.seg = run.seg /\ UNCHANGED <<fresh, present>>
      BY <1>0, <1>5 DEF Walked, Run
    <2> QED BY <1>0, <2>1, NotDeleting
  <1>6. ASSUME NEW kept \in [System -> SUBSET Snapshot], NEW doomed \in SUBSET run.seg,
               Plan(kept, doomed)
        PROVE  Rest
    BY <1>6, PlanHistory
  <1>7. ASSUME NEW s \in Segment, Delete(s) PROVE Rest
    BY <1>7, DeleteHistory
  <1>8. ASSUME End PROVE Rest
    <2>1. run'.pc = "idle" /\ run'.seg = {} /\ UNCHANGED <<fresh, present>>
      BY <1>8 DEF End, NoRun
    <2> QED BY <2>1, FS_EmptySet, NotDeleting
  <1>9. ASSUME UNCHANGED vars PROVE Rest
    <2>1. fresh' = fresh /\ present' = present /\ run' = run
      BY <1>9 DEF vars
    <2>2. Finite' /\ Verdicts'
      BY <2>1 DEF History, Finite, Verdicts
    <2> QED BY <2>1, <2>2, RegistryAlone DEF History
  <1> QED BY <1>0, <1>1, <1>2, <1>3, <1>4, <1>5, <1>6, <1>7, <1>8, <1>9 DEF Next, History

\* In every reachable state a deleting run still has all it retained, and what
\* was ever deleted is superseded.
THEOREM HistoryInvariance == Spec => []History
  <1> QED BY InitHistory, NextHistory, PTL DEF Spec

\* Over all the runs of prune, and pushes between and during them, history is
\* given up only for PackageKeep newer segments of the same package, or Keep
\* snapshots as recent, that are still in the cache.
THEOREM DeletedIsSuperseded == Spec => []DeletedSuperseded
  <1>1. History => DeletedSuperseded
    BY DEF History
  <1> QED BY <1>1, HistoryInvariance, PTL

\* Wherever a run stops, the next one may keep the same snapshots, and then
\* gives up exactly what this one had left.
THEOREM VerdictsAreStable == Spec => []VerdictStable
  <1>1. ASSUME History PROVE VerdictStable
    <2> SUFFICES ASSUME run.pc = "delete" PROVE VerdictStable
      BY DEF VerdictStable
    <2> DEFINE S == run.seg
               U == run.seg \intersect present
    <2>1. /\ S \in SUBSET Segment /\ IsFiniteSet(S) /\ U \in SUBSET S
          /\ Retained(S, run.kept) \subseteq U
          /\ \A y \in System : run.kept[y] \in KeptChoices(S, y)
      BY <1>1 DEF History, Inv, TypeOK, Run, Finite, Verdicts, Retained
    <2>2. \A y \in System : run.kept[y] \intersect SnapshotsOf(U, y) \in KeptChoices(U, y)
      <3> HIDE DEF S, U
      <3> QED BY <2>1, SameSnapshots
    <2>3. ToDelete(U, run.kept) = ToDelete(S, run.kept) \intersect U
      <3> HIDE DEF S, U
      <3> QED BY <2>1, SameVerdicts
    <2>4. ToDelete(S, run.kept) \subseteq S
      BY DEF ToDelete
    <2> QED BY <2>2, <2>3, <2>4 DEF VerdictStable
  <1> QED BY <1>1, HistoryInvariance, PTL
==============================================================================
