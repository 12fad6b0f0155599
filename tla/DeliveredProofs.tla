-------------------------- MODULE DeliveredProofs ---------------------------
(***************************************************************************)
(* Every file of a package that is Anchored, Paired and Wrapped is         *)
(* installed (Delivered), for all such packages and stores.                *)
(*                                                                         *)
(* A path of the package comes to a node of the store by hops (Comes):     *)
(* from the directory it has come to, along the next name and, when that   *)
(* is a link normalize does not keep, along where it leads.  The copy puts *)
(* at the path what is found there (Finds), and a kept link as it is; so a *)
(* path leads in the output to the copy of what it leads to in the store   *)
(* (PathLeads), provided that the tree holds what is left (Holds).  Each   *)
(* pass keeps its part of that: what is copied or waits to be copied       *)
(* (CopyMeans), what is dropped (DropMeans), wrappers taken away and       *)
(* programs put in their place (PrepMeans), and links that lead somewhere  *)
(* not removed (KeptMeans).  MeansInv says so, and is inductive.           *)
(***************************************************************************)
EXTENDS DeliveryProofs

\* A walk of k steps, from anywhere, that arrives at q.
Trail(tree, s, k, w) == /\ DOMAIN w = 0..k
                        /\ w[0] = s
                        /\ \A i \in 1..k : w[i] = Step(tree, w[i - 1])
Leads(tree, s, k, q) == \E w : Trail(tree, s, k, w) /\ w[k].st = "ok" /\ w[k].at = q

LEMMA LeadsNow ==
    ASSUME NEW tree, NEW s, NEW q
    PROVE  Leads(tree, s, 0, q) <=> s.st = "ok" /\ s.at = q
  <1>1. ASSUME Leads(tree, s, 0, q) PROVE s.st = "ok" /\ s.at = q
    <2>1. PICK w : Trail(tree, s, 0, w) /\ w[0].st = "ok" /\ w[0].at = q
      BY <1>1, Zenon DEF Leads
    <2> QED BY <2>1 DEF Trail
  <1>2. ASSUME s.st = "ok", s.at = q PROVE Leads(tree, s, 0, q)
    <2> DEFINE w == [i \in 0..0 |-> s]
    <2>1. DOMAIN w = 0..0 /\ w[0] = s
      OBVIOUS
    <2> HIDE DEF w
    <2>2. Trail(tree, s, 0, w)
      BY <2>1 DEF Trail
    <2> QED BY <1>2, <2>1, <2>2, Zenon DEF Leads
  <1> QED BY <1>1, <1>2

LEMMA LeadsNext ==
    ASSUME NEW tree, NEW s, NEW q, NEW k \in Nat
    PROVE  Leads(tree, s, k + 1, q) <=> Leads(tree, Step(tree, s), k, q)
  <1>1. ASSUME Leads(tree, s, k + 1, q) PROVE Leads(tree, Step(tree, s), k, q)
    <2>1. PICK w : Trail(tree, s, k + 1, w) /\ w[k + 1].st = "ok" /\ w[k + 1].at = q
      BY <1>1, Zenon DEF Leads
    <2> DEFINE v == [i \in 0..k |-> w[i + 1]]
    <2>2. DOMAIN v = 0..k /\ \A i \in 0..k : v[i] = w[i + 1]
      OBVIOUS
    <2> HIDE DEF v
    <2>3. \A i \in 1..(k + 1) : w[i] = Step(tree, w[i - 1])
      BY <2>1, Zenon DEF Trail
    <2>4. v[0] = Step(tree, s)
      <3>1. 1 \in 1..(k + 1) /\ 1 - 1 = 0 /\ 0 \in 0..k /\ 0 + 1 = 1
        OBVIOUS
      <3>2. w[0] = s
        BY <2>1, Zenon DEF Trail
      <3>3. v[0] = w[1]
        BY <2>2, <3>1
      <3>4. w[1] = Step(tree, w[1 - 1])
        BY <2>3, <3>1
      <3> QED BY <3>1, <3>2, <3>3, <3>4
    <2>5. ASSUME NEW i \in 1..k PROVE v[i] = Step(tree, v[i - 1])
      <3>1. i + 1 \in 1..(k + 1) /\ (i + 1) - 1 = i /\ i \in 0..k /\ i - 1 \in 0..k /\ (i - 1) + 1 = i
        OBVIOUS
      <3>2. v[i] = w[i + 1] /\ v[i - 1] = w[i]
        BY <2>2, <3>1
      <3>3. w[i + 1] = Step(tree, w[(i + 1) - 1])
        BY <2>3, <3>1
      <3> QED BY <3>1, <3>2, <3>3
    <2>6. k \in 0..k
      OBVIOUS
    <2>7. v[k] = w[k + 1]
      BY <2>2, <2>6
    <2>8. Trail(tree, Step(tree, s), k, v)
      BY <2>2, <2>4, <2>5, Zenon DEF Trail
    <2> QED BY <2>1, <2>7, <2>8, Zenon DEF Leads
  <1>2. ASSUME Leads(tree, Step(tree, s), k, q) PROVE Leads(tree, s, k + 1, q)
    <2>1. PICK w : Trail(tree, Step(tree, s), k, w) /\ w[k].st = "ok" /\ w[k].at = q
      BY <1>2, Zenon DEF Leads
    <2> DEFINE v == [i \in 0..(k + 1) |-> IF i = 0 THEN s ELSE w[i - 1]]
    <2>2. DOMAIN v = 0..(k + 1) /\ v[0] = s /\ \A i \in 1..(k + 1) : v[i] = w[i - 1]
      <3>1. 0 \in 0..(k + 1) /\ \A i \in 1..(k + 1) : i \in 0..(k + 1) /\ i # 0
        OBVIOUS
      <3> QED BY <3>1
    <2> HIDE DEF v
    <2>3. w[0] = Step(tree, s) /\ \A i \in 1..k : w[i] = Step(tree, w[i - 1])
      BY <2>1, Zenon DEF Trail
    <2>4. ASSUME NEW i \in 1..(k + 1) PROVE v[i] = Step(tree, v[i - 1])
      <3>1. CASE i = 1
        <4>1. i - 1 = 0
          BY <3>1
        <4> QED BY <2>2, <2>3, <4>1
      <3>2. CASE i # 1
        <4>1. i - 1 \in 1..k /\ i - 1 \in 1..(k + 1)
          BY <3>2
        <4>2. v[i] = w[i - 1] /\ v[i - 1] = w[(i - 1) - 1]
          BY <2>2, <4>1
        <4> QED BY <2>3, <4>1, <4>2
      <3> QED BY <3>1, <3>2
    <2>5. k + 1 \in 1..(k + 1) /\ (k + 1) - 1 = k
      OBVIOUS
    <2>6. v[k + 1] = w[k]
      BY <2>2, <2>5
    <2>7. Trail(tree, s, k + 1, v)
      BY <2>2, <2>4, Zenon DEF Trail
    <2> QED BY <2>1, <2>6, <2>7, Zenon DEF Leads
  <1> QED BY <1>1, <1>2

\* A walk that has ended stays where it is.
LEMMA EndedLeads ==
    ASSUME NEW tree, NEW s, s.st # "walk", NEW q, NEW k \in Nat
    PROVE  Leads(tree, s, k, q) <=> s.st = "ok" /\ s.at = q
  <1> DEFINE I == {n \in Nat : Leads(tree, s, n, q) <=> s.st = "ok" /\ s.at = q}
  <1>0. Step(tree, s) = s
    BY Zenon DEF Step
  <1>1. 0 \in I
    BY LeadsNow
  <1>2. ASSUME NEW n \in I PROVE n + 1 \in I
    <2>1. n \in Nat /\ n + 1 \in Nat /\ (Leads(tree, s, n, q) <=> s.st = "ok" /\ s.at = q)
      OBVIOUS
    <2>2. Leads(tree, s, n + 1, q) <=> Leads(tree, s, n, q)
      BY <1>0, <2>1, LeadsNext
    <2> QED BY <2>1, <2>2
  <1> HIDE DEF I
  <1>3. I = Nat
    BY <1>1, <1>2, Induction DEF I
  <1> QED BY <1>3 DEF I

LEMMA LeadsAfter ==
    ASSUME NEW tree, NEW s, s.st = "walk", NEW q, NEW k \in Nat, Leads(tree, s, k, q)
    PROVE  k - 1 \in Nat /\ Leads(tree, Step(tree, s), k - 1, q)
  <1>1. k # 0
    BY LeadsNow
  <1>2. k - 1 \in Nat /\ k = (k - 1) + 1
    BY <1>1
  <1>3. Leads(tree, s, (k - 1) + 1, q)
    BY <1>2
  <1> QED BY <1>2, <1>3, LeadsNext

LEMMA LeadsLater ==
    ASSUME NEW tree, NEW s, NEW q, NEW k \in Nat, NEW m \in Nat, k <= m, Leads(tree, s, k, q)
    PROVE  Leads(tree, s, m, q)
  <1> DEFINE I == {n \in Nat : \A x : Leads(tree, x, n, q) => Leads(tree, x, n + 1, q)}
             J == {n \in Nat : Leads(tree, s, k + n, q)}
  <1>1. 0 \in I
    <2>1. ASSUME NEW x, Leads(tree, x, 0, q) PROVE Leads(tree, x, 0 + 1, q)
      <3>1. x.st = "ok" /\ x.at = q
        BY <2>1, LeadsNow
      <3>2. x.st # "walk"
        BY <3>1
      <3> QED BY <3>1, <3>2, EndedLeads
    <2> QED BY <2>1
  <1>2. ASSUME NEW n \in I PROVE n + 1 \in I
    <2>1. n \in Nat /\ n + 1 \in Nat
      OBVIOUS
    <2>2. ASSUME NEW x, Leads(tree, x, n + 1, q) PROVE Leads(tree, x, (n + 1) + 1, q)
      <3>1. Leads(tree, Step(tree, x), n, q)
        BY <2>1, <2>2, LeadsNext
      <3>2. Leads(tree, Step(tree, x), n + 1, q)
        BY <3>1
      <3> QED BY <2>1, <3>2, LeadsNext
    <2> QED BY <2>1, <2>2
  <1> HIDE DEF I
  <1>3. I = Nat
    BY <1>1, <1>2, Induction DEF I
  <1>4. 0 \in J
    OBVIOUS
  <1>5. ASSUME NEW n \in J PROVE n + 1 \in J
    <2>1. n \in Nat /\ k + n \in I /\ (k + n) + 1 = k + (n + 1) /\ Leads(tree, s, k + n, q)
      BY <1>3
    <2>2. Leads(tree, s, (k + n) + 1, q)
      BY <2>1 DEF I
    <2> QED BY <2>1, <2>2
  <1> HIDE DEF J
  <1>6. J = Nat
    BY <1>4, <1>5, Induction DEF J
  <1>7. m - k \in J /\ k + (m - k) = m
    BY <1>6
  <1> QED BY <1>7 DEF J

LEMMA LeadsOnce ==
    ASSUME NEW tree, NEW s, NEW q, NEW r, NEW k \in Nat, NEW m \in Nat,
           Leads(tree, s, k, q), Leads(tree, s, m, r)
    PROVE  q = r
  <1> DEFINE I == {n \in Nat : \A x : Leads(tree, x, n, q) /\ Leads(tree, x, n, r) => q = r}
  <1>1. 0 \in I
    BY LeadsNow
  <1>2. ASSUME NEW n \in I PROVE n + 1 \in I
    <2>1. n \in Nat /\ n + 1 \in Nat
      OBVIOUS
    <2>2. ASSUME NEW x, Leads(tree, x, n + 1, q), Leads(tree, x, n + 1, r) PROVE q = r
      <3>1. Leads(tree, Step(tree, x), n, q) /\ Leads(tree, Step(tree, x), n, r)
        BY <2>1, <2>2, LeadsNext
      <3> QED BY <3>1
    <2> QED BY <2>1, <2>2
  <1> HIDE DEF I
  <1>3. I = Nat
    BY <1>1, <1>2, Induction DEF I
  <1>4. k + m \in Nat /\ k <= k + m /\ m <= k + m
    OBVIOUS
  <1>5. Leads(tree, s, k + m, q) /\ Leads(tree, s, k + m, r)
    BY <1>4, LeadsLater
  <1> QED BY <1>3, <1>4, <1>5 DEF I

\* What Eval finds is found by a walk of at most MaxWalk steps.
LEMMA EvalLeads ==
    ASSUME NEW tree, NEW p
    PROVE  /\ Resolves(tree, p) => Leads(tree, Start(p), MaxWalk, Eval(tree, p).at)
           /\ \A q : Leads(tree, Start(p), MaxWalk, q) => Resolves(tree, p) /\ Eval(tree, p).at = q
           /\ Eval(tree, p).st \notin {"loop", "ok"} => \A k \in Nat : \A q : ~Leads(tree, Start(p), k, q)
  <1>0. MaxWalk \in Nat
    BY TreeAssumption
  <1>1. PICK w : IsWalk(tree, p, w) /\ Eval(tree, p) = Ends(w)
    BY EvalIs
  <1>2. Trail(tree, Start(p), MaxWalk, w)
    BY <1>1, Zenon DEF IsWalk, Trail
  <1>3. /\ Eval(tree, p).st = IF w[MaxWalk].st = "walk" THEN "loop" ELSE w[MaxWalk].st
        /\ Eval(tree, p).at = w[MaxWalk].at
    BY <1>1 DEF Ends
  <1>4. ASSUME Resolves(tree, p) PROVE Leads(tree, Start(p), MaxWalk, Eval(tree, p).at)
    <2>1. w[MaxWalk].st = "ok"
      BY <1>3, <1>4 DEF Resolves
    <2> QED BY <1>2, <1>3, <2>1, Zenon DEF Leads
  <1>5. ASSUME w[MaxWalk].st # "walk", NEW k \in Nat, NEW q, Leads(tree, Start(p), k, q)
        PROVE  w[MaxWalk].st = "ok" /\ w[MaxWalk].at = q
    <2> DEFINE I == {n \in 0..MaxWalk : Leads(tree, w[n], k, q)}
    <2>1. 0 \in I
      BY <1>0, <1>2, <1>5 DEF Trail
    <2>2. ASSUME NEW n \in 0..MaxWalk, n \in I, n < MaxWalk PROVE n + 1 \in I
      <3>1. n + 1 \in 1..MaxWalk /\ n + 1 \in 0..MaxWalk /\ (n + 1) - 1 = n
        BY <1>0, <2>2
      <3>2. w[n + 1] = Step(tree, w[n])
        BY <1>2, <3>1 DEF Trail
      <3>3. Leads(tree, w[n], k, q)
        BY <2>2
      <3>4. Leads(tree, w[n], k + 1, q)
        <4>1. k + 1 \in Nat /\ k <= k + 1
          OBVIOUS
        <4> QED BY <3>3, <4>1, LeadsLater
      <3>5. Leads(tree, w[n + 1], k, q)
        BY <3>2, <3>4, LeadsNext
      <3> QED BY <3>1, <3>5
    <2> HIDE DEF I
    <2>3. \A n \in 0..MaxWalk : n \in I
      BY <1>0, <2>1, <2>2, InductionTo
    <2>4. Leads(tree, w[MaxWalk], k, q)
      BY <1>0, <2>3 DEF I
    <2> QED BY <1>5, <2>4, EndedLeads
  <1>6. ASSUME NEW q, Leads(tree, Start(p), MaxWalk, q) PROVE Resolves(tree, p) /\ Eval(tree, p).at = q
    <2>1. PICK v : Trail(tree, Start(p), MaxWalk, v) /\ v[MaxWalk].st = "ok" /\ v[MaxWalk].at = q
      BY <1>6, Zenon DEF Leads
    <2>2. IsWalk(tree, p, v)
      BY <2>1, Zenon DEF IsWalk, Trail
    <2>3. Eval(tree, p) = Ends(v)
      BY <2>2, EvalOf
    <2> QED BY <2>1, <2>3 DEF Ends, Resolves
  <1>7. ASSUME Eval(tree, p).st \notin {"loop", "ok"}, NEW k \in Nat, NEW q, Leads(tree, Start(p), k, q) PROVE FALSE
    <2>1. w[MaxWalk].st # "walk" /\ w[MaxWalk].st # "ok"
      BY <1>3, <1>7
    <2> QED BY <1>5, <1>7, <2>1
  <1> QED BY <1>4, <1>6, <1>7

-----------------------------------------------------------------------------
\* One step from a place, and what it means for where a walk leads.
Goes(tree, a, rest, b, r) ==
    LET next == Append(a, Head(rest))
    IN /\ rest # <<>> /\ Is("dir", tree, a)
       /\ \/ Head(rest) = ".." /\ a # <<>> /\ b = Front(a) /\ r = Tail(rest)
          \/ Head(rest) # ".." /\ next \in DOMAIN tree /\ tree[next].t # "link" /\ b = next /\ r = Tail(rest)
          \/ /\ Head(rest) # ".." /\ next \in DOMAIN tree /\ tree[next].t = "link"
             /\ b = (IF tree[next].abs THEN <<>> ELSE a) /\ r = tree[next].to \o Tail(rest)

LEMMA StepGoes ==
    ASSUME NEW tree, NEW a, NEW rest, rest # <<>>
    PROVE  \/ Step(tree, On(a, rest)).st \in {"notdir", "escape", "absent"}
           \/ \E b, r : Goes(tree, a, rest, b, r) /\ Step(tree, On(a, rest)) = On(b, r)
  <1> DEFINE w == On(a, rest)
             next == Append(a, Head(rest))
             s == Step(tree, w)
  <1>1. Does(tree, a, rest, s)
    BY StepIs
  <1>2. w.at = a /\ w.rest = rest /\ w.st = "walk"
    BY DEF On
  <1>3. ASSUME NEW x, NEW y, NEW z, z = [w EXCEPT !.at = x, !.rest = y] PROVE z = On(x, y)
    BY <1>3 DEF On
  <1>4. ASSUME Is("dir", tree, a), Head(rest) # "..", next \in DOMAIN tree, tree[next].t = "link"
        PROVE  s = On(IF tree[next].abs THEN <<>> ELSE a, tree[next].to \o Tail(rest))
    <2>1. s = [w EXCEPT !.at = IF tree[next].abs THEN <<>> ELSE @, !.rest = tree[next].to \o Tail(rest)]
      <3> HIDE DEF w
      <3> QED BY <1>2, <1>4, Zenon DEF Step
    <2>2. s = [w EXCEPT !.at = IF tree[next].abs THEN <<>> ELSE a, !.rest = tree[next].to \o Tail(rest)]
      BY <1>2, <2>1
    <2> HIDE DEF w, next, s
    <2> QED BY <1>3, <2>2
  <1> HIDE DEF w, s, next
  <1>5. CASE ~Is("dir", tree, a)
    BY <1>1, <1>5 DEF Does, s, w
  <1>6. CASE Is("dir", tree, a) /\ Head(rest) = ".."
    <2>1. IF a = <<>> THEN s.st = "escape" ELSE s = On(Front(a), Tail(rest))
      BY <1>1, <1>6, Zenon DEF Does
    <2>2. a # <<>> => Goes(tree, a, rest, Front(a), Tail(rest))
      BY <1>6, Zenon DEF Goes
    <2> QED BY <2>1, <2>2 DEF s, w
  <1>7. CASE Is("dir", tree, a) /\ Head(rest) # ".."
    <2>1. /\ next \notin DOMAIN tree => s.st = "absent"
          /\ next \in DOMAIN tree /\ tree[next].t # "link" => s = On(next, Tail(rest))
      BY <1>1, <1>7, Zenon DEF Does, next
    <2>2. next \in DOMAIN tree /\ tree[next].t # "link" => Goes(tree, a, rest, next, Tail(rest))
      BY <1>7, Zenon DEF Goes, next
    <2>3. next \in DOMAIN tree /\ tree[next].t = "link" =>
             /\ Goes(tree, a, rest, IF tree[next].abs THEN <<>> ELSE a, tree[next].to \o Tail(rest))
             /\ s = On(IF tree[next].abs THEN <<>> ELSE a, tree[next].to \o Tail(rest))
      BY <1>4, <1>7, Zenon DEF Goes, next
    <2>4. next \notin DOMAIN tree \/ tree[next].t # "link" \/ tree[next].t = "link"
      OBVIOUS
    <2> QED BY <2>1, <2>2, <2>3, <2>4, Zenon DEF s, w
  <1> QED BY <1>5, <1>6, <1>7

LEMMA GoesIsStep ==
    ASSUME NEW tree, NEW a, NEW rest, NEW b, NEW r, Goes(tree, a, rest, b, r)
    PROVE  Step(tree, On(a, rest)) = On(b, r)
  <1> DEFINE next == Append(a, Head(rest))
  <1>0. rest # <<>> /\ Is("dir", tree, a)
    BY Zenon DEF Goes
  <1>1. Does(tree, a, rest, Step(tree, On(a, rest)))
    BY <1>0, StepIs
  <1>2. CASE Head(rest) = ".."
    <2>1. a # <<>> /\ b = Front(a) /\ r = Tail(rest)
      BY <1>2, Zenon DEF Goes
    <2> QED BY <1>0, <1>1, <1>2, <2>1, Zenon DEF Does
  <1>3. CASE Head(rest) # ".." /\ tree[next].t # "link"
    <2>1. next \in DOMAIN tree /\ b = next /\ r = Tail(rest)
      BY <1>3, Zenon DEF Goes
    <2> QED BY <1>0, <1>1, <1>3, <2>1, Zenon DEF Does
  <1>4. CASE Head(rest) # ".." /\ tree[next].t = "link"
    <2>1. next \in DOMAIN tree /\ ~(tree[next].t # "link")
      BY <1>4, Zenon DEF Goes
    <2> DEFINE w == On(a, rest)
               s == Step(tree, w)
    <2>2. w.at = a /\ w.rest = rest /\ w.st = "walk"
      BY DEF On
    <2>3. s = [w EXCEPT !.at = IF tree[next].abs THEN <<>> ELSE @, !.rest = tree[next].to \o Tail(rest)]
      <3> HIDE DEF w
      <3> QED BY <1>0, <1>4, <2>1, <2>2, Zenon DEF Step
    <2>4. b = (IF tree[next].abs THEN <<>> ELSE a) /\ r = tree[next].to \o Tail(rest)
      BY <1>4, <2>1, Zenon DEF Goes
    <2>5. s = [w EXCEPT !.at = b, !.rest = r]
      BY <2>2, <2>3, <2>4
    <2>6. s = On(b, r)
      <3> HIDE DEF s
      <3> QED BY <2>5 DEF On, w
    <2> QED BY <2>6
  <1> QED BY <1>2, <1>3, <1>4

LEMMA GoesOnce ==
    ASSUME NEW tree, NEW a, NEW rest, NEW b, NEW r, Goes(tree, a, rest, b, r),
           NEW c, NEW s, Goes(tree, a, rest, c, s)
    PROVE  b = c /\ r = s
  <1>1. On(b, r) = On(c, s)
    BY GoesIsStep
  <1>2. On(b, r).at = b /\ On(b, r).rest = r /\ On(c, s).at = c /\ On(c, s).rest = s
    BY DEF On
  <1> QED BY <1>1, <1>2

LEMMA LeadsNil ==
    ASSUME NEW tree, NEW a, NEW k \in Nat, NEW q
    PROVE  Leads(tree, On(a, <<>>), k, q) <=> k # 0 /\ q = a
  <1> DEFINE w == On(a, <<>>)
             s == Step(tree, w)
  <1>1. w.at = a /\ w.rest = <<>> /\ w.st = "walk"
    BY DEF On
  <1>2. s = [w EXCEPT !.st = "ok"]
    <2> HIDE DEF w
    <2> QED BY <1>1, Zenon DEF Step
  <1>3. s.st = "ok" /\ s.at = a
    BY <1>1, <1>2 DEF On
  <1> HIDE DEF w, s
  <1>4. CASE k = 0
    BY <1>1, <1>4, LeadsNow DEF w
  <1>5. CASE k # 0
    <2>1. k - 1 \in Nat /\ k = (k - 1) + 1
      BY <1>5
    <2>2. Leads(tree, w, (k - 1) + 1, q) <=> Leads(tree, s, k - 1, q)
      BY <2>1, LeadsNext DEF s
    <2>3. Leads(tree, s, k - 1, q) <=> s.st = "ok" /\ s.at = q
      BY <1>3, <2>1, EndedLeads
    <2> QED BY <1>3, <1>5, <2>1, <2>2, <2>3 DEF w
  <1> QED BY <1>4, <1>5

LEMMA LeadsGoes ==
    ASSUME NEW tree, NEW a, NEW rest, rest # <<>>, NEW k \in Nat, NEW q
    PROVE  /\ Leads(tree, On(a, rest), k, q) =>
                 k - 1 \in Nat /\ \E b, r : Goes(tree, a, rest, b, r) /\ Leads(tree, On(b, r), k - 1, q)
           /\ \A b, r : Goes(tree, a, rest, b, r) /\ Leads(tree, On(b, r), k, q) => Leads(tree, On(a, rest), k + 1, q)
  <1>1. ASSUME Leads(tree, On(a, rest), k, q)
        PROVE  k - 1 \in Nat /\ \E b, r : Goes(tree, a, rest, b, r) /\ Leads(tree, On(b, r), k - 1, q)
    <2>1. On(a, rest).st = "walk"
      BY DEF On
    <2>2. k - 1 \in Nat /\ Leads(tree, Step(tree, On(a, rest)), k - 1, q)
      BY <1>1, <2>1, LeadsAfter
    <2>3. Step(tree, On(a, rest)).st \notin {"notdir", "escape", "absent"}
      <3>1. ASSUME Step(tree, On(a, rest)).st \in {"notdir", "escape", "absent"} PROVE FALSE
        <4>1. Step(tree, On(a, rest)).st # "walk" /\ Step(tree, On(a, rest)).st # "ok"
          BY <3>1
        <4> QED BY <2>2, <4>1, EndedLeads
      <3> QED BY <3>1
    <2>4. PICK b, r : Goes(tree, a, rest, b, r) /\ Step(tree, On(a, rest)) = On(b, r)
      BY <2>3, StepGoes
    <2> QED BY <2>2, <2>4
  <1>2. ASSUME NEW b, NEW r, Goes(tree, a, rest, b, r), Leads(tree, On(b, r), k, q)
        PROVE  Leads(tree, On(a, rest), k + 1, q)
    <2>1. Step(tree, On(a, rest)) = On(b, r)
      BY <1>2, GoesIsStep
    <2> QED BY <1>2, <2>1, LeadsNext
  <1> QED BY <1>1, <1>2

LEMMA LeadsOn ==
    ASSUME NEW tree, NEW a, NEW rest, rest # <<>>, NEW k \in Nat, NEW q, Leads(tree, On(a, rest), k + 1, q)
    PROVE  \E b, r : Goes(tree, a, rest, b, r) /\ Leads(tree, On(b, r), k, q)
  <1> DEFINE m == k + 1
  <1>1. m \in Nat /\ m - 1 = k
    OBVIOUS
  <1> HIDE DEF m
  <1>2. Leads(tree, On(a, rest), m, q)
    BY DEF m
  <1>3. \E b, r : Goes(tree, a, rest, b, r) /\ Leads(tree, On(b, r), m - 1, q)
    BY <1>1, <1>2, LeadsGoes, Zenon
  <1> QED BY <1>1, <1>3

\* A tree within another: what is found in it is found in the other.
Part(t, u) == \A p \in DOMAIN t : p \in DOMAIN u /\ u[p] = t[p]

LEMMA PartIs ==
    ASSUME NEW t, NEW u, Part(t, u), NEW a, NEW rest, NEW b, NEW r, Goes(t, a, rest, b, r)
    PROVE  Goes(u, a, rest, b, r)
  <1>1. Is("dir", u, a)
    BY Zenon DEF Goes, Part, Is, Exists, Node
  <1> QED BY <1>1, Zenon DEF Goes, Part

LEMMA PartLeads ==
    ASSUME NEW t, NEW u, Part(t, u), NEW a, NEW rest, NEW k \in Nat, NEW q, Leads(t, On(a, rest), k, q)
    PROVE  Leads(u, On(a, rest), k, q)
  <1> DEFINE I == {n \in Nat : \A x, y : Leads(t, On(x, y), n, q) => Leads(u, On(x, y), n, q)}
  <1>1. 0 \in I
    <2>1. ASSUME NEW x, NEW y, Leads(t, On(x, y), 0, q) PROVE FALSE
      BY <2>1, LeadsNow DEF On
    <2> QED BY <2>1
  <1>2. ASSUME NEW n \in I PROVE n + 1 \in I
    <2>1. n \in Nat /\ n + 1 \in Nat /\ (n + 1) - 1 = n
      OBVIOUS
    <2>2. ASSUME NEW x, NEW y, Leads(t, On(x, y), n + 1, q) PROVE Leads(u, On(x, y), n + 1, q)
      <3>1. CASE y = <<>>
        BY <2>1, <2>2, <3>1, LeadsNil
      <3>2. CASE y # <<>>
        <4>1. PICK b, r : Goes(t, x, y, b, r) /\ Leads(t, On(b, r), n, q)
          BY <2>1, <2>2, <3>2, LeadsOn, Zenon
        <4>2. Goes(u, x, y, b, r)
          BY <4>1, PartIs
        <4>3. Leads(u, On(b, r), n, q)
          BY <4>1
        <4> QED BY <2>1, <3>2, <4>2, <4>3, LeadsGoes
      <3> QED BY <3>1, <3>2
    <2> QED BY <2>1, <2>2
  <1> HIDE DEF I
  <1>3. I = Nat
    BY <1>1, <1>2, Induction DEF I
  <1> QED BY <1>3 DEF I

-----------------------------------------------------------------------------
\* Walks of paths one after the other.

LEMMA HeadConcat ==
    ASSUME NEW S, NEW p \in Seq(S), p # <<>>, NEW r \in Seq(S)
    PROVE  /\ p \o r \in Seq(S) /\ p \o r # <<>>
           /\ Head(p \o r) = Head(p) /\ Tail(p \o r) = Tail(p) \o r
           /\ Head(p) \in S /\ Tail(p) \in Seq(S)
  <1>1. p \o r \in Seq(S) /\ p \o r # <<>>
    BY ConcatProperties, ConcatEqualIffEmpty
  <1>2. (p \o r)[1] = p[1] /\ Head(p) = p[1]
    <2>1. Len(p) \in Nat \ {0} /\ Len(r) \in Nat
      BY EmptySeq
    <2>2. 1 \in 1..(Len(p) + Len(r)) /\ 1 <= Len(p)
      BY <2>1
    <2>3. (p \o r)[1] = p[1]
      BY <2>2, ConcatProperties
    <2> QED BY <2>3, HeadTailPath
  <1>3. /\ Head(p \o r) = (p \o r)[1] /\ Tail(p \o r) \in Seq(S)
        /\ p \o r = <<Head(p \o r)>> \o Tail(p \o r)
    BY <1>1, HeadTailPath
  <1>4. Head(p) \in S /\ Tail(p) \in Seq(S) /\ p = <<Head(p)>> \o Tail(p)
    BY HeadTailPath
  <1>5. p \o r = <<Head(p)>> \o (Tail(p) \o r)
    <2>1. <<Head(p)>> \in Seq(S)
      BY <1>4
    <2>2. \A x, y \in Seq(S) : (x \o y) \o r = x \o (y \o r)
      BY ConcatAssociative, SMTT(60)
    <2> QED BY <1>4, <2>1, <2>2
  <1>6. Tail(p \o r) = Tail(p) \o r
    <2>1. <<Head(p)>> \in Seq(S) /\ Tail(p) \o r \in Seq(S)
      BY <1>4, ConcatProperties
    <2>2. <<Head(p)>> \o Tail(p \o r) = <<Head(p)>> \o (Tail(p) \o r)
      BY <1>2, <1>3, <1>5
    <2>3. \A x, y, z \in Seq(S) : x \o y = x \o z => y = z
      BY ConcatSimplifications
    <2> QED BY <1>3, <2>1, <2>2, <2>3
  <1> QED BY <1>1, <1>2, <1>3, <1>4, <1>6

LEMMA GoesIn ==
    ASSUME NEW tree, LinksIn(tree), NEW a \in Seq(In), NEW rest \in Seq(InUp), NEW b, NEW r,
           Goes(tree, a, rest, b, r)
    PROVE  b \in Seq(In) /\ r \in Seq(InUp)
  <1> DEFINE next == Append(a, Head(rest))
  <1>1. rest # <<>>
    BY Zenon DEF Goes
  <1>2. Head(rest) \in InUp /\ Tail(rest) \in Seq(InUp)
    BY <1>1, HeadTailPath
  <1>3. Head(rest) # ".." => next \in Seq(In)
    BY <1>2, AppendPath DEF InUp
  <1>4. CASE Head(rest) = ".."
    <2>1. a # <<>> /\ b = Front(a) /\ r = Tail(rest)
      BY <1>4, Zenon DEF Goes
    <2> QED BY <1>2, <2>1, FrontPath
  <1>5. CASE Head(rest) # ".." /\ tree[next].t # "link"
    <2>1. b = next /\ r = Tail(rest)
      BY <1>5, Zenon DEF Goes
    <2> QED BY <1>2, <1>3, <1>5, <2>1
  <1>6. CASE Head(rest) # ".." /\ tree[next].t = "link"
    <2>1. next \in DOMAIN tree /\ b = (IF tree[next].abs THEN <<>> ELSE a) /\ r = tree[next].to \o Tail(rest)
      <3>1. ~(tree[next].t # "link")
        BY <1>6
      <3> QED BY <1>6, <3>1, Zenon DEF Goes
    <2> HIDE DEF next
    <2>2. tree[next].to \in Seq(InUp)
      BY <1>3, <1>6, <2>1 DEF LinksIn
    <2>3. r \in Seq(InUp)
      BY <1>2, <2>1, <2>2, ConcatProperties
    <2>4. b \in Seq(In)
      BY <2>1, EmptySeq
    <2> QED BY <2>3, <2>4
  <1> QED BY <1>4, <1>5, <1>6

\* r is s and then q.
Then(r, s, q) == r = s \o q

LEMMA GoesMore ==
    ASSUME NEW tree, LinksIn(tree), NEW a \in Seq(In), NEW p \in Seq(InUp), p # <<>>, NEW q \in Seq(InUp)
    PROVE  /\ \A b, s : Goes(tree, a, p, b, s) => Goes(tree, a, p \o q, b, s \o q)
           /\ \A b, r : Goes(tree, a, p \o q, b, r) => \E s : Goes(tree, a, p, b, s) /\ Then(r, s, q)
  <1> DEFINE next == Append(a, Head(p))
  <1>1. /\ p \o q # <<>> /\ Head(p \o q) = Head(p) /\ Tail(p \o q) = Tail(p) \o q
        /\ Head(p) \in InUp /\ Tail(p) \in Seq(InUp)
    BY HeadConcat
  <1>2. ASSUME Head(p) # "..", next \in DOMAIN tree, tree[next].t = "link"
        PROVE  tree[next].to \o (Tail(p) \o q) = (tree[next].to \o Tail(p)) \o q
    <2>1. next \in Seq(In)
      BY <1>1, <1>2, AppendPath DEF InUp
    <2> HIDE DEF next
    <2>2. tree[next].to \in Seq(InUp)
      BY <1>2, <2>1 DEF LinksIn
    <2>3. \A x, y, z \in Seq(InUp) : (x \o y) \o z = x \o (y \o z)
      BY ConcatAssociative, SMTT(60)
    <2> QED BY <1>1, <2>2, <2>3
  <1>3. ASSUME NEW b, NEW s, Goes(tree, a, p, b, s) PROVE Goes(tree, a, p \o q, b, s \o q)
    <2>1. CASE Head(p) = ".."
      BY <1>1, <1>3, <2>1, Zenon DEF Goes
    <2>2. CASE Head(p) # ".." /\ tree[next].t # "link"
      BY <1>1, <1>3, <2>2, Zenon DEF Goes
    <2>3. CASE Head(p) # ".." /\ tree[next].t = "link"
      <3>1. ~(tree[next].t # "link")
        BY <2>3
      <3>2. next \in DOMAIN tree /\ b = (IF tree[next].abs THEN <<>> ELSE a) /\ s = tree[next].to \o Tail(p)
            /\ Is("dir", tree, a)
        BY <1>3, <2>3, <3>1, Zenon DEF Goes
      <3>3. s \o q = tree[next].to \o Tail(p \o q)
        BY <1>1, <1>2, <2>3, <3>2
      <3> QED BY <1>1, <2>3, <3>2, <3>3, Zenon DEF Goes
    <2> QED BY <2>1, <2>2, <2>3
  <1>4. ASSUME NEW b, NEW r, Goes(tree, a, p \o q, b, r) PROVE \E s : Goes(tree, a, p, b, s) /\ Then(r, s, q)
    <2>1. CASE Head(p) = ".."
      <3>1. Goes(tree, a, p, b, Tail(p)) /\ r = Tail(p \o q)
        BY <1>1, <1>4, <2>1, Zenon DEF Goes
      <3> QED BY <1>1, <3>1 DEF Then
    <2>2. CASE Head(p) # ".." /\ tree[next].t # "link"
      <3>1. Goes(tree, a, p, b, Tail(p)) /\ r = Tail(p \o q)
        BY <1>1, <1>4, <2>2, Zenon DEF Goes
      <3> QED BY <1>1, <3>1 DEF Then
    <2>3. CASE Head(p) # ".." /\ tree[next].t = "link"
      <3>1. ~(tree[next].t # "link")
        BY <2>3
      <3>2. next \in DOMAIN tree /\ b = (IF tree[next].abs THEN <<>> ELSE a) /\ r = tree[next].to \o Tail(p \o q)
            /\ Is("dir", tree, a)
        BY <1>1, <1>4, <2>3, <3>1, Zenon DEF Goes
      <3>3. Goes(tree, a, p, b, tree[next].to \o Tail(p))
        BY <2>3, <3>2, Zenon DEF Goes
      <3>4. r = (tree[next].to \o Tail(p)) \o q
        BY <1>1, <1>2, <2>3, <3>2
      <3> QED BY <3>3, <3>4 DEF Then
    <2> QED BY <2>1, <2>2, <2>3
  <1> QED BY <1>3, <1>4

LEMMA GoesLess ==
    ASSUME NEW tree, LinksIn(tree), NEW a \in Seq(In), NEW p \in Seq(InUp), p # <<>>, NEW q \in Seq(InUp),
           NEW b, NEW r, Goes(tree, a, p \o q, b, r)
    PROVE  \E s : Goes(tree, a, p, b, s) /\ Then(r, s, q)
  BY GoesMore

\* A walk of two paths is a walk of the first and then one of the second.
LEMMA LeadsJoin ==
    ASSUME NEW tree, LinksIn(tree), NEW a \in Seq(In), NEW p \in Seq(InUp), NEW r \in Seq(InUp),
           NEW k \in Nat, NEW q, Leads(tree, On(a, p \o r), k, q)
    PROVE  \E b \in Seq(In), i, j \in Nat : /\ Leads(tree, On(a, p), i, b) /\ Leads(tree, On(b, r), j, q)
                                            /\ j <= k /\ (p # <<>> => j < k)
  <1> DEFINE Split(x, y, n) == \E b \in Seq(In), i, j \in Nat :
                 /\ Leads(tree, On(x, y), i, b) /\ Leads(tree, On(b, r), j, q)
                 /\ j <= n /\ (y # <<>> => j < n)
             I == {n \in Nat : \A x \in Seq(In), y \in Seq(InUp) : Leads(tree, On(x, y \o r), n, q) => Split(x, y, n)}
  <1>1. 0 \in I
    <2>1. ASSUME NEW x, NEW y, Leads(tree, On(x, y), 0, q) PROVE FALSE
      BY <2>1, LeadsNow DEF On
    <2> QED BY <2>1
  <1>2. ASSUME NEW n \in I PROVE n + 1 \in I
    <2>1. n \in Nat /\ n + 1 \in Nat /\ 1 \in Nat
      OBVIOUS
    <2>2. ASSUME NEW x \in Seq(In), NEW y \in Seq(InUp), Leads(tree, On(x, y \o r), n + 1, q)
          PROVE  Split(x, y, n + 1)
      <3>1. CASE y = <<>>
        <4>1. y \o r = r
          BY <3>1, ConcatEmptySeq
        <4>2. Leads(tree, On(x, r), n + 1, q)
          BY <2>2, <4>1
        <4>3. Leads(tree, On(x, y), 1, x)
          BY <2>1, <3>1, LeadsNil
        <4>4. n + 1 <= n + 1
          BY <2>1
        <4> QED BY <2>1, <3>1, <4>2, <4>3, <4>4
      <3>2. CASE y # <<>>
        <4>0. y \o r # <<>>
          BY <3>2, HeadConcat
        <4>1. PICK b, s : Goes(tree, x, y \o r, b, s) /\ Leads(tree, On(b, s), n, q)
          BY <2>1, <2>2, <4>0, LeadsOn, Zenon
        <4>2. PICK u : Goes(tree, x, y, b, u) /\ Then(s, u, r)
          <5>1. Goes(tree, x, y \o r, b, s)
            BY <4>1
          <5> HIDE DEF I, Split
          <5> QED BY <3>2, <5>1, GoesLess
        <4>3. b \in Seq(In) /\ u \in Seq(InUp)
          BY <4>2, GoesIn
        <4>4. Split(b, u, n)
          <5>1. Leads(tree, On(b, u \o r), n, q)
            BY <4>1, <4>2 DEF Then
          <5> QED BY <4>3, <5>1
        <4>5. PICK c \in Seq(In), i \in Nat, j \in Nat :
                 Leads(tree, On(b, u), i, c) /\ Leads(tree, On(c, r), j, q) /\ j <= n
          BY <4>4
        <4>6. i + 1 \in Nat /\ j <= n + 1 /\ j < n + 1
          BY <2>1, <4>5
        <4>7. Leads(tree, On(x, y), i + 1, c)
          BY <3>2, <4>2, <4>5, LeadsGoes
        <4> QED BY <4>5, <4>6, <4>7
      <3> QED BY <3>1, <3>2
    <2> HIDE DEF Split
    <2> QED BY <2>1, <2>2
  <1> HIDE DEF I
  <1>3. I = Nat
    BY <1>1, <1>2, Induction DEF I
  <1>4. Split(a, p, k)
    <2> HIDE DEF Split
    <2> QED BY <1>3 DEF I
  <1> QED BY <1>4

LEMMA LeadsMeet ==
    ASSUME NEW tree, LinksIn(tree), NEW a \in Seq(In), NEW p \in Seq(InUp), NEW r \in Seq(InUp),
           NEW b, NEW i \in Nat, Leads(tree, On(a, p), i, b),
           NEW q, NEW j \in Nat, Leads(tree, On(b, r), j, q)
    PROVE  \E k \in Nat : Leads(tree, On(a, p \o r), k, q)
  <1> DEFINE Met(x, y) == \E k \in Nat : Leads(tree, On(x, y \o r), k, q)
             I == {n \in Nat : \A x \in Seq(In), y \in Seq(InUp) : Leads(tree, On(x, y), n, b) => Met(x, y)}
  <1>1. 0 \in I
    <2>1. ASSUME NEW x, NEW y, Leads(tree, On(x, y), 0, b) PROVE FALSE
      BY <2>1, LeadsNow DEF On
    <2> QED BY <2>1
  <1>2. ASSUME NEW n \in I PROVE n + 1 \in I
    <2>1. n \in Nat /\ n + 1 \in Nat
      OBVIOUS
    <2>2. ASSUME NEW x \in Seq(In), NEW y \in Seq(InUp), Leads(tree, On(x, y), n + 1, b)
          PROVE  Met(x, y)
      <3>1. CASE y = <<>>
        <4>1. y \o r = r
          BY <3>1, ConcatEmptySeq
        <4>2. b = x
          BY <2>1, <2>2, <3>1, LeadsNil
        <4> QED BY <4>1, <4>2
      <3>2. CASE y # <<>>
        <4>1. PICK c, s : Goes(tree, x, y, c, s) /\ Leads(tree, On(c, s), n, b)
          BY <2>1, <2>2, <3>2, LeadsOn, Zenon
        <4>2. c \in Seq(In) /\ s \in Seq(InUp)
          BY <4>1, GoesIn
        <4>3. Met(c, s)
          BY <4>1, <4>2
        <4>4. PICK k \in Nat : Leads(tree, On(c, s \o r), k, q)
          BY <4>3
        <4>5. Goes(tree, x, y \o r, c, s \o r) /\ y \o r # <<>>
          BY <3>2, <4>1, GoesMore, HeadConcat
        <4>6. Leads(tree, On(x, y \o r), k + 1, q) /\ k + 1 \in Nat
          <5>1. k + 1 \in Nat
            OBVIOUS
          <5>2. \A c1, r1 : Goes(tree, x, y \o r, c1, r1) /\ Leads(tree, On(c1, r1), k, q) =>
                             Leads(tree, On(x, y \o r), k + 1, q)
            BY <4>5, LeadsGoes, Zenon
          <5> QED BY <4>4, <4>5, <5>1, <5>2, Zenon
        <4> QED BY <4>6
      <3> QED BY <3>1, <3>2
    <2> HIDE DEF Met
    <2> QED BY <2>1, <2>2
  <1> HIDE DEF I
  <1>3. I = Nat
    BY <1>1, <1>2, Induction DEF I
  <1>4. Met(a, p)
    <2> HIDE DEF Met
    <2> QED BY <1>3 DEF I
  <1> QED BY <1>4

-----------------------------------------------------------------------------
\* Along a real path, and from its end.

LEMMA AppendSingle ==
    ASSUME NEW S, NEW p \in Seq(S), NEW x \in S
    PROVE  /\ Append(p, x) = p \o <<x>>
           /\ <<x>> \in Seq(S) /\ <<x>> # <<>> /\ Head(<<x>>) = x /\ Tail(<<x>>) = <<>>
  OBVIOUS

\* One name down.
LEMMA LeadsDown ==
    ASSUME NEW t, IsTree(t), NEW a \in Seq(In), NEW n \in In, Append(a, n) \in DOMAIN t, t[Append(a, n)].t # "link"
    PROVE  /\ Leads(t, On(a, <<n>>), 2, Append(a, n))
           /\ \A k \in Nat : \A b : Leads(t, On(a, <<n>>), k, b) => b = Append(a, n)
           /\ Is("dir", t, a)
  <1> DEFINE e == Append(a, n)
             r == <<n>>
  <1>1. r # <<>> /\ Head(r) = n /\ Tail(r) = <<>> /\ n # ".."
    BY AppendSingle, InIs
  <1>2. Is("dir", t, a)
    <2>1. Front(e) = a
      BY AppendPath
    <2> HIDE DEF e
    <2>2. e \in DOMAIN t
      BY DEF e
    <2> QED BY <2>1, <2>2, TreeNode
  <1> HIDE DEF r
  <1>3. Goes(t, a, r, e, <<>>)
    BY <1>1, <1>2, Zenon DEF Goes, e
  <1>4. 1 \in Nat /\ 2 \in Nat /\ 1 + 1 = 2
    OBVIOUS
  <1>5. Leads(t, On(e, <<>>), 1, e)
    BY <1>4, LeadsNil
  <1>6. Leads(t, On(a, r), 2, e)
    <2>1. \A b, x : Goes(t, a, r, b, x) /\ Leads(t, On(b, x), 1, e) => Leads(t, On(a, r), 1 + 1, e)
      BY <1>1, <1>4, LeadsGoes, Zenon
    <2>2. Leads(t, On(a, r), 1 + 1, e)
      BY <1>3, <1>5, <2>1, Zenon
    <2> QED BY <1>4, <2>2
  <1>7. ASSUME NEW k \in Nat, NEW b, Leads(t, On(a, r), k, b) PROVE b = e
    BY <1>4, <1>6, <1>7, LeadsOnce, Zenon
  <1> QED BY <1>2, <1>6, <1>7 DEF r

\* Where a walk may go on from.
Real1(t, a) == a = <<>> \/ (a \in DOMAIN t /\ t[a].t # "link")

LEMMA RealLeads ==
    ASSUME NEW t, IsTree(t), LinksIn(t), NEW a \in Seq(In), Real1(t, a)
    PROVE  \E k \in Nat : Leads(t, On(<<>>, a), k, a)
  <1> DEFINE Found(x) == \E k \in Nat : Leads(t, On(<<>>, x), k, x)
             I == {n \in Nat : \A x \in Seq(In) : Len(x) = n /\ Real1(t, x) => Found(x)}
  <1>0. <<>> \in Seq(In) /\ 1 \in Nat /\ 2 \in Nat
    BY EmptySeq
  <1>1. 0 \in I
    <2>1. ASSUME NEW x \in Seq(In), Len(x) = 0 PROVE Found(x)
      <3>1. x = <<>>
        BY <2>1, EmptySeq
      <3>2. Leads(t, On(<<>>, <<>>), 1, <<>>)
        BY <1>0, LeadsNil
      <3> QED BY <1>0, <3>1, <3>2
    <2> QED BY <2>1
  <1>2. ASSUME NEW n \in I PROVE n + 1 \in I
    <2>1. n \in Nat /\ n + 1 \in Nat
      OBVIOUS
    <2>2. ASSUME NEW x \in Seq(In), Len(x) = n + 1, Real1(t, x) PROVE Found(x)
      <3> DEFINE f == Front(x)
                 l == Last(x)
      <3>1. x # <<>>
        BY <2>1, <2>2, EmptySeq
      <3>2. f \in Seq(In) /\ l \in In /\ x = Append(f, l) /\ Len(f) = n
        <4>1. f \in Seq(In) /\ l \in In /\ x = Append(f, l) /\ Len(x) = Len(f) + 1
          BY <3>1, FrontPath
        <4>2. Len(f) \in Nat
          BY <4>1, LenProperties
        <4> HIDE DEF f, l
        <4> QED BY <2>1, <2>2, <4>1, <4>2
      <3>3. x \in DOMAIN t /\ t[x].t # "link"
        BY <2>2, <3>1 DEF Real1
      <3>4. Leads(t, On(f, <<l>>), 2, x) /\ Is("dir", t, f)
        <4> HIDE DEF f, l
        <4> QED BY <3>2, <3>3, LeadsDown
      <3>5. Real1(t, f)
        <4> HIDE DEF f
        <4>1. t[f].t = "dir" => t[f].t # "link"
          BY Zenon
        <4> QED BY <3>4, <4>1 DEF Is, Exists, Node, Real1
      <3>6. PICK i \in Nat : Leads(t, On(<<>>, f), i, f)
        <4> HIDE DEF f
        <4> QED BY <3>2, <3>5
      <3> HIDE DEF f, l
      <3>7. f \in Seq(InUp) /\ <<l>> \in Seq(InUp) /\ f \o <<l>> = x
        <4>1. Append(f, l) = f \o <<l>> /\ <<l>> \in Seq(In)
          BY <3>2, AppendSingle
        <4> QED BY <3>2, <4>1, InIs
      <3>8. \E k \in Nat : Leads(t, On(<<>>, f \o <<l>>), k, x)
        BY <1>0, <3>4, <3>6, <3>7, LeadsMeet
      <3> QED BY <3>7, <3>8
    <2> QED BY <2>1, <2>2
  <1> HIDE DEF I
  <1>3. I = Nat
    BY <1>1, <1>2, Induction DEF I
  <1>4. Len(a) \in Nat
    BY LenProperties
  <1> QED BY <1>3, <1>4 DEF I

LEMMA RealJoin ==
    ASSUME NEW t, IsTree(t), LinksIn(t), NEW a \in Seq(In), Real1(t, a), NEW r \in Seq(InUp), NEW b
    PROVE  (\E k \in Nat : Leads(t, On(<<>>, a \o r), k, b)) <=> (\E k \in Nat : Leads(t, On(a, r), k, b))
  <1>1. PICK i \in Nat : Leads(t, On(<<>>, a), i, a)
    BY RealLeads
  <1>2. a \in Seq(InUp) /\ <<>> \in Seq(In)
    BY InIs, EmptySeq
  <1>3. ASSUME NEW k \in Nat, Leads(t, On(<<>>, a \o r), k, b) PROVE \E j \in Nat : Leads(t, On(a, r), j, b)
    <2>1. PICK c \in Seq(In), m \in Nat, j \in Nat : Leads(t, On(<<>>, a), m, c) /\ Leads(t, On(c, r), j, b)
      BY <1>2, <1>3, LeadsJoin
    <2>2. c = a
      BY <1>1, <2>1, LeadsOnce
    <2> QED BY <2>1, <2>2
  <1>4. ASSUME NEW k \in Nat, Leads(t, On(a, r), k, b) PROVE \E j \in Nat : Leads(t, On(<<>>, a \o r), j, b)
    BY <1>1, <1>2, <1>4, LeadsMeet
  <1> QED BY <1>3, <1>4

-----------------------------------------------------------------------------
\* What the copy of a package has where.  The store without the output; the links that
\* are kept; one name on from what the directory comes from, unless that is a link that
\* is kept; and so on, from the package.

Store(tree) == [p \in {q \in DOMAIN tree : q \in Seq(In)} |-> tree[p]]
KeptIn(S, e) == e \in DOMAIN S /\ S[e].t = "link" /\ Keeps(S, e)
Hop(S, t, a, n, b) == /\ Append(a, n) \in DOMAIN t /\ ~KeptIn(S, Append(a, n))
                      /\ \E k \in Nat : Leads(t, On(a, <<n>>), k, b)
Chain(S, t, d, r) == /\ DOMAIN r = 0..Len(d) /\ r[0] = <<Source>>
                     /\ \A i \in 1..Len(d) : Hop(S, t, r[i - 1], d[i], r[i])
Comes(S, t, d, q) == \E r : Chain(S, t, d, r) /\ r[Len(d)] = q
\* What is found for a path, whether it is kept or not.
Finds(S, t, d, e) == \E a : Comes(S, t, Front(d), a) /\ e = Append(a, Last(d)) /\ e \in DOMAIN t

LEMMA ComesNil ==
    ASSUME NEW S, NEW t, NEW q
    PROVE  Comes(S, t, <<>>, q) <=> q = <<Source>>
  <1>1. Len(<<>>) = 0 /\ 0 \in 0..0 /\ 1..0 = {}
    OBVIOUS
  <1>2. ASSUME Comes(S, t, <<>>, q) PROVE q = <<Source>>
    <2>1. PICK r : Chain(S, t, <<>>, r) /\ r[Len(<<>>)] = q
      BY <1>2, Zenon DEF Comes
    <2> QED BY <1>1, <2>1 DEF Chain
  <1>3. ASSUME q = <<Source>> PROVE Comes(S, t, <<>>, q)
    <2> DEFINE r == [i \in 0..0 |-> <<Source>>]
    <2>1. DOMAIN r = 0..0 /\ r[0] = <<Source>>
      BY <1>1
    <2> HIDE DEF r
    <2>2. Chain(S, t, <<>>, r)
      BY <1>1, <2>1 DEF Chain
    <2> QED BY <1>1, <1>3, <2>1, <2>2 DEF Comes
  <1> QED BY <1>2, <1>3

LEMMA ComesNext ==
    ASSUME NEW S, NEW t, NEW d \in Seq(In), NEW n \in In, NEW b
    PROVE  Comes(S, t, Append(d, n), b) <=> \E a : Comes(S, t, d, a) /\ Hop(S, t, a, n, b)
  <1> DEFINE m == Len(d)
             e == Append(d, n)
  <1>1. m \in Nat /\ Len(e) = m + 1 /\ e[m + 1] = n /\ \A i \in 1..m : e[i] = d[i]
    BY AppendProperties, LenProperties
  <1> HIDE DEF m, e
  <1>2. ASSUME Comes(S, t, e, b) PROVE \E a : Comes(S, t, d, a) /\ Hop(S, t, a, n, b)
    <2>1. PICK r : Chain(S, t, e, r) /\ r[Len(e)] = b
      BY <1>2, Zenon DEF Comes
    <2>2. DOMAIN r = 0..(m + 1) /\ r[0] = <<Source>> /\ r[m + 1] = b
          /\ \A i \in 1..(m + 1) : Hop(S, t, r[i - 1], e[i], r[i])
      BY <1>1, <2>1 DEF Chain
    <2> DEFINE s == [i \in 0..m |-> r[i]]
    <2>3. DOMAIN s = 0..m /\ \A i \in 0..m : s[i] = r[i]
      OBVIOUS
    <2> HIDE DEF s
    <2>4. 0 \in 0..m /\ m \in 0..m
      BY <1>1
    <2>5. ASSUME NEW i \in 1..m PROVE Hop(S, t, s[i - 1], d[i], s[i])
      <3>1. i \in 1..(m + 1) /\ i \in 0..m /\ i - 1 \in 0..m
        BY <1>1
      <3>2. Hop(S, t, r[i - 1], e[i], r[i])
        BY <2>2, <3>1
      <3> QED BY <1>1, <2>3, <3>1, <3>2
    <2>6. Chain(S, t, d, s)
      BY <1>1, <2>2, <2>3, <2>4, <2>5, Zenon DEF Chain, m
    <2>7. Comes(S, t, d, s[m])
      BY <2>6, Zenon DEF Comes, m
    <2>8. m + 1 \in 1..(m + 1) /\ (m + 1) - 1 = m
      BY <1>1
    <2>9. Hop(S, t, s[m], n, b)
      <3>1. Hop(S, t, r[(m + 1) - 1], e[m + 1], r[m + 1])
        BY <2>2, <2>8
      <3> QED BY <1>1, <2>2, <2>3, <2>4, <2>8, <3>1
    <2> QED BY <2>7, <2>9
  <1>3. ASSUME NEW a, Comes(S, t, d, a), Hop(S, t, a, n, b) PROVE Comes(S, t, e, b)
    <2>1. PICK r : Chain(S, t, d, r) /\ r[m] = a
      BY <1>3, Zenon DEF Comes, m
    <2>2. DOMAIN r = 0..m /\ r[0] = <<Source>> /\ \A i \in 1..m : Hop(S, t, r[i - 1], d[i], r[i])
      BY <2>1 DEF Chain, m
    <2> DEFINE s == [i \in 0..(m + 1) |-> IF i = m + 1 THEN b ELSE r[i]]
    <2>3. DOMAIN s = 0..(m + 1) /\ s[m + 1] = b /\ \A i \in 0..m : s[i] = r[i]
      BY <1>1
    <2> HIDE DEF s
    <2>4. ASSUME NEW i \in 1..(m + 1) PROVE Hop(S, t, s[i - 1], e[i], s[i])
      <3>1. CASE i = m + 1
        <4>1. i - 1 = m /\ m \in 0..m
          BY <1>1, <3>1
        <4> QED BY <1>1, <1>3, <2>1, <2>3, <3>1, <4>1
      <3>2. CASE i # m + 1
        <4>1. i \in 1..m /\ i \in 0..m /\ i - 1 \in 0..m
          BY <1>1, <3>2
        <4>2. Hop(S, t, r[i - 1], d[i], r[i])
          BY <2>2, <4>1
        <4> QED BY <1>1, <2>3, <4>1, <4>2
      <3> QED BY <3>1, <3>2
    <2>5. s[0] = <<Source>>
      <3>1. 0 \in 0..m
        BY <1>1
      <3> QED BY <2>2, <2>3, <3>1
    <2>6. Chain(S, t, e, s)
      BY <1>1, <2>3, <2>4, <2>5, Zenon DEF Chain
    <2> QED BY <1>1, <2>3, <2>6 DEF Comes
  <1> QED BY <1>2, <1>3 DEF e

\* What comes where, from what comes to its directory.
LEMMA ComesFinds ==
    ASSUME NEW S, NEW t, NEW d \in Seq(In), d # <<>>, NEW b
    PROVE  Comes(S, t, d, b) <=> \E a : /\ Comes(S, t, Front(d), a) /\ Hop(S, t, a, Last(d), b)
                                        /\ Finds(S, t, d, Append(a, Last(d)))
  <1>1. Front(d) \in Seq(In) /\ Last(d) \in In /\ d = Append(Front(d), Last(d))
    BY FrontPath
  <1>2. Comes(S, t, Append(Front(d), Last(d)), b) <=> \E a : Comes(S, t, Front(d), a) /\ Hop(S, t, a, Last(d), b)
    BY <1>1, ComesNext, Zenon
  <1>3. \A a : Comes(S, t, Front(d), a) /\ Hop(S, t, a, Last(d), b) => Finds(S, t, d, Append(a, Last(d)))
    BY Zenon DEF Hop, Finds
  <1> QED BY <1>1, <1>2, <1>3, Zenon

LEMMA ComesOnce ==
    ASSUME NEW S, NEW t, NEW u, Part(t, u), NEW d \in Seq(In), NEW p, NEW q, Comes(S, t, d, p), Comes(S, u, d, q)
    PROVE  p = q
  <1> DEFINE I == {n \in Nat : \A x \in Seq(In) : Len(x) = n => \A a, b : Comes(S, t, x, a) /\ Comes(S, u, x, b) => a = b}
  <1>1. 0 \in I
    BY ComesNil, EmptySeq
  <1>2. ASSUME NEW n \in I PROVE n + 1 \in I
    <2>1. n \in Nat /\ n + 1 \in Nat
      OBVIOUS
    <2>2. ASSUME NEW x \in Seq(In), Len(x) = n + 1, NEW a, NEW b, Comes(S, t, x, a), Comes(S, u, x, b) PROVE a = b
      <3>1. x # <<>>
        BY <2>1, <2>2, EmptySeq
      <3>2. Front(x) \in Seq(In) /\ Len(x) = Len(Front(x)) + 1 /\ Last(x) \in In
        BY <3>1, FrontPath
      <3>3. Len(Front(x)) = n
        <4>1. Len(Front(x)) \in Nat
          BY <3>2, LenProperties
        <4> QED BY <2>1, <2>2, <3>2, <4>1
      <3>4. PICK c : Comes(S, t, Front(x), c) /\ Hop(S, t, c, Last(x), a)
        BY <2>2, <3>1, ComesFinds, Zenon
      <3>5. PICK e : Comes(S, u, Front(x), e) /\ Hop(S, u, e, Last(x), b)
        BY <2>2, <3>1, ComesFinds, Zenon
      <3>6. c = e
        BY <3>2, <3>3, <3>4, <3>5
      <3>7. PICK i \in Nat : Leads(t, On(c, <<Last(x)>>), i, a)
        BY <3>4, Zenon DEF Hop
      <3>8. PICK j \in Nat : Leads(u, On(c, <<Last(x)>>), j, b)
        BY <3>5, <3>6, Zenon DEF Hop
      <3>9. Leads(u, On(c, <<Last(x)>>), i, a)
        BY <3>7, PartLeads
      <3> QED BY <3>8, <3>9, LeadsOnce
    <2> QED BY <2>1, <2>2
  <1> HIDE DEF I
  <1>3. I = Nat
    BY <1>1, <1>2, Induction DEF I
  <1>4. Len(d) \in Nat
    BY LenProperties
  <1> QED BY <1>3, <1>4 DEF I

LEMMA ComesPart ==
    ASSUME NEW S, NEW t, NEW u, Part(t, u), NEW d \in Seq(In), NEW q, Comes(S, t, d, q)
    PROVE  Comes(S, u, d, q)
  <1>1. PICK r : Chain(S, t, d, r) /\ r[Len(d)] = q
    BY Zenon DEF Comes
  <1>2. ASSUME NEW a, NEW n, NEW b, Hop(S, t, a, n, b) PROVE Hop(S, u, a, n, b)
    <2>1. PICK k \in Nat : Leads(t, On(a, <<n>>), k, b)
      BY <1>2, Zenon DEF Hop
    <2>2. Leads(u, On(a, <<n>>), k, b)
      BY <2>1, PartLeads
    <2> QED BY <1>2, <2>2, Zenon DEF Hop, Part
  <1>3. Chain(S, u, d, r)
    BY <1>1, <1>2, Zenon DEF Chain
  <1> QED BY <1>1, <1>3, Zenon DEF Comes

LEMMA FindsPart ==
    ASSUME NEW S, NEW t, NEW u, Part(t, u), NEW d \in Seq(In), d # <<>>, NEW e, Finds(S, t, d, e)
    PROVE  Finds(S, u, d, e) /\ \A f : Finds(S, u, d, f) => f = e
  <1>0. Front(d) \in Seq(In)
    BY FrontPath
  <1>1. PICK a : Comes(S, t, Front(d), a) /\ e = Append(a, Last(d)) /\ e \in DOMAIN t
    BY Zenon DEF Finds
  <1>2. Comes(S, u, Front(d), a)
    BY <1>0, <1>1, ComesPart
  <1>3. Finds(S, u, d, e)
    BY <1>1, <1>2, Zenon DEF Finds, Part
  <1>4. ASSUME NEW f, Finds(S, u, d, f) PROVE f = e
    <2>1. PICK b : Comes(S, u, Front(d), b) /\ f = Append(b, Last(d))
      BY <1>4, Zenon DEF Finds
    <2>2. a = b
      BY <1>0, <1>1, <2>1, ComesOnce
    <2> QED BY <1>1, <2>1, <2>2
  <1> QED BY <1>3, <1>4

-----------------------------------------------------------------------------
\* Where the walks of a part of the store are.

StoreTree(S) == IsTree(S) /\ StoreOK(S) /\ DOMAIN S \subseteq Seq(In) /\ Is("dir", S, <<Source>>)
SubTree(t, S) == IsTree(t) /\ Part(t, S) /\ Is("dir", t, <<Source>>)

LEMMA SubTreeIs ==
    ASSUME NEW S, StoreTree(S), NEW t, SubTree(t, S)
    PROVE  /\ IsTree(t) /\ LinksIn(t) /\ IsTree(S) /\ LinksIn(S) /\ Part(t, S)
           /\ DOMAIN t \subseteq DOMAIN S /\ DOMAIN S \subseteq Seq(In) /\ \A p \in DOMAIN t : t[p] = S[p]
           /\ Source \in In /\ <<Source>> \in Seq(In) /\ <<Source>> # <<>> /\ <<Source>>[1] = Source
           /\ <<Source>> \in DOMAIN t /\ t[<<Source>>].t = "dir" /\ Real1(t, <<Source>>)
  <1>1. LinksIn(S)
    BY StoreLinks DEF StoreTree
  <1>2. DOMAIN t \subseteq DOMAIN S /\ \A p \in DOMAIN t : t[p] = S[p]
    BY DEF SubTree, Part
  <1>3. LinksIn(t)
    BY <1>1, <1>2 DEF LinksIn
  <1>4. Source \in In
    BY ArtifactAssumption DEF In
  <1>5. <<Source>> \in Seq(In) /\ <<Source>> # <<>> /\ <<Source>>[1] = Source
    BY <1>4
  <1>6. <<Source>> \in DOMAIN t /\ t[<<Source>>].t = "dir"
    BY <1>5 DEF SubTree, Is, Exists, Node
  <1>7. Real1(t, <<Source>>)
    BY <1>6 DEF Real1
  <1> QED BY <1>1, <1>2, <1>3, <1>4, <1>5, <1>6, <1>7 DEF StoreTree, SubTree

LEMMA GoesReal ==
    ASSUME NEW t, IsTree(t), NEW a \in Seq(In), Real1(t, a), NEW rest, NEW b, NEW r, Goes(t, a, rest, b, r)
    PROVE  Real1(t, b)
  <1> DEFINE next == Append(a, Head(rest))
  <1>1. CASE Head(rest) = ".."
    <2>1. a # <<>> /\ b = Front(a)
      BY <1>1, Zenon DEF Goes
    <2>2. a \in DOMAIN t
      BY <2>1 DEF Real1
    <2>3. Is("dir", t, b)
      BY <2>1, <2>2, TreeNode
    <2>4. t[b].t = "dir" => t[b].t # "link"
      BY Zenon
    <2> QED BY <2>3, <2>4 DEF Is, Exists, Node, Real1
  <1>2. CASE Head(rest) # ".." /\ t[next].t # "link"
    <2>1. next \in DOMAIN t /\ b = next
      BY <1>2, Zenon DEF Goes
    <2> QED BY <1>2, <2>1 DEF Real1
  <1>3. CASE Head(rest) # ".." /\ t[next].t = "link"
    <2>1. ~(t[next].t # "link")
      BY <1>3
    <2>2. b = (IF t[next].abs THEN <<>> ELSE a)
      BY <1>3, <2>1, Zenon DEF Goes
    <2> QED BY <2>2 DEF Real1
  <1> QED BY <1>1, <1>2, <1>3

LEMMA LeadsPlace ==
    ASSUME NEW t, IsTree(t), LinksIn(t), NEW a \in Seq(In), Real1(t, a), NEW rest \in Seq(InUp),
           NEW k \in Nat, NEW b, Leads(t, On(a, rest), k, b)
    PROVE  b \in Seq(In) /\ Real1(t, b)
  <1> DEFINE Good(x) == x \in Seq(In) /\ Real1(t, x)
             I == {n \in Nat : \A x, y : Good(x) /\ y \in Seq(InUp) /\ Leads(t, On(x, y), n, b) => Good(b)}
  <1>1. 0 \in I
    <2>1. ASSUME NEW x, NEW y, Leads(t, On(x, y), 0, b) PROVE FALSE
      BY <2>1, LeadsNow DEF On
    <2> QED BY <2>1
  <1>2. ASSUME NEW n \in I PROVE n + 1 \in I
    <2>1. n \in Nat /\ n + 1 \in Nat
      OBVIOUS
    <2>2. ASSUME NEW x, Good(x), NEW y \in Seq(InUp), Leads(t, On(x, y), n + 1, b) PROVE Good(b)
      <3>1. CASE y = <<>>
        <4>1. b = x
          BY <2>1, <2>2, <3>1, LeadsNil
        <4> QED BY <2>2, <4>1
      <3>2. CASE y # <<>>
        <4>1. PICK c, r : Goes(t, x, y, c, r) /\ Leads(t, On(c, r), n, b)
          BY <2>1, <2>2, <3>2, LeadsOn, Zenon
        <4>2. c \in Seq(In) /\ r \in Seq(InUp)
          BY <2>2, <4>1, GoesIn
        <4>3. Real1(t, c)
          BY <2>2, <4>1, GoesReal
        <4>4. \A u, v : Good(u) /\ v \in Seq(InUp) /\ Leads(t, On(u, v), n, b) => Good(b)
          BY Zenon
        <4> QED BY <4>1, <4>2, <4>3, <4>4, Zenon
      <3> QED BY <3>1, <3>2
    <2> HIDE DEF Good
    <2> QED BY <2>1, <2>2
  <1> HIDE DEF I
  <1>3. I = Nat
    BY <1>1, <1>2, Induction DEF I
  <1> QED BY <1>3 DEF I

LEMMA ComesPlace ==
    ASSUME NEW S, StoreTree(S), NEW t, SubTree(t, S), NEW d \in Seq(In), NEW a, Comes(S, t, d, a)
    PROVE  a \in Seq(In) /\ Real1(t, a)
  <1> DEFINE Good(x) == x \in Seq(In) /\ Real1(t, x)
             I == {n \in Nat : \A x \in Seq(In) : Len(x) = n => \A b : Comes(S, t, x, b) => Good(b)}
  <1>0. /\ IsTree(t) /\ LinksIn(t) /\ <<Source>> \in Seq(In) /\ Real1(t, <<Source>>)
    BY SubTreeIs
  <1>1. 0 \in I
    <2>1. ASSUME NEW x \in Seq(In), Len(x) = 0, NEW b, Comes(S, t, x, b) PROVE Good(b)
      <3>1. x = <<>>
        BY <2>1, EmptySeq
      <3>2. b = <<Source>>
        BY <2>1, <3>1, ComesNil
      <3> QED BY <1>0, <3>2
    <2> QED BY <2>1
  <1>2. ASSUME NEW n \in I PROVE n + 1 \in I
    <2>1. n \in Nat /\ n + 1 \in Nat
      OBVIOUS
    <2>2. ASSUME NEW x \in Seq(In), Len(x) = n + 1, NEW b, Comes(S, t, x, b) PROVE Good(b)
      <3>1. x # <<>>
        BY <2>1, <2>2, EmptySeq
      <3>2. Front(x) \in Seq(In) /\ Len(x) = Len(Front(x)) + 1 /\ Last(x) \in In
        BY <3>1, FrontPath
      <3>3. Len(Front(x)) = n
        <4>1. Len(Front(x)) \in Nat
          BY <3>2, LenProperties
        <4> QED BY <2>1, <2>2, <3>2, <4>1
      <3>4. PICK c : Comes(S, t, Front(x), c) /\ Hop(S, t, c, Last(x), b)
        BY <2>2, <3>1, ComesFinds, Zenon
      <3>5. Good(c)
        BY <3>2, <3>3, <3>4
      <3>6. PICK k \in Nat : Leads(t, On(c, <<Last(x)>>), k, b)
        BY <3>4, Zenon DEF Hop
      <3>7. <<Last(x)>> \in Seq(InUp)
        BY <3>2 DEF InUp
      <3> QED BY <1>0, <3>5, <3>6, <3>7, LeadsPlace
    <2> HIDE DEF Good
    <2> QED BY <2>1, <2>2
  <1> HIDE DEF I
  <1>3. I = Nat
    BY <1>1, <1>2, Induction DEF I
  <1>4. Len(d) \in Nat
    BY LenProperties
  <1> QED BY <1>3, <1>4 DEF I

LEMMA FindsIs ==
    ASSUME NEW S, StoreTree(S), NEW t, SubTree(t, S), NEW d \in Seq(In), d # <<>>, NEW e, Finds(S, t, d, e)
    PROVE  \E a \in Seq(In) : /\ Comes(S, t, Front(d), a) /\ Real1(t, a) /\ Is("dir", t, a)
                              /\ e = Append(a, Last(d)) /\ e \in DOMAIN t /\ e \in Seq(In) /\ Front(e) = a
                              /\ Last(e) = Last(d)
  <1>1. Front(d) \in Seq(In) /\ Last(d) \in In
    BY FrontPath
  <1>2. PICK a : Comes(S, t, Front(d), a) /\ e = Append(a, Last(d)) /\ e \in DOMAIN t
    BY Zenon DEF Finds
  <1>3. a \in Seq(In) /\ Real1(t, a)
    BY <1>1, <1>2, ComesPlace
  <1>4. e \in Seq(In) /\ Front(e) = a /\ Last(e) = Last(d)
    BY <1>1, <1>2, <1>3, AppendPath
  <1>5. Is("dir", t, a)
    BY <1>2, <1>4, TreeNode DEF SubTree
  <1> QED BY <1>2, <1>3, <1>4, <1>5

LEMMA FrontLen ==
    ASSUME NEW S, NEW x \in Seq(S), NEW n \in Nat, Len(x) = n + 1
    PROVE  x # <<>> /\ Front(x) \in Seq(S) /\ Last(x) \in S /\ x = Append(Front(x), Last(x)) /\ Len(Front(x)) = n
  <1>1. x # <<>>
    BY EmptySeq
  <1>2. Front(x) \in Seq(S) /\ Last(x) \in S /\ x = Append(Front(x), Last(x)) /\ Len(x) = Len(Front(x)) + 1
    BY <1>1, FrontPath
  <1>3. Len(Front(x)) \in Nat
    BY <1>2, LenProperties
  <1> QED BY <1>1, <1>2, <1>3

\* What is found below a path comes from below what comes to that path.
LEMMA FindsBelow ==
    ASSUME NEW S, NEW t, NEW d \in Seq(In), d # <<>>, NEW e, Finds(S, t, d, e), NEW c \in Seq(In), IsStrictPrefix(c, d)
    PROVE  \E b, n : n \in In /\ Comes(S, t, c, b) /\ Append(b, n) \in DOMAIN t /\ IsPrefix(Append(c, n), d)
  <1> DEFINE Below(x) == \E b, n : n \in In /\ Comes(S, t, c, b) /\ Append(b, n) \in DOMAIN t /\ IsPrefix(Append(c, n), x)
             I == {n \in Nat : \A x \in Seq(In) : Len(x) = n + 1 =>
                       \A f : Finds(S, t, x, f) /\ IsStrictPrefix(c, x) => Below(x)}
  <1>1. ASSUME NEW x \in Seq(In), x # <<>>, NEW f, Finds(S, t, x, f), IsStrictPrefix(c, x),
               \A g : Front(x) # <<>> /\ Finds(S, t, Front(x), g) /\ IsStrictPrefix(c, Front(x)) => Below(Front(x))
        PROVE  Below(x)
    <2>1. Front(x) \in Seq(In) /\ Last(x) \in In /\ x = Append(Front(x), Last(x))
      BY <1>1, FrontPath
    <2>2. PICK a : Comes(S, t, Front(x), a) /\ f = Append(a, Last(x)) /\ f \in DOMAIN t
      BY <1>1, Zenon DEF Finds
    <2>3. IsPrefix(c, Front(x))
      BY <1>1, PrefixOfAppend DEF IsStrictPrefix
    <2>4. CASE c = Front(x)
      <3>1. IsPrefix(x, x)
        BY PrefixIs
      <3>2. IsPrefix(Append(c, Last(x)), x)
        BY <2>1, <2>4, <3>1
      <3> QED BY <2>1, <2>2, <2>4, <3>2
    <2>5. CASE c # Front(x)
      <3>1. IsStrictPrefix(c, Front(x))
        BY <2>3, <2>5 DEF IsStrictPrefix
      <3>2. Front(x) # <<>>
        <4>1. ASSUME Front(x) = <<>> PROVE FALSE
          <5>1. Len(c) <= Len(Front(x)) /\ Len(Front(x)) = 0 /\ Len(c) \in Nat
            BY <2>1, <2>3, <4>1, PrefixIs, LenProperties, EmptySeq
          <5>2. c = <<>>
            BY <5>1, EmptySeq
          <5> QED BY <2>5, <4>1, <5>2
        <4> QED BY <4>1
      <3>3. PICK g : Finds(S, t, Front(x), g)
        BY <2>1, <2>2, <3>2, ComesFinds, Zenon
      <3>4. Below(Front(x))
        BY <1>1, <3>1, <3>2, <3>3
      <3>5. PICK b, n : n \in In /\ Comes(S, t, c, b) /\ Append(b, n) \in DOMAIN t /\ IsPrefix(Append(c, n), Front(x))
        BY <3>4
      <3>6. IsPrefix(Append(c, n), x)
        <4>1. Append(c, n) \in Seq(In)
          BY <3>5, AppendPath
        <4> QED BY <1>1, <3>5, <4>1, PrefixOfAppend
      <3> QED BY <3>5, <3>6
    <2> QED BY <2>4, <2>5
  <1>2. 0 \in I
    <2>1. ASSUME NEW x \in Seq(In), Len(x) = 0 + 1, NEW f, Finds(S, t, x, f), IsStrictPrefix(c, x) PROVE Below(x)
      <3> HIDE DEF Below
      <3>0. 0 \in Nat
        OBVIOUS
      <3>1. x # <<>> /\ Front(x) \in Seq(In) /\ Len(Front(x)) = 0
        BY <2>1, <3>0, FrontLen
      <3>3. Front(x) = <<>>
        BY <3>1, EmptySeq
      <3> QED BY <1>1, <2>1, <3>1, <3>3
    <2> QED BY <2>1
  <1>3. ASSUME NEW n \in I PROVE n + 1 \in I
    <2>1. n \in Nat /\ n + 1 \in Nat
      OBVIOUS
    <2>2. ASSUME NEW x \in Seq(In), Len(x) = (n + 1) + 1, NEW f, Finds(S, t, x, f), IsStrictPrefix(c, x) PROVE Below(x)
      <3>1. x # <<>>
        BY <2>1, <2>2, EmptySeq
      <3>2. Front(x) \in Seq(In) /\ Len(x) = Len(Front(x)) + 1
        BY <3>1, FrontPath
      <3>3. Len(Front(x)) = n + 1
        <4>1. Len(Front(x)) \in Nat
          BY <3>2, LenProperties
        <4> QED BY <2>1, <2>2, <3>2, <4>1
      <3> HIDE DEF Below
      <3>4. \A g : Finds(S, t, Front(x), g) /\ IsStrictPrefix(c, Front(x)) => Below(Front(x))
        BY <3>2, <3>3
      <3> QED BY <1>1, <2>2, <3>1, <3>4
    <2> HIDE DEF Below
    <2> QED BY <2>1, <2>2
  <1> HIDE DEF I
  <1>4. I = Nat
    BY <1>2, <1>3, Induction DEF I
  <1>5. Len(d) - 1 \in Nat /\ Len(d) = (Len(d) - 1) + 1
    <2>1. Len(d) \in Nat /\ Len(d) # 0
      BY LenProperties, EmptySeq
    <2> QED BY <2>1
  <1> QED BY <1>4, <1>5 DEF I

\* Names one after the other, below the package and elsewhere.
LEMMA BelowAppend ==
    ASSUME NEW x \in Name, NEW p \in Seq(Name), NEW n \in Name
    PROVE  /\ <<x>> \o Append(p, n) = Append(<<x>> \o p, n)
           /\ <<x>> \o <<>> = <<x>>
  <1>1. <<x>> \in Seq(Name) /\ <<n>> \in Seq(Name)
    OBVIOUS
  <1>2. Append(p, n) = p \o <<n>> /\ Append(<<x>> \o p, n) = (<<x>> \o p) \o <<n>>
    <2>1. <<x>> \o p \in Seq(Name)
      BY <1>1, ConcatProperties
    <2> QED BY <2>1, AppendSingle
  <1>3. \A a, b, c \in Seq(Name) : (a \o b) \o c = a \o (b \o c)
    BY ConcatAssociative, SMTT(60)
  <1>4. <<x>> \o <<>> = <<x>>
    BY <1>1, ConcatEmptySeq
  <1> QED BY <1>1, <1>2, <1>3, <1>4

LEMMA SourceAppend ==
    /\ \A p \in Seq(In) : \A n \in In :
          /\ Append(InSource(p), n) = InSource(Append(p, n))
          /\ InSource(p) \in Seq(In) /\ InSource(p) # <<>> /\ InSource(p)[1] = Source
          /\ Tail(InSource(p)) = p
          /\ Front(InSource(Append(p, n))) = InSource(p) /\ Last(InSource(Append(p, n))) = n
    /\ InSource(<<>>) = <<Source>>
    /\ \A p \in Seq(In) : p # <<>> => InSource(p) # <<>> /\ Front(InSource(p)) = InSource(Front(p)) /\ Last(InSource(p)) = Last(p)
  <1>0. Source \in In /\ Source \in Name /\ <<>> \in Seq(Name)
    BY ArtifactAssumption, EmptySeq DEF In
  <1>1. ASSUME NEW p \in Seq(In), NEW n \in In
        PROVE  /\ Append(InSource(p), n) = InSource(Append(p, n))
               /\ InSource(p) \in Seq(In) /\ InSource(p) # <<>> /\ InSource(p)[1] = Source
               /\ Tail(InSource(p)) = p
               /\ Front(InSource(Append(p, n))) = InSource(p) /\ Last(InSource(Append(p, n))) = n
    <2>1. p \in Seq(Name) /\ n \in Name
      BY InIs
    <2>2. Append(InSource(p), n) = InSource(Append(p, n))
      BY <1>0, <2>1, BelowAppend DEF InSource
    <2>3. InSource(p) \in Seq(In)
      <3>1. <<Source>> \in Seq(In)
        BY <1>0
      <3> QED BY <3>1, ConcatProperties DEF InSource
    <2>4. InSource(p) # <<>> /\ InSource(p)[1] = Source /\ Tail(InSource(p)) = p
      BY <2>1, SourceIs
    <2>5. Front(Append(InSource(p), n)) = InSource(p) /\ Last(Append(InSource(p), n)) = n
      BY <2>3, AppendPath
    <2> QED BY <2>2, <2>3, <2>4, <2>5
  <1>2. InSource(<<>>) = <<Source>>
    BY <1>0, BelowAppend DEF InSource
  <1>3. ASSUME NEW p \in Seq(In), p # <<>>
        PROVE  InSource(p) # <<>> /\ Front(InSource(p)) = InSource(Front(p)) /\ Last(InSource(p)) = Last(p)
    <2>1. Front(p) \in Seq(In) /\ Last(p) \in In /\ p = Append(Front(p), Last(p))
      BY <1>3, FrontPath
    <2>2. Front(InSource(Append(Front(p), Last(p)))) = InSource(Front(p))
          /\ Last(InSource(Append(Front(p), Last(p)))) = Last(p)
      BY <1>1, <2>1
    <2>3. p \in Seq(Name)
      BY InIs
    <2> QED BY <2>1, <2>2, <2>3, SourceIs
  <1> QED BY <1>1, <1>2, <1>3

\* What is really in the package comes from there.
LEMMA RealComes ==
    ASSUME NEW S, StoreTree(S), NEW t, SubTree(t, S), NEW d \in Seq(In), InSource(d) \in DOMAIN t, t[InSource(d)].t # "link"
    PROVE  Comes(S, t, d, InSource(d))
  <1> DEFINE I == {n \in Nat : \A x \in Seq(In) : Len(x) = n /\ InSource(x) \in DOMAIN t /\ t[InSource(x)].t # "link"
                                  => Comes(S, t, x, InSource(x))}
  <1>0. IsTree(t) /\ Part(t, S)
    BY SubTreeIs
  <1>1. 0 \in I
    BY ComesNil, EmptySeq, SourceAppend
  <1>2. ASSUME NEW n \in I PROVE n + 1 \in I
    <2>1. n \in Nat /\ n + 1 \in Nat
      OBVIOUS
    <2>2. ASSUME NEW x \in Seq(In), Len(x) = n + 1, InSource(x) \in DOMAIN t, t[InSource(x)].t # "link"
          PROVE  Comes(S, t, x, InSource(x))
      <3> DEFINE f == Front(x)
                 l == Last(x)
      <3>1. x # <<>>
        BY <2>1, <2>2, EmptySeq
      <3>2. f \in Seq(In) /\ Len(x) = Len(f) + 1 /\ l \in In /\ x = Append(f, l)
        BY <3>1, FrontPath
      <3>3. Len(f) = n
        <4>1. Len(f) \in Nat
          BY <3>2, LenProperties
        <4> QED BY <2>1, <2>2, <3>2, <4>1
      <3> HIDE DEF f, l
      <3>4. InSource(x) = Append(InSource(f), l) /\ InSource(f) \in Seq(In) /\ InSource(f) # <<>>
        BY <3>2, SourceAppend
      <3>5. /\ Leads(t, On(InSource(f), <<l>>), 2, InSource(x)) /\ Is("dir", t, InSource(f))
        BY <1>0, <2>2, <3>2, <3>4, LeadsDown
      <3>6. InSource(f) \in DOMAIN t /\ t[InSource(f)].t # "link"
        <4>1. t[InSource(f)].t = "dir" => t[InSource(f)].t # "link"
          BY Zenon
        <4> QED BY <3>4, <3>5, <4>1 DEF Is, Exists, Node
      <3>7. Comes(S, t, f, InSource(f))
        BY <3>2, <3>3, <3>6
      <3>8. ~KeptIn(S, InSource(x))
        BY <1>0, <2>2 DEF KeptIn, Part
      <3>9. Hop(S, t, InSource(f), l, InSource(x))
        <4>1. 2 \in Nat
          OBVIOUS
        <4> QED BY <2>2, <3>4, <3>5, <3>8, <4>1, Zenon DEF Hop
      <3> QED BY <3>2, <3>7, <3>9, ComesNext, Zenon
    <2> QED BY <2>1, <2>2
  <1> HIDE DEF I
  <1>3. I = Nat
    BY <1>1, <1>2, Induction DEF I
  <1>4. Len(d) \in Nat
    BY LenProperties
  <1> QED BY <1>3, <1>4 DEF I

-----------------------------------------------------------------------------
\* The copy has looked at every link it met: none of them is a loop, or leads to
\* something below a file.

Judged(S) == \A d \in Seq(In) : \A e : d # <<>> /\ Finds(S, S, d, e) /\ S[e].t = "link" =>
                                      Eval(S, e).st \in {"ok", "absent", "escape"}
Packed(S, t) == StoreTree(S) /\ SubTree(t, S) /\ Judged(S) /\ Anchored(S)

LEMMA StartOn == ASSUME NEW p PROVE Start(p) = On(<<>>, p)
  BY DEF Start, On

LEMMA HopEval ==
    ASSUME NEW S, NEW t, Packed(S, t), NEW d \in Seq(In), d # <<>>, NEW a, Comes(S, t, Front(d), a),
           NEW e, e = Append(a, Last(d)), e \in DOMAIN t, t[e].t = "link",
           NEW k \in Nat, NEW b, Leads(t, On(a, <<Last(d)>>), k, b)
    PROVE  Resolves(S, e) /\ Eval(S, e).at = b /\ b \in DOMAIN S /\ b \in Seq(In) /\ b # <<>>
  <1>0. StoreTree(S) /\ SubTree(t, S)
    BY DEF Packed
  <1>1. /\ IsTree(t) /\ LinksIn(t) /\ Part(t, S) /\ IsTree(S) /\ DOMAIN t \subseteq DOMAIN S
        /\ \A p \in DOMAIN t : t[p] = S[p]
    BY <1>0, SubTreeIs
  <1>2. Finds(S, t, d, e)
    BY Zenon DEF Finds
  <1>3. Finds(S, S, d, e)
    BY <1>1, <1>2, FindsPart
  <1>4. Eval(S, e).st \in {"ok", "absent", "escape"} /\ S[e].t = "link"
    BY <1>1, <1>3 DEF Packed, Judged
  <1>5. Front(d) \in Seq(In) /\ Last(d) \in In
    BY FrontPath
  <1>6. a \in Seq(In) /\ Real1(t, a)
    BY <1>0, <1>5, ComesPlace
  <1>7. <<Last(d)>> \in Seq(In) /\ e = a \o <<Last(d)>> /\ <<Last(d)>> \in Seq(InUp)
    <2>1. Append(a, Last(d)) = a \o <<Last(d)>> /\ <<Last(d)>> \in Seq(In)
      BY <1>5, <1>6, AppendSingle
    <2> QED BY <2>1, InIs
  <1>8. PICK j \in Nat : Leads(t, On(<<>>, a \o <<Last(d)>>), j, b)
    BY <1>1, <1>6, <1>7, RealJoin, Zenon
  <1>9. Leads(S, Start(e), j, b)
    <2>1. Leads(S, On(<<>>, e), j, b)
      BY <1>1, <1>7, <1>8, PartLeads
    <2> QED BY <2>1, StartOn
  <1>10. Resolves(S, e)
    <2>1. ASSUME Eval(S, e).st \notin {"loop", "ok"} PROVE FALSE
      BY <1>9, <2>1, EvalLeads, Zenon
    <2> QED BY <1>4, <2>1 DEF Resolves
  <1>11. Leads(S, Start(e), MaxWalk, Eval(S, e).at) /\ MaxWalk \in Nat
    BY <1>10, EvalLeads, TreeAssumption
  <1>12. Eval(S, e).at = b
    BY <1>9, <1>11, LeadsOnce
  <1>13. e \in Seq(In) /\ e \in DOMAIN S
    BY <1>0, <1>1 DEF StoreTree
  <1>14. b \in DOMAIN S /\ b \in Seq(In)
    BY <1>0, <1>4, <1>10, <1>12, <1>13, StoreTarget DEF StoreTree
  <1>15. b # <<>>
    BY <1>0, <1>14 DEF StoreTree, IsTree
  <1> QED BY <1>10, <1>12, <1>14, <1>15

LEMMA HopEnds ==
    ASSUME NEW S, NEW t, Packed(S, t), NEW d \in Seq(In), d # <<>>, NEW a, Comes(S, t, Front(d), a),
           NEW b, Hop(S, t, a, Last(d), b), t[Append(a, Last(d))].t = "link"
    PROVE  LET e == Append(a, Last(d))
           IN Resolves(S, e) /\ Eval(S, e).at = b /\ b \in DOMAIN S /\ b \in Seq(In) /\ b # <<>>
  <1> DEFINE e == Append(a, Last(d))
  <1>1. PICK k \in Nat : Leads(t, On(a, <<Last(d)>>), k, b)
    BY Zenon DEF Hop
  <1>2. e \in DOMAIN t
    BY Zenon DEF Hop
  <1> QED BY <1>1, <1>2, HopEval

\* A link that is not kept does not lead into the package, if that is anchored, or to
\* where there is no link.
LEMMA KeptIfInto ==
    ASSUME NEW S, StoreTree(S), Anchored(S), NEW e \in DOMAIN S, S[e].t = "link", Resolves(S, e), Eval(S, e).at[1] = Source,
           ~Linkless(S, Eval(S, e).at)
    PROVE  KeptIn(S, e) /\ e[1] = Source
  <1>1. e \in Seq(In) /\ e # <<>>
    BY DEF StoreTree, IsTree
  <1>2. e[1] # Out
    BY <1>1, OutsideIn
  <1>3. e[1] = Source /\ ~S[e].abs
    BY <1>2 DEF Anchored
  <1>4. Eval(S, e).at \in DOMAIN S /\ Eval(S, e).at \in Seq(In)
    BY <1>1, StoreTarget DEF StoreTree
  <1>5. Eval(S, e).at \in Seq(Name) /\ Eval(S, e).at # <<>>
    BY <1>4, InIs DEF StoreTree, IsTree
  <1>6. IsPrefix(<<Source>>, Eval(S, e).at)
    BY <1>5, SourceIs
  <1> QED BY <1>3, <1>6 DEF KeptIn, Keeps

LEMMA LinklessBelow ==
    ASSUME NEW S, IsTree(S), NEW a \in Seq(Name), NEW n \in Name, Linkless(S, a)
    PROVE  /\ Linkless(S, Append(a, n))
           /\ Append(a, n) \in DOMAIN S => S[Append(a, n)].t # "link"
  <1>1. IsPrefix(a, Append(a, n)) /\ \A q \in Seq(Name) : IsPrefix(Append(a, n), q) => IsPrefix(a, q)
    BY OnlyPrefix
  <1>2. DOMAIN S \subseteq Seq(Name)
    BY DEF IsTree
  <1> QED BY <1>1, <1>2 DEF Linkless, Under

\* What is found in the package is where the path says, or has no link in it.
LEMMA ComesSource ==
    ASSUME NEW S, NEW t, Packed(S, t), NEW d \in Seq(In), NEW a, Comes(S, t, d, a)
    PROVE  a # <<>> /\ (a[1] = Source => a = InSource(d) \/ Linkless(S, a))
  <1> DEFINE Good(x, b) == b # <<>> /\ (b[1] = Source => b = InSource(x) \/ Linkless(S, b))
             I == {n \in Nat : \A x \in Seq(In) : Len(x) = n => \A b : Comes(S, t, x, b) => Good(x, b)}
  <1>0. StoreTree(S) /\ SubTree(t, S) /\ Anchored(S)
    BY DEF Packed
  <1>00. IsTree(t) /\ DOMAIN t \subseteq DOMAIN S /\ DOMAIN S \subseteq Seq(In) /\ <<Source>> # <<>>
         /\ \A p \in DOMAIN t : t[p] = S[p]
    BY <1>0, SubTreeIs
  <1>1. 0 \in I
    <2>1. ASSUME NEW x \in Seq(In), Len(x) = 0, NEW b, Comes(S, t, x, b) PROVE Good(x, b)
      <3>1. x = <<>>
        BY <2>1, EmptySeq
      <3>2. b = <<Source>>
        BY <2>1, <3>1, ComesNil
      <3> QED BY <1>00, <3>1, <3>2, SourceAppend
    <2> QED BY <2>1
  <1>2. ASSUME NEW n \in I PROVE n + 1 \in I
    <2>1. n \in Nat /\ n + 1 \in Nat
      OBVIOUS
    <2>2. ASSUME NEW x \in Seq(In), Len(x) = n + 1, NEW b, Comes(S, t, x, b) PROVE Good(x, b)
      <3>1. x # <<>> /\ Front(x) \in Seq(In) /\ Last(x) \in In /\ x = Append(Front(x), Last(x)) /\ Len(Front(x)) = n
        BY <2>1, <2>2, FrontLen
      <3>2. PICK c : Comes(S, t, Front(x), c) /\ Hop(S, t, c, Last(x), b)
        BY <2>2, <3>1, ComesFinds, Zenon
      <3>3. Good(Front(x), c)
        BY <3>1, <3>2
      <3>4. c \in Seq(In)
        BY <1>0, <3>1, <3>2, ComesPlace
      <3>5. PICK k \in Nat : Leads(t, On(c, <<Last(x)>>), k, b)
        BY <3>2, Zenon DEF Hop
      <3> DEFINE e == Append(c, Last(x))
      <3>6. e \in DOMAIN t /\ ~KeptIn(S, e) /\ e \in DOMAIN S
        BY <1>00, <3>2 DEF Hop
      <3>7. CASE t[e].t = "link"
        <4>0. e = Append(c, Last(x)) /\ Packed(S, t) /\ x \in Seq(In)
          BY <2>2
        <4> HIDE DEF e
        <4>1. Resolves(S, e) /\ Eval(S, e).at = b /\ b # <<>>
          BY <3>1, <3>2, <3>7, <4>0, HopEnds
        <4>2. S[e].t = "link"
          BY <1>00, <3>6, <3>7
        <4>3. b[1] # Source \/ Linkless(S, b)
          BY <1>0, <3>6, <4>1, <4>2, KeptIfInto
        <4> QED BY <4>1, <4>3
      <3>8. CASE t[e].t # "link"
        <4>1. b = e
          BY <1>00, <3>1, <3>4, <3>5, <3>6, <3>8, LeadsDown
        <4>2. e # <<>> /\ e[1] = IF c = <<>> THEN Last(x) ELSE c[1]
          BY <3>1, <3>4, AppendPath
        <4>3. e[1] = c[1]
          BY <3>3, <4>2
        <4>4. e = Append(c, Last(x))
          OBVIOUS
        <4>5. Append(InSource(Front(x)), Last(x)) = InSource(x)
          <5>1. Append(InSource(Front(x)), Last(x)) = InSource(Append(Front(x), Last(x)))
            BY <3>1, SourceAppend
          <5> QED BY <3>1, <5>1
        <4>6. Linkless(S, c) => Linkless(S, e)
          <5>1. IsTree(S) /\ c \in Seq(Name) /\ Last(x) \in Name
            BY <1>0, <3>1, <3>4, InIs DEF StoreTree
          <5> QED BY <5>1, LinklessBelow
        <4> HIDE DEF e
        <4> QED BY <3>3, <4>1, <4>2, <4>3, <4>4, <4>5, <4>6
      <3> QED BY <3>7, <3>8
    <2> HIDE DEF Good
    <2> QED BY <2>1, <2>2
  <1> HIDE DEF I
  <1>3. I = Nat
    BY <1>1, <1>2, Induction DEF I
  <1>4. Len(d) \in Nat
    BY LenProperties
  <1> QED BY <1>3, <1>4 DEF I

-----------------------------------------------------------------------------
\* The package's own part of the store.

LEMMA OwnTree ==
    ASSUME NEW S, StoreTree(S)
    PROVE  /\ IsTree(Own(S)) /\ LinksIn(Own(S)) /\ DOMAIN Own(S) \subseteq Seq(In)
           /\ \A p \in Seq(In) : p \in DOMAIN Own(S) <=> /\ p # <<>> /\ InSource(p) \in DOMAIN S
                                                         /\ S[InSource(p)].t = "link" => Keeps(S, InSource(p))
           /\ \A p \in DOMAIN Own(S) : Own(S)[p] = S[InSource(p)]
  <1> DEFINE O == Own(S)
             D == {r \in DOMAIN S : /\ IsStrictPrefix(<<Source>>, r) /\ (S[r].t = "link" => Keeps(S, r))}
  <1>1. DOMAIN O = {Tail(q) : q \in D}
    BY DEF Own
  <1>2. \A r \in DOMAIN S : r \in Seq(In) /\ r \in Seq(Name) /\ r # <<>>
    BY InIs DEF StoreTree, IsTree
  <1>3. ASSUME NEW r \in D
        PROVE  /\ r \in Seq(In) /\ r[1] = Source /\ Tail(r) # <<>> /\ Tail(r) \in Seq(In) /\ InSource(Tail(r)) = r
    <2>1. r \in Seq(In) /\ r \in Seq(Name) /\ r # <<>> /\ IsStrictPrefix(<<Source>>, r)
      BY <1>2
    <2>2. IsPrefix(<<Source>>, r)
      BY <2>1 DEF IsStrictPrefix
    <2>3. r[1] = Source
      BY <2>1, <2>2, SourceIs
    <2>4. Tail(r) \in Seq(In)
      BY <2>1, HeadTailPath
    <2> QED BY <2>1, <2>3, <2>4, SourceIs
  <1>4. ASSUME NEW p \in Seq(In)
        PROVE  p \in DOMAIN O <=> /\ p # <<>> /\ InSource(p) \in DOMAIN S
                                  /\ S[InSource(p)].t = "link" => Keeps(S, InSource(p))
    <2>1. ASSUME p \in DOMAIN O
          PROVE  p # <<>> /\ InSource(p) \in DOMAIN S /\ (S[InSource(p)].t = "link" => Keeps(S, InSource(p)))
      <3>1. PICK q \in D : p = Tail(q)
        BY <1>1, <2>1
      <3> QED BY <1>3, <3>1
    <2>2. ASSUME p # <<>>, InSource(p) \in DOMAIN S, S[InSource(p)].t = "link" => Keeps(S, InSource(p))
          PROVE  p \in DOMAIN O
      <3>1. p \in Seq(Name)
        BY InIs
      <3>2. /\ InSource(p) \in Seq(Name) /\ InSource(p) # <<>> /\ InSource(p)[1] = Source /\ Tail(InSource(p)) = p
        BY <3>1, SourceIs
      <3>3. IsStrictPrefix(<<Source>>, InSource(p))
        BY <2>2, <3>2, SourceIs
      <3>4. InSource(p) \in D
        BY <2>2, <3>3
      <3> QED BY <1>1, <3>2, <3>4
    <2> QED BY <2>1, <2>2
  <1>5. \A p \in DOMAIN O : p \in Seq(In)
    BY <1>1, <1>3
  <1>6. \A p \in DOMAIN O : O[p] = S[InSource(p)]
    BY OwnIs DEF StoreTree
  <1> HIDE DEF O, D
  <1>7. ASSUME NEW p \in DOMAIN O
        PROVE  p \in Seq(Name) /\ p # <<>> /\ IsNode(O[p]) /\ Is("dir", O, Front(p))
               /\ (O[p].t = "link" => O[p].to \in Seq(InUp))
    <2>1. p \in Seq(In) /\ p # <<>> /\ InSource(p) \in DOMAIN S /\ O[p] = S[InSource(p)] /\ InSource(p) \in Seq(In)
      BY <1>2, <1>4, <1>5, <1>6
    <2>2. Front(p) \in Seq(In) /\ Front(InSource(p)) = InSource(Front(p)) /\ InSource(Front(p)) # <<>>
      BY <2>1, FrontPath, SourceAppend
    <2>3. IsNode(S[InSource(p)]) /\ Is("dir", S, InSource(Front(p)))
      BY <2>1, <2>2, TreeNode DEF StoreTree
    <2>4. InSource(Front(p)) \in DOMAIN S /\ S[InSource(Front(p))].t = "dir"
      BY <2>2, <2>3 DEF Is, Exists, Node
    <2>5. S[InSource(Front(p))].t = "dir" => S[InSource(Front(p))].t # "link"
      BY Zenon
    <2>6. Is("dir", O, Front(p))
      <3>1. CASE Front(p) = <<>>
        BY <3>1 DEF Is, Exists, Node, Dir
      <3>2. CASE Front(p) # <<>>
        <4>1. Front(p) \in DOMAIN O
          BY <1>4, <2>2, <2>4, <2>5, <3>2
        <4> QED BY <1>6, <2>4, <3>2, <4>1 DEF Is, Exists, Node
      <3> QED BY <3>1, <3>2
    <2>7. LinksIn(S)
      BY StoreLinks DEF StoreTree
    <2> QED BY <2>1, <2>3, <2>6, <2>7, InIs DEF LinksIn
  <1>8. IsTree(O) /\ LinksIn(O)
    BY <1>7 DEF IsTree, LinksIn
  <1> QED BY <1>4, <1>5, <1>6, <1>8 DEF O

-----------------------------------------------------------------------------
\* A tree that holds, below o, what comes from a part t of the store, and the links
\* that are kept and lead somewhere: a path leads to the copy of what it leads to in t.

Over(o, d) == o \o d
Live(t, e) == \E k \in Nat : \E b : Leads(t, On(<<>>, e), k, b)
Follows(S, d, u) == \E m \in Nat : \E x : Leads(Own(S), On(d, u), m, x)
Holds(G, S, t, o) ==
    /\ Is("dir", G, o)
    /\ \A d \in Seq(In) : \A b : d # <<>> /\ Comes(S, t, d, b) => Over(o, d) \in DOMAIN G /\ G[Over(o, d)].t = S[b].t
    /\ \A d \in Seq(In) : d # <<>> /\ KeptIn(S, InSource(d)) /\ InSource(d) \in DOMAIN t /\ Live(t, InSource(d)) =>
          Over(o, d) \in DOMAIN G /\ G[Over(o, d)] = S[InSource(d)]
Sim(S, t, G, o, k) ==
    \A d \in Seq(In), u \in Seq(InUp), v \in Seq(In) : \A a, q :
        /\ Comes(S, t, d, a) /\ (u # <<>> => a = InSource(d) /\ Follows(S, d, u))
        /\ Leads(t, On(a, u \o v), k, q)
        => \E c \in Seq(In) : Comes(S, t, c, q) /\ Leads(G, On(Over(o, d), u \o v), k, Over(o, c))

LEMMA OverIs ==
    ASSUME NEW o \in Seq(Name), NEW d \in Seq(In)
    PROVE  /\ Over(o, d) \in Seq(Name) /\ Over(o, <<>>) = o
           /\ \A n \in In : Append(Over(o, d), n) = Over(o, Append(d, n))
           /\ d # <<>> => Over(o, d) # <<>> /\ Front(Over(o, d)) = Over(o, Front(d)) /\ Last(Over(o, d)) = Last(d)
  <1>1. d \in Seq(Name)
    BY InIs
  <1>2. o \o d \in Seq(Name) /\ o \o <<>> = o
    BY <1>1, ConcatProperties, ConcatEmptySeq
  <1>3. ASSUME NEW e \in Seq(In), NEW n \in In PROVE Append(o \o e, n) = o \o Append(e, n)
    <2>1. e \in Seq(Name) /\ n \in Name /\ <<n>> \in Seq(Name)
      BY InIs
    <2>2. o \o e \in Seq(Name)
      BY <2>1, ConcatProperties
    <2>3. Append(o \o e, n) = (o \o e) \o <<n>> /\ Append(e, n) = e \o <<n>>
      BY <2>1, <2>2, AppendSingle
    <2>4. \A a, b, c \in Seq(Name) : (a \o b) \o c = a \o (b \o c)
      BY ConcatAssociative, SMTT(60)
    <2> QED BY <2>1, <2>3, <2>4
  <1>4. ASSUME d # <<>> PROVE o \o d # <<>> /\ Front(o \o d) = o \o Front(d) /\ Last(o \o d) = Last(d)
    <2>1. Front(d) \in Seq(In) /\ Last(d) \in In /\ d = Append(Front(d), Last(d))
      BY <1>4, FrontPath
    <2>2. Append(o \o Front(d), Last(d)) = o \o d
      <3>1. Append(o \o Front(d), Last(d)) = o \o Append(Front(d), Last(d))
        BY <1>3, <2>1
      <3> QED BY <2>1, <3>1
    <2>3. o \o Front(d) \in Seq(Name) /\ Last(d) \in Name
      <3>1. Front(d) \in Seq(Name)
        BY <2>1, InIs
      <3> QED BY <2>1, <3>1, ConcatProperties, InIs
    <2>4. /\ Front(Append(o \o Front(d), Last(d))) = o \o Front(d)
          /\ Last(Append(o \o Front(d), Last(d))) = Last(d)
          /\ Append(o \o Front(d), Last(d)) # <<>>
      BY <2>3, AppendPath
    <2> QED BY <2>2, <2>4
  <1> QED BY <1>2, <1>3, <1>4 DEF Over

LEMMA LiveHead ==
    ASSUME NEW t, IsTree(t), LinksIn(t), NEW a \in Seq(In), Real1(t, a), NEW w \in Seq(InUp), w # <<>>, Head(w) \in In,
           NEW k \in Nat, NEW q, Leads(t, On(a, w), k, q)
    PROVE  Live(t, Append(a, Head(w)))
  <1> DEFINE h == Head(w)
             r == Tail(w)
             x == <<h>>
  <1>1. h \in In /\ r \in Seq(InUp) /\ x \in Seq(InUp) /\ w = x \o r
    <2>1. h \in InUp
      BY InIs DEF InUp
    <2>2. x \in Seq(InUp)
      BY <2>1
    <2> QED BY <2>2, HeadTailPath
  <1>2. Append(a, h) = a \o x
    BY AppendSingle
  <1> HIDE DEF h, r, x
  <1>3. Leads(t, On(a, x \o r), k, q)
    BY <1>1
  <1>4. PICK b \in Seq(In), i \in Nat, j \in Nat : Leads(t, On(a, x), i, b) /\ Leads(t, On(b, r), j, q)
    BY <1>1, <1>3, LeadsJoin
  <1>5. PICK k1 \in Nat : Leads(t, On(<<>>, a \o x), k1, b)
    BY <1>1, <1>4, RealJoin, Zenon
  <1> QED BY <1>2, <1>5, Zenon DEF Live, h

LEMMA DirHeld ==
    ASSUME NEW S, NEW t, Packed(S, t), NEW G, NEW o \in Seq(Name), Holds(G, S, t, o),
           NEW d \in Seq(In), NEW a, Comes(S, t, d, a), Is("dir", t, a)
    PROVE  Is("dir", G, Over(o, d))
  <1>1. CASE d = <<>>
    <2>1. Over(o, d) = o
      BY <1>1, OverIs
    <2> QED BY <2>1 DEF Holds
  <1>2. CASE d # <<>>
    <2>1. Over(o, d) \in DOMAIN G /\ G[Over(o, d)].t = S[a].t
      BY <1>2 DEF Holds
    <2>2. a # <<>>
      BY ComesSource
    <2>3. a \in DOMAIN t /\ t[a].t = "dir"
      BY <2>2 DEF Is, Exists, Node
    <2>4. S[a] = t[a]
      BY <2>3, SubTreeIs DEF Packed
    <2>5. Over(o, d) # <<>>
      BY <1>2, OverIs
    <2> QED BY <2>1, <2>3, <2>4, <2>5 DEF Is, Exists, Node
  <1> QED BY <1>1, <1>2

LEMMA KeptIs ==
    ASSUME NEW S, StoreTree(S), Anchored(S), NEW e, KeptIn(S, e)
    PROVE  /\ e \in DOMAIN S /\ e \in Seq(In) /\ e[1] = Source /\ S[e].t = "link" /\ ~S[e].abs /\ S[e].to \in Seq(InUp)
           /\ Resolves(Own(S), Tail(e)) /\ Keeps(S, e)
  <1>1. e \in DOMAIN S /\ S[e].t = "link" /\ Keeps(S, e) /\ e \in Seq(In)
    BY DEF KeptIn, StoreTree
  <1>2. ~S[e].abs /\ Resolves(S, e) /\ IsPrefix(<<Source>>, Eval(S, e).at)
    BY <1>1 DEF Keeps
  <1>3. Eval(S, e).at \in Seq(In)
    BY <1>1, <1>2, StoreTarget DEF StoreTree
  <1>4. Eval(S, e).at[1] = Source
    <2>1. Eval(S, e).at \in Seq(Name)
      BY <1>3, InIs
    <2> QED BY <1>2, <2>1, SourceIs
  <1>5. e[1] # Out
    <2>1. e # <<>>
      BY <1>1 DEF StoreTree, IsTree
    <2> QED BY <1>1, <2>1, OutsideIn
  <1>6. e[1] = Source /\ Resolves(Own(S), Tail(e))
    BY <1>1, <1>2, <1>4, <1>5 DEF Anchored
  <1>7. S[e].to \in Seq(InUp)
    <2>1. LinksIn(S)
      BY StoreLinks DEF StoreTree
    <2> QED BY <1>1, <2>1 DEF LinksIn
  <1> QED BY <1>1, <1>2, <1>6, <1>7

LEMMA ConcatInUp ==
    ASSUME NEW x \in Seq(InUp), NEW y \in Seq(InUp), NEW z \in Seq(InUp)
    PROVE  x \o (y \o z) = (x \o y) \o z /\ x \o y \in Seq(InUp) /\ <<>> \o x = x /\ x \o <<>> = x
  <1>1. \A x1, y1, z1 \in Seq(InUp) : (x1 \o y1) \o z1 = x1 \o (y1 \o z1)
    BY ConcatAssociative, SMTT(60)
  <1>2. x \o y \in Seq(InUp) /\ <<>> \o x = x /\ x \o <<>> = x
    BY ConcatProperties, ConcatEmptySeq
  <1> QED BY <1>1, <1>2

\* One step through the package's own part.
LEMMA GoesAlong ==
    ASSUME NEW S, NEW t, Packed(S, t), NEW G, NEW o \in Seq(Name), Holds(G, S, t, o),
           NEW d \in Seq(In), Comes(S, t, d, InSource(d)),
           NEW u \in Seq(InUp), u # <<>>, NEW v \in Seq(InUp), Head(u) \in In => Live(t, InSource(Append(d, Head(u)))),
           NEW b, NEW s, Goes(t, InSource(d), u, b, s), NEW x, NEW y, Goes(Own(S), d, u, x, y)
    PROVE  /\ x \in Seq(In) /\ b = InSource(x) /\ Comes(S, t, x, b) /\ s = y /\ y \in Seq(InUp)
           /\ Goes(G, Over(o, d), u \o v, Over(o, x), y \o v)
  <1> DEFINE h == Head(u)
             a == InSource(d)
             e == Append(d, h)
  <1>0. StoreTree(S) /\ SubTree(t, S) /\ Anchored(S)
    BY DEF Packed
  <1>1. /\ IsTree(t) /\ LinksIn(t) /\ DOMAIN t \subseteq DOMAIN S /\ DOMAIN S \subseteq Seq(In)
        /\ \A p \in DOMAIN t : t[p] = S[p]
    BY <1>0, SubTreeIs
  <1>2. /\ IsTree(Own(S)) /\ LinksIn(Own(S)) /\ DOMAIN Own(S) \subseteq Seq(In)
        /\ \A p \in Seq(In) : p \in DOMAIN Own(S) <=> /\ p # <<>> /\ InSource(p) \in DOMAIN S
                                                      /\ S[InSource(p)].t = "link" => Keeps(S, InSource(p))
        /\ \A p \in DOMAIN Own(S) : Own(S)[p] = S[InSource(p)]
    BY <1>0, OwnTree
  <1>3. /\ u \o v # <<>> /\ Head(u \o v) = h /\ Tail(u \o v) = Tail(u) \o v /\ h \in InUp /\ Tail(u) \in Seq(InUp)
    BY HeadConcat
  <1>4. Is("dir", t, a)
    BY Zenon DEF Goes
  <1>5. Is("dir", G, Over(o, d))
    BY <1>4, DirHeld
  <1>6. a \in Seq(In) /\ a # <<>>
    <2>1. Source \in In
      BY <1>0, SubTreeIs
    <2> QED BY <2>1, SourceAppend
  <1>7. CASE h = ".."
    <2>1. d # <<>> /\ x = Front(d) /\ y = Tail(u) /\ b = Front(a) /\ s = Tail(u)
      BY <1>7, Zenon DEF Goes
    <2>2. x \in Seq(In) /\ b = InSource(x) /\ InSource(x) # <<>>
      <3>1. x \in Seq(In)
        BY <2>1, FrontPath
      <3>2. Front(InSource(d)) = InSource(Front(d))
        BY <2>1, SourceAppend
      <3>3. Source \in In
        BY <1>0, SubTreeIs
      <3> QED BY <2>1, <3>1, <3>2, <3>3, SourceAppend
    <2>3. Is("dir", t, InSource(x))
      <3>1. a \in DOMAIN t
        BY <1>4, <1>6 DEF Is, Exists
      <3>2. Is("dir", t, Front(a))
        BY <1>1, <3>1, TreeNode
      <3> QED BY <2>1, <2>2, <3>2
    <2>4. InSource(x) \in DOMAIN t /\ t[InSource(x)].t # "link"
      <3>1. t[InSource(x)].t = "dir" => t[InSource(x)].t # "link"
        BY Zenon
      <3> QED BY <2>2, <2>3, <3>1 DEF Is, Exists, Node
    <2>5. Comes(S, t, x, InSource(x))
      BY <1>0, <2>2, <2>4, RealComes
    <2>6. Over(o, d) # <<>> /\ Front(Over(o, d)) = Over(o, x)
      BY <2>1, OverIs
    <2>7. Goes(G, Over(o, d), u \o v, Over(o, x), y \o v)
      <3>1. Over(o, x) = Front(Over(o, d)) /\ y \o v = Tail(u \o v)
        BY <1>3, <2>1, <2>6
      <3> HIDE DEF h
      <3> QED BY <1>3, <1>5, <1>7, <2>6, <3>1, Zenon DEF Goes
    <2> QED BY <1>3, <2>1, <2>2, <2>5, <2>7
  <1>8. CASE h # ".."
    <2>1. h \in In /\ e \in Seq(In) /\ Append(a, h) = InSource(e) /\ e # <<>>
      <3>1. h \in In
        BY <1>3, <1>8 DEF InUp
      <3>2. Append(InSource(d), h) = InSource(Append(d, h))
        BY <3>1, SourceAppend
      <3> QED BY <3>1, <3>2, AppendPath
    <2>2. InSource(e) \in DOMAIN t /\ e \in DOMAIN Own(S)
      BY <1>8, <2>1, Zenon DEF Goes
    <2>3. t[InSource(e)] = S[InSource(e)] /\ Own(S)[e] = S[InSource(e)] /\ InSource(e) \in DOMAIN S
      BY <1>1, <1>2, <2>2
    <2>4. Append(Over(o, d), h) = Over(o, e)
      BY <2>1, OverIs
    <2>5. CASE S[InSource(e)].t # "link"
      <3>1. x = e /\ y = Tail(u) /\ b = InSource(e) /\ s = Tail(u)
        <4>1. Own(S)[Append(d, h)].t # "link" /\ t[Append(a, h)].t # "link"
          BY <2>1, <2>3, <2>5
        <4>2. x = Append(d, h) /\ y = Tail(u)
          BY <1>8, <4>1, Zenon DEF Goes
        <4>3. b = Append(a, h) /\ s = Tail(u)
          BY <1>8, <4>1, Zenon DEF Goes
        <4> QED BY <2>1, <4>2, <4>3
      <3>2. Comes(S, t, e, InSource(e))
        BY <1>0, <2>1, <2>2, <2>3, <2>5, RealComes
      <3>3. Over(o, e) \in DOMAIN G /\ G[Over(o, e)].t # "link"
        BY <2>1, <2>5, <3>2 DEF Holds
      <3>4. Goes(G, Over(o, d), u \o v, Over(o, e), Tail(u) \o v)
        <4> HIDE DEF h, e, a
        <4>1. Append(Over(o, d), Head(u \o v)) = Over(o, e) /\ Head(u \o v) # ".."
          BY <1>3, <1>8, <2>4
        <4>2. Tail(u) \o v = Tail(u \o v)
          BY <1>3
        <4> QED BY <1>3, <1>5, <3>3, <4>1, <4>2, Zenon DEF Goes
      <3> QED BY <1>3, <2>1, <3>1, <3>2, <3>4
    <2>6. CASE S[InSource(e)].t = "link"
      <3>1. KeptIn(S, InSource(e))
        BY <1>2, <2>1, <2>2, <2>3, <2>6 DEF KeptIn
      <3>2. ~S[InSource(e)].abs /\ S[InSource(e)].to \in Seq(InUp)
        BY <1>0, <3>1, KeptIs
      <3> DEFINE z == S[InSource(e)].to
      <3>3. x = d /\ y = z \o Tail(u) /\ b = a /\ s = z \o Tail(u)
        <4>1. /\ Own(S)[Append(d, h)].t = "link" /\ t[Append(a, h)].t = "link"
              /\ ~Own(S)[Append(d, h)].abs /\ ~t[Append(a, h)].abs
              /\ Own(S)[Append(d, h)].to = z /\ t[Append(a, h)].to = z
          BY <2>1, <2>3, <2>6, <3>2
        <4>2. /\ ~(Own(S)[Append(d, h)].t # "link") /\ ~(t[Append(a, h)].t # "link")
          BY <4>1
        <4> HIDE DEF z
        <4>3. x = d /\ y = z \o Tail(u)
          BY <1>8, <4>1, <4>2, Zenon DEF Goes
        <4>4. b = a /\ s = z \o Tail(u)
          BY <1>8, <4>1, <4>2, Zenon DEF Goes
        <4> QED BY <4>3, <4>4
      <3>4. Live(t, InSource(e))
        BY <2>1
      <3>5. Over(o, e) \in DOMAIN G /\ G[Over(o, e)] = S[InSource(e)]
        BY <2>1, <2>2, <3>1, <3>4 DEF Holds
      <3>6. z \o (Tail(u) \o v) = (z \o Tail(u)) \o v /\ z \o Tail(u) \in Seq(InUp)
        <4>1. z \in Seq(InUp) /\ Tail(u) \in Seq(InUp)
          BY <1>3, <3>2
        <4> HIDE DEF z
        <4> QED BY <4>1, ConcatInUp
      <3>7. Goes(G, Over(o, d), u \o v, Over(o, d), (z \o Tail(u)) \o v)
        <4>1. /\ Append(Over(o, d), Head(u \o v)) = Over(o, e) /\ Head(u \o v) # ".."
              /\ Over(o, e) \in DOMAIN G /\ G[Over(o, e)].t = "link" /\ ~G[Over(o, e)].abs
              /\ G[Over(o, e)].to = z
          BY <1>3, <1>8, <2>4, <2>6, <3>2, <3>5
        <4> HIDE DEF h, e, a, z
        <4>2. (z \o Tail(u)) \o v = z \o Tail(u \o v)
          BY <1>3, <3>6
        <4> QED BY <1>3, <1>5, <4>1, <4>2, Zenon DEF Goes
      <3> QED BY <1>3, <3>3, <3>6, <3>7
    <2> QED BY <2>5, <2>6
  <1> QED BY <1>7, <1>8

LEMMA LeadsFirst ==
    ASSUME NEW tree, NEW a, NEW rest, rest # <<>>, NEW k \in Nat, NEW q, Leads(tree, On(a, rest), k, q)
    PROVE  \E b, r, j : j \in Nat /\ Goes(tree, a, rest, b, r) /\ Leads(tree, On(b, r), j, q)
  <1>1. k - 1 \in Nat /\ \E b, r : Goes(tree, a, rest, b, r) /\ Leads(tree, On(b, r), k - 1, q)
    BY LeadsGoes
  <1> QED BY <1>1, Zenon

\* The next step is one of a path through the package's own part.
LEMMA SimAlong ==
    ASSUME NEW S, NEW t, Packed(S, t), NEW G, NEW o \in Seq(Name), Holds(G, S, t, o),
           NEW n \in Nat, Sim(S, t, G, o, n),
           NEW d \in Seq(In), Comes(S, t, d, InSource(d)), NEW u \in Seq(InUp), u # <<>>, Follows(S, d, u),
           NEW v \in Seq(In), NEW q, Leads(t, On(InSource(d), u \o v), n + 1, q)
    PROVE  \E c \in Seq(In) : Comes(S, t, c, q) /\ Leads(G, On(Over(o, d), u \o v), n + 1, Over(o, c))
  <1> DEFINE a == InSource(d)
  <1>0. StoreTree(S) /\ SubTree(t, S) /\ IsTree(t) /\ LinksIn(t)
    BY SubTreeIs DEF Packed
  <1>1. a \in Seq(In) /\ Real1(t, a) /\ v \in Seq(InUp) /\ u \o v # <<>> /\ u \o v \in Seq(InUp) /\ Head(u \o v) = Head(u)
    <2>1. v \in Seq(InUp)
      BY InIs
    <2>2. u \o v # <<>> /\ u \o v \in Seq(InUp) /\ Head(u \o v) = Head(u)
      BY <2>1, HeadConcat
    <2> QED BY <1>0, <2>1, <2>2, ComesPlace
  <1>2. PICK b, r : Goes(t, a, u \o v, b, r) /\ Leads(t, On(b, r), n, q)
    BY <1>1, LeadsOn, Zenon
  <1>3. PICK s : Goes(t, a, u, b, s) /\ Then(r, s, v)
    BY <1>0, <1>1, <1>2, GoesLess
  <1>4. PICK x, y, m, z : m \in Nat /\ Goes(Own(S), d, u, x, y) /\ Leads(Own(S), On(x, y), m, z)
    <2>1. PICK m \in Nat : \E z : Leads(Own(S), On(d, u), m, z)
      BY Zenon DEF Follows
    <2>2. PICK z : Leads(Own(S), On(d, u), m, z)
      BY <2>1
    <2> QED BY <2>1, <2>2, LeadsFirst
  <1>5. Head(u) \in In => Live(t, InSource(Append(d, Head(u))))
    <2>1. ASSUME Head(u) \in In PROVE Live(t, Append(a, Head(u \o v)))
      <3>1. n + 1 \in Nat
        OBVIOUS
      <3> HIDE DEF a
      <3> QED BY <1>0, <1>1, <2>1, <3>1, LiveHead DEF a
    <2>2. Head(u) \in In => Append(a, Head(u)) = InSource(Append(d, Head(u)))
      BY SourceAppend
    <2> QED BY <1>1, <2>1, <2>2
  <1>6. /\ x \in Seq(In) /\ b = InSource(x) /\ Comes(S, t, x, b) /\ s = y /\ y \in Seq(InUp)
        /\ Goes(G, Over(o, d), u \o v, Over(o, x), y \o v)
    <2> HIDE DEF a
    <2>1. Goes(t, InSource(d), u, b, s)
      BY <1>3 DEF a
    <2> QED BY <1>1, <1>4, <1>5, <2>1, GoesAlong
  <1>7. y # <<>> => Follows(S, x, y)
    BY <1>4 DEF Follows
  <1>8. Leads(t, On(InSource(x), y \o v), n, q)
    BY <1>2, <1>3, <1>6 DEF Then
  <1>9. PICK c \in Seq(In) : Comes(S, t, c, q) /\ Leads(G, On(Over(o, x), y \o v), n, Over(o, c))
    BY <1>6, <1>7, <1>8, Zenon DEF Sim
  <1>10. Leads(G, On(Over(o, d), u \o v), n + 1, Over(o, c))
    <2>1. \A c1, r1 : Goes(G, Over(o, d), u \o v, c1, r1) /\ Leads(G, On(c1, r1), n, Over(o, c)) =>
                        Leads(G, On(Over(o, d), u \o v), n + 1, Over(o, c))
      BY <1>1, LeadsGoes, Zenon
    <2> QED BY <1>6, <1>9, <2>1, Zenon
  <1> QED BY <1>9, <1>10

\* The next name is a link that is kept.
LEMMA SimKept ==
    ASSUME NEW S, NEW t, Packed(S, t), NEW G, NEW o \in Seq(Name), Holds(G, S, t, o),
           NEW n \in Nat, Sim(S, t, G, o, n),
           NEW d \in Seq(In), NEW a, Comes(S, t, d, a), NEW v \in Seq(In), v # <<>>,
           NEW q, Leads(t, On(a, v), n + 1, q), KeptIn(S, Append(a, Head(v)))
    PROVE  \E c \in Seq(In) : Comes(S, t, c, q) /\ Leads(G, On(Over(o, d), v), n + 1, Over(o, c))
  <1> DEFINE h == Head(v)
             e == Append(a, h)
             f == Append(d, h)
             z == S[e].to
  <1>0. /\ StoreTree(S) /\ SubTree(t, S) /\ Anchored(S) /\ IsTree(t) /\ LinksIn(t) /\ DOMAIN t \subseteq DOMAIN S
        /\ \A p \in DOMAIN t : t[p] = S[p]
    BY SubTreeIs DEF Packed
  <1>1. a \in Seq(In) /\ Real1(t, a) /\ a # <<>> /\ h \in In /\ Tail(v) \in Seq(In) /\ v \in Seq(InUp) /\ h # ".."
    BY <1>0, ComesPlace, ComesSource, HeadTailPath, InIs
  <1>2. e \in Seq(In) /\ e # <<>> /\ e[1] = a[1] /\ f \in Seq(In) /\ f # <<>> /\ Front(f) = d /\ Last(f) = h
    BY <1>1, AppendPath
  <1>3. e \in DOMAIN S /\ S[e].t = "link" /\ ~S[e].abs /\ z \in Seq(InUp) /\ e[1] = Source /\ Resolves(Own(S), Tail(e))
    BY <1>0, KeptIs
  <1>4. a = InSource(d) /\ e = InSource(f) /\ Tail(e) = f
    <2>1. a = InSource(d)
      <3>1. ~Linkless(S, a)
        <4>1. IsTree(S) /\ a \in Seq(Name) /\ h \in Name
          BY <1>0, <1>1, InIs DEF StoreTree
        <4> QED BY <1>3, <4>1, LinklessBelow
      <3> QED BY <1>2, <1>3, <3>1, ComesSource
    <2> HIDE DEF h
    <2>2. Append(InSource(d), h) = InSource(Append(d, h))
      BY <1>1, SourceAppend
    <2>3. Tail(InSource(f)) = f
      BY <1>1, <1>2, SourceAppend
    <2> QED BY <2>1, <2>2, <2>3
  <1>5. PICK b, r : Goes(t, a, v, b, r) /\ Leads(t, On(b, r), n, q)
    BY <1>1, LeadsOn, Zenon
  <1>6. Is("dir", t, a) /\ e \in DOMAIN t
    BY <1>1, <1>5, Zenon DEF Goes
  <1>7. t[e] = S[e]
    BY <1>0, <1>6
  <1>8. b = a /\ r = z \o Tail(v)
    <2>1. t[Append(a, Head(v))].t = "link" /\ ~t[Append(a, Head(v))].abs /\ t[Append(a, Head(v))].to = z
      BY <1>3, <1>7
    <2>2. ~(t[Append(a, Head(v))].t # "link")
      BY <2>1
    <2> HIDE DEF z
    <2> QED BY <1>1, <1>5, <2>1, <2>2, Zenon DEF Goes
  <1>9. Live(t, e)
    <2>1. Head(v) \in In /\ n + 1 \in Nat
      BY <1>1
    <2> QED BY <1>0, <1>1, <2>1, LiveHead
  <1>10. Over(o, f) \in DOMAIN G /\ G[Over(o, f)] = S[e]
    BY <1>2, <1>4, <1>6, <1>9 DEF Holds
  <1>11. Append(Over(o, d), h) = Over(o, f) /\ Is("dir", G, Over(o, d))
    BY <1>1, <1>6, OverIs, DirHeld
  <1>12. Goes(G, Over(o, d), v, Over(o, d), z \o Tail(v))
    <2>1. /\ Append(Over(o, d), Head(v)) \in DOMAIN G /\ G[Append(Over(o, d), Head(v))].t = "link"
          /\ ~G[Append(Over(o, d), Head(v))].abs /\ G[Append(Over(o, d), Head(v))].to = z
      BY <1>3, <1>10, <1>11
    <2> HIDE DEF z
    <2> QED BY <1>1, <1>11, <2>1, Zenon DEF Goes
  <1>13. Follows(S, d, z)
    <2>1. /\ IsTree(Own(S)) /\ LinksIn(Own(S)) /\ f \in DOMAIN Own(S) /\ Own(S)[f] = S[e]
          /\ Real1(Own(S), d)
      <3>1. /\ IsTree(Own(S)) /\ LinksIn(Own(S)) /\ DOMAIN Own(S) \subseteq Seq(In)
            /\ \A p \in Seq(In) : p \in DOMAIN Own(S) <=> /\ p # <<>> /\ InSource(p) \in DOMAIN S
                                                          /\ S[InSource(p)].t = "link" => Keeps(S, InSource(p))
            /\ \A p \in DOMAIN Own(S) : Own(S)[p] = S[InSource(p)]
        BY <1>0, OwnTree
      <3>2. f \in DOMAIN Own(S) /\ Own(S)[f] = S[e]
        BY <1>2, <1>3, <1>4, <3>1 DEF KeptIn
      <3>3. CASE d = <<>>
        BY <3>1, <3>2, <3>3 DEF Real1
      <3>4. CASE d # <<>>
        <4>1. a \in DOMAIN t /\ t[a].t = "dir"
          BY <1>1, <1>6 DEF Is, Exists, Node
        <4>2. a \in DOMAIN S /\ S[a].t # "link"
          BY <1>0, <4>1
        <4> QED BY <1>4, <3>1, <3>2, <3>4, <4>2 DEF Real1
      <3> QED BY <3>3, <3>4
    <2>2. PICK x : Leads(Own(S), On(<<>>, f), MaxWalk, x)
      BY <1>3, <1>4, EvalLeads, StartOn
    <2>3. MaxWalk \in Nat
      BY TreeAssumption
    <2>4. f = d \o <<h>> /\ <<h>> \in Seq(In) /\ <<h>> # <<>> /\ Head(<<h>>) = h /\ Tail(<<h>>) = <<>>
      BY <1>1, AppendSingle
    <2> DEFINE g == <<h>>
    <2>5. g \in Seq(InUp) /\ g \in Seq(In)
      BY <2>4, InIs
    <2> HIDE DEF g
    <2>6. PICK k \in Nat : Leads(Own(S), On(d, g), k, x)
      <3>1. \E k \in Nat : Leads(Own(S), On(<<>>, d \o g), k, x)
        BY <2>2, <2>3, <2>4 DEF g
      <3> QED BY <2>1, <2>5, <3>1, RealJoin, Zenon
    <2>7. g # <<>> /\ Head(g) = h /\ Tail(g) = <<>>
      BY <2>4 DEF g
    <2>9. PICK c, s, j : j \in Nat /\ Goes(Own(S), d, g, c, s) /\ Leads(Own(S), On(c, s), j, x)
      BY <2>6, <2>7, LeadsFirst, Zenon
    <2>10. c = d /\ s = z
      <3>1. Own(S)[Append(d, Head(g))].t = "link" /\ ~Own(S)[Append(d, Head(g))].abs /\ Own(S)[Append(d, Head(g))].to = z
        BY <1>3, <2>1, <2>7
      <3>2. ~(Own(S)[Append(d, Head(g))].t # "link") /\ Head(g) # ".."
        BY <1>1, <2>7, <3>1
      <3>3. z \o <<>> = z
        BY <1>3, ConcatEmptySeq
      <3>4. z \o Tail(g) = z
        BY <2>7, <3>3
      <3> HIDE DEF z
      <3> QED BY <2>9, <3>1, <3>2, <3>4, Zenon DEF Goes
    <2> QED BY <2>9, <2>10 DEF Follows
  <1>14. PICK c \in Seq(In) : Comes(S, t, c, q) /\ Leads(G, On(Over(o, d), z \o Tail(v)), n, Over(o, c))
    <2>1. Leads(t, On(a, z \o Tail(v)), n, q)
      BY <1>5, <1>8
    <2>2. z \in Seq(InUp) /\ Tail(v) \in Seq(In)
      BY <1>1, <1>3
    <2> HIDE DEF z
    <2> QED BY <1>4, <1>13, <2>1, <2>2, Zenon DEF Sim
  <1>15. Leads(G, On(Over(o, d), v), n + 1, Over(o, c))
    <2>1. \A c1, r1 : Goes(G, Over(o, d), v, c1, r1) /\ Leads(G, On(c1, r1), n, Over(o, c)) =>
                        Leads(G, On(Over(o, d), v), n + 1, Over(o, c))
      BY LeadsGoes, Zenon
    <2> HIDE DEF z
    <2> QED BY <1>12, <1>14, <2>1, Zenon
  <1> QED BY <1>14, <1>15

\* The next name is anything else: it has been copied from where it leads.
LEMMA SimDown ==
    ASSUME NEW S, NEW t, Packed(S, t), NEW G, NEW o \in Seq(Name), Holds(G, S, t, o),
           NEW n \in Nat, Sim(S, t, G, o, n),
           NEW d \in Seq(In), NEW a, Comes(S, t, d, a), NEW v \in Seq(In), v # <<>>,
           NEW q, Leads(t, On(a, v), n + 1, q), ~KeptIn(S, Append(a, Head(v)))
    PROVE  \E c \in Seq(In) : Comes(S, t, c, q) /\ Leads(G, On(Over(o, d), v), n + 1, Over(o, c))
  <1> DEFINE h == Head(v)
             e == Append(a, h)
             f == Append(d, h)
             g == <<h>>
  <1>0. StoreTree(S) /\ SubTree(t, S) /\ IsTree(t) /\ LinksIn(t) /\ \A p \in DOMAIN t : t[p] = S[p]
    BY SubTreeIs DEF Packed
  <1>1. /\ a \in Seq(In) /\ Real1(t, a) /\ a # <<>> /\ h \in In /\ Tail(v) \in Seq(In) /\ v \in Seq(InUp) /\ h # ".."
        /\ Tail(v) \in Seq(InUp) /\ v = g \o Tail(v)
    BY <1>0, ComesPlace, ComesSource, HeadTailPath, InIs
  <1>2. g \in Seq(InUp) /\ g # <<>> /\ Head(g) = h /\ f \in Seq(In) /\ f # <<>>
    <2>1. g \in Seq(In) /\ g # <<>> /\ Head(g) = h
      BY <1>1, AppendSingle
    <2> QED BY <1>1, <2>1, InIs, AppendPath
  <1>3. PICK b, r : Goes(t, a, v, b, r) /\ Leads(t, On(b, r), n, q)
    BY <1>1, LeadsOn, Zenon
  <1>4. Is("dir", t, a) /\ e \in DOMAIN t
    BY <1>1, <1>3, Zenon DEF Goes
  <1> HIDE DEF g
  <1>5. PICK c \in Seq(In), i \in Nat, j \in Nat :
           Leads(t, On(a, g), i, c) /\ Leads(t, On(c, Tail(v)), j, q) /\ j < n + 1
    <2>1. Leads(t, On(a, g \o Tail(v)), n + 1, q) /\ n + 1 \in Nat
      <3>1. v = g \o Tail(v)
        BY <1>1
      <3>2. n + 1 \in Nat
        OBVIOUS
      <3> QED BY <3>1, <3>2, Zenon
    <2> DEFINE w == Tail(v)
               m == n + 1
    <2>3. LinksIn(t) /\ a \in Seq(In) /\ g \in Seq(InUp) /\ w \in Seq(InUp) /\ m \in Nat /\ Leads(t, On(a, g \o w), m, q)
      BY <1>0, <1>1, <1>2, <2>1
    <2> HIDE DEF w, m, h
    <2>4. \E c \in Seq(In), i, j \in Nat : /\ Leads(t, On(a, g), i, c) /\ Leads(t, On(c, w), j, q)
                                            /\ j <= m /\ (g # <<>> => j < m)
      BY <2>3, LeadsJoin
    <2>2. \E c \in Seq(In), i, j \in Nat : Leads(t, On(a, g), i, c) /\ Leads(t, On(c, w), j, q) /\ j < m
      BY <1>2, <2>4
    <2> QED BY <2>2 DEF w, m
  <1>6. Comes(S, t, f, c)
    <2>1. Hop(S, t, a, h, c)
      BY <1>4, <1>5, Zenon DEF Hop, g
    <2> QED BY <1>1, <2>1, ComesNext
  <1>7. Over(o, f) \in DOMAIN G /\ G[Over(o, f)].t # "link"
    <2>1. Over(o, f) \in DOMAIN G /\ G[Over(o, f)].t = S[c].t
      BY <1>2, <1>6 DEF Holds
    <2>2. c # <<>> /\ Real1(t, c)
      BY <1>0, <1>2, <1>6, ComesSource, ComesPlace
    <2>3. S[c].t # "link"
      BY <1>0, <2>2 DEF Real1
    <2> QED BY <2>1, <2>3
  <1>8. Goes(G, Over(o, d), v, Over(o, f), Tail(v))
    <2>1. Append(Over(o, d), h) = Over(o, f) /\ Is("dir", G, Over(o, d))
      BY <1>1, <1>4, OverIs, DirHeld
    <2> QED BY <1>1, <1>7, <2>1, Zenon DEF Goes
  <1>9. Leads(t, On(c, Tail(v)), n, q)
    <2>1. j <= n
      BY <1>5
    <2> QED BY <1>5, <2>1, LeadsLater
  <1>10. PICK x \in Seq(In) : Comes(S, t, x, q) /\ Leads(G, On(Over(o, f), Tail(v)), n, Over(o, x))
    <2>1. <<>> \in Seq(InUp) /\ <<>> \o Tail(v) = Tail(v)
      BY <1>1, ConcatEmptySeq
    <2>2. Leads(t, On(c, <<>> \o Tail(v)), n, q)
      BY <1>9, <2>1
    <2>3. \E x \in Seq(In) : Comes(S, t, x, q) /\ Leads(G, On(Over(o, f), <<>> \o Tail(v)), n, Over(o, x))
      BY <1>1, <1>2, <1>6, <2>1, <2>2, Zenon DEF Sim
    <2> QED BY <2>1, <2>3
  <1>11. Leads(G, On(Over(o, d), v), n + 1, Over(o, x))
    <2>1. \A c1, r1 : Goes(G, Over(o, d), v, c1, r1) /\ Leads(G, On(c1, r1), n, Over(o, x)) =>
                        Leads(G, On(Over(o, d), v), n + 1, Over(o, x))
      BY LeadsGoes, Zenon
    <2> QED BY <1>8, <1>10, <2>1, Zenon
  <1> QED BY <1>10, <1>11

\* Every path leads to the copy of what it leads to in the store.
LEMMA Similar ==
    ASSUME NEW S, NEW t, Packed(S, t), NEW G, NEW o \in Seq(Name), Holds(G, S, t, o)
    PROVE  \A k \in Nat : Sim(S, t, G, o, k)
  <1> DEFINE I == {k \in Nat : Sim(S, t, G, o, k)}
  <1>1. 0 \in I
    <2>1. ASSUME NEW x, NEW y, NEW q, Leads(t, On(x, y), 0, q) PROVE FALSE
      BY <2>1, LeadsNow DEF On
    <2> QED BY <2>1 DEF Sim
  <1>2. ASSUME NEW n \in I PROVE n + 1 \in I
    <2>0. n \in Nat /\ n + 1 \in Nat /\ Sim(S, t, G, o, n)
      OBVIOUS
    <2>1. ASSUME NEW d \in Seq(In), NEW u \in Seq(InUp), NEW v \in Seq(In), NEW a, NEW q,
                 Comes(S, t, d, a), u # <<>> => a = InSource(d) /\ Follows(S, d, u),
                 Leads(t, On(a, u \o v), n + 1, q)
          PROVE  \E c \in Seq(In) : Comes(S, t, c, q) /\ Leads(G, On(Over(o, d), u \o v), n + 1, Over(o, c))
      <3>1. CASE u # <<>>
        <4> HIDE DEF I
        <4>1. a = InSource(d) /\ Follows(S, d, u)
          BY <2>1, <3>1
        <4>2. Comes(S, t, d, InSource(d)) /\ Leads(t, On(InSource(d), u \o v), n + 1, q)
          BY <2>1, <4>1
        <4> QED BY <2>0, <2>1, <3>1, <4>1, <4>2, SimAlong
      <3>2. CASE u = <<>>
        <4> HIDE DEF I
        <4>1. u \o v = v
          BY <2>1, <3>2, ConcatEmptySeq
        <4>2. Leads(t, On(a, v), n + 1, q)
          BY <2>1, <4>1
        <4>3. CASE v = <<>>
          <5>1. q = a
            BY <2>0, <4>2, <4>3, LeadsNil
          <5>2. Leads(G, On(Over(o, d), <<>>), n + 1, Over(o, d))
            BY <2>0, LeadsNil
          <5> QED BY <2>1, <4>1, <4>3, <5>1, <5>2
        <4>4. CASE v # <<>> /\ KeptIn(S, Append(a, Head(v)))
          <5>1. \E c \in Seq(In) : Comes(S, t, c, q) /\ Leads(G, On(Over(o, d), v), n + 1, Over(o, c))
            BY <2>0, <2>1, <4>2, <4>4, SimKept
          <5> QED BY <4>1, <5>1
        <4>5. CASE v # <<>> /\ ~KeptIn(S, Append(a, Head(v)))
          <5>1. \E c \in Seq(In) : Comes(S, t, c, q) /\ Leads(G, On(Over(o, d), v), n + 1, Over(o, c))
            BY <2>0, <2>1, <4>2, <4>5, SimDown
          <5> QED BY <4>1, <5>1
        <4> QED BY <4>3, <4>4, <4>5
      <3> QED BY <3>1, <3>2
    <2>2. Sim(S, t, G, o, n + 1)
      BY <2>1, Zenon DEF Sim
    <2> QED BY <2>0, <2>2
  <1> HIDE DEF I
  <1>3. I = Nat
    BY <1>1, <1>2, Induction DEF I
  <1> QED BY <1>3 DEF I

-----------------------------------------------------------------------------
\* What is copied for a path: what it finds, or what that leads to, unless it is kept.

Aim(S, e) == IF S[e].t = "link" THEN Eval(S, e).at ELSE e
Given(S, e) == IF KeptIn(S, e) THEN S[e] ELSE S[Aim(S, e)]
Sound(S, e) == S[e].t = "link" => Resolves(S, e)

LEMMA PartSelf == ASSUME NEW S PROVE Part(S, S)
  BY DEF Part

LEMMA WholeStore == ASSUME NEW S, StoreTree(S) PROVE SubTree(S, S)
  BY PartSelf DEF StoreTree, SubTree

\* What a path that is found leads to, one step on from its directory.
LEMMA LastHop ==
    ASSUME NEW t, IsTree(t), LinksIn(t), NEW a \in Seq(In), Real1(t, a), NEW n \in In, NEW b
    PROVE  (\E k \in Nat : Leads(t, On(<<>>, Append(a, n)), k, b)) <=> (\E k \in Nat : Leads(t, On(a, <<n>>), k, b))
  <1>1. Append(a, n) = a \o <<n>> /\ <<n>> \in Seq(In)
    BY AppendSingle
  <1>2. <<n>> \in Seq(InUp)
    BY <1>1, InIs
  <1> QED BY <1>1, <1>2, RealJoin

LEMMA ComesFrom ==
    ASSUME NEW S, StoreTree(S), NEW d \in Seq(In), d # <<>>, NEW e, Finds(S, S, d, e), NEW c, Comes(S, S, d, c)
    PROVE  /\ ~KeptIn(S, e) /\ S[e].t # "link" => c = e
           /\ S[e].t = "link" => Eval(S, e).st \in {"loop", "ok"} /\ (Resolves(S, e) => c = Eval(S, e).at)
           /\ ~KeptIn(S, e)
  <1>0. SubTree(S, S) /\ Part(S, S) /\ IsTree(S) /\ LinksIn(S)
    BY WholeStore, PartSelf, SubTreeIs
  <1>1. PICK a : /\ Comes(S, S, Front(d), a) /\ Hop(S, S, a, Last(d), c) /\ Finds(S, S, d, Append(a, Last(d)))
    BY ComesFinds, Zenon
  <1>2. Append(a, Last(d)) = e
    BY <1>0, <1>1, FindsPart
  <1>3. Front(d) \in Seq(In) /\ Last(d) \in In
    BY FrontPath
  <1>4. a \in Seq(In) /\ Real1(S, a)
    BY <1>0, <1>1, <1>3, ComesPlace
  <1>5. e \in DOMAIN S /\ ~KeptIn(S, e) /\ \E k \in Nat : Leads(S, On(a, <<Last(d)>>), k, c)
    BY <1>1, <1>2, Zenon DEF Hop
  <1>6. ASSUME S[e].t # "link" PROVE c = e
    BY <1>0, <1>2, <1>3, <1>4, <1>5, <1>6, LeadsDown
  <1>7. PICK k \in Nat : Leads(S, Start(e), k, c)
    BY <1>0, <1>2, <1>3, <1>4, <1>5, LastHop, StartOn
  <1>8. Eval(S, e).st \in {"loop", "ok"}
    BY <1>7, EvalLeads
  <1>9. ASSUME Resolves(S, e) PROVE c = Eval(S, e).at
    <2>1. Leads(S, Start(e), MaxWalk, Eval(S, e).at) /\ MaxWalk \in Nat
      BY <1>9, EvalLeads, TreeAssumption
    <2> QED BY <1>7, <2>1, LeadsOnce
  <1> QED BY <1>5, <1>6, <1>8, <1>9

\* What is found and is not kept comes to its aim.
LEMMA AimComes ==
    ASSUME NEW S, StoreTree(S), NEW d \in Seq(In), d # <<>>, NEW e, Finds(S, S, d, e), Sound(S, e), ~KeptIn(S, e)
    PROVE  /\ Comes(S, S, d, Aim(S, e)) /\ \A c : Comes(S, S, d, c) => c = Aim(S, e)
           /\ Aim(S, e) \in DOMAIN S /\ Aim(S, e) \in Seq(In) /\ S[Aim(S, e)].t # "link"
  <1>0. SubTree(S, S) /\ Part(S, S) /\ IsTree(S) /\ LinksIn(S) /\ StoreOK(S)
    BY WholeStore, PartSelf, SubTreeIs DEF StoreTree
  <1>1. PICK a \in Seq(In) : /\ Comes(S, S, Front(d), a) /\ Real1(S, a) /\ Is("dir", S, a)
                             /\ e = Append(a, Last(d)) /\ e \in DOMAIN S /\ e \in Seq(In)
    BY <1>0, FindsIs
  <1>2. Front(d) \in Seq(In) /\ Last(d) \in In /\ d = Append(Front(d), Last(d))
    BY FrontPath
  <1>3. /\ \E k \in Nat : Leads(S, On(a, <<Last(d)>>), k, Aim(S, e))
        /\ Aim(S, e) \in DOMAIN S /\ Aim(S, e) \in Seq(In) /\ S[Aim(S, e)].t # "link"
    <2>1. CASE S[e].t # "link"
      <3>1. Leads(S, On(a, <<Last(d)>>), 2, e)
        BY <1>0, <1>1, <1>2, <2>1, LeadsDown
      <3> QED BY <1>1, <2>1, <3>1 DEF Aim
    <2>2. CASE S[e].t = "link"
      <3>1. Resolves(S, e)
        BY <2>2 DEF Sound
      <3>2. Leads(S, On(<<>>, e), MaxWalk, Eval(S, e).at) /\ MaxWalk \in Nat
        BY <3>1, EvalLeads, StartOn, TreeAssumption
      <3>3. \E k \in Nat : Leads(S, On(a, <<Last(d)>>), k, Eval(S, e).at)
        BY <1>0, <1>1, <1>2, <3>2, LastHop
      <3>4. Eval(S, e).at \in DOMAIN S /\ Eval(S, e).at \in Seq(In)
        BY <1>0, <1>1, <2>2, <3>1, StoreTarget
      <3>5. e \in Seq(Up)
        BY <1>1, InIs
      <3>6. Eval(S, e).at \in Places(S)
        BY <1>0, <3>5, EvalPlace
      <3>7. Eval(S, e).at # <<>>
        BY <1>0, <3>4 DEF IsTree
      <3> QED BY <2>2, <3>3, <3>4, <3>6, <3>7 DEF Aim, Places
    <2> QED BY <2>1, <2>2
  <1>4. Hop(S, S, a, Last(d), Aim(S, e))
    BY <1>1, <1>3, Zenon DEF Hop
  <1>5. Comes(S, S, d, Aim(S, e))
    <2>1. Finds(S, S, d, Append(a, Last(d)))
      BY <1>1
    <2> QED BY <1>1, <1>4, <2>1, ComesFinds, Zenon
  <1>6. \A c : Comes(S, S, d, c) => c = Aim(S, e)
    BY <1>0, <1>5, ComesOnce
  <1> QED BY <1>3, <1>5, <1>6

\* The store in the disk.
Held(S, D) ==
    /\ StoreTree(S) /\ IsTree(D) /\ Agree(S, D)
    /\ \A p \in DOMAIN D : p \in Seq(In) => p \in DOMAIN S
    /\ \A p \in DOMAIN S : p \in DOMAIN D /\ D[p] = S[p] /\ p \in Seq(In) /\ p[1] # Out
    /\ \A p \in Seq(InUp) : Eval(D, p) = Eval(S, p)
    /\ \A p \in DOMAIN D : p[1] # Out => p \in DOMAIN S

LEMMA StoreHeld ==
    ASSUME NEW D, IsTree(D), StoreOK(D), Is("dir", D, <<Source>>), NEW S, S = Store(D)
    PROVE  Held(S, D)
  <1>1. /\ DOMAIN S = {q \in DOMAIN D : q \in Seq(In)} /\ \A p \in DOMAIN S : S[p] = D[p]
    BY DEF Store
  <1>2. Agree(S, D) /\ Agree(D, S)
    BY <1>1 DEF Agree
  <1>3. IsTree(S)
    <2>1. ASSUME NEW p \in DOMAIN S PROVE IsNode(S[p]) /\ Is("dir", S, Front(p)) /\ p \in Seq(Name) \ {<<>>}
      <3>1. p \in DOMAIN D /\ S[p] = D[p] /\ p \in Seq(In) /\ IsNode(D[p]) /\ Is("dir", D, Front(p)) /\ p # <<>>
            /\ p \in Seq(Name)
        BY <1>1, TreeNode
      <3>2. Front(p) \in Seq(In)
        BY <3>1, FrontPath
      <3>3. Is("dir", S, Front(p))
        BY <1>1, <3>1, <3>2 DEF Is, Exists, Node
      <3> QED BY <3>1, <3>3
    <2> QED BY <2>1 DEF IsTree
  <1>4. LinksIn(D)
    BY StoreLinks
  <1>5. \A p \in Seq(InUp) : Eval(S, p) = Eval(D, p)
    BY <1>2, <1>4, AgreeEval
  <1>6. \A p \in DOMAIN S : p \in DOMAIN D /\ p \in Seq(In) /\ p # <<>> /\ p[1] # Out
    <2>1. ASSUME NEW p \in DOMAIN S PROVE p \in DOMAIN D /\ p \in Seq(In) /\ p # <<>> /\ p[1] # Out
      <3>1. p \in DOMAIN D /\ p \in Seq(In)
        BY <1>1
      <3> QED BY <3>1, TreeNode, OutsideIn
    <2> QED BY <2>1
  <1>7. StoreOK(S)
    <2>1. ASSUME NEW p \in DOMAIN S PROVE Stored(S, p)
      <3>1. Stored(D, p)
        BY <1>6 DEF StoreOK
      <3>2. p \in Seq(InUp)
        BY <1>6, InIs
      <3>3. Eval(S, p) = Eval(D, p) /\ S[p] = D[p]
        BY <1>1, <1>5, <3>2
      <3> QED BY <3>1, <3>3 DEF Stored, Resolves
    <2> QED BY <2>1 DEF StoreOK
  <1>8. Is("dir", S, <<Source>>)
    <2>1. Source \in In /\ <<Source>> \in Seq(In)
      BY ArtifactAssumption DEF In
    <2> QED BY <1>1, <2>1 DEF Is, Exists, Node
  <1>9. \A p \in DOMAIN D : p[1] # Out => p \in DOMAIN S
    BY <1>1 DEF StoreOK, Stored
  <1>10. DOMAIN S \subseteq Seq(In)
    BY <1>1
  <1>11. StoreTree(S)
    BY <1>3, <1>7, <1>8, <1>10 DEF StoreTree
  <1> QED BY <1>1, <1>2, <1>5, <1>6, <1>9, <1>11 DEF Held

\* It stays as it is.
LEMMA StoreStays ==
    ASSUME Agree(disk, disk')
    PROVE  Store(disk') = Store(disk)
  BY DEF Agree, Store

-----------------------------------------------------------------------------
\* The copy: what is there is what a path finds, and every path that finds something
\* is there, or will be, or is a link to nowhere.

JobMeans(S, j) ==
    \E d \in Seq(In) : \E e : /\ d # <<>> /\ j.dst = InOutput(d) /\ Finds(S, S, d, e)
                              /\ \/ j.src = e
                                 \/ ~KeptIn(S, e) /\ S[e].t = "link" /\ Resolves(S, e) /\ j.src = Eval(S, e).at
NodeMeans(S, p, n) ==
    \E d \in Seq(In) : \E e : d # <<>> /\ p = InOutput(d) /\ Finds(S, S, d, e) /\ Sound(S, e) /\ n = Given(S, e)
Output(D) == {p \in DOMAIN D : IsStrictPrefix(<<Out>>, p)}
Nowhere(S, e) == S[e].t = "link" /\ Eval(S, e).st \in {"absent", "escape"}
Met(S, D, J, x, e) == \/ \E j \in J : IsPrefix(j.dst, InOutput(x))
                      \/ InOutput(x) \in DOMAIN D
                      \/ Nowhere(S, e)
CopyMeans(S, D, J) ==
    /\ \A j \in J : JobMeans(S, j)
    /\ \A p \in Output(D) : NodeMeans(S, p, D[p])
    /\ \A x \in Seq(In) : \A e : x # <<>> /\ Finds(S, S, x, e) => Met(S, D, J, x, e)

LEMMA OutputIs ==
    ASSUME NEW d \in Seq(In)
    PROVE  /\ InOutput(d) \in Seq(Name) /\ InOutput(d) # <<>> /\ InOutput(d)[1] = Out
           /\ InOutput(<<>>) = <<Out>>
           /\ \A n \in In : Append(InOutput(d), n) = InOutput(Append(d, n))
           /\ \A c \in Seq(In) : (IsPrefix(InOutput(c), InOutput(d)) <=> IsPrefix(c, d))
                                 /\ (InOutput(c) = InOutput(d) <=> c = d)
           /\ d # <<>> => /\ IsStrictPrefix(<<Out>>, InOutput(d)) /\ Last(InOutput(d)) = Last(d)
                          /\ Front(InOutput(d)) = InOutput(Front(d)) /\ Front(d) \in Seq(In) /\ Last(d) \in In
                          /\ Last(d) \in Name
  <1>1. d \in Seq(Name) /\ Out \in Name
    BY InIs, ArtifactAssumption
  <1>2. /\ InOutput(d) \in Seq(Name) /\ InOutput(d) # <<>> /\ InOutput(d)[1] = Out
        /\ d # <<>> => IsStrictPrefix(<<Out>>, InOutput(d)) /\ Last(InOutput(d)) = Last(d)
                       /\ Front(InOutput(d)) = InOutput(Front(d))
        /\ \A c \in Seq(Name) : /\ IsStrictPrefix(InOutput(c), InOutput(d)) <=> IsStrictPrefix(c, d)
                                /\ InOutput(c) = InOutput(d) <=> c = d
    BY <1>1, InOutputIs
  <1>3. InOutput(<<>>) = <<Out>>
    BY <1>1, BelowAppend DEF InOutput
  <1>4. ASSUME NEW n \in In PROVE Append(InOutput(d), n) = InOutput(Append(d, n))
    BY <1>1, InIs, BelowAppend DEF InOutput
  <1>5. \A c \in Seq(In) : (IsPrefix(InOutput(c), InOutput(d)) <=> IsPrefix(c, d)) /\ (InOutput(c) = InOutput(d) <=> c = d)
    <2>1. ASSUME NEW c \in Seq(In)
          PROVE (IsPrefix(InOutput(c), InOutput(d)) <=> IsPrefix(c, d)) /\ (InOutput(c) = InOutput(d) <=> c = d)
      <3>1. c \in Seq(Name)
        BY InIs
      <3>2. IsPrefix(d, d) /\ IsPrefix(InOutput(d), InOutput(d))
        BY <1>1, <1>2, OnlyPrefix
      <3>3. /\ IsStrictPrefix(InOutput(c), InOutput(d)) <=> IsStrictPrefix(c, d)
            /\ InOutput(c) = InOutput(d) <=> c = d
        BY <1>2, <3>1
      <3>4. CASE c = d
        BY <3>2, <3>3, <3>4
      <3>5. CASE c # d
        BY <3>3, <3>5 DEF IsStrictPrefix
      <3> QED BY <3>4, <3>5
    <2> QED BY <2>1
  <1>6. d # <<>> => Front(d) \in Seq(In) /\ Last(d) \in In /\ Last(d) \in Name
    <2>1. d # <<>> => Front(d) \in Seq(In) /\ Last(d) \in In
      BY FrontPath
    <2> QED BY <2>1, InIs
  <1> QED BY <1>2, <1>3, <1>4, <1>5, <1>6

\* The entries of a directory that is copied.
LEMMA Children ==
    ASSUME NEW S, NEW D, Held(S, D), NEW d \in Seq(In), NEW b, Comes(S, S, d, b), b # <<>>, NEW active
    PROVE  /\ \A k \in Jobs(D, b, InOutput(d), active) : JobMeans(S, k)
           /\ \A x \in Seq(In) : \A e : Finds(S, S, x, e) /\ IsStrictPrefix(d, x) =>
                 \E k \in Jobs(D, b, InOutput(d), active) : IsPrefix(k.dst, InOutput(x))
  <1>0. /\ StoreTree(S) /\ SubTree(S, S) /\ IsTree(D) /\ DOMAIN S \subseteq Seq(In)
        /\ \A p \in DOMAIN D : p[1] # Out => p \in DOMAIN S
        /\ \A p \in DOMAIN S : p \in DOMAIN D
    <2>1. StoreTree(S)
      BY DEF Held
    <2>2. SubTree(S, S) /\ DOMAIN S \subseteq Seq(In)
      BY <2>1, WholeStore, SubTreeIs
    <2>3. IsTree(D)
      BY DEF Held
    <2>4. ASSUME NEW p \in DOMAIN D, p[1] # Out PROVE p \in DOMAIN S
      BY <2>4 DEF Held
    <2>5. ASSUME NEW p \in DOMAIN S PROVE p \in DOMAIN D
      BY <2>5 DEF Held
    <2> QED BY <2>1, <2>2, <2>3, <2>4, <2>5, Zenon
  <1>1. b \in Seq(In) /\ b[1] # Out
    <2>1. b \in Seq(In)
      BY <1>0, ComesPlace
    <2> QED BY <2>1, OutsideIn
  <1>2. ASSUME NEW k \in Jobs(D, b, InOutput(d), active) PROVE JobMeans(S, k)
    <2>1. PICK q \in Entries(D, b) : k = Job(q, Append(InOutput(d), Last(q)), active)
      BY <1>2 DEF Jobs
    <2>2. q \in DOMAIN D /\ Front(q) = b
      BY <2>1 DEF Entries
    <2>3. q \in Seq(Name) /\ q # <<>>
      BY <1>0, <2>2, TreeNode
    <2>4. q[1] = b[1]
      BY <1>1, <2>2, <2>3, FrontPath
    <2>5. q \in DOMAIN S /\ q \in Seq(In)
      BY <1>0, <1>1, <2>2, <2>4
    <2>6. Last(q) \in In /\ q = Append(b, Last(q))
      BY <2>2, <2>3, <2>5, FrontPath
    <2> DEFINE x == Append(d, Last(q))
    <2>7. x \in Seq(In) /\ x # <<>> /\ Front(x) = d /\ Last(x) = Last(q)
      BY <2>6, AppendPath
    <2>8. Finds(S, S, x, q)
      <3>1. Comes(S, S, Front(x), b) /\ q = Append(b, Last(x))
        BY <2>6, <2>7
      <3> HIDE DEF x
      <3> QED BY <2>5, <3>1, Zenon DEF Finds
    <2>9. k.dst = InOutput(x) /\ k.src = q
      BY <2>1, <2>6, OutputIs DEF Job
    <2> HIDE DEF x
    <2> QED BY <2>7, <2>8, <2>9 DEF JobMeans
  <1>3. ASSUME NEW x \in Seq(In), NEW e, Finds(S, S, x, e), IsStrictPrefix(d, x)
        PROVE \E k \in Jobs(D, b, InOutput(d), active) : IsPrefix(k.dst, InOutput(x))
    <2>1. x # <<>>
      <3>1. x # d /\ IsPrefix(d, x)
        BY <1>3 DEF IsStrictPrefix
      <3>2. x = <<>> => d = <<>>
        <4>1. d \in Seq(Name) /\ x \in Seq(Name)
          BY InIs
        <4>2. Len(d) <= Len(x)
          BY <3>1, <4>1, PrefixIs
        <4> QED BY <4>1, <4>2, EmptySeq
      <3> QED BY <3>1, <3>2
    <2>2. PICK c, n : n \in In /\ Comes(S, S, d, c) /\ Append(c, n) \in DOMAIN S /\ IsPrefix(Append(d, n), x)
      BY <1>3, <2>1, FindsBelow
    <2>3. c = b
      BY <1>0, <2>2, ComesOnce, PartSelf
    <2>4. Append(b, n) \in Entries(D, b) /\ Last(Append(b, n)) = n
      BY <1>0, <1>1, <2>2, <2>3, AppendPath DEF Entries
    <2> DEFINE k == Job(Append(b, n), Append(InOutput(d), n), active)
    <2>5. k \in Jobs(D, b, InOutput(d), active)
      BY <2>4 DEF Jobs
    <2>6. k.dst = InOutput(Append(d, n))
      BY <2>2, OutputIs DEF Job
    <2>7. IsPrefix(InOutput(Append(d, n)), InOutput(x))
      <3>1. Append(d, n) \in Seq(In)
        BY <2>2, AppendPath
      <3> QED BY <2>2, <3>1, OutputIs
    <2> HIDE DEF k
    <2> QED BY <2>5, <2>6, <2>7
  <1> QED BY <1>2, <1>3

\* One job is done.
LEMMA JobDone ==
    ASSUME NEW S, NEW D, NEW J, CopyMeans(S, D, J), NEW j \in J, NEW E, NEW K,
           E = D \/ \E n : E = With(D, j.dst, n) /\ NodeMeans(S, j.dst, n),
           J \ {j} \subseteq K, \A k \in K \ (J \ {j}) : JobMeans(S, k),
           \A x \in Seq(In) : \A e : x # <<>> /\ Finds(S, S, x, e) /\ IsPrefix(j.dst, InOutput(x)) => Met(S, E, K, x, e)
    PROVE  CopyMeans(S, E, K)
  <1>1. \A k \in K : JobMeans(S, k)
    BY DEF CopyMeans
  <1>2. \A p \in Output(E) : NodeMeans(S, p, E[p])
    BY DEF CopyMeans, Output, With
  <1>3. DOMAIN D \subseteq DOMAIN E
    BY DEF With
  <1>4. ASSUME NEW x \in Seq(In), NEW e, x # <<>>, Finds(S, S, x, e) PROVE Met(S, E, K, x, e)
    <2>1. Met(S, D, J, x, e)
      BY <1>4, Zenon DEF CopyMeans
    <2>2. CASE IsPrefix(j.dst, InOutput(x))
      BY <1>4, <2>2, Zenon
    <2>3. CASE ~IsPrefix(j.dst, InOutput(x))
      BY <1>3, <2>1, <2>3 DEF Met
    <2> QED BY <2>2, <2>3
  <1> QED BY <1>1, <1>2, <1>4, Zenon DEF CopyMeans

\* What a job makes of the paths that find something at its place or below.
LEMMA JobOf ==
    ASSUME NEW S, StoreTree(S), NEW j, JobMeans(S, j)
    PROVE  \E d \in Seq(In) : \E e :
              /\ d # <<>> /\ j.dst = InOutput(d) /\ Finds(S, S, d, e) /\ e \in DOMAIN S /\ e \in Seq(In)
              /\ \/ j.src = e
                 \/ ~KeptIn(S, e) /\ S[e].t = "link" /\ Resolves(S, e) /\ j.src = Eval(S, e).at
              /\ \A x \in Seq(In) : \A f : x # <<>> /\ Finds(S, S, x, f) /\ IsPrefix(j.dst, InOutput(x)) =>
                    (x = d /\ f = e) \/ (IsStrictPrefix(d, x) /\ \E b, n : /\ n \in In /\ Comes(S, S, d, b)
                                                                           /\ Append(b, n) \in DOMAIN S)
  <1>1. PICK d, e :
              /\ d \in Seq(In) /\ d # <<>> /\ j.dst = InOutput(d) /\ Finds(S, S, d, e)
              /\ \/ j.src = e
                 \/ ~KeptIn(S, e) /\ S[e].t = "link" /\ Resolves(S, e) /\ j.src = Eval(S, e).at
    BY DEF JobMeans
  <1>2. e \in DOMAIN S /\ e \in Seq(In)
    BY <1>1, WholeStore, FindsIs
  <1>3. ASSUME NEW x \in Seq(In), NEW f, x # <<>>, Finds(S, S, x, f), IsPrefix(j.dst, InOutput(x))
        PROVE  (x = d /\ f = e) \/ (IsStrictPrefix(d, x) /\ \E b, n : /\ n \in In /\ Comes(S, S, d, b)
                                                                      /\ Append(b, n) \in DOMAIN S)
    <2>1. IsPrefix(d, x)
      BY <1>1, <1>3, OutputIs
    <2>2. CASE x = d
      <3>1. f = e
        BY <1>1, <1>3, <2>2, PartSelf, FindsPart
      <3> QED BY <2>2, <3>1
    <2>3. CASE x # d
      <3>1. IsStrictPrefix(d, x)
        BY <2>1, <2>3 DEF IsStrictPrefix
      <3>2. \E b, n : n \in In /\ Comes(S, S, d, b) /\ Append(b, n) \in DOMAIN S /\ IsPrefix(Append(d, n), x)
        BY <1>1, <1>3, <3>1, FindsBelow
      <3> QED BY <3>1, <3>2
    <2> QED BY <2>2, <2>3
  <1> QED BY <1>1, <1>2, <1>3

LEMMA MeansCopyLink ==
    ASSUME NEW S, Held(S, disk), CopyMeans(S, disk, todo), NEW j \in todo, JobOK(disk, j), CopyLink(j), ~Fail
    PROVE  CopyMeans(S, disk', todo')
  <1>0. StoreTree(S) /\ SubTree(S, S)
    BY WholeStore DEF Held
  <1>1. JobMeans(S, j)
    BY DEF CopyMeans
  <1>2. PICK d, e :
              /\ d \in Seq(In) /\ d # <<>> /\ j.dst = InOutput(d) /\ Finds(S, S, d, e) /\ e \in DOMAIN S /\ e \in Seq(In)
              /\ \/ j.src = e
                 \/ ~KeptIn(S, e) /\ S[e].t = "link" /\ Resolves(S, e) /\ j.src = Eval(S, e).at
              /\ \A x \in Seq(In) : \A f : x # <<>> /\ Finds(S, S, x, f) /\ IsPrefix(j.dst, InOutput(x)) =>
                    (x = d /\ f = e) \/ (IsStrictPrefix(d, x) /\ \E b, n : /\ n \in In /\ Comes(S, S, d, b)
                                                                           /\ Append(b, n) \in DOMAIN S)
    BY <1>0, <1>1, JobOf, Zenon
  <1>3. j.src \in DOMAIN S /\ disk[j.src] = S[j.src] /\ S[j.src].t = "link" /\ Eval(disk, j.src) = Eval(S, j.src)
    <2>1. j.src \in DOMAIN disk /\ j.src \in Seq(In) /\ j.src \in Seq(InUp)
      BY InIs DEF JobOK
    <2> QED BY <2>1 DEF Held, CopyLink
  <1>4. j.src = e
    <2>1. ASSUME ~KeptIn(S, e), S[e].t = "link", Resolves(S, e), j.src = Eval(S, e).at PROVE FALSE
      <3>1. S[Aim(S, e)].t # "link"
        BY <1>0, <1>2, <2>1, AimComes DEF Sound
      <3> QED BY <1>3, <2>1, <3>1 DEF Aim
    <2> QED BY <1>2, <2>1
  <1>5. KeptIn(S, e) <=> Resolves(S, e) /\ Kept(j, Eval(disk, j.src).at)
    BY <1>3, <1>4 DEF Kept, KeptIn, Keeps
  <1> DEFINE st == Eval(disk, j.src).st
             k == Job(Eval(disk, j.src).at, j.dst, j.active)
  <1>6. CASE st \in {"absent", "escape"} /\ disk' = disk /\ todo' = todo \ {j}
    <2>1. Nowhere(S, e)
      BY <1>3, <1>4, <1>6 DEF Nowhere
    <2>2. ASSUME NEW b, Comes(S, S, d, b) PROVE FALSE
      BY <1>0, <1>2, <2>1, <2>2, ComesFrom DEF Nowhere
    <2>3. \A x \in Seq(In) : \A f : x # <<>> /\ Finds(S, S, x, f) /\ IsPrefix(j.dst, InOutput(x)) => Met(S, disk', todo', x, f)
      BY <1>2, <2>1, <2>2, Zenon DEF Met
    <2> QED BY <1>6, <2>3, JobDone
  <1>7. CASE st = "ok" /\ Kept(j, Eval(disk, j.src).at) /\ disk' = With(disk, j.dst, disk[j.src]) /\ todo' = todo \ {j}
    <2>1. Resolves(S, e) /\ KeptIn(S, e)
      BY <1>3, <1>4, <1>5, <1>7 DEF Resolves
    <2>2. NodeMeans(S, j.dst, disk[j.src])
      <3>1. disk[j.src] = Given(S, e) /\ Sound(S, e)
        BY <1>3, <1>4, <2>1 DEF Given, Sound
      <3> QED BY <1>2, <3>1 DEF NodeMeans
    <2>3. ASSUME NEW b, Comes(S, S, d, b) PROVE FALSE
      BY <1>0, <1>2, <2>1, <2>3, ComesFrom
    <2>4. InOutput(d) \in DOMAIN disk'
      BY <1>2, <1>7 DEF With
    <2>5. \A x \in Seq(In) : \A f : x # <<>> /\ Finds(S, S, x, f) /\ IsPrefix(j.dst, InOutput(x)) => Met(S, disk', todo', x, f)
      BY <1>2, <2>3, <2>4, Zenon DEF Met
    <2>6. \E n : disk' = With(disk, j.dst, n) /\ NodeMeans(S, j.dst, n)
      BY <1>7, <2>2
    <2> QED BY <1>7, <2>5, <2>6, JobDone
  <1>8. CASE st = "ok" /\ ~Kept(j, Eval(disk, j.src).at) /\ disk' = disk /\ todo' = (todo \ {j}) \cup {k}
    <2>1. Resolves(S, e) /\ ~KeptIn(S, e) /\ k.src = Eval(S, e).at /\ k.dst = j.dst
      BY <1>3, <1>4, <1>5, <1>8 DEF Resolves, Job
    <2>2. JobMeans(S, k)
      <3> HIDE DEF k
      <3> QED BY <1>2, <1>3, <1>4, <2>1 DEF JobMeans
    <2>3. \A x \in Seq(In) : \A f : x # <<>> /\ Finds(S, S, x, f) /\ IsPrefix(j.dst, InOutput(x)) => Met(S, disk', todo', x, f)
      <3> HIDE DEF k
      <3> QED BY <1>8, <2>1 DEF Met
    <2>4. todo \ {j} \subseteq todo' /\ \A i \in todo' \ (todo \ {j}) : JobMeans(S, i)
      BY <1>8, <2>2
    <2> HIDE DEF k
    <2> QED BY <1>8, <2>3, <2>4, JobDone
  <1>9. st \notin {"loop", "notdir"} \/ Fail
    BY DEF CopyLink
  <1> QED BY <1>6, <1>7, <1>8 DEF CopyLink, Kept

\* What a job that is no link copies.
LEMMA JobNode ==
    ASSUME NEW S, Held(S, disk), NEW j, JobMeans(S, j), JobOK(disk, j), disk[j.src].t # "link"
    PROVE  \E d \in Seq(In) : \E e :
              /\ d # <<>> /\ j.dst = InOutput(d) /\ Finds(S, S, d, e) /\ Comes(S, S, d, j.src) /\ j.src \in DOMAIN S
              /\ disk[j.src] = S[j.src] /\ Sound(S, e) /\ Given(S, e) = S[j.src] /\ j.src # <<>>
              /\ \A b : Comes(S, S, d, b) => b = j.src
              /\ \A x \in Seq(In) : \A f : x # <<>> /\ Finds(S, S, x, f) /\ IsPrefix(j.dst, InOutput(x)) =>
                    (x = d /\ f = e) \/ (IsStrictPrefix(d, x) /\ \E b, n : /\ n \in In /\ Comes(S, S, d, b)
                                                                           /\ Append(b, n) \in DOMAIN S)
  <1>0. StoreTree(S) /\ SubTree(S, S)
    BY WholeStore DEF Held
  <1>2. PICK d, e :
              /\ d \in Seq(In) /\ d # <<>> /\ j.dst = InOutput(d) /\ Finds(S, S, d, e) /\ e \in DOMAIN S /\ e \in Seq(In)
              /\ \/ j.src = e
                 \/ ~KeptIn(S, e) /\ S[e].t = "link" /\ Resolves(S, e) /\ j.src = Eval(S, e).at
              /\ \A x \in Seq(In) : \A f : x # <<>> /\ Finds(S, S, x, f) /\ IsPrefix(j.dst, InOutput(x)) =>
                    (x = d /\ f = e) \/ (IsStrictPrefix(d, x) /\ \E b, n : /\ n \in In /\ Comes(S, S, d, b)
                                                                           /\ Append(b, n) \in DOMAIN S)
    BY <1>0, JobOf, Zenon
  <1>3. j.src \in DOMAIN S /\ disk[j.src] = S[j.src] /\ j.src # <<>>
    <2>1. j.src \in DOMAIN disk /\ j.src \in Seq(In)
      BY DEF JobOK
    <2>2. j.src # <<>>
      BY <2>1 DEF Held, IsTree
    <2> QED BY <2>1, <2>2 DEF Held
  <1>4. ~KeptIn(S, e) /\ Sound(S, e) /\ j.src = Aim(S, e)
    BY <1>2, <1>3 DEF KeptIn, Sound, Aim
  <1>5. Comes(S, S, d, j.src) /\ \A b : Comes(S, S, d, b) => b = j.src
    BY <1>0, <1>2, <1>4, AimComes
  <1>6. Given(S, e) = S[j.src]
    BY <1>4 DEF Given
  <1> QED BY <1>2, <1>3, <1>4, <1>5, <1>6

LEMMA MeansCopyNode ==
    ASSUME NEW S, Held(S, disk), CopyMeans(S, disk, todo), NEW j \in todo, JobOK(disk, j),
           CopyFile(j) \/ CopyDir(j), ~Fail
    PROVE  CopyMeans(S, disk', todo')
  <1>0. StoreTree(S) /\ IsTree(S)
    BY SubTreeIs, WholeStore DEF Held
  <1>1. JobMeans(S, j) /\ disk[j.src].t # "link"
    BY DEF CopyMeans, CopyFile, CopyDir
  <1>2. PICK d, e :
              /\ d \in Seq(In) /\ d # <<>> /\ j.dst = InOutput(d) /\ Finds(S, S, d, e) /\ Comes(S, S, d, j.src) /\ j.src \in DOMAIN S
              /\ disk[j.src] = S[j.src] /\ Sound(S, e) /\ Given(S, e) = S[j.src] /\ j.src # <<>>
              /\ \A b : Comes(S, S, d, b) => b = j.src
              /\ \A x \in Seq(In) : \A f : x # <<>> /\ Finds(S, S, x, f) /\ IsPrefix(j.dst, InOutput(x)) =>
                    (x = d /\ f = e) \/ (IsStrictPrefix(d, x) /\ \E b, n : /\ n \in In /\ Comes(S, S, d, b)
                                                                           /\ Append(b, n) \in DOMAIN S)
    BY <1>1, JobNode, Zenon
  <1>3. NodeMeans(S, j.dst, S[j.src])
    BY <1>2 DEF NodeMeans
  <1>4. CASE CopyFile(j)
    <2>1. disk' = With(disk, j.dst, S[j.src]) /\ todo' = todo \ {j} /\ S[j.src].t = "file"
      BY <1>2, <1>4 DEF CopyFile
    <2>2. ASSUME NEW b, NEW n \in In, Comes(S, S, d, b), Append(b, n) \in DOMAIN S PROVE FALSE
      <3>1. b = j.src /\ b \in Seq(In)
        BY <1>0, <1>2, <2>2 DEF StoreTree
      <3>2. Is("dir", S, Front(Append(b, n)))
        BY <1>0, <2>2, TreeNode
      <3>3. Front(Append(b, n)) = b
        BY <3>1, AppendPath
      <3> QED BY <1>2, <2>1, <3>1, <3>2, <3>3 DEF Is, Exists, Node
    <2>3. InOutput(d) \in DOMAIN disk'
      BY <1>2, <2>1 DEF With
    <2>4. \A x \in Seq(In) : \A f : x # <<>> /\ Finds(S, S, x, f) /\ IsPrefix(j.dst, InOutput(x)) => Met(S, disk', todo', x, f)
      BY <1>2, <2>2, <2>3, Zenon DEF Met
    <2>5. \E n : disk' = With(disk, j.dst, n) /\ NodeMeans(S, j.dst, n)
      BY <1>3, <2>1
    <2> QED BY <2>1, <2>4, <2>5, JobDone
  <1>5. CASE CopyDir(j)
    <2> DEFINE new == Jobs(disk, j.src, j.dst, j.active \cup {j.src})
    <2>1. disk' = With(disk, j.dst, S[j.src]) /\ todo' = (todo \ {j}) \cup new
      <3>1. S[j.src] = Dir
        BY <1>0, <1>2, <1>5, TreeNode DEF CopyDir
      <3> QED BY <1>5, <3>1 DEF CopyDir
    <2>2. /\ \A k \in new : JobMeans(S, k)
          /\ \A x \in Seq(In) : \A f : Finds(S, S, x, f) /\ IsStrictPrefix(d, x) => \E k \in new : IsPrefix(k.dst, InOutput(x))
      BY <1>2, Children
    <2> HIDE DEF new
    <2>3. InOutput(d) \in DOMAIN disk'
      BY <1>2, <2>1 DEF With
    <2>4. \A x \in Seq(In) : \A f : x # <<>> /\ Finds(S, S, x, f) /\ IsPrefix(j.dst, InOutput(x)) => Met(S, disk', todo', x, f)
      <3>1. ASSUME NEW x \in Seq(In), NEW f, x # <<>>, Finds(S, S, x, f), IsPrefix(j.dst, InOutput(x))
            PROVE  Met(S, disk', todo', x, f)
        <4>1. x = d \/ IsStrictPrefix(d, x)
          BY <1>2, <3>1, Zenon
        <4>2. CASE x = d
          BY <2>3, <4>2, Zenon DEF Met
        <4>3. CASE IsStrictPrefix(d, x)
          <5>1. \E k \in new : IsPrefix(k.dst, InOutput(x))
            BY <2>2, <3>1, <4>3, Zenon
          <5> QED BY <2>1, <5>1 DEF Met
        <4> QED BY <4>1, <4>2, <4>3
      <3> QED BY <3>1
    <2>5. \E n : disk' = With(disk, j.dst, n) /\ NodeMeans(S, j.dst, n)
      BY <1>3, <2>1
    <2>6. todo \ {j} \subseteq todo' /\ \A k \in todo' \ (todo \ {j}) : JobMeans(S, k)
      BY <2>1, <2>2
    <2> QED BY <2>4, <2>5, <2>6, JobDone
  <1> QED BY <1>4, <1>5

\* All is copied.
LEMMA CopyJudged ==
    ASSUME NEW S, StoreTree(S), NEW D, CopyMeans(S, D, {})
    PROVE  /\ Judged(S)
           /\ \A x \in Seq(In) : \A e : x # <<>> /\ Finds(S, S, x, e) /\ Sound(S, e) => InOutput(x) \in DOMAIN D
  <1>1. ASSUME NEW x \in Seq(In), NEW e, x # <<>>, Finds(S, S, x, e) PROVE InOutput(x) \in DOMAIN D \/ Nowhere(S, e)
    BY <1>1, Zenon DEF CopyMeans, Met
  <1>2. ASSUME NEW x \in Seq(In), NEW e, x # <<>>, Finds(S, S, x, e), S[e].t = "link"
        PROVE Eval(S, e).st \in {"ok", "absent", "escape"}
    <2>1. CASE InOutput(x) \in DOMAIN D
      <3>1. InOutput(x) \in Output(D)
        BY <1>2, <2>1, OutputIs DEF Output
      <3>2. PICK d, f : d \in Seq(In) /\ d # <<>> /\ InOutput(x) = InOutput(d) /\ Finds(S, S, d, f) /\ Sound(S, f)
        BY <3>1 DEF CopyMeans, NodeMeans
      <3>3. d = x
        BY <3>2, OutputIs
      <3>4. f = e
        BY <1>2, <3>2, <3>3, PartSelf, FindsPart
      <3> QED BY <1>2, <3>2, <3>4 DEF Sound, Resolves
    <2>2. CASE Nowhere(S, e)
      BY <2>2 DEF Nowhere
    <2> QED BY <1>1, <1>2, <2>1, <2>2
  <1>3. Judged(S)
    BY <1>2, Zenon DEF Judged
  <1>4. ASSUME NEW x \in Seq(In), NEW e, x # <<>>, Finds(S, S, x, e), Sound(S, e) PROVE InOutput(x) \in DOMAIN D
    BY <1>1, <1>4 DEF Nowhere, Sound, Resolves
  <1> QED BY <1>3, <1>4, Zenon

\* Before anything is copied.
LEMMA InitDisk ==
    ASSUME Init
    PROVE  /\ IsTree(disk) /\ StoreOK(disk) /\ Is("dir", disk, <<Source>>)
           /\ Output(disk) = {} /\ todo = Jobs(disk, <<Source>>, <<Out>>, {})
  <1>1. PICK tree \in Trees : disk = With(tree, <<Out>>, Dir) /\ todo = Jobs(tree, <<Source>>, <<Out>>, {})
    BY DEF Init
  <1>2. /\ IsTree(tree) /\ Is("dir", tree, <<Source>>) /\ DOMAIN tree \subseteq Seq(In)
    BY TreesAssumption DEF In
  <1>3. IsTree(disk) /\ StoreOK(disk)
    BY InitInv DEF BuildInv, DiskInv, CopyInv, Init
  <1>4. <<Source>> # <<>> /\ <<Source>> # <<Out>> /\ <<Out>> # <<>> /\ <<Out>>[1] = Out /\ Front(<<Out>>) = <<>>
    <2>1. Front(<<Out>>) = <<>>
      <3>1. <<>> \in Seq(Name) /\ <<Out>> = Append(<<>>, Out)
        OBVIOUS
      <3>2. \A p \in Seq(Name) : Front(Append(p, Out)) = p
        BY ArtifactAssumption, AppendPath
      <3>3. Front(Append(<<>>, Out)) = <<>>
        BY <3>1, <3>2, Zenon
      <3> QED BY <3>1, <3>3
    <2> QED BY <2>1, ArtifactAssumption
  <1>5. Is("dir", disk, <<Source>>)
    BY <1>1, <1>2, <1>4 DEF Is, Exists, Node, With
  <1>6. Output(disk) = {}
    <2>1. ASSUME NEW p \in Output(disk) PROVE FALSE
      <3>1. p \in DOMAIN disk /\ IsStrictPrefix(<<Out>>, p) /\ p \in Seq(Name) /\ p # <<>>
        BY <1>3, <2>1, TreeNode DEF Output
      <3>2. p # <<Out>>
        BY <3>1 DEF IsStrictPrefix
      <3>3. p \in Seq(In) /\ p[1] = Out
        BY <1>1, <1>2, <3>1, <3>2, InOut DEF With
      <3> QED BY <3>1, <3>3, OutsideIn
    <2> QED BY <2>1
  <1>7. Entries(disk, <<Source>>) = Entries(tree, <<Source>>)
    BY <1>1, <1>4 DEF Entries, With
  <1> QED BY <1>1, <1>3, <1>5, <1>6, <1>7 DEF Jobs

LEMMA MeansInit ==
    ASSUME Init, NEW S, S = Store(disk)
    PROVE  Held(S, disk) /\ CopyMeans(S, disk, todo)
  <1>1. Held(S, disk)
    BY InitDisk, StoreHeld
  <1>2. Comes(S, S, <<>>, <<Source>>) /\ InOutput(<<>>) = <<Out>> /\ <<>> \in Seq(In)
    <2>1. <<>> \in Seq(In)
      OBVIOUS
    <2> QED BY <2>1, ComesNil, OutputIs
  <1>3. /\ \A k \in todo : JobMeans(S, k)
        /\ \A x \in Seq(In) : \A e : Finds(S, S, x, e) /\ IsStrictPrefix(<<>>, x) => \E k \in todo : IsPrefix(k.dst, InOutput(x))
    <2>1. <<Source>> # <<>> /\ todo = Jobs(disk, <<Source>>, InOutput(<<>>), {})
      BY <1>2, InitDisk
    <2> QED BY <1>1, <1>2, <2>1, Children
  <1>4. ASSUME NEW x \in Seq(In), NEW e, x # <<>>, Finds(S, S, x, e) PROVE Met(S, disk, todo, x, e)
    <2>1. IsStrictPrefix(<<>>, x)
      <3>1. x \in Seq(Name) /\ <<>> \in Seq(Name)
        BY InIs
      <3>2. IsPrefix(<<>>, x)
        <4>1. Len(<<>>) = 0 /\ Len(x) \in Nat
          BY <3>1
        <4>2. Len(<<>>) <= Len(x) /\ \A i \in 1..Len(<<>>) : <<>>[i] = x[i]
          BY <4>1
        <4> QED BY <3>1, <4>2, PrefixIs
      <3> QED BY <1>4, <3>2 DEF IsStrictPrefix
    <2>2. \E k \in todo : IsPrefix(k.dst, InOutput(x))
      BY <1>3, <1>4, <2>1, Zenon
    <2> QED BY <2>2 DEF Met
  <1>5. \A p \in Output(disk) : NodeMeans(S, p, disk[p])
    BY InitDisk
  <1> QED BY <1>1, <1>3, <1>4, <1>5, Zenon DEF CopyMeans

-----------------------------------------------------------------------------
\* What is read of the store, and what is left of it: Left without the output.

UnreadIn(S) == UNION {Under(S, Append(Eval(S, InSource(Front(d))).at, Last(d))) :
                        d \in {e \in ToSet(Dropped) : Resolves(S, InSource(Front(e)))}}
NamedAway(S) == {p \in DOMAIN S : Last(p) \in Static \cup DOMAIN Public /\ S[p].t # "dir"}
ReadIn(S) == Without(S, UnreadIn(S))
LeftIn(S) == Without(S, UnreadIn(S) \cup NamedAway(S))

\* Short paths.
Short(f) == f = <<>> \/ \E n \in In : f = <<n>>

LEMMA DroppedFront ==
    ASSUME NEW i \in DOMAIN Dropped
    PROVE  Short(Front(Dropped[i])) /\ Last(Dropped[i]) \in In /\ Front(Dropped[i]) \in Seq(In)
  <1>1. Dropped[i] \in Seq(In) /\ Dropped[i] # <<>>
    <2>1. Dropped[i] \in ToSet(Dropped)
      BY DEF ToSet
    <2> QED BY <2>1, ArtifactAssumption, DroppedPath DEF In
  <1>2. Len(Dropped[i]) = 1 \/ Len(Dropped[i]) = 2
    <2>1. i \in 1..4
      BY DEF Dropped
    <2>2. \A x, y : Len(<<x>>) = 1 /\ Len(<<x, y>>) = 2
      OBVIOUS
    <2> QED BY <2>1, <2>2 DEF Dropped
  <1>3. ASSUME NEW d \in Seq(In), d # <<>>, Len(d) = 1 \/ Len(d) = 2
        PROVE  Short(Front(d)) /\ Last(d) \in In /\ Front(d) \in Seq(In)
    <2>1. Front(d) \in Seq(In) /\ Last(d) \in In /\ Len(d) = Len(Front(d)) + 1 /\ Len(Front(d)) \in Nat
      BY <1>3, FrontPath
    <2>2. CASE Len(Front(d)) = 0
      BY <2>1, <2>2, EmptySeq DEF Short
    <2>3. CASE Len(Front(d)) = 1
      <3>1. ASSUME NEW g \in Seq(In), Len(g) = 1 PROVE g[1] \in In /\ g = <<g[1]>>
        <4>1. g # <<>>
          <5>1. Len(<<>>) # 1
            BY EmptySeq
          <5> QED BY <3>1, <5>1, Zenon
        <4>2. Tail(g) \in Seq(In) /\ Len(g) = Len(Tail(g)) + 1 /\ g = <<g[1]>> \o Tail(g) /\ g[1] \in In
          BY <4>1, HeadTailPath
        <4>3. Tail(g) = <<>>
          BY <3>1, <4>2, EmptySeq
        <4>4. <<g[1]>> \in Seq(In)
          BY <4>2
        <4>5. <<g[1]>> \o <<>> = <<g[1]>>
          BY <4>4, ConcatEmptySeq, Zenon
        <4> QED BY <4>2, <4>3, <4>5
      <3> QED BY <2>1, <2>3, <3>1, Zenon DEF Short
    <2>4. Len(Front(d)) = 0 \/ Len(Front(d)) = 1
      <3>1. \A x, y \in Nat : x = y + 1 /\ (x = 1 \/ x = 2) => y = 0 \/ y = 1
        OBVIOUS
      <3>2. Len(d) \in Nat
        OBVIOUS
      <3> QED BY <1>3, <2>1, <3>1, <3>2, Zenon
    <2> QED BY <2>1, <2>2, <2>3, <2>4
  <1> QED BY <1>1, <1>2, <1>3

\* A path of the package.
LEMMA InPackage ==
    ASSUME NEW p \in Seq(In)
    PROVE  /\ InSource(p) \in Seq(In) /\ InSource(p) # <<>> /\ InSource(p)[1] = Source /\ Tail(InSource(p)) = p
           /\ Source \in In /\ InSource(<<>>) = <<Source>>
           /\ \A n \in In : Append(InSource(p), n) = InSource(Append(p, n))
           /\ p # <<>> => Front(InSource(p)) = InSource(Front(p)) /\ Last(InSource(p)) = Last(p)
  <1>1. Source \in In
    BY ArtifactAssumption DEF In
  <1>2. \A n \in In : /\ Append(InSource(p), n) = InSource(Append(p, n))
                      /\ InSource(p) \in Seq(In) /\ InSource(p) # <<>> /\ InSource(p)[1] = Source
                      /\ Tail(InSource(p)) = p
    BY SourceAppend, Zenon
  <1>3. p # <<>> => Front(InSource(p)) = InSource(Front(p)) /\ Last(InSource(p)) = Last(p)
    BY SourceAppend, Zenon
  <1>4. InSource(<<>>) = <<Source>>
    BY SourceAppend, Zenon
  <1> QED BY <1>1, <1>2, <1>3, <1>4

\* A path that resolves is there; one that is there and is no link leads to itself.
LEMMA RealEval ==
    ASSUME NEW t, IsTree(t), LinksIn(t), NEW a \in Seq(In), Real1(t, a), NEW n \in In, Resolves(t, Append(a, n))
    PROVE  /\ Is("dir", t, a) /\ Append(a, n) \in DOMAIN t
           /\ t[Append(a, n)].t # "link" => Eval(t, Append(a, n)).at = Append(a, n)
  <1> DEFINE b == Eval(t, Append(a, n)).at
  <1>1. \E k \in Nat : Leads(t, On(<<>>, Append(a, n)), k, b)
    <2>1. Leads(t, Start(Append(a, n)), MaxWalk, b)
      BY EvalLeads
    <2> QED BY <2>1, StartOn, TreeAssumption
  <1> HIDE DEF b
  <1>2. PICK k \in Nat : Leads(t, On(a, <<n>>), k, b)
    BY <1>1, LastHop
  <1>3. <<n>> # <<>> /\ Head(<<n>>) = n /\ n # ".."
    BY InIs
  <1>4. PICK c, r : Goes(t, a, <<n>>, c, r)
    BY <1>2, <1>3, LeadsFirst, Zenon
  <1>5. Is("dir", t, a) /\ Append(a, n) \in DOMAIN t
    BY <1>3, <1>4 DEF Goes
  <1>6. t[Append(a, n)].t # "link" => b = Append(a, n)
    BY <1>2, <1>5, LeadsDown, Zenon
  <1> QED BY <1>5, <1>6 DEF b

LEMMA ShortAt ==
    ASSUME NEW S, StoreTree(S), NEW f, Short(f), Resolves(S, InSource(f))
    PROVE  /\ Eval(S, InSource(f)).at \in Seq(In) /\ Eval(S, InSource(f)).at # <<>>
           /\ f \in Seq(In)
  <1> DEFINE q == InSource(f)
  <1>0. IsTree(S) /\ LinksIn(S) /\ StoreOK(S) /\ DOMAIN S \subseteq Seq(In) /\ Real1(S, <<Source>>)
        /\ <<Source>> \in Seq(In) /\ <<Source>> # <<>> /\ Is("dir", S, <<Source>>)
    BY WholeStore, SubTreeIs DEF StoreTree
  <1>1. f \in Seq(In)
    <2>1. <<>> \in Seq(In) /\ \A n \in In : <<n>> \in Seq(In)
      OBVIOUS
    <2> QED BY <2>1, Zenon DEF Short
  <1>2. q \in Seq(In) /\ q \in Seq(InUp) /\ InSource(<<>>) = <<Source>>
    <2>1. q \in Seq(In)
      BY <1>1, InPackage
    <2>2. InSource(<<>>) = <<Source>>
      BY <1>1, InPackage
    <2> QED BY <2>1, <2>2, InIs
  <1>3. Eval(S, q).at \in Seq(In)
    <2> HIDE DEF q
    <2>1. Agree(S, S)
      BY DEF Agree
    <2> QED BY <1>0, <1>2, <2>1, AgreeEval
  <1>4. Eval(S, q).at # <<>>
    <2>1. CASE f = <<>>
      <3>1. <<Source>> \in Seq(Name)
        BY <1>0, InIs
      <3> QED BY <1>0, <1>2, <2>1, <3>1, RealDir
    <2>2. CASE \E n \in In : f = <<n>>
      <3>1. PICK n \in In : f = <<n>>
        BY <2>2
      <3>2. q = Append(<<Source>>, n)
        BY <3>1 DEF InSource
      <3>3. Resolves(S, Append(<<Source>>, n))
        BY <3>2
      <3>4. q \in DOMAIN S /\ (S[q].t # "link" => Eval(S, q).at = q)
        BY <1>0, <3>2, <3>3, RealEval
      <3>5. S[q].t = "link" => Eval(S, q).at # <<>>
        <4>1. q[1] # Out
          <5>1. q # <<>>
            BY <1>1, InPackage
          <5> QED BY <1>2, <5>1, OutsideIn
        <4> QED BY <1>0, <3>4, <4>1 DEF StoreOK, Stored
      <3>6. q # <<>>
        BY <1>1, InPackage
      <3> QED BY <3>4, <3>5, <3>6
    <2> QED BY <2>1, <2>2 DEF Short
  <1> QED BY <1>1, <1>3, <1>4

\* What is unread is so with all below it, and is not the package.
LEMMA UnreadIs ==
    ASSUME NEW S, StoreTree(S)
    PROVE  /\ \A q \in DOMAIN S : Front(q) \in UnreadIn(S) => q \in UnreadIn(S)
           /\ <<Source>> \notin UnreadIn(S)
           /\ \A i \in DOMAIN Dropped : Resolves(S, InSource(Front(Dropped[i]))) =>
                 Under(S, Append(Eval(S, InSource(Front(Dropped[i]))).at, Last(Dropped[i]))) \subseteq UnreadIn(S)
           /\ \A q \in UnreadIn(S) : \E g \in Seq(In) : IsPrefix(g, q) /\ Last(g) \notin DOMAIN Public
                                                        /\ g # <<>> /\ Under(S, g) \subseteq UnreadIn(S)
  <1>0. IsTree(S) /\ DOMAIN S \subseteq Seq(In) /\ <<Source>> \in Seq(In)
    BY WholeStore, SubTreeIs DEF StoreTree
  <1>1. \A i \in DOMAIN Dropped : Dropped[i] \in ToSet(Dropped)
    BY DEF ToSet
  <1>2. ASSUME NEW i \in DOMAIN Dropped, Resolves(S, InSource(Front(Dropped[i])))
        PROVE  Under(S, Append(Eval(S, InSource(Front(Dropped[i]))).at, Last(Dropped[i]))) \subseteq UnreadIn(S)
    BY <1>1, <1>2 DEF UnreadIn
  <1>3. ASSUME NEW q \in UnreadIn(S)
        PROVE  \E g \in Seq(In) : /\ IsPrefix(g, q) /\ Last(g) \notin DOMAIN Public /\ Len(g) >= 2 /\ g # <<>>
                                  /\ Under(S, g) \subseteq UnreadIn(S) /\ q \in DOMAIN S
    <2>1. PICK d \in ToSet(Dropped) : /\ Resolves(S, InSource(Front(d)))
                                      /\ q \in Under(S, Append(Eval(S, InSource(Front(d))).at, Last(d)))
      BY <1>3 DEF UnreadIn
    <2>2. PICK i \in DOMAIN Dropped : d = Dropped[i]
      BY DEF ToSet
    <2> DEFINE a == Eval(S, InSource(Front(d))).at
               g == Append(a, Last(d))
    <2>3. a \in Seq(In) /\ a # <<>>
      BY <2>1, <2>2, DroppedFront, ShortAt
    <2>4. Last(d) \in In /\ Last(d) \notin DOMAIN Public
      BY <2>2, DroppedFront, DroppedPath
    <2>5. Under(S, g) \subseteq UnreadIn(S)
      BY <1>2, <2>1, <2>2
    <2> HIDE DEF a
    <2>6. g \in Seq(In) /\ Len(g) >= 2 /\ Last(g) = Last(d) /\ g # <<>>
      <3>1. Len(a) \in Nat /\ Len(a) # 0
        BY <2>3, EmptySeq
      <3> QED BY <2>3, <2>4, <3>1, AppendPath
    <2>7. IsPrefix(g, q) /\ q \in DOMAIN S
      BY <2>1 DEF Under, a
    <2> HIDE DEF g
    <2> QED BY <2>4, <2>5, <2>6, <2>7
  <1>4. ASSUME NEW q \in DOMAIN S, Front(q) \in UnreadIn(S) PROVE q \in UnreadIn(S)
    <2>1. PICK g \in Seq(In) : IsPrefix(g, Front(q)) /\ Under(S, g) \subseteq UnreadIn(S)
      BY <1>3, <1>4
    <2>2. q \in Seq(Name) /\ q # <<>> /\ Len(g) \in Nat
      BY <1>0, TreeNode
    <2>3. IsPrefix(g, q)
      BY <2>1, <2>2, PrefixOfFront
    <2> QED BY <2>1, <2>3 DEF Under
  <1>5. <<Source>> \notin UnreadIn(S)
    <2>1. ASSUME <<Source>> \in UnreadIn(S) PROVE FALSE
      <3>1. PICK g \in Seq(In) : IsPrefix(g, <<Source>>) /\ Len(g) >= 2
        BY <1>3, <2>1
      <3>2. Len(g) <= 1
        BY <3>1 DEF IsPrefix
      <3> QED BY <3>1, <3>2
    <2> QED BY <2>1
  <1> QED BY <1>2, <1>3, <1>4, <1>5

LEMMA ReadParts ==
    ASSUME NEW S, StoreTree(S)
    PROVE  /\ SubTree(ReadIn(S), S) /\ SubTree(LeftIn(S), S) /\ Part(LeftIn(S), ReadIn(S))
           /\ DOMAIN ReadIn(S) = DOMAIN S \ UnreadIn(S)
           /\ DOMAIN LeftIn(S) = DOMAIN S \ (UnreadIn(S) \cup NamedAway(S))
  <1>0. IsTree(S) /\ <<Source>> \in DOMAIN S /\ S[<<Source>>].t = "dir"
    BY WholeStore, SubTreeIs
  <1>1. DOMAIN ReadIn(S) = DOMAIN S \ UnreadIn(S) /\ \A p \in DOMAIN ReadIn(S) : ReadIn(S)[p] = S[p]
    BY DEF ReadIn, Without
  <1>2. /\ DOMAIN LeftIn(S) = DOMAIN S \ (UnreadIn(S) \cup NamedAway(S))
        /\ \A p \in DOMAIN LeftIn(S) : LeftIn(S)[p] = S[p]
    BY DEF LeftIn, Without
  <1>3. IsTree(ReadIn(S))
    BY <1>0, UnreadIs, TreeWithout DEF ReadIn
  <1>4. IsTree(LeftIn(S))
    <2>1. ASSUME NEW q \in DOMAIN S, Front(q) \in NamedAway(S) PROVE FALSE
      <3>1. Front(q) \in DOMAIN S /\ S[Front(q)].t # "dir"
        BY <2>1 DEF NamedAway
      <3> QED BY <1>0, <3>1, NoEntries
    <2>2. \A q \in DOMAIN S : Front(q) \in UnreadIn(S) \cup NamedAway(S) => q \in UnreadIn(S) \cup NamedAway(S)
      BY <2>1, UnreadIs
    <2> QED BY <1>0, <2>2, TreeWithout DEF LeftIn
  <1>5. <<Source>> \notin UnreadIn(S) /\ <<Source>> \notin NamedAway(S)
    BY <1>0, UnreadIs DEF NamedAway
  <1>6. Is("dir", ReadIn(S), <<Source>>) /\ Is("dir", LeftIn(S), <<Source>>)
    BY <1>0, <1>1, <1>2, <1>5 DEF Is, Exists, Node
  <1> QED BY <1>1, <1>2, <1>3, <1>4, <1>6 DEF SubTree, Part

-----------------------------------------------------------------------------
\* What nobody reads is removed: nothing else is.

DropMeans(S, D) ==
    /\ Judged(S)
    /\ \A p \in Output(D) : NodeMeans(S, p, D[p])
    /\ \A d \in Seq(In) : \A e : d # <<>> /\ Finds(S, ReadIn(S), d, e) /\ Sound(S, e) => InOutput(d) \in DOMAIN D

LEMMA MeansCopyDone ==
    ASSUME NEW S, StoreTree(S), NEW D, CopyMeans(S, D, {})
    PROVE  DropMeans(S, D)
  <1>1. Part(ReadIn(S), S)
    BY ReadParts DEF SubTree
  <1>2. ASSUME NEW d \in Seq(In), NEW e, d # <<>>, Finds(S, ReadIn(S), d, e), Sound(S, e) PROVE InOutput(d) \in DOMAIN D
    <2>1. Finds(S, S, d, e)
      BY <1>1, <1>2, FindsPart
    <2> QED BY <1>2, <2>1, CopyJudged, Zenon
  <1>3. Judged(S)
    BY CopyJudged
  <1> QED BY <1>2, <1>3, Zenon DEF CopyMeans, DropMeans

\* What the output has where the package has something of its own is that.
Own1(S, d) == InSource(d) \in DOMAIN S /\ S[InSource(d)].t # "link"

LEMMA OwnFinds ==
    ASSUME NEW S, StoreTree(S), NEW d \in Seq(In), NEW n \in In, InSource(Append(d, n)) \in DOMAIN S
    PROVE  Finds(S, S, Append(d, n), InSource(Append(d, n))) /\ Own1(S, d)
  <1> DEFINE x == Append(d, n)
             e == InSource(x)
  <1>0. IsTree(S) /\ SubTree(S, S)
    BY WholeStore, SubTreeIs
  <1>1. x \in Seq(In) /\ x # <<>> /\ Front(x) = d /\ Last(x) = n
    BY AppendPath
  <1>2. e = Append(InSource(d), n) /\ InSource(d) \in Seq(In) /\ InSource(d) # <<>>
    BY InPackage
  <1>3. Is("dir", S, InSource(d))
    <2>1. Is("dir", S, Front(e))
      BY <1>0, TreeNode
    <2>2. Front(e) = InSource(d)
      BY <1>2, AppendPath
    <2> QED BY <2>1, <2>2
  <1>4. InSource(d) \in DOMAIN S /\ S[InSource(d)].t # "link"
    BY <1>2, <1>3 DEF Is, Exists, Node
  <1>5. Comes(S, S, d, InSource(d))
    BY <1>0, <1>4, RealComes
  <1> HIDE DEF x
  <1>6. Finds(S, S, x, e)
    BY <1>1, <1>2, <1>5, Zenon DEF Finds, x
  <1> QED BY <1>4, <1>6 DEF Own1, x

LEMMA CopyIsOwn ==
    ASSUME NEW S, StoreTree(S), NEW D, DropMeans(S, D), NEW d \in Seq(In), NEW n \in In,
           InOutput(Append(d, n)) \in DOMAIN D, Append(d, n) \in DOMAIN Own(S)
    PROVE  LET e == InSource(Append(d, n))
           IN e \in DOMAIN S /\ D[InOutput(Append(d, n))] = S[e] /\ Own(S)[Append(d, n)] = S[e]
              /\ (S[e].t = "link" => ~S[e].abs) /\ Is("dir", S, InSource(d))
  <1> DEFINE x == Append(d, n)
             e == InSource(x)
  <1>1. x \in Seq(In) /\ x # <<>>
    BY AppendPath
  <1>2. e \in DOMAIN S /\ (S[e].t = "link" => Keeps(S, e)) /\ Own(S)[x] = S[e]
    <2> HIDE DEF x
    <2> QED BY <1>1, OwnTree DEF x
  <1>3. Finds(S, S, x, e) /\ Own1(S, d)
    BY <1>2, OwnFinds
  <1>4. Is("dir", S, InSource(d))
    <2>1. Is("dir", S, Front(e)) /\ IsTree(S)
      BY <1>2, WholeStore, SubTreeIs, TreeNode
    <2>2. Front(e) = InSource(d)
      <3>1. e = Append(InSource(d), n) /\ InSource(d) \in Seq(In)
        BY InPackage
      <3> QED BY <3>1, AppendPath
    <2> QED BY <2>1, <2>2
  <1>5. D[InOutput(x)] = S[e]
    <2> HIDE DEF x
    <2>1. InOutput(x) \in Output(D)
      BY <1>1, OutputIs DEF Output, x
    <2>2. PICK y, f : /\ y \in Seq(In) /\ y # <<>> /\ InOutput(x) = InOutput(y) /\ Finds(S, S, y, f)
                      /\ D[InOutput(x)] = Given(S, f)
      BY <2>1 DEF DropMeans, NodeMeans
    <2>3. y = x
      BY <1>1, <2>2, OutputIs
    <2>4. f = e
      BY <1>1, <1>3, <2>2, <2>3, PartSelf, FindsPart DEF x
    <2>5. KeptIn(S, e) \/ S[e].t # "link"
      BY <1>2 DEF KeptIn
    <2> QED BY <2>2, <2>4, <2>5 DEF Given, Aim
  <1>6. S[e].t = "link" => ~S[e].abs
    BY <1>2 DEF Keeps
  <1> QED BY <1>2, <1>4, <1>5, <1>6

\* A walk through the package's own part, in the output and in the package.
LEMMA OwnStep ==
    ASSUME NEW S, StoreTree(S), NEW D, DropMeans(S, D), NEW d \in Seq(In), Own1(S, d),
           NEW u \in Seq(InUp), u # <<>>, NEW b, NEW r, Goes(D, InOutput(d), u, b, r),
           NEW x, NEW y, Goes(Own(S), d, u, x, y)
    PROVE  /\ x \in Seq(In) /\ y \in Seq(InUp) /\ b = InOutput(x) /\ r = y /\ Own1(S, x)
           /\ Goes(S, InSource(d), u, InSource(x), y)
  <1>0. IsTree(S) /\ IsTree(Own(S)) /\ LinksIn(Own(S))
    BY WholeStore, SubTreeIs, OwnTree
  <1>1. x \in Seq(In) /\ y \in Seq(InUp)
    BY <1>0, GoesIn
  <1>2. Head(u) \in InUp /\ Tail(u) \in Seq(InUp)
    BY HeadTailPath
  <1>3. InSource(d) \in Seq(In) /\ InSource(d) # <<>> /\ InOutput(d) # <<>>
    BY InPackage, OutputIs
  <1>4. CASE Head(u) = ".."
    <2>1. d # <<>> /\ x = Front(d) /\ y = Tail(u) /\ Is("dir", Own(S), d)
      BY <1>4 DEF Goes
    <2>2. b = Front(InOutput(d)) /\ r = Tail(u)
      BY <1>4 DEF Goes
    <2>3. b = InOutput(x)
      BY <2>1, <2>2, OutputIs
    <2>4. Front(InSource(d)) = InSource(x)
      BY <2>1, InPackage
    <2>5. InSource(d) \in DOMAIN S /\ S[InSource(d)].t = "dir"
      <3>1. d \in DOMAIN Own(S) /\ Own(S)[d].t = "dir"
        BY <2>1 DEF Is, Exists, Node
      <3> QED BY <3>1, <2>1, OwnTree
    <2>6. Is("dir", S, InSource(d))
      BY <2>5 DEF Is, Exists, Node, Dir
    <2>7. Own1(S, x)
      <3>1. Is("dir", S, InSource(x)) /\ InSource(x) # <<>>
        <4>1. Is("dir", S, Front(InSource(d)))
          BY <1>0, <2>5, TreeNode
        <4> QED BY <1>1, <2>4, <4>1, InPackage
      <3> QED BY <3>1 DEF Is, Exists, Node, Own1
    <2>8. Goes(S, InSource(d), u, InSource(x), y)
      BY <1>3, <1>4, <2>1, <2>4, <2>6 DEF Goes
    <2> QED BY <1>1, <2>1, <2>2, <2>3, <2>7, <2>8
  <1>5. CASE Head(u) # ".."
    <2> DEFINE n == Head(u)
               z == Append(d, n)
               e == InSource(z)
    <2>1. n \in In /\ Append(InOutput(d), n) = InOutput(z) /\ Append(InSource(d), n) = e
      <3>1. n \in In
        BY <1>2, <1>5 DEF InUp
      <3>2. \A m \in In : Append(InOutput(d), m) = InOutput(Append(d, m))
        BY OutputIs
      <3>3. \A m \in In : Append(InSource(d), m) = InSource(Append(d, m))
        BY InPackage
      <3> QED BY <3>1, <3>2, <3>3
    <2>2. z \in DOMAIN Own(S) /\ InOutput(z) \in DOMAIN D
      BY <1>5, <2>1 DEF Goes
    <2>3. e \in DOMAIN S /\ D[InOutput(z)] = S[e] /\ Own(S)[z] = S[e] /\ (S[e].t = "link" => ~S[e].abs)
          /\ Is("dir", S, InSource(d))
      BY <2>1, <2>2, CopyIsOwn
    <2>4. CASE S[e].t # "link"
      <3>1. x = z /\ y = Tail(u)
        BY <1>5, <2>2, <2>3, <2>4 DEF Goes
      <3>2. b = InOutput(z) /\ r = Tail(u)
        BY <1>5, <2>1, <2>2, <2>3, <2>4 DEF Goes
      <3>3. Goes(S, InSource(d), u, e, y)
        BY <1>5, <2>1, <2>3, <2>4, <3>1 DEF Goes
      <3>4. Own1(S, z)
        BY <2>3, <2>4 DEF Own1
      <3> HIDE DEF z
      <3> QED BY <1>1, <3>1, <3>2, <3>3, <3>4
    <2>5. CASE S[e].t = "link"
      <3>1. x = d /\ y = S[e].to \o Tail(u)
        BY <1>5, <2>2, <2>3, <2>5 DEF Goes
      <3>2. b = InOutput(d) /\ r = S[e].to \o Tail(u)
        BY <1>5, <2>1, <2>2, <2>3, <2>5 DEF Goes
      <3>3. Goes(S, InSource(d), u, InSource(d), y)
        BY <1>5, <2>1, <2>3, <2>5, <3>1 DEF Goes
      <3> HIDE DEF z
      <3> QED BY <1>1, <3>1, <3>2, <3>3
    <2> QED BY <2>4, <2>5
  <1> QED BY <1>4, <1>5

Along(S, D, k) ==
    \A d \in Seq(In), u \in Seq(InUp) : \A q :
        Own1(S, d) /\ (u # <<>> => Follows(S, d, u)) /\ Leads(D, On(InOutput(d), u), k, q) =>
            \E c \in Seq(In) : q = InOutput(c) /\ Own1(S, c) /\ Leads(S, On(InSource(d), u), k, InSource(c))

LEMMA AlongNext ==
    ASSUME NEW S, StoreTree(S), NEW D, DropMeans(S, D), NEW k \in Nat, Along(S, D, k)
    PROVE  Along(S, D, k + 1)
  <1>1. ASSUME NEW d \in Seq(In), NEW u \in Seq(InUp), NEW q, Own1(S, d), u # <<>> => Follows(S, d, u),
               Leads(D, On(InOutput(d), u), k + 1, q)
        PROVE  \E c \in Seq(In) : q = InOutput(c) /\ Own1(S, c) /\ Leads(S, On(InSource(d), u), k + 1, InSource(c))
    <2>1. CASE u = <<>>
      <3>1. k + 1 \in Nat /\ k + 1 # 0
        OBVIOUS
      <3>2. q = InOutput(d)
        <4>1. Leads(D, On(InOutput(d), <<>>), k + 1, q)
          BY <1>1, <2>1
        <4> QED BY <3>1, <4>1, LeadsNil
      <3>3. Leads(S, On(InSource(d), u), k + 1, InSource(d))
        BY <2>1, <3>1, LeadsNil, Zenon
      <3> QED BY <1>1, <3>2, <3>3
    <2>2. CASE u # <<>>
      <3>1. PICK b, r : Goes(D, InOutput(d), u, b, r) /\ Leads(D, On(b, r), k, q)
        BY <1>1, <2>2, LeadsOn, Zenon
      <3>2. PICK x, y, m, z : m \in Nat /\ Goes(Own(S), d, u, x, y) /\ Leads(Own(S), On(x, y), m, z)
        <4>1. PICK m \in Nat : \E z : Leads(Own(S), On(d, u), m, z)
          BY <1>1, <2>2, Zenon DEF Follows
        <4>2. PICK z : Leads(Own(S), On(d, u), m, z)
          BY <4>1
        <4> QED BY <2>2, <4>1, <4>2, LeadsFirst
      <3>3. /\ x \in Seq(In) /\ y \in Seq(InUp) /\ b = InOutput(x) /\ r = y /\ Own1(S, x)
            /\ Goes(S, InSource(d), u, InSource(x), y)
        BY <1>1, <2>2, <3>1, <3>2, OwnStep
      <3>4. Follows(S, x, y)
        BY <3>2 DEF Follows
      <3>5. Leads(D, On(InOutput(x), y), k, q)
        BY <3>1, <3>3
      <3>6. PICK c \in Seq(In) : q = InOutput(c) /\ Own1(S, c) /\ Leads(S, On(InSource(x), y), k, InSource(c))
        BY <3>3, <3>4, <3>5, Zenon DEF Along
      <3>7. Leads(S, On(InSource(d), u), k + 1, InSource(c))
        BY <2>2, <3>3, <3>6, LeadsGoes, Zenon
      <3> QED BY <3>6, <3>7
    <2> QED BY <2>1, <2>2
  <1> QED BY <1>1 DEF Along

LEMMA AlongAll ==
    ASSUME NEW S, StoreTree(S), NEW D, DropMeans(S, D)
    PROVE  \A k \in Nat : Along(S, D, k)
  <1> DEFINE I == {k \in Nat : Along(S, D, k)}
  <1>1. 0 \in I
    <2>1. \A d, u, q : ~Leads(D, On(InOutput(d), u), 0, q)
      BY LeadsNow DEF On
    <2> QED BY <2>1 DEF Along
  <1>2. \A n \in I : n + 1 \in I
    BY AlongNext
  <1>3. I = Nat
    <2> HIDE DEF I
    <2>1. I \in SUBSET Nat
      BY DEF I
    <2> QED BY <1>1, <1>2, <2>1, Induction
  <1> QED BY <1>3

\* The first step of a walk below a name of the store.
LEMMA FirstName ==
    ASSUME NEW t, IsTree(t), NEW x \in Name, <<x>> \in DOMAIN t, t[<<x>>].t # "link", NEW p \in Seq(Name), NEW q,
           NEW k \in Nat
    PROVE  /\ Leads(t, On(<<>>, <<x>> \o p), k, q) => k - 1 \in Nat /\ Leads(t, On(<<x>>, p), k - 1, q)
           /\ Leads(t, On(<<x>>, p), k, q) => Leads(t, On(<<>>, <<x>> \o p), k + 1, q)
  <1> DEFINE w == <<x>> \o p
  <1>1. w # <<>> /\ Head(w) = x /\ Tail(w) = p /\ x # ".."
    <2>1. x # ".."
      BY TreeAssumption
    <2> QED BY <2>1, BelowIs
  <1> HIDE DEF w
  <1>2. Append(<<>>, x) = <<x>> /\ Is("dir", t, <<>>)
    BY DEF Is, Exists, Node, Dir
  <1>3. Goes(t, <<>>, w, <<x>>, p)
    BY <1>1, <1>2 DEF Goes
  <1>4. ASSUME Leads(t, On(<<>>, w), k, q) PROVE k - 1 \in Nat /\ Leads(t, On(<<x>>, p), k - 1, q)
    <2>1. k - 1 \in Nat /\ \E b, r : Goes(t, <<>>, w, b, r) /\ Leads(t, On(b, r), k - 1, q)
      BY <1>1, <1>4, LeadsGoes
    <2>2. PICK b, r : Goes(t, <<>>, w, b, r) /\ Leads(t, On(b, r), k - 1, q)
      BY <2>1
    <2>3. b = <<x>> /\ r = p
      BY <1>3, <2>2, GoesOnce
    <2> QED BY <2>1, <2>2, <2>3
  <1>5. ASSUME Leads(t, On(<<x>>, p), k, q) PROVE Leads(t, On(<<>>, w), k + 1, q)
    BY <1>1, <1>3, <1>5, LeadsGoes, Zenon
  <1> QED BY <1>4, <1>5 DEF w

\* A resolution ends at the copy of c.
Lands(v, c) == v.at = InOutput(c)

\* Where the directory of something unread is in the output, and in the store.
LEMMA DropPlace ==
    ASSUME NEW S, NEW D, Held(S, D), Anchored(S), DropMeans(S, D), <<Out>> \in DOMAIN D, D[<<Out>>] = Dir,
           NEW f, Short(f), Resolves(D, InOutput(f))
    PROVE  \E c \in Seq(In) : /\ Lands(Eval(D, InOutput(f)), c) /\ Resolves(S, InSource(f))
                              /\ \A a : Comes(S, S, c, a) => a = Eval(S, InSource(f)).at
  <1> DEFINE A == Eval(D, InOutput(f)).at
  <1>0. StoreTree(S) /\ IsTree(D) /\ IsTree(S) /\ LinksIn(S) /\ SubTree(S, S) /\ DOMAIN S \subseteq Seq(In)
        /\ <<Source>> \in DOMAIN S /\ S[<<Source>>].t # "link" /\ Source \in Name /\ Out \in Name
    <2>1. StoreTree(S) /\ IsTree(D)
      BY DEF Held
    <2>2. Source \in Name /\ Out \in Name
      BY ArtifactAssumption
    <2> QED BY <2>1, <2>2, WholeStore, SubTreeIs
  <1>1. f \in Seq(In) /\ f \in Seq(Name) /\ f \in Seq(InUp)
    <2>1. <<>> \in Seq(In) /\ \A n \in In : <<n>> \in Seq(In)
      OBVIOUS
    <2>2. f \in Seq(In)
      BY <2>1, Zenon DEF Short
    <2> QED BY <2>2, InIs
  <1>2. MaxWalk \in Nat /\ MaxWalk - 1 \in Nat /\ Leads(D, On(<<Out>>, f), MaxWalk - 1, A)
    <2>1. Leads(D, On(<<>>, <<Out>> \o f), MaxWalk, A)
      BY EvalLeads, StartOn DEF InOutput
    <2>2. D[<<Out>>].t # "link" /\ MaxWalk \in Nat
      BY TreeAssumption DEF Dir
    <2> HIDE DEF A
    <2> QED BY <1>0, <1>1, <2>1, <2>2, FirstName
  <1> HIDE DEF A
  <1>3. InSource(<<>>) = <<Source>> /\ InOutput(<<>>) = <<Out>> /\ <<>> \in Seq(In) /\ Own1(S, <<>>)
    <2>1. <<>> \in Seq(In)
      OBVIOUS
    <2>2. InSource(<<>>) = <<Source>> /\ InOutput(<<>>) = <<Out>>
      BY <2>1, InPackage, OutputIs
    <2> QED BY <1>0, <2>1, <2>2 DEF Own1
  <1>4. ASSUME f # <<>> => Follows(S, <<>>, f)
        PROVE  \E c \in Seq(In) : /\ A = InOutput(c) /\ Resolves(S, InSource(f))
                                  /\ \A a : Comes(S, S, c, a) => a = Eval(S, InSource(f)).at
    <2>1. Along(S, D, MaxWalk - 1)
      BY <1>0, <1>2, AlongAll
    <2>2. Leads(D, On(InOutput(<<>>), f), MaxWalk - 1, A)
      BY <1>2, <1>3
    <2>3. PICK c \in Seq(In) : A = InOutput(c) /\ Own1(S, c) /\ Leads(S, On(InSource(<<>>), f), MaxWalk - 1, InSource(c))
      BY <1>1, <1>3, <1>4, <2>1, <2>2, Zenon DEF Along
    <2>4. Leads(S, On(<<>>, <<Source>> \o f), MaxWalk, InSource(c))
      <3>1. Leads(S, On(<<>>, <<Source>> \o f), (MaxWalk - 1) + 1, InSource(c))
        BY <1>0, <1>1, <1>2, <1>3, <2>3, FirstName
      <3>2. (MaxWalk - 1) + 1 = MaxWalk
        BY <1>2
      <3> QED BY <3>1, <3>2
    <2>5. Resolves(S, InSource(f)) /\ Eval(S, InSource(f)).at = InSource(c)
      <3>1. Leads(S, Start(InSource(f)), MaxWalk, InSource(c))
        BY <2>4, StartOn DEF InSource
      <3> QED BY <3>1, EvalLeads
    <2>6. Comes(S, S, c, InSource(c))
      BY <1>0, <2>3, RealComes DEF Own1
    <2>7. \A a : Comes(S, S, c, a) => a = InSource(c)
      BY <2>6, PartSelf, ComesOnce
    <2> QED BY <2>3, <2>5, <2>7
  <1>5. CASE f = <<>>
    BY <1>4, <1>5 DEF A, Lands
  <1>6. CASE f # <<>>
    <2>1. PICK n \in In : f = <<n>>
      BY <1>6 DEF Short
    <2> DEFINE e == InSource(f)
    <2>2. f = Append(<<>>, n) /\ Head(f) = n /\ n # ".." /\ Append(<<Out>>, n) = InOutput(f)
      <3>1. f = Append(<<>>, n) /\ Head(f) = n /\ n # ".."
        BY <2>1, InIs
      <3>2. Append(InOutput(<<>>), n) = InOutput(Append(<<>>, n))
        BY <1>3, OutputIs
      <3> QED BY <1>3, <3>1, <3>2
    <2>3. InOutput(f) \in DOMAIN D
      <3>1. PICK b, r, j : j \in Nat /\ Goes(D, <<Out>>, f, b, r) /\ Leads(D, On(b, r), j, A)
        BY <1>2, <1>6, LeadsFirst
      <3> QED BY <2>2, <3>1 DEF Goes
    <2>4. PICK g : Finds(S, S, f, g) /\ Sound(S, g) /\ D[InOutput(f)] = Given(S, g)
      <3>1. InOutput(f) \in Output(D)
        BY <1>1, <1>6, <2>3, OutputIs DEF Output
      <3>2. PICK d, g : d \in Seq(In) /\ d # <<>> /\ InOutput(f) = InOutput(d) /\ Finds(S, S, d, g) /\ Sound(S, g)
                                    /\ D[InOutput(f)] = Given(S, g)
        BY <3>1 DEF DropMeans, NodeMeans
      <3>3. d = f
        BY <1>1, <3>2, OutputIs
      <3> QED BY <3>2, <3>3
    <2>5. g = e /\ e \in DOMAIN S
      <3>1. Front(f) = <<>> /\ Last(f) = n
        <4>1. \A m \in In : Front(Append(<<>>, m)) = <<>> /\ Last(Append(<<>>, m)) = m
          BY <1>3, AppendPath
        <4> QED BY <2>2, <4>1
      <3>2. PICK a \in Seq(In) : Comes(S, S, <<>>, a) /\ g = Append(a, n) /\ g \in DOMAIN S
        BY <1>0, <1>1, <1>6, <2>4, <3>1, FindsIs
      <3>3. a = InSource(<<>>)
        BY <1>3, <3>2, ComesNil
      <3>4. Append(InSource(<<>>), n) = InSource(Append(<<>>, n))
        BY <1>3, InPackage
      <3> QED BY <2>2, <3>2, <3>3, <3>4
    <2>6. CASE S[e].t = "link" /\ Keeps(S, e)
      <3>1. e[1] = Source /\ e[1] # Out /\ Tail(e) = f /\ e \in Seq(Name)
        <4>1. e[1] = Source /\ Tail(e) = f /\ e \in Seq(In)
          BY <1>1, InPackage
        <4> QED BY <4>1, InIs, ArtifactAssumption
      <3>2. Resolves(S, e) /\ Eval(S, e).at[1] = Source
        <4>1. Resolves(S, e) /\ IsPrefix(<<Source>>, Eval(S, e).at)
          BY <2>6 DEF Keeps
        <4>2. Eval(S, e).at \in Seq(Name)
          <5>1. e \in Seq(Up)
            BY <3>1, InIs, SeqMonotonic DEF Up
          <5> QED BY <1>0, <5>1, EvalPlace DEF Places
        <4> QED BY <4>1, <4>2, SourceIs
      <3>3. Resolves(Own(S), f)
        <4>1. ~S[e].abs
          BY <2>6 DEF Keeps
        <4> QED BY <2>5, <2>6, <3>1, <3>2, <4>1 DEF Anchored
      <3>4. Leads(Own(S), On(<<>>, f), MaxWalk, Eval(Own(S), f).at)
        BY <3>3, EvalLeads, StartOn
      <3>5. Follows(S, <<>>, f)
        BY <1>2, <3>4 DEF Follows
      <3> QED BY <1>4, <3>5 DEF A, Lands
    <2>7. CASE S[e].t # "link"
      <3>1. f \in DOMAIN Own(S) /\ Own(S)[f] = S[e]
        BY <1>0, <1>1, <1>6, <2>5, <2>7, OwnTree
      <3>2. Leads(Own(S), On(<<>>, <<n>>), 2, f)
        <4>1. Append(<<>>, n) \in DOMAIN Own(S) /\ Own(S)[Append(<<>>, n)].t # "link"
          BY <2>2, <2>7, <3>1
        <4> QED BY <1>0, <1>3, <2>2, <4>1, LeadsDown, OwnTree
      <3>3. Follows(S, <<>>, f)
        BY <2>1, <3>2 DEF Follows
      <3> QED BY <1>4, <3>3 DEF A, Lands
    <2>8. CASE S[e].t = "link" /\ ~Keeps(S, e)
      <3>1. ~KeptIn(S, e) /\ Sound(S, e) /\ Resolves(S, e)
        BY <2>4, <2>5, <2>8 DEF KeptIn, Sound
      <3>2. /\ \A a : Comes(S, S, f, a) => a = Eval(S, e).at
            /\ S[Eval(S, e).at].t # "link"
        <4>1. Aim(S, e) = Eval(S, e).at
          BY <2>8 DEF Aim
        <4>2. Finds(S, S, f, e)
          BY <2>4, <2>5
        <4> QED BY <1>0, <1>1, <1>6, <3>1, <4>1, <4>2, AimComes
      <3>3. D[InOutput(f)].t # "link"
        BY <2>4, <2>5, <2>8, <3>1, <3>2 DEF Given, Aim
      <3>4. A = InOutput(f)
        <4>1. Goes(D, <<Out>>, f, InOutput(f), <<>>)
          <5>1. Is("dir", D, <<Out>>) /\ Tail(f) = <<>>
            BY <2>1 DEF Is, Exists, Node, Dir
          <5> QED BY <1>6, <2>2, <2>3, <3>3, <5>1 DEF Goes
        <4>2. PICK b, r, j : j \in Nat /\ Goes(D, <<Out>>, f, b, r) /\ Leads(D, On(b, r), j, A)
          BY <1>2, <1>6, LeadsFirst
        <4>3. Leads(D, On(InOutput(f), <<>>), j, A)
          BY <4>1, <4>2, GoesOnce
        <4> QED BY <4>2, <4>3, LeadsNil
      <3> QED BY <1>1, <3>1, <3>2, <3>4 DEF A, Lands
    <2> QED BY <2>6, <2>7, <2>8
  <1> QED BY <1>5, <1>6

LEMMA MeansDrop ==
    ASSUME NEW S, NEW D, Held(S, D), Anchored(S), DropMeans(S, D), <<Out>> \in DOMAIN D, D[<<Out>>] = Dir,
           NEW i \in DOMAIN Dropped
    PROVE  DropMeans(S, Without(D, Gone(D, Dropped[i])))
  <1> DEFINE f == Front(Dropped[i])
             l == Last(Dropped[i])
             E == Without(D, Gone(D, Dropped[i]))
  <1>0. StoreTree(S) /\ IsTree(D)
    BY DEF Held
  <1>1. Short(f) /\ l \in In /\ f \in Seq(In)
    BY DroppedFront
  <1>2. DOMAIN E = DOMAIN D \ Gone(D, Dropped[i]) /\ \A p \in DOMAIN E : E[p] = D[p]
    BY DEF Without
  <1>3. Gone(D, Dropped[i]) # {} => /\ Resolves(D, InOutput(f))
                                    /\ Gone(D, Dropped[i]) = Under(D, Append(Eval(D, InOutput(f)).at, l))
    BY DEF Gone, Parent, Resolves, InOutput
  <1> HIDE DEF E
  <1>4. Judged(S) /\ \A p \in Output(E) : NodeMeans(S, p, E[p])
    BY <1>2 DEF DropMeans, Output
  <1>5. ASSUME NEW d \in Seq(In), NEW e, d # <<>>, Finds(S, ReadIn(S), d, e), Sound(S, e)
        PROVE  InOutput(d) \notin Gone(D, Dropped[i])
    <2>1. ASSUME InOutput(d) \in Gone(D, Dropped[i]) PROVE FALSE
      <3>1. Resolves(D, InOutput(f)) /\ Gone(D, Dropped[i]) = Under(D, Append(Eval(D, InOutput(f)).at, l))
        BY <1>3, <2>1
      <3>2. PICK c \in Seq(In) : /\ Lands(Eval(D, InOutput(f)), c) /\ Resolves(S, InSource(f))
                                 /\ \A a : Comes(S, S, c, a) => a = Eval(S, InSource(f)).at
        <4> HIDE DEF f
        <4> QED BY <1>1, <3>1, DropPlace
      <3>3. IsPrefix(InOutput(Append(c, l)), InOutput(d))
        <4>1. Append(InOutput(c), l) = InOutput(Append(c, l))
          BY <1>1, OutputIs
        <4> QED BY <2>1, <3>1, <3>2, <4>1 DEF Under, Lands
      <3>4. IsPrefix(Append(c, l), d) /\ Append(c, l) \in Seq(In)
        <4>1. Append(c, l) \in Seq(In)
          BY <1>1, AppendPath
        <4> QED BY <3>3, <4>1, OutputIs
      <3>5. d \in Seq(Name) /\ c \in Seq(Name) /\ l \in Name /\ Append(c, l) \in Seq(Name)
        BY <1>1, <3>4, InIs
      <3>6. IsStrictPrefix(c, d)
        <4>1. IsPrefix(c, d)
          BY <3>4, <3>5, OnlyPrefix
        <4>2. c # d
          BY <3>4, <3>5, OnlyPrefix
        <4> QED BY <4>1, <4>2 DEF IsStrictPrefix
      <3>7. PICK b, n : n \in In /\ Comes(S, ReadIn(S), c, b) /\ Append(b, n) \in DOMAIN ReadIn(S) /\ IsPrefix(Append(c, n), d)
        BY <1>5, <3>6, FindsBelow
      <3>8. n = l
        <4>1. \A m \in In : IsPrefix(Append(c, m), d) => m = d[Len(c) + 1]
          <5>1. ASSUME NEW m \in In, IsPrefix(Append(c, m), d) PROVE m = d[Len(c) + 1]
            <6>1. Append(c, m) \in Seq(Name) /\ Len(Append(c, m)) = Len(c) + 1 /\ Last(Append(c, m)) = m /\ Len(c) \in Nat
              BY <3>5, InIs, AppendPath
            <6>2. Append(c, m)[Len(c) + 1] = m
              BY <6>1 DEF Last
            <6>3. \A k \in 1..Len(Append(c, m)) : Append(c, m)[k] = d[k]
              <7> DEFINE g == Append(c, m)
              <7>1. g \in Seq(Name) /\ IsPrefix(g, d)
                BY <5>1, <6>1
              <7> HIDE DEF g
              <7>2. \A k \in 1..Len(g) : g[k] = d[k]
                BY <3>5, <7>1, PrefixIs
              <7> QED BY <7>2 DEF g
            <6>4. Len(c) + 1 \in 1..Len(Append(c, m))
              BY <6>1
            <6> QED BY <6>2, <6>3, <6>4
          <5> QED BY <5>1
        <4> QED BY <1>1, <3>4, <3>7, <4>1
      <3>9. b = Eval(S, InSource(f)).at
        <4>1. Part(ReadIn(S), S)
          BY <1>0, ReadParts DEF SubTree
        <4>2. Comes(S, S, c, b)
          BY <3>7, <4>1, ComesPart
        <4> QED BY <3>2, <4>2
      <3>10. Append(b, l) \in UnreadIn(S)
        <4>1. Append(b, l) \in DOMAIN S /\ Append(b, l) \notin UnreadIn(S)
          BY <1>0, <3>7, <3>8, ReadParts
        <4>2. Append(b, l) \in Seq(Name)
          BY <1>0, <4>1, TreeNode, SubTreeIs, WholeStore
        <4>3. IsPrefix(Append(b, l), Append(b, l))
          BY <1>1, <4>2, InIs, OnlyPrefix
        <4>4. Under(S, Append(Eval(S, InSource(f)).at, l)) \subseteq UnreadIn(S)
          BY <1>0, <3>2, UnreadIs
        <4> QED BY <3>9, <4>1, <4>3, <4>4 DEF Under
      <3>11. Append(b, l) \notin UnreadIn(S)
        BY <1>0, <3>7, <3>8, ReadParts
      <3> QED BY <3>10, <3>11
    <2> QED BY <2>1
  <1>6. ASSUME NEW d \in Seq(In), NEW e, d # <<>>, Finds(S, ReadIn(S), d, e), Sound(S, e)
        PROVE  InOutput(d) \in DOMAIN E
    <2>1. InOutput(d) \in DOMAIN D
      BY <1>6, Zenon DEF DropMeans
    <2> QED BY <1>2, <1>5, <1>6, <2>1
  <1> QED BY <1>4, <1>6, Zenon DEF DropMeans, E

-----------------------------------------------------------------------------
\* Wrapped programs: what is to take the place of p, and what it will be in the end.

Due(J, p) == {y \in J : Last(y) \in DOMAIN Public /\ Wrapper(y) = p}
ProgramIn(S, p) ==
    LET once == HiddenBy(S, p)
        twice == UNION {HiddenBy(S, r) : r \in once}
    IN IF twice # {} THEN CHOOSE r \in twice : TRUE
       ELSE IF once # {} THEN CHOOSE r \in once : TRUE ELSE p
Final(S, e) == IF S[e].t = "file" THEN S[ProgramIn(S, e)] ELSE Given(S, e)

LEMMA WrapperIs ==
    ASSUME NEW p \in Seq(Name), p # <<>>, Last(p) \in DOMAIN Public
    PROVE  /\ Wrapper(p) \in Seq(Name) /\ Wrapper(p) # <<>> /\ Front(Wrapper(p)) = Front(p)
           /\ Last(Wrapper(p)) = Public[Last(p)] /\ Public[Last(p)] \in Name
           /\ Front(p) \in Seq(Name) /\ Last(p) \in Name /\ p = Append(Front(p), Last(p))
  <1>1. Public[Last(p)] \in Name
    BY ArtifactAssumption
  <1>2. Front(p) \in Seq(Name) /\ Last(p) \in Name /\ p = Append(Front(p), Last(p))
    BY FrontPath
  <1>3. /\ Append(Front(p), Public[Last(p)]) \in Seq(Name) /\ Append(Front(p), Public[Last(p)]) # <<>>
        /\ Front(Append(Front(p), Public[Last(p)])) = Front(p)
        /\ Last(Append(Front(p), Public[Last(p)])) = Public[Last(p)]
    BY <1>1, <1>2, AppendPath
  <1> QED BY <1>1, <1>2, <1>3 DEF Wrapper

\* A wrapper has one program.
LEMMA WrapperOnce ==
    ASSUME NEW p \in Seq(Name), p # <<>>, Last(p) \in DOMAIN Public,
           NEW q \in Seq(Name), q # <<>>, Last(q) \in DOMAIN Public, Wrapper(p) = Wrapper(q)
    PROVE  p = q
  <1>1. Front(p) = Front(q) /\ Public[Last(p)] = Public[Last(q)]
    BY WrapperIs
  <1>2. Last(p) = Last(q)
    BY <1>1, ArtifactAssumption
  <1> QED BY <1>1, <1>2, WrapperIs

LEMMA HiddenIs ==
    ASSUME NEW S, StoreTree(S), NEW e, NEW f \in HiddenBy(S, e)
    PROVE  /\ f \in DOMAIN S /\ f \in Seq(In) /\ f \in Seq(Name) /\ f # <<>> /\ S[f].t = "file"
           /\ Last(f) \in DOMAIN Public /\ Last(f) \in In /\ Wrapper(f) = e
           /\ Front(f) = Front(e) /\ Last(e) = Public[Last(f)] /\ f = Append(Front(e), Last(f))
           /\ Front(e) \in Seq(In)
           /\ \A g \in HiddenBy(S, e) : g = f
  <1>1. ASSUME NEW g \in HiddenBy(S, e)
        PROVE  /\ g \in DOMAIN S /\ g \in Seq(In) /\ g \in Seq(Name) /\ g # <<>> /\ S[g].t = "file"
               /\ Last(g) \in DOMAIN Public /\ Wrapper(g) = e
    <2>1. g \in DOMAIN S /\ S[g].t = "file" /\ Last(g) \in DOMAIN Public /\ Wrapper(g) = e
      BY DEF HiddenBy, Hidden
    <2>2. IsTree(S) /\ DOMAIN S \subseteq Seq(In)
      BY DEF StoreTree
    <2> QED BY <2>1, <2>2, TreeNode
  <1>2. Front(f) = Front(e) /\ Last(e) = Public[Last(f)] /\ f = Append(Front(e), Last(f))
    BY <1>1, WrapperIs
  <1>3. Front(f) \in Seq(In) /\ Last(f) \in In
    BY <1>1, FrontPath
  <1>4. \A g \in HiddenBy(S, e) : g = f
    BY <1>1, WrapperOnce
  <1> QED BY <1>1, <1>2, <1>3, <1>4

\* A file of the output that is to take the place of a path comes from what the wrapper
\* hides.
LEMMA DueIs ==
    ASSUME NEW S, StoreTree(S), Wrapped(S), NEW D, \A p \in Output(D) : NodeMeans(S, p, D[p]),
           NEW d \in Seq(In), d # <<>>, NEW e, Finds(S, S, d, e),
           NEW y \in Output(D), y \in Seq(Name), Last(y) \in DOMAIN Public, Wrapper(y) = InOutput(d),
           D[y].t = "file"
    PROVE  /\ S[e].t = "file"
           /\ \E f \in HiddenBy(S, e) : /\ y = InOutput(Append(Front(d), Last(f))) /\ D[y] = S[f]
                                        /\ Finds(S, S, Append(Front(d), Last(f)), f)
  <1>1. PICK x, f : x \in Seq(In) /\ x # <<>> /\ y = InOutput(x) /\ Finds(S, S, x, f) /\ Sound(S, f) /\ D[y] = Given(S, f)
    BY DEF NodeMeans
  <1>2. /\ Front(x) \in Seq(In) /\ Front(d) \in Seq(In) /\ Last(x) \in In /\ Last(x) = Last(y) /\ Last(d) \in In
        /\ x = Append(Front(x), Last(x)) /\ d = Append(Front(d), Last(d))
    BY <1>1, OutputIs, FrontPath
  <1>3. Front(x) = Front(d) /\ Last(d) = Public[Last(x)]
    <2>1. /\ Front(InOutput(x)) = InOutput(Front(x)) /\ Last(InOutput(x)) = Last(x)
          /\ Front(InOutput(d)) = InOutput(Front(d)) /\ Last(InOutput(d)) = Last(d)
      BY <1>1, OutputIs
    <2>2. y # <<>>
      BY <1>1, OutputIs
    <2>3. Front(InOutput(d)) = Front(y) /\ Last(InOutput(d)) = Public[Last(y)]
      BY <2>2, WrapperIs
    <2>4. InOutput(Front(x)) = InOutput(Front(d)) /\ Last(d) = Public[Last(x)]
      BY <1>1, <2>1, <2>3
    <2> QED BY <1>2, <2>4, OutputIs
  <1>4. SubTree(S, S)
    BY WholeStore
  <1>5. PICK a \in Seq(In) : Comes(S, S, Front(x), a) /\ f = Append(a, Last(x)) /\ f \in DOMAIN S /\ f \in Seq(In)
                             /\ Front(f) = a /\ Last(f) = Last(x)
    BY <1>1, <1>4, FindsIs
  <1>6. PICK b \in Seq(In) : Comes(S, S, Front(d), b) /\ e = Append(b, Last(d)) /\ e \in DOMAIN S
    BY <1>4, FindsIs
  <1>7. a = b
    BY <1>2, <1>3, <1>5, <1>6, PartSelf, ComesOnce
  <1>8. Wrapper(f) = e
    BY <1>3, <1>5, <1>6, <1>7 DEF Wrapper
  <1>9. S[f].t # "link" /\ S[e].t = "file"
    <2>1. f[1] # Out
      BY <1>5, OutsideIn, AppendPath
    <2> QED BY <1>1, <1>2, <1>5, <1>6, <1>8, <2>1 DEF Wrapped
  <1>10. D[y] = S[f]
    BY <1>1, <1>9 DEF Given, Aim, KeptIn
  <1>11. f \in HiddenBy(S, e)
    BY <1>1, <1>2, <1>5, <1>8, <1>10 DEF HiddenBy, Hidden
  <1>12. x = Append(Front(d), Last(f))
    BY <1>2, <1>3, <1>5
  <1> QED BY <1>1, <1>9, <1>10, <1>11, <1>12

\* What is hidden is found where its wrapper is.
LEMMA SonThere ==
    ASSUME NEW S, StoreTree(S), NEW D, DropMeans(S, D),
           NEW d \in Seq(In), d # <<>>, NEW e, Finds(S, ReadIn(S), d, e), NEW f \in HiddenBy(S, e)
    PROVE  LET x == Append(Front(d), Last(f))
           IN /\ x \in Seq(In) /\ x # <<>> /\ Finds(S, ReadIn(S), x, f) /\ Finds(S, S, x, f)
              /\ InOutput(x) \in DOMAIN D /\ InOutput(x) \in Output(D) /\ D[InOutput(x)] = S[f] /\ S[f].t = "file"
              /\ Last(InOutput(x)) \in DOMAIN Public /\ Wrapper(InOutput(x)) = InOutput(d)
  <1> DEFINE x == Append(Front(d), Last(f))
  <1>1. /\ f \in DOMAIN S /\ f \in Seq(In) /\ f \in Seq(Name) /\ f # <<>> /\ S[f].t = "file"
        /\ Last(f) \in DOMAIN Public /\ Last(f) \in In /\ Last(e) = Public[Last(f)]
        /\ f = Append(Front(e), Last(f)) /\ Front(f) = Front(e)
    BY HiddenIs
  <1>2. SubTree(ReadIn(S), S) /\ DOMAIN ReadIn(S) = DOMAIN S \ UnreadIn(S) /\ Part(ReadIn(S), S)
    BY ReadParts DEF SubTree
  <1>3. PICK a \in Seq(In) : Comes(S, ReadIn(S), Front(d), a) /\ e = Append(a, Last(d)) /\ e \in DOMAIN ReadIn(S)
                             /\ Front(e) = a /\ Last(e) = Last(d) /\ e \in Seq(In)
    BY <1>2, FindsIs
  <1>4. Front(d) \in Seq(In) /\ Last(d) \in In /\ d = Append(Front(d), Last(d))
    BY FrontPath
  <1>5. x \in Seq(In) /\ x # <<>> /\ Front(x) = Front(d) /\ Last(x) = Last(f)
    BY <1>1, <1>4, AppendPath
  <1>6. f \notin UnreadIn(S)
    <2>1. ASSUME f \in UnreadIn(S) PROVE FALSE
      <3>1. PICK g \in Seq(In) : IsPrefix(g, f) /\ Last(g) \notin DOMAIN Public /\ g # <<>> /\ Under(S, g) \subseteq UnreadIn(S)
        BY <2>1, UnreadIs
      <3>2. IsPrefix(g, Front(f))
        BY <1>1, <3>1, PrefixOfAppend
      <3>3. IsPrefix(g, e)
        <4>1. e # <<>>
          BY <1>3, <1>4, AppendPath
        <4> QED BY <1>1, <1>3, <3>2, <4>1, PrefixOfAppend
      <3>4. e \in DOMAIN S /\ e \notin UnreadIn(S)
        BY <1>2, <1>3
      <3> QED BY <3>1, <3>3, <3>4 DEF Under
    <2> QED BY <2>1
  <1> HIDE DEF x
  <1>7. Finds(S, ReadIn(S), x, f)
    <2>1. f \in DOMAIN ReadIn(S)
      BY <1>1, <1>2, <1>6
    <2>2. Comes(S, ReadIn(S), Front(x), a) /\ f = Append(a, Last(x))
      BY <1>1, <1>3, <1>5
    <2> QED BY <2>1, <2>2 DEF Finds
  <1>8. Finds(S, S, x, f)
    BY <1>2, <1>5, <1>7, FindsPart
  <1>9. Sound(S, f)
    BY <1>1 DEF Sound
  <1>10. InOutput(x) \in DOMAIN D /\ InOutput(x) \in Output(D)
    <2>1. InOutput(x) \in DOMAIN D
      BY <1>5, <1>7, <1>9, Zenon DEF DropMeans
    <2> QED BY <1>5, <2>1, OutputIs DEF Output
  <1>11. D[InOutput(x)] = S[f]
    <2>1. PICK c, g : c \in Seq(In) /\ c # <<>> /\ InOutput(x) = InOutput(c) /\ Finds(S, S, c, g) /\ D[InOutput(x)] = Given(S, g)
      BY <1>10 DEF DropMeans, NodeMeans
    <2>2. c = x
      BY <1>5, <2>1, OutputIs
    <2>3. g = f
      BY <1>5, <1>8, <2>1, <2>2, PartSelf, FindsPart
    <2> QED BY <1>1, <2>1, <2>3 DEF Given, Aim, KeptIn
  <1>12. Last(InOutput(x)) \in DOMAIN Public /\ Wrapper(InOutput(x)) = InOutput(d)
    <2>1. Last(InOutput(x)) = Last(f) /\ Front(InOutput(x)) = InOutput(Front(d))
      BY <1>5, OutputIs
    <2>2. Last(d) = Public[Last(f)]
      BY <1>1, <1>3
    <2>3. Append(InOutput(Front(d)), Last(d)) = InOutput(Append(Front(d), Last(d)))
      BY <1>4, OutputIs
    <2> QED BY <1>1, <1>4, <2>1, <2>2, <2>3 DEF Wrapper
  <1> QED BY <1>1, <1>5, <1>7, <1>8, <1>10, <1>11, <1>12 DEF x
-----------------------------------------------------------------------------
\* Programs take the place of their wrappers: what a path has in the end is there
\* already, or waits below one or two wrappers.

Settled(D, J, w, n) ==
    \/ Due(J, w) = {} /\ w \in DOMAIN D /\ n = D[w]
    \/ \E y \in Due(J, w) : Due(J, y) = {} /\ n = D[y]
    \/ \E y \in Due(J, w) : \E z \in Due(J, y) : n = D[z]
PrepMeans(S, D, J) ==
    /\ Judged(S)
    /\ \A x \in J : Last(x) \in Static \cup DOMAIN Public /\ \E e \in DOMAIN S : Last(e) = Last(x)
    /\ \A d \in Seq(In) : \A e : d # <<>> /\ Finds(S, LeftIn(S), d, e) /\ Sound(S, e) =>
          Settled(D, J, InOutput(d), Final(S, e))

\* Nothing is due where there is nothing hidden.
LEMMA NothingDue ==
    ASSUME NEW S, StoreTree(S), Wrapped(S), NEW D, IsTree(D), DropMeans(S, D),
           NEW J, J \subseteq Output(D), \A y \in J : D[y].t = "file",
           NEW d \in Seq(In), d # <<>>, NEW e, Finds(S, S, d, e), HiddenBy(S, e) = {} \/ S[e].t # "file"
    PROVE  Due(J, InOutput(d)) = {}
  <1>1. ASSUME NEW y \in Due(J, InOutput(d)) PROVE FALSE
    <2>1. y \in Output(D) /\ y \in Seq(Name) /\ Last(y) \in DOMAIN Public /\ Wrapper(y) = InOutput(d) /\ D[y].t = "file"
      BY TreeNode DEF Due, Output
    <2>2. \A p \in Output(D) : NodeMeans(S, p, D[p])
      BY DEF DropMeans
    <2> QED BY <2>1, <2>2, DueIs
  <1> QED BY <1>1

\* What is found is there as it was copied.
LEMMA FoundGiven ==
    ASSUME NEW S, StoreTree(S), NEW D, DropMeans(S, D),
           NEW d \in Seq(In), d # <<>>, NEW e, Finds(S, ReadIn(S), d, e), Sound(S, e)
    PROVE  Finds(S, S, d, e) /\ InOutput(d) \in DOMAIN D /\ D[InOutput(d)] = Given(S, e) /\ InOutput(d) \in Output(D)
  <1>1. Part(ReadIn(S), S)
    BY ReadParts DEF SubTree
  <1>2. Finds(S, S, d, e)
    BY <1>1, FindsPart
  <1>3. InOutput(d) \in DOMAIN D
    BY Zenon DEF DropMeans
  <1>4. InOutput(d) \in Output(D)
    BY <1>3, OutputIs DEF Output
  <1>5. PICK c, g : c \in Seq(In) /\ c # <<>> /\ InOutput(d) = InOutput(c) /\ Finds(S, S, c, g) /\ D[InOutput(d)] = Given(S, g)
    BY <1>4 DEF DropMeans, NodeMeans
  <1>6. c = d
    BY <1>5, OutputIs
  <1>7. g = e
    BY <1>2, <1>5, <1>6, PartSelf, FindsPart
  <1> QED BY <1>2, <1>3, <1>4, <1>5, <1>7

\* The program of a wrapper.
LEMMA ProgramIs ==
    ASSUME NEW S, StoreTree(S), NEW e
    PROVE  /\ HiddenBy(S, e) = {} => ProgramIn(S, e) = e
           /\ \A f \in HiddenBy(S, e) : HiddenBy(S, f) = {} => ProgramIn(S, e) = f
           /\ \A f \in HiddenBy(S, e) : \A g \in HiddenBy(S, f) : ProgramIn(S, e) = g
  <1> DEFINE twice == UNION {HiddenBy(S, r) : r \in HiddenBy(S, e)}
  <1>1. HiddenBy(S, e) = {} => ProgramIn(S, e) = e
    BY DEF ProgramIn
  <1>2. ASSUME NEW f \in HiddenBy(S, e)
        PROVE  HiddenBy(S, e) = {f} /\ twice = HiddenBy(S, f)
    <2>1. HiddenBy(S, e) = {f}
      BY HiddenIs
    <2> QED BY <2>1
  <1>3. ASSUME NEW f \in HiddenBy(S, e), HiddenBy(S, f) = {} PROVE ProgramIn(S, e) = f
    <2>1. (CHOOSE r \in {f} : TRUE) = f
      OBVIOUS
    <2> QED BY <1>2, <1>3, <2>1 DEF ProgramIn
  <1>4. ASSUME NEW f \in HiddenBy(S, e), NEW g \in HiddenBy(S, f) PROVE ProgramIn(S, e) = g
    <2>1. HiddenBy(S, f) = {g}
      BY HiddenIs
    <2>2. (CHOOSE r \in {g} : TRUE) = g
      OBVIOUS
    <2>3. twice = {g}
      BY <1>2, <2>1
    <2>4. ProgramIn(S, e) = CHOOSE r \in twice : TRUE
      BY <2>3 DEF ProgramIn
    <2> QED BY <2>2, <2>3, <2>4
  <1> QED BY <1>1, <1>3, <1>4

\* The list of a pass is made.
Listed1(D, J) == J = {p \in Files(D) : Last(p) \in Static \cup DOMAIN Public}

LEMMA ListedIs ==
    ASSUME NEW D, IsTree(D), <<Out>> \in DOMAIN D, D[<<Out>>] = Dir, NEW J, Listed1(D, J)
    PROVE  /\ J \subseteq Output(D) /\ \A y \in J : D[y].t = "file" /\ Last(y) \in Static \cup DOMAIN Public
           /\ \A y \in Output(D) : D[y].t = "file" /\ Last(y) \in DOMAIN Public => y \in J
  <1>1. \A y \in J : y \in DOMAIN D /\ IsPrefix(<<Out>>, y) /\ D[y].t = "file" /\ Last(y) \in Static \cup DOMAIN Public
    BY DEF Listed1, Files, Under
  <1>2. <<Out>> \notin J
    BY <1>1 DEF Dir
  <1>3. J \subseteq Output(D)
    BY <1>1, <1>2 DEF Output, IsStrictPrefix
  <1>4. \A y \in Output(D) : D[y].t = "file" /\ Last(y) \in DOMAIN Public => y \in J
    BY DEF Listed1, Files, Under, Output, IsStrictPrefix
  <1> QED BY <1>1, <1>3, <1>4

LEMMA SettledFirst ==
    ASSUME NEW S, StoreTree(S), Wrapped(S), NEW D, IsTree(D), <<Out>> \in DOMAIN D, D[<<Out>>] = Dir, DropMeans(S, D),
           NEW J, Listed1(D, J),
           NEW d \in Seq(In), NEW e, d # <<>>, Finds(S, LeftIn(S), d, e), Sound(S, e)
    PROVE  Settled(D, J, InOutput(d), Final(S, e))
  <1>1. /\ J \subseteq Output(D) /\ (\A y \in J : D[y].t = "file")
        /\ \A y \in Output(D) : D[y].t = "file" /\ Last(y) \in DOMAIN Public => y \in J
    BY ListedIs
  <1>2. Finds(S, ReadIn(S), d, e)
    BY ReadParts, FindsPart
  <1>3. Finds(S, S, d, e) /\ InOutput(d) \in DOMAIN D /\ D[InOutput(d)] = Given(S, e)
    BY <1>2, FoundGiven
  <1>4. CASE S[e].t # "file"
    <2>1. Due(J, InOutput(d)) = {}
      BY <1>1, <1>3, <1>4, NothingDue
    <2> QED BY <1>3, <1>4, <2>1 DEF Settled, Final
  <1>5. CASE S[e].t = "file" /\ HiddenBy(S, e) = {}
    <2>1. Due(J, InOutput(d)) = {}
      BY <1>1, <1>3, <1>5, NothingDue
    <2>2. Final(S, e) = S[e] /\ Given(S, e) = S[e]
      BY <1>5, ProgramIs DEF Final, Given, Aim, KeptIn
    <2> QED BY <1>3, <2>1, <2>2 DEF Settled
  <1>6. CASE S[e].t = "file" /\ HiddenBy(S, e) # {}
    <2>1. PICK f \in HiddenBy(S, e) : TRUE
      BY <1>6
    <2> DEFINE x == Append(Front(d), Last(f))
               y == InOutput(x)
    <2>2. /\ x \in Seq(In) /\ x # <<>> /\ Finds(S, ReadIn(S), x, f) /\ Finds(S, S, x, f)
          /\ y \in Output(D) /\ D[y] = S[f] /\ S[f].t = "file" /\ Last(y) \in DOMAIN Public /\ Wrapper(y) = InOutput(d)
      BY <1>2, SonThere
    <2> HIDE DEF x
    <2>3. y \in Due(J, InOutput(d))
      BY <1>1, <2>2 DEF Due
    <2>4. CASE HiddenBy(S, f) = {}
      <3>1. Due(J, y) = {}
        BY <1>1, <2>2, <2>4, NothingDue
      <3>2. Final(S, e) = D[y]
        BY <1>6, <2>2, <2>4, ProgramIs DEF Final
      <3> QED BY <2>3, <3>1, <3>2 DEF Settled
    <2>5. CASE HiddenBy(S, f) # {}
      <3>1. PICK g \in HiddenBy(S, f) : TRUE
        BY <2>5
      <3> DEFINE c == Append(Front(x), Last(g))
                 z == InOutput(c)
      <3>2. z \in Output(D) /\ D[z] = S[g] /\ S[g].t = "file" /\ Last(z) \in DOMAIN Public /\ Wrapper(z) = y
        BY <2>2, SonThere
      <3> HIDE DEF c
      <3>3. z \in Due(J, y)
        BY <1>1, <3>2 DEF Due
      <3>4. Final(S, e) = D[z]
        BY <1>6, <2>1, <3>1, <3>2, ProgramIs DEF Final
      <3> QED BY <2>3, <3>3, <3>4 DEF Settled
    <2> QED BY <2>4, <2>5
  <1> QED BY <1>4, <1>5, <1>6

LEMMA MeansDropDone ==
    ASSUME NEW S, StoreTree(S), Wrapped(S), NEW D, IsTree(D), <<Out>> \in DOMAIN D, D[<<Out>>] = Dir, DropMeans(S, D),
           NEW J, Listed1(D, J)
    PROVE  PrepMeans(S, D, J)
  <1>1. ASSUME NEW x \in J
        PROVE  Last(x) \in Static \cup DOMAIN Public /\ \E e \in DOMAIN S : Last(e) = Last(x)
    <2>1. x \in Output(D) /\ Last(x) \in Static \cup DOMAIN Public
      BY ListedIs
    <2>2. PICK d, e : d \in Seq(In) /\ d # <<>> /\ x = InOutput(d) /\ Finds(S, S, d, e)
      BY <2>1 DEF DropMeans, NodeMeans
    <2>3. e \in DOMAIN S /\ Last(e) = Last(d)
      BY <2>2, WholeStore, FindsIs
    <2>4. Last(x) = Last(d)
      BY <2>2, OutputIs
    <2> QED BY <2>1, <2>3, <2>4
  <1>2. ASSUME NEW d \in Seq(In), NEW e, d # <<>>, Finds(S, LeftIn(S), d, e), Sound(S, e)
        PROVE  Settled(D, J, InOutput(d), Final(S, e))
    BY <1>2, SettledFirst
  <1>3. Judged(S)
    BY DEF DropMeans
  <1> QED BY <1>1, <1>2, <1>3, Zenon DEF PrepMeans

\* What stays a file in the end has no name that is taken away.
LEMMA FinalName ==
    ASSUME NEW S, StoreTree(S), NEW d \in Seq(In), NEW e, d # <<>>, Finds(S, LeftIn(S), d, e), Final(S, e).t = "file"
    PROVE  Last(InOutput(d)) \notin Static \cup DOMAIN Public
  <1>1. e \in DOMAIN LeftIn(S) /\ Last(e) = Last(d)
    <2>1. SubTree(LeftIn(S), S)
      BY ReadParts
    <2>2. \E a \in Seq(In) : /\ e = Append(a, Last(d)) /\ e \in DOMAIN LeftIn(S) /\ Last(e) = Last(d)
      BY <2>1, FindsIs
    <2> QED BY <2>2
  <1>2. Last(InOutput(d)) = Last(e)
    BY <1>1, OutputIs
  <1>3. e \in DOMAIN S /\ e \notin NamedAway(S)
    BY <1>1, ReadParts
  <1>4. S[e].t # "dir"
    <2>1. ASSUME S[e].t = "dir" PROVE Final(S, e) = S[e]
      BY <2>1 DEF Final, Given, Aim, KeptIn
    <2> QED BY <2>1
  <1> QED BY <1>2, <1>3, <1>4 DEF NamedAway

\* The paths that wait: files of the output.
Waits(D, J) == J \subseteq DOMAIN D /\ IsTree(D) /\ \A y \in J : y \in Seq(Name) /\ y # <<>> /\ D[y].t = "file"

LEMMA DueOnce ==
    ASSUME NEW D, NEW J, Waits(D, J), NEW p, NEW y \in Due(J, p), NEW z \in Due(J, p)
    PROVE  y = z
  <1>1. \A x \in Due(J, p) : x \in Seq(Name) /\ x # <<>> /\ Last(x) \in DOMAIN Public /\ Wrapper(x) = p
    BY DEF Due, Waits
  <1> QED BY <1>1, WrapperOnce

\* Nothing is wrapped three times.
LEMMA TwiceAtMost ==
    ASSUME NEW S, StoreTree(S), Wrapped(S), NEW D, NEW J, PrepMeans(S, D, J), NEW x \in J, Last(x) \in DOMAIN Public,
           Public[Last(x)] \in DOMAIN Public
    PROVE  Public[Public[Last(x)]] \notin DOMAIN Public
  <1>1. PICK e \in DOMAIN S : Last(e) = Last(x)
    BY DEF PrepMeans
  <1>2. e[1] # Out
    <2>1. e \in Seq(In) /\ e # <<>>
      BY TreeNode DEF StoreTree
    <2> QED BY <2>1, OutsideIn
  <1> QED BY <1>1, <1>2 DEF Wrapped

LEMMA SettledStatic ==
    ASSUME NEW D, NEW J, Waits(D, J), NEW x \in J, Last(x) \in Static,
           NEW w, NEW n, Settled(D, J, w, n), n.t = "file" => Last(w) \notin Static \cup DOMAIN Public
    PROVE  Settled(Without(D, {x}), J \ {x}, w, n)
  <1> DEFINE E == Without(D, {x})
             K == J \ {x}
  <1>1. \A p : Due(K, p) = Due(J, p)
    BY ArtifactAssumption DEF Due
  <1>2. \A q \in DOMAIN D : q # x => q \in DOMAIN E /\ E[q] = D[q]
    BY DEF Without
  <1>3. D[x].t = "file"
    BY DEF Waits
  <1>4. \A p : \A y \in Due(J, p) : y # x /\ y \in DOMAIN D
    BY ArtifactAssumption DEF Due, Waits
  <1> HIDE DEF E, K
  <1>5. CASE Due(J, w) = {} /\ w \in DOMAIN D /\ n = D[w]
    <2>1. w # x
      BY <1>3, <1>5
    <2> QED BY <1>1, <1>2, <1>5, <2>1 DEF Settled, E, K
  <1>6. CASE \E y \in Due(J, w) : Due(J, y) = {} /\ n = D[y]
    <2>1. \E y \in Due(K, w) : Due(K, y) = {} /\ n = E[y]
      BY <1>1, <1>2, <1>4, <1>6
    <2> QED BY <2>1 DEF Settled, E, K
  <1>7. CASE \E y \in Due(J, w) : \E z \in Due(J, y) : n = D[z]
    <2>1. \E y \in Due(K, w) : \E z \in Due(K, y) : n = E[z]
      BY <1>1, <1>2, <1>4, <1>7
    <2> QED BY <2>1 DEF Settled, E, K
  <1> QED BY <1>5, <1>6, <1>7 DEF Settled

\* The next path that is visited is renamed.
Renamed(D, x) == With(Without(D, {x}), Wrapper(x), D[x])

LEMMA SettledUnwrap ==
    ASSUME NEW S, StoreTree(S), Wrapped(S), Paired(S), NEW D, NEW J, PrepMeans(S, D, J), Waits(D, J),
           NEW x \in J, Last(x) \in DOMAIN Public, \A q \in J : q = x \/ Before(x, q),
           NEW w, NEW n, Settled(D, J, w, n), n.t = "file" => Last(w) \notin Static \cup DOMAIN Public
    PROVE  Settled(Renamed(D, x), J \ {x}, w, n)
  <1> DEFINE E == Renamed(D, x)
             K == J \ {x}
  <1>1. \A p : Due(K, p) = Due(J, p) \ {x}
    BY DEF Due
  <1>2. /\ \A q \in DOMAIN D : q # x /\ q # Wrapper(x) => q \in DOMAIN E /\ E[q] = D[q]
        /\ Wrapper(x) \in DOMAIN E /\ E[Wrapper(x)] = D[x]
    BY DEF Renamed, With, Without
  <1>3. D[x].t = "file" /\ x \in Due(J, Wrapper(x))
    BY DEF Waits, Due
  <1>4. \A p : \A y \in Due(J, p) : /\ y \in DOMAIN D /\ y \in J /\ y \in Seq(Name) /\ y # <<>>
                                    /\ Last(y) \in DOMAIN Public /\ Wrapper(y) = p /\ Last(p) = Public[Last(y)]
                                    /\ \A z \in Due(J, p) : z = y
    <2>1. \A p : \A y \in Due(J, p) : /\ y \in DOMAIN D /\ y \in J /\ y \in Seq(Name) /\ y # <<>>
                                      /\ Last(y) \in DOMAIN Public /\ Wrapper(y) = p
      BY DEF Due, Waits
    <2>2. \A p : \A y \in Due(J, p) : Last(p) = Public[Last(y)]
      BY <2>1, WrapperIs
    <2>3. \A p : \A y \in Due(J, p) : \A z \in Due(J, p) : z = y
      BY DueOnce
    <2> QED BY <2>1, <2>2, <2>3
  <1>5. \A y \in J : Last(y) \in DOMAIN Public /\ Public[Last(y)] \in DOMAIN Public => Public[Public[Last(y)]] \notin DOMAIN Public
    BY TwiceAtMost
  <1> HIDE DEF E, K
  <1>6. CASE Due(J, w) = {} /\ w \in DOMAIN D /\ n = D[w]
    <2>1. w # Wrapper(x)
      BY <1>3, <1>6
    <2>2. w # x
      BY <1>3, <1>6
    <2> QED BY <1>1, <1>2, <1>6, <2>1, <2>2 DEF Settled, E, K
  <1>7. ASSUME NEW y \in Due(J, w), Due(J, y) = {}, n = D[y] PROVE Settled(E, K, w, n)
    <2>1. CASE x = y
      <3>1. w = Wrapper(x)
        BY <1>4, <1>7, <2>1
      <3>2. Due(K, w) = {}
        BY <1>1, <1>4, <1>7, <2>1
      <3> QED BY <1>2, <1>7, <2>1, <3>1, <3>2 DEF Settled
    <2>2. CASE x # y
      <3>1. y \in Due(K, w) /\ Due(K, y) = {}
        BY <1>1, <1>7, <2>2
      <3>2. y # Wrapper(x)
        BY <1>3, <1>7
      <3>3. E[y] = D[y]
        BY <1>2, <1>4, <1>7, <2>2, <3>2
      <3> QED BY <1>7, <3>1, <3>3 DEF Settled
    <2> QED BY <2>1, <2>2
  <1>8. ASSUME NEW y \in Due(J, w), NEW z \in Due(J, y), n = D[z] PROVE Settled(E, K, w, n)
    <2>0. /\ y \in J /\ z \in J /\ Last(y) \in DOMAIN Public /\ Last(z) \in DOMAIN Public /\ Last(y) = Public[Last(z)]
          /\ z \in DOMAIN D /\ y \in DOMAIN D /\ z \in Seq(Name) /\ y \in Seq(Name) /\ y = Wrapper(z) /\ z # <<>>
      BY <1>4, <1>8
    <2>1. x # y
      <3>1. ASSUME x = y PROVE FALSE
        <4>1. PICK e \in DOMAIN S : Last(e) = Last(z)
          BY <2>0 DEF PrepMeans
        <4>2. e[1] # Out
          <5>1. e \in Seq(In) /\ e # <<>>
            BY TreeNode DEF StoreTree
          <5> QED BY <5>1, OutsideIn
        <4>3. Rank[Last(z)] < Rank[Public[Last(z)]]
          BY <2>0, <4>1, <4>2 DEF Paired
        <4>4. Before(z, y)
          <5>1. z = Append(Front(z), Last(z)) /\ Front(z) \in Seq(Name) /\ Last(z) \in Name /\ Public[Last(z)] \in Name
            BY <2>0, WrapperIs
          <5> QED BY <2>0, <4>3, <5>1, Siblings DEF Wrapper
        <4>5. z # y /\ ~Before(y, z)
          BY <2>0, <4>4, NotBoth
        <4> QED BY <2>0, <3>1, <4>5
      <3> QED BY <3>1
    <2>2. CASE x = z
      <3>1. y \in Due(K, w) /\ Due(K, y) = {}
        BY <1>1, <1>4, <1>8, <2>1, <2>2
      <3>2. E[y] = D[x]
        BY <1>2, <2>0, <2>2
      <3> QED BY <1>8, <2>2, <3>1, <3>2 DEF Settled
    <2>3. CASE x # z
      <3>1. y \in Due(K, w) /\ z \in Due(K, y)
        BY <1>1, <1>8, <2>1, <2>3
      <3>2. z # Wrapper(x)
        <4>1. ASSUME z = Wrapper(x) PROVE FALSE
          <5>1. Last(z) = Public[Last(x)]
            BY <1>3, <1>4, <4>1
          <5> QED BY <1>5, <2>0, <5>1
        <4> QED BY <4>1
      <3>3. E[z] = D[z]
        BY <1>2, <2>0, <2>3, <3>2
      <3> QED BY <1>8, <3>1, <3>3 DEF Settled
    <2> QED BY <2>2, <2>3
  <1> QED BY <1>6, <1>7, <1>8 DEF Settled, E, K

\* One path of the list is visited.
LEMMA MeansVisit ==
    ASSUME NEW S, StoreTree(S), Wrapped(S), Paired(S), NEW D, NEW J, PrepMeans(S, D, J), Waits(D, J),
           NEW x \in J, NEW E,
           \/ Last(x) \in Static /\ E = Without(D, {x})
           \/ Last(x) \in DOMAIN Public /\ E = Renamed(D, x) /\ \A q \in J : q = x \/ Before(x, q)
    PROVE  PrepMeans(S, E, J \ {x})
  <1>1. \A y \in J \ {x} : Last(y) \in Static \cup DOMAIN Public /\ \E e \in DOMAIN S : Last(e) = Last(y)
    BY DEF PrepMeans
  <1>2. ASSUME NEW d \in Seq(In), NEW e, d # <<>>, Finds(S, LeftIn(S), d, e), Sound(S, e)
        PROVE  Settled(E, J \ {x}, InOutput(d), Final(S, e))
    <2>1. Settled(D, J, InOutput(d), Final(S, e))
      BY <1>2, Zenon DEF PrepMeans
    <2>2. Final(S, e).t = "file" => Last(InOutput(d)) \notin Static \cup DOMAIN Public
      BY <1>2, FinalName
    <2>3. CASE Last(x) \in Static /\ E = Without(D, {x})
      BY <2>1, <2>2, <2>3, SettledStatic
    <2>4. CASE Last(x) \in DOMAIN Public /\ E = Renamed(D, x) /\ \A q \in J : q = x \/ Before(x, q)
      BY <2>1, <2>2, <2>4, SettledUnwrap
    <2> QED BY <2>3, <2>4
  <1>3. Judged(S)
    BY DEF PrepMeans
  <1> QED BY <1>1, <1>2, <1>3, Zenon DEF PrepMeans

-----------------------------------------------------------------------------
\* Then every path that is left has what it will have; what files contain is
\* rewritten in the end.

Norm(n, done) == IF done /\ n.t = "file" THEN File(Rewritten[n.c]) ELSE n
Alive(S, e) == KeptIn(S, e) => Live(LeftIn(S), e)
KeptMeans(S, D, done) ==
    /\ Judged(S)
    /\ \A d \in Seq(In) : \A e : d # <<>> /\ Finds(S, LeftIn(S), d, e) /\ Sound(S, e) /\ Alive(S, e) =>
          InOutput(d) \in DOMAIN D /\ D[InOutput(d)] = Norm(Final(S, e), done)

LEMMA MeansPrepareDone ==
    ASSUME NEW S, NEW D, PrepMeans(S, D, {})
    PROVE  KeptMeans(S, D, FALSE)
  <1>1. ASSUME NEW d \in Seq(In), NEW e, d # <<>>, Finds(S, LeftIn(S), d, e), Sound(S, e)
        PROVE  InOutput(d) \in DOMAIN D /\ D[InOutput(d)] = Norm(Final(S, e), FALSE)
    <2>1. Settled(D, {}, InOutput(d), Final(S, e))
      BY <1>1, Zenon DEF PrepMeans
    <2>2. \A p : Due({}, p) = {}
      BY DEF Due
    <2>3. InOutput(d) \in DOMAIN D /\ D[InOutput(d)] = Final(S, e)
      BY <2>1, <2>2 DEF Settled
    <2> QED BY <2>3 DEF Norm
  <1>2. Judged(S)
    BY DEF PrepMeans
  <1> QED BY <1>1, <1>2, Zenon DEF KeptMeans

\* What is found comes from what it is in the end.
LEMMA FinalIs ==
    ASSUME NEW S, StoreTree(S), NEW e
    PROVE  /\ S[e].t # "link" => Final(S, e).t = S[e].t
           /\ S[e].t = "link" => Final(S, e) = Given(S, e)
           /\ KeptIn(S, e) => Final(S, e) = S[e]
  <1>1. ASSUME S[e].t = "file" PROVE S[ProgramIn(S, e)].t = "file"
    <2>1. CASE HiddenBy(S, e) = {}
      BY <1>1, <2>1, ProgramIs
    <2>2. ASSUME NEW f \in HiddenBy(S, e) PROVE S[ProgramIn(S, e)].t = "file"
      <3>1. CASE HiddenBy(S, f) = {}
        BY <2>2, <3>1, ProgramIs, HiddenIs
      <3>2. ASSUME NEW g \in HiddenBy(S, f) PROVE S[ProgramIn(S, e)].t = "file"
        BY <2>2, <3>2, ProgramIs, HiddenIs
      <3> QED BY <3>1, <3>2
    <2> QED BY <2>1, <2>2
  <1>2. S[e].t # "link" => Final(S, e).t = S[e].t
    BY <1>1 DEF Final, Given, Aim, KeptIn
  <1> QED BY <1>2 DEF Final, Given, KeptIn

\* A tree that has all that is left, below o, holds it: the same for the output and for
\* what bm unpacks.
Has(S, G, o, done) ==
    \A d \in Seq(In) : \A e : d # <<>> /\ Finds(S, LeftIn(S), d, e) /\ Sound(S, e) /\ Alive(S, e) =>
        Over(o, d) \in DOMAIN G /\ G[Over(o, d)] = Norm(Final(S, e), done)

LEMMA NormIs == ASSUME NEW n, NEW done PROVE Norm(n, done).t = n.t /\ (n.t # "file" => Norm(n, done) = n)
  BY DEF Norm, File

LEMMA HasHolds ==
    ASSUME NEW S, Packed(S, LeftIn(S)), NEW G, NEW o, Is("dir", G, o), NEW done, Has(S, G, o, done)
    PROVE  Holds(G, S, LeftIn(S), o)
  <1> DEFINE L == LeftIn(S)
  <1>0. StoreTree(S) /\ SubTree(L, S) /\ IsTree(L) /\ LinksIn(L) /\ \A p \in DOMAIN L : L[p] = S[p] /\ p \in DOMAIN S
    <2>1. StoreTree(S) /\ SubTree(L, S)
      BY DEF Packed
    <2> QED BY <2>1, SubTreeIs
  <1>1. ASSUME NEW d \in Seq(In), NEW b, d # <<>>, Comes(S, L, d, b)
        PROVE  Over(o, d) \in DOMAIN G /\ G[Over(o, d)].t = S[b].t
    <2>1. PICK a : Comes(S, L, Front(d), a) /\ Hop(S, L, a, Last(d), b) /\ Finds(S, L, d, Append(a, Last(d)))
      BY <1>1, ComesFinds
    <2> DEFINE e == Append(a, Last(d))
    <2>2. e \in DOMAIN L /\ ~KeptIn(S, e) /\ L[e] = S[e]
      BY <1>0, <2>1 DEF Hop
    <2>3. CASE L[e].t = "link"
      <3>1. Resolves(S, e) /\ Eval(S, e).at = b
        BY <1>1, <2>1, <2>3, HopEnds
      <3>2. Sound(S, e) /\ Alive(S, e)
        BY <2>2, <3>1 DEF Sound, Alive
      <3>3. Over(o, d) \in DOMAIN G /\ G[Over(o, d)] = Norm(Final(S, e), done)
        BY <1>1, <2>1, <3>2, Zenon DEF Has
      <3>4. Final(S, e) = S[b]
        BY <1>0, <2>2, <2>3, <3>1, FinalIs DEF Given, Aim
      <3> QED BY <3>3, <3>4, NormIs
    <2>4. CASE L[e].t # "link"
      <3>1. a \in Seq(In) /\ Last(d) \in In
        BY <1>0, <1>1, <2>1, ComesPlace, FrontPath
      <3>2. b = e
        <4>1. \E k \in Nat : Leads(L, On(a, <<Last(d)>>), k, b)
          BY <2>1 DEF Hop
        <4> HIDE DEF L
        <4> QED BY <1>0, <2>2, <2>4, <3>1, <4>1, LeadsDown
      <3>3. Sound(S, e) /\ Alive(S, e)
        BY <2>2, <2>4 DEF Sound, Alive
      <3>4. Over(o, d) \in DOMAIN G /\ G[Over(o, d)] = Norm(Final(S, e), done)
        BY <1>1, <2>1, <3>3, Zenon DEF Has
      <3>5. Final(S, e).t = S[e].t
        BY <1>0, <2>2, <2>4, FinalIs
      <3> QED BY <3>2, <3>4, <3>5, NormIs
    <2> QED BY <2>3, <2>4
  <1>2. ASSUME NEW d \in Seq(In), d # <<>>, KeptIn(S, InSource(d)), InSource(d) \in DOMAIN L, Live(L, InSource(d))
        PROVE  Over(o, d) \in DOMAIN G /\ G[Over(o, d)] = S[InSource(d)]
    <2> DEFINE e == InSource(d)
    <2>1. /\ Front(d) \in Seq(In) /\ Last(d) \in In /\ Front(e) = InSource(Front(d)) /\ Last(e) = Last(d)
          /\ e = Append(InSource(Front(d)), Last(d)) /\ InSource(Front(d)) # <<>>
      <3>1. Front(d) \in Seq(In) /\ Last(d) \in In /\ d = Append(Front(d), Last(d))
        BY <1>2, FrontPath
      <3>2. Front(e) = InSource(Front(d)) /\ Last(e) = Last(d)
        BY <1>2, InPackage
      <3>3. Append(InSource(Front(d)), Last(d)) = InSource(Append(Front(d), Last(d))) /\ InSource(Front(d)) # <<>>
        BY <3>1, InPackage
      <3> QED BY <3>1, <3>2, <3>3
    <2>2. InSource(Front(d)) \in DOMAIN L /\ L[InSource(Front(d))].t = "dir"
      BY <1>0, <1>2, <2>1 DEF IsTree, Is, Exists, Node
    <2>3. Comes(S, L, Front(d), InSource(Front(d)))
      BY <1>0, <2>1, <2>2, RealComes
    <2>4. Finds(S, L, d, e)
      BY <1>2, <2>1, <2>3 DEF Finds
    <2>5. Sound(S, e) /\ Alive(S, e) /\ S[e].t = "link"
      BY <1>2 DEF Sound, Alive, KeptIn, Keeps
    <2>6. Over(o, d) \in DOMAIN G /\ G[Over(o, d)] = Norm(Final(S, e), done)
      BY <1>2, <2>4, <2>5, Zenon DEF Has
    <2>7. Final(S, e) = S[e]
      BY <1>0, <1>2, FinalIs
    <2> QED BY <2>5, <2>6, <2>7, NormIs
  <1> QED BY <1>1, <1>2, Zenon DEF Holds

LEMMA KeptHas ==
    ASSUME NEW S, NEW D, NEW done, KeptMeans(S, D, done)
    PROVE  Has(S, D, <<Out>>, done)
  <1>1. \A d : Over(<<Out>>, d) = InOutput(d)
    BY DEF Over, InOutput
  <1> QED BY <1>1, Zenon DEF KeptMeans, Has

LEMMA LeftPacked ==
    ASSUME NEW S, StoreTree(S), Judged(S), Anchored(S)
    PROVE  /\ Packed(S, LeftIn(S)) /\ IsTree(LeftIn(S)) /\ LinksIn(LeftIn(S)) /\ DOMAIN LeftIn(S) \subseteq DOMAIN S
           /\ <<Source>> \in DOMAIN LeftIn(S) /\ LeftIn(S)[<<Source>>].t # "link" /\ Source \in Name /\ Out \in Name
           /\ \A p \in DOMAIN LeftIn(S) : LeftIn(S)[p] = S[p]
  <1>1. SubTree(LeftIn(S), S)
    BY ReadParts
  <1>2. Source \in Name /\ Out \in Name
    BY ArtifactAssumption
  <1>3. LeftIn(S)[<<Source>>].t # "link"
    BY <1>1, SubTreeIs
  <1> QED BY <1>1, <1>2, <1>3, SubTreeIs DEF Packed

\* What a path of the package leads to, its copy leads to as well.
LEMMA PathLeads ==
    ASSUME NEW S, StoreTree(S), Judged(S), Anchored(S), NEW G, NEW o \in Seq(Name), Holds(G, S, LeftIn(S), o),
           NEW d \in Seq(In), NEW k \in Nat, NEW b, Leads(LeftIn(S), On(<<>>, InSource(d)), k, b)
    PROVE  k - 1 \in Nat /\ \E c \in Seq(In) : Comes(S, LeftIn(S), c, b) /\ Leads(G, On(o, d), k - 1, Over(o, c))
  <1> DEFINE L == LeftIn(S)
  <1>1. Packed(S, L) /\ IsTree(L) /\ <<Source>> \in DOMAIN L /\ L[<<Source>>].t # "link" /\ Source \in Name
    BY LeftPacked
  <1>2. k - 1 \in Nat /\ Leads(L, On(<<Source>>, d), k - 1, b)
    <2>1. Leads(L, On(<<>>, <<Source>> \o d), k, b)
      BY DEF InSource
    <2>2. d \in Seq(Name)
      BY InIs
    <2> HIDE DEF L
    <2> QED BY <1>1, <2>1, <2>2, FirstName
  <1>3. Sim(S, L, G, o, k - 1)
    BY <1>1, <1>2, Similar
  <1>4. <<>> \in Seq(In) /\ <<>> \in Seq(InUp)
    OBVIOUS
  <1>5. Comes(S, L, <<>>, <<Source>>)
    BY ComesNil
  <1>6. <<>> \o d = d /\ Over(o, <<>>) = o
    <2>1. d \in Seq(InUp)
      BY InIs
    <2>2. Over(o, <<>>) = o
      BY <1>4, OverIs
    <2> QED BY <1>4, <2>1, <2>2, ConcatInUp
  <1>7. Leads(L, On(<<Source>>, <<>> \o d), k - 1, b)
    BY <1>2, <1>6
  <1> HIDE DEF L
  <1>8. \E c \in Seq(In) : Comes(S, L, c, b) /\ Leads(G, On(Over(o, <<>>), <<>> \o d), k - 1, Over(o, c))
    BY <1>3, <1>4, <1>5, <1>7, Zenon DEF Sim
  <1> QED BY <1>2, <1>6, <1>8 DEF L

\* A link that is kept and leads somewhere does so in the output.
LEMMA LiveLeads ==
    ASSUME NEW S, NEW D, Held(S, D), Anchored(S), KeptMeans(S, D, FALSE), <<Out>> \in DOMAIN D, D[<<Out>>] = Dir,
           NEW d \in Seq(In), d # <<>>, NEW e, Finds(S, LeftIn(S), d, e), KeptIn(S, e), Live(LeftIn(S), e)
    PROVE  Eval(D, InOutput(d)).st \notin {"absent", "escape"}
  <1> DEFINE L == LeftIn(S)
  <1>0. StoreTree(S) /\ IsTree(D) /\ Judged(S) /\ Out \in Name /\ <<Out>> \in Seq(Name)
    <2>1. StoreTree(S) /\ IsTree(D) /\ Judged(S)
      BY DEF Held, KeptMeans
    <2> QED BY <2>1, ArtifactAssumption
  <1>1. Packed(S, L) /\ SubTree(L, S)
    BY <1>0, LeftPacked DEF Packed
  <1>2. e = InSource(d)
    <2>1. PICK a \in Seq(In) : Comes(S, L, Front(d), a) /\ e = Append(a, Last(d))
      BY <1>0, <1>1, FindsIs
    <2>2. Front(d) \in Seq(In) /\ Last(d) \in In /\ d = Append(Front(d), Last(d))
      BY FrontPath
    <2>3. a # <<>> /\ (a[1] = Source => a = InSource(Front(d)))
      <3>1. ~Linkless(S, a)
        <4>1. IsTree(S) /\ a \in Seq(Name) /\ Last(d) \in Name
          BY <1>0, <2>1, <2>2, InIs DEF StoreTree
        <4>2. e \in DOMAIN S /\ S[e].t = "link"
          BY DEF KeptIn
        <4> QED BY <2>1, <4>1, <4>2, LinklessBelow
      <3> QED BY <1>1, <2>1, <2>2, <3>1, ComesSource
    <2>4. e[1] = Source /\ e[1] = a[1]
      <3>1. e[1] = Source
        BY <1>0, KeptIs
      <3>2. Append(a, Last(d))[1] = a[1]
        BY <2>2, <2>3, AppendPath
      <3> QED BY <2>1, <3>1, <3>2
    <2>5. Append(InSource(Front(d)), Last(d)) = InSource(Append(Front(d), Last(d)))
      BY <2>2, InPackage
    <2> QED BY <2>1, <2>2, <2>3, <2>4, <2>5
  <1>3. PICK k, b : k \in Nat /\ Leads(L, On(<<>>, InSource(d)), k, b)
    BY <1>2 DEF Live
  <1>4. Holds(D, S, L, <<Out>>)
    <2>1. Is("dir", D, <<Out>>)
      BY DEF Is, Exists, Node, Dir
    <2> QED BY <1>1, <2>1, KeptHas, HasHolds
  <1>5. PICK c \in Seq(In) : Leads(D, On(<<Out>>, d), k - 1, Over(<<Out>>, c))
    BY <1>0, <1>3, <1>4, PathLeads
  <1>6. \E j \in Nat : Leads(D, On(<<>>, InOutput(d)), j, Over(<<Out>>, c))
    <2>1. k - 1 \in Nat
      BY <1>0, <1>3, <1>4, PathLeads
    <2>2. d \in Seq(Name) /\ D[<<Out>>].t # "link"
      BY InIs DEF Dir
    <2>3. Leads(D, On(<<>>, <<Out>> \o d), (k - 1) + 1, Over(<<Out>>, c))
      BY <1>0, <1>5, <2>1, <2>2, FirstName
    <2>4. (k - 1) + 1 \in Nat
      BY <2>1
    <2> QED BY <2>3, <2>4 DEF InOutput
  <1>7. \E j \in Nat : Leads(D, Start(InOutput(d)), j, Over(<<Out>>, c))
    BY <1>6, StartOn
  <1> QED BY <1>7, EvalLeads

\* The next link of the list is looked at.
LEMMA MeansDangling ==
    ASSUME NEW S, NEW D, Held(S, D), Anchored(S), KeptMeans(S, D, FALSE), <<Out>> \in DOMAIN D, D[<<Out>>] = Dir,
           NEW p, p \in DOMAIN D, D[p].t = "link", Eval(D, p).st \in {"absent", "escape"}
    PROVE  KeptMeans(S, Without(D, {p}), FALSE)
  <1>0. StoreTree(S) /\ Judged(S) /\ SubTree(LeftIn(S), S)
    BY ReadParts DEF Held, KeptMeans
  <1>1. ASSUME NEW d \in Seq(In), NEW e, d # <<>>, Finds(S, LeftIn(S), d, e), Sound(S, e), Alive(S, e)
        PROVE  /\ InOutput(d) \in DOMAIN Without(D, {p})
               /\ Without(D, {p})[InOutput(d)] = Norm(Final(S, e), FALSE)
    <2>1. InOutput(d) \in DOMAIN D /\ D[InOutput(d)] = Norm(Final(S, e), FALSE)
      BY <1>1, Zenon DEF KeptMeans
    <2>2. ASSUME InOutput(d) = p PROVE FALSE
      <3>1. Final(S, e).t = "link"
        <4>1. Norm(Final(S, e), FALSE).t = "link"
          BY <2>1, <2>2
        <4> QED BY <4>1, NormIs, Zenon
      <3>2. Finds(S, S, d, e)
        BY <1>0, <1>1, FindsPart DEF SubTree
      <3>3. KeptIn(S, e)
        <4>1. ASSUME ~KeptIn(S, e) PROVE FALSE
          <5>1. S[e].t = "link"
            BY <1>0, <3>1, FinalIs
          <5>2. S[Aim(S, e)].t # "link"
            BY <1>0, <1>1, <3>2, <4>1, AimComes
          <5>3. Final(S, e) = S[Aim(S, e)]
            BY <1>0, <4>1, <5>1, FinalIs DEF Given
          <5> QED BY <3>1, <5>2, <5>3
        <4> QED BY <4>1
      <3>4. Eval(D, InOutput(d)).st \notin {"absent", "escape"}
        BY <1>1, <3>3, LiveLeads DEF Alive
      <3> QED BY <2>2, <3>4
    <2> QED BY <2>1, <2>2 DEF Without
  <1> QED BY <1>0, <1>1, Zenon DEF KeptMeans

\* What files contain is rewritten.
LEMMA MeansRewrite ==
    ASSUME NEW S, NEW D, KeptMeans(S, D, FALSE), NEW E,
           E = [p \in DOMAIN D |-> IF p \in Files(D) THEN File(Rewritten[D[p].c]) ELSE D[p]]
    PROVE  KeptMeans(S, E, TRUE)
  <1>1. ASSUME NEW d \in Seq(In), NEW e, d # <<>>, Finds(S, LeftIn(S), d, e), Sound(S, e), Alive(S, e)
        PROVE  InOutput(d) \in DOMAIN E /\ E[InOutput(d)] = Norm(Final(S, e), TRUE)
    <2>1. InOutput(d) \in DOMAIN D /\ D[InOutput(d)] = Norm(Final(S, e), FALSE)
      BY <1>1, Zenon DEF KeptMeans
    <2>2. D[InOutput(d)] = Final(S, e)
      BY <2>1 DEF Norm
    <2>3. IsPrefix(<<Out>>, InOutput(d))
      BY <1>1, OutputIs DEF IsStrictPrefix
    <2>4. InOutput(d) \in Files(D) <=> D[InOutput(d)].t = "file"
      BY <2>1, <2>3 DEF Files, Under
    <2>5. InOutput(d) \in DOMAIN E /\ E[InOutput(d)] = IF InOutput(d) \in Files(D) THEN File(Rewritten[D[InOutput(d)].c]) ELSE D[InOutput(d)]
      BY <2>1
    <2> QED BY <2>2, <2>4, <2>5 DEF Norm
  <1>2. Judged(S)
    BY DEF KeptMeans
  <1> QED BY <1>1, <1>2, Zenon DEF KeptMeans
-----------------------------------------------------------------------------
\* The premises are about the store alone.

LEMMA WrappedSame ==
    ASSUME NEW t1, NEW t2, IsTree(t1), StoreOK(t1), IsTree(t2), StoreOK(t2), Agree(t1, t2),
           <<Out>> \in DOMAIN t2, t2[<<Out>>] = Dir, <<Out>> \in DOMAIN t1 => t1[<<Out>>] = Dir, Wrapped(t2)
    PROVE  Wrapped(t1)
  <1>0. /\ \A p \in DOMAIN t1 : p[1] # Out => p \in DOMAIN t2 /\ t2[p] = t1[p] /\ Eval(t2, p) = Eval(t1, p) /\ p \in Seq(In)
        /\ \A p \in DOMAIN t2 : p[1] # Out => p \in DOMAIN t1
    BY SameStored
  <1>1. ASSUME NEW p \in DOMAIN t1, p[1] # Out, Last(p) \in DOMAIN Public
        PROVE  /\ t1[p].t # "link"
               /\ Wrapper(p) \in DOMAIN t1 => t1[Wrapper(p)].t = "file"
               /\ Public[Last(p)] \in DOMAIN Public => Public[Public[Last(p)]] \notin DOMAIN Public
    <2>1. p \in DOMAIN t2 /\ t2[p] = t1[p] /\ p \in Seq(In)
      BY <1>0, <1>1
    <2>2. /\ t2[p].t # "link" /\ (Wrapper(p) \in DOMAIN t2 => t2[Wrapper(p)].t = "file")
          /\ Public[Last(p)] \in DOMAIN Public => Public[Public[Last(p)]] \notin DOMAIN Public
      BY <1>1, <2>1 DEF Wrapped
    <2>3. ASSUME Wrapper(p) \in DOMAIN t1 PROVE t1[Wrapper(p)].t = "file"
      <3>1. p \in Seq(Name) /\ p # <<>>
        BY TreeNode
      <3>2. Wrapper(p) # <<Out>>
        <4>1. <<Out>> \in DOMAIN t2 /\ t2[<<Out>>].t # "file"
          BY DEF Dir
        <4> QED BY <2>2, <4>1
      <3>3. Wrapper(p)[1] # Out
        <4>1. p[1] = IF Front(p) = <<>> THEN Last(p) ELSE Front(p)[1]
          BY <3>1, FrontPath
        <4>2. Front(p) \in Seq(Name) /\ Public[Last(p)] \in Name
          BY <1>1, <3>1, WrapperIs
        <4>3. Wrapper(p)[1] = IF Front(p) = <<>> THEN Public[Last(p)] ELSE Front(p)[1]
          BY <4>2, AppendPath DEF Wrapper
        <4>4. CASE Front(p) = <<>>
          <5>1. \A n \in Name : Append(<<>>, n) = <<n>>
            OBVIOUS
          <5>2. Wrapper(p) = <<Public[Last(p)]>>
            BY <4>2, <4>4, <5>1 DEF Wrapper
          <5> QED BY <3>2, <4>3, <4>4, <5>2
        <4> QED BY <1>1, <4>1, <4>3, <4>4
      <3>4. Wrapper(p) \in DOMAIN t2 /\ t2[Wrapper(p)] = t1[Wrapper(p)]
        BY <1>0, <2>3, <3>3
      <3> QED BY <2>2, <3>4
    <2> QED BY <2>1, <2>2, <2>3
  <1>2. ASSUME NEW p \in DOMAIN t1, p[1] # Out, t1[p].t = "link", Resolves(t1, p), ~Keeps(t1, p)
        PROVE  HiddenBy(t1, Eval(t1, p).at) = {}
    <2> DEFINE q == Eval(t1, p).at
    <2>1. p \in DOMAIN t2 /\ t2[p] = t1[p] /\ p \in Seq(In) /\ Eval(t2, p) = Eval(t1, p)
      BY <1>0, <1>2
    <2>2. HiddenBy(t2, q) = {}
      BY <1>2, <2>1 DEF Wrapped, Keeps, Resolves
    <2>3. q \in DOMAIN t1 /\ q \in Seq(In) /\ q # <<>>
      BY <1>2, <2>1, StoreTarget, TreeNode
    <2> HIDE DEF q
    <2>4. ASSUME NEW r \in HiddenBy(t1, q) PROVE FALSE
      <3>1. r \in DOMAIN t1 /\ Last(r) \in DOMAIN Public /\ Wrapper(r) = q /\ t1[r].t = "file"
        BY <2>4 DEF HiddenBy, Hidden
      <3>2. r \in Seq(Name) /\ r # <<>>
        BY <3>1, TreeNode
      <3>3. r[1] # Out
        <4>1. ASSUME r[1] = Out PROVE FALSE
          <5>1. r[1] = IF Front(r) = <<>> THEN Last(r) ELSE Front(r)[1]
            BY <3>2, FrontPath
          <5>2. Front(r) \in Seq(Name) /\ Last(r) \in Name /\ r = Append(Front(r), Last(r)) /\ Front(q) = Front(r)
            BY <3>1, <3>2, WrapperIs
          <5>3. Front(q) \in Seq(In)
            BY <2>3, FrontPath
          <5>4. Front(r) = <<>>
            BY <4>1, <5>1, <5>2, <5>3, OutsideIn
          <5>5. \A n \in Name : Append(<<>>, n) = <<n>>
            OBVIOUS
          <5>6. r = <<Out>>
            BY <4>1, <5>1, <5>2, <5>4, <5>5
          <5> QED BY <3>1, <5>6 DEF Dir
        <4> QED BY <4>1
      <3>4. r \in HiddenBy(t2, q)
        BY <1>0, <3>1, <3>3 DEF HiddenBy, Hidden
      <3> QED BY <2>2, <3>4
    <2> QED BY <2>4 DEF q
  <1> QED BY <1>1, <1>2 DEF Wrapped

-----------------------------------------------------------------------------
\* The invariant: what each pass has of the package.

Regular(tree) == Anchored(tree) /\ Paired(tree) /\ Wrapped(tree)
PassMeans(S, D, J, now) ==
    /\ now = "copy" => CopyMeans(S, D, J)
    /\ now = "drop" => DropMeans(S, D)
    /\ now = "prepare" => PrepMeans(S, D, J)
    /\ now \in {"dangling", "rewrite"} => KeptMeans(S, D, FALSE)
    /\ now \in {"archive", "done"} => KeptMeans(S, D, TRUE)
MeansInv == disk # <<>> => /\ Is("dir", disk, <<Source>>)
                           /\ Regular(disk) => PassMeans(Store(disk), disk, todo, pass)

LEMMA RegularStore ==
    ASSUME NEW D, IsTree(D), StoreOK(D), <<Out>> \in DOMAIN D, D[<<Out>>] = Dir, Is("dir", D, <<Source>>), Regular(D),
           NEW S, S = Store(D)
    PROVE  Held(S, D) /\ StoreTree(S) /\ Anchored(S) /\ Paired(S) /\ Wrapped(S)
  <1>1. Held(S, D)
    BY StoreHeld
  <1>2. StoreTree(S) /\ IsTree(S) /\ StoreOK(S) /\ Agree(S, D)
    BY <1>1 DEF Held, StoreTree
  <1>3. <<Out>> \notin DOMAIN S
    <2>1. <<Out>> \notin Seq(In)
      <3>1. <<Out>>[1] = Out /\ <<Out>> # <<>>
        OBVIOUS
      <3> QED BY <3>1, OutsideIn
    <2> QED BY <1>2, <2>1 DEF StoreTree
  <1>4. Anchored(S)
    BY <1>2, AnchoredSame DEF Regular
  <1>5. Paired(S)
    BY <1>2, PairedSame DEF Regular
  <1>6. Wrapped(S)
    BY <1>2, <1>3, WrappedSame DEF Regular
  <1> QED BY <1>1, <1>2, <1>4, <1>5, <1>6

LEMMA MeansFirst ==
    ASSUME DInit
    PROVE  MeansInv
  <1>1. CASE Foreign
    BY <1>1 DEF Foreign, MeansInv
  <1>2. CASE Init
    <2>1. Is("dir", disk, <<Source>>)
      BY <1>2, InitDisk
    <2>2. CopyMeans(Store(disk), disk, todo)
      BY <1>2, MeansInit
    <2>3. pass = "copy"
      BY <1>2 DEF Init
    <2> QED BY <2>1, <2>2, <2>3 DEF MeansInv, PassMeans
  <1> QED BY <1>1, <1>2 DEF DInit

\* What is known before a step.
Prior(S) == /\ BuildInv /\ Held(S, disk) /\ StoreTree(S) /\ Anchored(S) /\ Paired(S) /\ Wrapped(S)
            /\ IsTree(disk) /\ <<Out>> \in DOMAIN disk /\ disk[<<Out>>] = Dir
            /\ PassMeans(S, disk, todo, pass)

LEMMA MeansCopy ==
    ASSUME NEW S, Prior(S), NEW j \in todo, CopyLink(j) \/ CopyDir(j) \/ CopyFile(j), ~Fail
    PROVE  PassMeans(S, disk', todo', pass')
  <1>1. pass = "copy" /\ pass' = "copy"
    BY DEF CopyLink, CopyDir, CopyFile, Turn, Fail
  <1>2. CopyMeans(S, disk, todo) /\ JobOK(disk, j) /\ Held(S, disk)
    BY <1>1 DEF Prior, PassMeans, BuildInv, CopyInv
  <1>3. CopyMeans(S, disk', todo')
    BY <1>2, MeansCopyLink, MeansCopyNode
  <1> QED BY <1>1, <1>3 DEF PassMeans

LEMMA MeansDropStep ==
    ASSUME NEW S, Prior(S), NEW i \in todo, Drop(i), ~Fail
    PROVE  PassMeans(S, disk', todo', pass')
  <1>1. pass = "drop" /\ todo \subseteq DOMAIN Dropped
    BY DEF Drop, Prior, BuildInv, TodoInv
  <1>2. disk' = Without(disk, Gone(disk, Dropped[i])) /\ pass' = "drop"
    BY <1>1, DropIs DEF Prior
  <1>3. DropMeans(S, disk)
    BY <1>1 DEF Prior, PassMeans
  <1>4. i \in DOMAIN Dropped /\ Held(S, disk) /\ Anchored(S) /\ <<Out>> \in DOMAIN disk /\ disk[<<Out>>] = Dir
    BY <1>1 DEF Prior
  <1>5. DropMeans(S, Without(disk, Gone(disk, Dropped[i])))
    BY <1>3, <1>4, MeansDrop
  <1> QED BY <1>2, <1>5 DEF PassMeans

LEMMA MeansVisitStep ==
    ASSUME NEW S, Prior(S), RemoveStatic \/ Unwrap, ~Fail
    PROVE  PassMeans(S, disk', todo', pass')
  <1> DEFINE x == First(todo)
  <1>1. pass = "prepare" /\ pass' = "prepare" /\ todo # {} /\ todo' = todo \ {x}
    BY DEF RemoveStatic, Unwrap, Fail
  <1>2. todo \subseteq Files(disk)
    BY <1>1 DEF Prior, BuildInv, TodoInv
  <1>3. todo \subseteq DOMAIN disk /\ IsTree(disk) /\ DiskInv /\ \A y \in todo : disk[y].t = "file"
    BY <1>2 DEF Files, Under, Prior, BuildInv
  <1>4. x \in todo /\ \A q \in todo : q = x \/ Before(x, q)
    BY <1>1, <1>3, FirstOfTodo
  <1>5. Waits(disk, todo)
    BY <1>3, TreeNode DEF Waits
  <1>6. \/ Last(x) \in Static /\ disk' = Without(disk, {x})
        \/ Last(x) \in DOMAIN Public /\ disk' = Renamed(disk, x)
    BY DEF RemoveStatic, Unwrap, Renamed, Wrapper
  <1>7. PrepMeans(S, disk, todo) /\ StoreTree(S) /\ Wrapped(S) /\ Paired(S)
    BY <1>1 DEF Prior, PassMeans
  <1> HIDE DEF x
  <1>8. PrepMeans(S, disk', todo \ {x})
    BY <1>4, <1>5, <1>6, <1>7, MeansVisit
  <1> QED BY <1>1, <1>8 DEF PassMeans

LEMMA MeansDanglingStep ==
    ASSUME NEW S, Prior(S), RemoveDangling, ~Fail
    PROVE  PassMeans(S, disk', todo', pass')
  <1> DEFINE p == First(todo)
  <1>1. pass = "dangling" /\ pass' = "dangling" /\ todo # {}
    BY DEF RemoveDangling, Fail
  <1>2. todo \subseteq Links(disk)
    BY <1>1 DEF Prior, BuildInv, TodoInv
  <1>3. todo \subseteq DOMAIN disk /\ DiskInv /\ \A y \in todo : disk[y].t = "link"
    BY <1>2 DEF Links, Under, Prior, BuildInv
  <1>4. p \in todo
    BY <1>1, <1>3, FirstOfTodo
  <1>5. disk' = disk \/ (Eval(disk, p).st \in {"absent", "escape"} /\ disk' = Without(disk, {p}))
    BY DEF RemoveDangling
  <1>6. KeptMeans(S, disk, FALSE) /\ Held(S, disk) /\ Anchored(S) /\ <<Out>> \in DOMAIN disk /\ disk[<<Out>>] = Dir
    BY <1>1 DEF Prior, PassMeans
  <1> HIDE DEF p
  <1>7. KeptMeans(S, disk', FALSE)
    <2>1. CASE disk' = disk
      BY <1>6, <2>1
    <2>2. CASE Eval(disk, p).st \in {"absent", "escape"} /\ disk' = Without(disk, {p})
      BY <1>3, <1>4, <1>6, <2>2, MeansDangling
    <2> QED BY <1>5, <2>1, <2>2
  <1> QED BY <1>1, <1>7 DEF PassMeans

LEMMA MeansOtherStep ==
    ASSUME NEW S, Prior(S),
           CopyDone \/ DropDone \/ PrepareDone \/ DanglingDone \/ Rewrite \/ ArchiveEntry \/ ArchiveDone, ~Fail
    PROVE  PassMeans(S, disk', todo', pass')
  <1>0. Held(S, disk) /\ StoreTree(S) /\ Anchored(S) /\ Paired(S) /\ Wrapped(S) /\ IsTree(disk)
        /\ <<Out>> \in DOMAIN disk /\ disk[<<Out>>] = Dir /\ PassMeans(S, disk, todo, pass)
    BY DEF Prior
  <1>1. CASE CopyDone
    <2>1. pass = "copy" /\ todo = {} /\ disk' = disk /\ pass' = "drop"
      BY <1>1 DEF CopyDone
    <2>2. DropMeans(S, disk)
      BY <1>0, <2>1, MeansCopyDone DEF PassMeans
    <2> QED BY <2>1, <2>2 DEF PassMeans
  <1>2. CASE DropDone
    <2>1. pass = "drop" /\ disk' = disk /\ pass' = "prepare" /\ Listed1(disk, todo')
      BY <1>2 DEF DropDone, Listed1
    <2>2. DropMeans(S, disk)
      BY <1>0, <2>1 DEF PassMeans
    <2>3. PrepMeans(S, disk, todo')
      BY <1>0, <2>1, <2>2, MeansDropDone
    <2> QED BY <2>1, <2>3 DEF PassMeans
  <1>3. CASE PrepareDone
    <2>1. pass = "prepare" /\ todo = {} /\ disk' = disk /\ pass' = "dangling"
      BY <1>3 DEF PrepareDone
    <2>2. KeptMeans(S, disk, FALSE)
      BY <1>0, <2>1, MeansPrepareDone DEF PassMeans
    <2> QED BY <2>1, <2>2 DEF PassMeans
  <1>4. CASE DanglingDone
    <2>1. pass = "dangling" /\ disk' = disk /\ pass' = "rewrite"
      BY <1>4 DEF DanglingDone
    <2> QED BY <1>0, <2>1 DEF PassMeans
  <1>5. CASE Rewrite
    <2>1. /\ pass = "rewrite" /\ pass' = "archive"
          /\ disk' = [p \in DOMAIN disk |-> IF p \in Files(disk) THEN File(Rewritten[disk[p].c]) ELSE disk[p]]
      BY <1>5 DEF Rewrite
    <2>2. KeptMeans(S, disk', TRUE)
      BY <1>0, <2>1, MeansRewrite DEF PassMeans
    <2> QED BY <2>1, <2>2 DEF PassMeans
  <1>6. CASE ArchiveEntry \/ ArchiveDone
    <2>1. pass = "archive" /\ disk' = disk /\ pass' \in {"archive", "done"}
      BY <1>6 DEF ArchiveEntry, ArchiveDone
    <2> QED BY <1>0, <2>1 DEF PassMeans
  <1> QED BY <1>1, <1>2, <1>3, <1>4, <1>5, <1>6

LEMMA MeansNext ==
    ASSUME BuildInv, StoreInv, MeansInv, Next
    PROVE  MeansInv'
  <1>1. IsTree(disk) /\ StoreOK(disk) /\ IsTree(disk') /\ StoreOK(disk') /\ Agree(disk, disk') /\ disk' # <<>>
        /\ <<Out>> \in DOMAIN disk' /\ disk'[<<Out>>] = Dir
    BY StoreTrees
  <1>2. disk # <<>> /\ <<Out>> \in DOMAIN disk /\ disk[<<Out>>] = Dir
    BY StoreStep DEF StoreInv, OutInv
  <1>3. Is("dir", disk, <<Source>>) /\ (Regular(disk) => PassMeans(Store(disk), disk, todo, pass))
    BY <1>2 DEF MeansInv
  <1>4. Is("dir", disk', <<Source>>)
    <2>1. <<Source>> \in Seq(In) /\ <<Source>> # <<>>
      <3>1. Source \in In
        BY ArtifactAssumption DEF In
      <3> QED BY <3>1
    <2> QED BY <1>1, <1>3, <2>1 DEF Agree, Is, Exists, Node
  <1>5. ASSUME Regular(disk') PROVE PassMeans(Store(disk'), disk', todo', pass')
    <2>1. Regular(disk)
      BY <1>1, <1>2, <1>5, AnchoredSame, PairedSame, WrappedSame DEF Regular
    <2> DEFINE S == Store(disk)
    <2>2. Store(disk') = S
      BY <1>1, StoreStays
    <2>3. Held(S, disk) /\ StoreTree(S) /\ Anchored(S) /\ Paired(S) /\ Wrapped(S)
      BY <1>1, <1>2, <1>3, <2>1, RegularStore
    <2> HIDE DEF S
    <2>4. Prior(S)
      BY <1>1, <1>2, <1>3, <2>1, <2>3 DEF Prior, S
    <2>5. CASE Fail
      <3>1. pass' = "failed"
        BY <2>5 DEF Fail
      <3> QED BY <3>1 DEF PassMeans
    <2>6. CASE ~Fail
      BY <2>2, <2>4, <2>6, MeansCopy, MeansDropStep, MeansVisitStep, MeansDanglingStep, MeansOtherStep DEF Next
    <2> QED BY <2>2, <2>5, <2>6
  <1> QED BY <1>4, <1>5 DEF MeansInv

-----------------------------------------------------------------------------
\* What is left of the store, and the programs in it, as Delivered has them.

LEMMA LeftSame ==
    ASSUME NEW S, Held(S, disk), NEW p \in Seq(In)
    PROVE  Agree(LeftIn(S), Left) /\ Eval(Left, InSource(p)) = Eval(LeftIn(S), InSource(p))
           /\ Eval(LeftIn(S), InSource(p)).at \in Seq(In)
  <1>1. StoreTree(S) /\ \A q \in Seq(In) : (q \in DOMAIN disk <=> q \in DOMAIN S) /\ (q \in DOMAIN S => disk[q] = S[q])
    BY DEF Held, Agree
  <1>2. \A q \in Seq(In) : q \in Unread <=> q \in UnreadIn(S)
    <2>1. ASSUME NEW d \in ToSet(Dropped) PROVE Eval(disk, InSource(Front(d))) = Eval(S, InSource(Front(d)))
      <3>1. PICK i \in DOMAIN Dropped : d = Dropped[i]
        BY <2>1 DEF ToSet
      <3>2. Front(d) \in Seq(In)
        BY <3>1, DroppedFront
      <3>3. InSource(Front(d)) \in Seq(InUp)
        BY <3>2, InPackage, InIs
      <3> QED BY <3>3 DEF Held
    <2>2. \A d \in ToSet(Dropped) : Resolves(disk, InSource(Front(d))) <=> Resolves(S, InSource(Front(d)))
      BY <2>1 DEF Resolves
    <2>3. \A q \in Seq(In) : \A a : q \in Under(disk, a) <=> q \in Under(S, a)
      BY <1>1 DEF Under
    <2> QED BY <2>1, <2>2, <2>3 DEF Unread, UnreadIn
  <1>3. ASSUME NEW q \in Seq(In)
        PROVE  /\ q \in DOMAIN LeftIn(S) <=> q \in DOMAIN Left
               /\ q \in DOMAIN LeftIn(S) => Left[q] = LeftIn(S)[q]
    <2>1. q \in DOMAIN LeftIn(S) <=> q \in DOMAIN Left
      BY <1>1, <1>2 DEF Left, LeftIn, Without, NamedAway
    <2>2. q \in DOMAIN LeftIn(S) => Left[q] = LeftIn(S)[q]
      BY <1>1, <2>1 DEF Left, LeftIn, Without
    <2> QED BY <2>1, <2>2
  <1>4. Agree(LeftIn(S), Left)
    BY <1>3 DEF Agree
  <1>5. SubTree(LeftIn(S), S)
    BY <1>1, ReadParts
  <1>6. IsTree(LeftIn(S)) /\ LinksIn(LeftIn(S))
    BY <1>1, <1>5, SubTreeIs
  <1>7. InSource(p) \in Seq(InUp)
    BY InPackage, InIs
  <1> QED BY <1>4, <1>6, <1>7, AgreeEval

LEMMA HiddenSame ==
    ASSUME NEW S, Held(S, disk), <<Out>> \in DOMAIN disk, disk[<<Out>>] = Dir, NEW q \in Seq(In), q # <<>>
    PROVE  HiddenBy(disk, q) = HiddenBy(S, q)
  <1>1. IsTree(disk) /\ StoreTree(S) /\ \A p \in DOMAIN S : p \in DOMAIN disk /\ disk[p] = S[p]
    BY DEF Held
  <1>2. ASSUME NEW r \in HiddenBy(disk, q) PROVE r \in HiddenBy(S, q)
    <2>1. r \in DOMAIN disk /\ Last(r) \in DOMAIN Public /\ Wrapper(r) = q /\ disk[r].t = "file"
      BY <1>2 DEF HiddenBy, Hidden
    <2>2. r \in Seq(Name) /\ r # <<>>
      BY <1>1, <2>1, TreeNode
    <2>3. r[1] # Out
      <3>1. ASSUME r[1] = Out PROVE FALSE
        <4>1. r[1] = IF Front(r) = <<>> THEN Last(r) ELSE Front(r)[1]
          BY <2>2, FrontPath
        <4>2. Front(r) \in Seq(Name) /\ Last(r) \in Name /\ r = Append(Front(r), Last(r)) /\ Front(q) = Front(r)
          BY <2>1, <2>2, WrapperIs
        <4>3. Front(q) \in Seq(In)
          BY FrontPath
        <4>4. Front(r) = <<>>
          BY <3>1, <4>1, <4>2, <4>3, OutsideIn
        <4>5. \A n \in Name : Append(<<>>, n) = <<n>>
          OBVIOUS
        <4>6. r = <<Out>>
          BY <3>1, <4>1, <4>2, <4>4, <4>5
        <4> QED BY <2>1, <4>6 DEF Dir
      <3> QED BY <3>1
    <2>4. r \in DOMAIN S /\ S[r] = disk[r]
      BY <1>1, <2>1, <2>3 DEF Held
    <2> QED BY <2>1, <2>4 DEF HiddenBy, Hidden
  <1>3. ASSUME NEW r \in HiddenBy(S, q) PROVE r \in HiddenBy(disk, q)
    BY <1>1, <1>3 DEF HiddenBy, Hidden
  <1> QED BY <1>2, <1>3

ProgramOf(once, twice, p) == IF twice # {} THEN CHOOSE r \in twice : TRUE
                             ELSE IF once # {} THEN CHOOSE r \in once : TRUE ELSE p

LEMMA ProgramSame ==
    ASSUME NEW S, Held(S, disk), <<Out>> \in DOMAIN disk, disk[<<Out>>] = Dir, NEW q \in DOMAIN S
    PROVE  Program(q) = ProgramIn(S, q) /\ ProgramIn(S, q) \in DOMAIN S /\ disk[ProgramIn(S, q)] = S[ProgramIn(S, q)]
  <1>1. StoreTree(S) /\ q \in Seq(In) /\ q # <<>> /\ \A p \in DOMAIN S : disk[p] = S[p]
    BY TreeNode DEF Held, StoreTree
  <1>2. HiddenBy(disk, q) = HiddenBy(S, q)
    BY <1>1, HiddenSame
  <1>3. \A r \in HiddenBy(S, q) : HiddenBy(disk, r) = HiddenBy(S, r)
    BY <1>1, HiddenIs, HiddenSame
  <1>4. UNION {HiddenBy(disk, r) : r \in HiddenBy(disk, q)} = UNION {HiddenBy(S, r) : r \in HiddenBy(S, q)}
    BY <1>2, <1>3
  <1>5. Program(q) = ProgramIn(S, q)
    <2>1. Program(q) = ProgramOf(HiddenBy(disk, q), UNION {HiddenBy(disk, r) : r \in HiddenBy(disk, q)}, q)
      BY DEF Program, ProgramOf
    <2>2. ProgramIn(S, q) = ProgramOf(HiddenBy(S, q), UNION {HiddenBy(S, r) : r \in HiddenBy(S, q)}, q)
      BY DEF ProgramIn, ProgramOf
    <2> QED BY <2>1, <2>2, <1>2, <1>4
  <1>6. ProgramIn(S, q) \in DOMAIN S
    <2>1. CASE HiddenBy(S, q) = {}
      BY <1>1, <2>1, ProgramIs
    <2>2. ASSUME NEW f \in HiddenBy(S, q) PROVE ProgramIn(S, q) \in DOMAIN S
      <3>1. CASE HiddenBy(S, f) = {}
        BY <1>1, <2>2, <3>1, ProgramIs, HiddenIs
      <3>2. ASSUME NEW g \in HiddenBy(S, f) PROVE ProgramIn(S, q) \in DOMAIN S
        BY <1>1, <2>2, <3>2, ProgramIs, HiddenIs
      <3> QED BY <3>1, <3>2
    <2> QED BY <2>1, <2>2
  <1> QED BY <1>1, <1>5, <1>6

\* What is at the end of a path of an installation.
Installed(S, q) == File(Rewritten[S[ProgramIn(S, q)].c])

LEMMA InstalledIs ==
    ASSUME NEW S, StoreTree(S), Judged(S), Anchored(S), Wrapped(S), NEW G, Has(S, G, <<>>, TRUE),
           NEW c \in Seq(In), NEW q, Comes(S, LeftIn(S), c, q), q \in DOMAIN LeftIn(S), LeftIn(S)[q].t = "file"
    PROVE  c \in DOMAIN G /\ G[c] = Installed(S, q)
  <1> DEFINE L == LeftIn(S)
  <1>0. /\ Packed(S, L) /\ SubTree(L, S) /\ IsTree(L) /\ LinksIn(L) /\ \A p \in DOMAIN L : p \in DOMAIN S /\ L[p] = S[p]
        /\ L[<<Source>>].t = "dir" /\ DOMAIN S \subseteq Seq(In)
    <2>1. Packed(S, L) /\ SubTree(L, S)
      BY LeftPacked DEF Packed
    <2> QED BY <2>1, SubTreeIs
  <1>1. c # <<>>
    <2>1. q # <<Source>>
      BY <1>0
    <2> QED BY <2>1, ComesNil
  <1>2. PICK a : Comes(S, L, Front(c), a) /\ Hop(S, L, a, Last(c), q) /\ Finds(S, L, c, Append(a, Last(c)))
    BY <1>1, ComesFinds
  <1> DEFINE e == Append(a, Last(c))
  <1>3. e \in DOMAIN L /\ ~KeptIn(S, e) /\ L[e] = S[e] /\ e \in DOMAIN S
    BY <1>0, <1>2 DEF Hop
  <1>4. Over(<<>>, c) = c
    <2>1. c \in Seq(InUp)
      BY InIs
    <2> QED BY <2>1, ConcatInUp DEF Over
  <1>5. ASSUME Sound(S, e) PROVE c \in DOMAIN G /\ G[c] = Norm(Final(S, e), TRUE)
    <2>1. Alive(S, e)
      BY <1>3 DEF Alive
    <2> QED BY <1>1, <1>2, <1>4, <1>5, <2>1, Zenon DEF Has
  <1>6. S[q].t = "file" /\ q \in DOMAIN S
    BY <1>0
  <1>7. CASE L[e].t = "link"
    <2>1. Resolves(S, e) /\ Eval(S, e).at = q
      BY <1>0, <1>1, <1>2, <1>7, HopEnds
    <2>2. Sound(S, e)
      BY <2>1 DEF Sound
    <2>3. Final(S, e) = S[q]
      BY <1>3, <1>7, <2>1, FinalIs DEF Given, Aim
    <2>4. ProgramIn(S, q) = q
      <3>1. ~Keeps(S, e)
        BY <1>3, <1>7 DEF KeptIn
      <3>2. e[1] # Out
        <4>1. e \in Seq(In) /\ e # <<>>
          BY <1>0, <1>3, TreeNode
        <4> QED BY <4>1, OutsideIn
      <3>3. HiddenBy(S, q) = {}
        BY <1>3, <1>7, <2>1, <3>1, <3>2 DEF Wrapped
      <3> QED BY <3>3, ProgramIs
    <2> QED BY <1>5, <1>6, <2>2, <2>3, <2>4 DEF Norm, Installed
  <1>8. CASE L[e].t # "link"
    <2>1. a \in Seq(In) /\ Last(c) \in In
      <3>1. Front(c) \in Seq(In) /\ Last(c) \in In
        BY <1>1, FrontPath
      <3> QED BY <1>0, <1>2, <3>1, ComesPlace
    <2>2. q = e
      <3>1. \E k \in Nat : Leads(L, On(a, <<Last(c)>>), k, q)
        BY <1>2 DEF Hop
      <3> HIDE DEF L
      <3> QED BY <1>0, <1>3, <1>8, <2>1, <3>1, LeadsDown
    <2>3. Sound(S, e)
      BY <1>3, <1>8 DEF Sound
    <2>4. Final(S, e) = S[ProgramIn(S, e)] /\ Final(S, e).t = "file"
      <3>1. S[e].t = "file"
        BY <1>6, <2>2
      <3>2. Final(S, e).t = "file"
        BY <3>1, FinalIs
      <3> QED BY <3>1, <3>2 DEF Final
    <2> QED BY <1>5, <2>2, <2>3, <2>4 DEF Norm, Installed
  <1> QED BY <1>7, <1>8

\* bm has all of the package.
LEMMA AllHas ==
    ASSUME NEW S, KeptMeans(S, disk, TRUE), Complete
    PROVE  Has(S, pkg, <<>>, TRUE)
  <1>1. ASSUME NEW d \in Seq(In), NEW e, d # <<>>, Finds(S, LeftIn(S), d, e), Sound(S, e), Alive(S, e)
        PROVE  Over(<<>>, d) \in DOMAIN pkg /\ pkg[Over(<<>>, d)] = Norm(Final(S, e), TRUE)
    <2>1. InOutput(d) \in DOMAIN disk /\ disk[InOutput(d)] = Norm(Final(S, e), TRUE)
      BY <1>1, Zenon DEF KeptMeans
    <2>2. d \in Seq(Name) /\ d \in Seq(InUp)
      BY InIs
    <2>3. d \in DOMAIN pkg /\ pkg[d] = disk[InOutput(d)]
      BY <1>1, <2>1, <2>2, Zenon DEF Complete
    <2>4. Over(<<>>, d) = d
      BY <2>2, ConcatInUp DEF Over
    <2> QED BY <2>1, <2>3, <2>4
  <1> QED BY <1>1, Zenon DEF Has

LEMMA DeliveredIs ==
    ASSUME Inv, StoreInv, VerbatimInv, ArchiveInv, MeansInv, bm = "accepted", disk # <<>>, Regular(disk),
           NEW p \in Seq(In), Wanted(Left, p)
    PROVE  Resolves(pkg, p) /\ pkg[Eval(pkg, p).at] = File(Expected(Left, p))
  <1> DEFINE S == Store(disk)
             L == LeftIn(S)
             q == Eval(L, InSource(p)).at
  <1>1. pass = "done" /\ read = Len(tar)
    BY DEF VerbatimInv
  <1>2. IsTree(disk) /\ StoreOK(disk) /\ <<Out>> \in DOMAIN disk /\ disk[<<Out>>] = Dir /\ Is("dir", disk, <<Source>>)
    BY DEF StoreInv, OutInv, Inv, BuildInv, DiskInv, MeansInv
  <1>3. Held(S, disk) /\ StoreTree(S) /\ Anchored(S) /\ Paired(S) /\ Wrapped(S)
    BY <1>2, RegularStore
  <1>4. KeptMeans(S, disk, TRUE)
    BY <1>1 DEF MeansInv, PassMeans
  <1>5. Judged(S)
    BY <1>4 DEF KeptMeans
  <1>6. Complete
    <2>1. Archived
      BY <1>1, <1>2 DEF Archived, Inv, BuildInv, StoreInv
    <2>2. Reading
      BY <2>1, ArchivedSimple DEF Reading, Inv, VerbatimInv
    <2> QED BY <1>1, <2>2, AllRead
  <1> HIDE DEF S
  <1>7. Has(S, pkg, <<>>, TRUE)
    BY <1>4, <1>6, AllHas
  <1>8. /\ Packed(S, L) /\ IsTree(L) /\ DOMAIN L \subseteq DOMAIN S /\ \A x \in DOMAIN L : L[x] = S[x]
    BY <1>3, <1>5, LeftPacked
  <1>9. Agree(L, Left) /\ Eval(Left, InSource(p)) = Eval(L, InSource(p)) /\ q \in Seq(In)
    BY <1>3, LeftSame
  <1>10. Resolves(L, InSource(p)) /\ q \in DOMAIN L /\ L[q].t = "file"
    <2>1. Resolves(Left, InSource(p)) /\ Is("file", Left, q)
      BY <1>9 DEF Wanted
    <2>2. q \in DOMAIN Left /\ Left[q].t = "file"
      BY <2>1 DEF Is, Exists, Node, Dir
    <2> QED BY <1>9, <2>1, <2>2 DEF Agree, Resolves
  <1>11. Leads(L, On(<<>>, InSource(p)), MaxWalk, q)
    BY <1>10, EvalLeads, StartOn
  <1>12. <<>> \in Seq(Name) /\ MaxWalk \in Nat
    BY TreeAssumption
  <1>13. Holds(pkg, S, L, <<>>)
    <2>1. Is("dir", pkg, <<>>)
      BY DEF Is, Exists, Node, Dir
    <2> QED BY <1>7, <1>8, <2>1, HasHolds
  <1>14. \E c \in Seq(In) : MaxWalk - 1 \in Nat /\ Comes(S, L, c, q) /\ Leads(pkg, On(<<>>, p), MaxWalk - 1, Over(<<>>, c))
    BY <1>3, <1>5, <1>11, <1>12, <1>13, PathLeads
  <1>15. PICK c \in Seq(In) : MaxWalk - 1 \in Nat /\ Comes(S, L, c, q) /\ Leads(pkg, On(<<>>, p), MaxWalk - 1, Over(<<>>, c))
    BY <1>14
  <1>16. Over(<<>>, c) = c
    <2>1. c \in Seq(InUp)
      BY <1>15, InIs
    <2> QED BY <2>1, ConcatInUp DEF Over
  <1>17. Leads(pkg, Start(p), MaxWalk, c)
    <2>1. Leads(pkg, On(<<>>, p), MaxWalk - 1, c)
      BY <1>15, <1>16
    <2>2. MaxWalk - 1 \in Nat /\ MaxWalk - 1 <= MaxWalk
      BY <1>12, <1>15
    <2> QED BY <1>12, <2>1, <2>2, LeadsLater, StartOn
  <1>18. Resolves(pkg, p) /\ Eval(pkg, p).at = c
    BY <1>17, EvalLeads
  <1>19. pkg[c] = File(Rewritten[S[ProgramIn(S, q)].c])
    <2>1. Comes(S, LeftIn(S), c, q) /\ q \in DOMAIN LeftIn(S) /\ LeftIn(S)[q].t = "file" /\ c \in Seq(In)
      BY <1>10, <1>15
    <2> HIDE DEF q
    <2>2. pkg[c] = Installed(S, q)
      BY <1>3, <1>5, <1>7, <2>1, InstalledIs
    <2> QED BY <2>2 DEF Installed
  <1>20. Expected(Left, p) = Rewritten[S[ProgramIn(S, q)].c]
    <2>1. Program(q) = ProgramIn(S, q) /\ disk[ProgramIn(S, q)] = S[ProgramIn(S, q)]
      BY <1>2, <1>3, <1>8, <1>10, ProgramSame
    <2> HIDE DEF q
    <2>2. Eval(Left, InSource(p)).at = q
      BY <1>9 DEF q
    <2> QED BY <2>1, <2>2 DEF Expected
  <1> QED BY <1>18, <1>19, <1>20

\* What bm accepts of a package made by artifact has every file of it, through every
\* link, with its contents rewritten, and programs in the place of their wrappers: if
\* the package is Anchored, Paired and Wrapped.  That is a premise of Delivered, about
\* which links and wrappers there are; for others the formula says nothing.
THEOREM PackagesAreDelivered == DSpec => []Delivered
  <1> DEFINE I == Inv /\ StoreInv /\ VerbatimInv /\ ArchiveInv /\ MeansInv
  <1>1. DInit => I
    <2> SUFFICES ASSUME DInit PROVE I
      OBVIOUS
    <2>1. VerbatimInv
      BY NothingUnpacked DEF DInit, B!ExtractInit, VerbatimInv
    <2> QED BY <2>1, DInitInv, StoreInit, ArchiveInit, MeansFirst
  <1>2. I /\ [DNext]_all => I'
    <2> SUFFICES ASSUME I, [DNext]_all PROVE I'
      OBVIOUS
    <2>1. Inv' /\ VerbatimInv'
      BY DNextInv, VerbatimStep
    <2>2. CASE Build
      <3>1. Next /\ BuildInv
        BY <2>2 DEF Build, Inv
      <3> QED BY <2>1, <3>1, StoreStep, ArchiveStep, MeansNext
    <2>3. CASE UNCHANGED vars
      <3>1. disk' = disk /\ pass' = pass /\ todo' = todo /\ tar' = tar
        BY <2>3 DEF vars
      <3>2. StoreInv'
        BY <3>1 DEF StoreInv, StoreOK, Stored, Resolves, OutInv
      <3>3. ArchiveInv'
        BY <3>1 DEF ArchiveInv, Listed
      <3>4. MeansInv'
        BY <3>1 DEF MeansInv
      <3> QED BY <2>1, <3>2, <3>3, <3>4
    <2> QED BY <2>2, <2>3 DEF DNext, Install, all, vars
  <1>3. I => Delivered
    <2> SUFFICES ASSUME I, bm = "accepted", Regular(disk), NEW p \in Paths \ {<<>>}, Wanted(Left, p)
                 PROVE  Resolves(pkg, p) /\ pkg[Eval(pkg, p).at] = File(Expected(Left, p))
      BY DEF Delivered, Regular
    <2>1. p \in Seq(In)
      BY DEF Paths, In
    <2>2. disk # <<>>
      <3>1. ASSUME disk = <<>> PROVE Paths = {}
        <4>1. DOMAIN disk = {}
          BY <3>1, EmptyTree
        <4> QED BY <4>1 DEF Paths
      <3> QED BY <3>1
    <2> QED BY <2>1, <2>2, DeliveredIs
  <1> HIDE DEF I
  <1> QED BY <1>1, <1>2, <1>3, PTL DEF DSpec
=============================================================================
