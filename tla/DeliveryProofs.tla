--------------------------- MODULE DeliveryProofs ---------------------------
(***************************************************************************)
(* Proofs about Delivery, for every store, every archive and every bound on *)
(* the resolution of a path: the copy of a package is bounded, what         *)
(* artifact builds is self-contained, and what bm accepts is closed and is  *)
(* what the archive says.                                                  *)
(*                                                                         *)
(* All of it rests on facts about one resolution, a walk: it never leaves   *)
(* the tree it is in, it stays on the path while that leads through         *)
(* directories, and to remove a link that leads nowhere changes no walk     *)
(* that arrives.  A walk is a recursive function, so these facts are proved *)
(* by induction over the steps: the set of the numbers for which one holds  *)
(* has 0 and the successor of each of its elements (Induction).             *)
(***************************************************************************)
EXTENDS Delivery, TLAPS, WellFoundedInduction, SequenceTheorems, FiniteSetTheorems

LEMMA Least ==
    ASSUME NEW I \in SUBSET Nat, I # {}
    PROVE  \E x \in I : \A y \in I : x <= y
  <1> DEFINE R == {ss \in Nat \X Nat : ss[1] < ss[2]}
  <1>1. IsWellFoundedOn(R, Nat)
    BY NatLessThanWellFounded DEF OpToRel
  <1>2. PICK x \in I : \A y \in I : ~ (<<y, x>> \in R)
    <2> HIDE DEF R
    <2> QED BY <1>1, WFMin
  <1>3. \A y \in I : ~ (y < x)
    BY <1>2
  <1> QED BY <1>3

LEMMA Induction ==
    ASSUME NEW I \in SUBSET Nat, 0 \in I, \A n \in I : n + 1 \in I
    PROVE  I = Nat
  <1> SUFFICES ASSUME Nat \ I # {} PROVE FALSE
    OBVIOUS
  <1>1. PICK x \in Nat \ I : \A y \in Nat \ I : x <= y
    BY Least
  <1>2. x # 0
    OBVIOUS
  <1>3. x - 1 \in I
    BY <1>1, <1>2
  <1>4. (x - 1) + 1 = x
    BY <1>1
  <1> QED BY <1>1, <1>3, <1>4

\* Up to a bound.
LEMMA InductionTo ==
    ASSUME NEW m \in Nat, NEW I, 0 \in I,
           \A n \in 0..m : n \in I /\ n < m => n + 1 \in I
    PROVE  \A n \in 0..m : n \in I
  <1> DEFINE J == {n \in Nat : n <= m => n \in I}
  <1>1. 0 \in J
    OBVIOUS
  <1>2. \A n \in J : n + 1 \in J
    OBVIOUS
  <1>3. J = Nat
    <2> HIDE DEF J
    <2>1. J \in SUBSET Nat
      BY DEF J
    <2> QED BY <1>1, <1>2, <2>1, Induction
  <1> QED BY <1>3

-----------------------------------------------------------------------------
\* Paths.

LEMMA AppendPath ==
    ASSUME NEW S, NEW p \in Seq(S), NEW x \in S
    PROVE  /\ Append(p, x) \in Seq(S) /\ Append(p, x) # <<>>
           /\ Len(Append(p, x)) = Len(p) + 1
           /\ Front(Append(p, x)) = p
           /\ Last(Append(p, x)) = x
           /\ Append(p, x)[1] = IF p = <<>> THEN x ELSE p[1]
  <1>1. /\ Append(p, x) \in Seq(S) /\ Append(p, x) # <<>>
        /\ Len(Append(p, x)) = Len(p) + 1
        /\ \A i \in 1..Len(p) : Append(p, x)[i] = p[i]
        /\ Append(p, x)[Len(p) + 1] = x
    BY AppendProperties
  <1>2. Len(p) \in Nat
    OBVIOUS
  <1>3. Front(Append(p, x)) = SubSeq(Append(p, x), 1, Len(p))
    BY <1>1, <1>2 DEF Front
  <1>4. \A i \in 1..Len(p) : Append(p, x)[i] \in S
    BY <1>1, ElementOfSeq
  <1>5. /\ SubSeq(Append(p, x), 1, Len(p)) \in Seq(S)
        /\ Len(SubSeq(Append(p, x), 1, Len(p))) = Len(p)
        /\ \A i \in 1..Len(p) : SubSeq(Append(p, x), 1, Len(p))[i] = Append(p, x)[i]
    BY <1>2, <1>4, SubSeqProperties, SMTT(30)
  <1>6. SubSeq(Append(p, x), 1, Len(p)) = p
    BY <1>1, <1>5, SeqEqual
  <1>7. p = <<>> <=> Len(p) = 0
    BY EmptySeq
  <1> QED BY <1>1, <1>2, <1>3, <1>6, <1>7 DEF Last

LEMMA FrontPath ==
    ASSUME NEW S, NEW p \in Seq(S), p # <<>>
    PROVE  /\ Front(p) \in Seq(S)
           /\ Last(p) \in S
           /\ p = Append(Front(p), Last(p))
           /\ Len(p) = Len(Front(p)) + 1
           /\ p[1] = IF Front(p) = <<>> THEN Last(p) ELSE Front(p)[1]
  <1>1. PICK s \in Seq(S), x \in S : p = Append(s, x)
    BY SequenceEmptyOrAppend
  <1> QED BY <1>1, AppendPath

LEMMA HeadTailPath ==
    ASSUME NEW S, NEW p \in Seq(S), p # <<>>
    PROVE  /\ Head(p) \in S /\ Head(p) = p[1]
           /\ Tail(p) \in Seq(S)
           /\ Len(p) = Len(Tail(p)) + 1
           /\ p = <<Head(p)>> \o Tail(p)
  <1>1. Len(p) \in Nat \ {0}
    BY EmptySeq
  <1>2. /\ Head(p) \in S /\ Tail(p) \in Seq(S) /\ Len(Tail(p)) = Len(p) - 1
        /\ \A i \in 1..Len(Tail(p)) : Tail(p)[i] = p[i + 1]
    BY HeadTailProperties
  <1>3. Head(p) = p[1]
    BY <1>1
  <1>4. SubSeq(p, 1, Len(p)) = <<p[1]>> \o SubSeq(p, 2, Len(p))
    BY <1>1, SubSeqRecursiveFirst
  <1>5. p = <<p[1]>> \o Tail(p)
    BY <1>4, SubSeqFull, TailIsSubSeq
  <1> QED BY <1>1, <1>2, <1>3, <1>5

\* p is a prefix of q if they agree as far as p goes.
LEMMA PrefixIs ==
    ASSUME NEW S, NEW p \in Seq(S), NEW q \in Seq(S)
    PROVE  IsPrefix(p, q) <=> Len(p) <= Len(q) /\ \A i \in 1..Len(p) : p[i] = q[i]
  <1>1. SubSeq(p, 1, Len(p)) = p
    BY SubSeqFull
  <1>2. ASSUME Len(p) <= Len(q)
        PROVE  SubSeq(q, 1, Len(p)) = p <=> \A i \in 1..Len(p) : p[i] = q[i]
    <2>1. Len(p) \in Nat /\ Len(q) \in Nat
      OBVIOUS
    <2>2. \A i \in 1..Len(p) : q[i] \in S
      BY <1>2, <2>1, ElementOfSeq
    <2>3. /\ SubSeq(q, 1, Len(p)) \in Seq(S)
          /\ Len(SubSeq(q, 1, Len(p))) = Len(p)
          /\ \A i \in 1..Len(p) : SubSeq(q, 1, Len(p))[i] = q[i]
      BY <2>1, <2>2, SubSeqProperties, SMTT(30)
    <2>4. ASSUME \A i \in 1..Len(p) : p[i] = q[i]
          PROVE  SubSeq(q, 1, Len(p)) = p
      BY <2>3, <2>4, SeqEqual
    <2> QED BY <2>3, <2>4
  <1> QED BY <1>1, <1>2 DEF IsPrefix

LEMMA PrefixOfAppend ==
    ASSUME NEW S, NEW p \in Seq(S), NEW q \in Seq(S), q # <<>>
    PROVE  IsPrefix(p, q) <=> p = q \/ IsPrefix(p, Front(q))
  <1>1. /\ Front(q) \in Seq(S) /\ Len(q) = Len(Front(q)) + 1
        /\ Len(q) \in Nat /\ Len(p) \in Nat /\ Len(Front(q)) \in Nat
    BY FrontPath, LenProperties
  <1>2. \A i \in 1..Len(Front(q)) : Front(q)[i] = q[i]
    <2>1. q = Append(Front(q), Last(q)) /\ Last(q) \in S
      BY FrontPath
    <2> QED BY <1>1, <2>1, AppendProperties
  <1>3. IsPrefix(q, q)
    BY PrefixIs
  <1>4. ASSUME IsPrefix(p, q), Len(p) = Len(q)
        PROVE  p = q
    BY <1>4, PrefixIs, SeqEqual
  <1>5. ASSUME Len(p) <= Len(Front(q))
        PROVE  IsPrefix(p, q) <=> IsPrefix(p, Front(q))
    <2>1. \A i \in 1..Len(p) : Front(q)[i] = q[i]
      BY <1>1, <1>2, <1>5
    <2> QED BY <1>1, <1>5, <2>1, PrefixIs
  <1>6. IsPrefix(p, q) => Len(p) <= Len(q)
    BY PrefixIs
  <1>7. IsPrefix(p, Front(q)) => Len(p) <= Len(Front(q))
    BY <1>1, PrefixIs
  <1> QED BY <1>1, <1>3, <1>4, <1>5, <1>6, <1>7

-----------------------------------------------------------------------------
\* Walks: the steps of a resolution, one after the other.

Start(p) == [at |-> <<>>, rest |-> p, st |-> "walk"]
IsWalk(tree, p, w) == /\ DOMAIN w = 0..MaxWalk
                      /\ w[0] = Start(p)
                      /\ \A i \in 1..MaxWalk : w[i] = Step(tree, w[i - 1])
Ends(w) == [st |-> IF w[MaxWalk].st = "walk" THEN "loop" ELSE w[MaxWalk].st,
            at |-> w[MaxWalk].at]

LEMMA EvalIs ==
    ASSUME NEW tree, NEW p
    PROVE  \E w : IsWalk(tree, p, w) /\ Eval(tree, p) = Ends(w)
  <1> DEFINE Def(r, i) == IF i = 0 THEN {Start(p)} ELSE {Step(tree, x) : x \in r[i - 1]}
             Good(f, n) == f = [i \in 0..n |-> Def(f, i)]
  <1>0. MaxWalk \in Nat
    BY TreeAssumption
  <1>1. \A n \in Nat : \E f : Good(f, n)
    <2> DEFINE I == {n \in Nat : \E f : Good(f, n)}
    <2>1. 0 \in I
      <3>1. Good([i \in 0..0 |-> {Start(p)}], 0)
        OBVIOUS
      <3> HIDE DEF Good
      <3> QED BY <3>1
    <2>2. ASSUME NEW n \in I PROVE n + 1 \in I
      <3>1. PICK f : Good(f, n)
        OBVIOUS
      <3> DEFINE g == [i \in 0..(n + 1) |-> Def(f, i)]
      <3>2. \A i \in 0..n : g[i] = f[i]
        <4> HIDE DEF Def
        <4>1. \A i \in 0..n : f[i] = [j \in 0..n |-> Def(f, j)][i]
          BY <3>1, Zenon
        <4> QED BY <4>1
      <3>3. ASSUME NEW i \in 0..(n + 1) PROVE Def(g, i) = Def(f, i)
        <4>1. CASE i = 0
          BY <4>1
        <4>2. CASE i # 0
          <5>1. i - 1 \in 0..n
            BY <4>2
          <5>2. g[i - 1] = f[i - 1]
            BY <3>2, <5>1
          <5> HIDE DEF g
          <5> QED BY <5>2
        <4> QED BY <4>1, <4>2
      <3>4. g = [i \in 0..(n + 1) |-> Def(g, i)]
        <4> HIDE DEF Def
        <4> QED BY <3>3
      <3> HIDE DEF g
      <3> QED BY <3>4
    <2> HIDE DEF I
    <2>3. I = Nat
      BY <2>1, <2>2, Induction DEF I
    <2> QED BY <2>3 DEF I
  <1> DEFINE result == CHOOSE f : Good(f, MaxWalk)
             end == CHOOSE r \in result[MaxWalk] : TRUE
  <1>2. Good(result, MaxWalk)
    BY <1>0, <1>1, Zenon
  <1>3. Eval(tree, p) = [st |-> IF end.st = "walk" THEN "loop" ELSE end.st, at |-> end.at]
    BY Zenon DEF Eval, Iterate, Start
  <1>4. \A i \in 0..MaxWalk : result[i] = Def(result, i)
    <2> HIDE DEF Def, result
    <2>1. \A i \in 0..MaxWalk : result[i] = [j \in 0..MaxWalk |-> Def(result, j)][i]
      BY <1>2, Zenon
    <2> QED BY <2>1
  <1> HIDE DEF result
  <1>5. result[0] = {Start(p)}
    <2>1. 0 \in 0..MaxWalk
      BY <1>0
    <2>2. result[0] = Def(result, 0)
      BY <1>4, <2>1
    <2> QED BY <2>2
  <1>6. ASSUME NEW i \in 1..MaxWalk
        PROVE  i \in 0..MaxWalk /\ i - 1 \in 0..MaxWalk /\ result[i] = {Step(tree, x) : x \in result[i - 1]}
    <2>1. i \in 0..MaxWalk /\ i - 1 \in 0..MaxWalk /\ i # 0
      BY <1>0
    <2>2. result[i] = Def(result, i)
      BY <1>4, <2>1
    <2> QED BY <2>1, <2>2
  <1> HIDE DEF Good, Def
  <1>7. \A i \in 0..MaxWalk : \E x : result[i] = {x}
    <2> DEFINE I == {n \in 0..MaxWalk : \E x : result[n] = {x}}
    <2>1. 0 \in I
      BY <1>0, <1>5
    <2>2. ASSUME NEW n \in 0..MaxWalk, n \in I, n < MaxWalk PROVE n + 1 \in I
      <3>1. PICK x : result[n] = {x}
        BY <2>2
      <3>2. n + 1 \in 1..MaxWalk /\ (n + 1) - 1 = n /\ n + 1 \in 0..MaxWalk
        BY <1>0, <2>2
      <3>3. result[n + 1] = {Step(tree, y) : y \in result[n]}
        BY <1>6, <3>2
      <3>4. result[n + 1] = {Step(tree, x)}
        BY <3>1, <3>3
      <3> QED BY <3>2, <3>4
    <2> HIDE DEF I
    <2>3. \A n \in 0..MaxWalk : n \in I
      BY <1>0, <2>1, <2>2, InductionTo
    <2> QED BY <2>3 DEF I
  <1> DEFINE w == [i \in 0..MaxWalk |-> CHOOSE x \in result[i] : TRUE]
  <1>8. \A i \in 0..MaxWalk : result[i] = {w[i]}
    BY <1>7
  <1>9. DOMAIN w = 0..MaxWalk /\ w[MaxWalk] = end
    BY <1>0
  <1> HIDE DEF w, end
  <1>10. w[0] = Start(p)
    <2>1. result[0] = {w[0]}
      BY <1>0, <1>8
    <2> QED BY <1>5, <2>1
  <1>11. ASSUME NEW i \in 1..MaxWalk PROVE w[i] = Step(tree, w[i - 1])
    <2>1. result[i - 1] = {w[i - 1]} /\ result[i] = {w[i]}
      BY <1>6, <1>8
    <2>2. result[i] = {Step(tree, x) : x \in result[i - 1]}
      BY <1>6
    <2> QED BY <2>1, <2>2
  <1>12. IsWalk(tree, p, w)
    BY <1>9, <1>10, <1>11 DEF IsWalk
  <1> QED BY <1>3, <1>9, <1>12 DEF Ends

Up == Name \cup {".."}
\* Where a walk may be: at the root, or at something that is no link.
Places(tree) == {a \in Seq(Name) : a = <<>> \/ (a \in DOMAIN tree /\ tree[a].t # "link")}
Sts == {"walk", "ok", "absent", "notdir", "escape"}
State(tree) == [at : Places(tree), rest : Seq(Up), st : Sts]

LEMMA TreeNode ==
    ASSUME NEW tree, IsTree(tree), NEW p \in DOMAIN tree
    PROVE  /\ p \in Seq(Name) /\ p # <<>>
           /\ IsNode(tree[p]) /\ Is("dir", tree, Front(p))
           /\ tree[p].t \in {"dir", "file", "link"}
           /\ tree[p].t = "link" => tree[p].abs \in BOOLEAN /\ tree[p].to \in Seq(Up)
           /\ tree[p].t = "dir" => tree[p] = Dir
  BY DEF IsTree, IsNode, Dir, Up

\* What is in a directory is a place.
LEMMA DirPlace ==
    ASSUME NEW tree, IsTree(tree), NEW p \in Seq(Name), Is("dir", tree, p)
    PROVE  p \in Places(tree)
  BY DEF Is, Exists, Node, Places

LEMMA StepState ==
    ASSUME NEW tree, IsTree(tree), NEW w \in State(tree)
    PROVE  Step(tree, w) \in State(tree)
  <1>1. w.at \in Seq(Name) /\ w.at \in Places(tree) /\ w.rest \in Seq(Up) /\ w.st \in Sts
    BY DEF State, Places
  <1>2. w = [at |-> w.at, rest |-> w.rest, st |-> w.st]
    BY DEF State
  <1>3. CASE w.st # "walk" \/ w.rest = <<>> \/ ~Is("dir", tree, w.at)
    <2>1. Step(tree, w) \in {w, [w EXCEPT !.st = "ok"], [w EXCEPT !.st = "notdir"]}
      BY <1>3, Zenon DEF Step
    <2> QED BY <1>1, <1>2, <2>1 DEF State, Sts
  <1>4. CASE w.st = "walk" /\ w.rest # <<>> /\ Is("dir", tree, w.at)
    <2> DEFINE next == Append(w.at, Head(w.rest))
    <2>0. Head(w.rest) \in Up /\ Tail(w.rest) \in Seq(Up)
      BY <1>1, <1>4, HeadTailPath
    <2>1. CASE Head(w.rest) = ".." /\ w.at = <<>>
      <3>1. Step(tree, w) = [w EXCEPT !.st = "escape"]
        BY <1>4, <2>1, Zenon DEF Step
      <3> QED BY <1>1, <1>2, <3>1 DEF State, Sts
    <2>2. CASE Head(w.rest) = ".." /\ w.at # <<>>
      <3>1. Step(tree, w) = [w EXCEPT !.at = Front(w.at), !.rest = Tail(w.rest)]
        BY <1>4, <2>2, Zenon DEF Step
      <3>2. w.at \in DOMAIN tree
        BY <1>1, <2>2 DEF Places
      <3>3. Front(w.at) \in Seq(Name)
        BY <1>1, <2>2, FrontPath
      <3>4. Front(w.at) \in Places(tree)
        BY <3>2, <3>3, TreeNode, DirPlace
      <3> QED BY <1>1, <1>2, <2>0, <3>1, <3>4 DEF State
    <2>3. CASE Head(w.rest) # ".." /\ next \notin DOMAIN tree
      <3>1. Step(tree, w) = [w EXCEPT !.st = "absent"]
        BY <1>4, <2>3, Zenon DEF Step
      <3> QED BY <1>1, <1>2, <3>1 DEF State, Sts
    <2>4. CASE Head(w.rest) # ".." /\ next \in DOMAIN tree /\ tree[next].t # "link"
      <3>1. Step(tree, w) = [w EXCEPT !.at = next, !.rest = Tail(w.rest)]
        BY <1>4, <2>4, Zenon DEF Step
      <3>2. next \in Places(tree)
        BY <2>4, TreeNode DEF Places
      <3> HIDE DEF next
      <3> QED BY <1>1, <1>2, <2>0, <3>1, <3>2 DEF State
    <2>5. CASE Head(w.rest) # ".." /\ next \in DOMAIN tree /\ tree[next].t = "link"
      <3> DEFINE to == tree[next].to \o Tail(w.rest)
                 at == IF tree[next].abs THEN <<>> ELSE w.at
      <3>1. Step(tree, w) = [w EXCEPT !.at = at, !.rest = to]
        BY <1>4, <2>5 DEF Step
      <3>2. to \in Seq(Up)
        BY <2>0, <2>5, TreeNode, ConcatProperties
      <3>3. at \in Places(tree)
        BY <1>1, EmptySeq DEF Places
      <3> HIDE DEF to, at, next
      <3> QED BY <1>1, <1>2, <3>1, <3>2, <3>3 DEF State
    <2> QED BY <2>1, <2>2, <2>3, <2>4, <2>5
  <1> QED BY <1>1, <1>3, <1>4

LEMMA WalkState ==
    ASSUME NEW tree, IsTree(tree), NEW p \in Seq(Up), NEW w, IsWalk(tree, p, w)
    PROVE  \A i \in 0..MaxWalk : w[i] \in State(tree)
  <1>0. MaxWalk \in Nat
    BY TreeAssumption
  <1> DEFINE I == {n \in 0..MaxWalk : w[n] \in State(tree)}
  <1>1. 0 \in I
    <2>1. <<>> \in Places(tree)
      BY EmptySeq DEF Places
    <2> QED BY <1>0, <2>1 DEF IsWalk, Start, State, Sts
  <1>2. ASSUME NEW n \in 0..MaxWalk, n \in I, n < MaxWalk PROVE n + 1 \in I
    <2>1. n + 1 \in 1..MaxWalk /\ (n + 1) - 1 = n /\ n + 1 \in 0..MaxWalk
      BY <1>0, <1>2
    <2>2. w[n + 1] = Step(tree, w[n])
      BY <2>1 DEF IsWalk
    <2> QED BY <1>2, <2>1, <2>2, StepState
  <1> HIDE DEF I
  <1>3. \A n \in 0..MaxWalk : n \in I
    BY <1>0, <1>1, <1>2, InductionTo
  <1> QED BY <1>3 DEF I

\* A resolution ends at a place, however it ends.
LEMMA EvalPlace ==
    ASSUME NEW tree, IsTree(tree), NEW p \in Seq(Up)
    PROVE  Eval(tree, p).at \in Places(tree)
  <1>0. MaxWalk \in 0..MaxWalk
    BY TreeAssumption
  <1>1. PICK w : IsWalk(tree, p, w) /\ Eval(tree, p) = Ends(w)
    BY EvalIs
  <1>2. w[MaxWalk] \in State(tree)
    BY <1>0, <1>1, WalkState
  <1> QED BY <1>1, <1>2 DEF Ends, State

-----------------------------------------------------------------------------
\* What the operations on trees preserve.

LEMMA TreeWith ==
    ASSUME NEW tree, IsTree(tree), NEW p \in Seq(Name), p # <<>>, Is("dir", tree, Front(p)),
           NEW n, IsNode(n), n = Dir \/ \A q \in DOMAIN tree : Front(q) # p
    PROVE  IsTree(With(tree, p, n))
  <1> DEFINE new == With(tree, p, n)
  <1>1. DOMAIN new = DOMAIN tree \cup {p}
    BY DEF With
  <1>2. \A q \in DOMAIN new : new[q] = IF q = p THEN n ELSE tree[q]
    BY DEF With
  <1> HIDE DEF new
  <1>3. Front(p) \in Seq(Name) /\ Front(p) # p
    BY FrontPath
  <1>4. ASSUME NEW q \in DOMAIN new
        PROVE  /\ q \in Seq(Name) /\ q # <<>>
               /\ IsNode(new[q])
               /\ Is("dir", new, Front(q))
    <2>1. q \in Seq(Name) /\ q # <<>> /\ IsNode(new[q])
      BY <1>1, <1>2, <1>4, TreeNode
    <2> SUFFICES Is("dir", new, Front(q))
      BY <2>1
    <2>2. q \in DOMAIN tree => Is("dir", tree, Front(q))
      BY TreeNode
    <2>3. CASE Front(q) # p
      <3>1. Is("dir", tree, Front(q))
        BY <1>1, <1>4, <2>2
      <3> QED BY <1>1, <1>2, <2>3, <3>1 DEF Is, Exists, Node
    <2>4. CASE Front(q) = p
      <3>1. q # p
        BY <1>3, <2>4
      <3>2. q \in DOMAIN tree
        BY <1>1, <3>1
      <3>3. n = Dir
        BY <2>4, <3>2
      <3> QED BY <1>1, <1>2, <2>4, <3>3 DEF Is, Exists, Node, Dir
    <2> QED BY <2>1, <2>3, <2>4
  <1> QED BY <1>4 DEF IsTree, new

LEMMA TreeWithout ==
    ASSUME NEW tree, IsTree(tree), NEW P,
           \A q \in DOMAIN tree : Front(q) \in P => q \in P
    PROVE  IsTree(Without(tree, P))
  <1> DEFINE new == Without(tree, P)
  <1>1. DOMAIN new = DOMAIN tree \ P
    BY DEF Without
  <1>2. \A q \in DOMAIN new : new[q] = tree[q]
    BY DEF Without
  <1> HIDE DEF new
  <1>3. ASSUME NEW q \in DOMAIN new
        PROVE  /\ q \in Seq(Name) /\ q # <<>>
               /\ IsNode(new[q])
               /\ Is("dir", new, Front(q))
    <2>1. /\ q \in Seq(Name) /\ q # <<>> /\ IsNode(tree[q])
          /\ Is("dir", tree, Front(q)) /\ q \notin P
      BY <1>1, <1>3, TreeNode
    <2>2. Front(q) \notin P
      BY <1>1, <1>3, <2>1
    <2> QED BY <1>1, <1>2, <2>1, <2>2 DEF Is, Exists, Node
  <1> QED BY <1>3 DEF IsTree, new

\* What is no directory has no entries.
LEMMA NoEntries ==
    ASSUME NEW tree, IsTree(tree), NEW p \in DOMAIN tree, tree[p].t # "dir"
    PROVE  \A q \in DOMAIN tree : Front(q) # p
  BY TreeNode DEF Is, Exists, Node, Dir

-----------------------------------------------------------------------------
\* bm resolves paths as artifact does.

LEMMA SameEval == ASSUME NEW tree, NEW p PROVE B!Eval(tree, p) = Eval(tree, p)
  BY Zenon DEF Eval, Iterate, Step, Is, Exists, Node, Dir, Front,
               B!Eval, B!Iterate, B!Step, B!Is, B!Exists, B!Node, B!Dir, B!Front

LEMMA SameOperators ==
    ASSUME NEW tree, NEW p
    PROVE  /\ B!Resolves(tree, p) = Resolves(tree, p)
           /\ B!Real(tree, p) = Real(tree, p)
           /\ B!Reaches(tree, p) = Reaches(tree, p)
           /\ B!Exists(tree, p) = Exists(tree, p)
           /\ B!Node(tree, p) = Node(tree, p)
           /\ B!Entries(tree, p) = Entries(tree, p)
           /\ B!Without(tree, p) = Without(tree, p)
           /\ \A t : B!Is(t, tree, p) = Is(t, tree, p)
           /\ \A n : B!With(tree, p, n) = With(tree, p, n)
           /\ B!Dir = Dir
  <1>1. B!Dir = Dir
    BY DEF Dir, B!Dir
  <1>2. B!Exists(tree, p) = Exists(tree, p) /\ B!Node(tree, p) = Node(tree, p)
    BY <1>1 DEF Exists, Node, B!Exists, B!Node
  <1>3. \A q, t : B!Is(t, tree, q) = Is(t, tree, q)
    BY <1>1 DEF Exists, Node, B!Exists, B!Node, Is, B!Is
  <1>4. B!Resolves(tree, p) = Resolves(tree, p) /\ B!Real(tree, p) = Real(tree, p)
    BY SameEval DEF Resolves, Real, B!Resolves, B!Real, Front, Last, B!Front, B!Last
  <1>5. B!Reaches(tree, p) = Reaches(tree, p)
    BY <1>3, SameEval DEF Reaches, B!Reaches, Front, B!Front
  <1>6. B!Entries(tree, p) = Entries(tree, p) /\ B!Without(tree, p) = Without(tree, p)
    BY DEF Entries, Without, B!Entries, B!Without, Front, B!Front
  <1>7. \A n : B!With(tree, p, n) = With(tree, p, n)
    BY DEF With, B!With
  <1> QED BY <1>1, <1>2, <1>3, <1>4, <1>5, <1>6, <1>7

-----------------------------------------------------------------------------
\* root.MkdirAll: the tree grows by directories.

Grown(old, new) == /\ DOMAIN old \subseteq DOMAIN new
                   /\ \A q \in DOMAIN new : new[q] = IF q \in DOMAIN old THEN old[q] ELSE Dir

IsMaking(tree, dir, m) == /\ DOMAIN m = 0..Len(dir)
                          /\ m[0] = [ok |-> TRUE, tree |-> tree]
                          /\ \A i \in 1..Len(dir) : m[i] = B!Mkdir(m[i - 1], SubSeq(dir, 1, i))

LEMMA MkdirAllIs ==
    ASSUME NEW tree, NEW dir, Len(dir) \in Nat
    PROVE  \E m : IsMaking(tree, dir, m) /\ B!MkdirAll(tree, dir) = m[Len(dir)]
  <1> DEFINE s == [ok |-> TRUE, tree |-> tree]
             Op(x, i) == B!Mkdir(x, SubSeq(dir, 1, i))
             Def(r, i) == IF i = 0 THEN {s} ELSE {Op(x, i) : x \in r[i - 1]}
             Good(f, n) == f = [i \in 0..n |-> Def(f, i)]
  <1>1. \A n \in Nat : \E f : Good(f, n)
    <2> HIDE DEF Op, s
    <2> DEFINE I == {n \in Nat : \E f : Good(f, n)}
    <2>1. 0 \in I
      <3>1. Good([i \in 0..0 |-> {s}], 0)
        OBVIOUS
      <3> HIDE DEF Good
      <3> QED BY <3>1
    <2>2. ASSUME NEW n \in I PROVE n + 1 \in I
      <3>1. PICK f : Good(f, n)
        OBVIOUS
      <3> DEFINE g == [i \in 0..(n + 1) |-> Def(f, i)]
      <3>2. \A i \in 0..n : g[i] = f[i]
        <4> HIDE DEF Def
        <4>1. \A i \in 0..n : f[i] = [j \in 0..n |-> Def(f, j)][i]
          BY <3>1, Zenon
        <4> QED BY <4>1
      <3>3. ASSUME NEW i \in 0..(n + 1) PROVE Def(g, i) = Def(f, i)
        <4>1. CASE i = 0
          BY <4>1
        <4>2. CASE i # 0
          <5>1. i - 1 \in 0..n
            BY <4>2
          <5>2. g[i - 1] = f[i - 1]
            BY <3>2, <5>1
          <5> HIDE DEF g
          <5> QED BY <5>2
        <4> QED BY <4>1, <4>2
      <3>4. g = [i \in 0..(n + 1) |-> Def(g, i)]
        <4> HIDE DEF Def
        <4> QED BY <3>3
      <3>5. Good(g, n + 1)
        BY <3>4
      <3> HIDE DEF g, Good
      <3> QED BY <3>5
    <2> HIDE DEF I
    <2>3. I = Nat
      BY <2>1, <2>2, Induction DEF I
    <2> QED BY <2>3 DEF I
  <1> DEFINE result == CHOOSE f : Good(f, Len(dir))
             end == CHOOSE r \in result[Len(dir)] : TRUE
  <1>2. Good(result, Len(dir))
    BY <1>1, Zenon
  <1>3. B!MkdirAll(tree, dir) = end
    BY Zenon DEF B!MkdirAll, B!Iterate
  <1>4. \A i \in 0..Len(dir) : result[i] = Def(result, i)
    <2> HIDE DEF Def, result
    <2>1. \A i \in 0..Len(dir) : result[i] = [j \in 0..Len(dir) |-> Def(result, j)][i]
      BY <1>2, Zenon
    <2> QED BY <2>1
  <1> HIDE DEF result, Op, s
  <1>5. result[0] = {s}
    <2>1. 0 \in 0..Len(dir)
      OBVIOUS
    <2>2. result[0] = Def(result, 0)
      BY <1>4, <2>1
    <2> QED BY <2>2
  <1>6. ASSUME NEW i \in 1..Len(dir)
        PROVE  i \in 0..Len(dir) /\ i - 1 \in 0..Len(dir) /\ result[i] = {Op(x, i) : x \in result[i - 1]}
    <2>1. i \in 0..Len(dir) /\ i - 1 \in 0..Len(dir) /\ i # 0
      OBVIOUS
    <2>2. result[i] = Def(result, i)
      BY <1>4, <2>1
    <2> QED BY <2>1, <2>2
  <1> HIDE DEF Good, Def
  <1>7. \A i \in 0..Len(dir) : \E x : result[i] = {x}
    <2> DEFINE I == {n \in 0..Len(dir) : \E x : result[n] = {x}}
    <2>1. 0 \in I
      BY <1>5
    <2>2. ASSUME NEW n \in 0..Len(dir), n \in I, n < Len(dir) PROVE n + 1 \in I
      <3>1. PICK x : result[n] = {x}
        BY <2>2
      <3>2. n + 1 \in 1..Len(dir) /\ (n + 1) - 1 = n /\ n + 1 \in 0..Len(dir)
        BY <2>2
      <3>3. result[n + 1] = {Op(y, n + 1) : y \in result[n]}
        BY <1>6, <3>2
      <3>4. result[n + 1] = {Op(x, n + 1)}
        BY <3>1, <3>3
      <3>5. \E y : result[n + 1] = {y}
        BY <3>4
      <3> QED BY <3>2, <3>5
    <2> HIDE DEF I
    <2>3. \A n \in 0..Len(dir) : n \in I
      BY <2>1, <2>2, InductionTo
    <2> QED BY <2>3 DEF I
  <1> DEFINE m == [i \in 0..Len(dir) |-> CHOOSE x \in result[i] : TRUE]
  <1>8. \A i \in 0..Len(dir) : result[i] = {m[i]}
    BY <1>7
  <1>9. DOMAIN m = 0..Len(dir) /\ m[Len(dir)] = end
    OBVIOUS
  <1> HIDE DEF m, end
  <1>10. m[0] = s
    <2>1. result[0] = {m[0]}
      BY <1>8
    <2> QED BY <1>5, <2>1
  <1>11. ASSUME NEW i \in 1..Len(dir) PROVE m[i] = Op(m[i - 1], i)
    <2>1. result[i - 1] = {m[i - 1]} /\ result[i] = {m[i]}
      BY <1>6, <1>8
    <2>2. result[i] = {Op(x, i) : x \in result[i - 1]}
      BY <1>6
    <2> QED BY <2>1, <2>2
  <1>12. IsMaking(tree, dir, m)
    BY <1>9, <1>10, <1>11 DEF IsMaking, Op, s
  <1> QED BY <1>3, <1>9, <1>12

\* The directory a path reaches, and where the path is in it.
LEMMA ReachesPlace ==
    ASSUME NEW tree, IsTree(tree), NEW p \in Seq(Name), p # <<>>, Reaches(tree, p)
    PROVE  /\ Real(tree, p) \in Seq(Name) /\ Real(tree, p) # <<>>
           /\ Front(Real(tree, p)) = Eval(tree, Front(p)).at
           /\ Last(Real(tree, p)) = Last(p)
           /\ Is("dir", tree, Front(Real(tree, p)))
  <1>1. Front(p) \in Seq(Name) /\ Last(p) \in Name
    BY FrontPath
  <1>2. Front(p) \in Seq(Up)
    BY <1>1, SeqMonotonic DEF Up
  <1>3. Eval(tree, Front(p)).at \in Seq(Name)
    BY <1>2, EvalPlace DEF Places
  <1> QED BY <1>1, <1>3, AppendPath DEF Real, Reaches

LEMMA MkdirGrows ==
    ASSUME NEW tree, IsTree(tree), NEW ok \in BOOLEAN, NEW dir \in Seq(Name), dir # <<>>
    PROVE  LET made == B!Mkdir([ok |-> ok, tree |-> tree], dir)
           IN /\ made.ok \in BOOLEAN /\ made = [ok |-> made.ok, tree |-> made.tree]
              /\ IsTree(made.tree) /\ Grown(tree, made.tree)
  <1> DEFINE old == [ok |-> ok, tree |-> tree]
             made == B!Mkdir(old, dir)
             real == Real(tree, dir)
  <1>1. \/ \E b \in BOOLEAN : made = [ok |-> b, tree |-> tree]
        \/ /\ Reaches(tree, dir) /\ ~Exists(tree, real)
           /\ made = [ok |-> TRUE, tree |-> With(tree, real, Dir)]
    <2>0. old.ok = ok /\ old.tree = tree
      OBVIOUS
    <2>1. CASE ~ok
      <3>1. made = old
        BY <2>0, <2>1 DEF B!Mkdir
      <3> QED BY <3>1
    <2>2. CASE ok /\ Resolves(tree, dir)
      <3>1. made = [old EXCEPT !.ok = B!Is("dir", tree, B!Eval(tree, dir).at)]
        BY <2>0, <2>2, SameOperators, Zenon DEF B!Mkdir
      <3>2. B!Is("dir", tree, B!Eval(tree, dir).at) \in BOOLEAN
        BY DEF B!Is
      <3> HIDE DEF made
      <3> QED BY <3>1, <3>2
    <2>3. CASE ok /\ ~Resolves(tree, dir) /\ Reaches(tree, dir) /\ ~Exists(tree, real)
      <3>1. made = [old EXCEPT !.tree = B!With(tree, B!Real(tree, dir), B!Dir)]
        BY <2>0, <2>3, SameOperators, Zenon DEF B!Mkdir
      <3>2. made = [old EXCEPT !.tree = With(tree, real, Dir)]
        BY <3>1, SameOperators
      <3> HIDE DEF made, real
      <3> QED BY <2>3, <3>2
    <2>4. CASE ok /\ ~Resolves(tree, dir) /\ ~(Reaches(tree, dir) /\ ~Exists(tree, real))
      <3>1. made = [old EXCEPT !.ok = FALSE]
        BY <2>0, <2>4, SameOperators, Zenon DEF B!Mkdir
      <3> HIDE DEF made
      <3> QED BY <3>1
    <2> QED BY <2>1, <2>2, <2>3, <2>4
  <1> HIDE DEF made
  <1>2. Grown(tree, tree)
    BY DEF Grown
  <1>3. ASSUME Reaches(tree, dir), ~Exists(tree, real)
        PROVE  IsTree(With(tree, real, Dir)) /\ Grown(tree, With(tree, real, Dir))
    <2>1. IsTree(With(tree, real, Dir))
      BY <1>3, ReachesPlace, TreeWith DEF IsNode
    <2>2. Grown(tree, With(tree, real, Dir))
      BY <1>3 DEF Grown, With, Exists
    <2> QED BY <2>1, <2>2
  <1> HIDE DEF real
  <1>4. made.ok \in BOOLEAN /\ made = [ok |-> made.ok, tree |-> made.tree]
    <2>1. \E b \in BOOLEAN : \E t : made = [ok |-> b, tree |-> t]
      BY <1>1
    <2> QED BY <2>1
  <1>5. IsTree(made.tree) /\ Grown(tree, made.tree)
    BY <1>1, <1>2, <1>3
  <1> QED BY <1>4, <1>5 DEF made

LEMMA GrownTransitive ==
    ASSUME NEW t1, NEW t2, NEW t3, Grown(t1, t2), Grown(t2, t3)
    PROVE  Grown(t1, t3)
  BY DEF Grown

\* Level by level.
LEMMA MakingGrows ==
    ASSUME NEW tree, IsTree(tree), NEW dir \in Seq(Name), NEW m, IsMaking(tree, dir, m)
    PROVE  \A n \in 0..Len(dir) : /\ m[n].ok \in BOOLEAN /\ m[n] = [ok |-> m[n].ok, tree |-> m[n].tree]
                                  /\ IsTree(m[n].tree) /\ Grown(tree, m[n].tree)
  <1>0. Len(dir) \in Nat
    OBVIOUS
  <1> DEFINE Made(x) == /\ x.ok \in BOOLEAN /\ x = [ok |-> x.ok, tree |-> x.tree]
                        /\ IsTree(x.tree) /\ Grown(tree, x.tree)
             I == {n \in 0..Len(dir) : Made(m[n])}
  <1>2. 0 \in I
    <2>1. Grown(tree, tree)
      BY DEF Grown
    <2>2. m[0] = [ok |-> TRUE, tree |-> tree]
      BY DEF IsMaking
    <2>3. Made([ok |-> TRUE, tree |-> tree])
      BY <2>1
    <2> HIDE DEF Made
    <2> QED BY <2>2, <2>3
  <1>3. ASSUME NEW n \in 0..Len(dir), n \in I, n < Len(dir) PROVE n + 1 \in I
    <2>1. n + 1 \in 1..Len(dir) /\ (n + 1) - 1 = n /\ n + 1 \in 0..Len(dir)
      BY <1>3
    <2> DEFINE sub == SubSeq(dir, 1, n + 1)
    <2>2. sub \in Seq(Name) /\ sub # <<>>
      <3>1. \A i \in 1..(n + 1) : dir[i] \in Name
        BY <2>1, ElementOfSeq
      <3>2. sub \in Seq(Name) /\ Len(sub) = n + 1
        BY <2>1, <3>1, SubSeqProperties, SMTT(30)
      <3> QED BY <2>1, <3>2, EmptySeq
    <2>3. m[n + 1] = B!Mkdir(m[n], sub)
      BY <2>1 DEF IsMaking
    <2>4. Made(m[n])
      BY <1>3
    <2>5. m[n + 1] = B!Mkdir([ok |-> m[n].ok, tree |-> m[n].tree], sub)
      BY <2>3, <2>4
    <2> HIDE DEF sub
    <2>6. Made(m[n + 1])
      <3>1. /\ m[n + 1].ok \in BOOLEAN
            /\ m[n + 1] = [ok |-> m[n + 1].ok, tree |-> m[n + 1].tree]
            /\ IsTree(m[n + 1].tree)
            /\ Grown(m[n].tree, m[n + 1].tree)
        BY <2>2, <2>4, <2>5, MkdirGrows
      <3>2. Grown(tree, m[n + 1].tree)
        BY <2>4, <3>1, GrownTransitive
      <3> QED BY <3>1, <3>2
    <2> HIDE DEF Made
    <2> QED BY <2>1, <2>6
  <1> HIDE DEF I
  <1>4. \A n \in 0..Len(dir) : n \in I
    BY <1>0, <1>2, <1>3, InductionTo
  <1> QED BY <1>4 DEF I

LEMMA MkdirAllGrows ==
    ASSUME NEW tree, IsTree(tree), NEW dir \in Seq(Name)
    PROVE  LET made == B!MkdirAll(tree, dir)
           IN made.ok \in BOOLEAN /\ IsTree(made.tree) /\ Grown(tree, made.tree)
  <1>0. Len(dir) \in Nat /\ Len(dir) \in 0..Len(dir)
    OBVIOUS
  <1>1. PICK m : IsMaking(tree, dir, m) /\ B!MkdirAll(tree, dir) = m[Len(dir)]
    BY <1>0, MkdirAllIs
  <1>2. \A n \in 0..Len(dir) : m[n].ok \in BOOLEAN /\ IsTree(m[n].tree) /\ Grown(tree, m[n].tree)
    BY <1>1, MakingGrows
  <1> DEFINE made == m[Len(dir)]
  <1>3. made.ok \in BOOLEAN /\ IsTree(made.tree) /\ Grown(tree, made.tree)
    BY <1>0, <1>2
  <1>4. B!MkdirAll(tree, dir) = made
    BY <1>1
  <1> HIDE DEF made
  <1> QED BY <1>3, <1>4, Zenon

-----------------------------------------------------------------------------
\* What bm unpacks is a tree, and only files have inodes.

EntryOK(e) == \/ DOMAIN e = {"name", "node"} /\ e.name \in Seq(Name) /\ IsNode(e.node)
              \/ DOMAIN e = {"name", "hard"} /\ {e.name, e.hard} \subseteq Seq(Name)

FilesOnly(tree, inodes) == \A q \in DOMAIN inodes : q \in DOMAIN tree /\ tree[q].t = "file"

PkgInv == IsTree(pkg) /\ FilesOnly(pkg, inode)

\* An entry that is unpacked: its place, the tree with its directory, and its spot.
LEMMA UnpackIs ==
    ASSUME NEW e, EntryOK(e), IsTree(pkg), B!Unpack(e)
    PROVE  LET place == Tail(e.name)
               made == B!MkdirAll(pkg, Front(place))
               tree == made.tree
               spot == Real(tree, place)
           IN /\ e.name \in Seq(Name) /\ B!Rooted(e.name)
              /\ place \in Seq(Name) /\ place # <<>>
              /\ made.ok /\ Reaches(tree, place)
              /\ IsTree(tree) /\ Grown(pkg, tree)
              /\ spot \in Seq(Name) /\ spot # <<>> /\ Is("dir", tree, Front(spot))
              /\ B!Fits(e, tree, spot)
              /\ \/ B!ExtractDir(e, tree, spot) \/ B!ExtractFile(e, tree, spot)
                 \/ B!ExtractLink(e, tree, spot) \/ B!ExtractHardLink(e, tree, spot)
  <1> DEFINE place == Tail(e.name)
             made == B!MkdirAll(pkg, Front(place))
             tree == made.tree
             spot == Real(tree, place)
  <1>1. e.name \in Seq(Name) /\ B!Rooted(e.name) /\ place # <<>>
    BY DEF EntryOK, B!Unpack, B!Unpacks, B!Named, B!Place
  <1>2. place \in Seq(Name)
    BY <1>1, HeadTailPath DEF B!Rooted
  <1>3. Front(place) \in Seq(Name)
    BY <1>1, <1>2, FrontPath
  <1>4. /\ B!MkdirAll(pkg, B!Front(B!Place(e))) = made
        /\ B!Place(e) = place
    BY DEF B!Place, Front, B!Front
  <1>5. IsTree(tree) /\ Grown(pkg, tree)
    BY <1>3, MkdirAllGrows
  <1>6. /\ made.ok /\ B!Reaches(tree, place)
        /\ B!Fits(e, tree, B!Real(tree, place))
        /\ \/ B!ExtractDir(e, tree, B!Real(tree, place)) \/ B!ExtractFile(e, tree, B!Real(tree, place))
           \/ B!ExtractLink(e, tree, B!Real(tree, place)) \/ B!ExtractHardLink(e, tree, B!Real(tree, place))
    <2> HIDE DEF made, place
    <2> QED BY <1>4 DEF B!Unpack, B!Unpacks
  <1>7. B!Reaches(tree, place) = Reaches(tree, place) /\ B!Real(tree, place) = spot
    BY SameOperators
  <1> HIDE DEF made, place
  <1>8. spot \in Seq(Name) /\ spot # <<>> /\ Is("dir", tree, Front(spot))
    BY <1>1, <1>2, <1>5, <1>6, <1>7, ReachesPlace
  <1> HIDE DEF spot
  <1> QED BY <1>1, <1>2, <1>5, <1>6, <1>7, <1>8 DEF made, place, spot

LEMMA GrownFilesOnly ==
    ASSUME NEW old, NEW new, Grown(old, new), NEW inodes, FilesOnly(old, inodes)
    PROVE  FilesOnly(new, inodes)
  <1> SUFFICES ASSUME NEW q \in DOMAIN inodes PROVE q \in DOMAIN new /\ new[q].t = "file"
    BY DEF FilesOnly
  <1>1. q \in DOMAIN old /\ old[q].t = "file"
    BY DEF FilesOnly
  <1>2. q \in DOMAIN new /\ new[q] = old[q]
    BY <1>1 DEF Grown
  <1> QED BY <1>1, <1>2

LEMMA ExtractDirInv ==
    ASSUME NEW e, NEW tree, NEW spot, B!ExtractDir(e, tree, spot),
           IsTree(tree), FilesOnly(tree, inode), B!Place(e) \in Seq(Name)
    PROVE  PkgInv'
  <1>1. pkg' = B!MkdirAll(tree, B!Place(e)).tree /\ inode' = inode
    BY DEF B!ExtractDir, B!Took
  <1>2. IsTree(pkg') /\ Grown(tree, pkg')
    BY <1>1, MkdirAllGrows
  <1>3. FilesOnly(pkg', inode')
    BY <1>1, <1>2, GrownFilesOnly
  <1> QED BY <1>2, <1>3 DEF PkgInv

LEMMA ExtractFileInv ==
    ASSUME NEW e, NEW tree, NEW spot, B!ExtractFile(e, tree, spot), B!Fits(e, tree, spot), EntryOK(e),
           IsTree(tree), FilesOnly(tree, inode),
           spot \in Seq(Name), spot # <<>>, Is("dir", tree, Front(spot))
    PROVE  PkgInv'
  <1>1. e.node.t = "file" /\ IsNode(e.node)
    BY DEF B!ExtractFile, B!Kind, B!IsHard, EntryOK
  <1>2. CASE /\ ~Exists(tree, spot)
             /\ pkg' = With(tree, spot, e.node) /\ inode' = With(inode, spot, read + 1)
    <2>1. \A q \in DOMAIN tree : Front(q) # spot
      BY <1>2, TreeNode DEF Is, Exists
    <2>2. IsTree(pkg')
      BY <1>1, <1>2, <2>1, TreeWith
    <2>3. FilesOnly(pkg', inode')
      BY <1>1, <1>2 DEF FilesOnly, With
    <2> QED BY <2>2, <2>3 DEF PkgInv
  <1>3. CASE /\ Is("file", tree, spot) /\ inode' = inode
             /\ pkg' = [q \in DOMAIN tree |->
                          IF q \in DOMAIN inode /\ inode[q] = inode[spot] THEN e.node ELSE tree[q]]
    <2>1. /\ DOMAIN pkg' = DOMAIN tree
          /\ \A q \in DOMAIN tree : pkg'[q] = tree[q] \/ (pkg'[q] = e.node /\ tree[q].t = "file")
      BY <1>3 DEF FilesOnly
    <2>2. \A q \in DOMAIN tree : pkg'[q].t = tree[q].t /\ IsNode(pkg'[q])
      BY <1>1, <2>1, TreeNode
    <2>3. ASSUME NEW q \in DOMAIN tree
          PROVE  q \in Seq(Name) /\ q # <<>> /\ Is("dir", pkg', Front(q))
      BY <2>1, <2>2, TreeNode DEF Is, Exists, Node
    <2>4. IsTree(pkg')
      BY <2>1, <2>2, <2>3 DEF IsTree
    <2>5. FilesOnly(pkg', inode')
      BY <1>3, <2>1, <2>2 DEF FilesOnly
    <2> QED BY <2>4, <2>5 DEF PkgInv
  <1>4. ~Exists(tree, spot) \/ Is("file", tree, spot)
    <2>1. B!Kind(e) = "file"
      BY DEF B!ExtractFile
    <2>2. B!FileFits(tree, spot)
      BY <2>1 DEF B!Fits
    <2> QED BY <2>2, SameOperators DEF B!FileFits
  <1> QED BY <1>2, <1>3, <1>4, SameOperators DEF B!ExtractFile, B!Took

LEMMA ExtractLinkInv ==
    ASSUME NEW e, NEW tree, NEW spot, B!ExtractLink(e, tree, spot), B!Fits(e, tree, spot), EntryOK(e),
           IsTree(tree), FilesOnly(tree, inode),
           spot \in Seq(Name), spot # <<>>, Is("dir", tree, Front(spot))
    PROVE  PkgInv'
  <1>1. IsNode(e.node)
    BY DEF B!ExtractLink, B!Kind, B!IsHard, EntryOK
  <1>2. /\ Entries(tree, spot) = {}
        /\ pkg' = With(tree, spot, e.node) /\ inode' = Without(inode, {spot})
    <2>1. B!Entries(tree, spot) = {} /\ pkg' = B!With(tree, spot, e.node) /\ inode' = B!Without(inode, {spot})
      BY DEF B!ExtractLink, B!Took, B!Fits, B!LinkFits
    <2> QED BY <2>1, SameOperators
  <1>3. IsTree(pkg')
    BY <1>1, <1>2, TreeWith DEF Entries
  <1>4. FilesOnly(pkg', inode')
    BY <1>2 DEF FilesOnly, With, Without
  <1> QED BY <1>3, <1>4 DEF PkgInv

LEMMA ExtractHardLinkInv ==
    ASSUME NEW e, NEW tree, NEW spot, B!ExtractHardLink(e, tree, spot), B!Fits(e, tree, spot),
           IsTree(tree), FilesOnly(tree, inode),
           spot \in Seq(Name), spot # <<>>, Is("dir", tree, Front(spot))
    PROVE  PkgInv'
  <1>0. B!HardFits(e, tree, spot)
    BY DEF B!ExtractHardLink, B!Fits
  <1>1. ~Exists(tree, spot)
    BY <1>0, SameOperators DEF B!HardFits
  <1>2. PICK source \in DOMAIN tree :
          /\ tree[source].t # "dir"
          /\ pkg' = With(tree, spot, tree[source])
          /\ inode' = IF source \in DOMAIN inode THEN With(inode, spot, inode[source]) ELSE inode
    <2>1. \E source \in DOMAIN tree :
            /\ tree[source].t # "dir"
            /\ pkg' = B!With(tree, spot, tree[source])
            /\ inode' = IF source \in DOMAIN inode THEN B!With(inode, spot, inode[source]) ELSE inode
      BY <1>0 DEF B!ExtractHardLink, B!Took, B!HardFits
    <2> QED BY <2>1, SameOperators
  <1>3. \A q \in DOMAIN tree : Front(q) # spot
    BY <1>1, TreeNode DEF Is, Exists
  <1>4. IsNode(tree[source])
    BY TreeNode
  <1>5. IsTree(pkg')
    BY <1>2, <1>3, <1>4, TreeWith
  <1>6. FilesOnly(pkg', inode')
    <2>1. CASE source \in DOMAIN inode
      <3>1. tree[source].t = "file"
        BY <2>1 DEF FilesOnly
      <3> QED BY <1>1, <1>2, <2>1, <3>1 DEF FilesOnly, With, Exists
    <2>2. CASE source \notin DOMAIN inode
      BY <1>1, <1>2, <2>2 DEF FilesOnly, With, Exists
    <2> QED BY <2>1, <2>2
  <1> QED BY <1>5, <1>6 DEF PkgInv

LEMMA UnpackInv ==
    ASSUME NEW e, EntryOK(e), PkgInv, B!Unpack(e)
    PROVE  PkgInv'
  <1> DEFINE place == Tail(e.name)
             tree == B!MkdirAll(pkg, Front(place)).tree
             spot == Real(tree, place)
  <1>1. /\ place \in Seq(Name)
        /\ IsTree(tree) /\ Grown(pkg, tree)
        /\ spot \in Seq(Name) /\ spot # <<>> /\ Is("dir", tree, Front(spot))
        /\ B!Fits(e, tree, spot)
        /\ \/ B!ExtractDir(e, tree, spot) \/ B!ExtractFile(e, tree, spot)
           \/ B!ExtractLink(e, tree, spot) \/ B!ExtractHardLink(e, tree, spot)
    BY UnpackIs DEF PkgInv
  <1>2. B!Place(e) \in Seq(Name)
    BY <1>1 DEF B!Place
  <1> HIDE DEF place, tree, spot
  <1>3. FilesOnly(tree, inode)
    BY <1>1, GrownFilesOnly DEF PkgInv
  <1> QED BY <1>1, <1>2, <1>3, ExtractDirInv, ExtractFileInv, ExtractLinkInv, ExtractHardLinkInv

TarOK == tar \in Seq(ToSet(tar)) /\ \A e \in ToSet(tar) : EntryOK(e)
ReadInv == read \in 0..Len(tar)

LEMMA UnpackFrame ==
    ASSUME NEW e, B!Unpack(e)
    PROVE  bm' = bm /\ read' = read + 1
  BY DEF B!Unpack, B!ExtractDir, B!ExtractFile, B!ExtractLink, B!ExtractHardLink, B!Took

LEMMA RefuseIs ==
    ASSUME NEW e, B!Refuse(e)
    PROVE  bm' = "refused" /\ UNCHANGED <<read, pkg, inode>>
  BY DEF B!Refuse

LEMMA NextEntry ==
    ASSUME TarOK, ReadInv, read < Len(tar)
    PROVE  /\ read + 1 \in 1..Len(tar) /\ DOMAIN tar = 1..Len(tar)
           /\ EntryOK(tar[read + 1])
  <1>1. Len(tar) \in Nat /\ DOMAIN tar = 1..Len(tar)
    BY LenProperties DEF TarOK
  <1>2. read + 1 \in 1..Len(tar)
    BY <1>1 DEF ReadInv
  <1> QED BY <1>1, <1>2 DEF TarOK, ToSet

LEMMA ExtractInv ==
    ASSUME TarOK, ReadInv, PkgInv, AcceptedClosed, B!Extract, tar' = tar
    PROVE  PkgInv' /\ ReadInv' /\ AcceptedClosed'
  <1>1. bm = "reading"
    BY DEF B!Extract
  <1>2. ASSUME read < Len(tar), B!SkipRoot(tar[read + 1])
        PROVE  PkgInv' /\ ReadInv' /\ AcceptedClosed'
    <2>1. pkg' = pkg /\ inode' = inode /\ bm' = bm /\ read' = read + 1
      BY <1>2 DEF B!SkipRoot, B!Took
    <2>2. ReadInv'
      BY <1>2, <2>1, NextEntry DEF ReadInv
    <2> QED BY <1>1, <2>1, <2>2 DEF PkgInv, AcceptedClosed, B!AcceptedClosed
  <1>3. ASSUME read < Len(tar), B!Unpack(tar[read + 1])
        PROVE  PkgInv' /\ ReadInv' /\ AcceptedClosed'
    <2>1. bm' = bm /\ read' = read + 1
      BY <1>3, UnpackFrame
    <2>2. ReadInv'
      BY <1>3, <2>1, NextEntry DEF ReadInv
    <2>3. PkgInv'
      BY <1>3, NextEntry, UnpackInv
    <2> QED BY <1>1, <2>1, <2>2, <2>3 DEF AcceptedClosed, B!AcceptedClosed
  <1>4. ASSUME B!Refuse(tar[read + 1])
        PROVE  PkgInv' /\ ReadInv' /\ AcceptedClosed'
    <2>1. bm' = "refused" /\ UNCHANGED <<read, pkg, inode>>
      BY <1>4, RefuseIs
    <2> QED BY <2>1 DEF PkgInv, ReadInv, AcceptedClosed, B!AcceptedClosed
  <1>5. ASSUME B!Finish
        PROVE  PkgInv' /\ ReadInv' /\ AcceptedClosed'
    <2>1. UNCHANGED <<read, pkg, inode>> /\ bm' = IF B!Broken = {} THEN "accepted" ELSE "refused"
      BY <1>5 DEF B!Finish
    <2>2. ASSUME B!Broken = {}, NEW p \in DOMAIN pkg
          PROVE  /\ B!Is("dir", pkg, B!Front(p))
                 /\ pkg[p].t = "link" => B!Resolves(pkg, p)
      <3>1. B!Is("dir", pkg, B!Front(p))
        <4>1. Is("dir", pkg, Front(p))
          BY TreeNode DEF PkgInv
        <4> QED BY <4>1, SameOperators DEF Front, B!Front
      <3> QED BY <2>2, <3>1 DEF B!Broken
    <2>3. AcceptedClosed'
      <3> SUFFICES ASSUME bm' = "accepted", NEW p \in DOMAIN pkg
                   PROVE  /\ B!Is("dir", pkg, B!Front(p))
                          /\ pkg[p].t = "link" => B!Resolves(pkg, p)
        BY <2>1 DEF AcceptedClosed, B!AcceptedClosed
      <3> QED BY <2>1, <2>2
    <2> QED BY <2>1, <2>3 DEF PkgInv, ReadInv
  <1> QED BY <1>2, <1>3, <1>4, <1>5 DEF B!Extract

-----------------------------------------------------------------------------
\* The order in which directories are read is total: a finite set of paths has a
\* first one.

Key(p, i) == IF i <= Len(p) THEN Rank[p[i]] + 1 ELSE 0
Less(p, q) == \E i \in Nat \ {0} : /\ Key(p, i) < Key(q, i)
                                   /\ \A k \in 1..(i - 1) : Key(p, k) = Key(q, k)

LEMMA KeyType ==
    ASSUME NEW p \in Seq(Name), NEW i \in Nat \ {0}
    PROVE  /\ Key(p, i) \in Nat
           /\ Key(p, i) > 0 <=> i \in 1..Len(p)
           /\ i \in 1..Len(p) => p[i] \in Name /\ Rank[p[i]] \in Nat /\ Key(p, i) = Rank[p[i]] + 1
  <1>1. Len(p) \in Nat
    OBVIOUS
  <1>2. i \in 1..Len(p) <=> i <= Len(p)
    BY <1>1
  <1>3. i \in 1..Len(p) => p[i] \in Name /\ Rank[p[i]] \in Nat
    BY ElementOfSeq, TreeAssumption
  <1> QED BY <1>2, <1>3 DEF Key

LEMMA SameName ==
    ASSUME NEW p \in Seq(Name), NEW q \in Seq(Name), NEW k \in 1..Len(q), Key(p, k) = Key(q, k)
    PROVE  k \in 1..Len(p) /\ p[k] = q[k]
  <1>1. k \in Nat \ {0}
    OBVIOUS
  <1>2. q[k] \in Name /\ Key(q, k) > 0 /\ Key(q, k) = Rank[q[k]] + 1 /\ Rank[q[k]] \in Nat
    BY <1>1, KeyType
  <1>3. k \in 1..Len(p)
    BY <1>1, <1>2, KeyType
  <1>4. p[k] \in Name /\ Key(p, k) = Rank[p[k]] + 1 /\ Rank[p[k]] \in Nat
    BY <1>1, <1>3, KeyType
  <1>5. Rank[p[k]] = Rank[q[k]]
    BY <1>2, <1>4
  <1> QED BY <1>2, <1>3, <1>4, <1>5, TreeAssumption

LEMMA LessIsBefore ==
    ASSUME NEW p \in Seq(Name), NEW q \in Seq(Name), Less(p, q)
    PROVE  Before(p, q)
  <1>1. PICK i \in Nat \ {0} : /\ Key(p, i) < Key(q, i)
                               /\ \A k \in 1..(i - 1) : Key(p, k) = Key(q, k)
    BY DEF Less
  <1>2. Key(p, i) \in Nat /\ Key(q, i) \in Nat
    BY KeyType
  <1>3. i \in 1..Len(q)
    BY <1>1, <1>2, KeyType
  <1>4. \A k \in 1..(i - 1) : k \in 1..Len(p) /\ p[k] = q[k]
    <2> SUFFICES ASSUME NEW k \in 1..(i - 1) PROVE k \in 1..Len(p) /\ p[k] = q[k]
      OBVIOUS
    <2>1. k \in 1..Len(q)
      BY <1>3
    <2> QED BY <1>1, <2>1, SameName
  <1>5. Len(p) \in Nat /\ Len(q) \in Nat
    OBVIOUS
  <1>6. CASE i \notin 1..Len(p)
    <2>1. Len(p) = i - 1
      <3>1. i > Len(p)
        BY <1>5, <1>6
      <3>2. i - 1 >= 1 => i - 1 \in 1..Len(p)
        BY <1>4
      <3> QED BY <1>5, <3>1, <3>2
    <2>2. Len(p) <= Len(q) /\ \A k \in 1..Len(p) : p[k] = q[k]
      BY <1>3, <1>4, <1>5, <2>1
    <2>3. IsPrefix(p, q)
      BY <2>2, PrefixIs
    <2>4. p # q
      BY <1>3, <1>6
    <2> QED BY <2>3, <2>4 DEF Before, IsStrictPrefix
  <1>7. CASE i \in 1..Len(p)
    <2>1. /\ p[i] \in Name /\ Rank[p[i]] \in Nat /\ Key(p, i) = Rank[p[i]] + 1
          /\ q[i] \in Name /\ Rank[q[i]] \in Nat /\ Key(q, i) = Rank[q[i]] + 1
      BY <1>3, <1>7, KeyType
    <2>2. Rank[p[i]] < Rank[q[i]]
      BY <1>1, <2>1
    <2>3. p[i] # q[i]
      BY <2>1, <2>2
    <2>4. SubSeq(p, 1, i - 1) = SubSeq(q, 1, i - 1)
      <3>1. \A k \in 1..(i - 1) : p[k] \in Name /\ q[k] \in Name
        BY <1>3, <1>4, <1>5, ElementOfSeq
      <3>2. /\ SubSeq(p, 1, i - 1) \in Seq(Name) /\ Len(SubSeq(p, 1, i - 1)) = i - 1
            /\ \A k \in 1..(i - 1) : SubSeq(p, 1, i - 1)[k] = p[k]
        BY <3>1, SubSeqProperties, SMTT(30)
      <3>3. /\ SubSeq(q, 1, i - 1) \in Seq(Name) /\ Len(SubSeq(q, 1, i - 1)) = i - 1
            /\ \A k \in 1..(i - 1) : SubSeq(q, 1, i - 1)[k] = q[k]
        BY <3>1, SubSeqProperties, SMTT(30)
      <3> QED BY <1>4, <3>2, <3>3, SeqEqual
    <2>5. i <= Len(q)
      BY <1>3, <1>5
    <2> QED BY <1>7, <2>2, <2>3, <2>4, <2>5 DEF Before
  <1> QED BY <1>6, <1>7

LEMMA LessTransitive ==
    ASSUME NEW p \in Seq(Name), NEW q \in Seq(Name), NEW r \in Seq(Name), Less(p, q), Less(q, r)
    PROVE  Less(p, r)
  <1>1. PICK i \in Nat \ {0} : /\ Key(p, i) < Key(q, i)
                               /\ \A k \in 1..(i - 1) : Key(p, k) = Key(q, k)
    BY DEF Less
  <1>2. PICK j \in Nat \ {0} : /\ Key(q, j) < Key(r, j)
                               /\ \A k \in 1..(j - 1) : Key(q, k) = Key(r, k)
    BY DEF Less
  <1>3. \A k \in Nat \ {0} : Key(p, k) \in Nat /\ Key(q, k) \in Nat /\ Key(r, k) \in Nat
    BY KeyType
  <1> DEFINE m == IF i < j THEN i ELSE j
  <1>4. m \in Nat \ {0} /\ m <= i /\ m <= j /\ (m = i \/ m = j)
    OBVIOUS
  <1> HIDE DEF m
  <1>5. \A k \in 1..(m - 1) : Key(p, k) = Key(r, k)
    BY <1>1, <1>2, <1>4
  <1>6. Key(p, m) <= Key(q, m) /\ Key(q, m) <= Key(r, m)
    <2>1. m < i => m \in 1..(i - 1)
      BY <1>4
    <2>2. m < j => m \in 1..(j - 1)
      BY <1>4
    <2>3. Key(p, m) \in Nat /\ Key(q, m) \in Nat /\ Key(r, m) \in Nat
      BY <1>3, <1>4
    <2>4. m = i => Key(p, m) < Key(q, m)
      BY <1>1
    <2>5. m < i => Key(p, m) = Key(q, m)
      BY <1>1, <2>1
    <2>6. m = j => Key(q, m) < Key(r, m)
      BY <1>2
    <2>7. m < j => Key(q, m) = Key(r, m)
      BY <1>2, <2>2
    <2>8. (m = i \/ m < i) /\ (m = j \/ m < j)
      BY <1>4
    <2> QED BY <2>3, <2>4, <2>5, <2>6, <2>7, <2>8
  <1>7. Key(p, m) < Key(q, m) \/ Key(q, m) < Key(r, m)
    BY <1>1, <1>2, <1>4
  <1>8. Key(p, m) < Key(r, m)
    BY <1>3, <1>4, <1>6, <1>7
  <1> QED BY <1>4, <1>5, <1>8 DEF Less

LEMMA LessTotal ==
    ASSUME NEW p \in Seq(Name), NEW q \in Seq(Name), p # q
    PROVE  Less(p, q) \/ Less(q, p)
  <1> DEFINE I == {i \in Nat \ {0} : Key(p, i) # Key(q, i)}
  <1>1. I # {}
    <2> SUFFICES ASSUME \A i \in Nat \ {0} : Key(p, i) = Key(q, i) PROVE FALSE
      OBVIOUS
    <2>1. \A k \in 1..Len(q) : k \in 1..Len(p) /\ p[k] = q[k]
      BY SameName
    <2>2. \A k \in 1..Len(p) : k \in 1..Len(q)
      BY SameName
    <2>3. Len(p) \in Nat /\ Len(q) \in Nat
      OBVIOUS
    <2>4. Len(p) = Len(q)
      <3>1. Len(q) >= 1 => Len(q) <= Len(p)
        BY <2>1, <2>3
      <3>2. Len(p) >= 1 => Len(p) <= Len(q)
        BY <2>2, <2>3
      <3> QED BY <2>3, <3>1, <3>2
    <2> QED BY <2>1, <2>4, SeqEqual
  <1>2. PICK m \in I : \A k \in I : m <= k
    BY <1>1, Least
  <1>3. \A k \in 1..(m - 1) : Key(p, k) = Key(q, k)
    BY <1>2
  <1>4. Key(p, m) \in Nat /\ Key(q, m) \in Nat /\ Key(p, m) # Key(q, m)
    BY KeyType
  <1> QED BY <1>3, <1>4 DEF Less

LEMMA FirstIn ==
    ASSUME NEW P \in SUBSET Seq(Name), IsFiniteSet(P), P # {}
    PROVE  First(P) \in P /\ \A q \in P : First(P) = q \/ Before(First(P), q)
  <1> DEFINE Least1(Q) == \E p \in Q : \A q \in Q : p = q \/ Less(p, q)
             I == {n \in Nat : \A Q \in SUBSET Seq(Name) :
                                 IsFiniteSet(Q) /\ Q # {} /\ Cardinality(Q) = n => Least1(Q)}
  <1>1. 0 \in I
    BY FS_EmptySet
  <1>2. ASSUME NEW n \in I PROVE n + 1 \in I
    <2>0. n \in Nat /\ n + 1 \in Nat
      OBVIOUS
    <2> SUFFICES ASSUME NEW Q \in SUBSET Seq(Name), IsFiniteSet(Q), Q # {}, Cardinality(Q) = n + 1
                 PROVE  Least1(Q)
      <3> HIDE DEF Least1
      <3> QED BY <2>0
    <2>1. PICK x \in Q : TRUE
      OBVIOUS
    <2> DEFINE R == Q \ {x}
    <2>2. IsFiniteSet(R) /\ Cardinality(R) = n
      <3>1. IsFiniteSet(R) /\ Cardinality(R) = Cardinality(Q) - 1
        BY <2>1, FS_RemoveElement
      <3> HIDE DEF I
      <3> QED BY <2>0, <3>1
    <2>3. CASE R = {}
      BY <2>1, <2>3
    <2>4. CASE R # {}
      <3>1. PICK p \in R : \A q \in R : p = q \/ Less(p, q)
        BY <2>2, <2>4
      <3>2. CASE Less(p, x)
        <4>1. \A q \in Q : p = q \/ Less(p, q)
          BY <3>1, <3>2
        <4> QED BY <3>1, <4>1
      <3>3. CASE ~Less(p, x)
        <4>1. Less(x, p)
          BY <2>1, <3>1, <3>3, LessTotal
        <4>2. ASSUME NEW q \in Q PROVE x = q \/ Less(x, q)
          <5>1. CASE q = x
            BY <5>1
          <5>2. CASE q = p
            BY <4>1, <5>2
          <5>3. CASE q # x /\ q # p
            <6>1. Less(p, q)
              BY <3>1, <5>3
            <6> QED BY <4>1, <6>1, <2>1, LessTransitive
          <5> QED BY <5>1, <5>2, <5>3
        <4> QED BY <2>1, <4>2
      <3> QED BY <3>2, <3>3
    <2> QED BY <2>3, <2>4
  <1>3. I = Nat
    <2> HIDE DEF I
    <2>1. I \in SUBSET Nat
      BY DEF I
    <2> QED BY <1>1, <1>2, <2>1, Induction
  <1>4. Cardinality(P) \in I
    BY <1>3, FS_CardinalityType
  <1>5. PICK p \in P : \A q \in P : p = q \/ Less(p, q)
    BY <1>4
  <1>6. \A q \in P : p = q \/ Before(p, q)
    BY <1>5, LessIsBefore
  <1> QED BY <1>5, <1>6 DEF First

-----------------------------------------------------------------------------
\* Walks in detail.

LEMMA EvalOf ==
    ASSUME NEW tree, NEW p, NEW w, IsWalk(tree, p, w)
    PROVE  Eval(tree, p) = Ends(w)
  <1>0. MaxWalk \in Nat /\ MaxWalk \in 0..MaxWalk
    BY TreeAssumption
  <1>1. PICK v : IsWalk(tree, p, v) /\ Eval(tree, p) = Ends(v)
    BY EvalIs
  <1> DEFINE I == {n \in 0..MaxWalk : w[n] = v[n]}
  <1>2. 0 \in I
    BY <1>0, <1>1 DEF IsWalk
  <1>3. ASSUME NEW n \in 0..MaxWalk, n \in I, n < MaxWalk PROVE n + 1 \in I
    <2>1. n + 1 \in 1..MaxWalk /\ (n + 1) - 1 = n /\ n + 1 \in 0..MaxWalk
      BY <1>0, <1>3
    <2>2. w[n + 1] = Step(tree, w[n]) /\ v[n + 1] = Step(tree, v[n])
      BY <1>1, <2>1 DEF IsWalk
    <2> QED BY <1>3, <2>1, <2>2
  <1> HIDE DEF I
  <1>4. \A n \in 0..MaxWalk : n \in I
    BY <1>0, <1>2, <1>3, InductionTo
  <1>5. w[MaxWalk] = v[MaxWalk]
    BY <1>0, <1>4 DEF I
  <1> QED BY <1>1, <1>5 DEF Ends

LEMMA SameWalk ==
    ASSUME NEW t1, NEW t2, NEW p, NEW w, IsWalk(t1, p, w),
           \A i \in 0..MaxWalk : Step(t2, w[i]) = Step(t1, w[i])
    PROVE  Eval(t2, p) = Eval(t1, p)
  <1>1. MaxWalk \in Nat
    BY TreeAssumption
  <1>2. ASSUME NEW i \in 1..MaxWalk PROVE w[i] = Step(t2, w[i - 1])
    <2>1. i - 1 \in 0..MaxWalk
      BY <1>1
    <2> QED BY <2>1 DEF IsWalk
  <1>3. IsWalk(t2, p, w)
    BY <1>2 DEF IsWalk
  <1> QED BY <1>3, EvalOf

LEMMA NextStep ==
    ASSUME NEW tree, NEW p, NEW w, IsWalk(tree, p, w), NEW i \in 0..MaxWalk, i < MaxWalk
    PROVE  i + 1 \in 0..MaxWalk /\ w[i + 1] = Step(tree, w[i])
  <1>1. MaxWalk \in Nat
    BY TreeAssumption
  <1>2. i + 1 \in 1..MaxWalk /\ (i + 1) - 1 = i
    BY <1>1
  <1> QED BY <1>1, <1>2 DEF IsWalk

\* A walk that has ended stays as it is.
LEMMA Stays ==
    ASSUME NEW tree, NEW p, NEW w, IsWalk(tree, p, w), NEW i \in 0..MaxWalk, w[i].st # "walk"
    PROVE  /\ \A j \in i..MaxWalk : w[j] = w[i]
           /\ Eval(tree, p) = [st |-> w[i].st, at |-> w[i].at]
  <1>0. MaxWalk \in Nat
    BY TreeAssumption
  <1> DEFINE I == {n \in 0..(MaxWalk - i) : w[i + n] = w[i]}
  <1>1. 0 \in I
    BY <1>0
  <1>2. ASSUME NEW n \in 0..(MaxWalk - i), n \in I, n < MaxWalk - i PROVE n + 1 \in I
    <2>1. i + n \in 0..MaxWalk /\ i + n < MaxWalk /\ (i + n) + 1 = i + (n + 1) /\ n + 1 \in 0..(MaxWalk - i)
      BY <1>0, <1>2
    <2>2. w[(i + n) + 1] = Step(tree, w[i + n])
      BY <2>1, NextStep
    <2>3. w[i + n] = w[i]
      BY <1>2
    <2>4. Step(tree, w[i]) = w[i]
      BY Zenon DEF Step
    <2>5. w[i + (n + 1)] = w[i]
      BY <2>1, <2>2, <2>3, <2>4
    <2> QED BY <2>1, <2>5
  <1> HIDE DEF I
  <1>3. MaxWalk - i \in Nat
    BY <1>0
  <1>4. \A n \in 0..(MaxWalk - i) : n \in I
    BY <1>1, <1>2, <1>3, InductionTo
  <1>5. ASSUME NEW j \in i..MaxWalk PROVE w[j] = w[i]
    <2>1. j - i \in 0..(MaxWalk - i) /\ i + (j - i) = j
      BY <1>0
    <2>2. j - i \in I
      BY <1>4, <2>1
    <2> QED BY <2>1, <2>2 DEF I
  <1>6. w[MaxWalk] = w[i]
    BY <1>0, <1>5
  <1> QED BY <1>5, <1>6, EvalOf DEF Ends

LEMMA SubPath ==
    ASSUME NEW S, NEW p \in Seq(S), NEW i \in 0..Len(p)
    PROVE  /\ SubSeq(p, 1, i) \in Seq(S) /\ Len(SubSeq(p, 1, i)) = i
           /\ i = 0 => SubSeq(p, 1, i) = <<>>
           /\ i > 0 => /\ p[i] \in S
                       /\ Front(SubSeq(p, 1, i)) = SubSeq(p, 1, i - 1)
                       /\ SubSeq(p, 1, i) = Append(SubSeq(p, 1, i - 1), p[i])
           /\ i < Len(p) => /\ SubSeq(p, i + 1, Len(p)) # <<>>
                            /\ Head(SubSeq(p, i + 1, Len(p))) = p[i + 1]
                            /\ Tail(SubSeq(p, i + 1, Len(p))) = SubSeq(p, (i + 1) + 1, Len(p))
           /\ i = Len(p) => SubSeq(p, i + 1, Len(p)) = <<>>
  <1>0. Len(p) \in Nat /\ \A k \in 1..Len(p) : p[k] \in S
    BY LenProperties, ElementOfSeq
  <1>1. /\ SubSeq(p, 1, i) \in Seq(S) /\ Len(SubSeq(p, 1, i)) = i
        /\ \A k \in 1..i : SubSeq(p, 1, i)[k] = p[k]
    <2>1. \A k \in 1..i : p[k] \in S
      BY <1>0
    <2> QED BY <2>1, SubSeqProperties, SMTT(30)
  <1>2. i = 0 => SubSeq(p, 1, i) = <<>>
    BY SubSeqEmpty
  <1>3. ASSUME i > 0
        PROVE  /\ p[i] \in S
               /\ Front(SubSeq(p, 1, i)) = SubSeq(p, 1, i - 1)
               /\ SubSeq(p, 1, i) = Append(SubSeq(p, 1, i - 1), p[i])
    <2>1. p[i] \in S
      BY <1>0, <1>3
    <2>2. SubSeq(p, 1, i) = SubSeq(p, 1, i - 1) \o <<p[i]>>
      <3>1. 1 \in 1..Len(p) /\ i \in 1..Len(p)
        BY <1>0, <1>3
      <3> QED BY <3>1, SubSeqRecursiveSecond
    <2>3. SubSeq(p, 1, i - 1) \in Seq(S)
      <3>1. \A k \in 1..(i - 1) : p[k] \in S
        BY <1>0
      <3> QED BY <3>1, SubSeqProperties, SMTT(30)
    <2>4. SubSeq(p, 1, i) = Append(SubSeq(p, 1, i - 1), p[i])
      BY <2>1, <2>2, <2>3, AppendIsConcat
    <2>5. Front(Append(SubSeq(p, 1, i - 1), p[i])) = SubSeq(p, 1, i - 1)
      BY <2>1, <2>3, AppendPath
    <2> QED BY <2>1, <2>4, <2>5
  <1>4. ASSUME i < Len(p)
        PROVE  /\ SubSeq(p, i + 1, Len(p)) # <<>>
               /\ Head(SubSeq(p, i + 1, Len(p))) = p[i + 1]
               /\ Tail(SubSeq(p, i + 1, Len(p))) = SubSeq(p, (i + 1) + 1, Len(p))
    <2>1. i + 1 \in 1..Len(p) /\ Len(p) \in (i + 1)..Len(p)
      BY <1>0, <1>4
    <2>2. /\ Head(SubSeq(p, i + 1, Len(p))) = p[i + 1]
          /\ Tail(SubSeq(p, i + 1, Len(p))) = SubSeq(p, (i + 1) + 1, Len(p))
      BY <2>1, HeadTailOfSubSeq
    <2>3. Len(SubSeq(p, i + 1, Len(p))) > 0
      <3>1. \A k \in (i + 1)..Len(p) : p[k] \in S
        BY <1>0
      <3>2. Len(SubSeq(p, i + 1, Len(p))) = Len(p) - (i + 1) + 1
        BY <1>0, <1>4, <3>1, SubSeqProperties, SMTT(30)
      <3> QED BY <1>0, <1>4, <3>2
    <2>4. SubSeq(p, i + 1, Len(p)) # <<>>
      <3> DEFINE rest == SubSeq(p, i + 1, Len(p))
      <3>1. Len(rest) > 0
        BY <2>3
      <3> HIDE DEF rest
      <3>2. rest # <<>>
        BY <3>1, EmptySeq
      <3> QED BY <3>2 DEF rest
    <2> QED BY <2>2, <2>4
  <1>5. i = Len(p) => SubSeq(p, i + 1, Len(p)) = <<>>
    BY <1>0, SubSeqEmpty
  <1> QED BY <1>1, <1>2, <1>3, <1>4, <1>5

\* What is above a directory are directories.
LEMMA DirsAbove ==
    ASSUME NEW tree, IsTree(tree), NEW d \in Seq(Name), Is("dir", tree, d)
    PROVE  \A i \in 0..Len(d) : Is("dir", tree, SubSeq(d, 1, i))
  <1>0. Len(d) \in Nat
    OBVIOUS
  <1> DEFINE I == {n \in 0..Len(d) : Is("dir", tree, SubSeq(d, 1, Len(d) - n))}
  <1>1. 0 \in I
    <2>1. SubSeq(d, 1, Len(d)) = d /\ Len(d) - 0 = Len(d)
      BY <1>0, SubSeqFull
    <2>2. SubSeq(d, 1, Len(d) - 0) = d
      BY <2>1, Zenon
    <2>3. Is("dir", tree, SubSeq(d, 1, Len(d) - 0))
      BY <2>2, Zenon
    <2>4. 0 \in 0..Len(d)
      BY <1>0
    <2> QED BY <2>3, <2>4
  <1>2. ASSUME NEW n \in 0..Len(d), n \in I, n < Len(d) PROVE n + 1 \in I
    <2> DEFINE q == SubSeq(d, 1, Len(d) - n)
    <2>1. Len(d) - n \in 0..Len(d) /\ Len(d) - n > 0 /\ (Len(d) - n) - 1 = Len(d) - (n + 1) /\ n + 1 \in 0..Len(d)
      BY <1>0, <1>2
    <2>2. q \in Seq(Name) /\ Len(q) > 0 /\ Front(q) = SubSeq(d, 1, (Len(d) - n) - 1)
      BY <2>1, SubPath
    <2>3. Is("dir", tree, q)
      BY <1>2
    <2> HIDE DEF q
    <2>4. q # <<>>
      BY <2>2, EmptySeq
    <2>5. q \in DOMAIN tree
      BY <2>3, <2>4 DEF Is, Exists
    <2>6. Is("dir", tree, Front(q))
      BY <2>5, TreeNode
    <2>7. Is("dir", tree, SubSeq(d, 1, Len(d) - (n + 1)))
      BY <2>1, <2>2, <2>6
    <2> QED BY <2>1, <2>7
  <1> HIDE DEF I
  <1>3. \A n \in 0..Len(d) : n \in I
    BY <1>0, <1>1, <1>2, InductionTo
  <1>4. ASSUME NEW i \in 0..Len(d) PROVE Is("dir", tree, SubSeq(d, 1, i))
    <2>1. Len(d) - i \in 0..Len(d) /\ Len(d) - (Len(d) - i) = i
      BY <1>0
    <2>2. Len(d) - i \in I
      BY <1>3, <2>1
    <2> QED BY <2>1, <2>2 DEF I
  <1> QED BY <1>4

\* One step down from a directory.
LEMMA StepDown ==
    ASSUME NEW tree, NEW a, NEW rest, rest # <<>>, Is("dir", tree, a), Head(rest) # "..",
           Append(a, Head(rest)) \in DOMAIN tree, tree[Append(a, Head(rest))].t # "link"
    PROVE  Step(tree, [at |-> a, rest |-> rest, st |-> "walk"])
             = [at |-> Append(a, Head(rest)), rest |-> Tail(rest), st |-> "walk"]
  <1> DEFINE w == [at |-> a, rest |-> rest, st |-> "walk"]
  <1>1. w.at = a /\ w.rest = rest /\ w.st = "walk"
    OBVIOUS
  <1>2. Step(tree, w) = [w EXCEPT !.at = Append(a, Head(rest)), !.rest = Tail(rest)]
    <2> HIDE DEF w
    <2> QED BY <1>1, Zenon DEF Step
  <1> QED BY <1>2

\* The walk along a path stays on it as long as there are directories.
LEMMA RealWalk ==
    ASSUME NEW tree, IsTree(tree), NEW p \in Seq(Name), NEW w, IsWalk(tree, p, w),
           NEW d \in 0..Len(p), Is("dir", tree, SubSeq(p, 1, d))
    PROVE  \A i \in 0..d : i <= MaxWalk =>
              w[i] = [at |-> SubSeq(p, 1, i), rest |-> SubSeq(p, i + 1, Len(p)), st |-> "walk"]
  <1>0. MaxWalk \in Nat /\ Len(p) \in Nat /\ d \in Nat
    BY TreeAssumption
  <1> DEFINE On(i) == [at |-> SubSeq(p, 1, i), rest |-> SubSeq(p, i + 1, Len(p)), st |-> "walk"]
             I == {n \in 0..d : n <= MaxWalk => w[n] = On(n)}
  <1>1. ASSUME NEW i \in 0..d PROVE Is("dir", tree, SubSeq(p, 1, i))
    <2>1. SubSeq(p, 1, d) \in Seq(Name) /\ Len(SubSeq(p, 1, d)) = d
      BY SubPath
    <2>2. Is("dir", tree, SubSeq(SubSeq(p, 1, d), 1, i))
      BY <2>1, DirsAbove
    <2>3. SubSeq(SubSeq(p, 1, d), 1, i) = SubSeq(p, 1, i)
      <3>1. CASE i = 0
        BY <2>1, <3>1, SubSeqEmpty
      <3>2. CASE i # 0
        <4>1. /\ 1 \in 1..Len(p) /\ d \in 1..Len(p) /\ 1 \in 1..(d - 1 + 1) /\ i \in 1..(d - 1 + 1)
              /\ 1 + 1 - 1 = 1 /\ 1 + i - 1 = i
          BY <1>0, <3>2
        <4> QED BY <4>1, SubSeqOfSubSeq
      <3> QED BY <3>1, <3>2
    <2> QED BY <2>2, <2>3
  <1>2. 0 \in I
    <2>1. SubSeq(p, 1, 0) = <<>> /\ SubSeq(p, 0 + 1, Len(p)) = p
      BY <1>0, SubSeqEmpty, SubSeqFull
    <2>2. w[0] = On(0)
      BY <2>1 DEF IsWalk, Start
    <2> HIDE DEF On
    <2> QED BY <1>0, <2>2
  <1>3. ASSUME NEW n \in 0..d, n \in I, n < d PROVE n + 1 \in I
    <2> SUFFICES ASSUME n + 1 <= MaxWalk PROVE w[n + 1] = On(n + 1)
      <3>1. n + 1 \in 0..d
        BY <1>0, <1>3
      <3> HIDE DEF On
      <3> QED BY <3>1
    <2>1. n \in 0..MaxWalk /\ n < MaxWalk /\ n \in 0..Len(p) /\ n < Len(p) /\ n + 1 \in 0..d /\ n + 1 \in 0..Len(p)
          /\ n + 1 > 0 /\ (n + 1) - 1 = n
      BY <1>0, <1>3
    <2>2. w[n] = On(n)
      BY <1>0, <1>3, <2>1
    <2>3. w[n + 1] = Step(tree, On(n))
      BY <2>1, <2>2, NextStep
    <2> DEFINE a == SubSeq(p, 1, n)
               rest == SubSeq(p, n + 1, Len(p))
               b == SubSeq(p, 1, n + 1)
    <2>4. rest # <<>> /\ Head(rest) = p[n + 1] /\ Tail(rest) = SubSeq(p, (n + 1) + 1, Len(p))
      BY <2>1, SubPath
    <2>5. p[n + 1] \in Name /\ b = Append(SubSeq(p, 1, (n + 1) - 1), p[n + 1]) /\ Len(b) = n + 1
      BY <2>1, SubPath
    <2>6. b = Append(a, Head(rest)) /\ Head(rest) # ".."
      BY <2>1, <2>4, <2>5, TreeAssumption
    <2>7. Is("dir", tree, a) /\ Is("dir", tree, b)
      BY <1>1, <2>1
    <2>8. b # <<>>
      <3>1. Len(b) # 0
        BY <1>0, <2>1, <2>5
      <3> HIDE DEF b
      <3> QED BY <3>1, EmptySeq
    <2>9. b \in DOMAIN tree /\ tree[b].t # "link"
      <3> HIDE DEF b
      <3> QED BY <2>7, <2>8 DEF Is, Exists, Node
    <2>10. Step(tree, [at |-> a, rest |-> rest, st |-> "walk"]) = [at |-> b, rest |-> Tail(rest), st |-> "walk"]
      <3> HIDE DEF a, b, rest
      <3> QED BY <2>4, <2>6, <2>7, <2>9, StepDown
    <2> QED BY <2>3, <2>4, <2>10
  <1> HIDE DEF I
  <1>4. \A n \in 0..d : n \in I
    BY <1>0, <1>2, <1>3, InductionTo
  <1> QED BY <1>4 DEF I

\* The walk along a path whose directory is there, up to its last step.
LEMMA WalkToLast ==
    ASSUME NEW tree, IsTree(tree), NEW p \in Seq(Name), p # <<>>, Is("dir", tree, Front(p)),
           NEW w, IsWalk(tree, p, w)
    PROVE  LET n == Len(p) - 1
               last == SubSeq(p, Len(p), Len(p))
           IN /\ n \in Nat
              /\ last # <<>> /\ Head(last) = Last(p) /\ Tail(last) = <<>>
              /\ n <= MaxWalk => w[n] = [at |-> Front(p), rest |-> last, st |-> "walk"]
              /\ n >= MaxWalk => w[MaxWalk].st = "walk"
  <1>0. MaxWalk \in Nat
    BY TreeAssumption
  <1> DEFINE n == Len(p) - 1
             last == SubSeq(p, Len(p), Len(p))
  <1>1. Len(p) \in Nat /\ Len(p) > 0
    BY EmptySeq
  <1>2. n \in Nat /\ n \in 0..Len(p) /\ n < Len(p) /\ n + 1 = Len(p)
    BY <1>1
  <1>3. last # <<>> /\ Head(last) = Last(p)
    <2>1. /\ SubSeq(p, n + 1, Len(p)) # <<>>
          /\ Head(SubSeq(p, n + 1, Len(p))) = p[n + 1]
      BY <1>2, SubPath
    <2> QED BY <1>2, <2>1 DEF Last
  <1>4. Tail(last) = <<>>
    <2>1. Tail(SubSeq(p, n + 1, Len(p))) = SubSeq(p, (n + 1) + 1, Len(p))
      BY <1>2, SubPath
    <2>2. SubSeq(p, Len(p) + 1, Len(p)) = <<>>
      BY <1>1, SubSeqEmpty
    <2> QED BY <1>2, <2>1, <2>2
  <1>5. SubSeq(p, 1, n) = Front(p)
    BY DEF Front
  <1> DEFINE On(i) == [at |-> SubSeq(p, 1, i), rest |-> SubSeq(p, i + 1, Len(p)), st |-> "walk"]
  <1>6. \A i \in 0..n : i <= MaxWalk => w[i] = On(i)
    BY <1>2, <1>5, RealWalk
  <1>7. On(n) = [at |-> Front(p), rest |-> last, st |-> "walk"]
    BY <1>2, <1>5
  <1>8. \A i : On(i).st = "walk"
    OBVIOUS
  <1> HIDE DEF On
  <1>9. n <= MaxWalk => w[n] = On(n)
    <2>1. n \in 0..n
      BY <1>2
    <2> HIDE DEF n
    <2> QED BY <1>6, <2>1
  <1>10. ASSUME n >= MaxWalk PROVE w[MaxWalk].st = "walk"
    <2>1. MaxWalk \in 0..n
      BY <1>0, <1>2, <1>10
    <2> HIDE DEF n
    <2> QED BY <1>0, <1>6, <1>8, <2>1
  <1>11. /\ n \in Nat
         /\ last # <<>> /\ Head(last) = Last(p) /\ Tail(last) = <<>>
         /\ n <= MaxWalk => w[n] = [at |-> Front(p), rest |-> last, st |-> "walk"]
         /\ n >= MaxWalk => w[MaxWalk].st = "walk"
    <2> HIDE DEF last, n
    <2> QED BY <1>2, <1>3, <1>4, <1>7, <1>9, <1>10
  <1> QED BY <1>11, Zenon

LEMMA NotThere ==
    ASSUME NEW tree, IsTree(tree), NEW p \in Seq(Name), p # <<>>, Is("dir", tree, Front(p)),
           p \notin DOMAIN tree
    PROVE  ~Resolves(tree, p)
  <1>0. MaxWalk \in Nat
    BY TreeAssumption
  <1>1. PICK w : IsWalk(tree, p, w) /\ Eval(tree, p) = Ends(w)
    BY EvalIs
  <1> DEFINE n == Len(p) - 1
             last == SubSeq(p, Len(p), Len(p))
             s == [at |-> Front(p), rest |-> last, st |-> "walk"]
  <1>2. /\ n \in Nat
        /\ last # <<>> /\ Head(last) = Last(p)
        /\ n <= MaxWalk => w[n] = s
        /\ n >= MaxWalk => w[MaxWalk].st = "walk"
    BY <1>1, WalkToLast
  <1>3. p = Append(Front(p), Last(p)) /\ Last(p) \in Name
    BY FrontPath
  <1>4. Step(tree, s) = [s EXCEPT !.st = "absent"]
    <2>1. s.at = Front(p) /\ s.rest = last /\ s.st = "walk"
      OBVIOUS
    <2>2. Head(last) # ".." /\ Append(Front(p), Head(last)) \notin DOMAIN tree
      BY <1>2, <1>3, TreeAssumption
    <2> HIDE DEF s, last
    <2> QED BY <1>2, <2>1, <2>2, Zenon DEF Step
  <1>5. CASE n < MaxWalk
    <2>1. n \in 0..MaxWalk /\ n + 1 \in 0..MaxWalk /\ w[n + 1] = Step(tree, s)
      <3> HIDE DEF s
      <3> QED BY <1>0, <1>1, <1>2, <1>5, NextStep
    <2>2. w[n + 1].st = "absent"
      BY <1>4, <2>1
    <2>3. Eval(tree, p).st = "absent"
      BY <1>1, <2>1, <2>2, Stays
    <2> QED BY <2>3 DEF Resolves
  <1>6. CASE n >= MaxWalk
    <2>1. w[MaxWalk].st = "walk"
      BY <1>2, <1>6
    <2> QED BY <1>1, <2>1 DEF Resolves, Ends
  <1>7. n \in Nat
    BY <1>2
  <1> QED BY <1>0, <1>5, <1>6, <1>7

\* A directory resolves to itself.
LEMMA RealDir ==
    ASSUME NEW tree, IsTree(tree), NEW d \in Seq(Name), Is("dir", tree, d), Resolves(tree, d)
    PROVE  Eval(tree, d).at = d
  <1>0. MaxWalk \in Nat /\ Len(d) \in Nat
    BY TreeAssumption
  <1>1. PICK w : IsWalk(tree, d, w) /\ Eval(tree, d) = Ends(w)
    BY EvalIs
  <1> DEFINE n == Len(d)
             s == [at |-> d, rest |-> <<>>, st |-> "walk"]
  <1> DEFINE On(i) == [at |-> SubSeq(d, 1, i), rest |-> SubSeq(d, i + 1, Len(d)), st |-> "walk"]
  <1>2. \A i \in 0..n : i <= MaxWalk => w[i] = On(i)
    <2>1. SubSeq(d, 1, Len(d)) = d
      BY SubSeqFull
    <2>2. Len(d) \in 0..Len(d)
      BY <1>0
    <2> QED BY <1>1, <2>1, <2>2, RealWalk
  <1>3. On(n) = s
    BY <1>0, SubSeqFull, SubSeqEmpty
  <1>4. \A i : On(i).st = "walk"
    OBVIOUS
  <1> HIDE DEF On
  <1>9. n \in Nat /\ (n <= MaxWalk => w[n] = s)
    <2>1. n \in 0..n
      BY <1>0
    <2> HIDE DEF n, s
    <2> QED BY <1>2, <1>3, <2>1
  <1>10. n < MaxWalk
    <2> SUFFICES ASSUME n >= MaxWalk PROVE FALSE
      BY <1>0
    <2>1. MaxWalk \in 0..n
      BY <1>0
    <2>2. w[MaxWalk].st = "walk"
      <3> HIDE DEF n
      <3> QED BY <1>0, <1>2, <1>4, <2>1
    <2> QED BY <1>1, <2>2 DEF Resolves, Ends
  <1>5. Step(tree, s) = [s EXCEPT !.st = "ok"]
    <2>1. s.rest = <<>> /\ s.st = "walk"
      OBVIOUS
    <2> HIDE DEF s
    <2> QED BY <2>1, Zenon DEF Step
  <1>6. n + 1 \in 0..MaxWalk /\ w[n + 1] = Step(tree, s)
    <2>1. n \in 0..MaxWalk /\ w[n] = s
      BY <1>0, <1>9, <1>10
    <2> HIDE DEF s
    <2> QED BY <1>1, <1>10, <2>1, NextStep
  <1>7. w[n + 1].st = "ok" /\ w[n + 1].at = d
    BY <1>5, <1>6
  <1> QED BY <1>1, <1>6, <1>7, Stays

\* The same step with more to go afterwards.
LEMMA StepMore ==
    ASSUME NEW tree, IsTree(tree), NEW s \in State(tree), s.st = "walk", s.rest # <<>>,
           NEW R \in Seq(Up)
    PROVE  LET more == [at |-> s.at, rest |-> s.rest \o R, st |-> "walk"]
           IN /\ Step(tree, more).st = Step(tree, s).st
              /\ Step(tree, s).st = "walk" =>
                    Step(tree, more) = [at |-> Step(tree, s).at, rest |-> Step(tree, s).rest \o R, st |-> "walk"]
  <1> DEFINE more == [at |-> s.at, rest |-> s.rest \o R, st |-> "walk"]
             next == Append(s.at, Head(s.rest))
             Goal == /\ Step(tree, more).st = Step(tree, s).st
                     /\ Step(tree, s).st = "walk" =>
                          Step(tree, more) = [at |-> Step(tree, s).at, rest |-> Step(tree, s).rest \o R, st |-> "walk"]
  <1> SUFFICES Goal
    BY Zenon
  <1>1. s.at \in Seq(Name) /\ s.rest \in Seq(Up)
    BY DEF State, Places
  <1>2. /\ Head(s.rest) \in Up /\ Tail(s.rest) \in Seq(Up)
        /\ s.rest = <<Head(s.rest)>> \o Tail(s.rest)
    BY <1>1, HeadTailPath
  <1>3. s.rest \o R # <<>> /\ Head(s.rest \o R) = Head(s.rest) /\ Tail(s.rest \o R) = Tail(s.rest) \o R
    <2>1. s.rest \o R \in Seq(Up) /\ s.rest \o R # <<>>
      BY <1>1, ConcatProperties, ConcatEqualIffEmpty
    <2>2. (s.rest \o R)[1] = s.rest[1] /\ Head(s.rest) = s.rest[1]
      <3>1. Len(s.rest) \in Nat \ {0} /\ Len(R) \in Nat
        BY <1>1, EmptySeq
      <3>2. 1 \in 1..(Len(s.rest) + Len(R)) /\ 1 <= Len(s.rest)
        BY <3>1
      <3>3. (s.rest \o R)[1] = s.rest[1]
        BY <1>1, <3>2, ConcatProperties
      <3> QED BY <1>1, <3>3, HeadTailPath
    <2>3. /\ Head(s.rest \o R) = (s.rest \o R)[1] /\ Tail(s.rest \o R) \in Seq(Up)
          /\ s.rest \o R = <<Head(s.rest \o R)>> \o Tail(s.rest \o R)
      BY <2>1, HeadTailPath
    <2>4. s.rest \o R = <<Head(s.rest)>> \o (Tail(s.rest) \o R)
      <3>1. <<Head(s.rest)>> \in Seq(Up)
        BY <1>2
      <3>2. \A x, y \in Seq(Up) : (x \o y) \o R = x \o (y \o R)
        BY ConcatAssociative
      <3> QED BY <1>2, <3>1, <3>2
    <2>5. Tail(s.rest \o R) = Tail(s.rest) \o R
      <3>1. <<Head(s.rest)>> \in Seq(Up) /\ Tail(s.rest) \o R \in Seq(Up)
        BY <1>2, ConcatProperties
      <3>2. <<Head(s.rest)>> \o Tail(s.rest \o R) = <<Head(s.rest)>> \o (Tail(s.rest) \o R)
        BY <2>2, <2>3, <2>4
      <3>3. \A x, y, z \in Seq(Up) : x \o y = x \o z => y = z
        BY ConcatSimplifications
      <3> QED BY <2>3, <3>1, <3>2, <3>3
    <2> QED BY <2>1, <2>2, <2>3, <2>5
  <1>4. more.at = s.at /\ more.rest = s.rest \o R /\ more.st = "walk"
    OBVIOUS
  <1> HIDE DEF more
  <1>5. CASE ~Is("dir", tree, s.at)
    <2>1. Step(tree, s) = [s EXCEPT !.st = "notdir"]
      BY <1>5, Zenon DEF Step
    <2>2. Step(tree, more) = [more EXCEPT !.st = "notdir"]
      BY <1>3, <1>4, <1>5, Zenon DEF Step
    <2>3. Step(tree, s).st = "notdir" /\ Step(tree, more).st = "notdir"
      BY <2>1, <2>2 DEF State, more
    <2> QED BY <2>3 DEF more
  <1>6. CASE Is("dir", tree, s.at) /\ Head(s.rest) = ".." /\ s.at = <<>>
    <2>1. Step(tree, s) = [s EXCEPT !.st = "escape"]
      BY <1>6, Zenon DEF Step
    <2>2. Step(tree, more) = [more EXCEPT !.st = "escape"]
      BY <1>3, <1>4, <1>6, Zenon DEF Step
    <2>3. Step(tree, s).st = "escape" /\ Step(tree, more).st = "escape"
      BY <2>1, <2>2 DEF State, more
    <2> QED BY <2>3 DEF more
  <1>7. CASE Is("dir", tree, s.at) /\ Head(s.rest) = ".." /\ s.at # <<>>
    <2>1. Step(tree, s) = [s EXCEPT !.at = Front(s.at), !.rest = Tail(s.rest)]
      BY <1>7, Zenon DEF Step
    <2>2. Step(tree, more) = [more EXCEPT !.at = Front(more.at), !.rest = Tail(more.rest)]
      BY <1>3, <1>4, <1>7, Zenon DEF Step
    <2>3. Step(tree, s) = [at |-> Front(s.at), rest |-> Tail(s.rest), st |-> "walk"]
      BY <2>1 DEF State
    <2>4. Step(tree, more) = [at |-> Front(s.at), rest |-> Tail(s.rest) \o R, st |-> "walk"]
      BY <1>3, <1>4, <2>2 DEF more
    <2> QED BY <2>3, <2>4 DEF more
  <1>8. CASE Is("dir", tree, s.at) /\ Head(s.rest) # ".." /\ next \notin DOMAIN tree
    <2>1. Step(tree, s) = [s EXCEPT !.st = "absent"]
      BY <1>8, Zenon DEF Step
    <2>2. Step(tree, more) = [more EXCEPT !.st = "absent"]
      BY <1>3, <1>4, <1>8, Zenon DEF Step
    <2>3. Step(tree, s).st = "absent" /\ Step(tree, more).st = "absent"
      BY <2>1, <2>2 DEF State, more
    <2> QED BY <2>3 DEF more
  <1>9. CASE Is("dir", tree, s.at) /\ Head(s.rest) # ".." /\ next \in DOMAIN tree /\ tree[next].t # "link"
    <2>1. Step(tree, s) = [s EXCEPT !.at = next, !.rest = Tail(s.rest)]
      BY <1>9, Zenon DEF Step
    <2>2. Step(tree, more) = [more EXCEPT !.at = next, !.rest = Tail(more.rest)]
      BY <1>3, <1>4, <1>9, Zenon DEF Step
    <2> HIDE DEF next
    <2>3. Step(tree, s) = [at |-> next, rest |-> Tail(s.rest), st |-> "walk"]
      BY <2>1 DEF State
    <2>4. Step(tree, more) = [at |-> next, rest |-> Tail(s.rest) \o R, st |-> "walk"]
      BY <1>3, <1>4, <2>2 DEF more
    <2> QED BY <2>3, <2>4 DEF more
  <1>10. CASE Is("dir", tree, s.at) /\ Head(s.rest) # ".." /\ next \in DOMAIN tree /\ tree[next].t = "link"
    <2> DEFINE at == IF tree[next].abs THEN <<>> ELSE s.at
    <2>1. Step(tree, s) = [s EXCEPT !.at = at, !.rest = tree[next].to \o Tail(s.rest)]
      BY <1>10 DEF Step
    <2>2. Step(tree, more) = [more EXCEPT !.at = at, !.rest = tree[next].to \o Tail(more.rest)]
      BY <1>3, <1>4, <1>10 DEF Step
    <2>3. tree[next].to \in Seq(Up)
      BY <1>10, TreeNode
    <2> HIDE DEF next, at
    <2>4. Step(tree, s) = [at |-> at, rest |-> tree[next].to \o Tail(s.rest), st |-> "walk"]
      BY <2>1 DEF State
    <2>5. Step(tree, more) = [at |-> at, rest |-> tree[next].to \o (Tail(s.rest) \o R), st |-> "walk"]
      BY <1>3, <1>4, <2>2 DEF more
    <2>6. tree[next].to \o (Tail(s.rest) \o R) = (tree[next].to \o Tail(s.rest)) \o R
      <3>1. \A x, y \in Seq(Up) : x \o (y \o R) = (x \o y) \o R
        BY ConcatAssociative
      <3> QED BY <1>2, <2>3, <3>1
    <2> DEFINE rest == tree[next].to \o Tail(s.rest)
    <2>7. Step(tree, s) = [at |-> at, rest |-> rest, st |-> "walk"]
      BY <2>4
    <2>8. Step(tree, more) = [at |-> at, rest |-> rest \o R, st |-> "walk"]
      BY <2>5, <2>6
    <2> HIDE DEF rest
    <2> QED BY <2>7, <2>8
  <1> HIDE DEF next
  <1> QED BY <1>5, <1>6, <1>7, <1>8, <1>9, <1>10, Zenon

-----------------------------------------------------------------------------
\* To remove a link that leads nowhere changes no walk that arrives.

\* A walk that reads p: its next step asks what is there.
Reads(tree, p, s) == /\ s.st = "walk" /\ s.rest # <<>> /\ Is("dir", tree, s.at)
                     /\ Head(s.rest) # ".." /\ Append(s.at, Head(s.rest)) = p

LEMMA WithoutIs ==
    ASSUME NEW tree, NEW p, NEW q, q # p
    PROVE  LET new == Without(tree, {p})
           IN /\ q \in DOMAIN new <=> q \in DOMAIN tree
              /\ q \in DOMAIN tree => new[q] = tree[q]
              /\ \A type : Is(type, new, q) <=> Is(type, tree, q)
  BY DEF Without, Is, Exists, Node

LEMMA StepWithout ==
    ASSUME NEW tree, IsTree(tree), NEW p \in DOMAIN tree, tree[p].t = "link",
           NEW s \in State(tree), ~Reads(tree, p, s)
    PROVE  Step(Without(tree, {p}), s) = Step(tree, s)
  <1> DEFINE new == Without(tree, {p})
             next == Append(s.at, Head(s.rest))
  <1>1. s.at # p
    <2>1. s.at \in Places(tree) /\ p # <<>>
      BY TreeNode DEF State
    <2> QED BY <2>1 DEF Places
  <1>2. Is("dir", new, s.at) <=> Is("dir", tree, s.at)
    BY <1>1, WithoutIs
  <1> HIDE DEF new
  <1>3. CASE s.st # "walk" \/ s.rest = <<>> \/ ~Is("dir", tree, s.at)
    BY <1>2, <1>3, Zenon DEF Step, new
  <1>4. CASE s.st = "walk" /\ s.rest # <<>> /\ Is("dir", tree, s.at) /\ Head(s.rest) = ".."
    BY <1>2, <1>4, Zenon DEF Step, new
  <1>5. CASE s.st = "walk" /\ s.rest # <<>> /\ Is("dir", tree, s.at) /\ Head(s.rest) # ".."
    <2>1. next # p
      BY <1>5 DEF Reads
    <2>2. (next \in DOMAIN new <=> next \in DOMAIN tree) /\ (next \in DOMAIN tree => new[next] = tree[next])
      <3> HIDE DEF next
      <3> QED BY <2>1, WithoutIs DEF new
    <2>3. CASE next \notin DOMAIN tree
      <3>1. Step(tree, s) = [s EXCEPT !.st = "absent"]
        BY <1>5, <2>3, Zenon DEF Step
      <3>2. Step(new, s) = [s EXCEPT !.st = "absent"]
        BY <1>2, <1>5, <2>2, <2>3, Zenon DEF Step
      <3> QED BY <3>1, <3>2 DEF new
    <2>4. CASE next \in DOMAIN tree
      <3>1. next \in DOMAIN new /\ new[next] = tree[next]
        BY <2>2, <2>4, Zenon
      <3>2. Step(new, s) = Step(tree, s)
        BY <1>2, <1>5, <2>4, <3>1 DEF Step
      <3> QED BY <3>2 DEF new
    <2> QED BY <2>3, <2>4
  <1> QED BY <1>3, <1>4, <1>5

\* The step with which a walk ends.
LEMMA LastStep ==
    ASSUME NEW tree, NEW p, NEW w, IsWalk(tree, p, w), w[MaxWalk].st # "walk"
    PROVE  \E m \in 1..MaxWalk : /\ w[m].st = w[MaxWalk].st
                                 /\ \A j \in 0..(m - 1) : w[j].st = "walk"
  <1>0. MaxWalk \in Nat
    BY TreeAssumption
  <1> DEFINE I == {i \in 0..MaxWalk : w[i].st # "walk"}
  <1>1. MaxWalk \in I /\ I \in SUBSET Nat
    BY <1>0
  <1>2. PICK m \in I : \A y \in I : m <= y
    BY <1>1, Least
  <1>3. m # 0
    BY DEF IsWalk, Start
  <1>4. m \in 1..MaxWalk
    BY <1>0, <1>3
  <1>5. ASSUME NEW j \in 0..(m - 1) PROVE w[j].st = "walk"
    <2>1. j \in 0..MaxWalk /\ ~(m <= j)
      BY <1>0, <1>4
    <2> QED BY <1>2, <2>1
  <1>6. w[MaxWalk] = w[m]
    BY <1>0, Stays
  <1> QED BY <1>4, <1>5, <1>6

\* A walk that reads a link that leads nowhere does not arrive: from there it does
\* what the resolution of the link does.
LEMMA ReadsNothing ==
    ASSUME NEW tree, IsTree(tree),
           NEW p \in DOMAIN tree, Eval(tree, p).st \in {"absent", "escape"},
           NEW q \in Seq(Up), NEW w, IsWalk(tree, q, w),
           NEW i \in 0..MaxWalk, Reads(tree, p, w[i])
    PROVE  ~Resolves(tree, q)
  <1>0. MaxWalk \in Nat
    BY TreeAssumption
  <1>1. p \in Seq(Name) /\ p # <<>> /\ Is("dir", tree, Front(p)) /\ p \in Seq(Up)
    BY TreeNode, SeqMonotonic DEF Up
  <1>2. PICK v : IsWalk(tree, p, v) /\ Eval(tree, p) = Ends(v)
    BY EvalIs
  <1>3. v[MaxWalk].st \in {"absent", "escape"}
    BY <1>2 DEF Ends
  <1> DEFINE n == Len(p) - 1
             last == SubSeq(p, Len(p), Len(p))
             R == Tail(w[i].rest)
             More(s) == [at |-> s.at, rest |-> s.rest \o R, st |-> "walk"]
  <1>4. /\ n \in Nat /\ n < MaxWalk
        /\ v[n] = [at |-> Front(p), rest |-> last, st |-> "walk"]
        /\ last # <<>> /\ Head(last) = Last(p) /\ Tail(last) = <<>>
    <2>1. /\ n \in Nat
          /\ last # <<>> /\ Head(last) = Last(p) /\ Tail(last) = <<>>
          /\ n <= MaxWalk => v[n] = [at |-> Front(p), rest |-> last, st |-> "walk"]
          /\ n >= MaxWalk => v[MaxWalk].st = "walk"
      BY <1>1, <1>2, WalkToLast
    <2> HIDE DEF n, last
    <2> QED BY <1>0, <1>3, <2>1
  <1> HIDE DEF n, last
  <1>5. last \in Seq(Up) /\ \A k \in 0..MaxWalk : v[k] \in State(tree) /\ w[k] \in State(tree)
    <2>1. \A k \in 0..MaxWalk : v[k] \in State(tree) /\ w[k] \in State(tree)
      BY <1>1, <1>2, WalkState
    <2>2. v[n].rest = last /\ v[n] \in State(tree)
      BY <1>0, <1>4, <2>1
    <2> QED BY <2>1, <2>2 DEF State
  <1>6. R \in Seq(Up) /\ w[i] = More(v[n])
    <2>1. /\ w[i].rest \in Seq(Up) /\ w[i].at \in Seq(Name) /\ w[i].st = "walk" /\ w[i].rest # <<>>
          /\ w[i] = [at |-> w[i].at, rest |-> w[i].rest, st |-> "walk"]
      BY <1>5 DEF State, Places, Reads
    <2>2. R \in Seq(Up) /\ w[i].rest = <<Head(w[i].rest)>> \o R
      BY <2>1, HeadTailPath
    <2>3. Head(w[i].rest) \in Name
      BY <2>1, HeadTailPath DEF Reads, Up
    <2>4. w[i].at = Front(p) /\ Head(w[i].rest) = Last(p)
      <3>1. Append(w[i].at, Head(w[i].rest)) = p
        BY DEF Reads
      <3>2. \A a \in Seq(Name), x \in Name : Front(Append(a, x)) = a /\ Last(Append(a, x)) = x
        BY AppendPath
      <3> QED BY <2>1, <2>3, <3>1, <3>2
    <2>5. last = <<Last(p)>>
      <3>1. last = <<Head(last)>> \o Tail(last)
        BY <1>4, <1>5, HeadTailPath
      <3>2. <<Last(p)>> \o <<>> = <<Last(p)>>
        BY <1>1, FrontPath, ConcatEmptySeq
      <3> QED BY <1>4, <3>1, <3>2
    <2>6. w[i].rest = last \o R
      BY <2>2, <2>4, <2>5
    <2> HIDE DEF R
    <2> QED BY <1>4, <2>1, <2>2, <2>4, <2>6
  <1>7. PICK m \in 1..MaxWalk : v[m].st = v[MaxWalk].st /\ \A j \in 0..(m - 1) : v[j].st = "walk"
    BY <1>2, <1>3, LastStep
  <1>8. n <= m - 1
    <2> SUFFICES ASSUME m <= n PROVE FALSE
      BY <1>0, <1>4
    <2>1. n \in m..MaxWalk /\ m \in 0..MaxWalk
      BY <1>0, <1>4
    <2>2. v[m].st # "walk"
      BY <1>3, <1>7
    <2>3. v[n] = v[m]
      BY <1>2, <2>1, <2>2, Stays
    <2> QED BY <1>4, <2>2, <2>3
  <1> DEFINE K == (m - 1) - n
             J == {k \in 0..K : i + k <= MaxWalk => w[i + k] = More(v[n + k])}
  <1>9. K \in Nat
    BY <1>0, <1>4, <1>8
  <1>10. \A k \in 0..K : n + k \in 0..MaxWalk /\ n + k < MaxWalk /\ v[n + k].st = "walk"
    <2>1. \A k \in 0..K : n + k \in 0..(m - 1)
      BY <1>0, <1>4, <1>8
    <2> QED BY <1>0, <1>7, <2>1
  <1>11. \A k \in 0..K : v[n + k].rest # <<>>
    <2> SUFFICES ASSUME NEW k \in 0..K, v[n + k].rest = <<>> PROVE FALSE
      OBVIOUS
    <2>1. (n + k) + 1 \in 0..MaxWalk /\ v[(n + k) + 1] = Step(tree, v[n + k])
      BY <1>2, <1>10, NextStep
    <2>2. v[n + k].st = "walk"
      BY <1>10
    <2>3. Step(tree, v[n + k]) = [v[n + k] EXCEPT !.st = "ok"]
      BY <2>2, Zenon DEF Step
    <2>4. v[(n + k) + 1].st = "ok"
      BY <1>5, <1>10, <2>1, <2>3 DEF State
    <2>5. Eval(tree, p).st = "ok"
      BY <1>2, <2>1, <2>4, Stays
    <2> QED BY <2>5
  <1>12. ASSUME NEW k \in 0..K
         PROVE  /\ Step(tree, More(v[n + k])).st = v[(n + k) + 1].st
                /\ v[(n + k) + 1].st = "walk" => Step(tree, More(v[n + k])) = More(v[(n + k) + 1])
    <2>1. v[(n + k) + 1] = Step(tree, v[n + k])
      BY <1>2, <1>10, NextStep
    <2>2. v[n + k] \in State(tree) /\ v[n + k].st = "walk" /\ v[n + k].rest # <<>>
      BY <1>5, <1>10, <1>11
    <2>3. R \in Seq(Up)
      BY <1>6
    <2> HIDE DEF R
    <2>4. /\ Step(tree, More(v[n + k])).st = Step(tree, v[n + k]).st
          /\ Step(tree, v[n + k]).st = "walk" => Step(tree, More(v[n + k])) = More(Step(tree, v[n + k]))
      BY <2>2, <2>3, StepMore
    <2> QED BY <2>1, <2>4
  <1> HIDE DEF More, R
  <1>13. \A k \in 0..K : k \in J
    <2>1. 0 \in J
      <3>1. i + 0 = i /\ n + 0 = n /\ 0 \in 0..K
        BY <1>0, <1>4, <1>9
      <3> HIDE DEF K
      <3> QED BY <1>6, <3>1
    <2>2. ASSUME NEW k \in 0..K, k \in J, k < K PROVE k + 1 \in J
      <3> SUFFICES ASSUME i + (k + 1) <= MaxWalk PROVE w[i + (k + 1)] = More(v[n + (k + 1)])
        BY <1>9, <2>2
      <3>1. /\ i + k <= MaxWalk /\ i + k < MaxWalk /\ i + k \in 0..MaxWalk
            /\ (i + k) + 1 = i + (k + 1) /\ (n + k) + 1 = n + (k + 1) /\ k + 1 \in 0..K
        BY <1>0, <1>4, <1>9, <2>2
      <3>2. w[i + k] = More(v[n + k])
        BY <2>2, <3>1
      <3>3. w[(i + k) + 1] = Step(tree, w[i + k])
        BY <3>1, NextStep
      <3>4. v[(n + k) + 1].st = "walk"
        BY <1>10, <3>1
      <3> QED BY <1>12, <3>1, <3>2, <3>3, <3>4
    <2> HIDE DEF J, K
    <2> QED BY <1>9, <2>1, <2>2, InductionTo
  <1>14. \A s : More(s).st = "walk"
    BY DEF More
  <1>15. CASE i + K < MaxWalk
    <2>1. /\ K \in 0..K /\ i + K \in 0..MaxWalk /\ (n + K) + 1 = m
      BY <1>0, <1>4, <1>9, <1>15
    <2>2. w[i + K] = More(v[n + K])
      BY <1>13, <1>15, <2>1
    <2>3. (i + K) + 1 \in 0..MaxWalk /\ w[(i + K) + 1] = Step(tree, w[i + K])
      BY <1>15, <2>1, NextStep
    <2>4. w[(i + K) + 1].st = v[m].st
      <3>1. Step(tree, More(v[n + K])).st = v[(n + K) + 1].st
        BY <1>12, <2>1
      <3> QED BY <2>1, <2>2, <2>3, <3>1
    <2>5. w[(i + K) + 1].st \in {"absent", "escape"}
      BY <1>3, <1>7, <2>4
    <2>6. Eval(tree, q).st = w[(i + K) + 1].st
      BY <2>3, <2>5, Stays
    <2> QED BY <2>5, <2>6 DEF Resolves
  <1>16. CASE i + K >= MaxWalk
    <2>1. MaxWalk - i \in 0..K /\ i + (MaxWalk - i) = MaxWalk
      BY <1>0, <1>9, <1>16
    <2>2. w[MaxWalk].st = "walk"
      BY <1>0, <1>13, <1>14, <2>1
    <2>3. Eval(tree, q) = Ends(w)
      BY EvalOf
    <2> QED BY <2>2, <2>3 DEF Resolves, Ends
  <1> QED BY <1>0, <1>9, <1>15, <1>16

LEMMA WithoutDangling ==
    ASSUME NEW tree, IsTree(tree),
           NEW p \in DOMAIN tree, tree[p].t = "link", Eval(tree, p).st \in {"absent", "escape"},
           NEW q \in Seq(Up), Resolves(tree, q)
    PROVE  Resolves(Without(tree, {p}), q)
  <1>1. PICK w : IsWalk(tree, q, w) /\ Eval(tree, q) = Ends(w)
    BY EvalIs
  <1>2. \A i \in 0..MaxWalk : w[i] \in State(tree)
    BY <1>1, WalkState
  <1>3. \A i \in 0..MaxWalk : ~Reads(tree, p, w[i])
    BY <1>1, ReadsNothing
  <1>4. \A i \in 0..MaxWalk : Step(Without(tree, {p}), w[i]) = Step(tree, w[i])
    BY <1>2, <1>3, StepWithout
  <1>5. Eval(Without(tree, {p}), q) = Eval(tree, q)
    BY <1>1, <1>4, SameWalk
  <1> QED BY <1>5 DEF Resolves

-----------------------------------------------------------------------------
\* What is in the store has nothing to do with the output: a path that does not
\* mention it leads to the same place, whatever the output holds.

In == Name \ {Out}
InUp == In \cup {".."}
InState == [at : Seq(In), rest : Seq(InUp), st : Sts]
LinksIn(tree) == \A p \in DOMAIN tree : p \in Seq(In) /\ tree[p].t = "link" => tree[p].to \in Seq(InUp)

LEMMA InIs == /\ Seq(In) \subseteq Seq(Name) /\ Seq(In) \subseteq Seq(InUp) /\ InUp \subseteq Up
              /\ ".." \notin In /\ In \subseteq Name /\ Seq(InUp) \subseteq Seq(Up)
  BY TreeAssumption, SeqMonotonic DEF In, InUp, Up

LEMMA StepIn ==
    ASSUME NEW tree, IsTree(tree), LinksIn(tree), NEW w \in InState
    PROVE  Step(tree, w) \in InState
  <1>1. w.at \in Seq(In) /\ w.rest \in Seq(InUp) /\ w.st \in Sts
    BY DEF InState
  <1>2. w = [at |-> w.at, rest |-> w.rest, st |-> w.st]
    BY DEF InState
  <1>3. CASE w.st # "walk" \/ w.rest = <<>> \/ ~Is("dir", tree, w.at)
    <2>1. Step(tree, w) \in {w, [w EXCEPT !.st = "ok"], [w EXCEPT !.st = "notdir"]}
      BY <1>3, Zenon DEF Step
    <2> QED BY <1>1, <1>2, <2>1 DEF InState, Sts
  <1>4. CASE w.st = "walk" /\ w.rest # <<>> /\ Is("dir", tree, w.at)
    <2> DEFINE next == Append(w.at, Head(w.rest))
    <2>0. Head(w.rest) \in InUp /\ Tail(w.rest) \in Seq(InUp)
      BY <1>1, <1>4, HeadTailPath
    <2>00. Head(w.rest) # ".." => next \in Seq(In)
      BY <1>1, <2>0, AppendPath DEF InUp
    <2>1. CASE Head(w.rest) = ".." /\ w.at = <<>>
      <3>1. Step(tree, w) = [w EXCEPT !.st = "escape"]
        BY <1>4, <2>1, Zenon DEF Step
      <3> QED BY <1>1, <1>2, <3>1 DEF InState, Sts
    <2>2. CASE Head(w.rest) = ".." /\ w.at # <<>>
      <3>1. Step(tree, w) = [w EXCEPT !.at = Front(w.at), !.rest = Tail(w.rest)]
        BY <1>4, <2>2, Zenon DEF Step
      <3>3. Front(w.at) \in Seq(In)
        BY <1>1, <2>2, FrontPath
      <3> QED BY <1>1, <1>2, <2>0, <3>1, <3>3 DEF InState
    <2>3. CASE Head(w.rest) # ".." /\ next \notin DOMAIN tree
      <3>1. Step(tree, w) = [w EXCEPT !.st = "absent"]
        BY <1>4, <2>3, Zenon DEF Step
      <3> QED BY <1>1, <1>2, <3>1 DEF InState, Sts
    <2>4. CASE Head(w.rest) # ".." /\ next \in DOMAIN tree /\ tree[next].t # "link"
      <3>1. Step(tree, w) = [w EXCEPT !.at = next, !.rest = Tail(w.rest)]
        BY <1>4, <2>4, Zenon DEF Step
      <3> HIDE DEF next
      <3> QED BY <1>1, <1>2, <2>0, <2>00, <2>4, <3>1 DEF InState
    <2>5. CASE Head(w.rest) # ".." /\ next \in DOMAIN tree /\ tree[next].t = "link"
      <3> DEFINE to == tree[next].to \o Tail(w.rest)
                 at == IF tree[next].abs THEN <<>> ELSE w.at
      <3>1. Step(tree, w) = [w EXCEPT !.at = at, !.rest = to]
        BY <1>4, <2>5 DEF Step
      <3>2. to \in Seq(InUp)
        <4>1. tree[next].to \in Seq(InUp)
          <5> HIDE DEF next
          <5> QED BY <2>00, <2>5 DEF LinksIn
        <4> QED BY <2>0, <4>1, ConcatProperties
      <3>3. at \in Seq(In)
        BY <1>1, EmptySeq
      <3> HIDE DEF to, at, next
      <3> QED BY <1>1, <1>2, <3>1, <3>2, <3>3 DEF InState
    <2> QED BY <2>1, <2>2, <2>3, <2>4, <2>5
  <1> QED BY <1>1, <1>3, <1>4

LEMMA WalkIn ==
    ASSUME NEW tree, IsTree(tree), LinksIn(tree), NEW p \in Seq(InUp), NEW w, IsWalk(tree, p, w)
    PROVE  \A i \in 0..MaxWalk : w[i] \in InState
  <1>0. MaxWalk \in Nat
    BY TreeAssumption
  <1> DEFINE I == {n \in 0..MaxWalk : w[n] \in InState}
  <1>1. 0 \in I
    <2>1. <<>> \in Seq(In)
      BY EmptySeq
    <2>2. Start(p) \in InState
      BY <2>1 DEF Start, InState, Sts
    <2>3. w[0] = Start(p) /\ 0 \in 0..MaxWalk
      BY <1>0 DEF IsWalk
    <2> QED BY <2>2, <2>3
  <1>2. ASSUME NEW n \in 0..MaxWalk, n \in I, n < MaxWalk PROVE n + 1 \in I
    <2>1. n + 1 \in 0..MaxWalk /\ w[n + 1] = Step(tree, w[n])
      BY <1>2, NextStep
    <2> QED BY <1>2, <2>1, StepIn
  <1> HIDE DEF I
  <1>3. \A n \in 0..MaxWalk : n \in I
    BY <1>0, <1>1, <1>2, InductionTo
  <1> QED BY <1>3 DEF I

\* Two trees that agree on what does not mention the output.
Agree(t1, t2) == \A p \in Seq(In) : /\ p \in DOMAIN t1 <=> p \in DOMAIN t2
                                    /\ p \in DOMAIN t1 => t2[p] = t1[p]

LEMMA AgreeStep ==
    ASSUME NEW t1, NEW t2, Agree(t1, t2), NEW s \in InState
    PROVE  Step(t2, s) = Step(t1, s)
  <1> DEFINE next == Append(s.at, Head(s.rest))
  <1>1. s.at \in Seq(In) /\ s.rest \in Seq(InUp)
    BY DEF InState
  <1>2. Is("dir", t2, s.at) <=> Is("dir", t1, s.at)
    BY <1>1 DEF Is, Exists, Node, Agree
  <1>3. CASE s.st # "walk" \/ s.rest = <<>> \/ ~Is("dir", t1, s.at)
    BY <1>2, <1>3, Zenon DEF Step
  <1>4. CASE s.st = "walk" /\ s.rest # <<>> /\ Is("dir", t1, s.at) /\ Head(s.rest) = ".."
    BY <1>2, <1>4, Zenon DEF Step
  <1>5. CASE s.st = "walk" /\ s.rest # <<>> /\ Is("dir", t1, s.at) /\ Head(s.rest) # ".."
    <2>1. next \in Seq(In)
      BY <1>1, <1>5, HeadTailPath, AppendPath DEF InUp
    <2>2. (next \in DOMAIN t2 <=> next \in DOMAIN t1) /\ (next \in DOMAIN t1 => t2[next] = t1[next])
      <3> HIDE DEF next
      <3> QED BY <2>1 DEF Agree
    <2>3. CASE next \notin DOMAIN t1
      <3>1. Step(t1, s) = [s EXCEPT !.st = "absent"]
        BY <1>5, <2>3, Zenon DEF Step
      <3>2. Step(t2, s) = [s EXCEPT !.st = "absent"]
        BY <1>2, <1>5, <2>2, <2>3, Zenon DEF Step
      <3> QED BY <3>1, <3>2
    <2>4. CASE next \in DOMAIN t1
      <3>1. next \in DOMAIN t2 /\ t2[next] = t1[next]
        BY <2>2, <2>4, Zenon
      <3> QED BY <1>2, <1>5, <2>4, <3>1 DEF Step
    <2> QED BY <2>3, <2>4
  <1> QED BY <1>3, <1>4, <1>5

LEMMA AgreeEval ==
    ASSUME NEW t1, NEW t2, IsTree(t1), LinksIn(t1), Agree(t1, t2), NEW p \in Seq(InUp)
    PROVE  /\ Eval(t2, p) = Eval(t1, p)
           /\ Eval(t1, p).at \in Seq(In)
  <1>0. MaxWalk \in 0..MaxWalk
    BY TreeAssumption
  <1>1. PICK w : IsWalk(t1, p, w) /\ Eval(t1, p) = Ends(w)
    BY EvalIs
  <1>2. \A i \in 0..MaxWalk : w[i] \in InState
    BY <1>1, WalkIn
  <1>3. \A i \in 0..MaxWalk : Step(t2, w[i]) = Step(t1, w[i])
    BY <1>2, AgreeStep
  <1>4. Eval(t2, p) = Eval(t1, p)
    BY <1>1, <1>3, SameWalk
  <1>5. w[MaxWalk] \in InState
    BY <1>0, <1>2
  <1>6. Eval(t1, p).at \in Seq(In)
    BY <1>1, <1>5 DEF Ends, InState
  <1> QED BY <1>4, <1>6

\* What a file contains is nothing to a resolution.
Alike(t1, t2) == /\ DOMAIN t2 = DOMAIN t1
                 /\ \A p \in DOMAIN t1 : /\ t2[p].t = t1[p].t
                                         /\ t1[p].t = "link" => t2[p] = t1[p]

LEMMA AlikeStep ==
    ASSUME NEW t1, NEW t2, Alike(t1, t2), NEW s
    PROVE  Step(t2, s) = Step(t1, s)
  <1> DEFINE next == Append(s.at, Head(s.rest))
  <1>1. Is("dir", t2, s.at) <=> Is("dir", t1, s.at)
    BY DEF Is, Exists, Node, Alike
  <1>2. /\ next \in DOMAIN t2 <=> next \in DOMAIN t1
        /\ next \in DOMAIN t1 => t2[next].t = t1[next].t /\ (t1[next].t = "link" => t2[next] = t1[next])
    <2> HIDE DEF next
    <2> QED BY DEF Alike
  <1>3. CASE s.st # "walk" \/ s.rest = <<>> \/ ~Is("dir", t1, s.at)
    BY <1>1, <1>3, Zenon DEF Step
  <1>4. CASE s.st = "walk" /\ s.rest # <<>> /\ Is("dir", t1, s.at)
    <2>1. CASE Head(s.rest) = ".."
      BY <1>1, <1>4, <2>1, Zenon DEF Step
    <2>2. CASE Head(s.rest) # ".." /\ next \notin DOMAIN t1
      <3>1. Step(t1, s) = [s EXCEPT !.st = "absent"]
        BY <1>4, <2>2, Zenon DEF Step
      <3>2. Step(t2, s) = [s EXCEPT !.st = "absent"]
        BY <1>1, <1>2, <1>4, <2>2, Zenon DEF Step
      <3> QED BY <3>1, <3>2
    <2>3. CASE Head(s.rest) # ".." /\ next \in DOMAIN t1 /\ t1[next].t # "link"
      <3>1. Step(t1, s) = [s EXCEPT !.at = next, !.rest = Tail(s.rest)]
        BY <1>4, <2>3, Zenon DEF Step
      <3>2. Step(t2, s) = [s EXCEPT !.at = next, !.rest = Tail(s.rest)]
        BY <1>1, <1>2, <1>4, <2>3, Zenon DEF Step
      <3> QED BY <3>1, <3>2
    <2>4. CASE Head(s.rest) # ".." /\ next \in DOMAIN t1 /\ t1[next].t = "link"
      <3>1. next \in DOMAIN t2 /\ t2[next] = t1[next]
        BY <1>2, <2>4, Zenon
      <3> QED BY <1>1, <1>4, <2>4, <3>1 DEF Step
    <2> QED BY <2>1, <2>2, <2>3, <2>4
  <1> QED BY <1>3, <1>4

LEMMA AlikeEval ==
    ASSUME NEW t1, NEW t2, Alike(t1, t2), NEW p
    PROVE  Eval(t2, p) = Eval(t1, p)
  <1>1. PICK w : IsWalk(t1, p, w) /\ Eval(t1, p) = Ends(w)
    BY EvalIs
  <1> QED BY <1>1, AlikeStep, SameWalk

-----------------------------------------------------------------------------
\* artifact.  The strengthened invariant, in parts: what is on the disk, the nodes
\* that are still to be copied, and what the later passes have left.

Stored(tree, p) ==
    /\ p \in Seq(In)
    /\ tree[p].t = "link" => /\ tree[p].to \in Seq(InUp)
                             /\ Resolves(tree, p) => Eval(tree, p).at # <<>>
StoreOK(tree) == \A p \in DOMAIN tree : p[1] = Out \/ Stored(tree, p)
SourceDirs(tree) == {p \in DOMAIN tree : tree[p].t = "dir" /\ p[1] # Out}

\* A node to copy: it is in the store, there is nothing yet where it goes, and what
\* is being copied around it are as many directories as it is deep.
JobOK(tree, j) == /\ j = Job(j.src, j.dst, j.active)
                  /\ j.src \in DOMAIN tree /\ j.src \in Seq(In)
                  /\ j.dst \in Seq(Name) /\ j.dst # <<>> /\ j.dst[1] = Out
                  /\ Is("dir", tree, Front(j.dst))
                  /\ \A q \in DOMAIN tree : ~IsPrefix(j.dst, q)
                  /\ j.active \subseteq SourceDirs(tree)
                  /\ Len(j.dst) = 2 + Cardinality(j.active)
Apart(J) == \A j, k \in J : j # k => ~IsPrefix(j.dst, k.dst)

DiskInv == IsTree(disk) /\ IsFiniteSet(DOMAIN disk)
CopyInv == pass = "copy" => StoreOK(disk) /\ (\A j \in todo : JobOK(disk, j)) /\ Apart(todo)
ContentInv ==
    IF pass \in {"archive", "done"}
    THEN \A p \in Built : disk[p].t = "file" => \E c \in Content : disk[p].c = Rewritten[c]
    ELSE \A p \in DOMAIN disk : disk[p].t = "file" => disk[p].c \in Content
TodoInv == /\ pass = "drop" => todo \subseteq DOMAIN Dropped
           /\ pass = "prepare" => todo \subseteq Files(disk)
           /\ pass = "dangling" => todo \subseteq Links(disk)
           /\ pass = "archive" => todo \subseteq DOMAIN disk
Hides == (Static \cup DOMAIN Public) \ Taken
NameInv ==
    pass \in {"prepare", "dangling", "rewrite", "archive", "done"} => \A p \in Built :
        disk[p].t = "file" /\ Last(p) \in Hides => pass = "prepare" /\ p \in todo
LinkInv ==
    pass \in {"dangling", "rewrite", "archive", "done"} => \A p \in Built :
        disk[p].t = "link" => \/ Resolves(disk, p)
                              \/ pass = "dangling" /\ p \in todo

BuildInv == DiskInv /\ CopyInv /\ ContentInv /\ TodoInv /\ NameInv /\ LinkInv /\ TarOK
Inv == BuildInv /\ ReadInv /\ PkgInv /\ AcceptedClosed

LEMMA WithFinite ==
    ASSUME NEW tree, IsFiniteSet(DOMAIN tree), NEW p, NEW n
    PROVE  IsFiniteSet(DOMAIN With(tree, p, n))
  <1>1. IsFiniteSet(DOMAIN tree \cup {p})
    BY FS_AddElement
  <1> QED BY <1>1 DEF With

LEMMA WithoutFinite ==
    ASSUME NEW tree, IsFiniteSet(DOMAIN tree), NEW P
    PROVE  IsFiniteSet(DOMAIN Without(tree, P))
  <1>1. IsFiniteSet(DOMAIN tree \ P)
    BY FS_Subset
  <1> QED BY <1>1 DEF Without

LEMMA OutsideIn == ASSUME NEW p, p[1] = Out, p # <<>> PROVE p \notin Seq(In)
  <1> SUFFICES ASSUME p \in Seq(In) PROVE FALSE
    OBVIOUS
  <1>1. p[1] \in In
    BY HeadTailPath
  <1> QED BY <1>1 DEF In

LEMMA StoreLinks ==
    ASSUME NEW tree, IsTree(tree), StoreOK(tree)
    PROVE  LinksIn(tree)
  <1> SUFFICES ASSUME NEW p \in DOMAIN tree, p \in Seq(In), tree[p].t = "link"
               PROVE  tree[p].to \in Seq(InUp)
    BY DEF LinksIn
  <1>1. p[1] # Out
    BY OutsideIn, TreeNode
  <1> QED BY <1>1 DEF StoreOK, Stored

\* The store does not change under a node of the output.
LEMMA StoreGrown ==
    ASSUME NEW tree, IsTree(tree), StoreOK(tree), NEW d, d[1] = Out, d # <<>>, NEW n
    PROVE  StoreOK(With(tree, d, n))
  <1> DEFINE new == With(tree, d, n)
  <1>1. d \notin Seq(In)
    BY OutsideIn
  <1>2. Agree(tree, new)
    BY <1>1 DEF Agree, With
  <1>3. LinksIn(tree)
    BY StoreLinks
  <1> SUFFICES ASSUME NEW p \in DOMAIN new PROVE p[1] = Out \/ Stored(new, p)
    BY DEF StoreOK
  <1>4. CASE p = d
    BY <1>4
  <1>5. CASE p # d
    <2>1. p \in DOMAIN tree /\ new[p] = tree[p]
      BY <1>5 DEF With
    <2>2. ASSUME Stored(tree, p) PROVE Stored(new, p)
      <3>1. p \in Seq(In) /\ p \in Seq(InUp)
        BY <2>2, InIs DEF Stored
      <3>2. Eval(new, p) = Eval(tree, p)
        BY <1>2, <1>3, <3>1, AgreeEval
      <3> HIDE DEF new
      <3> QED BY <2>1, <2>2, <3>2 DEF Stored, Resolves
    <2> QED BY <2>1, <2>2 DEF StoreOK
  <1> QED BY <1>4, <1>5

\* Where a link of the store leads is in the store.
LEMMA StoreTarget ==
    ASSUME NEW tree, IsTree(tree), StoreOK(tree), NEW p \in DOMAIN tree, p \in Seq(In),
           tree[p].t = "link", Resolves(tree, p)
    PROVE  Eval(tree, p).at \in DOMAIN tree /\ Eval(tree, p).at \in Seq(In)
  <1>1. p[1] # Out
    BY OutsideIn, TreeNode
  <1>2. Eval(tree, p).at # <<>>
    BY <1>1 DEF StoreOK, Stored
  <1>3. p \in Seq(InUp) /\ p \in Seq(Up)
    BY InIs
  <1>4. Agree(tree, tree)
    BY DEF Agree
  <1>5. Eval(tree, p).at \in Seq(In)
    BY <1>3, <1>4, StoreLinks, AgreeEval
  <1>6. Eval(tree, p).at \in Places(tree)
    BY <1>3, EvalPlace
  <1> QED BY <1>2, <1>5, <1>6 DEF Places

LEMMA SourceDirsWith ==
    ASSUME NEW tree, NEW d, d \notin DOMAIN tree, d[1] = Out, NEW n
    PROVE  SourceDirs(With(tree, d, n)) = SourceDirs(tree)
  BY DEF SourceDirs, With

\* A job when another node was copied.
LEMMA JobGrown ==
    ASSUME NEW tree, IsTree(tree), NEW j, JobOK(tree, j),
           NEW d, d \notin DOMAIN tree, d # <<>>, d[1] = Out, ~IsPrefix(j.dst, d), NEW n
    PROVE  JobOK(With(tree, d, n), j)
  <1> DEFINE new == With(tree, d, n)
  <1>1. j.src \in DOMAIN new
    BY DEF With, JobOK
  <1>2. Is("dir", new, Front(j.dst))
    BY DEF With, JobOK, Is, Exists, Node
  <1>3. \A q \in DOMAIN new : ~IsPrefix(j.dst, q)
    BY DEF With, JobOK
  <1>4. SourceDirs(new) = SourceDirs(tree)
    BY SourceDirsWith
  <1> HIDE DEF new
  <1>5. JobOK(new, j)
    BY <1>1, <1>2, <1>3, <1>4 DEF JobOK
  <1> QED BY <1>5 DEF new

LEMMA OnlyPrefix ==
    ASSUME NEW d \in Seq(Name), NEW x \in Name
    PROVE  /\ IsPrefix(d, d) /\ IsPrefix(d, Append(d, x))
           /\ ~IsPrefix(Append(d, x), d)
           /\ \A q \in Seq(Name) : IsPrefix(Append(d, x), q) => IsPrefix(d, q)
  <1>1. /\ Append(d, x) \in Seq(Name) /\ Append(d, x) # <<>>
        /\ Len(Append(d, x)) = Len(d) + 1 /\ Front(Append(d, x)) = d
    BY AppendPath
  <1>2. Len(d) \in Nat
    OBVIOUS
  <1>3. IsPrefix(d, d)
    BY <1>2, PrefixIs
  <1>4. IsPrefix(d, Append(d, x))
    BY <1>1, <1>3, PrefixOfAppend
  <1> DEFINE e == Append(d, x)
  <1>7. \A i \in 1..Len(d) : i \in 1..Len(e) /\ e[i] = d[i]
    BY <1>1, <1>2
  <1> HIDE DEF e
  <1>5. ~IsPrefix(e, d)
    <2>1. Len(e) = Len(d) + 1
      BY <1>1 DEF e
    <2> QED BY <1>2, <2>1 DEF IsPrefix
  <1>6. ASSUME NEW q \in Seq(Name), IsPrefix(Append(d, x), q) PROVE IsPrefix(d, q)
    <2>1. Len(e) <= Len(q) /\ \A i \in 1..Len(e) : e[i] = q[i]
      <3>1. e \in Seq(Name) /\ IsPrefix(e, q)
        BY <1>1, <1>6 DEF e
      <3> QED BY <3>1, PrefixIs
    <2>2. Len(e) = Len(d) + 1 /\ Len(q) \in Nat
      BY <1>1 DEF e
    <2>3. Len(d) <= Len(q) /\ \A i \in 1..Len(d) : d[i] = q[i]
      BY <1>2, <1>7, <2>1, <2>2
    <2> QED BY <2>3, PrefixIs
  <1> QED BY <1>3, <1>4, <1>5, <1>6 DEF e

\* The nodes of a directory that is copied.
LEMMA JobOfDir ==
    ASSUME NEW tree, IsTree(tree),
           NEW d \in Seq(Name), d # <<>>, d[1] = Out, Is("dir", tree, d),
           \A q \in DOMAIN tree : IsPrefix(d, q) => q = d,
           NEW active \in SUBSET SourceDirs(tree), Len(d) = 1 + Cardinality(active),
           Cardinality(active) \in Nat,
           NEW q \in DOMAIN tree, q \in Seq(In)
    PROVE  JobOK(tree, Job(q, Append(d, Last(q)), active))
  <1> DEFINE dst == Append(d, Last(q))
             j == Job(q, dst, active)
  <1>1. Last(q) \in Name
    BY TreeNode, FrontPath
  <1>2. /\ dst \in Seq(Name) /\ dst # <<>> /\ Len(dst) = Len(d) + 1 /\ Front(dst) = d /\ dst[1] = Out
    BY <1>1, AppendPath
  <1>3. ASSUME NEW r \in DOMAIN tree PROVE ~IsPrefix(dst, r)
    <2>1. r \in Seq(Name)
      BY TreeNode
    <2> QED BY <1>1, <2>1, OnlyPrefix
  <1> HIDE DEF dst
  <1>4. j.src = q /\ j.dst = dst /\ j.active = active /\ j = Job(j.src, j.dst, j.active)
    BY DEF Job
  <1>5. Len(dst) = 2 + Cardinality(active)
    BY <1>2
  <1> HIDE DEF j
  <1>6. JobOK(tree, j)
    BY <1>2, <1>3, <1>4, <1>5 DEF JobOK
  <1> QED BY <1>6 DEF j, dst

LEMMA EntriesDiffer ==
    ASSUME NEW tree, IsTree(tree), NEW src, NEW q \in Entries(tree, src), NEW r \in Entries(tree, src),
           Last(q) = Last(r)
    PROVE  q = r
  <1>1. q = Append(Front(q), Last(q)) /\ r = Append(Front(r), Last(r))
    BY TreeNode, FrontPath DEF Entries
  <1> QED BY <1>1 DEF Entries

LEMMA JobsApart ==
    ASSUME NEW tree, IsTree(tree), NEW src, NEW d \in Seq(Name), NEW active
    PROVE  Apart(Jobs(tree, src, d, active))
  <1> DEFINE J(q) == Job(q, Append(d, Last(q)), active)
  <1> SUFFICES ASSUME NEW q \in Entries(tree, src), NEW r \in Entries(tree, src), q # r
               PROVE  ~IsPrefix(Append(d, Last(q)), Append(d, Last(r)))
    <2>1. \A q : J(q).dst = Append(d, Last(q))
      BY DEF Job
    <2>2. ASSUME NEW j \in Jobs(tree, src, d, active), NEW k \in Jobs(tree, src, d, active), j # k
          PROVE  ~IsPrefix(j.dst, k.dst)
      <3>1. PICK q \in Entries(tree, src), r \in Entries(tree, src) : j = J(q) /\ k = J(r)
        BY DEF Jobs
      <3> HIDE DEF J
      <3>2. q # r
        BY <2>2, <3>1
      <3> QED BY <2>1, <3>1, <3>2
    <2> QED BY <2>2 DEF Apart
  <1>1. Last(q) \in Name /\ Last(r) \in Name
    BY TreeNode, FrontPath DEF Entries
  <1>2. Last(q) # Last(r)
    BY EntriesDiffer
  <1>3. /\ Append(d, Last(q)) \in Seq(Name) /\ Last(Append(d, Last(q))) = Last(q)
        /\ Append(d, Last(r)) \in Seq(Name) /\ Last(Append(d, Last(r))) = Last(r)
        /\ Append(d, Last(r)) # <<>> /\ Front(Append(d, Last(r))) = d
    BY <1>1, AppendPath
  <1>4. ~IsPrefix(Append(d, Last(q)), d)
    BY <1>1, OnlyPrefix
  <1>5. Append(d, Last(q)) # Append(d, Last(r))
    BY <1>2, <1>3
  <1> QED BY <1>3, <1>4, <1>5, PrefixOfAppend

-----------------------------------------------------------------------------
\* The passes, one lemma for each action.

LEMMA FailInv ==
    ASSUME BuildInv, Fail, pass \notin {"archive", "done"}
    PROVE  BuildInv'
  <1>1. pass' = "failed" /\ todo' = {} /\ disk' = disk /\ tar' = tar
    BY DEF Fail
  <1>2. DiskInv' /\ TarOK'
    BY <1>1 DEF BuildInv, DiskInv, TarOK
  <1>3. ContentInv'
    BY <1>1 DEF BuildInv, ContentInv
  <1>4. CopyInv' /\ TodoInv' /\ NameInv' /\ LinkInv'
    BY <1>1 DEF CopyInv, TodoInv, NameInv, LinkInv
  <1> QED BY <1>2, <1>3, <1>4 DEF BuildInv

\* A node is copied to where nothing was.
LEMMA CopiedNode ==
    ASSUME BuildInv, pass = "copy", NEW j \in todo,
           NEW n, IsNode(n), n.t = "file" => n.c \in Content
    PROVE  LET new == With(disk, j.dst, n)
           IN /\ j.dst \notin DOMAIN disk /\ j.dst # <<>> /\ j.dst[1] = Out
              /\ IsTree(new) /\ IsFiniteSet(DOMAIN new) /\ StoreOK(new)
              /\ \A p \in DOMAIN new : new[p].t = "file" => new[p].c \in Content
              /\ \A k \in todo \ {j} : JobOK(new, k)
              /\ Apart(todo \ {j})
  <1> DEFINE new == With(disk, j.dst, n)
  <1>1. IsTree(disk) /\ IsFiniteSet(DOMAIN disk) /\ StoreOK(disk) /\ JobOK(disk, j) /\ Apart(todo)
    BY DEF BuildInv, DiskInv, CopyInv
  <1>2. /\ j.dst \in Seq(Name) /\ j.dst # <<>> /\ j.dst[1] = Out
        /\ Is("dir", disk, Front(j.dst))
        /\ \A q \in DOMAIN disk : ~IsPrefix(j.dst, q)
    BY <1>1 DEF JobOK
  <1>3. IsPrefix(j.dst, j.dst)
    BY <1>2, PrefixOfAppend
  <1>4. j.dst \notin DOMAIN disk
    BY <1>2, <1>3
  <1>5. \A q \in DOMAIN disk : Front(q) # j.dst
    <2> SUFFICES ASSUME NEW q \in DOMAIN disk, Front(q) = j.dst PROVE FALSE
      OBVIOUS
    <2>1. q \in Seq(Name) /\ q # <<>>
      BY <1>1, TreeNode
    <2>2. IsPrefix(j.dst, q)
      BY <1>2, <1>3, <2>1, PrefixOfAppend
    <2> QED BY <1>2, <2>2
  <1>6. IsTree(new)
    BY <1>1, <1>2, <1>5, TreeWith
  <1>7. IsFiniteSet(DOMAIN new) /\ StoreOK(new)
    BY <1>1, <1>2, WithFinite, StoreGrown
  <1>8. \A p \in DOMAIN new : new[p].t = "file" => new[p].c \in Content
    BY DEF With, BuildInv, ContentInv
  <1>9. ASSUME NEW k \in todo \ {j} PROVE JobOK(new, k)
    <2>1. JobOK(disk, k) /\ ~IsPrefix(k.dst, j.dst)
      BY <1>1 DEF BuildInv, CopyInv, Apart
    <2> QED BY <1>1, <1>2, <1>4, <2>1, JobGrown
  <1>10. Apart(todo \ {j})
    BY <1>1 DEF Apart
  <1> QED BY <1>2, <1>4, <1>6, <1>7, <1>8, <1>9, <1>10

\* What is left to prove of a step of the copy.
LEMMA CopyStep ==
    ASSUME pass' = "copy", tar' = tar, TarOK,
           IsTree(disk'), IsFiniteSet(DOMAIN disk'), StoreOK(disk'),
           \A p \in DOMAIN disk' : disk'[p].t = "file" => disk'[p].c \in Content,
           \A k \in todo' : JobOK(disk', k), Apart(todo')
    PROVE  BuildInv'
  <1>1. DiskInv' /\ CopyInv'
    BY DEF DiskInv, CopyInv, StoreOK, Apart
  <1>2. ContentInv' /\ TodoInv' /\ NameInv' /\ LinkInv' /\ TarOK'
    BY DEF ContentInv, TodoInv, NameInv, LinkInv, TarOK
  <1> QED BY <1>1, <1>2 DEF BuildInv

LEMMA CopyNodeInv ==
    ASSUME BuildInv, pass = "copy", NEW j \in todo, disk[j.src].t # "dir",
           disk' = With(disk, j.dst, disk[j.src]), todo' = todo \ {j}, UNCHANGED <<pass, tar>>
    PROVE  BuildInv'
  <1>1. JobOK(disk, j) /\ IsTree(disk) /\ TarOK
    BY DEF BuildInv, CopyInv, DiskInv
  <1>2. j.src \in DOMAIN disk
    BY <1>1 DEF JobOK
  <1>3. IsNode(disk[j.src])
    BY <1>1, <1>2, TreeNode
  <1>4. disk[j.src].t = "file" => disk[j.src].c \in Content
    BY <1>2 DEF BuildInv, ContentInv
  <1> DEFINE new == With(disk, j.dst, disk[j.src])
  <1>5. /\ IsTree(new) /\ IsFiniteSet(DOMAIN new) /\ StoreOK(new)
        /\ \A p \in DOMAIN new : new[p].t = "file" => new[p].c \in Content
        /\ \A k \in todo \ {j} : JobOK(new, k)
        /\ Apart(todo \ {j})
    BY <1>3, <1>4, CopiedNode
  <1>6. disk' = new /\ pass' = "copy" /\ tar' = tar
    OBVIOUS
  <1> HIDE DEF new
  <1> QED BY <1>1, <1>5, <1>6, CopyStep

LEMMA CopyDirInv ==
    ASSUME BuildInv, pass = "copy", NEW j \in todo, disk[j.src].t = "dir", j.src \notin j.active,
           disk' = With(disk, j.dst, Dir),
           todo' = (todo \ {j}) \cup Jobs(disk, j.src, j.dst, j.active \cup {j.src}),
           UNCHANGED <<pass, tar>>
    PROVE  BuildInv'
  <1> DEFINE new == With(disk, j.dst, Dir)
             active == j.active \cup {j.src}
             J == Jobs(disk, j.src, j.dst, active)
  <1>1. JobOK(disk, j) /\ IsTree(disk) /\ IsFiniteSet(DOMAIN disk) /\ TarOK /\ Apart(todo) /\ StoreOK(disk)
    BY DEF BuildInv, CopyInv, DiskInv
  <1>2. /\ j.src \in DOMAIN disk /\ j.src \in Seq(In)
        /\ j.dst \in Seq(Name) /\ j.dst # <<>> /\ j.dst[1] = Out
        /\ \A q \in DOMAIN disk : ~IsPrefix(j.dst, q)
        /\ j.active \subseteq SourceDirs(disk)
        /\ Len(j.dst) = 2 + Cardinality(j.active)
    BY <1>1 DEF JobOK
  <1>3. IsNode(Dir) /\ Dir.t # "file"
    BY DEF IsNode, Dir
  <1>4. /\ j.dst \notin DOMAIN disk
        /\ IsTree(new) /\ IsFiniteSet(DOMAIN new) /\ StoreOK(new)
        /\ \A p \in DOMAIN new : new[p].t = "file" => new[p].c \in Content
        /\ \A k \in todo \ {j} : JobOK(new, k)
        /\ Apart(todo \ {j})
    BY <1>3, CopiedNode
  <1>5. SourceDirs(new) = SourceDirs(disk)
    BY <1>2, <1>4, SourceDirsWith
  <1>6. active \in SUBSET SourceDirs(new)
    <2>1. j.src # <<>>
      BY <1>1, <1>2, TreeNode
    <2>2. j.src[1] # Out
      BY <1>2, <2>1, OutsideIn
    <2> QED BY <1>2, <1>5, <2>2 DEF SourceDirs
  <1>7. Cardinality(active) \in Nat /\ Len(j.dst) = 1 + Cardinality(active)
    <2>1. IsFiniteSet(j.active)
      <3>1. j.active \subseteq DOMAIN disk
        BY <1>2 DEF SourceDirs
      <3> QED BY <1>1, <3>1, FS_Subset
    <2>2. Cardinality(active) = Cardinality(j.active) + 1 /\ Cardinality(j.active) \in Nat
      BY <2>1, FS_AddElement, FS_CardinalityType
    <2> QED BY <1>2, <2>2
  <1>8. Is("dir", new, j.dst)
    BY DEF Is, Exists, Node, With, Dir
  <1>9. \A q \in DOMAIN new : IsPrefix(j.dst, q) => q = j.dst
    BY <1>2 DEF With
  <1>10. ASSUME NEW k \in J PROVE JobOK(new, k) /\ IsPrefix(j.dst, k.dst) /\ k.dst \in Seq(Name)
                                  /\ k.dst # <<>> /\ Front(k.dst) = j.dst
    <2>1. PICK q \in Entries(disk, j.src) : k = Job(q, Append(j.dst, Last(q)), active)
      BY DEF Jobs
    <2>2. q \in DOMAIN disk /\ Front(q) = j.src
      BY DEF Entries
    <2>3. q \in Seq(Name) /\ q # <<>> /\ q \in DOMAIN new
      BY <1>1, <2>2, TreeNode DEF With
    <2>4. Last(q) \in Name
      BY <2>3, FrontPath
    <2>5. q \in Seq(In)
      <3>1. q[1] = j.src[1]
        <4>1. j.src # <<>>
          BY <1>1, <1>2, TreeNode
        <4> QED BY <2>2, <2>3, <4>1, FrontPath
      <3>2. j.src[1] \in In
        BY <1>1, <1>2, TreeNode, HeadTailPath
      <3> QED BY <1>1, <2>2, <3>1, <3>2 DEF StoreOK, Stored, In
    <2> HIDE DEF new, active
    <2>6. JobOK(new, k)
      BY <1>2, <1>4, <1>6, <1>7, <1>8, <1>9, <2>1, <2>3, <2>5, JobOfDir
    <2>7. k.dst = Append(j.dst, Last(q))
      BY <2>1 DEF Job
    <2> QED BY <1>2, <2>4, <2>6, <2>7, AppendPath, OnlyPrefix
  <1>11. Apart((todo \ {j}) \cup J)
    <2> SUFFICES ASSUME NEW k \in (todo \ {j}) \cup J, NEW l \in (todo \ {j}) \cup J, k # l
                 PROVE  ~IsPrefix(k.dst, l.dst)
      BY DEF Apart
    <2>1. ASSUME NEW i \in todo \ {j}
          PROVE  i.dst \in Seq(Name) /\ ~IsPrefix(i.dst, j.dst) /\ ~IsPrefix(j.dst, i.dst)
      BY <1>1, <1>4 DEF JobOK, Apart
    <2>2. CASE k \in todo \ {j} /\ l \in todo \ {j}
      BY <1>4, <2>2 DEF Apart
    <2>3. CASE k \in J /\ l \in J
      <3>1. Apart(J)
        BY <1>1, <1>2, JobsApart
      <3> QED BY <2>3, <3>1 DEF Apart
    <2> HIDE DEF J
    <2>4. CASE k \in J /\ l \in todo \ {j}
      <3>1. Last(k.dst) \in Name /\ k.dst = Append(j.dst, Last(k.dst))
        BY <1>10, <2>4, FrontPath
      <3>2. IsPrefix(k.dst, l.dst) => IsPrefix(j.dst, l.dst)
        <4> DEFINE x == Last(k.dst)
        <4>1. x \in Name /\ k.dst = Append(j.dst, x) /\ l.dst \in Seq(Name)
          BY <2>1, <2>4, <3>1
        <4> HIDE DEF x
        <4> QED BY <1>2, <4>1, OnlyPrefix
      <3> QED BY <2>1, <2>4, <3>2
    <2>5. CASE k \in todo \ {j} /\ l \in J
      <3>1. k.dst \in Seq(Name) /\ ~IsPrefix(k.dst, j.dst) /\ ~IsPrefix(j.dst, k.dst)
        BY <2>1, <2>5
      <3>2. IsPrefix(j.dst, l.dst) /\ l.dst \in Seq(Name) /\ l.dst # <<>> /\ Front(l.dst) = j.dst
        BY <1>10, <2>5
      <3>3. IsPrefix(k.dst, l.dst) => k.dst = l.dst \/ IsPrefix(k.dst, j.dst)
        BY <3>1, <3>2, PrefixOfAppend
      <3> QED BY <3>1, <3>2, <3>3
    <2> QED BY <2>2, <2>3, <2>4, <2>5
  <1>12. \A k \in (todo \ {j}) \cup J : JobOK(new, k)
    <2> HIDE DEF J, new
    <2> QED BY <1>4, <1>10
  <1>13. disk' = new /\ todo' = (todo \ {j}) \cup J /\ pass' = "copy" /\ tar' = tar
    OBVIOUS
  <1> HIDE DEF new, J
  <1> QED BY <1>1, <1>4, <1>11, <1>12, <1>13, CopyStep

LEMMA CopyOtherInv ==
    ASSUME BuildInv, pass = "copy", NEW j \in todo, disk[j.src].t = "link",
           UNCHANGED <<disk, pass, tar>>,
           \/ todo' = todo \ {j}
           \/ /\ Resolves(disk, j.src)
              /\ todo' = (todo \ {j}) \cup {Job(Eval(disk, j.src).at, j.dst, j.active)}
    PROVE  BuildInv'
  <1> DEFINE at == Eval(disk, j.src).at
             k == Job(at, j.dst, j.active)
  <1>1. /\ JobOK(disk, j) /\ IsTree(disk) /\ IsFiniteSet(DOMAIN disk) /\ StoreOK(disk) /\ TarOK /\ Apart(todo)
        /\ \A i \in todo : JobOK(disk, i)
        /\ \A p \in DOMAIN disk : disk[p].t = "file" => disk[p].c \in Content
    BY DEF BuildInv, CopyInv, DiskInv, ContentInv
  <1>2. k.src = at /\ k.dst = j.dst /\ k.active = j.active /\ k = Job(k.src, k.dst, k.active)
    BY DEF Job
  <1>3. Resolves(disk, j.src) => JobOK(disk, k)
    <2>1. j.src \in DOMAIN disk /\ j.src \in Seq(In)
      BY <1>1 DEF JobOK
    <2>2. Resolves(disk, j.src) => at \in DOMAIN disk /\ at \in Seq(In)
      BY <1>1, <2>1, StoreTarget
    <2> HIDE DEF k, at
    <2> QED BY <1>1, <1>2, <2>2 DEF JobOK
  <1>4. (\A i \in todo' : JobOK(disk, i)) /\ Apart(todo')
    <2>1. CASE todo' = todo \ {j}
      BY <1>1, <2>1 DEF Apart
    <2> HIDE DEF k
    <2>2. CASE Resolves(disk, j.src) /\ todo' = (todo \ {j}) \cup {k}
      <3>1. \A i \in todo' : JobOK(disk, i)
        BY <1>1, <1>3, <2>2
      <3>2. \A i, l \in (todo \ {j}) \cup {k} : i # l => ~IsPrefix(i.dst, l.dst)
        BY <1>1, <1>2 DEF Apart
      <3> QED BY <2>2, <3>1, <3>2 DEF Apart
    <2> QED BY <2>1, <2>2 DEF k
  <1>5. disk' = disk /\ pass' = "copy" /\ tar' = tar
    OBVIOUS
  <1> QED BY <1>1, <1>4, <1>5, CopyStep

LEMMA CopyInvStep ==
    ASSUME BuildInv, NEW j \in todo, CopyLink(j) \/ CopyDir(j) \/ CopyFile(j)
    PROVE  BuildInv'
  <1>1. pass = "copy"
    BY DEF CopyLink, CopyDir, CopyFile, Turn
  <1>2. CASE Fail
    BY <1>1, <1>2, FailInv
  <1>3. CASE CopyLink(j) /\ ~Fail
    <2>1. /\ disk[j.src].t = "link"
          /\ \/ UNCHANGED <<disk, pass, tar>> /\ todo' = todo \ {j}
             \/ /\ disk' = With(disk, j.dst, disk[j.src])
                /\ todo' = todo \ {j} /\ UNCHANGED <<pass, tar>>
             \/ /\ Eval(disk, j.src).st = "ok"
                /\ todo' = (todo \ {j}) \cup {Job(Eval(disk, j.src).at, j.dst, j.active)}
                /\ UNCHANGED <<disk, pass, tar>>
      BY <1>3 DEF CopyLink
    <2> QED BY <1>1, <2>1, CopyNodeInv, CopyOtherInv DEF Resolves
  <1>4. CASE CopyDir(j) /\ ~Fail
    BY <1>1, <1>4, CopyDirInv DEF CopyDir
  <1>5. CASE CopyFile(j)
    BY <1>1, <1>5, CopyNodeInv DEF CopyFile
  <1> QED BY <1>2, <1>3, <1>4, <1>5

LEMMA PrefixOfFront ==
    ASSUME NEW g, Len(g) \in Nat, NEW q \in Seq(Name), q # <<>>, IsPrefix(g, Front(q))
    PROVE  IsPrefix(g, q)
  <1>1. Len(q) \in Nat /\ Len(q) = Len(Front(q)) + 1 /\ Front(q) \in Seq(Name)
    BY FrontPath
  <1>2. Len(g) <= Len(Front(q)) /\ SubSeq(g, 1, Len(g)) = SubSeq(Front(q), 1, Len(g))
    BY DEF IsPrefix
  <1>3. SubSeq(Front(q), 1, Len(g)) = SubSeq(q, 1, Len(g))
    <2> DEFINE n == Len(g)
    <2>1. /\ n \in 0..Len(Front(q)) /\ n \in 0..Len(q)
      BY <1>1, <1>2
    <2> HIDE DEF n
    <2>2. q = Append(Front(q), Last(q)) /\ Last(q) \in Name
      BY FrontPath
    <2>3. \A i \in 1..n : i \in 1..Len(Front(q)) /\ i \in 1..Len(q) /\ Front(q)[i] = q[i]
      BY <1>1, <2>1, <2>2
    <2>4. /\ SubSeq(q, 1, n) \in Seq(Name) /\ Len(SubSeq(q, 1, n)) = n
          /\ SubSeq(Front(q), 1, n) \in Seq(Name) /\ Len(SubSeq(Front(q), 1, n)) = n
      BY <1>1, <2>1, SubPath
    <2>5. n \in Nat /\ (\A i \in 1..n : q[i] \in Name) /\ (\A i \in 1..n : Front(q)[i] \in Name)
      BY <1>1, <2>1, <2>3, ElementOfSeq
    <2>6. \A i \in 1..n : SubSeq(q, 1, n)[i] = q[i]
      BY <2>5, SubSeqProperties, SMTT(30)
    <2>7. \A i \in 1..n : SubSeq(Front(q), 1, n)[i] = Front(q)[i]
      BY <2>5, SubSeqProperties, SMTT(30)
    <2>8. SubSeq(Front(q), 1, n) = SubSeq(q, 1, n)
      BY <2>3, <2>4, <2>6, <2>7, SeqEqual
    <2> QED BY <2>8 DEF n
  <1> QED BY <1>1, <1>2, <1>3 DEF IsPrefix

\* What is there of a tree is there as it was.
LEMMA WithoutNodes ==
    ASSUME NEW tree, NEW P
    PROVE  /\ DOMAIN Without(tree, P) \subseteq DOMAIN tree
           /\ \A p \in DOMAIN Without(tree, P) : p \notin P /\ Without(tree, P)[p] = tree[p]
           /\ \A p \in DOMAIN tree \ P : p \in DOMAIN Without(tree, P)
  BY DEF Without

\* What is removed, and a name in the directory of a dropped name.
Parent(tree, d) == Eval(tree, <<Out>> \o Front(d))
Gone(tree, d) == IF Parent(tree, d).st = "ok"
                 THEN Under(tree, Append(Parent(tree, d).at, Last(d))) ELSE {}

LEMMA DroppedPath ==
    ASSUME NEW i \in DOMAIN Dropped
    PROVE  /\ Dropped[i] \in Seq(Name) /\ Dropped[i] # <<>>
           /\ Front(Dropped[i]) \in Seq(Name) /\ Last(Dropped[i]) \in Name
           /\ Last(Dropped[i]) \notin DOMAIN Public /\ Last(Dropped[i]) # Out
  <1>1. Dropped[i] \in ToSet(Dropped)
    BY DEF ToSet
  <1>2. Dropped[i] # <<>>
    <2>1. i \in 1..4
      BY DEF Dropped
    <2>2. \A x, y : <<x>> # <<>> /\ <<x, y>> # <<>>
      OBVIOUS
    <2> QED BY <2>1, <2>2 DEF Dropped
  <1>3. Dropped[i] \in Seq(Name \ {Out})
    BY <1>1, ArtifactAssumption
  <1>4. Dropped[i] \in Seq(Name)
    BY <1>3, SeqMonotonic
  <1>5. Last(Dropped[i]) \in Name \ {Out}
    BY <1>2, <1>3, FrontPath
  <1> QED BY <1>1, <1>2, <1>4, <1>5, ArtifactAssumption, FrontPath

LEMMA DropIs ==
    ASSUME NEW i \in todo, Drop(i), IsTree(disk), todo \subseteq DOMAIN Dropped
    PROVE  /\ pass = "drop"
           /\ \/ Fail
              \/ /\ disk' = Without(disk, Gone(disk, Dropped[i]))
                 /\ todo' = todo \ {i} /\ UNCHANGED <<pass, tar>>
                 /\ \A p \in Gone(disk, Dropped[i]) : p[1] = Out
           /\ \A p \in DOMAIN disk : Front(p) \in Gone(disk, Dropped[i]) => p \in Gone(disk, Dropped[i])
  <1> DEFINE d == Dropped[i]
             dir == Parent(disk, d)
             g == Append(dir.at, Last(d))
  <1>1. Front(d) \in Seq(Name) /\ Last(d) \in Name
    BY DroppedPath
  <1>2. g \in Seq(Name) /\ Len(g) \in Nat
    <2> DEFINE q == <<Out>> \o Front(d)
    <2>1. q \in Seq(Up)
      <3>1. <<Out>> \in Seq(Name)
        BY ArtifactAssumption
      <3>2. q \in Seq(Name)
        BY <1>1, <3>1, ConcatProperties
      <3> QED BY <3>2, SeqMonotonic DEF Up
    <2> HIDE DEF q
    <2>2. Eval(disk, q).at \in Seq(Name)
      BY <2>1, EvalPlace DEF Places
    <2>3. dir.at \in Seq(Name)
      BY <2>2 DEF Parent, q
    <2> HIDE DEF d, dir
    <2> QED BY <1>1, <2>3, AppendPath, LenProperties
  <1>3. \A p \in DOMAIN disk : Front(p) \in Gone(disk, d) => p \in Gone(disk, d)
    <2> SUFFICES ASSUME NEW p \in DOMAIN disk, Front(p) \in Gone(disk, d) PROVE p \in Gone(disk, d)
      OBVIOUS
    <2> HIDE DEF d
    <2>1. dir.st = "ok" /\ Front(p) \in Under(disk, g) /\ Gone(disk, d) = Under(disk, g)
      BY DEF Gone
    <2> HIDE DEF dir, g
    <2>2. p \in Seq(Name) /\ p # <<>>
      BY TreeNode
    <2>3. IsPrefix(g, Front(p))
      BY <2>1 DEF Under
    <2>4. IsPrefix(g, p)
      BY <1>2, <2>2, <2>3, PrefixOfFront
    <2> QED BY <2>1, <2>4 DEF Under
  <1>4. /\ pass = "drop"
        /\ \/ Fail
           \/ /\ disk' = Without(disk, Gone(disk, d))
              /\ todo' = todo \ {i} /\ UNCHANGED <<pass, tar>>
              /\ \A p \in Gone(disk, d) : p[1] = Out
    BY DEF Drop, Gone, Parent
  <1> QED BY <1>3, <1>4

LEMMA DropInv ==
    ASSUME BuildInv, NEW i \in todo, Drop(i)
    PROVE  BuildInv'
  <1> DEFINE P == Gone(disk, Dropped[i])
  <1>0. pass = "drop"
    BY DEF Drop
  <1>1. CASE Fail
    BY <1>0, <1>1, FailInv
  <1>2. CASE ~Fail
    <2>1. todo \subseteq DOMAIN Dropped /\ IsTree(disk)
      BY <1>0 DEF BuildInv, TodoInv, DiskInv
    <2>2. /\ pass' = "drop" /\ tar' = tar /\ todo' \subseteq todo
          /\ disk' = Without(disk, P)
          /\ \A q \in DOMAIN disk : Front(q) \in P => q \in P
      BY <1>2, <2>1, DropIs
    <2> HIDE DEF P
    <2>3. DiskInv'
      <3>1. IsTree(disk')
        BY <2>1, <2>2, TreeWithout
      <3>2. IsFiniteSet(DOMAIN disk')
        BY <2>2, WithoutFinite DEF BuildInv, DiskInv
      <3> QED BY <3>1, <3>2 DEF DiskInv
    <2>4. ContentInv'
      BY <1>0, <2>2, WithoutNodes DEF BuildInv, ContentInv
    <2>5. CopyInv' /\ LinkInv' /\ TarOK' /\ NameInv'
      BY <2>2 DEF CopyInv, LinkInv, BuildInv, TarOK, NameInv
    <2>6. TodoInv'
      BY <2>1, <2>2 DEF TodoInv
    <2> QED BY <2>3, <2>4, <2>5, <2>6 DEF BuildInv
  <1> QED BY <1>1, <1>2

LEMMA DropDoneInv ==
    ASSUME BuildInv, DropDone
    PROVE  BuildInv'
  <1>1. /\ pass = "drop" /\ pass' = "prepare" /\ UNCHANGED <<disk, tar>>
        /\ todo' = {p \in Files(disk) : Last(p) \in Static \cup DOMAIN Public}
    BY DEF DropDone
  <1>2. DiskInv' /\ ContentInv' /\ CopyInv' /\ LinkInv' /\ TarOK'
    BY <1>1 DEF BuildInv, DiskInv, ContentInv, CopyInv, LinkInv, TarOK
  <1>3. TodoInv'
    BY <1>1 DEF TodoInv, Files, Under
  <1>4. NameInv'
    BY <1>1 DEF NameInv, Hides, Built, Files, Under, IsStrictPrefix, Taken
  <1> QED BY <1>2, <1>3, <1>4 DEF BuildInv

\* The list of a pass has a first path.
LEMMA FirstTodo ==
    ASSUME DiskInv, todo \subseteq DOMAIN disk, todo # {}
    PROVE  First(todo) \in todo /\ First(todo) \in DOMAIN disk
  <1>1. IsFiniteSet(todo)
    BY FS_Subset DEF DiskInv
  <1>2. todo \in SUBSET Seq(Name)
    BY TreeNode DEF DiskInv
  <1>3. First(todo) \in todo
    BY <1>1, <1>2, FirstIn
  <1> QED BY <1>3

LEMMA RemoveStaticInv ==
    ASSUME BuildInv, RemoveStatic
    PROVE  BuildInv'
  <1> DEFINE p == First(todo)
  <1>1. /\ pass = "prepare" /\ todo # {} /\ pass' = "prepare" /\ tar' = tar
        /\ disk' = Without(disk, {p}) /\ todo' = todo \ {p}
    BY DEF RemoveStatic
  <1>2. todo \subseteq Files(disk)
    BY <1>1 DEF BuildInv, TodoInv
  <1>3. p \in todo /\ p \in DOMAIN disk /\ disk[p].t = "file"
    BY <1>1, <1>2, FirstTodo DEF Files, Under, BuildInv
  <1> HIDE DEF p
  <1>4. DiskInv'
    <2>1. \A q \in DOMAIN disk : Front(q) # p
      BY <1>3, NoEntries DEF BuildInv, DiskInv
    <2>2. IsTree(disk') /\ IsFiniteSet(DOMAIN disk')
      BY <1>1, <2>1, TreeWithout, WithoutFinite DEF BuildInv, DiskInv
    <2> QED BY <2>2 DEF DiskInv
  <1>5. ContentInv'
    BY <1>1, WithoutNodes DEF BuildInv, ContentInv
  <1>6. CopyInv' /\ LinkInv' /\ TarOK'
    BY <1>1 DEF CopyInv, LinkInv, BuildInv, TarOK
  <1>7. TodoInv'
    BY <1>1, <1>2, WithoutNodes DEF TodoInv, Files, Under
  <1>8. NameInv'
    BY <1>1, WithoutNodes DEF BuildInv, NameInv, Hides, Built, Taken
  <1> QED BY <1>4, <1>5, <1>6, <1>7, <1>8 DEF BuildInv

LEMMA UnwrapInv ==
    ASSUME BuildInv, Unwrap
    PROVE  BuildInv'
  <1> DEFINE p == First(todo)
             public == Append(Front(p), Public[Last(p)])
             rest == Without(disk, {p})
             new == With(rest, public, disk[p])
  <1>1. pass = "prepare" /\ todo # {} /\ Last(p) \in DOMAIN Public
    BY DEF Unwrap
  <1>2. CASE Fail
    BY <1>1, <1>2, FailInv
  <1>3. CASE ~Fail
    <2>1. /\ Entries(disk, public) = {} /\ disk' = new /\ todo' = todo \ {p}
          /\ pass' = "prepare" /\ tar' = tar
      BY <1>3 DEF Unwrap
    <2>2. todo \subseteq Files(disk)
      BY <1>1 DEF BuildInv, TodoInv
    <2>3. p \in todo /\ p \in DOMAIN disk /\ disk[p].t = "file" /\ IsTree(disk) /\ IsFiniteSet(DOMAIN disk)
      BY <1>1, <2>2, FirstTodo DEF Files, Under, BuildInv, DiskInv
    <2>4. /\ p \in Seq(Name) /\ p # <<>> /\ IsNode(disk[p]) /\ Is("dir", disk, Front(p))
          /\ Front(p) \in Seq(Name)
      BY <2>3, TreeNode, FrontPath
    <2>5. Public[Last(p)] \in Name /\ Public[Last(p)] \in Taken
      BY <1>1, ArtifactAssumption DEF Taken
    <2>6. /\ public \in Seq(Name) /\ public # <<>> /\ Front(public) = Front(p)
          /\ Last(public) = Public[Last(p)]
      BY <2>4, <2>5, AppendPath
    <2> HIDE DEF p, public
    <2>7. IsTree(rest) /\ IsFiniteSet(DOMAIN rest)
      <3>1. \A q \in DOMAIN disk : Front(q) # p
        BY <2>3, NoEntries
      <3> QED BY <2>3, <3>1, TreeWithout, WithoutFinite
    <2>8. Is("dir", rest, Front(public))
      <3>1. Front(p) # p
        BY <2>3, <2>4 DEF Is, Exists, Node
      <3> QED BY <2>4, <2>6, <3>1 DEF Is, Exists, Node, Without
    <2>9. \A q \in DOMAIN rest : Front(q) # public
      BY <2>1 DEF Entries, Without
    <2>10. DiskInv'
      <3>1. IsTree(new)
        BY <2>4, <2>6, <2>7, <2>8, <2>9, TreeWith
      <3>2. IsFiniteSet(DOMAIN new)
        BY <2>7, WithFinite
      <3> QED BY <2>1, <3>1, <3>2 DEF DiskInv
    <2>11. /\ DOMAIN new = (DOMAIN disk \ {p}) \cup {public}
           /\ new[public] = disk[p]
           /\ \A q \in DOMAIN new : q # public => q \in DOMAIN disk /\ q # p /\ new[q] = disk[q]
      BY DEF With, Without
    <2> HIDE DEF new
    <2>12. ContentInv'
      BY <1>1, <2>1, <2>3, <2>11 DEF BuildInv, ContentInv
    <2>13. CopyInv' /\ LinkInv' /\ TarOK'
      BY <2>1 DEF CopyInv, LinkInv, BuildInv, TarOK
    <2>14. TodoInv'
      <3> SUFFICES ASSUME NEW q \in todo \ {p} PROVE q \in Files(new)
        BY <2>1 DEF TodoInv
      <3>1. q \in DOMAIN disk /\ IsPrefix(<<Out>>, q) /\ disk[q].t = "file"
        BY <2>2 DEF Files, Under
      <3>2. q \in DOMAIN new /\ new[q].t = "file"
        BY <2>3, <2>11, <3>1
      <3> QED BY <3>1, <3>2 DEF Files, Under
    <2>15. NameInv'
      <3> SUFFICES ASSUME NEW q \in DOMAIN new, IsStrictPrefix(<<Out>>, q),
                          new[q].t = "file", Last(q) \in Hides
                   PROVE  q \in todo \ {p}
        BY <2>1 DEF NameInv, Built, Hides, Taken
      <3>1. q # public
        BY <2>5, <2>6 DEF Hides
      <3>2. q \in DOMAIN disk /\ q # p /\ disk[q].t = "file"
        BY <2>11, <3>1
      <3>3. q \in Built
        BY <3>2 DEF Built
      <3> QED BY <1>1, <3>2, <3>3 DEF BuildInv, NameInv
    <2> QED BY <2>10, <2>12, <2>13, <2>14, <2>15 DEF BuildInv
  <1> QED BY <1>2, <1>3

LEMMA PrepareDoneInv ==
    ASSUME BuildInv, PrepareDone
    PROVE  BuildInv'
  <1>1. /\ pass = "prepare" /\ todo = {} /\ pass' = "dangling" /\ todo' = Links(disk)
        /\ disk' = disk /\ tar' = tar
    BY DEF PrepareDone
  <1>2. DiskInv' /\ TarOK' /\ ContentInv' /\ CopyInv'
    BY <1>1 DEF BuildInv, DiskInv, TarOK, ContentInv, CopyInv
  <1>3. TodoInv' /\ LinkInv'
    BY <1>1 DEF TodoInv, LinkInv, Links, Under, Built, IsStrictPrefix
  <1>4. NameInv'
    BY <1>1 DEF BuildInv, NameInv, Built, Hides, Taken
  <1> QED BY <1>2, <1>3, <1>4 DEF BuildInv

LEMMA RemoveDanglingInv ==
    ASSUME BuildInv, RemoveDangling
    PROVE  BuildInv'
  <1> DEFINE p == First(todo)
  <1>1. pass = "dangling" /\ todo # {}
    BY DEF RemoveDangling
  <1>2. CASE Fail
    BY <1>1, <1>2, FailInv
  <1>3. CASE ~Fail
    <2>1. /\ \/ Eval(disk, p).st \in {"absent", "escape"} /\ disk' = Without(disk, {p})
             \/ Eval(disk, p).st = "ok" /\ disk' = disk
          /\ todo' = todo \ {p} /\ pass' = "dangling" /\ tar' = tar
      BY <1>3 DEF RemoveDangling
    <2>2. todo \subseteq Links(disk)
      BY <1>1 DEF BuildInv, TodoInv
    <2>3. p \in todo /\ p \in DOMAIN disk /\ disk[p].t = "link" /\ IsTree(disk) /\ IsFiniteSet(DOMAIN disk)
      BY <1>1, <2>2, FirstTodo DEF Links, Under, BuildInv, DiskInv
    <2> HIDE DEF p
    <2>4. /\ DOMAIN disk' \subseteq DOMAIN disk
          /\ \A q \in DOMAIN disk' : disk'[q] = disk[q]
          /\ \A q \in DOMAIN disk : q # p => q \in DOMAIN disk'
      BY <2>1, WithoutNodes
    <2>5. DiskInv'
      <3>1. \A q \in DOMAIN disk : Front(q) # p
        BY <2>3, NoEntries
      <3>2. IsTree(disk') /\ IsFiniteSet(DOMAIN disk')
        BY <2>1, <2>3, <3>1, TreeWithout, WithoutFinite
      <3> QED BY <3>2 DEF DiskInv
    <2>6. ContentInv'
      BY <1>1, <2>1, <2>4 DEF BuildInv, ContentInv
    <2>7. CopyInv' /\ TarOK'
      BY <2>1 DEF CopyInv, BuildInv, TarOK
    <2>8. TodoInv'
      <3> SUFFICES ASSUME NEW q \in todo \ {p} PROVE q \in Links(disk')
        BY <2>1 DEF TodoInv, Links, Under
      <3>1. q \in DOMAIN disk /\ IsPrefix(<<Out>>, q) /\ disk[q].t = "link"
        BY <2>2 DEF Links, Under
      <3>2. q \in DOMAIN disk' /\ disk'[q].t = "link"
        BY <2>4, <3>1
      <3> QED BY <3>1, <3>2 DEF Links, Under
    <2>9. NameInv'
      <3> SUFFICES ASSUME NEW q \in DOMAIN disk', IsStrictPrefix(<<Out>>, q),
                          disk'[q].t = "file", Last(q) \in Hides
                   PROVE  FALSE
        BY DEF NameInv, Built, Hides, Taken
      <3>1. q \in Built /\ disk[q].t = "file"
        BY <2>4 DEF Built
      <3> QED BY <1>1, <3>1 DEF BuildInv, NameInv
    <2>10. LinkInv'
      <3> SUFFICES ASSUME NEW q \in DOMAIN disk', IsStrictPrefix(<<Out>>, q), disk'[q].t = "link",
                          q \notin todo \ {p}
                   PROVE  Resolves(disk', q)
        BY <2>1 DEF LinkInv, Built, Resolves
      <3>1. q \in DOMAIN disk /\ q \in Built /\ disk[q].t = "link"
        BY <2>4 DEF Built
      <3>2. Resolves(disk, q)
        <4>1. CASE q = p
          <5>1. q \notin DOMAIN Without(disk, {p})
            BY <4>1 DEF Without
          <5> QED BY <2>1, <4>1, <5>1 DEF Resolves
        <4>2. CASE q # p
          BY <1>1, <3>1, <4>2 DEF BuildInv, LinkInv
        <4> QED BY <4>1, <4>2
      <3>3. q \in Seq(Up)
        BY <2>3, <3>1, TreeNode, SeqMonotonic DEF Up
      <3> QED BY <2>1, <2>3, <3>2, <3>3, WithoutDangling
    <2> QED BY <2>5, <2>6, <2>7, <2>8, <2>9, <2>10 DEF BuildInv
  <1> QED BY <1>2, <1>3

LEMMA DanglingDoneInv ==
    ASSUME BuildInv, DanglingDone
    PROVE  BuildInv'
  <1>1. /\ pass = "dangling" /\ todo = {} /\ pass' = "rewrite" /\ todo' = todo
        /\ disk' = disk /\ tar' = tar
    BY DEF DanglingDone
  <1>2. DiskInv' /\ TarOK' /\ ContentInv' /\ CopyInv' /\ TodoInv'
    BY <1>1 DEF BuildInv, DiskInv, TarOK, ContentInv, CopyInv, TodoInv
  <1>3. LinkInv'
    BY <1>1 DEF BuildInv, LinkInv, Built, Resolves
  <1>4. NameInv'
    BY <1>1 DEF BuildInv, NameInv, Built, Hides, Taken
  <1> QED BY <1>2, <1>3, <1>4 DEF BuildInv

LEMMA RewriteInv ==
    ASSUME BuildInv, Rewrite
    PROVE  BuildInv'
  <1>1. pass = "rewrite"
    BY DEF Rewrite
  <1>2. CASE Fail
    BY <1>1, <1>2, FailInv
  <1>3. CASE ~Fail
    <2>1. /\ \A p \in Files(disk) : Rewritten[disk[p].c] # Refused
          /\ disk' = [p \in DOMAIN disk |->
                        IF p \in Files(disk) THEN File(Rewritten[disk[p].c]) ELSE disk[p]]
          /\ pass' = "archive" /\ todo' = Under(disk, <<Out>>) /\ tar' = tar
      BY <1>3 DEF Rewrite
    <2>2. IsTree(disk) /\ IsFiniteSet(DOMAIN disk)
      BY DEF BuildInv, DiskInv
    <2>3. /\ DOMAIN disk' = DOMAIN disk
          /\ \A p \in DOMAIN disk : /\ p \in Files(disk) => disk'[p] = File(Rewritten[disk[p].c])
                                    /\ p \notin Files(disk) => disk'[p] = disk[p]
      BY <2>1
    <2>4. /\ \A p \in DOMAIN disk : disk'[p].t = disk[p].t
          /\ \A p \in DOMAIN disk : disk[p].t # "file" => disk'[p] = disk[p]
      BY <2>3 DEF Files, File
    <2>5. Alike(disk, disk')
      BY <2>3, <2>4 DEF Alike
    <2>6. DiskInv'
      <3>1. \A p \in DOMAIN disk : IsNode(disk'[p])
        BY <2>2, <2>3, TreeNode DEF IsNode, File
      <3>2. \A p \in DOMAIN disk : p \in Seq(Name) /\ p # <<>> /\ Is("dir", disk', Front(p))
        BY <2>2, <2>3, <2>4, TreeNode DEF Is, Exists, Node
      <3> QED BY <2>2, <2>3, <3>1, <3>2 DEF DiskInv, IsTree
    <2>7. CopyInv' /\ TarOK'
      BY <2>1 DEF CopyInv, BuildInv, TarOK
    <2>8. TodoInv'
      BY <2>1, <2>3 DEF TodoInv, Under
    <2>9. ContentInv'
      <3> SUFFICES ASSUME NEW p \in DOMAIN disk', IsStrictPrefix(<<Out>>, p), disk'[p].t = "file"
                   PROVE  \E c \in Content : disk'[p].c = Rewritten[c]
        BY <2>1 DEF ContentInv, Built
      <3>1. p \in Files(disk) /\ disk[p].c \in Content
        BY <1>1, <2>3, <2>4 DEF Files, Under, IsStrictPrefix, BuildInv, ContentInv
      <3>2. disk'[p].c = Rewritten[disk[p].c]
        BY <2>3, <3>1 DEF File, Files, Under
      <3> QED BY <3>1, <3>2
    <2>10. NameInv'
      <3> SUFFICES ASSUME NEW q \in DOMAIN disk', IsStrictPrefix(<<Out>>, q),
                          disk'[q].t = "file", Last(q) \in Hides
                   PROVE  FALSE
        BY DEF NameInv, Built, Hides, Taken
      <3>1. q \in Built /\ disk[q].t = "file"
        BY <2>3, <2>4 DEF Built
      <3> QED BY <1>1, <3>1 DEF BuildInv, NameInv
    <2>11. LinkInv'
      <3> SUFFICES ASSUME NEW q \in DOMAIN disk', IsStrictPrefix(<<Out>>, q), disk'[q].t = "link"
                   PROVE  Resolves(disk', q)
        BY <2>1 DEF LinkInv, Built, Resolves
      <3>1. q \in Built /\ disk[q].t = "link"
        BY <2>3, <2>4 DEF Built
      <3>2. Resolves(disk, q)
        BY <1>1, <3>1 DEF BuildInv, LinkInv
      <3>3. Eval(disk', q) = Eval(disk, q)
        BY <2>5, AlikeEval
      <3> QED BY <3>2, <3>3 DEF Resolves
    <2> QED BY <2>6, <2>7, <2>8, <2>9, <2>10, <2>11 DEF BuildInv
  <1> QED BY <1>2, <1>3

LEMMA AppendToSet ==
    ASSUME NEW s, s \in Seq(ToSet(s)), NEW x
    PROVE  /\ Append(s, x) \in Seq(ToSet(Append(s, x)))
           /\ ToSet(Append(s, x)) = ToSet(s) \cup {x}
           /\ Len(s) \in Nat /\ Len(Append(s, x)) = Len(s) + 1
  <1>1. Len(s) \in Nat /\ DOMAIN s = 1..Len(s)
    BY LenProperties
  <1> DEFINE S == ToSet(s) \cup {x}
             a == Append(s, x)
  <1>2. s \in Seq(S) /\ x \in S
    BY SeqMonotonic
  <1> HIDE DEF S
  <1>3. a \in Seq(S) /\ Len(a) = Len(s) + 1
    BY <1>2
  <1>4. \A i \in 1..Len(a) : a[i] = IF i <= Len(s) THEN s[i] ELSE x
    BY <1>2
  <1>5. DOMAIN a = 1..Len(a)
    BY <1>3, LenProperties
  <1> HIDE DEF a
  <1>6. ToSet(a) = S
    <2>1. ToSet(a) = {a[i] : i \in 1..Len(a)} /\ ToSet(s) = {s[i] : i \in 1..Len(s)}
      BY <1>1, <1>5 DEF ToSet
    <2>2. \A i \in 1..Len(a) : a[i] \in S
      BY <1>3, ElementOfSeq
    <2>3. \A i \in 1..Len(s) : i \in 1..Len(a) /\ a[i] = s[i]
      BY <1>1, <1>3, <1>4
    <2>4. Len(a) \in 1..Len(a) /\ a[Len(a)] = x
      BY <1>1, <1>3, <1>4
    <2> QED BY <2>1, <2>2, <2>3, <2>4 DEF S
  <1> QED BY <1>1, <1>3, <1>6 DEF S, a

LEMMA ArchiveEntryInv ==
    ASSUME BuildInv, ArchiveEntry
    PROVE  BuildInv'
  <1> DEFINE p == First(todo)
             e == [name |-> <<Package>> \o Tail(p), node |-> disk[p]]
  <1>1. /\ pass = "archive" /\ todo # {} /\ pass' = "archive" /\ disk' = disk
        /\ tar' = Append(tar, e) /\ todo' = todo \ {p}
    BY DEF ArchiveEntry
  <1>2. todo \subseteq DOMAIN disk /\ IsTree(disk)
    BY <1>1 DEF BuildInv, TodoInv, DiskInv
  <1>3. p \in DOMAIN disk
    BY <1>1, <1>2, FirstTodo DEF BuildInv
  <1> HIDE DEF p
  <1>4. p \in Seq(Name) /\ p # <<>> /\ IsNode(disk[p])
    BY <1>2, <1>3, TreeNode
  <1>5. EntryOK(e)
    <2>1. Tail(p) \in Seq(Name) /\ <<Package>> \in Seq(Name)
      BY <1>4, HeadTailPath, ArtifactAssumption
    <2>2. <<Package>> \o Tail(p) \in Seq(Name)
      BY <2>1, ConcatProperties
    <2> QED BY <1>4, <2>2 DEF EntryOK
  <1> HIDE DEF e
  <1>6. TarOK'
    BY <1>1, <1>5, AppendToSet DEF BuildInv, TarOK
  <1>7. DiskInv' /\ CopyInv'
    BY <1>1 DEF BuildInv, DiskInv, CopyInv
  <1>8. ContentInv' /\ TodoInv'
    BY <1>1, <1>2 DEF BuildInv, ContentInv, TodoInv, Built
  <1>9. NameInv' /\ LinkInv'
    BY <1>1 DEF BuildInv, NameInv, LinkInv, Built, Hides, Taken, Resolves
  <1> QED BY <1>6, <1>7, <1>8, <1>9 DEF BuildInv

LEMMA ArchiveDoneInv ==
    ASSUME BuildInv, ArchiveDone
    PROVE  BuildInv'
  <1>1. pass = "archive" /\ pass' = "done" /\ disk' = disk /\ todo' = todo /\ tar' = tar
    BY DEF ArchiveDone
  <1>2. DiskInv' /\ CopyInv' /\ TarOK'
    BY <1>1 DEF BuildInv, DiskInv, CopyInv, TarOK
  <1>3. ContentInv' /\ TodoInv'
    BY <1>1 DEF BuildInv, ContentInv, TodoInv, Built
  <1>4. NameInv' /\ LinkInv'
    BY <1>1 DEF BuildInv, NameInv, LinkInv, Built, Hides, Taken, Resolves
  <1> QED BY <1>2, <1>3, <1>4 DEF BuildInv

LEMMA CopyDoneInv ==
    ASSUME BuildInv, CopyDone
    PROVE  BuildInv'
  <1>1. pass = "copy" /\ pass' = "drop" /\ disk' = disk /\ todo' = DOMAIN Dropped /\ tar' = tar
    BY DEF CopyDone
  <1>2. DiskInv' /\ CopyInv' /\ TarOK' /\ ContentInv' /\ TodoInv' /\ NameInv' /\ LinkInv'
    BY <1>1 DEF BuildInv, DiskInv, CopyInv, TarOK, ContentInv, TodoInv, NameInv, LinkInv
  <1> QED BY <1>2 DEF BuildInv

LEMMA NextInv ==
    ASSUME BuildInv, Next
    PROVE  BuildInv'
  <1>1. ASSUME NEW j \in todo, CopyLink(j) \/ CopyDir(j) \/ CopyFile(j) PROVE BuildInv'
    BY <1>1, CopyInvStep
  <1> QED BY <1>1, CopyDoneInv, DropInv, DropDoneInv, RemoveStaticInv, UnwrapInv, PrepareDoneInv,
             RemoveDanglingInv, DanglingDoneInv, RewriteInv, ArchiveEntryInv, ArchiveDoneInv DEF Next

LEMMA EmptyTree == IsTree(<<>>) /\ DOMAIN <<>> = {}
  <1>1. DOMAIN <<>> = {}
    OBVIOUS
  <1> QED BY <1>1 DEF IsTree

LEMMA ForeignInv ==
    ASSUME Foreign
    PROVE  BuildInv
  <1>1. disk = <<>> /\ pass = "done" /\ todo = {} /\ tar \in Archives
    BY DEF Foreign
  <1>2. DiskInv
    BY <1>1, EmptyTree, FS_EmptySet DEF DiskInv
  <1>3. TarOK
    BY <1>1, ArchivesAssumption DEF TarOK, EntryOK
  <1>4. Built = {}
    BY <1>1, EmptyTree DEF Built
  <1> QED BY <1>1, <1>2, <1>3, <1>4 DEF BuildInv, CopyInv, ContentInv, TodoInv, NameInv, LinkInv

LEMMA InitInv ==
    ASSUME Init
    PROVE  BuildInv
  <1>1. PICK tree \in Trees : /\ disk = With(tree, <<Out>>, Dir)
                              /\ pass = "copy"
                              /\ todo = Jobs(tree, <<Source>>, <<Out>>, {})
                              /\ tar = <<>>
    BY DEF Init
  <1>2. /\ IsTree(tree) /\ IsFiniteSet(DOMAIN tree)
        /\ DOMAIN tree \subseteq Seq(In)
        /\ \A p \in DOMAIN tree :
             /\ tree[p].t = "file" => tree[p].c \in Content
             /\ tree[p].t = "link" => /\ tree[p].to \in Seq(InUp)
                                      /\ Resolves(tree, p) => Eval(tree, p).at # <<>>
    BY TreesAssumption DEF In, InUp
  <1> DEFINE out == <<Out>>
  <1>3. /\ out \in Seq(Name) /\ out # <<>> /\ out[1] = Out /\ Len(out) = 1 /\ out = Append(<<>>, Out)
        /\ Front(out) = <<>>
    <2>1. Out \in Name /\ <<>> \in Seq(Name)
      BY ArtifactAssumption
    <2>2. out = Append(<<>>, Out)
      OBVIOUS
    <2>3. Front(Append(<<>>, Out)) = <<>>
      BY <2>1, AppendPath
    <2> QED BY <2>1, <2>2, <2>3
  <1> HIDE DEF out
  <1>4. disk = With(tree, out, Dir) /\ todo = Jobs(tree, <<Source>>, out, {})
    BY <1>1 DEF out
  <1>5. out \notin DOMAIN tree
    BY <1>2, <1>3, OutsideIn
  <1>6. IsTree(disk) /\ IsFiniteSet(DOMAIN disk)
    <2>1. Is("dir", tree, Front(out))
      BY <1>3 DEF Is, Exists, Node, Dir
    <2>2. IsNode(Dir)
      BY DEF IsNode
    <2> QED BY <1>2, <1>3, <1>4, <2>1, <2>2, TreeWith, WithFinite
  <1>7. StoreOK(disk)
    <2>1. StoreOK(tree)
      BY <1>2 DEF StoreOK, Stored
    <2> QED BY <1>2, <1>3, <1>4, <2>1, StoreGrown
  <1>8. \A j \in todo : JobOK(disk, j)
    <2> SUFFICES ASSUME NEW q \in Entries(tree, <<Source>>)
                 PROVE  JobOK(disk, Job(q, Append(out, Last(q)), {}))
      BY <1>4 DEF Jobs
    <2>1. q \in DOMAIN disk /\ q \in Seq(In)
      BY <1>2, <1>4 DEF Entries, With
    <2>2. Is("dir", disk, out)
      BY <1>4 DEF Is, Exists, Node, With, Dir
    <2>3. \A r \in DOMAIN disk : IsPrefix(out, r) => r = out
      <3> SUFFICES ASSUME NEW r \in DOMAIN tree, IsPrefix(out, r) PROVE FALSE
        BY <1>4 DEF With
      <3>1. r \in Seq(Name) /\ r # <<>> /\ r \in Seq(In)
        BY <1>2, TreeNode
      <3>2. r[1] = out[1]
        <4>1. Len(out) <= Len(r) /\ \A i \in 1..Len(out) : out[i] = r[i]
          <5>1. out \in Seq(Name) /\ r \in Seq(Name) /\ IsPrefix(out, r)
            BY <1>3, <3>1
          <5> QED BY <5>1, PrefixIs
        <4> QED BY <1>3, <4>1
      <3> QED BY <1>3, <3>1, <3>2, OutsideIn
    <2> DEFINE none == {}
    <2>4. /\ none \in SUBSET SourceDirs(disk)
          /\ Cardinality(none) \in Nat /\ Len(out) = 1 + Cardinality(none)
      BY <1>3, FS_EmptySet
    <2> HIDE DEF none
    <2>5. JobOK(disk, Job(q, Append(out, Last(q)), none))
      BY <1>3, <1>6, <2>1, <2>2, <2>3, <2>4, JobOfDir
    <2> QED BY <2>5 DEF none
  <1>9. Apart(todo)
    BY <1>2, <1>3, <1>4, JobsApart
  <1>10. ContentInv
    <2>1. \A p \in DOMAIN disk : disk[p].t = "file" => disk[p].c \in Content
      BY <1>2, <1>4 DEF With, Dir
    <2> QED BY <1>1, <2>1 DEF ContentInv
  <1>11. TarOK
    <2>1. ToSet(<<>>) = {} /\ <<>> \in Seq({})
      BY DEF ToSet
    <2> QED BY <1>1, <2>1 DEF TarOK
  <1> QED BY <1>1, <1>6, <1>7, <1>8, <1>9, <1>10, <1>11
          DEF BuildInv, DiskInv, CopyInv, TodoInv, NameInv, LinkInv

LEMMA DInitInv ==
    ASSUME DInit
    PROVE  Inv
  <1>1. BuildInv
    BY InitInv, ForeignInv DEF DInit
  <1>2. read = 0 /\ pkg = <<>> /\ inode = <<>> /\ bm = "reading"
    BY DEF DInit, B!ExtractInit
  <1>3. Len(tar) \in Nat
    BY <1>1, LenProperties DEF BuildInv, TarOK
  <1>4. ReadInv
    BY <1>2, <1>3 DEF ReadInv
  <1>5. PkgInv
    BY <1>2, EmptyTree DEF PkgInv, FilesOnly
  <1>6. AcceptedClosed
    BY <1>2 DEF AcceptedClosed, B!AcceptedClosed
  <1> QED BY <1>1, <1>4, <1>5, <1>6 DEF Inv

\* The archive only grows.
LEMMA TarGrows ==
    ASSUME Next
    PROVE  tar' = tar \/ \E e : tar' = Append(tar, e)
  <1>1. ASSUME Fail PROVE tar' = tar
    BY <1>1 DEF Fail
  <1>2. ASSUME NEW j \in todo, CopyLink(j) \/ CopyDir(j) \/ CopyFile(j) PROVE tar' = tar
    BY <1>1, <1>2 DEF CopyLink, CopyDir, CopyFile
  <1>3. ASSUME CopyDone \/ (\E i \in todo : Drop(i)) \/ DropDone \/ RemoveStatic \/ Unwrap \/ PrepareDone \/ RemoveDangling
               \/ DanglingDone \/ Rewrite \/ ArchiveDone
        PROVE  tar' = tar
    BY <1>1, <1>3 DEF CopyDone, Drop, DropDone, RemoveStatic, Unwrap, PrepareDone, RemoveDangling,
                      DanglingDone, Rewrite, ArchiveDone
  <1>4. ASSUME ArchiveEntry PROVE \E e : tar' = Append(tar, e)
    BY <1>4 DEF ArchiveEntry
  <1> QED BY <1>2, <1>3, <1>4 DEF Next

LEMMA SameBuildInv ==
    ASSUME BuildInv, UNCHANGED vars
    PROVE  BuildInv'
  BY DEF BuildInv, vars, DiskInv, CopyInv, ContentInv, TodoInv, NameInv, LinkInv, TarOK,
         StoreOK, Stored, Apart, Built, Hides, Taken, Resolves, Files, Links, Under

LEMMA DNextInv ==
    ASSUME Inv, [DNext]_all
    PROVE  Inv'
  <1>1. CASE Build
    <2>1. BuildInv'
      BY <1>1, NextInv DEF Build, Inv
    <2>2. read' = read /\ pkg' = pkg /\ inode' = inode /\ bm' = bm
      BY <1>1 DEF Build, extraction
    <2>3. Len(tar) \in Nat /\ Len(tar') \in Nat /\ Len(tar') >= Len(tar)
      <3>1. tar' = tar \/ \E e : tar' = Append(tar, e)
        BY <1>1, TarGrows DEF Build
      <3> QED BY <3>1, AppendToSet DEF Inv, BuildInv, TarOK
    <2>4. ReadInv'
      BY <2>2, <2>3 DEF Inv, ReadInv
    <2>5. PkgInv' /\ AcceptedClosed'
      BY <2>2 DEF Inv, PkgInv, FilesOnly, AcceptedClosed, B!AcceptedClosed
    <2> QED BY <2>1, <2>4, <2>5 DEF Inv
  <1>2. CASE Install
    <2>1. B!Extract /\ UNCHANGED vars /\ tar' = tar
      BY <1>2 DEF Install, vars
    <2>2. BuildInv'
      BY <2>1, SameBuildInv DEF Inv
    <2>3. PkgInv' /\ ReadInv' /\ AcceptedClosed'
      BY <2>1, ExtractInv DEF Inv, BuildInv
    <2> QED BY <2>2, <2>3 DEF Inv
  <1>3. CASE UNCHANGED all
    <2>1. UNCHANGED vars /\ read' = read /\ tar' = tar /\ pkg' = pkg /\ inode' = inode /\ bm' = bm
      BY <1>3 DEF all, vars
    <2>2. BuildInv'
      BY <2>1, SameBuildInv DEF Inv
    <2>3. PkgInv' /\ ReadInv' /\ AcceptedClosed'
      BY <2>1 DEF Inv, PkgInv, FilesOnly, ReadInv, AcceptedClosed, B!AcceptedClosed
    <2> QED BY <2>2, <2>3 DEF Inv
  <1> QED BY <1>1, <1>2, <1>3 DEF DNext

\* The strengthened invariant holds.
THEOREM DeliveryInvariant == DSpec => []Inv
  <1>1. DInit => Inv
    BY DInitInv
  <1>2. Inv /\ [DNext]_all => Inv'
    BY DNextInv
  <1> QED BY <1>1, <1>2, PTL DEF DSpec

\* What bm accepts is closed, whatever archive it is, and in whatever order.
THEOREM AcceptedIsClosed == DSpec => []AcceptedClosed
  <1>1. Inv => AcceptedClosed
    BY DEF Inv
  <1> QED BY <1>1, DeliveryInvariant, PTL

\* The copy of a package is no deeper than there are directories in the store,
\* whatever links it follows.
THEOREM CopyIsBounded == DSpec => []CopyBounded
  <1>1. Inv => CopyBounded
    <2> SUFFICES ASSUME Inv, pass = "copy", NEW j \in todo
                 PROVE  Len(j.dst) <= 2 + Cardinality(SourceDirs(disk))
      BY DEF CopyBounded, SourceDirs
    <2>1. JobOK(disk, j) /\ IsFiniteSet(DOMAIN disk)
      BY DEF Inv, BuildInv, CopyInv, DiskInv
    <2>2. IsFiniteSet(SourceDirs(disk))
      BY <2>1, FS_Subset DEF SourceDirs
    <2>3. /\ Cardinality(j.active) <= Cardinality(SourceDirs(disk)) /\ IsFiniteSet(j.active)
      BY <2>1, <2>2, FS_Subset DEF JobOK
    <2>4. Cardinality(j.active) \in Nat /\ Cardinality(SourceDirs(disk)) \in Nat
      BY <2>2, <2>3, FS_CardinalityType
    <2> QED BY <2>1, <2>3, <2>4 DEF JobOK
  <1> QED BY <1>1, DeliveryInvariant, PTL

\* What artifact builds needs nothing of the machine it was built on.
THEOREM ArtifactIsSelfContained == DSpec => []SelfContained
  <1>1. Inv => SelfContained
    <2> SUFFICES ASSUME Inv, pass = "done", NEW p \in Built
                 PROVE  /\ Is("dir", disk, Front(p))
                        /\ disk[p].t = "link" => Resolves(disk, p)
                        /\ disk[p].t = "file" => /\ \E c \in Content : disk[p].c = Rewritten[c]
                                                 /\ Last(p) \notin (Static \cup DOMAIN Public) \ Taken
      BY DEF SelfContained
    <2>1. Is("dir", disk, Front(p))
      BY TreeNode DEF Inv, BuildInv, DiskInv, Built
    <2>2. disk[p].t = "link" => Resolves(disk, p)
      BY DEF Inv, BuildInv, LinkInv
    <2>3. disk[p].t = "file" => \E c \in Content : disk[p].c = Rewritten[c]
      BY DEF Inv, BuildInv, ContentInv
    <2>4. disk[p].t = "file" => Last(p) \notin (Static \cup DOMAIN Public) \ Taken
      BY DEF Inv, BuildInv, NameInv, Hides
    <2> QED BY <2>1, <2>2, <2>3, <2>4
  <1> QED BY <1>1, DeliveryInvariant, PTL


-----------------------------------------------------------------------------
\* The package is what the archive says.  As long as the names of the entries do not
\* disturb each other, the package has each entry at its place, and besides the
\* directories above them.

At(e) == Tail(e.name)
Unpacked(t, tree, n) ==
    /\ \A i \in 1..n : /\ B!Rooted(t[i].name)
                       /\ Exists(tree, At(t[i])) /\ Node(tree, At(t[i])) = t[i].node
    /\ \A p \in DOMAIN tree : \/ \E i \in 1..n : At(t[i]) = p
                              \/ tree[p].t = "dir" /\ \E i \in 1..n : IsStrictPrefix(p, At(t[i]))

LEMMA StrictIs ==
    \A p, q : B!IsStrictPrefix(p, q) = IsStrictPrefix(p, q)
  BY DEF IsStrictPrefix, IsPrefix, B!IsStrictPrefix, B!IsPrefix

LEMMA PartOf ==
    ASSUME NEW S, NEW p \in Seq(S), NEW i \in 0..Len(p)
    PROVE  IsPrefix(SubSeq(p, 1, i), p)
  <1>1. Len(p) \in Nat /\ \A k \in 1..i : p[k] \in S
    BY LenProperties, ElementOfSeq
  <1>2. /\ SubSeq(p, 1, i) \in Seq(S) /\ Len(SubSeq(p, 1, i)) = i
        /\ \A k \in 1..i : SubSeq(p, 1, i)[k] = p[k]
    BY <1>1, SubSeqProperties, SMTT(30)
  <1>3. SubSeq(p, 1, i) \in Seq(S) /\ Len(SubSeq(p, 1, i)) <= Len(p)
    BY <1>1, <1>2
  <1>4. \A k \in 1..Len(SubSeq(p, 1, i)) : SubSeq(p, 1, i)[k] = p[k]
    BY <1>2
  <1> DEFINE part == SubSeq(p, 1, i)
  <1> HIDE DEF part
  <1>5. part \in Seq(S) /\ Len(part) <= Len(p) /\ \A k \in 1..Len(part) : part[k] = p[k]
    BY <1>3, <1>4 DEF part
  <1>6. IsPrefix(part, p)
    BY <1>5, PrefixIs
  <1> QED BY <1>6 DEF part

\* Names of the archive are as their places below the package are.
LEMMA NamePlace ==
    ASSUME NEW a \in Seq(Name), NEW b \in Seq(Name), B!Rooted(a), B!Rooted(b)
    PROVE  /\ Tail(a) \in Seq(Name)
           /\ Tail(a) = Tail(b) => a = b
           /\ IsStrictPrefix(Tail(a), Tail(b)) => IsStrictPrefix(a, b)
  <1>1. a # <<>> /\ b # <<>> /\ Head(a) = Head(b)
    BY DEF B!Rooted
  <1>2. /\ Tail(a) \in Seq(Name) /\ Tail(b) \in Seq(Name)
        /\ Len(a) = Len(Tail(a)) + 1 /\ Len(b) = Len(Tail(b)) + 1
        /\ a = <<Head(a)>> \o Tail(a) /\ b = <<Head(b)>> \o Tail(b)
        /\ a[1] = Head(a) /\ b[1] = Head(b)
    BY <1>1, HeadTailPath
  <1>3. Tail(a) = Tail(b) => a = b
    BY <1>1, <1>2
  <1>4. /\ \A i \in 1..Len(Tail(a)) : Tail(a)[i] = a[i + 1]
        /\ \A i \in 1..Len(Tail(b)) : Tail(b)[i] = b[i + 1]
    BY <1>1, HeadTailProperties
  <1>5. ASSUME IsPrefix(Tail(a), Tail(b)) PROVE IsPrefix(a, b)
    <2>1. Len(Tail(a)) <= Len(Tail(b)) /\ \A i \in 1..Len(Tail(a)) : Tail(a)[i] = Tail(b)[i]
      <3> DEFINE x == Tail(a)
                 y == Tail(b)
      <3>1. x \in Seq(Name) /\ y \in Seq(Name)
        BY <1>2
      <3>2. IsPrefix(x, y)
        BY <1>5
      <3> HIDE DEF x, y
      <3>3. Len(x) <= Len(y) /\ \A i \in 1..Len(x) : x[i] = y[i]
        BY <3>1, <3>2, PrefixIs
      <3> QED BY <3>3 DEF x, y
    <2>2. Len(Tail(a)) \in Nat /\ Len(Tail(b)) \in Nat
      BY <1>2, LenProperties
    <2>3. Len(a) <= Len(b)
      BY <1>2, <2>1, <2>2
    <2>4. ASSUME NEW i \in 1..Len(a) PROVE a[i] = b[i]
      <3>1. CASE i = 1
        BY <1>1, <1>2, <3>1
      <3>2. CASE i # 1
        <4>1. i - 1 \in 1..Len(Tail(a)) /\ i - 1 \in 1..Len(Tail(b)) /\ (i - 1) + 1 = i
          BY <1>2, <2>1, <2>2, <3>2
        <4> QED BY <1>4, <2>1, <4>1
      <3> QED BY <3>1, <3>2
    <2> QED BY <2>3, <2>4, PrefixIs
  <1> QED BY <1>2, <1>3, <1>5 DEF IsStrictPrefix

\* root.MkdirAll where nothing is in the way makes the directories of the path itself.
LEMMA MkdirHere ==
    ASSUME NEW tree, IsTree(tree), NEW d \in Seq(Name), d # <<>>, Is("dir", tree, Front(d)),
           d \in DOMAIN tree => tree[d].t = "dir",
           B!Mkdir([ok |-> TRUE, tree |-> tree], d).ok
    PROVE  B!Mkdir([ok |-> TRUE, tree |-> tree], d).tree
              = IF d \in DOMAIN tree THEN tree ELSE With(tree, d, Dir)
  <1> DEFINE old == [ok |-> TRUE, tree |-> tree]
             made == B!Mkdir(old, d)
  <1>0. old.ok /\ old.tree = tree /\ \A t : [old EXCEPT !.tree = t].tree = t
    OBVIOUS
  <1>1. CASE Resolves(tree, d)
    <2>1. d \in DOMAIN tree
      BY <1>1, NotThere
    <2>2. made = [old EXCEPT !.ok = B!Is("dir", tree, B!Eval(tree, d).at)]
      <3> HIDE DEF old
      <3> QED BY <1>0, <1>1, SameOperators, Zenon DEF B!Mkdir
    <2>3. made.tree = tree
      BY <2>2
    <2> QED BY <2>1, <2>3
  <1>2. CASE ~Resolves(tree, d)
    <2>1. CASE Reaches(tree, d) /\ ~Exists(tree, Real(tree, d))
      <3>1. made = [old EXCEPT !.tree = B!With(tree, B!Real(tree, d), B!Dir)]
        <4> HIDE DEF old
        <4> QED BY <1>0, <1>2, <2>1, SameOperators, Zenon DEF B!Mkdir
      <3>2. made.tree = With(tree, Real(tree, d), Dir)
        BY <3>1, SameOperators
      <3>3. Front(d) \in Seq(Name) /\ Append(Front(d), Last(d)) = d
        BY FrontPath
      <3>4. Eval(tree, Front(d)).at = Front(d)
        BY <2>1, <3>3, RealDir DEF Reaches, Resolves
      <3>5. Real(tree, d) = d
        BY <3>3, <3>4 DEF Real
      <3> QED BY <2>1, <3>2, <3>5 DEF Exists
    <2>2. CASE ~(Reaches(tree, d) /\ ~Exists(tree, Real(tree, d)))
      <3>1. made = [old EXCEPT !.ok = FALSE]
        <4> HIDE DEF old
        <4> QED BY <1>0, <1>2, <2>2, SameOperators, Zenon DEF B!Mkdir
      <3>2. ~made.ok
        BY <3>1
      <3> QED BY <3>2
    <2> QED BY <2>1, <2>2
  <1> QED BY <1>1, <1>2

LEMMA MkdirFailed ==
    ASSUME NEW tree, NEW d
    PROVE  ~B!Mkdir([ok |-> FALSE, tree |-> tree], d).ok
  BY DEF B!Mkdir

\* Nothing but directories is on the way to dir.
Clear(tree, dir) == \A i \in 1..Len(dir) :
    SubSeq(dir, 1, i) \in DOMAIN tree => tree[SubSeq(dir, 1, i)].t = "dir"

LEMMA MkdirAllHere ==
    ASSUME NEW tree, IsTree(tree), NEW dir \in Seq(Name), Clear(tree, dir), B!MkdirAll(tree, dir).ok
    PROVE  LET new == B!MkdirAll(tree, dir).tree
           IN /\ Is("dir", new, dir)
              /\ \A q \in DOMAIN new : q \in DOMAIN tree \/ IsPrefix(q, dir)
  <1>0. Len(dir) \in Nat /\ Len(dir) \in 0..Len(dir) /\ SubSeq(dir, 1, Len(dir)) = dir
    BY SubSeqFull, LenProperties
  <1>1. PICK m : IsMaking(tree, dir, m) /\ B!MkdirAll(tree, dir) = m[Len(dir)]
    BY <1>0, MkdirAllIs
  <1> DEFINE Made(x) == /\ x.ok \in BOOLEAN /\ x = [ok |-> x.ok, tree |-> x.tree]
                        /\ IsTree(x.tree) /\ Grown(tree, x.tree)
             Here(x, n) == /\ Is("dir", x.tree, SubSeq(dir, 1, n))
                           /\ \A q \in DOMAIN x.tree : q \in DOMAIN tree \/ IsPrefix(q, dir)
             I == {n \in 0..Len(dir) : m[n].ok => Here(m[n], n)}
  <1>2. \A n \in 0..Len(dir) : Made(m[n])
    BY <1>1, MakingGrows
  <1>3. 0 \in I
    <2>1. m[0].tree = tree /\ SubSeq(dir, 1, 0) = <<>>
      BY <1>1, SubSeqEmpty DEF IsMaking
    <2>2. Is("dir", m[0].tree, SubSeq(dir, 1, 0))
      BY <2>1 DEF Is, Exists, Node, Dir
    <2> QED BY <1>0, <2>1, <2>2
  <1>4. ASSUME NEW n \in 0..Len(dir), n \in I, n < Len(dir) PROVE n + 1 \in I
    <2> DEFINE d == SubSeq(dir, 1, n + 1)
               x == m[n]
               y == m[n + 1]
    <2>1. n + 1 \in 1..Len(dir) /\ (n + 1) - 1 = n /\ n + 1 \in 0..Len(dir) /\ n + 1 > 0
      BY <1>0, <1>4
    <2> SUFFICES ASSUME y.ok PROVE Here(y, n + 1)
      <3> HIDE DEF Here
      <3> QED BY <2>1
    <2>2. /\ d \in Seq(Name) /\ Len(d) = n + 1
          /\ Front(d) = SubSeq(dir, 1, n)
      BY <2>1, SubPath
    <2>3. d # <<>>
      BY <1>0, <2>1, <2>2, EmptySeq
    <2>4. y = B!Mkdir(x, d)
      BY <1>1, <2>1 DEF IsMaking
    <2>5. Made(x)
      BY <1>2
    <2>6. x = [ok |-> TRUE, tree |-> x.tree]
      <3>1. CASE x.ok = TRUE
        BY <2>5, <3>1
      <3>2. CASE x.ok = FALSE
        <4>1. x = [ok |-> FALSE, tree |-> x.tree]
          BY <2>5, <3>2
        <4> HIDE DEF x, d
        <4>2. ~y.ok
          BY <2>4, <4>1, MkdirFailed
        <4> QED BY <4>2
      <3> QED BY <2>5, <3>1, <3>2
    <2>7. Here(x, n)
      BY <1>4, <2>6
    <2>8. IsPrefix(d, dir)
      BY <2>1, PartOf
    <2>9. d \in DOMAIN x.tree => x.tree[d].t = "dir"
      <3>1. d \in DOMAIN tree => tree[d].t = "dir"
        BY <2>1 DEF Clear
      <3> QED BY <2>5, <3>1 DEF Grown, Dir
    <2>10. y = B!Mkdir([ok |-> TRUE, tree |-> x.tree], d)
      BY <2>4, <2>6
    <2>11. Is("dir", x.tree, Front(d)) /\ IsTree(x.tree)
      BY <2>2, <2>5, <2>7
    <2>12. \A q \in DOMAIN x.tree : q \in DOMAIN tree \/ IsPrefix(q, dir)
      BY <2>7
    <2> HIDE DEF d, x, y, Made, Here
    <2>13. y.tree = IF d \in DOMAIN x.tree THEN x.tree ELSE With(x.tree, d, Dir)
      BY <2>2, <2>3, <2>9, <2>10, <2>11, MkdirHere
    <2>14. Is("dir", y.tree, d)
      BY <2>3, <2>9, <2>13 DEF Is, Exists, Node, With, Dir
    <2>15. ASSUME NEW q \in DOMAIN y.tree PROVE q \in DOMAIN tree \/ IsPrefix(q, dir)
      <3>1. q \in DOMAIN x.tree \/ q = d
        BY <2>13 DEF With
      <3> QED BY <2>8, <2>12, <3>1
    <2> QED BY <2>14, <2>15 DEF Here, d
  <1> HIDE DEF I
  <1>5. \A n \in 0..Len(dir) : n \in I
    BY <1>0, <1>3, <1>4, InductionTo
  <1>6. Len(dir) \in I
    BY <1>0, <1>5
  <1>7. Here(m[Len(dir)], Len(dir))
    BY <1>1, <1>6 DEF I
  <1> QED BY <1>0, <1>1, <1>7

\* One entry: what was there stays, the entry is at its place, and all else that is new
\* are directories above it.
EntryStep(old, new, place, node) ==
    /\ \A q \in DOMAIN old : q \in DOMAIN new /\ new[q] = old[q]
    /\ \A q \in DOMAIN new : \/ q \in DOMAIN old
                             \/ q = place
                             \/ new[q].t = "dir" /\ IsStrictPrefix(q, place)
    /\ place # <<>> /\ place \in DOMAIN new /\ new[place] = node

Readable == TarOK /\ ReadInv /\ PkgInv /\ B!Simple(tar) /\ Unpacked(tar, pkg, read)

LEMMA SimpleIs ==
    ASSUME TarOK, B!Simple(tar), NEW i \in 1..Len(tar), NEW j \in 1..Len(tar)
    PROVE  /\ tar[i].name \in Seq(Name) /\ IsNode(tar[i].node) /\ B!Kind(tar[i]) = tar[i].node.t
           /\ ~B!IsHard(tar[i])
           /\ tar[i].name = tar[j].name => i = j
           /\ IsStrictPrefix(tar[i].name, tar[j].name) => tar[i].node.t = "dir"
           /\ tar[i].name = <<Package>> => tar[i].node.t = "dir"
  <1>1. DOMAIN tar = 1..Len(tar) /\ tar[i] \in ToSet(tar)
    BY LenProperties DEF TarOK, ToSet
  <1>2. EntryOK(tar[i])
    BY <1>1 DEF TarOK
  <1>3. ~B!IsHard(tar[i])
    BY <1>1 DEF B!Simple
  <1>4. tar[i].name \in Seq(Name) /\ IsNode(tar[i].node) /\ B!Kind(tar[i]) = tar[i].node.t
    BY <1>2, <1>3 DEF EntryOK, B!IsHard, B!Kind
  <1>5. tar[i].name = tar[j].name => i = j
    BY <1>1 DEF B!Simple
  <1>6. IsStrictPrefix(tar[i].name, tar[j].name) => B!Kind(tar[i]) = "dir"
    BY <1>1, StrictIs DEF B!Simple
  <1>7. tar[i].name = <<Package>> => B!Kind(tar[i]) = "dir"
    BY <1>1 DEF B!Simple
  <1> QED BY <1>3, <1>4, <1>5, <1>6, <1>7

\* On the way to the next entry there are only directories, and at its place there is
\* nothing but, for a directory, one that was made for an earlier entry.
LEMMA WayIsClear ==
    ASSUME Readable, read < Len(tar), B!Rooted(tar[read + 1].name), NEW q \in DOMAIN pkg
    PROVE  /\ IsStrictPrefix(q, At(tar[read + 1])) => pkg[q].t = "dir"
           /\ q = At(tar[read + 1]) => pkg[q].t = "dir" /\ tar[read + 1].node.t = "dir"
  <1> DEFINE e == tar[read + 1]
  <1>1. read + 1 \in 1..Len(tar) /\ read \in Nat
    BY NextEntry DEF Readable, ReadInv
  <1>2. e.name \in Seq(Name)
    BY <1>1, SimpleIs DEF Readable
  <1>3. CASE \E i \in 1..read : At(tar[i]) = q
    <2>1. PICK i \in 1..read : At(tar[i]) = q
      BY <1>3
    <2>2. i \in 1..Len(tar) /\ i # read + 1
      BY <1>1
    <2>3. tar[i].name \in Seq(Name) /\ B!Rooted(tar[i].name) /\ Node(pkg, q) = tar[i].node
      BY <2>1, <2>2, SimpleIs DEF Readable, Unpacked
    <2>4. Node(pkg, q) = pkg[q]
      BY TreeNode DEF Readable, PkgInv, Node
    <2>5. ASSUME IsStrictPrefix(q, At(e)) PROVE pkg[q].t = "dir"
      <3>1. IsStrictPrefix(tar[i].name, e.name)
        BY <1>2, <2>1, <2>3, <2>5, NamePlace DEF At
      <3>2. tar[i].node.t = "dir"
        BY <1>1, <2>2, <3>1, SimpleIs DEF Readable
      <3> QED BY <2>3, <2>4, <3>2
    <2>6. q # At(e)
      <3> SUFFICES ASSUME q = At(e) PROVE FALSE
        OBVIOUS
      <3>1. tar[i].name = e.name
        BY <1>2, <2>1, <2>3, NamePlace DEF At
      <3> QED BY <1>1, <2>2, <3>1, SimpleIs DEF Readable
    <2> QED BY <2>5, <2>6
  <1>4. CASE pkg[q].t = "dir" /\ \E i \in 1..read : IsStrictPrefix(q, At(tar[i]))
    <2>1. PICK i \in 1..read : IsStrictPrefix(q, At(tar[i]))
      BY <1>4
    <2>2. i \in 1..Len(tar)
      BY <1>1
    <2>3. tar[i].name \in Seq(Name) /\ B!Rooted(tar[i].name)
      BY <2>2, SimpleIs DEF Readable, Unpacked
    <2>4. ASSUME q = At(e) PROVE tar[read + 1].node.t = "dir"
      <3>1. IsStrictPrefix(e.name, tar[i].name)
        BY <1>2, <2>1, <2>3, <2>4, NamePlace DEF At
      <3> QED BY <1>1, <2>2, <3>1, SimpleIs DEF Readable
    <2> QED BY <1>4, <2>4
  <1> QED BY <1>3, <1>4 DEF Readable, Unpacked

LEMMA UnpackStep ==
    ASSUME Readable, read < Len(tar), B!Unpack(tar[read + 1])
    PROVE  EntryStep(pkg, pkg', At(tar[read + 1]), tar[read + 1].node)
  <1> DEFINE e == tar[read + 1]
             place == Tail(e.name)
             dir == Front(place)
             made == B!MkdirAll(pkg, dir)
             tree == made.tree
             spot == Real(tree, place)
  <1>1. read + 1 \in 1..Len(tar) /\ EntryOK(e)
    BY NextEntry DEF Readable
  <1>2. /\ e.name \in Seq(Name) /\ B!Rooted(e.name)
        /\ place \in Seq(Name) /\ place # <<>>
        /\ made.ok /\ Reaches(tree, place)
        /\ IsTree(tree) /\ Grown(pkg, tree)
        /\ B!Fits(e, tree, spot)
        /\ \/ B!ExtractDir(e, tree, spot) \/ B!ExtractFile(e, tree, spot)
           \/ B!ExtractLink(e, tree, spot) \/ B!ExtractHardLink(e, tree, spot)
    BY <1>1, UnpackIs DEF Readable, PkgInv
  <1>3. /\ dir \in Seq(Name) /\ Append(dir, Last(place)) = place /\ Len(place) = Len(dir) + 1
        /\ Len(dir) \in Nat /\ Len(place) \in Nat
    BY <1>2, FrontPath, LenProperties
  <1>4. IsNode(e.node) /\ B!Kind(e) = e.node.t /\ ~B!IsHard(e)
    BY <1>1, SimpleIs DEF Readable
  <1>5. ASSUME NEW q \in DOMAIN pkg
        PROVE  /\ IsStrictPrefix(q, place) => pkg[q].t = "dir"
               /\ q = place => pkg[q].t = "dir" /\ e.node.t = "dir"
    BY <1>2, WayIsClear DEF At
  <1>6. B!Place(e) = place /\ At(e) = place
    BY DEF B!Place, At
  <1> SUFFICES EntryStep(pkg, pkg', place, e.node)
    BY <1>6
  <1> HIDE DEF place, dir
  <1>7. \A q \in Seq(Name) : IsPrefix(q, dir) => IsStrictPrefix(q, place)
    <2> SUFFICES ASSUME NEW q \in Seq(Name), IsPrefix(q, dir) PROVE IsStrictPrefix(q, place)
      OBVIOUS
    <2>1. Len(q) <= Len(dir) /\ Len(q) \in Nat
      BY <1>3, PrefixIs, LenProperties
    <2>2. q # place
      BY <1>3, <2>1
    <2>3. IsPrefix(q, place)
      BY <1>2, PrefixOfAppend DEF dir
    <2> QED BY <2>2, <2>3 DEF IsStrictPrefix
  <1>8. Clear(pkg, dir)
    <2> SUFFICES ASSUME NEW i \in 1..Len(dir), SubSeq(dir, 1, i) \in DOMAIN pkg
                 PROVE  pkg[SubSeq(dir, 1, i)].t = "dir"
      BY DEF Clear
    <2>1. i \in 0..Len(dir)
      BY <1>3
    <2>2. SubSeq(dir, 1, i) \in Seq(Name) /\ IsPrefix(SubSeq(dir, 1, i), dir)
      BY <1>3, <2>1, SubPath, PartOf
    <2> QED BY <1>5, <1>7, <2>2
  <1>9. /\ Is("dir", tree, dir)
        /\ \A q \in DOMAIN tree : q \in DOMAIN pkg \/ IsPrefix(q, dir)
    BY <1>2, <1>3, <1>8, MkdirAllHere DEF Readable, PkgInv
  <1> HIDE DEF made
  <1>10. spot = place
    <2>1. Eval(tree, dir).at = dir
      BY <1>2, <1>3, <1>9, RealDir DEF Reaches, Resolves, dir
    <2> QED BY <1>3, <2>1 DEF Real, dir
  <1> HIDE DEF spot, e
  <1>11. ASSUME NEW q \in DOMAIN tree
         PROVE  \/ q \in DOMAIN pkg /\ tree[q] = pkg[q]
                \/ q \notin DOMAIN pkg /\ tree[q].t = "dir" /\ IsStrictPrefix(q, place)
    <2>1. q \in DOMAIN pkg => tree[q] = pkg[q]
      BY <1>2 DEF Grown
    <2>2. q \notin DOMAIN pkg => tree[q].t = "dir" /\ IsStrictPrefix(q, place)
      <3>1. q \in Seq(Name)
        BY <1>2, TreeNode
      <3> QED BY <1>2, <1>7, <1>9, <3>1 DEF Grown, Dir
    <2> QED BY <2>1, <2>2
  <1>12. \A q \in DOMAIN pkg : q \in DOMAIN tree /\ tree[q] = pkg[q]
    BY <1>2 DEF Grown
  <1>13. place \in DOMAIN tree => tree[place].t = "dir" /\ e.node.t = "dir"
    BY <1>5, <1>11 DEF IsStrictPrefix
  <1>14. CASE B!ExtractDir(e, tree, place)
    <2>1. B!MkdirAll(tree, place).ok /\ pkg' = B!MkdirAll(tree, place).tree /\ e.node.t = "dir"
      BY <1>2, <1>4, <1>6, <1>10, <1>14 DEF B!ExtractDir, B!Took, B!Fits
    <2>2. Clear(tree, place)
      <3> SUFFICES ASSUME NEW i \in 1..Len(place), SubSeq(place, 1, i) \in DOMAIN tree
                   PROVE  tree[SubSeq(place, 1, i)].t = "dir"
        BY DEF Clear
      <3>1. i \in 0..Len(place)
        BY <1>3
      <3>2. IsPrefix(SubSeq(place, 1, i), place)
        BY <1>2, <3>1, PartOf
      <3> DEFINE q == SubSeq(place, 1, i)
      <3> HIDE DEF q
      <3>3. q = place \/ IsStrictPrefix(q, place)
        BY <3>2 DEF IsStrictPrefix, q
      <3>4. q \in DOMAIN tree
        BY DEF q
      <3>5. tree[q].t = "dir"
        BY <1>5, <1>11, <1>13, <3>3, <3>4
      <3> QED BY <3>5 DEF q
    <2>3. /\ Is("dir", pkg', place)
          /\ \A q \in DOMAIN pkg' : q \in DOMAIN tree \/ IsPrefix(q, place)
      BY <1>2, <2>1, <2>2, MkdirAllHere
    <2>4. IsTree(pkg') /\ Grown(tree, pkg')
      BY <1>2, <2>1, MkdirAllGrows
    <2>5. place \in DOMAIN pkg' /\ pkg'[place] = e.node
      <3>1. e.node = Dir
        BY <1>4, <2>1 DEF IsNode
      <3>2. place \in DOMAIN pkg' /\ pkg'[place].t = "dir"
        BY <1>2, <2>3 DEF Is, Exists, Node
      <3> QED BY <2>4, <3>1, <3>2, TreeNode
    <2>6. ASSUME NEW q \in DOMAIN pkg PROVE q \in DOMAIN pkg' /\ pkg'[q] = pkg[q]
      BY <1>12, <2>4 DEF Grown
    <2>7. ASSUME NEW q \in DOMAIN pkg'
          PROVE  \/ q \in DOMAIN pkg \/ q = place
                 \/ pkg'[q].t = "dir" /\ IsStrictPrefix(q, place)
      <3>1. CASE q \in DOMAIN tree
        BY <1>11, <2>4, <3>1 DEF Grown
      <3>2. CASE q \notin DOMAIN tree
        BY <2>3, <2>4, <3>2 DEF Grown, Dir, IsStrictPrefix
      <3> QED BY <3>1, <3>2
    <2> QED BY <1>2, <2>5, <2>6, <2>7 DEF EntryStep
  <1>15. ASSUME place \notin DOMAIN tree, pkg' = With(tree, place, e.node)
         PROVE  EntryStep(pkg, pkg', place, e.node)
    <2>1. /\ DOMAIN pkg' = DOMAIN tree \cup {place} /\ pkg'[place] = e.node
          /\ \A q \in DOMAIN tree : pkg'[q] = tree[q]
      BY <1>15 DEF With
    <2> QED BY <1>2, <1>11, <1>12, <2>1 DEF EntryStep
  <1>16. CASE B!ExtractFile(e, tree, place)
    <2>1. e.node.t = "file"
      BY <1>4, <1>16 DEF B!ExtractFile
    <2>2. place \notin DOMAIN tree
      BY <1>13, <2>1
    <2>3. ~B!Exists(tree, place)
      BY <1>2, <2>2, SameOperators DEF Exists
    <2>4. pkg' = With(tree, place, e.node)
      <3>1. pkg' = B!With(tree, place, e.node)
        BY <1>16, <2>3 DEF B!ExtractFile, B!Took
      <3> QED BY <3>1, SameOperators
    <2> QED BY <1>15, <2>2, <2>4
  <1>17. CASE B!ExtractLink(e, tree, place)
    <2>1. e.node.t = "link" /\ pkg' = B!With(tree, place, e.node)
      BY <1>4, <1>17 DEF B!ExtractLink, B!Took
    <2>2. place \notin DOMAIN tree
      BY <1>13, <2>1
    <2>3. pkg' = With(tree, place, e.node)
      BY <2>1, SameOperators
    <2> QED BY <1>15, <2>2, <2>3
  <1>18. ~B!ExtractHardLink(e, tree, place)
    <2>1. e.node.t # "hard"
      BY <1>4 DEF IsNode, Dir
    <2> QED BY <1>4, <2>1 DEF B!ExtractHardLink
  <1> QED BY <1>2, <1>10, <1>14, <1>16, <1>17, <1>18

\* What EntryStep means for the archive.
LEMMA NextUnpacked ==
    ASSUME Readable, read < Len(tar), B!Rooted(tar[read + 1].name), NEW new,
           \/ EntryStep(pkg, new, At(tar[read + 1]), tar[read + 1].node)
           \/ new = pkg /\ tar[read + 1].name = <<Package>>
    PROVE  Unpacked(tar, new, read + 1)
  <1> DEFINE e == tar[read + 1]
             n == read + 1
  <1>1. read \in Nat /\ n \in 1..Len(tar) /\ \A i \in 1..n : i \in 1..read \/ i = n
    BY NextEntry DEF Readable, ReadInv
  <1>2. \A q \in DOMAIN pkg : q \in DOMAIN new /\ new[q] = pkg[q]
    BY DEF EntryStep
  <1>3. Exists(new, At(e)) /\ Node(new, At(e)) = e.node
    <2>1. CASE EntryStep(pkg, new, At(e), e.node)
      <3>1. At(e) # <<>> /\ At(e) \in DOMAIN new /\ new[At(e)] = e.node
        BY <2>1 DEF EntryStep
      <3> QED BY <3>1 DEF Exists, Node
    <2>2. CASE e.name = <<Package>>
      <3>1. At(e) = <<>>
        BY <2>2 DEF At
      <3>2. e.node.t = "dir" /\ IsNode(e.node)
        BY <1>1, <2>2, SimpleIs DEF Readable
      <3>3. e.node = Dir
        BY <3>2 DEF IsNode
      <3> QED BY <3>1, <3>3 DEF Exists, Node
    <2> QED BY <2>1, <2>2
  <1>4. ASSUME NEW i \in 1..n
        PROVE  /\ B!Rooted(tar[i].name)
               /\ Exists(new, At(tar[i])) /\ Node(new, At(tar[i])) = tar[i].node
    <2>1. CASE i = n
      BY <1>3, <2>1
    <2>2. CASE i \in 1..read
      BY <1>2, <2>2 DEF Readable, Unpacked, Exists, Node
    <2> QED BY <1>1, <2>1, <2>2
  <1>5. ASSUME NEW p \in DOMAIN new
        PROVE  \/ \E i \in 1..n : At(tar[i]) = p
               \/ new[p].t = "dir" /\ \E i \in 1..n : IsStrictPrefix(p, At(tar[i]))
    <2>1. CASE p \in DOMAIN pkg
      <3>1. \A i \in 1..read : i \in 1..n
        BY <1>1
      <3> QED BY <1>2, <2>1, <3>1 DEF Readable, Unpacked
    <2>2. CASE p \notin DOMAIN pkg
      <3>1. n \in 1..n
        BY <1>1
      <3> QED BY <2>2, <3>1 DEF EntryStep
    <2> QED BY <2>1, <2>2
  <1> QED BY <1>4, <1>5 DEF Unpacked

\* Before the archive is there, nothing is unpacked; what is unpacked of an accepted
\* archive is all of it.
VerbatimInv == /\ pass # "done" => read = 0 /\ pkg = <<>> /\ bm = "reading"
               /\ bm # "refused" /\ B!Simple(tar) => Unpacked(tar, pkg, read)
               /\ bm = "accepted" => read = Len(tar)

LEMMA NothingUnpacked ==
    ASSUME NEW t
    PROVE  Unpacked(t, <<>>, 0)
  BY EmptyTree DEF Unpacked

LEMMA ExtractVerbatim ==
    ASSUME Inv, VerbatimInv, B!Extract, pass = "done", UNCHANGED vars
    PROVE  VerbatimInv'
  <1>1. bm = "reading" /\ tar' = tar /\ pass' = "done" /\ TarOK /\ ReadInv /\ PkgInv
    BY DEF B!Extract, vars, Inv, BuildInv
  <1>2. ASSUME B!Simple(tar) PROVE Readable
    BY <1>1, <1>2 DEF VerbatimInv, Readable
  <1>3. ASSUME read < Len(tar), B!SkipRoot(tar[read + 1])
        PROVE  VerbatimInv'
    <2>1. tar[read + 1].name = <<Package>> /\ pkg' = pkg /\ bm' = bm /\ read' = read + 1
      BY <1>3 DEF B!SkipRoot, B!Took
    <2>2. B!Rooted(tar[read + 1].name)
      BY <2>1 DEF B!Rooted
    <2>3. B!Simple(tar) => Unpacked(tar, pkg', read + 1)
      BY <1>2, <1>3, <2>1, <2>2, NextUnpacked
    <2> QED BY <1>1, <2>1, <2>3 DEF VerbatimInv
  <1>4. ASSUME read < Len(tar), B!Unpack(tar[read + 1])
        PROVE  VerbatimInv'
    <2>1. bm' = bm /\ read' = read + 1
      BY <1>4, UnpackFrame
    <2>2. B!Rooted(tar[read + 1].name)
      BY <1>4 DEF B!Unpack, B!Unpacks, B!Named
    <2>3. B!Simple(tar) => Unpacked(tar, pkg', read + 1)
      BY <1>2, <1>4, <2>2, UnpackStep, NextUnpacked
    <2> QED BY <1>1, <2>1, <2>3 DEF VerbatimInv
  <1>5. ASSUME B!Refuse(tar[read + 1])
        PROVE  VerbatimInv'
    BY <1>1, <1>5, RefuseIs DEF VerbatimInv
  <1>6. ASSUME B!Finish
        PROVE  VerbatimInv'
    <2>1. UNCHANGED <<read, pkg>> /\ read = Len(tar)
      BY <1>6 DEF B!Finish
    <2> QED BY <1>1, <2>1 DEF VerbatimInv
  <1> QED BY <1>3, <1>4, <1>5, <1>6 DEF B!Extract

LEMMA NotDone ==
    ASSUME Next
    PROVE  pass # "done"
  BY DEF Next, CopyLink, CopyDir, CopyFile, Turn, CopyDone, Drop, DropDone, RemoveStatic, Unwrap, PrepareDone,
         RemoveDangling, DanglingDone, Rewrite, ArchiveEntry, ArchiveDone

LEMMA VerbatimStep ==
    ASSUME Inv, VerbatimInv, [DNext]_all
    PROVE  VerbatimInv'
  <1>1. CASE Build
    <2>1. pass # "done" /\ UNCHANGED <<read, pkg, bm>>
      BY <1>1, NotDone DEF Build, extraction
    <2>2. read' = 0 /\ pkg' = <<>> /\ bm' = "reading"
      BY <2>1 DEF VerbatimInv
    <2> QED BY <2>2, NothingUnpacked DEF VerbatimInv
  <1>2. CASE Install
    BY <1>2, ExtractVerbatim DEF Install
  <1>3. CASE UNCHANGED all
    BY <1>3 DEF all, VerbatimInv
  <1> QED BY <1>1, <1>2, <1>3 DEF DNext

\* An accepted package is exactly what its archive says, if the names in that do not
\* disturb each other: for every archive, in every order.
THEOREM ArchiveIsVerbatim == DSpec => []Verbatim
  <1>1. DInit => VerbatimInv
    BY NothingUnpacked DEF DInit, B!ExtractInit, VerbatimInv
  <1>2. Inv /\ VerbatimInv /\ [DNext]_all => VerbatimInv'
    BY VerbatimStep
  <1>3. Inv /\ VerbatimInv => Verbatim
    <2> SUFFICES ASSUME Inv, VerbatimInv, bm = "accepted", B!Simple(tar)
                 PROVE  /\ \A i \in DOMAIN tar :
                             LET p == Tail(tar[i].name) IN B!Exists(pkg, p) /\ B!Node(pkg, p) = tar[i].node
                        /\ \A p \in DOMAIN pkg : <<Package>> \o p \in B!Names(tar) \/ B!Is("dir", pkg, p)
      BY DEF Verbatim, B!Verbatim
    <2>1. DOMAIN tar = 1..Len(tar) /\ TarOK /\ IsTree(pkg)
      BY LenProperties DEF Inv, BuildInv, TarOK, PkgInv
    <2>2. Unpacked(tar, pkg, Len(tar))
      BY DEF VerbatimInv
    <2>3. ASSUME NEW i \in DOMAIN tar
          PROVE  B!Exists(pkg, Tail(tar[i].name)) /\ B!Node(pkg, Tail(tar[i].name)) = tar[i].node
      BY <2>1, <2>2, SameOperators DEF Unpacked, At
    <2>4. ASSUME NEW p \in DOMAIN pkg PROVE <<Package>> \o p \in B!Names(tar) \/ B!Is("dir", pkg, p)
      <3>1. CASE \E i \in 1..Len(tar) : At(tar[i]) = p
        <4>1. PICK i \in 1..Len(tar) : At(tar[i]) = p
          BY <3>1
        <4>2. tar[i].name \in Seq(Name) /\ B!Rooted(tar[i].name)
          BY <2>1, <2>2, SimpleIs DEF Unpacked
        <4>3. tar[i].name = <<Package>> \o p
          BY <4>1, <4>2, HeadTailPath DEF At, B!Rooted
        <4> QED BY <2>1, <4>3 DEF B!Names
      <3>2. CASE pkg[p].t = "dir"
        <4>1. Is("dir", pkg, p)
          BY <2>1, <3>2, TreeNode DEF Is, Exists, Node
        <4> QED BY <4>1, SameOperators
      <3> QED BY <2>2, <3>1, <3>2 DEF Unpacked
    <2> QED BY <2>3, <2>4
  <1> QED BY <1>1, <1>2, <1>3, DeliveryInvariant, PTL DEF DSpec

-----------------------------------------------------------------------------
\* The store is as it was, and the output is a directory, in every pass.

LEMMA InOut ==
    ASSUME NEW p \in Seq(Name)
    PROVE  /\ IsPrefix(<<Out>>, p) <=> p # <<>> /\ p[1] = Out
           /\ IsStrictPrefix(<<Out>>, p) <=> p # <<>> /\ Front(p) # <<>> /\ p[1] = Out
  <1>1. <<Out>> \in Seq(Name) /\ Len(<<Out>>) = 1 /\ <<Out>>[1] = Out
    BY ArtifactAssumption
  <1>2. Len(p) \in Nat /\ (p = <<>> <=> Len(p) = 0)
    BY EmptySeq
  <1>3. IsPrefix(<<Out>>, p) <=> p # <<>> /\ p[1] = Out
    <2>1. IsPrefix(<<Out>>, p) <=> 1 <= Len(p) /\ \A i \in 1..1 : <<Out>>[i] = p[i]
      <3> DEFINE o == <<Out>>
      <3>1. o \in Seq(Name) /\ Len(o) = 1
        BY <1>1
      <3> HIDE DEF o
      <3>2. IsPrefix(o, p) <=> Len(o) <= Len(p) /\ \A i \in 1..Len(o) : o[i] = p[i]
        BY <3>1, PrefixIs
      <3> QED BY <3>1, <3>2 DEF o
    <2> QED BY <1>1, <1>2, <2>1
  <1>4. ASSUME p # <<>>, p[1] = Out PROVE p = <<Out>> <=> Front(p) = <<>>
    <2>1. /\ Front(p) \in Seq(Name) /\ p = Append(Front(p), Last(p)) /\ Len(p) = Len(Front(p)) + 1
          /\ (Front(p) = <<>> => Last(p) = Out)
      BY <1>4, FrontPath
    <2>2. Front(p) = <<>> => p = <<Out>>
      BY <2>1
    <2>3. p = <<Out>> => Len(Front(p)) = 0
      BY <1>1, <2>1
    <2> QED BY <2>1, <2>2, <2>3, EmptySeq
  <1>5. ASSUME p = <<>> PROVE ~IsStrictPrefix(<<Out>>, p)
    BY <1>3, <1>5 DEF IsStrictPrefix
  <1> QED BY <1>3, <1>4, <1>5 DEF IsStrictPrefix

LEMMA StoreSame ==
    ASSUME NEW t1, NEW t2, IsTree(t1), StoreOK(t1), Agree(t1, t2),
           \A p \in DOMAIN t2 : p[1] = Out \/ p \in Seq(In)
    PROVE  StoreOK(t2)
  <1> SUFFICES ASSUME NEW p \in DOMAIN t2, p[1] # Out PROVE Stored(t2, p)
    BY DEF StoreOK
  <1>1. p \in Seq(In) /\ p \in DOMAIN t1 /\ t1[p] = t2[p]
    BY DEF Agree
  <1>2. Stored(t1, p)
    BY <1>1 DEF StoreOK
  <1>3. LinksIn(t1) /\ p \in Seq(InUp)
    BY <1>1, StoreLinks, InIs
  <1>4. Eval(t2, p) = Eval(t1, p)
    BY <1>3, AgreeEval
  <1> QED BY <1>1, <1>2, <1>4 DEF Stored, Resolves

OutInv == \/ disk = <<>> /\ pass = "done"
          \/ disk # <<>> /\ <<Out>> \in DOMAIN disk /\ disk[<<Out>>] = Dir
StoreInv == StoreOK(disk) /\ OutInv

LEMMA StoreInit ==
    ASSUME DInit
    PROVE  StoreInv
  <1>1. CASE Foreign
    BY <1>1 DEF Foreign, StoreInv, StoreOK, OutInv
  <1>2. CASE Init
    <2>1. PICK tree \in Trees : disk = With(tree, <<Out>>, Dir) /\ pass = "copy"
      BY <1>2 DEF Init
    <2>2. OutInv
      BY <2>1 DEF OutInv, With
    <2>3. StoreOK(disk)
      <3>1. Inv
        BY DInitInv
      <3> QED BY <2>1, <3>1 DEF Inv, BuildInv, CopyInv
    <2> QED BY <2>2, <2>3 DEF StoreInv
  <1> QED BY <1>1, <1>2 DEF DInit

\* What a step does to the disk: nothing, or one of four things to the output.
OutStep(old, new) ==
    \/ new = old
    \/ \E p, n : /\ p \in Seq(Name) /\ p # <<>> /\ p[1] = Out /\ p # <<Out>>
                 /\ \/ new = With(old, p, n)
                    \/ \E q : q[1] = Out /\ q # <<Out>> /\ new = With(Without(old, {q}), p, n)
    \/ \E P : (\A p \in P : p[1] = Out /\ p # <<Out>>) /\ new = Without(old, P)
    \/ DOMAIN new = DOMAIN old /\ \A p \in DOMAIN old : new[p] = old[p] \/ (p[1] = Out /\ old[p].t = "file")

LEMMA OutStepStore ==
    ASSUME NEW old, NEW new, IsTree(old), StoreOK(old), <<Out>> \in DOMAIN old, old[<<Out>>] = Dir,
           OutStep(old, new)
    PROVE  /\ Agree(old, new) /\ StoreOK(new) /\ <<Out>> \in DOMAIN new /\ new[<<Out>>] = Dir
  <1>0. /\ \A p \in Seq(In) : p = <<>> \/ p[1] # Out
        /\ \A p \in DOMAIN old : p # <<>> /\ p \in Seq(Name) /\ (p[1] = Out \/ p \in Seq(In))
        /\ <<>> \notin DOMAIN old
        /\ Dir.t # "file" /\ <<Out>>[1] = Out
    <2>1. \A p \in Seq(In) : p = <<>> \/ p[1] # Out
      BY OutsideIn
    <2> QED BY <2>1, TreeNode DEF StoreOK, Stored, Dir
  <1>1. ASSUME new = old
        PROVE  Agree(old, new) /\ (\A p \in DOMAIN new : p[1] = Out \/ p \in Seq(In))
               /\ <<Out>> \in DOMAIN new /\ new[<<Out>>] = Dir
    BY <1>0, <1>1 DEF Agree
  <1>2. ASSUME NEW p, NEW n, p # <<>>, p[1] = Out, p # <<Out>>,
               \/ new = With(old, p, n)
               \/ \E q : q[1] = Out /\ q # <<Out>> /\ new = With(Without(old, {q}), p, n)
        PROVE  Agree(old, new) /\ (\A q \in DOMAIN new : q[1] = Out \/ q \in Seq(In))
               /\ <<Out>> \in DOMAIN new /\ new[<<Out>>] = Dir
    <2>1. CASE new = With(old, p, n)
      BY <1>0, <1>2, <2>1 DEF Agree, With
    <2>2. ASSUME NEW q, q[1] = Out, q # <<Out>>, new = With(Without(old, {q}), p, n)
          PROVE  Agree(old, new) /\ (\A r \in DOMAIN new : r[1] = Out \/ r \in Seq(In))
                 /\ <<Out>> \in DOMAIN new /\ new[<<Out>>] = Dir
      BY <1>0, <1>2, <2>2 DEF Agree, With, Without
    <2> QED BY <1>2, <2>1, <2>2
  <1>3. ASSUME NEW P, \A p \in P : p[1] = Out /\ p # <<Out>>, new = Without(old, P)
        PROVE  Agree(old, new) /\ (\A p \in DOMAIN new : p[1] = Out \/ p \in Seq(In))
               /\ <<Out>> \in DOMAIN new /\ new[<<Out>>] = Dir
    <2>1. \A p \in Seq(In) : p \in P => p = <<>>
      BY <1>0, <1>3
    <2> QED BY <1>0, <1>3, <2>1 DEF Agree, Without
  <1>4. ASSUME DOMAIN new = DOMAIN old,
               \A p \in DOMAIN old : new[p] = old[p] \/ (p[1] = Out /\ old[p].t = "file")
        PROVE  Agree(old, new) /\ (\A p \in DOMAIN new : p[1] = Out \/ p \in Seq(In))
               /\ <<Out>> \in DOMAIN new /\ new[<<Out>>] = Dir
    BY <1>0, <1>4 DEF Agree
  <1>5. Agree(old, new) /\ (\A p \in DOMAIN new : p[1] = Out \/ p \in Seq(In))
        /\ <<Out>> \in DOMAIN new /\ new[<<Out>>] = Dir
    BY <1>1, <1>2, <1>3, <1>4 DEF OutStep
  <1> QED BY <1>5, StoreSame

LEMMA CopyOutStep ==
    ASSUME BuildInv, StoreInv, NEW j \in todo, CopyLink(j) \/ CopyDir(j) \/ CopyFile(j)
    PROVE  OutStep(disk, disk')
  <1>1. pass = "copy"
    BY DEF CopyLink, CopyDir, CopyFile, Turn
  <1>2. JobOK(disk, j) /\ IsTree(disk)
    BY <1>1 DEF BuildInv, CopyInv, DiskInv
  <1>3. j.dst \in Seq(Name) /\ j.dst # <<>> /\ j.dst[1] = Out /\ \A q \in DOMAIN disk : ~IsPrefix(j.dst, q)
    BY <1>2 DEF JobOK
  <1>4. j.dst # <<Out>>
    <2>1. <<Out>> \in DOMAIN disk
      BY <1>1 DEF StoreInv, OutInv
    <2>2. IsPrefix(j.dst, j.dst)
      BY <1>3, PrefixOfAppend
    <2> QED BY <1>3, <2>1, <2>2
  <1>5. disk' = disk \/ \E n : disk' = With(disk, j.dst, n)
    BY DEF CopyLink, CopyDir, CopyFile, Fail
  <1> QED BY <1>3, <1>4, <1>5 DEF OutStep

\* A file or a link of the output.
LEMMA OutNode ==
    ASSUME BuildInv, StoreInv, disk # <<>>, NEW p \in DOMAIN disk, IsPrefix(<<Out>>, p), disk[p].t # "dir"
    PROVE  p \in Seq(Name) /\ p # <<>> /\ p[1] = Out /\ p # <<Out>> /\ Front(p) # <<>>
           /\ Front(p)[1] = Out /\ Front(p) \in Seq(Name)
  <1>1. p \in Seq(Name) /\ p # <<>> /\ p[1] = Out
    BY TreeNode, InOut DEF BuildInv, DiskInv
  <1>2. p # <<Out>>
    BY DEF StoreInv, OutInv, Dir
  <1>3. IsStrictPrefix(<<Out>>, p)
    BY <1>2 DEF IsStrictPrefix
  <1> QED BY <1>1, <1>2, <1>3, InOut, FrontPath

LEMMA DropOutStep ==
    ASSUME BuildInv, StoreInv, NEW i \in todo, Drop(i)
    PROVE  OutStep(disk, disk')
  <1>0. pass = "drop"
    BY DEF Drop
  <1>1. IsTree(disk) /\ todo \subseteq DOMAIN Dropped
    BY <1>0 DEF BuildInv, DiskInv, TodoInv
  <1>2. CASE Fail
    BY <1>2 DEF Fail, OutStep
  <1>3. CASE ~Fail
    <2>1. /\ disk' = Without(disk, Gone(disk, Dropped[i]))
          /\ \A p \in Gone(disk, Dropped[i]) : p[1] = Out
      BY <1>1, <1>3, DropIs
    <2>2. <<Out>> \notin Gone(disk, Dropped[i])
      <3> SUFFICES ASSUME <<Out>> \in Gone(disk, Dropped[i]) PROVE FALSE
        OBVIOUS
      <3> DEFINE d == Dropped[i]
                 g == Append(Parent(disk, d).at, Last(d))
      <3>1. Front(d) \in Seq(Name) /\ Last(d) \in Name /\ Last(d) # Out
        BY <1>1, DroppedPath
      <3>2. Parent(disk, d).at \in Seq(Name)
        <4>1. <<Out>> \in Seq(Name) /\ <<Out>> \o Front(d) \in Seq(Name)
          BY <3>1, ArtifactAssumption, ConcatProperties
        <4>2. <<Out>> \o Front(d) \in Seq(Up)
          BY <4>1, SeqMonotonic DEF Up
        <4> QED BY <1>1, <4>2, EvalPlace DEF Places, Parent
      <3>3. IsPrefix(g, <<Out>>)
        BY DEF Gone, Under
      <3> HIDE DEF d
      <3>4. g \in Seq(Name) /\ Len(g) = Len(Parent(disk, d).at) + 1 /\ Last(g) = Last(d) /\ g # <<>>
            /\ Front(g) = Parent(disk, d).at
        BY <3>1, <3>2, AppendPath
      <3>5. Len(g) <= 1 /\ \A k \in 1..Len(g) : g[k] = <<Out>>[k]
        <4>1. <<Out>> \in Seq(Name) /\ Len(<<Out>>) = 1
          BY ArtifactAssumption
        <4>2. g \in Seq(Name)
          BY <3>4
        <4> DEFINE o == <<Out>>
        <4>3. o \in Seq(Name) /\ Len(o) = 1 /\ IsPrefix(g, o)
          BY <3>3, <4>1
        <4> HIDE DEF g, o
        <4>4. Len(g) <= Len(o) /\ \A k \in 1..Len(g) : g[k] = o[k]
          BY <4>2, <4>3, PrefixIs
        <4> QED BY <4>3, <4>4 DEF o
      <3> HIDE DEF g
      <3>6. Parent(disk, d).at = <<>>
        BY <3>2, <3>4, <3>5, EmptySeq, LenProperties
      <3>7. g[1] = Last(g) /\ Len(g) = 1
        BY <3>4, <3>6, FrontPath, EmptySeq
      <3> QED BY <3>1, <3>4, <3>5, <3>7
    <2> QED BY <2>1, <2>2 DEF OutStep
  <1> QED BY <1>2, <1>3

LEMMA PassOutStep ==
    ASSUME BuildInv, StoreInv,
           RemoveStatic \/ Unwrap \/ RemoveDangling \/ Rewrite
    PROVE  OutStep(disk, disk')
  <1>1. disk # <<>> /\ IsTree(disk)
    BY DEF StoreInv, OutInv, RemoveStatic, Unwrap, RemoveDangling, Rewrite, BuildInv, DiskInv
  <1>2. CASE Fail
    BY <1>2 DEF Fail, OutStep
  <1> DEFINE p == First(todo)
  <1>3. CASE (RemoveStatic \/ Unwrap \/ RemoveDangling) /\ ~Fail
    <2>1. p \in DOMAIN disk /\ IsPrefix(<<Out>>, p) /\ disk[p].t # "dir"
      <3>1. CASE RemoveStatic \/ Unwrap
        <4>1. pass = "prepare" /\ todo # {}
          BY <3>1 DEF RemoveStatic, Unwrap
        <4>2. todo \subseteq Files(disk)
          BY <4>1 DEF BuildInv, TodoInv
        <4> QED BY <4>1, <4>2, FirstTodo DEF Files, Under, BuildInv
      <3>2. CASE RemoveDangling
        <4>1. pass = "dangling" /\ todo # {}
          BY <3>2 DEF RemoveDangling
        <4>2. todo \subseteq Links(disk)
          BY <4>1 DEF BuildInv, TodoInv
        <4> QED BY <4>1, <4>2, FirstTodo DEF Links, Under, BuildInv
      <3> QED BY <1>3, <3>1, <3>2
    <2>2. p \in Seq(Name) /\ p # <<>> /\ p[1] = Out /\ p # <<Out>> /\ Front(p) # <<>> /\ Front(p)[1] = Out
          /\ Front(p) \in Seq(Name)
      BY <1>1, <2>1, OutNode
    <2>3. CASE RemoveStatic \/ RemoveDangling
      <3>1. disk' = disk \/ disk' = Without(disk, {p})
        BY <1>3, <2>3 DEF RemoveStatic, RemoveDangling
      <3> HIDE DEF p
      <3> QED BY <2>2, <3>1 DEF OutStep
    <2>4. CASE Unwrap
      <3> DEFINE q == Append(Front(p), Public[Last(p)])
      <3>1. Last(p) \in DOMAIN Public /\ disk' = With(Without(disk, {p}), q, disk[p])
            /\ Entries(disk, q) = {}
        BY <1>3, <2>4 DEF Unwrap
      <3>2. Public[Last(p)] \in Name
        BY <3>1, ArtifactAssumption
      <3> HIDE DEF p
      <3>3. q \in Seq(Name) /\ q # <<>> /\ q[1] = Out /\ Front(q) = Front(p)
        BY <2>2, <3>2, AppendPath
      <3>4. q # <<Out>>
        <4>1. Front(q) # <<>>
          BY <2>2, <3>3
        <4> QED BY <3>3, <4>1, InOut DEF IsStrictPrefix
      <3> HIDE DEF q
      <3> QED BY <2>2, <3>1, <3>3, <3>4 DEF OutStep
    <2> QED BY <1>3, <2>3, <2>4
  <1>4. CASE Rewrite /\ ~Fail
    <2>1. DOMAIN disk' = DOMAIN disk /\ \A q \in DOMAIN disk : disk'[q] = disk[q] \/ q \in Files(disk)
      BY <1>4 DEF Rewrite
    <2>2. \A q \in Files(disk) : q \in DOMAIN disk /\ q[1] = Out /\ disk[q].t = "file"
      BY <1>1, TreeNode, InOut DEF Files, Under
    <2> QED BY <2>1, <2>2 DEF OutStep
  <1> QED BY <1>2, <1>3, <1>4

LEMMA StoreStep ==
    ASSUME BuildInv, StoreInv, Next
    PROVE  StoreInv' /\ Agree(disk, disk') /\ disk # <<>> /\ disk' # <<>>
  <1>1. disk # <<>> /\ <<Out>> \in DOMAIN disk /\ disk[<<Out>>] = Dir /\ StoreOK(disk) /\ IsTree(disk)
    <2>1. pass # "done"
      BY NotDone
    <2> QED BY <2>1 DEF StoreInv, OutInv, BuildInv, DiskInv
  <1>2. OutStep(disk, disk')
    <2>1. CASE \E j \in todo : CopyLink(j) \/ CopyDir(j) \/ CopyFile(j)
      BY <2>1, CopyOutStep
    <2>2. CASE \E i \in todo : Drop(i)
      BY <2>2, DropOutStep
    <2>3. CASE RemoveStatic \/ Unwrap \/ RemoveDangling \/ Rewrite
      BY <2>3, PassOutStep
    <2>4. CASE CopyDone \/ DropDone \/ PrepareDone \/ DanglingDone \/ ArchiveEntry \/ ArchiveDone
      BY <2>4 DEF CopyDone, DropDone, PrepareDone, DanglingDone, ArchiveEntry, ArchiveDone, OutStep
    <2> QED BY <2>1, <2>2, <2>3, <2>4 DEF Next
  <1>3. Agree(disk, disk') /\ StoreOK(disk') /\ <<Out>> \in DOMAIN disk' /\ disk'[<<Out>>] = Dir
    BY <1>1, <1>2, OutStepStore
  <1>4. disk' # <<>>
    BY <1>3
  <1>5. StoreInv'
    BY <1>3, <1>4 DEF StoreInv, OutInv, StoreOK, Stored, Resolves
  <1> QED BY <1>1, <1>3, <1>4, <1>5

-----------------------------------------------------------------------------
\* The order of directories in full: Before is Less.

LEMMA BeforeIsLess ==
    ASSUME NEW p \in Seq(Name), NEW q \in Seq(Name), Before(p, q)
    PROVE  Less(p, q)
  <1>0. Len(p) \in Nat /\ Len(q) \in Nat
    OBVIOUS
  <1>1. CASE IsStrictPrefix(p, q)
    <2>1. Len(p) <= Len(q) /\ (\A i \in 1..Len(p) : p[i] = q[i]) /\ p # q
      BY <1>1, PrefixIs DEF IsStrictPrefix
    <2>2. Len(p) < Len(q)
      <3>1. Len(p) # Len(q)
        BY <2>1, SeqEqual
      <3> QED BY <1>0, <2>1, <3>1
    <2> DEFINE i == Len(p) + 1
    <2>3. i \in Nat \ {0} /\ i \in 1..Len(q) /\ i \notin 1..Len(p) /\ i - 1 = Len(p)
      BY <1>0, <2>2
    <2>4. Key(p, i) \in Nat /\ ~(Key(p, i) > 0) /\ Key(q, i) > 0 /\ Key(q, i) \in Nat
      BY <2>3, KeyType
    <2>5. \A k \in 1..(i - 1) : Key(p, k) = Key(q, k)
      BY <1>0, <2>1, <2>3 DEF Key
    <2> HIDE DEF i
    <2> QED BY <2>3, <2>4, <2>5 DEF Less
  <1>2. CASE \E i \in 1..Len(p) : /\ i <= Len(q)
                                  /\ SubSeq(p, 1, i - 1) = SubSeq(q, 1, i - 1)
                                  /\ p[i] # q[i]
                                  /\ Rank[p[i]] < Rank[q[i]]
    <2>1. PICK i \in 1..Len(p) : /\ i <= Len(q)
                                 /\ SubSeq(p, 1, i - 1) = SubSeq(q, 1, i - 1)
                                 /\ Rank[p[i]] < Rank[q[i]]
      BY <1>2
    <2>2. i \in 1..Len(q) /\ i \in Nat \ {0} /\ i - 1 \in 0..Len(p) /\ i - 1 \in 0..Len(q)
      BY <1>0, <2>1
    <2>3. Key(p, i) = Rank[p[i]] + 1 /\ Key(q, i) = Rank[q[i]] + 1 /\ Rank[p[i]] \in Nat /\ Rank[q[i]] \in Nat
      BY <2>2, KeyType
    <2>4. Key(p, i) < Key(q, i)
      BY <2>1, <2>3
    <2>5. \A k \in 1..(i - 1) : p[k] = q[k]
      <3>1. \A k \in 1..(i - 1) : p[k] \in Name /\ q[k] \in Name
        BY <1>0, <2>2, ElementOfSeq
      <3>2. \A k \in 1..(i - 1) : SubSeq(p, 1, i - 1)[k] = p[k]
        BY <3>1, SubSeqProperties, SMTT(30)
      <3>3. \A k \in 1..(i - 1) : SubSeq(q, 1, i - 1)[k] = q[k]
        BY <3>1, SubSeqProperties, SMTT(30)
      <3> QED BY <2>1, <3>2, <3>3
    <2>6. \A k \in 1..(i - 1) : Key(p, k) = Key(q, k)
      BY <1>0, <2>1, <2>5 DEF Key
    <2> QED BY <2>2, <2>4, <2>6 DEF Less
  <1> QED BY <1>1, <1>2 DEF Before

LEMMA LessIrreflexive ==
    ASSUME NEW p \in Seq(Name)
    PROVE  ~Less(p, p)
  <1> SUFFICES ASSUME NEW i \in Nat \ {0}, Key(p, i) < Key(p, i) PROVE FALSE
    BY DEF Less
  <1>1. Key(p, i) \in Nat
    BY KeyType
  <1> QED BY <1>1

LEMMA NotBoth ==
    ASSUME NEW p \in Seq(Name), NEW q \in Seq(Name), Before(p, q)
    PROVE  ~Before(q, p) /\ p # q
  <1>1. Less(p, q)
    BY BeforeIsLess
  <1>2. ~Before(q, p)
    BY <1>1, BeforeIsLess, LessTransitive, LessIrreflexive
  <1> QED BY <1>1, <1>2, LessIrreflexive

\* Names of one directory are in the order of their ranks.
LEMMA Siblings ==
    ASSUME NEW f \in Seq(Name), NEW m \in Name, NEW n \in Name, Rank[m] < Rank[n]
    PROVE  Before(Append(f, m), Append(f, n))
  <1> DEFINE p == Append(f, m)
             q == Append(f, n)
             i == Len(f) + 1
  <1>1. /\ p \in Seq(Name) /\ q \in Seq(Name) /\ Len(p) = i /\ Len(q) = i
        /\ \A k \in 1..Len(f) : p[k] = q[k]
        /\ p[i] = m /\ q[i] = n /\ Len(f) \in Nat
    BY AppendProperties, LenProperties
  <1> HIDE DEF p, q
  <1>2. i \in Nat \ {0} /\ i \in 1..Len(p) /\ i \in 1..Len(q) /\ i - 1 = Len(f)
    BY <1>1
  <1>3. Key(p, i) = Rank[m] + 1 /\ Key(q, i) = Rank[n] + 1 /\ Rank[m] \in Nat /\ Rank[n] \in Nat
    BY <1>1, <1>2, KeyType
  <1>4. \A k \in 1..(i - 1) : Key(p, k) = Key(q, k)
    BY <1>1, <1>2 DEF Key
  <1>5. Less(p, q)
    BY <1>2, <1>3, <1>4 DEF Less
  <1>6. Before(p, q)
    BY <1>1, <1>5, LessIsBefore
  <1> QED BY <1>6 DEF p, q

\* The path that a pass visits is before all others that it has yet to visit.
LEMMA FirstOfTodo ==
    ASSUME DiskInv, todo \subseteq DOMAIN disk, todo # {}
    PROVE  /\ First(todo) \in todo /\ First(todo) \in Seq(Name)
           /\ \A q \in todo : q \in Seq(Name) /\ (q = First(todo) \/ Before(First(todo), q))
  <1>1. IsFiniteSet(todo)
    BY FS_Subset DEF DiskInv
  <1>2. todo \in SUBSET Seq(Name)
    BY TreeNode DEF DiskInv
  <1> QED BY <1>1, <1>2, FirstIn

-----------------------------------------------------------------------------
\* Programs that were wrapped twice.

Doubly(n) == n \in DOMAIN Public /\ Public[n] \in DOMAIN Public
\* Something is, or will be, where the wrapper of x goes: a file.
Arrives(w) == \/ w \in DOMAIN disk /\ disk[w].t = "file"
              \/ \E k \in todo : k.dst = w /\ disk[k.src].t = "file"
Behind(x) == Doubly(Last(x)) => Rank[Last(x)] < Rank[Public[Last(x)]]

HidCopy ==
    pass = "copy" => /\ \A j \in todo : Behind(j.dst) /\ (Doubly(Last(j.dst)) => Arrives(Wrapper(j.dst)))
                     /\ \A x \in Built : Behind(x) /\ (Doubly(Last(x)) => Arrives(Wrapper(x)))
HidDrop ==
    pass = "drop" => \A x \in Built : /\ Behind(x)
                                      /\ Doubly(Last(x)) => Is("file", disk, Wrapper(x))
HidPrepare ==
    pass = "prepare" =>
        /\ \A x \in Built : disk[x].t = "file" /\ Last(x) \in DOMAIN Public => x \in todo
        /\ \A x \in todo : Behind(x) /\ (Doubly(Last(x)) => Wrapper(x) \in todo)
HidDone ==
    pass \in {"dangling", "rewrite", "archive", "done"} =>
        \A x \in Built : disk[x].t = "file" => Last(x) \notin DOMAIN Public
HidInv == Paired(disk) => HidCopy /\ HidDrop /\ HidPrepare /\ HidDone

LEMMA PairedSame ==
    ASSUME NEW t1, NEW t2, IsTree(t1), StoreOK(t1), IsTree(t2), StoreOK(t2), Agree(t1, t2),
           <<Out>> \in DOMAIN t2, t2[<<Out>>] = Dir, Paired(t2)
    PROVE  Paired(t1)
  <1> SUFFICES ASSUME NEW p \in DOMAIN t1, p[1] # Out, Last(p) \in DOMAIN Public,
                      Public[Last(p)] \in DOMAIN Public
               PROVE  /\ Is("file", t1, Wrapper(p))
                      /\ Rank[Last(p)] < Rank[Public[Last(p)]]
    BY DEF Paired
  <1>1. p \in Seq(In) /\ p \in DOMAIN t2 /\ p # <<>>
    BY TreeNode DEF StoreOK, Stored, Agree
  <1>2. Is("file", t2, Wrapper(p)) /\ Rank[Last(p)] < Rank[Public[Last(p)]]
    BY <1>1 DEF Paired
  <1> DEFINE w == Wrapper(p)
  <1>3. p \in Seq(Name) /\ Front(p) \in Seq(In) /\ Front(p) \in Seq(Name) /\ Public[Last(p)] \in Name
        /\ p[1] = IF Front(p) = <<>> THEN Last(p) ELSE Front(p)[1]
    BY <1>1, FrontPath, InIs, ArtifactAssumption
  <1>4. /\ w # <<>> /\ Front(w) = Front(p) /\ w \in Seq(Name)
        /\ w[1] = IF Front(p) = <<>> THEN Public[Last(p)] ELSE Front(p)[1]
    BY <1>3, AppendPath DEF Wrapper
  <1> HIDE DEF w
  <1>5. w \in DOMAIN t2 /\ t2[w].t = "file"
    BY <1>2, <1>4 DEF Is, Exists, Node, w
  <1>6. w[1] # Out
    <2> SUFFICES ASSUME w[1] = Out PROVE FALSE
      OBVIOUS
    <2>1. Front(p) = <<>>
      BY <1>3, <1>4
    <2>2. w = <<Out>>
      BY <1>4, <2>1, InOut DEF IsStrictPrefix
    <2> QED BY <1>5, <2>2 DEF Dir
  <1>7. w \in Seq(In)
    BY <1>5, <1>6 DEF StoreOK, Stored
  <1>8. w \in DOMAIN t1 /\ t1[w].t = "file"
    BY <1>5, <1>7 DEF Agree
  <1> QED BY <1>2, <1>8 DEF Is, Exists, Node, w

LEMMA HidInit ==
    ASSUME DInit
    PROVE  HidInv
  <1>1. CASE Foreign
    BY <1>1 DEF Foreign, HidInv, HidCopy, HidDrop, HidPrepare, HidDone, Built
  <1>2. CASE Init
    <2>1. PICK tree \in Trees : /\ disk = With(tree, <<Out>>, Dir) /\ pass = "copy"
                                /\ todo = Jobs(tree, <<Source>>, <<Out>>, {})
      BY <1>2 DEF Init
    <2>2. /\ DOMAIN tree \subseteq Seq(In) /\ IsTree(tree)
      BY <2>1, TreesAssumption DEF In
    <2>3. <<Out>> \in Seq(Name) /\ Source # Out /\ Source \in Name
      BY ArtifactAssumption
    <2>4. \A p \in DOMAIN tree : p \in DOMAIN disk /\ disk[p] = tree[p] /\ p[1] # Out /\ p \in Seq(Name) /\ p # <<>>
      <3> SUFFICES ASSUME NEW p \in DOMAIN tree
                   PROVE  p \in DOMAIN disk /\ disk[p] = tree[p] /\ p[1] # Out /\ p \in Seq(Name) /\ p # <<>>
        OBVIOUS
      <3>1. p \in Seq(Name) /\ p # <<>> /\ p \in Seq(In)
        BY <2>2, TreeNode
      <3>2. p[1] # Out
        BY <3>1, OutsideIn
      <3>3. p # <<Out>>
        BY <3>2
      <3> QED BY <2>1, <3>1, <3>2, <3>3 DEF With
    <2>5. Built = {}
      <3> SUFFICES ASSUME NEW x \in Built PROVE FALSE
        OBVIOUS
      <3>1. x \in DOMAIN tree \cup {<<Out>>} /\ IsPrefix(<<Out>>, x) /\ x # <<Out>>
        BY <2>1 DEF Built, With, IsStrictPrefix
      <3> QED BY <2>4, <3>1, InOut
    <2>6. ASSUME Paired(disk), NEW j \in todo, Doubly(Last(j.dst))
          PROVE  Behind(j.dst) /\ Arrives(Wrapper(j.dst))
      <3>1. PICK q \in Entries(tree, <<Source>>) : j = Job(q, Append(<<Out>>, Last(q)), {})
        BY <2>1 DEF Jobs
      <3>2. q \in DOMAIN tree /\ Front(q) = <<Source>>
        BY DEF Entries
      <3>3. q \in Seq(Name) /\ q # <<>> /\ q \in DOMAIN disk /\ q[1] # Out
        BY <2>4, <3>2
      <3>4. Last(q) \in Name
        BY <3>3, FrontPath
      <3>5. j.dst = Append(<<Out>>, Last(q)) /\ Last(j.dst) = Last(q) /\ Front(j.dst) = <<Out>>
        BY <2>3, <3>1, <3>4, AppendPath DEF Job
      <3>6. /\ Rank[Last(q)] < Rank[Public[Last(q)]]
            /\ Is("file", disk, Wrapper(q))
        BY <2>6, <3>3, <3>5 DEF Paired, Doubly
      <3>7. Public[Last(q)] \in Name
        BY <2>6, <3>5, ArtifactAssumption DEF Doubly
      <3> DEFINE r == Append(<<Source>>, Public[Last(q)])
      <3> DEFINE s == <<Source>>
      <3>12. s \in Seq(Name) /\ s # <<>> /\ s[1] = Source /\ Front(q) = s /\ r = Append(s, Public[Last(q)])
        BY <2>3, <3>2
      <3>8. /\ r \in Seq(Name) /\ r # <<>> /\ Front(r) = <<Source>> /\ Last(r) = Public[Last(q)] /\ r[1] = Source
            /\ r = Wrapper(q)
        <4> HIDE DEF s, r
        <4>1. r \in Seq(Name) /\ r # <<>> /\ Front(r) = s /\ Last(r) = Public[Last(q)]
              /\ r[1] = IF s = <<>> THEN Public[Last(q)] ELSE s[1]
          BY <3>7, <3>12, AppendPath
        <4> QED BY <3>12, <4>1 DEF Wrapper, s
      <3> HIDE DEF s
      <3> HIDE DEF r
      <3>9. r \in DOMAIN tree /\ disk[r].t = "file" /\ tree[r] = disk[r]
        <4>1. r \in DOMAIN disk /\ disk[r].t = "file" /\ r # <<Out>>
          BY <2>3, <3>6, <3>8 DEF Is, Exists, Node
        <4> QED BY <2>1, <4>1 DEF With
      <3> DEFINE k == Job(r, Append(<<Out>>, Last(r)), {})
      <3>10. k \in todo
        BY <2>1, <3>8, <3>9 DEF Jobs, Entries
      <3>11. k.src = r /\ k.dst = Wrapper(j.dst)
        BY <3>5, <3>8 DEF Job, Wrapper
      <3> QED BY <3>5, <3>6, <3>9, <3>10, <3>11 DEF Behind, Arrives
    <2> QED BY <2>1, <2>5, <2>6 DEF HidInv, HidCopy, HidDrop, HidPrepare, HidDone, Behind
  <1> QED BY <1>1, <1>2 DEF DInit

\* The entries of a directory of the store are copied together.
LEMMA HidJobs ==
    ASSUME NEW t, IsTree(t), StoreOK(t), Paired(t), NEW src \in Seq(In), src # <<>>,
           NEW dst \in Seq(Name), NEW a, NEW k \in Jobs(t, src, dst, a), Doubly(Last(k.dst))
    PROVE  /\ Behind(k.dst)
           /\ \E m \in Jobs(t, src, dst, a) : m.dst = Wrapper(k.dst) /\ t[m.src].t = "file"
  <1>1. PICK q \in Entries(t, src) : k = Job(q, Append(dst, Last(q)), a)
    BY DEF Jobs
  <1>2. q \in DOMAIN t /\ Front(q) = src /\ q \in Seq(Name) /\ q # <<>>
    BY TreeNode DEF Entries
  <1>3. Last(q) \in Name /\ q[1] # Out
    <2>1. src[1] \in In
      BY HeadTailPath
    <2> QED BY <1>2, <2>1, FrontPath DEF In
  <1>4. k.dst = Append(dst, Last(q)) /\ Last(k.dst) = Last(q) /\ Front(k.dst) = dst
    BY <1>1, <1>3, AppendPath DEF Job
  <1>5. Is("file", t, Wrapper(q)) /\ Rank[Last(q)] < Rank[Public[Last(q)]]
    BY <1>2, <1>3, <1>4 DEF Paired, Doubly
  <1>6. Public[Last(q)] \in Name
    BY <1>4, ArtifactAssumption DEF Doubly
  <1> DEFINE r == Wrapper(q)
             m == Job(r, Append(dst, Last(r)), a)
  <1>7. r # <<>> /\ Front(r) = src /\ Last(r) = Public[Last(q)]
    BY <1>2, <1>6, AppendPath, InIs DEF Wrapper
  <1>8. m.dst = Wrapper(k.dst) /\ m.src = r
    BY <1>4, <1>7 DEF Job, Wrapper
  <1>9. m \in Jobs(t, src, dst, a) /\ t[r].t = "file"
    BY <1>5, <1>7 DEF Jobs, Entries, Is, Exists, Node
  <1> QED BY <1>4, <1>5, <1>8, <1>9 DEF Behind

LEMMA HidCopyStep ==
    ASSUME BuildInv, StoreInv, HidInv, Paired(disk), NEW j \in todo,
           CopyLink(j) \/ CopyDir(j) \/ CopyFile(j), ~Fail
    PROVE  HidCopy' /\ pass' = "copy"
  <1>0. pass = "copy" /\ IsTree(disk) /\ StoreOK(disk)
    BY DEF CopyLink, CopyDir, CopyFile, Turn, BuildInv, DiskInv, StoreInv
  <1>1. \A k \in todo : JobOK(disk, k)
    BY <1>0 DEF BuildInv, CopyInv
  <1>2. /\ j.dst \in Seq(Name) /\ j.dst \notin DOMAIN disk /\ j.dst # <<>>
        /\ j.src \in DOMAIN disk /\ j.src \in Seq(In) /\ j.src # <<>>
        /\ \A k \in todo : k.src # j.dst
    <2>1. j.dst \in Seq(Name) /\ j.dst[1] = Out /\ j.dst # <<>> /\ IsPrefix(j.dst, j.dst)
      BY <1>1, PrefixOfAppend DEF JobOK
    <2>2. j.dst \notin Seq(In)
      BY <2>1, OutsideIn
    <2> QED BY <1>0, <1>1, <2>1, <2>2, TreeNode DEF JobOK
  <1>3. HidCopy
    BY DEF HidInv
  <1>4. pass' = "copy"
    BY <1>0 DEF CopyLink, CopyDir, CopyFile, Fail
  \* What had arrived, or was to arrive, is so still.
  <1>5. ASSUME NEW n, IF disk[j.src].t = "file" THEN n = disk[j.src] ELSE TRUE,
               disk' = With(disk, j.dst, n), todo \ {j} \subseteq todo', NEW w, Arrives(w)
        PROVE  Arrives(w)'
    <2>1. CASE w \in DOMAIN disk /\ disk[w].t = "file"
      BY <1>2, <1>5, <2>1 DEF Arrives, With
    <2>2. CASE \E k \in todo : k.dst = w /\ disk[k.src].t = "file"
      <3>1. PICK k \in todo : k.dst = w /\ disk[k.src].t = "file"
        BY <2>2
      <3>2. CASE k = j
        BY <1>2, <1>5, <3>1, <3>2 DEF Arrives, With
      <3>3. CASE k # j
        <4>1. k.src \in DOMAIN disk /\ k.src # j.dst /\ k \in todo'
          BY <1>1, <1>2, <1>5, <3>3 DEF JobOK
        <4>2. disk'[k.src] = disk[k.src]
          BY <1>5, <4>1 DEF With
        <4> QED BY <3>1, <4>1, <4>2 DEF Arrives
      <3> QED BY <3>2, <3>3
    <2> QED BY <1>5, <2>1, <2>2 DEF Arrives
  <1>6. ASSUME disk' = disk, disk[j.src].t = "link", todo \ {j} \subseteq todo', NEW w, Arrives(w)
        PROVE  Arrives(w)'
    BY <1>6 DEF Arrives
  \* The nodes and the jobs that are new.
  <1>7. ASSUME \A w : Arrives(w) => Arrives(w)',
               \A x \in Built' : x \in Built \/ x = j.dst,
               \A k \in todo' : k \in todo \/ k.dst = j.dst
                                \/ (Behind(k.dst) /\ (Doubly(Last(k.dst)) => Arrives(Wrapper(k.dst))'))
        PROVE  HidCopy'
    <2>1. ASSUME NEW k \in todo' PROVE Behind(k.dst) /\ (Doubly(Last(k.dst)) => Arrives(Wrapper(k.dst))')
      BY <1>0, <1>3, <1>7, <2>1 DEF HidCopy
    <2>2. ASSUME NEW x \in Built' PROVE Behind(x) /\ (Doubly(Last(x)) => Arrives(Wrapper(x))')
      BY <1>0, <1>3, <1>7, <2>2 DEF HidCopy
    <2>3. \A k \in todo' : (Behind(k.dst) /\ (Doubly(Last(k.dst)) => Arrives(Wrapper(k.dst))))'
      BY <2>1 DEF Arrives, Wrapper
    <2>4. \A x \in Built' : (Behind(x) /\ (Doubly(Last(x)) => Arrives(Wrapper(x))))'
      BY <2>2 DEF Arrives, Wrapper
    <2> QED BY <2>3, <2>4 DEF HidCopy, Arrives, Wrapper
  <1>8. CASE CopyLink(j)
    <2>1. disk[j.src].t = "link"
      BY <1>8 DEF CopyLink
    <2>2. \/ disk' = disk /\ todo' = todo \ {j}
          \/ disk' = With(disk, j.dst, disk[j.src]) /\ todo' = todo \ {j}
          \/ disk' = disk /\ \E at : todo' = (todo \ {j}) \cup {Job(at, j.dst, j.active)}
      BY <1>8 DEF CopyLink
    <2>3. \A x \in Built' : x \in Built \/ x = j.dst
      BY <2>2 DEF Built, With
    <2>4. \A k \in todo' : k \in todo \/ k.dst = j.dst
      BY <2>2 DEF Job
    <2>5. \A w : Arrives(w) => Arrives(w)'
      <3> SUFFICES ASSUME NEW w, Arrives(w) PROVE Arrives(w)'
        OBVIOUS
      <3>1. todo \ {j} \subseteq todo'
        BY <2>2
      <3> QED BY <1>5, <1>6, <2>1, <2>2, <3>1
    <2> QED BY <1>4, <1>7, <2>3, <2>4, <2>5
  <1>9. CASE CopyFile(j)
    <2>1. disk' = With(disk, j.dst, disk[j.src]) /\ todo' = todo \ {j}
      BY <1>9 DEF CopyFile
    <2>2. \A w : Arrives(w) => Arrives(w)'
      BY <1>5, <2>1
    <2>3. \A x \in Built' : x \in Built \/ x = j.dst
      BY <2>1 DEF Built, With
    <2> QED BY <1>4, <1>7, <2>1, <2>2, <2>3
  <1>10. CASE CopyDir(j)
    <2> DEFINE a == j.active \cup {j.src}
               new == Jobs(disk, j.src, j.dst, a)
    <2>1. disk' = With(disk, j.dst, Dir) /\ todo' = (todo \ {j}) \cup new /\ disk[j.src].t = "dir"
      BY <1>10 DEF CopyDir
    <2>2. \A w : Arrives(w) => Arrives(w)'
      <3> HIDE DEF new
      <3> QED BY <1>5, <2>1
    <2>3. \A x \in Built' : x \in Built \/ x = j.dst
      BY <2>1 DEF Built, With
    <2>4. ASSUME NEW k \in new PROVE Behind(k.dst) /\ (Doubly(Last(k.dst)) => Arrives(Wrapper(k.dst))')
      <3>1. CASE ~Doubly(Last(k.dst))
        BY <3>1 DEF Behind
      <3>2. CASE Doubly(Last(k.dst))
        <4>1. /\ Behind(k.dst)
              /\ \E m \in new : m.dst = Wrapper(k.dst) /\ disk[m.src].t = "file"
          BY <1>0, <1>2, <2>4, <3>2, HidJobs
        <4>2. PICK m \in new : m.dst = Wrapper(k.dst) /\ disk[m.src].t = "file"
          BY <4>1
        <4>3. m.src \in DOMAIN disk
          BY DEF Jobs, Job, Entries
        <4>4. disk'[m.src] = disk[m.src]
          BY <1>2, <2>1, <4>3 DEF With
        <4>5. m \in todo' /\ m.dst = Wrapper(k.dst) /\ disk'[m.src].t = "file"
          BY <2>1, <4>2, <4>4
        <4>6. Arrives(Wrapper(k.dst))'
          <5> HIDE DEF new
          <5> QED BY <4>5 DEF Arrives, Wrapper
        <4> QED BY <4>1, <4>6
      <3> QED BY <3>1, <3>2
    <2>5. \A k \in todo' : k \in todo \/ k.dst = j.dst
                           \/ (Behind(k.dst) /\ (Doubly(Last(k.dst)) => Arrives(Wrapper(k.dst))'))
      <3> HIDE DEF new
      <3> QED BY <2>1, <2>4
    <2> QED BY <1>4, <1>7, <2>2, <2>3, <2>5
  <1> QED BY <1>4, <1>8, <1>9, <1>10

LEMMA HidDropStep ==
    ASSUME BuildInv, StoreInv, HidInv, Paired(disk), NEW i \in todo, Drop(i), ~Fail
    PROVE  HidDrop' /\ pass' = "drop"
  <1> DEFINE d == Dropped[i]
             g == Append(Parent(disk, d).at, Last(d))
             P == Gone(disk, d)
  <1>0. pass = "drop" /\ IsTree(disk) /\ todo \subseteq DOMAIN Dropped
    BY DEF Drop, BuildInv, DiskInv, TodoInv
  <1>1. HidDrop
    BY DEF HidInv
  <1>2. disk' = Without(disk, P) /\ pass' = "drop"
    BY <1>0, DropIs
  <1>3. Front(d) \in Seq(Name) /\ Last(d) \in Name /\ Last(d) \notin DOMAIN Public
    BY <1>0, DroppedPath
  <1>4. Parent(disk, d).at \in Seq(Name)
    <2> HIDE DEF d
    <2>1. <<Out>> \in Seq(Name) /\ <<Out>> \o Front(d) \in Seq(Name)
      BY <1>3, ArtifactAssumption, ConcatProperties
    <2>2. <<Out>> \o Front(d) \in Seq(Up)
      BY <2>1, SeqMonotonic DEF Up
    <2> QED BY <1>0, <2>2, EvalPlace DEF Places, Parent
  <1>5. g \in Seq(Name) /\ g # <<>> /\ Last(g) = Last(d)
    <2> HIDE DEF d
    <2> QED BY <1>3, <1>4, AppendPath
  <1>6. ASSUME NEW x \in Built', Doubly(Last(x)) PROVE Wrapper(x) \in DOMAIN disk \ P /\ disk[Wrapper(x)].t = "file"
    <2>1. x \in Built /\ x \notin P /\ x \in DOMAIN disk
      BY <1>2, <1>6 DEF Built, Without
    <2>2. Is("file", disk, Wrapper(x)) /\ x \in Seq(Name) /\ x # <<>>
      BY <1>0, <1>1, <1>6, <2>1, TreeNode DEF HidDrop
    <2>3. Front(x) \in Seq(Name) /\ Public[Last(x)] \in Name
      BY <1>6, <2>2, FrontPath, ArtifactAssumption DEF Doubly
    <2> DEFINE w == Wrapper(x)
    <2>4. w \in Seq(Name) /\ w # <<>> /\ Front(w) = Front(x) /\ Last(w) = Public[Last(x)]
      BY <2>3, AppendPath DEF Wrapper
    <2>5. w \in DOMAIN disk /\ disk[w].t = "file"
      BY <2>2, <2>4 DEF Is, Exists, Node
    <2>6. w \notin P
      <3> SUFFICES ASSUME w \in P PROVE FALSE
        OBVIOUS
      <3> HIDE DEF w
      <3>1. IsPrefix(g, w) /\ Parent(disk, d).st = "ok"
        BY DEF Gone, Under
      <3>2. w # g
        <4>1. Last(w) \in DOMAIN Public
          BY <1>6, <2>4 DEF Doubly
        <4> QED BY <1>3, <1>5, <4>1
      <3> HIDE DEF g
      <3>3. IsPrefix(g, Front(x))
        BY <1>5, <2>4, <3>1, <3>2, PrefixOfAppend
      <3>4. IsPrefix(g, x)
        BY <1>5, <2>2, <2>3, <3>3, PrefixOfFront
      <3> QED BY <2>1, <3>1, <3>4 DEF g, Gone, Under
    <2> QED BY <2>5, <2>6
  <1>7. \A x \in Built' : x \in Built
    BY <1>2 DEF Built, Without
  <1>8. ASSUME NEW x \in Built' PROVE Behind(x) /\ (Doubly(Last(x)) => Is("file", disk', Wrapper(x)))
    <2>1. Behind(x)
      BY <1>0, <1>1, <1>7, <1>8 DEF HidDrop
    <2>2. CASE Doubly(Last(x))
      <3>1. Wrapper(x) \in DOMAIN disk \ P /\ disk[Wrapper(x)].t = "file"
        BY <1>6, <1>8, <2>2
      <3>2. Wrapper(x) # <<>>
        BY <1>0, <3>1, TreeNode
      <3> HIDE DEF P
      <3> QED BY <1>2, <2>1, <3>1, <3>2 DEF Without, Is, Exists, Node
    <2> QED BY <2>1, <2>2
  <1> QED BY <1>2, <1>8 DEF HidDrop

LEMMA HidDropDone ==
    ASSUME BuildInv, StoreInv, HidInv, Paired(disk), DropDone
    PROVE  HidPrepare' /\ pass' = "prepare"
  <1>0. pass = "drop" /\ pass' = "prepare" /\ disk' = disk /\ IsTree(disk)
        /\ todo' = {p \in Files(disk) : Last(p) \in Static \cup DOMAIN Public}
    BY DEF DropDone, BuildInv, DiskInv
  <1>1. HidDrop
    BY DEF HidInv
  <1>2. disk # <<>> /\ <<Out>> \in DOMAIN disk /\ disk[<<Out>>] = Dir
    BY <1>0 DEF StoreInv, OutInv
  <1>3. \A x : x \in Files(disk) <=> x \in Built /\ disk[x].t = "file"
    BY <1>2 DEF Files, Built, Under, IsStrictPrefix, Dir
  <1>4. \A x \in Built' : disk'[x].t = "file" /\ Last(x) \in DOMAIN Public => x \in todo'
    BY <1>0, <1>3 DEF Built
  <1>5. ASSUME NEW x \in todo' PROVE Behind(x) /\ (Doubly(Last(x)) => Wrapper(x) \in todo')
    <2>1. x \in Built /\ disk[x].t = "file"
      BY <1>0, <1>3, <1>5
    <2>2. Behind(x)
      BY <1>0, <1>1, <2>1 DEF HidDrop
    <2>3. CASE Doubly(Last(x))
      <3> DEFINE w == Wrapper(x)
      <3>1. Is("file", disk, w)
        BY <1>0, <1>1, <2>1, <2>3 DEF HidDrop
      <3>2. x \in Seq(Name) /\ x # <<>> /\ IsPrefix(<<Out>>, x) /\ x # <<Out>>
        BY <1>0, <2>1, TreeNode DEF Built, IsStrictPrefix
      <3>3. Front(x) \in Seq(Name) /\ Public[Last(x)] \in Name /\ Front(x) # <<>> /\ Front(x)[1] = Out
        <4>1. IsStrictPrefix(<<Out>>, x)
          BY <2>1 DEF Built
        <4>2. Front(x) # <<>> /\ x[1] = Out
          BY <3>2, <4>1, InOut
        <4> QED BY <2>3, <3>2, <4>2, FrontPath, ArtifactAssumption DEF Doubly
      <3>4. w \in Seq(Name) /\ w # <<>> /\ Last(w) = Public[Last(x)] /\ w[1] = Out /\ Front(w) # <<>>
        BY <3>3, AppendPath DEF Wrapper
      <3> HIDE DEF w
      <3>5. w \in DOMAIN disk /\ disk[w].t = "file"
        BY <3>1, <3>4 DEF Is, Exists, Node
      <3>6. w \in Built
        BY <3>4, <3>5, InOut DEF Built
      <3>7. w \in todo'
        BY <1>0, <1>3, <2>3, <3>4, <3>5, <3>6 DEF Doubly
      <3> QED BY <2>2, <3>7 DEF w
    <2> QED BY <2>2, <2>3
  <1> QED BY <1>0, <1>4, <1>5 DEF HidPrepare

LEMMA HidUnwrap ==
    ASSUME BuildInv, StoreInv, HidInv, Paired(disk), RemoveStatic \/ Unwrap, ~Fail
    PROVE  HidPrepare' /\ pass' = "prepare"
  <1> DEFINE p == First(todo)
             w == Wrapper(p)
  <1>0. pass = "prepare" /\ todo # {} /\ pass' = "prepare" /\ todo' = todo \ {p}
    BY DEF RemoveStatic, Unwrap
  <1>1. todo \subseteq Files(disk) /\ todo \subseteq DOMAIN disk
    BY <1>0 DEF BuildInv, TodoInv, Files, Under
  <1>2. HidPrepare
    BY DEF HidInv
  <1>3. p \in todo /\ p \in Seq(Name) /\ \A q \in todo : q \in Seq(Name) /\ (q = p \/ Before(p, q))
    BY <1>0, <1>1, FirstOfTodo DEF BuildInv
  <1>4. \A q \in todo : q # <<>>
    BY <1>1, TreeNode DEF BuildInv, DiskInv
  <1> HIDE DEF p
  <1>5. CASE RemoveStatic
    <2>1. Last(p) \in Static /\ disk' = Without(disk, {p})
      BY <1>5 DEF RemoveStatic, p
    <2>2. Last(p) \notin DOMAIN Public
      BY <2>1, ArtifactAssumption
    <2>3. \A x \in Built' : x \in Built /\ disk'[x] = disk[x] /\ x # p
      BY <2>1 DEF Built, Without
    <2>4. \A x \in Built' : disk'[x].t = "file" /\ Last(x) \in DOMAIN Public => x \in todo'
      BY <1>0, <1>2, <2>3 DEF HidPrepare
    <2>5. ASSUME NEW x \in todo' PROVE Behind(x) /\ (Doubly(Last(x)) => Wrapper(x) \in todo')
      <3>1. x \in todo /\ x \in Seq(Name) /\ x # <<>>
        BY <1>0, <1>3, <1>4, <2>5
      <3>2. Behind(x) /\ (Doubly(Last(x)) => Wrapper(x) \in todo)
        BY <1>0, <1>2, <3>1 DEF HidPrepare
      <3>3. ASSUME Doubly(Last(x)) PROVE Last(Wrapper(x)) \in DOMAIN Public
        BY <3>1, <3>3, FrontPath, AppendPath, ArtifactAssumption DEF Wrapper, Doubly
      <3> QED BY <1>0, <2>2, <3>2, <3>3
    <2> QED BY <1>0, <2>4, <2>5 DEF HidPrepare
  <1>6. CASE Unwrap
    <2>1. Last(p) \in DOMAIN Public /\ disk' = With(Without(disk, {p}), w, disk[p])
      BY <1>6 DEF Unwrap, Wrapper, p
    <2>2. Front(p) \in Seq(Name) /\ Last(p) \in Name /\ Public[Last(p)] \in Name /\ p = Append(Front(p), Last(p))
      BY <1>3, <1>4, <2>1, FrontPath, ArtifactAssumption
    <2>3. Last(w) = Public[Last(p)]
      BY <2>2, AppendPath DEF Wrapper
    <2>4. ASSUME NEW x \in Built', disk'[x].t = "file", Last(x) \in DOMAIN Public PROVE x \in todo'
      <3>1. CASE x = w
        <4>1. Doubly(Last(p))
          BY <2>1, <2>3, <2>4, <3>1 DEF Doubly
        <4>2. w \in todo /\ Rank[Last(p)] < Rank[Public[Last(p)]]
          BY <1>0, <1>2, <1>3, <4>1 DEF HidPrepare, Behind
        <4>3. Last(p) # Public[Last(p)]
          <5>1. Rank[Last(p)] \in Nat
            BY <2>2, TreeAssumption
          <5> QED BY <4>2, <5>1
        <4> QED BY <1>0, <2>3, <3>1, <4>2, <4>3
      <3>2. CASE x # w
        <4>1. x \in Built /\ x # p /\ disk[x].t = "file"
          BY <2>1, <2>4, <3>2 DEF Built, With, Without
        <4> QED BY <1>0, <1>2, <2>4, <4>1 DEF HidPrepare
      <3> QED BY <3>1, <3>2
    <2>5. ASSUME NEW x \in todo' PROVE Behind(x) /\ (Doubly(Last(x)) => Wrapper(x) \in todo')
      <3>1. x \in todo /\ x \in Seq(Name) /\ x # <<>> /\ x # p
        BY <1>0, <1>3, <1>4, <2>5
      <3>2. Behind(x) /\ (Doubly(Last(x)) => Wrapper(x) \in todo)
        BY <1>0, <1>2, <3>1 DEF HidPrepare
      <3>3. ASSUME Doubly(Last(x)), Wrapper(x) = p PROVE FALSE
        <4>1. Front(x) \in Seq(Name) /\ Last(x) \in Name /\ Public[Last(x)] \in Name /\ x = Append(Front(x), Last(x))
          BY <3>1, <3>3, FrontPath, ArtifactAssumption DEF Doubly
        <4>2. Rank[Last(x)] < Rank[Public[Last(x)]]
          BY <3>2, <3>3 DEF Behind
        <4>3. Before(x, p)
          BY <3>3, <4>1, <4>2, Siblings DEF Wrapper
        <4>4. Before(p, x)
          BY <1>3, <3>1
        <4> QED BY <1>3, <3>1, <4>3, <4>4, NotBoth
      <3> QED BY <1>0, <3>2, <3>3
    <2> QED BY <1>0, <2>4, <2>5 DEF HidPrepare
  <1> QED BY <1>5, <1>6

LEMMA HidStep ==
    ASSUME BuildInv, StoreInv, HidInv, Next
    PROVE  HidInv'
  <1> SUFFICES ASSUME Paired(disk)' PROVE (HidCopy /\ HidDrop /\ HidPrepare /\ HidDone)'
    BY DEF HidInv
  <1>1. Paired(disk)
    <2>1. StoreInv' /\ Agree(disk, disk') /\ disk # <<>> /\ disk' # <<>> /\ Paired(disk')
      BY StoreStep DEF Paired, Is, Exists, Node, Wrapper
    <2>2. IsTree(disk) /\ IsTree(disk')
      <3>1. BuildInv'
        BY NextInv
      <3> QED BY <3>1 DEF BuildInv, DiskInv, IsTree, Is, Exists, Node
    <2>3. StoreOK(disk) /\ StoreOK(disk') /\ <<Out>> \in DOMAIN disk' /\ disk'[<<Out>>] = Dir
      BY <2>1 DEF StoreInv, OutInv, StoreOK, Stored, Resolves
    <2> QED BY <2>1, <2>2, <2>3, PairedSame
  <1>2. HidCopy /\ HidDrop /\ HidPrepare /\ HidDone
    BY <1>1 DEF HidInv
  <1>3. CASE Fail
    <2>1. pass' = "failed"
      BY <1>3 DEF Fail
    <2> QED BY <2>1 DEF HidCopy, HidDrop, HidPrepare, HidDone
  <1>4. CASE (\E j \in todo : CopyLink(j) \/ CopyDir(j) \/ CopyFile(j)) /\ ~Fail
    <2>1. HidCopy' /\ pass' = "copy"
      BY <1>1, <1>4, HidCopyStep
    <2> QED BY <2>1 DEF HidCopy, HidDrop, HidPrepare, HidDone
  <1>5. CASE CopyDone
    <2>1. pass = "copy" /\ todo = {} /\ pass' = "drop" /\ disk' = disk
      BY <1>5 DEF CopyDone
    <2>2. \A w : Arrives(w) => Is("file", disk, w)
      <3>1. <<>> \notin DOMAIN disk
        BY TreeNode DEF BuildInv, DiskInv
      <3> QED BY <2>1, <3>1 DEF Arrives, Is, Exists, Node
    <2>3. \A x \in Built : Behind(x) /\ (Doubly(Last(x)) => Is("file", disk, Wrapper(x)))
      BY <1>2, <2>1, <2>2 DEF HidCopy
    <2>4. \A x \in Built' : Behind(x) /\ (Doubly(Last(x)) => Is("file", disk', Wrapper(x)))
      BY <2>1, <2>3 DEF Built
    <2> QED BY <2>1, <2>4 DEF HidCopy, HidDrop, HidPrepare, HidDone
  <1>6. CASE (\E i \in todo : Drop(i)) /\ ~Fail
    <2>1. HidDrop' /\ pass' = "drop"
      BY <1>1, <1>6, HidDropStep
    <2> QED BY <2>1 DEF HidCopy, HidDrop, HidPrepare, HidDone
  <1>7. CASE DropDone
    <2>1. HidPrepare' /\ pass' = "prepare"
      BY <1>1, <1>7, HidDropDone
    <2> QED BY <2>1 DEF HidCopy, HidDrop, HidPrepare, HidDone
  <1>8. CASE (RemoveStatic \/ Unwrap) /\ ~Fail
    <2>1. HidPrepare' /\ pass' = "prepare"
      BY <1>1, <1>8, HidUnwrap
    <2> QED BY <2>1 DEF HidCopy, HidDrop, HidPrepare, HidDone
  <1>9. CASE PrepareDone
    <2>1. pass = "prepare" /\ todo = {} /\ pass' = "dangling" /\ disk' = disk
      BY <1>9 DEF PrepareDone
    <2>2. \A x \in Built' : disk'[x].t = "file" => Last(x) \notin DOMAIN Public
      BY <1>2, <2>1 DEF HidPrepare, Built
    <2> QED BY <2>1, <2>2 DEF HidCopy, HidDrop, HidPrepare, HidDone
  <1>10. CASE (RemoveDangling \/ DanglingDone \/ Rewrite \/ ArchiveEntry \/ ArchiveDone) /\ ~Fail
    <2>1. /\ pass \in {"dangling", "rewrite", "archive"}
          /\ pass' \in {"dangling", "rewrite", "archive", "done"}
      BY <1>10 DEF RemoveDangling, DanglingDone, Rewrite, ArchiveEntry, ArchiveDone
    <2>2. \A x \in Built' : x \in Built /\ (disk'[x].t = "file" => disk[x].t = "file")
      <3>1. CASE RemoveDangling
        <4>1. disk' = disk \/ \E p : disk' = Without(disk, {p})
          BY <1>10, <3>1 DEF RemoveDangling
        <4> QED BY <4>1 DEF Built, Without
      <3>2. CASE Rewrite
        <4>1. DOMAIN disk' = DOMAIN disk /\ \A p \in DOMAIN disk : disk'[p] = disk[p] \/ p \in Files(disk)
          BY <1>10, <3>2 DEF Rewrite
        <4>2. \A p \in Files(disk) : disk[p].t = "file"
          BY DEF Files
        <4> QED BY <4>1, <4>2 DEF Built
      <3>3. CASE DanglingDone \/ ArchiveEntry \/ ArchiveDone
        BY <3>3 DEF DanglingDone, ArchiveEntry, ArchiveDone, Built
      <3> QED BY <1>10, <3>1, <3>2, <3>3
    <2>3. \A x \in Built' : disk'[x].t = "file" => Last(x) \notin DOMAIN Public
      BY <1>2, <2>1, <2>2 DEF HidDone
    <2> QED BY <2>1, <2>3 DEF HidCopy, HidDrop, HidPrepare, HidDone
  <1> QED BY <1>3, <1>4, <1>5, <1>6, <1>7, <1>8, <1>9, <1>10 DEF Next

\* A program that was wrapped twice is not hidden in the end.
THEOREM ProgramsNotHidden == DSpec => []NothingHidden
  <1> DEFINE I == Inv /\ StoreInv /\ HidInv
  <1>1. DInit => I
    BY DInitInv, StoreInit, HidInit
  <1>2. I /\ [DNext]_all => I'
    <2> SUFFICES ASSUME I, [DNext]_all PROVE I'
      OBVIOUS
    <2>1. Inv'
      BY DNextInv
    <2>2. CASE Build
      <3>1. Next /\ BuildInv
        BY <2>2 DEF Build, Inv
      <3> QED BY <2>1, <3>1, StoreStep, HidStep
    <2>3. CASE UNCHANGED vars
      <3>1. StoreInv'
        BY <2>3 DEF vars, StoreInv, StoreOK, Stored, Resolves, OutInv
      <3>2. HidInv'
        <4>1. disk' = disk /\ pass' = pass /\ todo' = todo
          BY <2>3 DEF vars
        <4> QED BY <4>1 DEF HidInv, Paired, Is, Exists, Node, Wrapper, HidCopy, HidDrop, HidPrepare, HidDone,
                            Arrives, Built
      <3> QED BY <2>1, <3>1, <3>2
    <2> QED BY <2>2, <2>3 DEF DNext, Install, all, vars
  <1>3. I => NothingHidden
    <2> SUFFICES ASSUME I, pass = "done", Paired(disk), NEW x \in Built, disk[x].t = "file"
                 PROVE  Last(x) \notin DOMAIN Public
      BY DEF NothingHidden
    <2>1. HidDone
      BY DEF HidInv
    <2> QED BY <2>1 DEF HidDone
  <1> HIDE DEF I
  <1> QED BY <1>1, <1>2, <1>3, PTL DEF DSpec

-----------------------------------------------------------------------------
\* Paths below a name of the store.

LEMMA ConcatIs ==
    ASSUME NEW p \in Seq(Up), NEW q \in Seq(Up)
    PROVE  /\ p \o q \in Seq(Up) /\ Len(p \o q) = Len(p) + Len(q)
           /\ \A i \in 1..Len(p) : (p \o q)[i] = p[i]
           /\ \A i \in 1..Len(q) : (p \o q)[Len(p) + i] = q[i]
  BY ConcatProperties

LEMMA BelowIs ==
    ASSUME NEW x \in Name, NEW p \in Seq(Name)
    PROVE  /\ <<x>> \o p \in Seq(Name) /\ <<x>> \o p # <<>> /\ (<<x>> \o p)[1] = x
           /\ Len(<<x>> \o p) = Len(p) + 1 /\ Tail(<<x>> \o p) = p /\ Head(<<x>> \o p) = x
  <1> DEFINE r == <<x>>
             q == r \o p
  <1>0. r \in Seq(Name) /\ Len(r) = 1 /\ r[1] = x /\ Len(p) \in Nat
    OBVIOUS
  <1> HIDE DEF r
  <1>1. q \in Seq(Name) /\ Len(q) = Len(p) + 1 /\ q[1] = x /\ \A i \in 1..Len(p) : q[i + 1] = p[i]
    <2>1. /\ q \in Seq(Name) /\ Len(q) = 1 + Len(p)
          /\ \A i \in 1..Len(r) : q[i] = r[i]
          /\ \A i \in 1..Len(p) : q[Len(r) + i] = p[i]
      BY <1>0, ConcatProperties
    <2>2. \A i \in 1..Len(p) : 1 + i = i + 1
      OBVIOUS
    <2>3. 1 \in 1..Len(r)
      BY <1>0
    <2> HIDE DEF q
    <2>4. q[1] = x
      BY <1>0, <2>1, <2>3
    <2>5. \A i \in 1..Len(p) : q[i + 1] = p[i]
      BY <1>0, <2>1, <2>2
    <2> QED BY <1>0, <2>1, <2>4, <2>5
  <1> HIDE DEF q
  <1>2. q # <<>>
    BY <1>0, <1>1, EmptySeq
  <1>3. Tail(q) \in Seq(Name) /\ Len(Tail(q)) = Len(p) /\ \A i \in 1..Len(Tail(q)) : Tail(q)[i] = q[i + 1]
    <2>1. Tail(q) \in Seq(Name) /\ Len(q) = Len(Tail(q)) + 1 /\ Len(Tail(q)) \in Nat
      BY <1>1, <1>2, HeadTailPath, LenProperties
    <2>2. \A i \in 1..Len(Tail(q)) : Tail(q)[i] = q[i + 1]
      BY <1>1, <1>2, HeadTailProperties
    <2> QED BY <1>0, <1>1, <2>1, <2>2
  <1>4. Tail(q) = p
    BY <1>1, <1>3, SeqEqual
  <1>5. Head(q) = q[1]
    BY <1>1, <1>2, HeadTailPath
  <1> QED BY <1>1, <1>2, <1>4, <1>5 DEF q, r

LEMMA BelowPath ==
    ASSUME NEW q \in Seq(Name), q # <<>>, NEW x, q[1] = x
    PROVE  x \in Name /\ Tail(q) \in Seq(Name) /\ q = <<x>> \o Tail(q) /\ Len(q) = Len(Tail(q)) + 1
  BY HeadTailPath

\* The entries of a directory below a name.
LEMMA BelowEntry ==
    ASSUME NEW p \in Seq(Name), p # <<>>, NEW n \in Name
    PROVE  Tail(Append(p, n)) = Append(Tail(p), n) /\ \A x \in Name : Append(<<x>> \o Tail(p), n) = <<x>> \o Append(Tail(p), n)
  <1>1. p[1] \in Name /\ Tail(p) \in Seq(Name) /\ p = <<p[1]>> \o Tail(p)
    BY HeadTailPath
  <1> DEFINE b == Tail(p)
  <1>2. b \in Seq(Name) /\ Append(b, n) \in Seq(Name)
    BY <1>1
  <1> HIDE DEF b
  <1>3. ASSUME NEW x \in Name PROVE Append(<<x>> \o b, n) = <<x>> \o Append(b, n)
    <2> DEFINE r == <<x>>
    <2>1. r \in Seq(Name)
      OBVIOUS
    <2> HIDE DEF r
    <2>2. Append(r \o b, n) = r \o Append(b, n)
      <3> DEFINE u == <<n>>
      <3>1. u \in Seq(Name) /\ r \o b \in Seq(Name)
        BY <1>2, <2>1, ConcatProperties
      <3>2. Append(r \o b, n) = (r \o b) \o u /\ Append(b, n) = b \o u
        BY <1>2, <3>1, AppendIsConcat
      <3> HIDE DEF u
      <3>3. (r \o b) \o u = r \o (b \o u)
        BY <1>2, <2>1, <3>1, ConcatAssociative
      <3> QED BY <3>2, <3>3
    <2> QED BY <2>2 DEF r
  <1>4. p = <<p[1]>> \o b
    BY <1>1 DEF b
  <1>5. Append(p, n) = <<p[1]>> \o Append(b, n)
    BY <1>1, <1>3, <1>4
  <1>6. Tail(<<p[1]>> \o Append(b, n)) = Append(b, n)
    BY <1>1, <1>2, BelowIs
  <1>7. Tail(Append(p, n)) = Append(b, n)
    BY <1>5, <1>6
  <1> QED BY <1>3, <1>7 DEF b

LEMMA TopIs ==
    ASSUME NEW q \in Seq(Name), NEW x \in Name
    PROVE  /\ IsPrefix(<<x>>, q) <=> q # <<>> /\ q[1] = x
           /\ IsStrictPrefix(<<x>>, q) <=> q # <<>> /\ q[1] = x /\ Tail(q) # <<>>
  <1> DEFINE r == <<x>>
  <1>0. r \in Seq(Name) /\ Len(r) = 1 /\ r[1] = x /\ Tail(r) = <<>> /\ r # <<>>
    BY HeadTailProperties
  <1>1. Len(q) \in Nat /\ (q = <<>> <=> Len(q) = 0)
    BY EmptySeq
  <1>2. IsPrefix(r, q) <=> q # <<>> /\ q[1] = x
    <2> HIDE DEF r
    <2>1. IsPrefix(r, q) <=> Len(r) <= Len(q) /\ \A i \in 1..Len(r) : r[i] = q[i]
      BY <1>0, PrefixIs
    <2>2. (\A i \in 1..Len(r) : r[i] = q[i]) <=> x = q[1]
      BY <1>0
    <2> QED BY <1>0, <1>1, <2>1, <2>2
  <1>3. ASSUME q # <<>>, q[1] = x PROVE r = q <=> Tail(q) = <<>>
    <2>1. q = <<x>> \o Tail(q) /\ Len(q) = Len(Tail(q)) + 1
      BY <1>3, BelowPath
    <2>2. Tail(q) = <<>> => q = r
      <3>1. r \o <<>> = r
        BY <1>0
      <3> QED BY <2>1, <3>1
    <2> QED BY <1>0, <2>2
  <1> QED BY <1>2, <1>3 DEF IsStrictPrefix

-----------------------------------------------------------------------------
\* Where a package's links lead is a matter of the store alone.

Original(tree, s) == s \in DOMAIN tree /\ (tree[s].t = "link" => Keeps(tree, s))

LEMMA SourceIs ==
    /\ \A q \in Seq(Name) : q # <<>> /\ q[1] = Source =>
          /\ InSource(Tail(q)) = q /\ Tail(q) \in Seq(Name) /\ q[1] # Out
          /\ IsPrefix(<<Source>>, q)
          /\ IsStrictPrefix(<<Source>>, q) <=> Tail(q) # <<>>
    /\ \A q \in Seq(Name) : IsPrefix(<<Source>>, q) => q # <<>> /\ q[1] = Source
    /\ \A p \in Seq(Name) : /\ InSource(p) \in Seq(Name) /\ InSource(p) # <<>> /\ InSource(p)[1] = Source
                            /\ Tail(InSource(p)) = p
  BY ArtifactAssumption, BelowIs, BelowPath, TopIs DEF InSource

LEMMA SameStored ==
    ASSUME NEW t1, NEW t2, IsTree(t1), StoreOK(t1), IsTree(t2), StoreOK(t2), Agree(t1, t2)
    PROVE  /\ \A p \in DOMAIN t1 : p[1] # Out => p \in DOMAIN t2 /\ t2[p] = t1[p] /\ Eval(t2, p) = Eval(t1, p)
                                               /\ p \in Seq(In)
           /\ \A p \in DOMAIN t2 : p[1] # Out => p \in DOMAIN t1
  <1> SUFFICES ASSUME NEW p, p \in DOMAIN t1 \/ p \in DOMAIN t2, p[1] # Out
               PROVE  p \in DOMAIN t1 /\ p \in DOMAIN t2 /\ t2[p] = t1[p] /\ Eval(t2, p) = Eval(t1, p)
                      /\ p \in Seq(In)
    OBVIOUS
  <1>1. p \in Seq(In) /\ p \in Seq(InUp)
    BY InIs DEF StoreOK, Stored
  <1>2. Eval(t2, p) = Eval(t1, p)
    BY <1>1, StoreLinks, AgreeEval
  <1> QED BY <1>1, <1>2 DEF Agree

LEMMA OwnSame ==
    ASSUME NEW t1, NEW t2, IsTree(t1), StoreOK(t1), IsTree(t2), StoreOK(t2), Agree(t1, t2)
    PROVE  /\ \A s \in DOMAIN t1 : s[1] # Out => (Original(t2, s) <=> Original(t1, s))
           /\ Own(t2) = Own(t1)
  <1>1. ASSUME NEW s \in DOMAIN t1, s[1] # Out PROVE Original(t2, s) <=> Original(t1, s)
    BY <1>1, SameStored DEF Original, Keeps, Resolves
  <1> DEFINE R(t) == {r \in DOMAIN t : IsStrictPrefix(<<Source>>, r) /\ (t[r].t = "link" => Keeps(t, r))}
  <1>2. ASSUME NEW t, IsTree(t), NEW r \in R(t)
        PROVE  r[1] # Out /\ Original(t, r) /\ r \in Seq(Name) /\ r # <<>> /\ r[1] = Source
    <2>1. r \in Seq(Name) /\ r # <<>> /\ IsPrefix(<<Source>>, r)
      BY <1>2, TreeNode DEF IsStrictPrefix
    <2> QED BY <2>1, SourceIs DEF Original
  <1>3. R(t2) = R(t1)
    <2>1. ASSUME NEW r \in R(t1) PROVE r \in R(t2)
      <3>1. r[1] # Out /\ Original(t1, r)
        BY <1>2, <2>1
      <3>2. r \in DOMAIN t2 /\ Original(t2, r)
        BY <1>1, <3>1, SameStored
      <3> QED BY <3>2 DEF Original
    <2>2. ASSUME NEW r \in R(t2) PROVE r \in R(t1)
      <3>1. r[1] # Out /\ Original(t2, r)
        BY <1>2, <2>2
      <3>2. r \in DOMAIN t1
        BY <3>1, SameStored
      <3>3. Original(t1, r)
        BY <1>1, <3>1, <3>2
      <3> QED BY <3>3 DEF Original
    <2> QED BY <2>1, <2>2
  <1>4. ASSUME NEW r \in R(t1) PROVE t2[InSource(Tail(r))] = t1[InSource(Tail(r))]
    <2>1. r \in DOMAIN t1 /\ r[1] # Out /\ InSource(Tail(r)) = r
      BY <1>2, SourceIs
    <2> QED BY <2>1, SameStored
  <1>5. /\ Own(t1) = [p \in {Tail(q) : q \in R(t1)} |-> t1[InSource(p)]]
        /\ Own(t2) = [p \in {Tail(q) : q \in R(t2)} |-> t2[InSource(p)]]
    BY DEF Own
  <1> HIDE DEF R
  <1>6. Own(t2) = Own(t1)
    BY <1>3, <1>4, <1>5
  <1> QED BY <1>1, <1>6

LEMMA PrefixHead ==
    ASSUME NEW p \in Seq(Name), p # <<>>, NEW q \in Seq(Name), IsPrefix(p, q)
    PROVE  q # <<>> /\ q[1] = p[1]
  <1>1. Len(p) \in Nat /\ Len(p) # 0
    BY EmptySeq, LenProperties
  <1>2. Len(p) <= Len(q) /\ \A i \in 1..Len(p) : p[i] = q[i]
    BY PrefixIs
  <1>3. 1 \in 1..Len(p)
    BY <1>1
  <1> QED BY <1>2, <1>3

\* A link outside the output leads to where it leads, and the same is there.
LEMMA LinklessSame ==
    ASSUME NEW t1, NEW t2, IsTree(t1), StoreOK(t1), IsTree(t2), StoreOK(t2), Agree(t1, t2),
           NEW p, p \in DOMAIN t1 \/ p \in DOMAIN t2, p[1] # Out, Linkless(t2, p)
    PROVE  Linkless(t1, p)
  <1> SUFFICES ASSUME NEW q \in DOMAIN t1, IsPrefix(p, q) PROVE t1[q].t # "link"
    BY DEF Linkless, Under
  <1>1. p \in Seq(Name) /\ p # <<>> /\ q \in Seq(Name) /\ q # <<>>
    BY TreeNode
  <1>2. q[1] = p[1]
    BY <1>1, PrefixHead
  <1>3. q \in DOMAIN t2 /\ t2[q] = t1[q]
    BY <1>2, SameStored
  <1> QED BY <1>3 DEF Linkless, Under

LEMMA AnchoredSame ==
    ASSUME NEW t1, NEW t2, IsTree(t1), StoreOK(t1), IsTree(t2), StoreOK(t2), Agree(t1, t2)
    PROVE  /\ Anchored(t2) => Anchored(t1)
           /\ Unreserved(t2) => Unreserved(t1)
  <1>1. ASSUME Anchored(t2), NEW p \in DOMAIN t1, t1[p].t = "link", p[1] # Out, Resolves(t1, p)
        PROVE  \/ Eval(t1, p).at[1] # Source
               \/ t1[p].abs /\ Linkless(t1, Eval(t1, p).at)
               \/ /\ p[1] = Source /\ ~t1[p].abs
                  /\ ~B!Escapes(Tail(p), t1[p].to)
                  /\ Resolves(Own(t1), Tail(p))
    <2>1. p \in DOMAIN t2 /\ t2[p] = t1[p] /\ Eval(t2, p) = Eval(t1, p)
      BY <1>1, SameStored
    <2>2. Own(t2) = Own(t1)
      BY OwnSame
    <2>3. Eval(t1, p).at \in DOMAIN t1 /\ Eval(t1, p).at[1] # Out
      <3>1. p \in Seq(In)
        BY <1>1, SameStored
      <3>2. Eval(t1, p).at \in DOMAIN t1 /\ Eval(t1, p).at \in Seq(In)
        BY <1>1, <3>1, StoreTarget
      <3> QED BY <3>2, TreeNode, OutsideIn
    <2>4. Linkless(t2, Eval(t1, p).at) => Linkless(t1, Eval(t1, p).at)
      BY <2>3, LinklessSame
    <2> QED BY <1>1, <2>1, <2>2, <2>4 DEF Anchored, Resolves
  <1>2. ASSUME Unreserved(t2), NEW p \in Entries(t1, <<Source>>)
        PROVE  Last(p) # MetaFile /\ (Last(p) \in DOMAIN Public => Public[Last(p)] # MetaFile)
    <2>1. p \in DOMAIN t1 /\ Front(p) = <<Source>> /\ p \in Seq(Name) /\ p # <<>>
      BY TreeNode DEF Entries
    <2>2. p[1] = Source /\ Source # Out
      <3>1. <<Source>> # <<>> /\ <<Source>>[1] = Source
        OBVIOUS
      <3> QED BY <2>1, <3>1, FrontPath, ArtifactAssumption
    <2>3. p \in DOMAIN t2
      BY <2>1, <2>2, SameStored
    <2> QED BY <1>2, <2>1, <2>3 DEF Unreserved, Entries
  <1>3. Anchored(t2) => Anchored(t1)
    BY <1>1 DEF Anchored
  <1>4. Unreserved(t2) => Unreserved(t1)
    BY <1>2 DEF Unreserved
  <1> QED BY <1>3, <1>4

-----------------------------------------------------------------------------
\* What is copied of an anchored package comes from the same place of the package, or
\* from where an absolute link leads to that has no link itself, or from elsewhere in
\* the store if a link of the package leads there.

JobFrom(t, j) == LET s == InSource(Tail(j.dst))
                 IN /\ j.src[1] = Source => j.src = s \/ Linkless(t, j.src)
                    /\ Original(t, s) => j.src = s
NodeFrom(t, p, n) == LET s == InSource(Tail(p))
                     IN /\ n.t = "link" => s \in DOMAIN t /\ t[s] = n /\ Keeps(t, s)
                        /\ Original(t, s) => n.t = "file" \/ n = t[s]
FromInv == Anchored(disk) => /\ pass = "copy" => \A j \in todo : JobFrom(disk, j)
                             /\ \A p \in Built : NodeFrom(disk, p, disk[p])

LEMMA FromSame ==
    ASSUME NEW t1, NEW t2, IsTree(t1), StoreOK(t1), IsTree(t2), StoreOK(t2), Agree(t1, t2)
    PROVE  /\ \A j : j.dst \in Seq(Name) /\ j.dst # <<>> /\ j.src \in DOMAIN t1 /\ j.src[1] # Out
                        /\ JobFrom(t1, j) => JobFrom(t2, j)
           /\ \A p \in Seq(Name) : \A n : p # <<>> /\ NodeFrom(t1, p, n) => NodeFrom(t2, p, n)
  <1>1. ASSUME NEW p \in Seq(Name), p # <<>>
        PROVE  LET s == InSource(Tail(p))
               IN /\ Original(t2, s) <=> Original(t1, s)
                  /\ s \in DOMAIN t1 => s \in DOMAIN t2 /\ t2[s] = t1[s] /\ (Keeps(t1, s) => Keeps(t2, s))
    <2> DEFINE s == InSource(Tail(p))
    <2>1. s[1] # Out
      BY <1>1, HeadTailPath, SourceIs, ArtifactAssumption
    <2> HIDE DEF s
    <2>2. /\ s \in DOMAIN t1 => s \in DOMAIN t2 /\ t2[s] = t1[s] /\ Eval(t2, s) = Eval(t1, s)
          /\ s \in DOMAIN t2 => s \in DOMAIN t1
      BY <2>1, SameStored
    <2>3. Original(t2, s) <=> Original(t1, s)
      BY <2>1, <2>2, OwnSame DEF Original
    <2>4. s \in DOMAIN t1 => (Keeps(t1, s) => Keeps(t2, s))
      BY <2>2 DEF Keeps, Resolves
    <2> QED BY <2>2, <2>3, <2>4 DEF s
  <1>2. ASSUME NEW j, j.dst \in Seq(Name), j.dst # <<>>, j.src \in DOMAIN t1, j.src[1] # Out, JobFrom(t1, j)
        PROVE  JobFrom(t2, j)
    <2>1. Agree(t2, t1)
      BY DEF Agree
    <2>2. Linkless(t1, j.src) => Linkless(t2, j.src)
      BY <1>2, <2>1, LinklessSame
    <2> QED BY <1>1, <1>2, <2>2 DEF JobFrom
  <1>3. ASSUME NEW p \in Seq(Name), NEW n, p # <<>>, NodeFrom(t1, p, n) PROVE NodeFrom(t2, p, n)
    <2> DEFINE s == InSource(Tail(p))
    <2>1. /\ Original(t2, s) <=> Original(t1, s)
          /\ s \in DOMAIN t1 => s \in DOMAIN t2 /\ t2[s] = t1[s] /\ (Keeps(t1, s) => Keeps(t2, s))
      BY <1>1, <1>3
    <2>2. Original(t1, s) => s \in DOMAIN t1
      BY DEF Original
    <2>3. /\ n.t = "link" => s \in DOMAIN t1 /\ t1[s] = n /\ Keeps(t1, s)
          /\ Original(t1, s) => n.t = "file" \/ n = t1[s]
      BY <1>3 DEF NodeFrom
    <2> HIDE DEF s
    <2>4. /\ n.t = "link" => s \in DOMAIN t2 /\ t2[s] = n /\ Keeps(t2, s)
          /\ Original(t2, s) => n.t = "file" \/ n = t2[s]
      BY <2>1, <2>2, <2>3
    <2> QED BY <2>4 DEF NodeFrom, s
  <1> QED BY <1>2, <1>3

LEMMA FileFrom == ASSUME NEW t, NEW p, NEW n, n.t = "file" PROVE NodeFrom(t, p, n)
  BY DEF NodeFrom

\* A link that leads into the package is kept, unless there are no links.
LEMMA LinkIntoSource ==
    ASSUME Anchored(disk), IsTree(disk), StoreOK(disk), NEW j \in todo, JobOK(disk, j), disk[j.src].t = "link",
           Resolves(disk, j.src), Eval(disk, j.src).at[1] = Source,
           disk[j.src].abs => ~Linkless(disk, Eval(disk, j.src).at)
    PROVE  j.src[1] = Source /\ Kept(j, Eval(disk, j.src).at) /\ Keeps(disk, j.src)
  <1> DEFINE at == Eval(disk, j.src).at
  <1>1. j.src \in DOMAIN disk /\ j.src \in Seq(In) /\ j.src # <<>>
    BY TreeNode DEF JobOK
  <1>2. j.src[1] # Out
    BY <1>1, OutsideIn
  <1>3. j.src[1] = Source /\ ~disk[j.src].abs
    BY <1>1, <1>2 DEF Anchored
  <1>4. at \in DOMAIN disk
    BY <1>1, StoreTarget
  <1>5. at \in Seq(Name) /\ at # <<>>
    BY <1>4, TreeNode
  <1>6. IsPrefix(<<Source>>, at)
    BY <1>5, SourceIs
  <1> QED BY <1>3, <1>6 DEF Kept, Keeps

LEMMA FromCopyLink ==
    ASSUME Anchored(disk), IsTree(disk), StoreOK(disk), NEW j \in todo, JobOK(disk, j), JobFrom(disk, j),
           CopyLink(j), ~Fail
    PROVE  \/ disk' = disk /\ todo' = todo \ {j}
           \/ /\ disk' = With(disk, j.dst, disk[j.src]) /\ todo' = todo \ {j}
              /\ NodeFrom(disk, j.dst, disk[j.src])
           \/ /\ disk' = disk
              /\ \E k : todo' = (todo \ {j}) \cup {k} /\ JobFrom(disk, k) /\ k.dst = j.dst
  <1> DEFINE target == Eval(disk, j.src)
             s == InSource(Tail(j.dst))
  <1>0. disk[j.src].t = "link" /\ j.src \in DOMAIN disk
    BY DEF CopyLink, JobOK
  <1>1. /\ j.src[1] = Source => j.src = s
        /\ Original(disk, s) => j.src = s
    <2>1. Linkless(disk, j.src) => disk[j.src].t # "link"
      <3>1. IsPrefix(j.src, j.src)
        BY <1>0, TreeNode, PrefixOfAppend
      <3> QED BY <1>0, <3>1 DEF Linkless, Under
    <2> QED BY <1>0, <2>1 DEF JobFrom
  <1>2. Kept(j, target.at) => IsPrefix(<<Source>>, target.at) /\ ~disk[j.src].abs
    BY DEF Kept
  <1>3. target.st = "ok" => target.at \in Seq(Name) /\ Resolves(disk, j.src)
    <2>1. target.at \in Places(disk)
      BY EvalPlace, InIs DEF JobOK
    <2> QED BY <2>1 DEF Places, Resolves
  <1>4. ASSUME target.st = "ok", target.at[1] = Source, disk[j.src].abs => ~Linkless(disk, target.at)
        PROVE  j.src[1] = Source /\ Kept(j, target.at) /\ Keeps(disk, j.src)
    BY <1>0, <1>3, <1>4, LinkIntoSource
  <1>5. CASE target.st = "ok" /\ Kept(j, target.at) /\ disk' = With(disk, j.dst, disk[j.src]) /\ todo' = todo \ {j}
    <2>1. target.at[1] = Source
      BY <1>2, <1>3, <1>5, SourceIs
    <2>2. j.src = s /\ Keeps(disk, s)
      BY <1>1, <1>2, <1>4, <1>5, <2>1
    <2>3. NodeFrom(disk, j.dst, disk[j.src])
      BY <1>0, <2>2 DEF NodeFrom
    <2> QED BY <1>5, <2>3
  <1>6. CASE target.st = "ok" /\ ~Kept(j, target.at) /\ disk' = disk
             /\ todo' = (todo \ {j}) \cup {Job(target.at, j.dst, j.active)}
    <2> DEFINE k == Job(target.at, j.dst, j.active)
    <2>1. k.src = target.at /\ k.dst = j.dst
      BY DEF Job
    <2>2. target.at[1] # Source \/ Linkless(disk, target.at)
      BY <1>4, <1>6
    <2>3. ~Original(disk, s)
      <3> SUFFICES ASSUME Original(disk, s) PROVE FALSE
        OBVIOUS
      <3>1. Keeps(disk, j.src)
        BY <1>0, <1>1 DEF Original
      <3> QED BY <1>6, <3>1 DEF Keeps, Kept
    <2>4. JobFrom(disk, k)
      <3> HIDE DEF k, target
      <3> QED BY <2>1, <2>2, <2>3 DEF JobFrom
    <2> QED BY <1>6, <2>1, <2>4
  <1>7. CASE disk' = disk /\ todo' = todo \ {j}
    BY <1>7
  <1> QED BY <1>5, <1>6, <1>7 DEF CopyLink

\* The entries of a directory come from where it comes from.
LEMMA FromJobs ==
    ASSUME IsTree(disk), NEW j \in todo, JobOK(disk, j), JobFrom(disk, j), disk[j.src].t = "dir",
           NEW a, NEW k \in Jobs(disk, j.src, j.dst, a)
    PROVE  JobFrom(disk, k) /\ k.dst \in Seq(Name) /\ k.dst # <<>>
  <1> DEFINE s == InSource(Tail(j.dst))
  <1>1. PICK q \in Entries(disk, j.src) : k = Job(q, Append(j.dst, Last(q)), a)
    BY DEF Jobs
  <1>2. q \in DOMAIN disk /\ Front(q) = j.src /\ q \in Seq(Name) /\ q # <<>>
    BY TreeNode DEF Entries
  <1>3. j.src \in DOMAIN disk /\ j.src \in Seq(Name) /\ j.src # <<>> /\ j.dst \in Seq(Name) /\ j.dst # <<>>
    BY TreeNode DEF JobOK
  <1> DEFINE n == Last(q)
             r == InSource(Tail(k.dst))
  <1>4. n \in Name /\ q = Append(j.src, n) /\ q[1] = j.src[1]
    BY <1>2, <1>3, FrontPath
  <1>5. k.src = q /\ k.dst = Append(j.dst, n)
    BY <1>1 DEF Job
  <1>6. Tail(j.dst) \in Seq(Name) /\ s \in Seq(Name) /\ s # <<>>
    BY <1>3, HeadTailPath, SourceIs
  <1>7. r = Append(s, n)
    <2> HIDE DEF n
    <2>1. Source \in Name
      BY ArtifactAssumption
    <2>2. /\ Tail(Append(j.dst, n)) = Append(Tail(j.dst), n)
          /\ Append(<<Source>> \o Tail(j.dst), n) = <<Source>> \o Append(Tail(j.dst), n)
      BY <1>3, <1>4, <2>1, BelowEntry
    <2>3. Tail(k.dst) = Append(Tail(j.dst), n)
      BY <1>5, <2>2
    <2> QED BY <2>2, <2>3 DEF InSource
  <1>8. /\ j.src[1] = Source => j.src = s \/ Linkless(disk, j.src)
        /\ Original(disk, s) => j.src = s
    BY DEF JobFrom
  <1> HIDE DEF n, s, r
  <1>13. Linkless(disk, j.src) => Linkless(disk, q)
    <2> SUFFICES ASSUME NEW u \in DOMAIN disk, IsPrefix(q, u) PROVE IsPrefix(j.src, u)
      BY DEF Linkless, Under
    <2>1. u \in Seq(Name)
      BY TreeNode
    <2> QED BY <1>3, <1>4, <2>1, OnlyPrefix
  <1>9. q[1] = Source => q = r \/ Linkless(disk, q)
    BY <1>4, <1>7, <1>8, <1>13
  <1>10. ASSUME Original(disk, r) PROVE q = r
    <2>1. r \in DOMAIN disk /\ Front(r) = s
      BY <1>4, <1>6, <1>7, <1>10, AppendPath DEF Original
    <2>2. Is("dir", disk, s)
      BY <2>1, TreeNode
    <2>3. Original(disk, s)
      BY <1>6, <2>2 DEF Is, Exists, Node, Original
    <2> QED BY <1>4, <1>7, <1>8, <2>3
  <1>11. JobFrom(disk, k)
    BY <1>5, <1>9, <1>10 DEF JobFrom, r
  <1>12. k.dst \in Seq(Name) /\ k.dst # <<>>
    BY <1>3, <1>4, <1>5, AppendPath
  <1> QED BY <1>11, <1>12

LEMMA FromCopy ==
    ASSUME BuildInv, StoreInv, FromInv, Anchored(disk), NEW j \in todo,
           CopyLink(j) \/ CopyDir(j) \/ CopyFile(j), ~Fail
    PROVE  /\ \A k \in todo' : JobFrom(disk, k) /\ k.dst \in Seq(Name) /\ k.dst # <<>>
           /\ \A p \in Built' : NodeFrom(disk, p, disk'[p])
  <1>0. pass = "copy" /\ IsTree(disk) /\ StoreOK(disk) /\ \A k \in todo : JobOK(disk, k)
    BY DEF CopyLink, CopyDir, CopyFile, Turn, BuildInv, DiskInv, StoreInv, CopyInv
  <1>1. (\A k \in todo : JobFrom(disk, k)) /\ \A p \in Built : NodeFrom(disk, p, disk[p])
    BY <1>0 DEF FromInv
  <1>2. \A k \in todo : k.dst \in Seq(Name) /\ k.dst # <<>>
    BY <1>0 DEF JobOK
  <1>3. j.dst \notin DOMAIN disk
    <2>1. IsPrefix(j.dst, j.dst)
      BY <1>2, PrefixOfAppend
    <2> QED BY <1>0, <2>1 DEF JobOK
  <1>4. ASSUME NEW n, disk' = With(disk, j.dst, n), NodeFrom(disk, j.dst, n)
        PROVE  \A p \in Built' : NodeFrom(disk, p, disk'[p])
    <2> SUFFICES ASSUME NEW p \in Built' PROVE NodeFrom(disk, p, disk'[p])
      OBVIOUS
    <2>1. CASE p = j.dst
      BY <1>4, <2>1 DEF With
    <2>2. CASE p # j.dst
      BY <1>1, <1>4, <2>2 DEF With, Built
    <2> QED BY <2>1, <2>2
  <1>5. CASE CopyLink(j)
    <2>1. CASE disk' = disk /\ todo' = todo \ {j}
      BY <1>1, <1>2, <2>1 DEF Built
    <2>2. CASE /\ disk' = With(disk, j.dst, disk[j.src]) /\ todo' = todo \ {j}
               /\ NodeFrom(disk, j.dst, disk[j.src])
      BY <1>1, <1>2, <1>4, <2>2
    <2>3. CASE /\ disk' = disk
               /\ \E k : todo' = (todo \ {j}) \cup {k} /\ JobFrom(disk, k) /\ k.dst = j.dst
      BY <1>1, <1>2, <2>3 DEF Built
    <2> QED BY <1>0, <1>1, <1>5, <2>1, <2>2, <2>3, FromCopyLink
  <1>6. CASE CopyFile(j)
    <2>1. disk' = With(disk, j.dst, disk[j.src]) /\ todo' = todo \ {j} /\ disk[j.src].t = "file"
      BY <1>6 DEF CopyFile
    <2> QED BY <1>1, <1>2, <1>4, <2>1, FileFrom
  <1>7. CASE CopyDir(j)
    <2> DEFINE new == Jobs(disk, j.src, j.dst, j.active \cup {j.src})
    <2>1. disk' = With(disk, j.dst, Dir) /\ todo' = (todo \ {j}) \cup new /\ disk[j.src].t = "dir"
      BY <1>7 DEF CopyDir
    <2>2. \A k \in new : JobFrom(disk, k) /\ k.dst \in Seq(Name) /\ k.dst # <<>>
      BY <1>0, <1>1, <2>1, FromJobs
    <2>3. NodeFrom(disk, j.dst, Dir)
      <3>1. JobFrom(disk, j) /\ j.src \in DOMAIN disk
        BY <1>0, <1>1 DEF JobOK
      <3>2. disk[j.src] = Dir
        BY <1>0, <2>1, <3>1, TreeNode
      <3> QED BY <3>1, <3>2 DEF NodeFrom, JobFrom, Dir
    <2> HIDE DEF new
    <2> QED BY <1>1, <1>2, <1>4, <2>1, <2>2, <2>3
  <1> QED BY <1>5, <1>6, <1>7

LEMMA FromInit ==
    ASSUME DInit
    PROVE  FromInv
  <1>1. CASE Foreign
    BY <1>1 DEF Foreign, FromInv, Built
  <1>2. CASE Init
    <2>1. PICK tree \in Trees : /\ disk = With(tree, <<Out>>, Dir) /\ pass = "copy"
                                /\ todo = Jobs(tree, <<Source>>, <<Out>>, {})
      BY <1>2 DEF Init
    <2>2. /\ DOMAIN tree \subseteq Seq(In) /\ IsTree(tree)
      BY <2>1, TreesAssumption DEF In
    <2>3. Built = {}
      <3> SUFFICES ASSUME NEW x \in Built PROVE FALSE
        OBVIOUS
      <3>1. x \in DOMAIN tree \cup {<<Out>>} /\ IsPrefix(<<Out>>, x) /\ x # <<Out>>
        BY <2>1 DEF Built, With, IsStrictPrefix
      <3>2. x \in Seq(In) /\ x \in Seq(Name) /\ x # <<>>
        BY <2>2, <3>1, TreeNode
      <3>3. x[1] = Out
        BY <3>1, <3>2, InOut
      <3> QED BY <3>2, <3>3, OutsideIn
    <2>4. ASSUME NEW j \in todo PROVE JobFrom(disk, j)
      <3>1. PICK q \in Entries(tree, <<Source>>) : j = Job(q, Append(<<Out>>, Last(q)), {})
        BY <2>1 DEF Jobs
      <3> DEFINE n == Last(q)
                 o == <<Out>>
                 c == <<Source>>
      <3>2. q \in Seq(Name) /\ q # <<>> /\ Front(q) = c
        BY <2>2, TreeNode DEF Entries
      <3>3. n \in Name /\ q = Append(c, n)
        BY <3>2, FrontPath
      <3>4. o \in Seq(Name) /\ o # <<>> /\ Tail(o) = <<>> /\ <<>> \in Seq(Name) /\ Source \in Name
        BY ArtifactAssumption
      <3>5. c \o Tail(o) = c
        <4>1. c \o <<>> = c
          BY <3>4, ConcatEmptySeq
        <4> QED BY <3>4, <4>1
      <3>6. j.src = q /\ j.dst = Append(o, n)
        BY <3>1 DEF Job
      <3> HIDE DEF n, o
      <3>7. Tail(j.dst) = Append(Tail(o), n) /\ Append(<<Source>> \o Tail(o), n) = <<Source>> \o Append(Tail(o), n)
        BY <3>3, <3>4, <3>6, BelowEntry
      <3>8. InSource(Tail(j.dst)) = Append(c, n)
        BY <3>5, <3>7 DEF InSource
      <3> QED BY <3>3, <3>6, <3>8 DEF JobFrom
    <2> QED BY <2>1, <2>3, <2>4 DEF FromInv
  <1> QED BY <1>1, <1>2 DEF DInit

\* What a pass after the copy does to a node: files are new, the rest is as it was.
LEMMA NodesKept ==
    ASSUME BuildInv, StoreInv, Next, pass # "copy" \/ CopyDone, NEW p \in Built'
    PROVE  disk'[p].t = "file" \/ (p \in Built /\ disk'[p] = disk[p])
  <1>1. CASE Fail \/ CopyDone \/ DropDone \/ PrepareDone \/ DanglingDone \/ ArchiveEntry \/ ArchiveDone
    BY <1>1 DEF Fail, CopyDone, DropDone, PrepareDone, DanglingDone, ArchiveEntry, ArchiveDone, Built
  <1>2. CASE (\E i \in todo : Drop(i)) /\ ~Fail
    <2>1. pass = "drop"
      BY <1>2 DEF Drop
    <2>2. IsTree(disk) /\ todo \subseteq DOMAIN Dropped
      BY <2>1 DEF BuildInv, DiskInv, TodoInv
    <2>3. \E P : disk' = Without(disk, P)
      BY <1>2, <2>2, DropIs
    <2> QED BY <2>3 DEF Without, Built
  <1>3. CASE (RemoveStatic \/ RemoveDangling) /\ ~Fail
    <2>1. disk' = disk \/ \E P : disk' = Without(disk, P)
      BY <1>3 DEF RemoveStatic, RemoveDangling
    <2> QED BY <2>1 DEF Without, Built
  <1>4. CASE Unwrap /\ ~Fail
    <2>1. pass = "prepare" /\ todo # {} /\ \E q : disk' = With(Without(disk, {First(todo)}), q, disk[First(todo)])
      BY <1>4 DEF Unwrap
    <2>2. todo \subseteq Files(disk) /\ todo \subseteq DOMAIN disk
      BY <2>1 DEF BuildInv, TodoInv, Files, Under
    <2>3. disk[First(todo)].t = "file"
      BY <2>1, <2>2, FirstTodo DEF BuildInv, Files
    <2> QED BY <2>1, <2>3 DEF With, Without, Built
  <1>5. CASE Rewrite /\ ~Fail
    <2>1. disk' = [q \in DOMAIN disk |-> IF q \in Files(disk) THEN File(Rewritten[disk[q].c]) ELSE disk[q]]
      BY <1>5 DEF Rewrite
    <2> QED BY <2>1 DEF Built, File
  <1>6. CASE \E j \in todo : CopyLink(j) \/ CopyDir(j) \/ CopyFile(j)
    <2>1. pass = "copy" /\ todo # {}
      BY <1>6 DEF CopyLink, CopyDir, CopyFile, Turn
    <2> QED BY <2>1 DEF CopyDone
  <1> QED BY <1>1, <1>2, <1>3, <1>4, <1>5, <1>6 DEF Next

LEMMA StoreTrees ==
    ASSUME BuildInv, StoreInv, Next
    PROVE  IsTree(disk) /\ StoreOK(disk) /\ IsTree(disk') /\ StoreOK(disk') /\ Agree(disk, disk') /\ disk' # <<>>
           /\ <<Out>> \in DOMAIN disk' /\ disk'[<<Out>>] = Dir
  <1>1. BuildInv' /\ StoreInv' /\ Agree(disk, disk') /\ disk' # <<>>
    BY NextInv, StoreStep
  <1>2. IsTree(disk) /\ IsTree(disk')
    BY <1>1 DEF BuildInv, DiskInv, IsTree, Is, Exists, Node
  <1> QED BY <1>1, <1>2 DEF StoreInv, OutInv, StoreOK, Stored, Resolves

LEMMA FromStep ==
    ASSUME BuildInv, StoreInv, FromInv, Next
    PROVE  FromInv'
  <1>1. IsTree(disk) /\ StoreOK(disk) /\ IsTree(disk') /\ StoreOK(disk') /\ Agree(disk, disk')
    BY StoreTrees
  <1> SUFFICES ASSUME Anchored(disk')
               PROVE  /\ pass' = "copy" => \A j \in todo' : JobFrom(disk', j)
                      /\ \A p \in Built' : NodeFrom(disk', p, disk'[p])
    BY DEF FromInv, Anchored, Linkless, Under, Resolves, JobFrom, NodeFrom, Original, Keeps
  <1>2. Anchored(disk)
    BY <1>1, AnchoredSame
  <1>3. \A p \in Built' : p \in Seq(Name) /\ p # <<>>
    BY <1>1, TreeNode DEF Built
  <1>4. CASE (\E j \in todo : CopyLink(j) \/ CopyDir(j) \/ CopyFile(j)) /\ ~Fail
    <2>1. /\ \A k \in todo' : JobFrom(disk, k) /\ k.dst \in Seq(Name) /\ k.dst # <<>>
          /\ \A p \in Built' : NodeFrom(disk, p, disk'[p])
      BY <1>2, <1>4, FromCopy
    <2>2. ASSUME pass' = "copy", NEW k \in todo' PROVE k.src \in DOMAIN disk /\ k.src[1] # Out
      <3>1. BuildInv'
        BY NextInv
      <3>2. k.src \in DOMAIN disk' /\ k.src \in Seq(In) /\ k.src # <<>>
        BY <1>1, <2>2, <3>1, TreeNode DEF BuildInv, CopyInv, JobOK
      <3> QED BY <1>1, <3>2, OutsideIn DEF Agree
    <2> QED BY <1>1, <1>3, <2>1, <2>2, FromSame
  <1>5. CASE (\E j \in todo : CopyLink(j) \/ CopyDir(j) \/ CopyFile(j)) /\ Fail
    <2>1. pass' = "failed" /\ disk' = disk
      BY <1>5 DEF Fail
    <2>2. \A p \in Built' : NodeFrom(disk, p, disk'[p])
      BY <1>2, <2>1 DEF FromInv, Built
    <2> QED BY <2>1, <2>2
  <1>6. CASE pass # "copy" \/ CopyDone
    <2>1. pass' # "copy"
      BY <1>6 DEF Next, CopyLink, CopyDir, CopyFile, Turn, CopyDone, Drop, DropDone, RemoveStatic, Unwrap, PrepareDone,
                  RemoveDangling, DanglingDone, Rewrite, ArchiveEntry, ArchiveDone, Fail
    <2>2. ASSUME NEW p \in Built' PROVE NodeFrom(disk, p, disk'[p])
      <3>1. disk'[p].t = "file" \/ (p \in Built /\ disk'[p] = disk[p])
        BY <1>6, <2>2, NodesKept
      <3>2. CASE disk'[p].t = "file"
        BY <3>2, FileFrom
      <3>3. CASE p \in Built /\ disk'[p] = disk[p]
        BY <1>2, <3>3 DEF FromInv
      <3> QED BY <3>1, <3>2, <3>3
    <2> QED BY <1>1, <1>3, <2>1, <2>2, FromSame
  <1>7. (\E j \in todo : CopyLink(j) \/ CopyDir(j) \/ CopyFile(j)) \/ pass # "copy" \/ CopyDone
    BY DEF Next, Drop, DropDone, RemoveStatic, Unwrap, PrepareDone,
           RemoveDangling, DanglingDone, Rewrite, ArchiveEntry, ArchiveDone
  <1> QED BY <1>4, <1>5, <1>6, <1>7

-----------------------------------------------------------------------------
\* No name at the top of the output is, or will be, that of bm's own file.

Free(n) == n # MetaFile /\ (n \in DOMAIN Public => Public[n] # MetaFile)
Top(p) == Front(p) = <<Out>>
FreeInv == Unreserved(disk) =>
    /\ pass = "copy" => \A j \in todo : Top(j.dst) => Free(Last(j.dst))
    /\ pass \in {"copy", "drop"} => \A p \in Built : Top(p) => Free(Last(p))
    /\ pass = "prepare" => \A p \in todo : Top(p) => Free(Last(p))
    /\ \A p \in Built : Top(p) => Last(p) # MetaFile

LEMMA FreeInit ==
    ASSUME DInit
    PROVE  FreeInv
  <1>1. CASE Foreign
    BY <1>1 DEF Foreign, FreeInv, Built
  <1>2. CASE Init
    <2>1. PICK tree \in Trees : /\ disk = With(tree, <<Out>>, Dir) /\ pass = "copy"
                                /\ todo = Jobs(tree, <<Source>>, <<Out>>, {})
      BY <1>2 DEF Init
    <2>2. DOMAIN tree \subseteq Seq(In) /\ IsTree(tree)
      BY <2>1, TreesAssumption DEF In
    <2>3. Built = {}
      <3> SUFFICES ASSUME NEW x \in Built PROVE FALSE
        OBVIOUS
      <3>1. x \in DOMAIN tree \cup {<<Out>>} /\ IsPrefix(<<Out>>, x) /\ x # <<Out>>
        BY <2>1 DEF Built, With, IsStrictPrefix
      <3>2. x \in Seq(In) /\ x \in Seq(Name) /\ x # <<>>
        BY <2>2, <3>1, TreeNode
      <3>3. x[1] = Out
        BY <3>1, <3>2, InOut
      <3> QED BY <3>2, <3>3, OutsideIn
    <2>4. ASSUME Unreserved(disk), NEW j \in todo PROVE Free(Last(j.dst))
      <3>1. PICK q \in Entries(tree, <<Source>>) : j = Job(q, Append(<<Out>>, Last(q)), {})
        BY <2>1 DEF Jobs
      <3>2. q \in DOMAIN tree /\ Front(q) = <<Source>> /\ q \in Seq(Name) /\ q # <<>>
        BY <2>2, TreeNode DEF Entries
      <3>3. q \in Entries(disk, <<Source>>)
        BY <2>1, <3>2 DEF Entries, With
      <3>4. Last(q) \in Name /\ <<Out>> \in Seq(Name)
        BY <3>2, FrontPath, ArtifactAssumption
      <3>5. Last(j.dst) = Last(q)
        BY <3>1, <3>4, AppendPath DEF Job
      <3> QED BY <2>4, <3>3, <3>5 DEF Unreserved, Free
    <2> QED BY <2>1, <2>3, <2>4 DEF FreeInv
  <1> QED BY <1>1, <1>2 DEF DInit

LEMMA FreeStep ==
    ASSUME BuildInv, StoreInv, FreeInv, Next
    PROVE  FreeInv'
  <1>1. IsTree(disk) /\ StoreOK(disk) /\ IsTree(disk') /\ StoreOK(disk') /\ Agree(disk, disk')
        /\ <<Out>> \in DOMAIN disk /\ disk[<<Out>>] = Dir
    <2>1. disk # <<>>
      BY StoreStep
    <2> QED BY <2>1, StoreTrees DEF StoreInv, OutInv
  <1> DEFINE Goal == /\ pass' = "copy" => \A j \in todo' : Top(j.dst) => Free(Last(j.dst))
                     /\ pass' \in {"copy", "drop"} => \A p \in Built' : Top(p) => Free(Last(p))
                     /\ pass' = "prepare" => \A p \in todo' : Top(p) => Free(Last(p))
                     /\ \A p \in Built' : Top(p) => Last(p) # MetaFile
  <1> SUFFICES ASSUME Unreserved(disk') PROVE Goal
    BY DEF FreeInv, Unreserved, Entries
  <1>2. Unreserved(disk)
    BY <1>1, AnchoredSame
  <1>3. /\ pass = "copy" => \A j \in todo : Top(j.dst) => Free(Last(j.dst))
        /\ pass \in {"copy", "drop"} => \A p \in Built : Top(p) => Free(Last(p))
        /\ pass = "prepare" => \A p \in todo : Top(p) => Free(Last(p))
        /\ \A p \in Built : Top(p) => Last(p) # MetaFile
    BY <1>2 DEF FreeInv
  <1>4. CASE Fail
    <2>1. pass' = "failed" /\ disk' = disk
      BY <1>4 DEF Fail
    <2> QED BY <1>3, <2>1 DEF Built
  <1>5. ASSUME NEW j \in todo, CopyLink(j) \/ CopyDir(j) \/ CopyFile(j), ~Fail
        PROVE  Goal
    <2>0. pass = "copy" /\ pass' = "copy"
      BY <1>5 DEF CopyLink, CopyDir, CopyFile, Turn, Fail
    <2>1. JobOK(disk, j)
      BY <2>0 DEF BuildInv, CopyInv
    <2>2. j.dst \in Seq(Name) /\ j.dst # <<Out>>
      <3>1. IsPrefix(j.dst, j.dst)
        BY <2>1, PrefixOfAppend DEF JobOK
      <3> QED BY <1>1, <2>1, <3>1 DEF JobOK
    <2>3. \A p \in Built' : p \in Built \/ p = j.dst
      BY <1>5 DEF CopyLink, CopyDir, CopyFile, Fail, Built, With
    <2>4. \A k \in todo' : k \in todo \/ k.dst = j.dst \/ Front(k.dst) = j.dst
      <3>1. CASE CopyLink(j) \/ CopyFile(j)
        BY <1>5, <3>1 DEF CopyLink, CopyFile, Job
      <3>2. CASE CopyDir(j)
        <4>1. todo' = (todo \ {j}) \cup Jobs(disk, j.src, j.dst, j.active \cup {j.src})
          BY <1>5, <3>2 DEF CopyDir
        <4>2. ASSUME NEW k \in Jobs(disk, j.src, j.dst, j.active \cup {j.src}) PROVE Front(k.dst) = j.dst
          <5>1. PICK q \in Entries(disk, j.src) : k.dst = Append(j.dst, Last(q))
            BY DEF Jobs, Job
          <5>2. Last(q) \in Name
            BY <1>1, TreeNode, FrontPath DEF Entries
          <5> QED BY <2>2, <5>1, <5>2, AppendPath
        <4> QED BY <4>1, <4>2
      <3> QED BY <1>5, <3>1, <3>2
    <2>5. \A k \in todo' : Top(k.dst) => Free(Last(k.dst))
      BY <1>3, <2>0, <2>2, <2>4 DEF Top
    <2>6. \A p \in Built' : Top(p) => Free(Last(p))
      BY <1>3, <2>0, <2>3
    <2> QED BY <2>0, <2>5, <2>6 DEF Free
  <1>6. CASE CopyDone
    BY <1>3, <1>6 DEF CopyDone, Built
  <1>7. ASSUME NEW i \in todo, Drop(i), ~Fail
        PROVE  Goal
    <2>1. pass = "drop" /\ pass' = "drop"
      BY <1>7 DEF Drop, Fail
    <2>2. todo \subseteq DOMAIN Dropped
      BY <2>1 DEF BuildInv, TodoInv
    <2>3. \E P : disk' = Without(disk, P)
      BY <1>1, <1>7, <2>2, DropIs
    <2>4. \A p \in Built' : p \in Built
      BY <2>3 DEF Built, Without
    <2> QED BY <1>3, <2>1, <2>4 DEF Free
  <1>8. CASE DropDone
    <2>1. pass = "drop" /\ pass' = "prepare" /\ disk' = disk /\ todo' \subseteq Files(disk)
      BY <1>8 DEF DropDone
    <2>2. Files(disk) \subseteq Built
      BY <1>1 DEF Files, Under, Built, IsStrictPrefix, Dir
    <2> QED BY <1>3, <2>1, <2>2 DEF Built
  <1>9. CASE RemoveStatic \/ RemoveDangling \/ Rewrite
    <2>1. pass # "copy" /\ pass' \notin {"copy", "drop"} /\ (pass' = "prepare" => pass = "prepare" /\ todo' \subseteq todo)
      BY <1>9 DEF RemoveStatic, RemoveDangling, Rewrite, Fail
    <2>2. \A p \in Built' : p \in Built
      <3>1. disk' = disk \/ (\E P : disk' = Without(disk, P)) \/ DOMAIN disk' = DOMAIN disk
        BY <1>9 DEF RemoveStatic, RemoveDangling, Rewrite, Fail
      <3> QED BY <3>1 DEF Without, Built
    <2> QED BY <1>3, <2>1, <2>2
  <1>10. CASE Unwrap /\ ~Fail
    <2> DEFINE p == First(todo)
               w == Append(Front(p), Public[Last(p)])
    <2>1. pass = "prepare" /\ pass' = "prepare" /\ todo # {} /\ todo' = todo \ {p} /\ Last(p) \in DOMAIN Public
          /\ disk' = With(Without(disk, {p}), w, disk[p])
      BY <1>10 DEF Unwrap
    <2>2. p \in todo /\ p \in Seq(Name) /\ p # <<>>
      <3>1. todo \subseteq DOMAIN disk
        BY <2>1 DEF BuildInv, TodoInv, Files, Under
      <3>2. p \in todo /\ p \in DOMAIN disk
        BY <2>1, <3>1, FirstTodo DEF BuildInv
      <3> QED BY <1>1, <3>2, TreeNode
    <2> HIDE DEF p
    <2>3. Front(p) \in Seq(Name) /\ Public[Last(p)] \in Name
      BY <2>1, <2>2, FrontPath, ArtifactAssumption
    <2>4. Front(w) = Front(p) /\ Last(w) = Public[Last(p)]
      BY <2>3, AppendPath
    <2>5. \A x \in Built' : x \in Built \/ x = w
      BY <2>1 DEF Built, With, Without
    <2>6. Top(w) => Last(w) # MetaFile
      BY <1>3, <2>1, <2>2, <2>4 DEF Top, Free
    <2> HIDE DEF w
    <2> QED BY <1>3, <2>1, <2>5, <2>6
  <1>11. CASE PrepareDone \/ DanglingDone \/ ArchiveEntry \/ ArchiveDone
    <2>1. pass' \notin {"copy", "drop", "prepare"} /\ disk' = disk
      BY <1>11 DEF PrepareDone, DanglingDone, ArchiveEntry, ArchiveDone
    <2> QED BY <1>3, <2>1 DEF Built
  <1> HIDE DEF Goal
  <1> QED BY <1>4, <1>5, <1>6, <1>7, <1>8, <1>9, <1>10, <1>11 DEF Next

-----------------------------------------------------------------------------
\* The archive has one entry for each path of the output, in the order of WalkDir.

Entry(t, p) == [name |-> <<Package>> \o Tail(p), node |-> t[p]]
Spot(e) == <<Out>> \o At(e)
Listed == Under(disk, <<Out>>) \ todo
ArchiveInv ==
    /\ pass \in {"copy", "drop", "prepare", "dangling", "rewrite"} => tar = <<>>
    /\ disk # <<>> /\ pass \in {"archive", "done"} =>
         /\ todo \subseteq Under(disk, <<Out>>)
         /\ \A i \in 1..Len(tar) : Spot(tar[i]) \in Listed /\ tar[i] = Entry(disk, Spot(tar[i]))
         /\ \A p \in Listed : \E i \in 1..Len(tar) : Spot(tar[i]) = p
         /\ \A i, k \in 1..Len(tar) : i < k => Before(Spot(tar[i]), Spot(tar[k]))
         /\ \A p \in Listed, q \in todo : Before(p, q)
    /\ pass = "done" => todo = {}

LEMMA SpotIs ==
    ASSUME NEW t, NEW p \in Seq(Name), p # <<>>, p[1] = Out
    PROVE  Spot(Entry(t, p)) = p /\ At(Entry(t, p)) = Tail(p) /\ Entry(t, p).node = t[p]
           /\ Entry(t, p).name = <<Package>> \o Tail(p) /\ Entry(t, p).name \in Seq(Name)
           /\ Entry(t, p).name # <<>> /\ Head(Entry(t, p).name) = Package
           /\ DOMAIN Entry(t, p) = {"name", "node"}
  <1>1. Package \in Name /\ Tail(p) \in Seq(Name) /\ p = <<Out>> \o Tail(p)
    BY BelowPath, ArtifactAssumption
  <1> DEFINE n == <<Package>> \o Tail(p)
  <1>2. n \in Seq(Name) /\ n # <<>> /\ Head(n) = Package /\ Tail(n) = Tail(p)
    BY <1>1, BelowIs
  <1> HIDE DEF n
  <1>3. Entry(t, p) = [name |-> n, node |-> t[p]]
    BY DEF Entry, n
  <1>4. Entry(t, p).name = n /\ Entry(t, p).node = t[p] /\ DOMAIN Entry(t, p) = {"name", "node"}
    BY <1>3
  <1> QED BY <1>1, <1>2, <1>4 DEF Spot, At, n

LEMMA ArchiveEntryStep ==
    ASSUME BuildInv, StoreInv, ArchiveInv, ArchiveEntry
    PROVE  ArchiveInv'
  <1> DEFINE p == First(todo)
             n == Len(tar)
  <1>1. pass = "archive" /\ todo # {} /\ pass' = "archive" /\ disk' = disk /\ todo' = todo \ {p}
        /\ tar' = Append(tar, Entry(disk, p))
    BY DEF ArchiveEntry, Entry
  <1>2. disk # <<>> /\ DiskInv /\ IsTree(disk)
    BY <1>1 DEF StoreInv, OutInv, BuildInv, DiskInv
  <1>3. /\ todo \subseteq Under(disk, <<Out>>)
        /\ \A i \in 1..n : Spot(tar[i]) \in Listed /\ tar[i] = Entry(disk, Spot(tar[i]))
        /\ \A q \in Listed : \E i \in 1..n : Spot(tar[i]) = q
        /\ \A i, k \in 1..n : i < k => Before(Spot(tar[i]), Spot(tar[k]))
        /\ \A q \in Listed, r \in todo : Before(q, r)
    BY <1>1, <1>2 DEF ArchiveInv
  <1>4. p \in todo /\ p \in Seq(Name) /\ \A q \in todo : q = p \/ Before(p, q)
    BY <1>1, <1>2, <1>3, FirstOfTodo DEF Under
  <1>5. p \in Under(disk, <<Out>>) /\ p # <<>> /\ p[1] = Out
    <2> HIDE DEF p
    <2>1. p \in Under(disk, <<Out>>)
      BY <1>3, <1>4
    <2>2. IsPrefix(<<Out>>, p)
      BY <2>1 DEF Under
    <2> QED BY <1>4, <2>1, <2>2, InOut
  <1>6. Spot(Entry(disk, p)) = p
    BY <1>4, <1>5, SpotIs
  <1>7. /\ n \in Nat /\ Len(tar') = n + 1
        /\ \A i \in 1..n : tar'[i] = tar[i]
        /\ tar'[n + 1] = Entry(disk, p)
    <2>1. tar \in Seq(ToSet(tar))
      BY DEF BuildInv, TarOK
    <2>2. tar \in Seq(ToSet(tar) \cup {Entry(disk, p)})
      BY <2>1, SeqMonotonic
    <2> QED BY <1>1, <2>2, AppendProperties, LenProperties
  <1>8. Listed' = Listed \cup {p}
    BY <1>1, <1>4, <1>5 DEF Listed, Under
  <1> HIDE DEF p, n
  <1>9. \A i \in 1..(n + 1) : i \in 1..n \/ i = n + 1
    BY <1>7
  <1>10. \A i \in 1..(n + 1) : Spot(tar'[i]) \in Listed' /\ tar'[i] = Entry(disk, Spot(tar'[i]))
    BY <1>3, <1>6, <1>7, <1>8, <1>9
  <1>11. \A q \in Listed' : \E i \in 1..(n + 1) : Spot(tar'[i]) = q
    <2> SUFFICES ASSUME NEW q \in Listed' PROVE \E i \in 1..(n + 1) : Spot(tar'[i]) = q
      OBVIOUS
    <2>1. CASE q = p
      <3>1. n + 1 \in 1..(n + 1)
        BY <1>7
      <3> QED BY <1>6, <1>7, <2>1, <3>1
    <2>2. CASE q \in Listed
      <3>1. PICK i \in 1..n : Spot(tar[i]) = q
        BY <1>3, <2>2
      <3>2. i \in 1..(n + 1)
        BY <1>7
      <3> QED BY <1>7, <3>1, <3>2
    <2> QED BY <1>8, <2>1, <2>2
  <1>12. \A i, k \in 1..(n + 1) : i < k => Before(Spot(tar'[i]), Spot(tar'[k]))
    <2> SUFFICES ASSUME NEW i \in 1..(n + 1), NEW k \in 1..(n + 1), i < k
                 PROVE  Before(Spot(tar'[i]), Spot(tar'[k]))
      OBVIOUS
    <2>1. i \in 1..n /\ (k \in 1..n \/ k = n + 1)
      BY <1>7
    <2>2. CASE k \in 1..n
      BY <1>3, <1>7, <2>1, <2>2
    <2>3. CASE k = n + 1
      <3>1. Spot(tar[i]) \in Listed
        BY <1>3, <2>1
      <3> QED BY <1>3, <1>4, <1>6, <1>7, <2>1, <2>3, <3>1
    <2> QED BY <2>1, <2>2, <2>3
  <1>13. \A q \in Listed', r \in todo' : Before(q, r)
    BY <1>1, <1>3, <1>4, <1>8
  <1>14. todo' \subseteq Under(disk', <<Out>>)
    BY <1>1, <1>3
  <1>15. Under(disk', <<Out>>) = Under(disk, <<Out>>)
    BY <1>1
  <1> QED BY <1>1, <1>7, <1>10, <1>11, <1>12, <1>13, <1>14 DEF ArchiveInv

LEMMA ArchiveInit ==
    ASSUME DInit
    PROVE  ArchiveInv
  BY DEF DInit, Init, Foreign, ArchiveInv

LEMMA ArchiveStep ==
    ASSUME BuildInv, StoreInv, ArchiveInv, Next
    PROVE  ArchiveInv'
  <1>1. CASE ArchiveEntry
    BY <1>1, ArchiveEntryStep
  <1>2. CASE ArchiveDone
    <2>1. pass = "archive" /\ pass' = "done" /\ UNCHANGED <<disk, todo, tar>> /\ todo = {}
      BY <1>2 DEF ArchiveDone
    <2> QED BY <2>1 DEF ArchiveInv, Listed
  <1>3. CASE Rewrite /\ ~Fail
    <2>1. pass = "rewrite" /\ pass' = "archive" /\ tar' = tar /\ todo' = Under(disk, <<Out>>)
          /\ DOMAIN disk' = DOMAIN disk
      BY <1>3 DEF Rewrite
    <2>2. tar' = <<>>
      BY <2>1 DEF ArchiveInv
    <2>3. Under(disk', <<Out>>) = todo' /\ Listed' = {}
      BY <2>1 DEF Under, Listed
    <2>4. \A i : i \notin 1..Len(tar')
      BY <2>2
    <2> QED BY <2>1, <2>3, <2>4 DEF ArchiveInv
  <1>4. CASE Fail
    <2>1. pass' = "failed"
      BY <1>4 DEF Fail
    <2> QED BY <2>1 DEF ArchiveInv
  <1>5. CASE ~Fail /\ \/ \E j \in todo : CopyLink(j) \/ CopyDir(j) \/ CopyFile(j)
                      \/ CopyDone
                      \/ \E i \in todo : Drop(i)
                      \/ DropDone
                      \/ RemoveStatic \/ Unwrap \/ PrepareDone
                      \/ RemoveDangling \/ DanglingDone
    <2>1. /\ pass \in {"copy", "drop", "prepare", "dangling", "rewrite"}
          /\ pass' \in {"copy", "drop", "prepare", "dangling", "rewrite"}
          /\ tar' = tar
      BY <1>5 DEF CopyLink, CopyDir, CopyFile, Turn, CopyDone, Drop, DropDone, RemoveStatic, Unwrap, PrepareDone,
                  RemoveDangling, DanglingDone
    <2> QED BY <2>1 DEF ArchiveInv
  <1> QED BY <1>1, <1>2, <1>3, <1>4, <1>5 DEF Next

-----------------------------------------------------------------------------
\* root.MkdirAll where all but the last of the directories are there.

LEMMA DirResolves ==
    ASSUME NEW tree, IsTree(tree), NEW d \in Seq(Name), Is("dir", tree, d), Len(d) < MaxWalk
    PROVE  Resolves(tree, d) /\ Eval(tree, d).at = d
  <1>0. MaxWalk \in Nat /\ Len(d) \in Nat
    BY TreeAssumption
  <1>1. PICK w : IsWalk(tree, d, w) /\ Eval(tree, d) = Ends(w)
    BY EvalIs
  <1> DEFINE n == Len(d)
             s == [at |-> d, rest |-> <<>>, st |-> "walk"]
             On(i) == [at |-> SubSeq(d, 1, i), rest |-> SubSeq(d, i + 1, Len(d)), st |-> "walk"]
  <1>2. \A i \in 0..n : i <= MaxWalk => w[i] = On(i)
    <2>1. SubSeq(d, 1, Len(d)) = d
      BY SubSeqFull
    <2>2. Len(d) \in 0..Len(d)
      BY <1>0
    <2> QED BY <1>1, <2>1, <2>2, RealWalk
  <1>3. On(n) = s
    BY <1>0, SubSeqFull, SubSeqEmpty
  <1> HIDE DEF On
  <1>4. n \in 0..n /\ n <= MaxWalk /\ n \in 0..MaxWalk
    BY <1>0
  <1>5. w[n] = s
    <2> HIDE DEF n, s
    <2> QED BY <1>2, <1>3, <1>4
  <1>6. Step(tree, s) = [s EXCEPT !.st = "ok"]
    <2>1. s.rest = <<>> /\ s.st = "walk"
      OBVIOUS
    <2> HIDE DEF s
    <2> QED BY <2>1, Zenon DEF Step
  <1>7. n + 1 \in 0..MaxWalk /\ w[n + 1] = Step(tree, s)
    <2> HIDE DEF s
    <2> QED BY <1>1, <1>4, <1>5, NextStep
  <1>8. w[n + 1].st = "ok" /\ w[n + 1].at = d
    BY <1>6, <1>7
  <1>9. Eval(tree, d) = [st |-> w[n + 1].st, at |-> w[n + 1].at]
    BY <1>1, <1>7, <1>8, Stays
  <1> QED BY <1>8, <1>9 DEF Resolves

LEMMA MkdirThere ==
    ASSUME NEW tree, IsTree(tree), NEW d \in Seq(Name), Is("dir", tree, d), Len(d) < MaxWalk
    PROVE  B!Mkdir([ok |-> TRUE, tree |-> tree], d) = [ok |-> TRUE, tree |-> tree]
  <1> DEFINE old == [ok |-> TRUE, tree |-> tree]
  <1>0. old.ok /\ old.tree = tree /\ \A b : [old EXCEPT !.ok = b] = [ok |-> b, tree |-> tree]
    OBVIOUS
  <1>1. Resolves(tree, d) /\ Eval(tree, d).at = d
    BY DirResolves
  <1>2. B!Resolves(tree, d) /\ B!Eval(tree, d).at = d /\ B!Is("dir", tree, d)
    BY <1>1, SameOperators, SameEval
  <1> HIDE DEF old
  <1>3. B!Mkdir(old, d) = [old EXCEPT !.ok = B!Is("dir", tree, B!Eval(tree, d).at)]
    BY <1>0, <1>2, Zenon DEF B!Mkdir
  <1>4. B!Mkdir(old, d) = [ok |-> B!Is("dir", tree, d), tree |-> tree]
    BY <1>0, <1>2, <1>3
  <1>5. B!Is("dir", tree, d) = TRUE
    BY <1>2 DEF B!Is
  <1> QED BY <1>4, <1>5 DEF old

LEMMA MakingThere ==
    ASSUME NEW tree, IsTree(tree), NEW dir \in Seq(Name), NEW m, IsMaking(tree, dir, m),
           NEW d \in 0..Len(dir), Is("dir", tree, SubSeq(dir, 1, d)), d < MaxWalk
    PROVE  m[d] = [ok |-> TRUE, tree |-> tree]
  <1>0. Len(dir) \in Nat /\ MaxWalk \in Nat
    BY TreeAssumption
  <1> DEFINE s == [ok |-> TRUE, tree |-> tree]
             I == {n \in 0..d : m[n] = s}
  <1>1. 0 \in I
    BY <1>0 DEF IsMaking
  <1>2. ASSUME NEW n \in 0..d, n \in I, n < d PROVE n + 1 \in I
    <2> DEFINE q == SubSeq(dir, 1, n + 1)
    <2>1. n + 1 \in 1..Len(dir) /\ (n + 1) - 1 = n /\ n + 1 \in 0..d /\ n + 1 \in 0..Len(dir) /\ n + 1 < MaxWalk
      BY <1>0, <1>2
    <2>2. q \in Seq(Name) /\ Len(q) = n + 1
      BY <2>1, SubPath
    <2>3. Is("dir", tree, q)
      <3> DEFINE p == SubSeq(dir, 1, d)
      <3>1. p \in Seq(Name) /\ Len(p) = d
        BY SubPath
      <3>2. n + 1 \in 0..Len(p)
        BY <2>1, <3>1
      <3>3. SubSeq(p, 1, n + 1) = q
        <4>1. q \in Seq(Name) /\ \A k \in 1..(n + 1) : q[k] = dir[k]
          <5>1. \A k \in 1..(n + 1) : dir[k] \in Name
            BY <1>0, <2>1, ElementOfSeq
          <5> QED BY <2>1, <2>2, <5>1, SubSeqProperties, SMTT(30)
        <4>2. \A k \in 1..d : p[k] = dir[k]
          <5>1. \A k \in 1..d : dir[k] \in Name
            BY <1>0, ElementOfSeq
          <5> QED BY <1>0, <5>1, SubSeqProperties, SMTT(30)
        <4>3. SubSeq(p, 1, n + 1) \in Seq(Name) /\ Len(SubSeq(p, 1, n + 1)) = n + 1
          BY <3>1, <3>2, SubPath
        <4> HIDE DEF p, q
        <4>4. \A k \in 1..(n + 1) : SubSeq(p, 1, n + 1)[k] = p[k]
          <5>1. \A k \in 1..(n + 1) : p[k] \in Name
            BY <2>1, <3>1, ElementOfSeq
          <5> QED BY <2>1, <3>1, <5>1, SubSeqProperties, SMTT(30)
        <4>5. \A k \in 1..(n + 1) : k \in 1..d
          BY <2>1
        <4>6. \A k \in 1..(n + 1) : SubSeq(p, 1, n + 1)[k] = q[k]
          BY <4>1, <4>2, <4>4, <4>5
        <4> QED BY <2>2, <4>3, <4>6, SeqEqual
      <3> HIDE DEF p, q
      <3>4. Is("dir", tree, SubSeq(p, 1, n + 1))
        <4>1. Is("dir", tree, p)
          BY DEF p
        <4> QED BY <3>1, <3>2, <4>1, DirsAbove
      <3> QED BY <3>3, <3>4
    <2>4. m[n + 1] = B!Mkdir(m[n], q)
      BY <2>1 DEF IsMaking
    <2>5. m[n] = s
      BY <1>2
    <2> HIDE DEF q
    <2>6. m[n + 1] = s
      BY <2>1, <2>2, <2>3, <2>4, <2>5, MkdirThere
    <2> QED BY <2>1, <2>6
  <1> HIDE DEF I
  <1>3. \A n \in 0..d : n \in I
    BY <1>0, <1>1, <1>2, InductionTo
  <1>4. d \in I
    BY <1>0, <1>3
  <1> QED BY <1>4 DEF I

LEMMA MkdirAllThere ==
    ASSUME NEW tree, IsTree(tree), NEW d \in Seq(Name), Is("dir", tree, d), Len(d) < MaxWalk
    PROVE  B!MkdirAll(tree, d) = [ok |-> TRUE, tree |-> tree]
  <1>1. Len(d) \in Nat /\ Len(d) \in 0..Len(d) /\ SubSeq(d, 1, Len(d)) = d
    BY SubSeqFull, LenProperties
  <1>2. PICK m : IsMaking(tree, d, m) /\ B!MkdirAll(tree, d) = m[Len(d)]
    BY <1>1, MkdirAllIs
  <1> DEFINE k == Len(d)
  <1>3. k \in 0..Len(d) /\ k < MaxWalk /\ Is("dir", tree, SubSeq(d, 1, k))
    BY <1>1
  <1>4. B!MkdirAll(tree, d) = m[k]
    BY <1>2
  <1> HIDE DEF k
  <1>5. m[k] = [ok |-> TRUE, tree |-> tree]
    BY <1>2, <1>3, MakingThere
  <1> QED BY <1>4, <1>5

\* A directory that is not there yet.
LEMMA MkdirAllNew ==
    ASSUME NEW tree, IsTree(tree), NEW d \in Seq(Name), d # <<>>, Is("dir", tree, Front(d)),
           d \notin DOMAIN tree, Len(d) <= MaxWalk
    PROVE  B!MkdirAll(tree, d).ok
  <1>1. Len(d) \in Nat /\ Len(d) \in 1..Len(d) /\ SubSeq(d, 1, Len(d)) = d /\ Len(d) - 1 \in 0..Len(d)
        /\ Len(d) - 1 < MaxWalk
    BY SubSeqFull, EmptySeq, TreeAssumption
  <1>2. PICK m : IsMaking(tree, d, m) /\ B!MkdirAll(tree, d) = m[Len(d)]
    BY <1>1, MkdirAllIs
  <1>3. SubSeq(d, 1, Len(d) - 1) = Front(d)
    BY DEF Front
  <1>4. m[Len(d) - 1] = [ok |-> TRUE, tree |-> tree]
    <2> DEFINE k == Len(d) - 1
    <2>1. k \in 0..Len(d) /\ k < MaxWalk /\ Is("dir", tree, SubSeq(d, 1, k))
      BY <1>1, <1>3
    <2> HIDE DEF k
    <2>2. m[k] = [ok |-> TRUE, tree |-> tree]
      BY <1>2, <2>1, MakingThere
    <2> QED BY <2>2 DEF k
  <1>5. m[Len(d)] = B!Mkdir(m[Len(d) - 1], d)
    BY <1>1, <1>2 DEF IsMaking
  <1> DEFINE old == [ok |-> TRUE, tree |-> tree]
  <1>6. ~B!Resolves(tree, d) /\ B!Reaches(tree, d) /\ ~B!Exists(tree, B!Real(tree, d))
    <2>1. ~Resolves(tree, d)
      BY NotThere
    <2>2. Front(d) \in Seq(Name) /\ Len(d) = Len(Front(d)) + 1 /\ d = Append(Front(d), Last(d))
      BY FrontPath
    <2>3. Len(Front(d)) < MaxWalk
      BY <1>1, <2>2, LenProperties
    <2>4. Eval(tree, Front(d)).at = Front(d) /\ Resolves(tree, Front(d))
      BY <2>2, <2>3, DirResolves
    <2>5. Reaches(tree, d)
      BY <2>4 DEF Reaches, Resolves
    <2>6. Real(tree, d) = d
      BY <2>2, <2>4 DEF Real
    <2>7. ~Exists(tree, Real(tree, d))
      BY <2>6 DEF Exists
    <2> QED BY <2>1, <2>5, <2>7, SameOperators
  <1>7. old.ok /\ old.tree = tree /\ \A t : [old EXCEPT !.tree = t].ok
    OBVIOUS
  <1>8. B!Mkdir(old, d) = [old EXCEPT !.tree = B!With(tree, B!Real(tree, d), B!Dir)]
    <2> HIDE DEF old
    <2> QED BY <1>6, <1>7, Zenon DEF B!Mkdir
  <1>9. B!Mkdir(old, d).ok
    BY <1>7, <1>8
  <1> QED BY <1>2, <1>4, <1>5, <1>9

-----------------------------------------------------------------------------
\* What is above a node of a tree are directories.

LEMMA DirAbove ==
    ASSUME NEW tree, IsTree(tree), NEW q \in DOMAIN tree, NEW p \in Seq(Name), IsStrictPrefix(p, q)
    PROVE  Is("dir", tree, p)
  <1>1. q \in Seq(Name) /\ q # <<>> /\ Is("dir", tree, Front(q))
    BY TreeNode
  <1>2. Front(q) \in Seq(Name) /\ IsPrefix(p, Front(q))
    BY <1>1, FrontPath, PrefixOfAppend DEF IsStrictPrefix
  <1> DEFINE f == Front(q)
  <1> HIDE DEF f
  <1>3. f \in Seq(Name) /\ IsPrefix(p, f) /\ Is("dir", tree, f)
    BY <1>1, <1>2 DEF f
  <1>4. Len(p) \in 0..Len(f) /\ p = SubSeq(f, 1, Len(p))
    <2>1. Len(p) <= Len(f) /\ \A i \in 1..Len(p) : p[i] = f[i]
      BY <1>3, PrefixIs
    <2>2. Len(p) \in Nat /\ Len(f) \in Nat /\ Len(p) \in 0..Len(f)
      BY <1>3, <2>1, LenProperties
    <2>3. SubSeq(f, 1, Len(p)) \in Seq(Name) /\ Len(SubSeq(f, 1, Len(p))) = Len(p)
      BY <1>3, <2>2, SubPath
    <2>4. \A i \in 1..Len(p) : SubSeq(f, 1, Len(p))[i] = f[i]
      <3>1. \A k \in 1..Len(p) : f[k] \in Name
        BY <1>3, <2>2, ElementOfSeq
      <3> QED BY <1>3, <2>2, <3>1, SubSeqProperties, SMTT(30)
    <2> QED BY <2>1, <2>2, <2>3, <2>4, SeqEqual
  <1>5. \A i \in 0..Len(f) : Is("dir", tree, SubSeq(f, 1, i))
    BY <1>3, DirsAbove
  <1> QED BY <1>4, <1>5

\* Order of prefixes below different names.
LEMMA BelowPrefix ==
    ASSUME NEW a \in Seq(Name), NEW b \in Seq(Name), NEW x \in Name
    PROVE  IsStrictPrefix(<<x>> \o a, <<x>> \o b) <=> IsStrictPrefix(a, b)
  <1> DEFINE p == <<x>> \o a
             q == <<x>> \o b
  <1>1. /\ p \in Seq(Name) /\ Len(p) = Len(a) + 1 /\ Tail(p) = a /\ p # <<>> /\ p[1] = x
        /\ q \in Seq(Name) /\ Len(q) = Len(b) + 1 /\ Tail(q) = b /\ q # <<>> /\ q[1] = x
        /\ Len(a) \in Nat /\ Len(b) \in Nat
    BY BelowIs, LenProperties
  <1>2. /\ \A i \in 1..Len(a) : a[i] = p[i + 1]
        /\ \A i \in 1..Len(b) : b[i] = q[i + 1]
    <2> HIDE DEF p, q
    <2> QED BY <1>1, HeadTailProperties
  <1>3. p = q <=> a = b
    BY <1>1
  <1> HIDE DEF p, q
  <1>4. IsPrefix(p, q) <=> Len(p) <= Len(q) /\ \A i \in 1..Len(p) : p[i] = q[i]
    <2>1. p \in Seq(Name) /\ q \in Seq(Name)
      BY <1>1
    <2> QED BY <2>1, PrefixIs
  <1>5. IsPrefix(a, b) <=> Len(a) <= Len(b) /\ \A i \in 1..Len(a) : a[i] = b[i]
    BY PrefixIs
  <1>6. ASSUME IsPrefix(a, b) PROVE IsPrefix(p, q)
    <2>1. ASSUME NEW i \in 1..Len(p) PROVE p[i] = q[i]
      <3>1. CASE i = 1
        BY <1>1, <3>1
      <3>2. CASE i # 1
        <4>1. i - 1 \in 1..Len(a) /\ i - 1 \in 1..Len(b) /\ (i - 1) + 1 = i
          BY <1>1, <1>5, <1>6, <3>2
        <4> QED BY <1>2, <1>5, <1>6, <4>1
      <3> QED BY <3>1, <3>2
    <2> QED BY <1>1, <1>4, <1>5, <1>6, <2>1
  <1>7. ASSUME IsPrefix(p, q) PROVE IsPrefix(a, b)
    <2>1. ASSUME NEW i \in 1..Len(a) PROVE a[i] = b[i]
      <3>1. i + 1 \in 1..Len(p) /\ i \in 1..Len(b)
        BY <1>1, <1>4, <1>7
      <3> QED BY <1>2, <1>4, <1>7, <3>1
    <2> QED BY <1>1, <1>4, <1>5, <1>7, <2>1
  <1> QED BY <1>3, <1>6, <1>7 DEF IsStrictPrefix, p, q

-----------------------------------------------------------------------------
\* An archive that artifact made: parents first, every name once.

Archived == /\ disk # <<>> /\ pass = "done"
            /\ IsTree(disk) /\ TarOK /\ OutInv /\ ArchiveInv

LEMMA ArchivedEntry ==
    ASSUME Archived, NEW i \in 1..Len(tar)
    PROVE  LET p == Spot(tar[i]) IN
           /\ p \in DOMAIN disk /\ p \in Seq(Name) /\ p # <<>> /\ p[1] = Out
           /\ At(tar[i]) = Tail(p) /\ tar[i].node = disk[p] /\ Tail(p) \in Seq(Name)
           /\ tar[i].name = <<Package>> \o Tail(p) /\ tar[i].name \in Seq(Name)
           /\ B!Rooted(tar[i].name) /\ ~B!IsHard(tar[i]) /\ B!Kind(tar[i]) = disk[p].t
           /\ IsNode(disk[p])
  <1> DEFINE p == Spot(tar[i])
             e == tar[i]
  <1>1. p \in Listed /\ e = Entry(disk, p)
    BY DEF Archived, ArchiveInv
  <1> HIDE DEF p, e
  <1>2. p \in DOMAIN disk /\ IsPrefix(<<Out>>, p)
    BY <1>1 DEF Listed, Under
  <1>3. p \in Seq(Name) /\ p # <<>> /\ p[1] = Out /\ IsNode(disk[p])
    BY <1>2, TreeNode, TopIs, ArtifactAssumption DEF Archived
  <1>4. /\ At(e) = Tail(p) /\ e.node = disk[p] /\ e.name = <<Package>> \o Tail(p) /\ e.name \in Seq(Name)
        /\ e.name # <<>> /\ Head(e.name) = Package /\ DOMAIN e = {"name", "node"}
    BY <1>1, <1>3, SpotIs
  <1>5. B!Rooted(e.name) /\ ~B!IsHard(e) /\ B!Kind(e) = disk[p].t
    BY <1>4 DEF B!Rooted, B!IsHard, B!Kind
  <1>6. Tail(p) \in Seq(Name)
    BY <1>3, HeadTailPath
  <1> QED BY <1>2, <1>3, <1>4, <1>5, <1>6 DEF p, e

LEMMA ArchivedPath ==
    ASSUME Archived, NEW p \in DOMAIN disk, p[1] = Out
    PROVE  \E i \in 1..Len(tar) : Spot(tar[i]) = p
  <1>1. p \in Seq(Name) /\ p # <<>>
    BY TreeNode DEF Archived
  <1>2. p \in Under(disk, <<Out>>)
    BY <1>1, TopIs, ArtifactAssumption DEF Under
  <1> QED BY <1>2 DEF Archived, ArchiveInv, Listed

LEMMA ArchivedOrder ==
    ASSUME Archived, NEW i \in 1..Len(tar), NEW k \in 1..Len(tar)
    PROVE  /\ Spot(tar[i]) = Spot(tar[k]) => i = k
           /\ IsStrictPrefix(Spot(tar[i]), Spot(tar[k])) => i < k
  <1> DEFINE p == Spot(tar[i])
             q == Spot(tar[k])
  <1>1. p \in Seq(Name) /\ q \in Seq(Name)
    BY ArchivedEntry
  <1>2. (i < k => Before(p, q)) /\ (k < i => Before(q, p))
    BY DEF Archived, ArchiveInv
  <1> HIDE DEF p, q
  <1>3. (i < k => p # q) /\ (k < i => p # q /\ ~Before(p, q))
    BY <1>1, <1>2, NotBoth
  <1>4. IsStrictPrefix(p, q) => Before(p, q) /\ p # q
    BY DEF Before, IsStrictPrefix
  <1>5. i < k \/ k < i \/ i = k
    OBVIOUS
  <1>6. (p = q => i = k) /\ (IsStrictPrefix(p, q) => i < k)
    BY <1>3, <1>4, <1>5 DEF p, q
  <1> QED BY <1>6 DEF p, q

LEMMA ArchivedNames ==
    ASSUME Archived, NEW i \in 1..Len(tar), NEW k \in 1..Len(tar)
    PROVE  /\ tar[i].name = tar[k].name => Spot(tar[i]) = Spot(tar[k])
           /\ IsStrictPrefix(tar[i].name, tar[k].name) => IsStrictPrefix(Spot(tar[i]), Spot(tar[k]))
           /\ tar[i].name = <<Package>> <=> Spot(tar[i]) = <<Out>>
           /\ tar[i].name = <<Package>> <=> At(tar[i]) = <<>>
  <1> DEFINE a == At(tar[i])
             b == At(tar[k])
  <1>1. /\ a \in Seq(Name) /\ tar[i].name = <<Package>> \o a
        /\ b \in Seq(Name) /\ tar[k].name = <<Package>> \o b
    BY ArchivedEntry
  <1>2. Spot(tar[i]) = <<Out>> \o a /\ Spot(tar[k]) = <<Out>> \o b
    BY DEF Spot
  <1>3. Package \in Name /\ Out \in Name
    BY ArtifactAssumption
  <1> HIDE DEF a, b
  <1>4. /\ IsStrictPrefix(<<Package>> \o a, <<Package>> \o b) <=> IsStrictPrefix(a, b)
        /\ IsStrictPrefix(<<Out>> \o a, <<Out>> \o b) <=> IsStrictPrefix(a, b)
    BY <1>1, <1>3, BelowPrefix
  <1>5. Tail(<<Package>> \o a) = a /\ Tail(<<Package>> \o b) = b /\ Tail(<<Out>> \o a) = a
    BY <1>1, <1>3, BelowIs
  <1>6. Tail(<<Package>>) = <<>> /\ Tail(<<Out>>) = <<>>
    OBVIOUS
  <1>7. <<Package>> \o <<>> = <<Package>> /\ <<Out>> \o <<>> = <<Out>>
    OBVIOUS
  <1>8. tar[i].name = tar[k].name => a = b
    BY <1>1, <1>5
  <1>9. tar[i].name = <<Package>> <=> a = <<>>
    BY <1>1, <1>5, <1>6, <1>7
  <1>10. Spot(tar[i]) = <<Out>> <=> a = <<>>
    BY <1>2, <1>5, <1>6, <1>7
  <1> QED BY <1>1, <1>2, <1>4, <1>8, <1>9, <1>10 DEF a

LEMMA ArchivedSimple ==
    ASSUME Archived
    PROVE  B!Simple(tar)
  <1>1. DOMAIN tar = 1..Len(tar)
    BY LenProperties DEF Archived, TarOK
  <1>2. ASSUME NEW i \in 1..Len(tar), NEW k \in 1..Len(tar), tar[i].name = tar[k].name PROVE i = k
    BY <1>2, ArchivedNames, ArchivedOrder
  <1>3. ASSUME NEW i \in 1..Len(tar), NEW k \in 1..Len(tar), IsStrictPrefix(tar[i].name, tar[k].name)
        PROVE  B!Kind(tar[i]) = "dir"
    <2> DEFINE p == Spot(tar[i])
               q == Spot(tar[k])
    <2>1. p \in Seq(Name) /\ p # <<>> /\ B!Kind(tar[i]) = disk[p].t /\ q \in DOMAIN disk
      BY ArchivedEntry
    <2>2. IsStrictPrefix(p, q)
      BY <1>3, ArchivedNames
    <2>3. Is("dir", disk, p)
      BY <2>1, <2>2, DirAbove DEF Archived
    <2> QED BY <2>1, <2>3 DEF Is, Node
  <1>4. ASSUME NEW i \in 1..Len(tar) PROVE ~B!IsHard(tar[i]) /\ (tar[i].name = <<Package>> => B!Kind(tar[i]) = "dir")
    <2>1. ~B!IsHard(tar[i]) /\ B!Kind(tar[i]) = disk[Spot(tar[i])].t
      BY ArchivedEntry
    <2>2. tar[i].name = <<Package>> => Spot(tar[i]) = <<Out>>
      BY ArchivedNames
    <2> QED BY <2>1, <2>2 DEF Archived, OutInv, Dir
  <1> QED BY <1>1, <1>2, <1>3, <1>4, StrictIs DEF B!Simple

-----------------------------------------------------------------------------
\* What bm has of such an archive is a part of the output, and the next entry fits.

Reading == Archived /\ PkgInv /\ ReadInv /\ Unpacked(tar, pkg, read)
Usual == Anchored(disk) /\ Unreserved(disk) /\ Shallow(disk)
InOutput(p) == <<Out>> \o p

LEMMA InOutputIs ==
    ASSUME NEW p \in Seq(Name)
    PROVE  /\ InOutput(p) \in Seq(Name) /\ InOutput(p) # <<>> /\ InOutput(p)[1] = Out
           /\ Tail(InOutput(p)) = p /\ Len(InOutput(p)) = Len(p) + 1
           /\ p # <<>> => /\ Front(p) \in Seq(Name) /\ Front(InOutput(p)) = InOutput(Front(p))
                          /\ Last(InOutput(p)) = Last(p)
                          /\ IsStrictPrefix(<<Out>>, InOutput(p))
           /\ \A q \in Seq(Name) : /\ IsStrictPrefix(InOutput(p), InOutput(q)) <=> IsStrictPrefix(p, q)
                                   /\ InOutput(p) = InOutput(q) <=> p = q
  <1>0. Out \in Name
    BY ArtifactAssumption
  <1>1. /\ InOutput(p) \in Seq(Name) /\ InOutput(p) # <<>> /\ InOutput(p)[1] = Out
        /\ Tail(InOutput(p)) = p /\ Len(InOutput(p)) = Len(p) + 1
    BY <1>0, BelowIs DEF InOutput
  <1>2. ASSUME p # <<>>
        PROVE  /\ Front(p) \in Seq(Name) /\ Front(InOutput(p)) = InOutput(Front(p))
               /\ Last(InOutput(p)) = Last(p) /\ IsStrictPrefix(<<Out>>, InOutput(p))
    <2> DEFINE f == Front(p)
               n == Last(p)
               o == InOutput(f)
    <2>1. f \in Seq(Name) /\ n \in Name /\ p = Append(f, n)
      BY <1>2, FrontPath
    <2>2. o \in Seq(Name) /\ o # <<>> /\ Tail(o) = f
      BY <1>0, <2>1, BelowIs DEF InOutput
    <2>3. Append(<<Out>> \o Tail(o), n) = <<Out>> \o Append(Tail(o), n)
      BY <1>0, <2>1, <2>2, BelowEntry
    <2>4. Append(o, n) = InOutput(p)
      BY <2>1, <2>2, <2>3 DEF InOutput
    <2> HIDE DEF f, n, o
    <2>5. Front(Append(o, n)) = o /\ Last(Append(o, n)) = n
      BY <2>1, <2>2, AppendPath
    <2>6. IsStrictPrefix(<<Out>>, InOutput(p))
      BY <1>0, <1>1, <1>2, TopIs
    <2> QED BY <2>1, <2>4, <2>5, <2>6 DEF o, f, n
  <1>3. ASSUME NEW q \in Seq(Name)
        PROVE  /\ IsStrictPrefix(InOutput(p), InOutput(q)) <=> IsStrictPrefix(p, q)
               /\ InOutput(p) = InOutput(q) <=> p = q
    <2>1. Tail(InOutput(q)) = q
      BY <1>0, BelowIs DEF InOutput
    <2> QED BY <1>0, <1>1, <2>1, BelowPrefix DEF InOutput
  <1> QED BY <1>1, <1>2, <1>3

\* The entries of the archive, by their places in the package.
LEMMA ArchivedPlace ==
    ASSUME Archived, NEW i \in 1..Len(tar)
    PROVE  LET p == At(tar[i])
           IN p \in Seq(Name) /\ Spot(tar[i]) = InOutput(p) /\ InOutput(p) \in DOMAIN disk /\ disk[InOutput(p)] = tar[i].node
  BY ArchivedEntry DEF Spot, InOutput

LEMMA PackagePart ==
    ASSUME Reading, NEW p \in DOMAIN pkg
    PROVE  p \in Seq(Name) /\ InOutput(p) \in DOMAIN disk /\ pkg[p] = disk[InOutput(p)]
  <1>1. p \in Seq(Name) /\ p # <<>> /\ Exists(pkg, p) /\ Node(pkg, p) = pkg[p] /\ (pkg[p].t = "dir" => pkg[p] = Dir)
    BY TreeNode DEF Reading, PkgInv, Exists, Node
  <1>2. \A i \in 1..read : i \in 1..Len(tar)
    BY DEF Reading, ReadInv
  <1>3. CASE \E i \in 1..read : At(tar[i]) = p
    <2>1. PICK i \in 1..read : At(tar[i]) = p
      BY <1>3
    <2>2. Node(pkg, p) = tar[i].node
      BY <2>1 DEF Reading, Unpacked
    <2> QED BY <1>1, <1>2, <2>1, <2>2, ArchivedPlace DEF Reading
  <1>4. CASE pkg[p].t = "dir" /\ \E i \in 1..read : IsStrictPrefix(p, At(tar[i]))
    <2>1. PICK i \in 1..read : IsStrictPrefix(p, At(tar[i]))
      BY <1>4
    <2>2. At(tar[i]) \in Seq(Name) /\ InOutput(At(tar[i])) \in DOMAIN disk
      BY <1>2, ArchivedPlace DEF Reading
    <2>3. IsStrictPrefix(InOutput(p), InOutput(At(tar[i]))) /\ InOutput(p) \in Seq(Name) /\ InOutput(p) # <<>>
      BY <1>1, <2>1, <2>2, InOutputIs
    <2>4. Is("dir", disk, InOutput(p))
      BY <2>2, <2>3, DirAbove DEF Reading, Archived
    <2>5. InOutput(p) \in DOMAIN disk /\ disk[InOutput(p)].t = "dir"
      BY <2>3, <2>4 DEF Is, Exists, Node
    <2>6. disk[InOutput(p)] = Dir
      BY <2>5, TreeNode DEF Reading, Archived
    <2> QED BY <1>1, <1>4, <2>5, <2>6
  <1> QED BY <1>3, <1>4 DEF Reading, Unpacked

LEMMA NextPlace ==
    ASSUME Reading, read < Len(tar), At(tar[read + 1]) # <<>>
    PROVE  LET n == At(tar[read + 1]) IN
           /\ n \in Seq(Name) /\ n \notin DOMAIN pkg
           /\ Front(n) \in Seq(Name) /\ Is("dir", pkg, Front(n))
  <1> DEFINE n == At(tar[read + 1])
             f == Front(n)
  <1>1. read \in Nat /\ read + 1 \in 1..Len(tar) /\ \A i \in 1..read : i \in 1..Len(tar) /\ i < read + 1 /\ i # read + 1
    BY LenProperties DEF Reading, ReadInv, Archived, TarOK
  <1>2. n \in Seq(Name) /\ Spot(tar[read + 1]) = InOutput(n) /\ InOutput(n) \in DOMAIN disk
    BY <1>1, ArchivedPlace DEF Reading
  <1>3. f \in Seq(Name) /\ Front(InOutput(n)) = InOutput(f)
    BY <1>2, InOutputIs
  <1>4. ASSUME n \in DOMAIN pkg PROVE FALSE
    <2>1. CASE \E i \in 1..read : At(tar[i]) = n
      <3>1. PICK i \in 1..read : At(tar[i]) = n
        BY <2>1
      <3>2. Spot(tar[i]) = Spot(tar[read + 1])
        BY <1>1, <1>2, <3>1, ArchivedPlace DEF Reading
      <3> QED BY <1>1, <3>2, ArchivedOrder DEF Reading
    <2>2. CASE \E i \in 1..read : IsStrictPrefix(n, At(tar[i]))
      <3>1. PICK i \in 1..read : IsStrictPrefix(n, At(tar[i]))
        BY <2>2
      <3>2. At(tar[i]) \in Seq(Name) /\ Spot(tar[i]) = InOutput(At(tar[i]))
        BY <1>1, ArchivedPlace DEF Reading
      <3>3. IsStrictPrefix(Spot(tar[read + 1]), Spot(tar[i]))
        BY <1>2, <3>1, <3>2, InOutputIs
      <3>4. i \in 1..Len(tar) /\ ~(read + 1 < i)
        BY <1>1
      <3> QED BY <1>1, <3>3, <3>4, ArchivedOrder DEF Reading
    <2> QED BY <1>4, <2>1, <2>2 DEF Reading, Unpacked
  <1>5. Is("dir", pkg, f)
    <2>1. CASE f = <<>>
      BY <2>1 DEF Is, Exists, Node, Dir
    <2>2. CASE f # <<>>
      <3>1. Is("dir", disk, InOutput(f)) /\ InOutput(n) \in Seq(Name) /\ InOutput(n) # <<>>
        BY <1>2, <1>3, TreeNode DEF Reading, Archived
      <3>2. InOutput(f) \in DOMAIN disk /\ disk[InOutput(f)].t = "dir" /\ InOutput(f)[1] = Out
        BY <1>3, <3>1, InOutputIs DEF Is, Exists, Node
      <3>3. PICK k \in 1..Len(tar) : Spot(tar[k]) = InOutput(f)
        BY <3>2, ArchivedPath DEF Reading
      <3>4. IsStrictPrefix(InOutput(f), InOutput(n))
        <4>1. n = Append(f, Last(n)) /\ Last(n) \in Name /\ Len(n) = Len(f) + 1
          BY <1>2, FrontPath
        <4>2. IsPrefix(f, f) /\ f # n
          BY <1>3, <4>1, PrefixIs, LenProperties
        <4>3. IsStrictPrefix(f, n)
          BY <1>2, <1>3, <4>2, PrefixOfAppend DEF IsStrictPrefix
        <4> QED BY <1>2, <1>3, <4>3, InOutputIs
      <3>5. k < read + 1
        BY <1>1, <1>2, <3>3, <3>4, ArchivedOrder DEF Reading
      <3>6. k \in 1..read
        BY <1>1, <3>5
      <3>7. At(tar[k]) = f /\ tar[k].node = disk[InOutput(f)]
        BY <1>3, <3>3, ArchivedPlace, InOutputIs DEF Reading
      <3>8. Exists(pkg, f) /\ Node(pkg, f) = tar[k].node
        BY <3>6, <3>7 DEF Reading, Unpacked
      <3> QED BY <3>2, <3>7, <3>8 DEF Is
    <2> QED BY <2>1, <2>2
  <1> QED BY <1>2, <1>3, <1>4, <1>5

LEMMA NextNamed ==
    ASSUME Reading, FreeInv, Unreserved(disk), read < Len(tar), At(tar[read + 1]) # <<>>
    PROVE  B!Named(tar[read + 1])
  <1> DEFINE e == tar[read + 1]
             n == At(e)
  <1>1. read + 1 \in 1..Len(tar)
    BY LenProperties DEF Reading, ReadInv, Archived, TarOK
  <1>2. B!Rooted(e.name)
    BY <1>1, ArchivedEntry DEF Reading
  <1>3. n \in Seq(Name) /\ InOutput(n) \in DOMAIN disk
    BY <1>1, ArchivedPlace DEF Reading
  <1>4. B!Place(e) = n
    BY DEF B!Place, At
  <1>5. ASSUME n = <<MetaFile>> PROVE FALSE
    <2>1. MetaFile \in Name /\ Front(n) = <<>> /\ Last(n) = MetaFile
      <3>1. n[1] = MetaFile /\ Len(n) = 1 /\ n # <<>>
        BY <1>5
      <3>2. Front(n) \in Seq(Name) /\ Len(n) = Len(Front(n)) + 1
            /\ n[1] = (IF Front(n) = <<>> THEN Last(n) ELSE Front(n)[1]) /\ Last(n) \in Name
        BY <1>3, <3>1, FrontPath
      <3>3. Front(n) = <<>>
        <4> DEFINE f == Front(n)
        <4>1. f \in Seq(Name) /\ 1 = Len(f) + 1
          BY <3>1, <3>2
        <4> HIDE DEF f
        <4>2. f = <<>>
          BY <4>1, EmptySeq, LenProperties
        <4> QED BY <4>2 DEF f
      <3> QED BY <3>1, <3>2, <3>3
    <2>2. InOutput(<<>>) = <<Out>>
      BY DEF InOutput
    <2>3. InOutput(n) \in Built /\ Front(InOutput(n)) = <<Out>> /\ Last(InOutput(n)) = MetaFile
      BY <1>3, <2>1, <2>2, InOutputIs DEF Built
    <2> QED BY <2>3 DEF FreeInv, Top
  <1> QED BY <1>2, <1>4, <1>5 DEF B!Named

\* A link that artifact keeps passes validateSymlink.
LEMMA KeptLink ==
    ASSUME Archived, FromInv, Anchored(disk), NEW p \in Seq(Name), p # <<>>, InOutput(p) \in DOMAIN disk,
           disk[InOutput(p)].t = "link"
    PROVE  /\ InSource(p) \in DOMAIN disk /\ disk[InSource(p)] = disk[InOutput(p)]
           /\ ~disk[InOutput(p)].abs /\ ~B!Escapes(p, disk[InOutput(p)].to)
           /\ Resolves(Own(disk), p)
  <1> DEFINE s == InSource(p)
             o == InOutput(p)
  <1>1. o \in Built /\ Tail(o) = p
    BY InOutputIs DEF Built
  <1>2. NodeFrom(disk, o, disk[o])
    BY <1>1 DEF FromInv
  <1>3. s \in DOMAIN disk /\ disk[s] = disk[o] /\ Keeps(disk, s) /\ disk[s].t = "link"
    BY <1>1, <1>2 DEF NodeFrom
  <1>4. s \in Seq(Name) /\ s # <<>> /\ s[1] = Source /\ s[1] # Out /\ Tail(s) = p
    BY SourceIs, ArtifactAssumption
  <1>5. Resolves(disk, s) /\ Eval(disk, s).at[1] = Source
    <2>1. s \in Seq(Up)
      BY <1>4 DEF Up
    <2>2. Eval(disk, s).at \in Seq(Name)
      BY <2>1, EvalPlace DEF Archived, Places
    <2> QED BY <1>3, <2>2, SourceIs DEF Keeps
  <1> HIDE DEF s, o
  <1>6. ~disk[s].abs /\ ~B!Escapes(Tail(s), disk[s].to) /\ Resolves(Own(disk), Tail(s))
    <2>1. ~disk[s].abs
      BY <1>3 DEF Keeps
    <2> QED BY <1>3, <1>4, <1>5, <2>1 DEF Anchored
  <1> QED BY <1>3, <1>4, <1>6 DEF s, o

LEMMA NextFits ==
    ASSUME Reading, FromInv, FreeInv, Usual, read < Len(tar), tar[read + 1].name # <<Package>>
    PROVE  B!Unpacks(tar[read + 1])
  <1> DEFINE e == tar[read + 1]
             n == At(e)
             f == Front(n)
  <1>1. read + 1 \in 1..Len(tar)
    BY LenProperties DEF Reading, ReadInv, Archived, TarOK
  <1>2. n # <<>>
    BY <1>1, ArchivedNames DEF Reading
  <1>3. n \in Seq(Name) /\ n \notin DOMAIN pkg /\ f \in Seq(Name) /\ Is("dir", pkg, f) /\ IsTree(pkg)
    BY <1>2, NextPlace DEF Reading, PkgInv
  <1>4. InOutput(n) \in DOMAIN disk /\ disk[InOutput(n)] = e.node
    BY <1>1, ArchivedPlace DEF Reading
  <1>5. Len(f) < MaxWalk /\ Len(n) <= MaxWalk
    <2>1. Len(InOutput(n)) <= MaxWalk
      BY <1>4 DEF Usual, Shallow
    <2>2. Len(n) = Len(f) + 1 /\ Len(InOutput(n)) = Len(n) + 1 /\ Len(f) \in Nat /\ Len(n) \in Nat
      BY <1>2, <1>3, FrontPath, InOutputIs, LenProperties
    <2> QED BY <2>1, <2>2, TreeAssumption
  <1>6. B!MkdirAll(pkg, f) = [ok |-> TRUE, tree |-> pkg]
    BY <1>3, <1>5, MkdirAllThere
  <1>7. Resolves(pkg, f) /\ Eval(pkg, f).at = f
    BY <1>3, <1>5, DirResolves
  <1>8. Reaches(pkg, n) /\ Real(pkg, n) = n
    <2>1. n = Append(f, Last(n))
      BY <1>2, <1>3, FrontPath
    <2> QED BY <1>3, <1>7, <2>1 DEF Reaches, Real, Resolves
  <1>9. B!Place(e) = n /\ B!Kind(e) = e.node.t /\ IsNode(e.node)
    BY <1>1, <1>4, ArchivedEntry DEF B!Place, At, Reading
  <1> HIDE DEF n, f, e
  <1>10. B!Fits(e, pkg, n)
    <2>1. CASE e.node.t = "dir"
      <3>1. B!MkdirAll(pkg, n).ok
        BY <1>2, <1>3, <1>5, MkdirAllNew DEF f
      <3> QED BY <1>9, <2>1, <3>1 DEF B!Fits
    <2>2. CASE e.node.t = "file"
      <3>1. B!FileFits(pkg, n)
        BY <1>2, <1>3, SameOperators DEF B!FileFits, Exists
      <3> QED BY <1>9, <2>2, <3>1 DEF B!Fits
    <2>3. CASE e.node.t = "link"
      <3>1. ~e.node.abs /\ ~B!Escapes(n, e.node.to)
        BY <1>2, <1>3, <1>4, <2>3, KeptLink DEF Reading, Usual
      <3>2. B!Entries(pkg, n) = {}
        <4>1. \A q \in DOMAIN pkg : Front(q) # n
          BY <1>2, <1>3, TreeNode DEF Is, Exists
        <4>2. Entries(pkg, n) = {}
          BY <4>1 DEF Entries
        <4> QED BY <4>2, SameOperators
      <3>3. B!LinkFits(e, pkg, n)
        BY <1>9, <3>1, <3>2 DEF B!LinkFits
      <3> QED BY <1>9, <2>3, <3>3 DEF B!Fits
    <2>4. e.node.t \in {"dir", "file", "link"}
      BY <1>4, TreeNode DEF Reading, Archived
    <2> QED BY <2>1, <2>2, <2>3, <2>4
  <1>11. B!Named(e)
    BY <1>2, NextNamed DEF n, e, Usual
  <1>12. /\ B!MkdirAll(pkg, B!Front(B!Place(e))).ok /\ B!MkdirAll(pkg, B!Front(B!Place(e))).tree = pkg
         /\ B!Reaches(pkg, B!Place(e)) /\ B!Real(pkg, B!Place(e)) = n
    <2>1. B!Front(n) = f
      BY DEF B!Front, f, Front
    <2> QED BY <1>6, <1>8, <1>9, <2>1, SameOperators
  <1>13. B!Unpacks(e)
    BY <1>10, <1>11, <1>12, Zenon DEF B!Unpacks
  <1> QED BY <1>13 DEF e

-----------------------------------------------------------------------------
\* All of the archive is unpacked: the package is the output, and its links lead where
\* they did.

Complete == \A p \in Seq(Name) : p # <<>> => /\ p \in DOMAIN pkg <=> InOutput(p) \in DOMAIN disk
                                             /\ p \in DOMAIN pkg => pkg[p] = disk[InOutput(p)]
FileAt(v) == v.at \in DOMAIN pkg /\ pkg[v.at].t = "file"
OnWay == {"walk", "ok"}
Beside(v) == [at |-> InOutput(v.at), rest |-> v.rest, st |-> "walk"]

LEMMA AllRead ==
    ASSUME Reading, read = Len(tar)
    PROVE  Complete
  <1> SUFFICES ASSUME NEW p \in Seq(Name), p # <<>>
               PROVE  /\ p \in DOMAIN pkg <=> InOutput(p) \in DOMAIN disk
                      /\ p \in DOMAIN pkg => pkg[p] = disk[InOutput(p)]
    BY DEF Complete
  <1>1. ASSUME InOutput(p) \in DOMAIN disk PROVE p \in DOMAIN pkg
    <2>1. InOutput(p)[1] = Out
      BY InOutputIs
    <2>2. PICK i \in 1..Len(tar) : Spot(tar[i]) = InOutput(p)
      BY <1>1, <2>1, ArchivedPath DEF Reading
    <2>3. At(tar[i]) = p
      BY <2>2, ArchivedPlace, InOutputIs DEF Reading
    <2>4. Exists(pkg, p)
      BY <2>3 DEF Reading, Unpacked
    <2> QED BY <2>4 DEF Exists
  <1> QED BY <1>1, PackagePart

LEMMA OwnIs ==
    ASSUME NEW tree, IsTree(tree), NEW p \in DOMAIN Own(tree)
    PROVE  Own(tree)[p] = tree[InSource(p)] /\ Original(tree, InSource(p))
  <1> DEFINE R == {r \in DOMAIN tree : IsStrictPrefix(<<Source>>, r) /\ (tree[r].t = "link" => Keeps(tree, r))}
  <1>1. Own(tree) = [q \in {Tail(r) : r \in R} |-> tree[InSource(q)]]
    BY DEF Own
  <1>2. PICK r \in R : p = Tail(r)
    BY <1>1
  <1>3. r \in Seq(Name) /\ IsPrefix(<<Source>>, r)
    BY TreeNode DEF IsStrictPrefix
  <1>4. InSource(p) = r
    BY <1>2, <1>3, SourceIs
  <1>5. Own(tree)[p] = tree[InSource(p)]
    <2> HIDE DEF R
    <2> QED BY <1>1, <1>2
  <1> QED BY <1>4, <1>5 DEF Original

On(a, rest) == [at |-> a, rest |-> rest, st |-> "walk"]
Does(tree, a, rest, s) ==
    LET next == Append(a, Head(rest))
    IN /\ ~Is("dir", tree, a) => s.st = "notdir"
       /\ Is("dir", tree, a) /\ Head(rest) = ".." =>
            IF a = <<>> THEN s.st = "escape" ELSE s = On(Front(a), Tail(rest))
       /\ Is("dir", tree, a) /\ Head(rest) # ".." =>
            /\ next \notin DOMAIN tree => s.st = "absent"
            /\ next \in DOMAIN tree /\ tree[next].t # "link" => s = On(next, Tail(rest))
            /\ next \in DOMAIN tree /\ tree[next].t = "link" /\ ~tree[next].abs =>
                 s = On(a, tree[next].to \o Tail(rest))

LEMMA StepIs ==
    ASSUME NEW tree, NEW a, NEW rest, rest # <<>>
    PROVE  Does(tree, a, rest, Step(tree, On(a, rest)))
  <1> DEFINE w == On(a, rest)
             next == Append(a, Head(rest))
             s == Step(tree, w)
  <1>1. w.at = a /\ w.rest = rest /\ w.st = "walk"
    BY DEF On
  <1>2. \A x : [w EXCEPT !.st = x].st = x
    BY DEF On
  <1>3. ASSUME NEW x, NEW y, NEW z, z = [w EXCEPT !.at = x, !.rest = y] PROVE z = On(x, y)
    BY <1>3 DEF On
  <1>4. ASSUME ~Is("dir", tree, a) PROVE s = [w EXCEPT !.st = "notdir"]
    <2> HIDE DEF w
    <2> QED BY <1>1, <1>4, Zenon DEF Step
  <1>5. ASSUME Is("dir", tree, a), Head(rest) = "..", a = <<>> PROVE s = [w EXCEPT !.st = "escape"]
    <2> HIDE DEF w
    <2> QED BY <1>1, <1>5, Zenon DEF Step
  <1>6. ASSUME Is("dir", tree, a), Head(rest) = "..", a # <<>>
        PROVE  s = [w EXCEPT !.at = Front(a), !.rest = Tail(rest)]
    <2> HIDE DEF w
    <2> QED BY <1>1, <1>6, Zenon DEF Step
  <1>7. ASSUME Is("dir", tree, a), Head(rest) # "..", next \notin DOMAIN tree PROVE s = [w EXCEPT !.st = "absent"]
    <2> HIDE DEF w
    <2> QED BY <1>1, <1>7, Zenon DEF Step
  <1>8. ASSUME Is("dir", tree, a), Head(rest) # "..", next \in DOMAIN tree, tree[next].t # "link"
        PROVE  s = [w EXCEPT !.at = next, !.rest = Tail(rest)]
    <2> HIDE DEF w
    <2> QED BY <1>1, <1>8, Zenon DEF Step
  <1>9. ASSUME Is("dir", tree, a), Head(rest) # "..", next \in DOMAIN tree, tree[next].t = "link", ~tree[next].abs
        PROVE  s = [w EXCEPT !.at = a, !.rest = tree[next].to \o Tail(rest)]
    <2>1. s = [w EXCEPT !.at = IF tree[next].abs THEN <<>> ELSE @, !.rest = tree[next].to \o Tail(rest)]
      <3> HIDE DEF w
      <3> QED BY <1>1, <1>9, Zenon DEF Step
    <2>2. (IF tree[next].abs THEN <<>> ELSE w.at) = a
      BY <1>1, <1>9
    <2> HIDE DEF next
    <2> QED BY <2>1, <2>2
  <1> HIDE DEF w, next
  <1>10. \A x : s = [w EXCEPT !.st = x] => s.st = x
    BY <1>2
  <1> HIDE DEF s
  <1> QED BY <1>3, <1>4, <1>5, <1>6, <1>7, <1>8, <1>9, <1>10, Zenon DEF s, w, next, Does

LEMMA DirInOut ==
    ASSUME Complete, Archived, NEW p \in Seq(Name)
    PROVE  Is("dir", pkg, p) <=> Is("dir", disk, InOutput(p))
  <1>1. InOutput(p) # <<>>
    BY InOutputIs
  <1>2. CASE p = <<>>
    <2>1. InOutput(p) = <<Out>>
      BY <1>2 DEF InOutput
    <2>2. <<Out>> \in DOMAIN disk /\ disk[<<Out>>] = Dir /\ <<Out>> # <<>>
      BY DEF Archived, OutInv
    <2> QED BY <1>2, <2>1, <2>2 DEF Is, Exists, Node, Dir
  <1>3. CASE p # <<>>
    BY <1>1, <1>3 DEF Is, Exists, Node, Complete
  <1> QED BY <1>2, <1>3

\* Three walks from a link: in the package, in the output, and in the package's own part
\* of the store, which may end where the others come to a file.
LEMMA StepAlike ==
    ASSUME Complete, Archived, IsTree(pkg), FromInv, Anchored(disk),
           NEW v \in State(pkg), v.st = "walk", v.rest # <<>>,
           Step(disk, Beside(v)).st \in OnWay,
           FileAt(v) \/ Step(Own(disk), v).st \in OnWay
    PROVE  /\ Step(pkg, v).st = "walk"
           /\ Step(disk, Beside(v)) = Beside(Step(pkg, v))
           /\ Step(pkg, v) = Step(Own(disk), v) \/ FileAt(Step(pkg, v))
  <1> DEFINE a == v.at
             rest == v.rest
             o == InOutput(a)
             next == Append(a, Head(rest))
             Goal(s, t, u) == s.st = "walk" /\ t = Beside(s) /\ (s = u \/ FileAt(s))
  <1> SUFFICES Goal(Step(pkg, v), Step(disk, Beside(v)), Step(Own(disk), v))
    OBVIOUS
  <1>1. a \in Seq(Name) /\ rest \in Seq(Up) /\ a \in Places(pkg) /\ rest # <<>>
    BY DEF State, Places
  <1>2. v = On(a, rest) /\ Beside(v) = On(o, rest)
    BY DEF State, Beside, On
  <1>3. o \in Seq(Name) /\ o # <<>>
    BY <1>1, InOutputIs
  <1>4. Head(rest) \in Up /\ Tail(rest) \in Seq(Up)
    BY <1>1, HeadTailPath
  <1>5. \A b, r : Beside(On(b, r)) = On(InOutput(b), r) /\ On(b, r).st = "walk" /\ On(b, r).at = b
    BY DEF Beside, On
  <1>6. "notdir" \notin OnWay /\ "escape" \notin OnWay /\ "absent" \notin OnWay
    BY DEF OnWay
  <1>0. /\ Does(pkg, a, rest, Step(pkg, v))
        /\ Does(disk, o, rest, Step(disk, Beside(v)))
        /\ Does(Own(disk), a, rest, Step(Own(disk), v))
    <2> HIDE DEF a, rest, o
    <2> QED BY <1>1, <1>2, StepIs
  <1>7. Is("dir", disk, o)
    BY <1>0, <1>6 DEF Does
  <1>8. Is("dir", pkg, a)
    BY <1>1, <1>7, DirInOut
  <1>9. ~FileAt(v)
    <2>1. a \in DOMAIN pkg => a # <<>>
      BY TreeNode
    <2> QED BY <1>8, <2>1 DEF FileAt, Is, Node
  <1>10. Step(Own(disk), v).st \in OnWay /\ Is("dir", Own(disk), a)
    BY <1>0, <1>6, <1>9 DEF Does
  <1>11. CASE Head(rest) = ".."
    <2>1. a # <<>>
      BY <1>0, <1>6, <1>10, <1>11 DEF Does
    <2>2. /\ Step(pkg, v) = On(Front(a), Tail(rest))
          /\ Step(disk, Beside(v)) = On(Front(o), Tail(rest))
          /\ Step(Own(disk), v) = On(Front(a), Tail(rest))
      BY <1>0, <1>3, <1>7, <1>8, <1>10, <1>11, <2>1 DEF Does
    <2>3. Front(o) = InOutput(Front(a))
      BY <1>1, <2>1, InOutputIs
    <2> HIDE DEF o
    <2> QED BY <1>5, <2>2, <2>3
  <1>12. CASE Head(rest) # ".."
    <2>1. next \in Seq(Name) /\ next # <<>> /\ Head(rest) \in Name
      BY <1>1, <1>4, <1>12, AppendPath DEF Up
    <2>2. Append(o, Head(rest)) = InOutput(next)
      <3>1. next # <<>> /\ Front(next) = a /\ Last(next) = Head(rest)
        BY <1>1, <2>1, AppendPath
      <3> HIDE DEF next
      <3>2. InOutput(next) # <<>> /\ InOutput(next) \in Seq(Name) /\ Front(InOutput(next)) = o /\ Last(InOutput(next)) = Head(rest)
        BY <2>1, <3>1, InOutputIs
      <3> QED BY <3>2, FrontPath
    <2> DEFINE n == InOutput(next)
    <2>3. n \in DOMAIN disk /\ next \in DOMAIN Own(disk)
      BY <1>0, <1>6, <1>7, <1>10, <1>12, <2>2 DEF Does
    <2>4. next \in DOMAIN pkg /\ pkg[next] = disk[n]
      BY <2>1, <2>3 DEF Complete
    <2> HIDE DEF next
    <2>5. NodeFrom(disk, n, disk[n]) /\ Tail(n) = next
      <3>1. n \in Built /\ Tail(n) = next
        BY <2>1, <2>3, InOutputIs DEF Built
      <3> QED BY <3>1 DEF FromInv
    <2>6. Own(disk)[next] = disk[InSource(next)] /\ Original(disk, InSource(next))
      BY <2>3, OwnIs DEF Archived
    <2>7. disk[n].t = "file" \/ disk[n] = Own(disk)[next]
      BY <2>5, <2>6 DEF NodeFrom
    <2>8. /\ pkg[next].t # "link" => /\ Step(pkg, v) = On(next, Tail(rest))
                                     /\ Step(disk, Beside(v)) = On(n, Tail(rest))
          /\ pkg[next].t # "link" /\ Own(disk)[next].t # "link" => Step(Own(disk), v) = On(next, Tail(rest))
      BY <1>0, <1>7, <1>8, <1>10, <1>12, <2>2, <2>3, <2>4 DEF next, Does
    <2>9. CASE pkg[next].t = "file"
      <3>1. FileAt(On(next, Tail(rest)))
        BY <2>4, <2>9, <1>5 DEF FileAt
      <3> HIDE DEF o
      <3> QED BY <1>5, <2>8, <2>9, <3>1
    <2>10. CASE pkg[next].t = "dir"
      <3>1. Own(disk)[next].t # "link"
        BY <2>4, <2>7, <2>10
      <3> HIDE DEF o
      <3> QED BY <1>5, <2>8, <2>10, <3>1
    <2>11. CASE pkg[next].t = "link"
      <3> DEFINE to == pkg[next].to \o Tail(rest)
      <3>1. ~pkg[next].abs /\ Own(disk)[next] = pkg[next] /\ disk[n] = pkg[next]
        BY <2>1, <2>3, <2>4, <2>7, <2>11, KeptLink
      <3>2. /\ Step(pkg, v) = On(a, to)
            /\ Step(disk, Beside(v)) = On(o, to)
            /\ Step(Own(disk), v) = On(a, to)
        BY <1>0, <1>7, <1>8, <1>10, <1>12, <2>2, <2>3, <2>4, <2>11, <3>1 DEF next, Does
      <3> HIDE DEF o
      <3> QED BY <1>5, <3>2 DEF o
    <2>12. pkg[next].t \in {"file", "dir", "link"}
      BY <2>4, TreeNode
    <2> QED BY <2>9, <2>10, <2>11, <2>12
  <1> QED BY <1>11, <1>12

LEMMA OnTheWay ==
    ASSUME NEW tree, NEW p, NEW w, IsWalk(tree, p, w), Resolves(tree, p)
    PROVE  /\ \A i \in 0..MaxWalk : w[i].st \in OnWay
           /\ w[MaxWalk].st = "ok"
  <1>1. ASSUME NEW i \in 0..MaxWalk, w[i].st # "walk" PROVE w[i].st = "ok"
    BY <1>1, Stays DEF Resolves
  <1>2. MaxWalk \in 0..MaxWalk
    BY TreeAssumption
  <1>3. Eval(tree, p) = Ends(w)
    BY EvalOf
  <1>4. w[MaxWalk].st # "walk"
    BY <1>3 DEF Resolves, Ends
  <1> QED BY <1>1, <1>2, <1>4 DEF OnWay

LEMMA FirstStep ==
    ASSUME Archived, NEW p \in Seq(Name), NEW w, IsWalk(disk, InOutput(p), w), 1 \in 0..MaxWalk
    PROVE  w[1] = On(InOutput(<<>>), p)
  <1> DEFINE o == InOutput(p)
             r == <<Out>>
  <1>1. o # <<>> /\ o \in Seq(Name) /\ Head(o) = Out /\ Tail(o) = p
    BY InOutputIs, HeadTailPath
  <1>2. w[0] = On(<<>>, o)
    BY DEF IsWalk, Start, On
  <1>3. w[1] = Step(disk, w[0])
    <2>1. 0 \in 0..MaxWalk /\ 0 < MaxWalk /\ 0 + 1 = 1
      BY TreeAssumption
    <2> HIDE DEF o
    <2> QED BY <2>1, NextStep DEF o
  <1>4. Append(<<>>, Out) = r /\ InOutput(<<>>) = r /\ r \in DOMAIN disk /\ disk[r].t # "link"
    BY DEF InOutput, Archived, OutInv, Dir
  <1>5. Is("dir", disk, <<>>) /\ Out # ".."
    BY TreeAssumption, ArtifactAssumption DEF Is, Exists, Node, Dir
  <1> HIDE DEF o, r
  <1>6. Does(disk, <<>>, o, w[1])
    BY <1>1, <1>2, <1>3, StepIs
  <1> QED BY <1>1, <1>4, <1>5, <1>6 DEF Does

LEMMA LinkHolds ==
    ASSUME Complete, Archived, IsTree(pkg), FromInv, Anchored(disk),
           NEW l \in DOMAIN pkg, pkg[l].t = "link", Resolves(disk, InOutput(l))
    PROVE  Resolves(pkg, l)
  <1>0. l \in Seq(Name) /\ l # <<>> /\ l \in Seq(Up)
    BY TreeNode DEF Up
  <1>1. Resolves(Own(disk), l)
    BY <1>0, KeptLink DEF Complete
  <1>2. PICK v : IsWalk(pkg, l, v) /\ Eval(pkg, l) = Ends(v)
    BY EvalIs
  <1>3. PICK w : IsWalk(disk, InOutput(l), w)
    BY EvalIs
  <1>4. PICK u : IsWalk(Own(disk), l, u)
    BY EvalIs
  <1>5. /\ \A i \in 0..MaxWalk : w[i].st \in OnWay /\ u[i].st \in OnWay /\ v[i] \in State(pkg)
        /\ w[MaxWalk].st = "ok"
    BY <1>0, <1>1, <1>2, <1>3, <1>4, OnTheWay, WalkState
  <1>6. MaxWalk \in Nat /\ MaxWalk # 0
    <2>1. w[0].st = "walk"
      BY <1>3 DEF IsWalk, Start
    <2> QED BY <1>5, <2>1, TreeAssumption
  <1> DEFINE m == MaxWalk - 1
             Near(i) == v[i].st = "walk" /\ w[i + 1] = Beside(v[i]) /\ (v[i] = u[i] \/ FileAt(v[i]))
             I == {i \in 0..m : v[i].st = "ok" \/ Near(i)}
  <1>7. m \in Nat /\ m \in 0..MaxWalk /\ m + 1 = MaxWalk
    BY <1>6
  <1>8. 0 \in I
    <2>1. 0 \in 0..m /\ 1 \in 0..MaxWalk /\ 0 + 1 = 1
      BY <1>7
    <2>2. v[0] = On(<<>>, l) /\ u[0] = v[0]
      BY <1>2, <1>4 DEF IsWalk, Start, On
    <2>3. w[1] = On(InOutput(<<>>), l)
      BY <1>0, <1>3, <2>1, FirstStep
    <2>4. v[0].st = "walk" /\ Beside(v[0]) = On(InOutput(<<>>), l)
      BY <2>2 DEF Beside, On
    <2> QED BY <2>1, <2>2, <2>3, <2>4
  <1>9. ASSUME NEW i \in 0..m, i \in I, i < m PROVE i + 1 \in I
    <2> DEFINE k == i + 1
    <2>1. k \in 0..m /\ i \in 0..MaxWalk /\ i < MaxWalk /\ k \in 0..MaxWalk /\ k < MaxWalk /\ k + 1 \in 0..MaxWalk
      BY <1>7, <1>9
    <2>2. v[k] = Step(pkg, v[i]) /\ u[k] = Step(Own(disk), u[i]) /\ w[k + 1] = Step(disk, w[k])
      BY <1>2, <1>3, <1>4, <2>1, NextStep
    <2>3. CASE v[i].st = "ok"
      <3>1. Step(pkg, v[i]) = v[i]
        BY <2>3, Zenon DEF Step
      <3>2. v[k].st = "ok"
        BY <2>2, <2>3, <3>1
      <3> QED BY <2>1, <3>2
    <2>4. CASE Near(i)
      <3> DEFINE x == v[i]
      <3>1. x \in State(pkg) /\ x.st = "walk" /\ w[k] = Beside(x) /\ (x = u[i] \/ FileAt(x))
        BY <1>5, <2>1, <2>4
      <3>2. w[k + 1].st \in OnWay /\ u[k].st \in OnWay
        BY <1>5, <2>1
      <3> HIDE DEF k, x
      <3>3. CASE x.rest = <<>>
        <4>1. Step(pkg, x) = [x EXCEPT !.st = "ok"]
          BY <3>1, <3>3, Zenon DEF Step
        <4>2. [x EXCEPT !.st = "ok"].st = "ok"
          BY <3>1 DEF State
        <4>3. v[k].st = "ok"
          BY <2>2, <4>1, <4>2 DEF x
        <4> QED BY <2>1, <4>3 DEF k
      <3>4. CASE x.rest # <<>>
        <4>1. Step(disk, Beside(x)).st \in OnWay /\ (FileAt(x) \/ Step(Own(disk), x).st \in OnWay)
          BY <2>2, <3>1, <3>2
        <4>2. /\ Step(pkg, x).st = "walk"
              /\ Step(disk, Beside(x)) = Beside(Step(pkg, x))
              /\ Step(pkg, x) = Step(Own(disk), x) \/ FileAt(Step(pkg, x))
          BY <3>1, <3>4, <4>1, StepAlike
        <4>3. v[k] = Step(pkg, x) /\ w[k + 1] = Step(disk, Beside(x))
          BY <2>2, <3>1 DEF x
        <4>4. v[k] = u[k] \/ FileAt(v[k])
          <5>1. CASE x = u[i]
            BY <2>2, <4>2, <4>3, <5>1
          <5>2. CASE FileAt(x)
            <6>1. ~Is("dir", pkg, x.at)
              <7>1. x.at # <<>>
                BY <5>2, TreeNode DEF FileAt
              <7> QED BY <5>2, <7>1 DEF FileAt, Is, Node
            <6>2. x = On(x.at, x.rest)
              BY <3>1 DEF State, On
            <6>3. Does(pkg, x.at, x.rest, Step(pkg, x))
              BY <3>4, <6>2, StepIs
            <6>4. Step(pkg, x).st = "notdir"
              BY <6>1, <6>3 DEF Does
            <6> QED BY <4>2, <6>4
          <5> QED BY <3>1, <5>1, <5>2
        <4>5. Near(k)
          BY <4>2, <4>3, <4>4
        <4> QED BY <2>1, <4>5 DEF k
      <3> QED BY <3>3, <3>4
    <2> QED BY <1>9, <2>3, <2>4
  <1> HIDE DEF I
  <1>10. m \in I
    <2>1. \A i \in 0..m : i \in I
      BY <1>7, <1>8, <1>9, InductionTo
    <2>2. m \in 0..m
      BY <1>7
    <2> QED BY <2>1, <2>2
  <1>11. v[m].st = "ok"
    <2>1. ASSUME Near(m) PROVE FALSE
      <3>1. w[MaxWalk] = Beside(v[m])
        BY <1>7, <2>1
      <3> QED BY <1>5, <3>1 DEF Beside
    <2> QED BY <1>10, <2>1 DEF I
  <1>12. Eval(pkg, l).st = "ok"
    <2> HIDE DEF m
    <2>1. Eval(pkg, l) = [st |-> v[m].st, at |-> v[m].at]
      BY <1>2, <1>7, <1>11, Stays
    <2> QED BY <1>11, <2>1
  <1> QED BY <1>12 DEF Resolves

\* bm finds no broken link in it.
LEMMA NoneBroken ==
    ASSUME Reading, read = Len(tar), FromInv, LinkInv, Anchored(disk)
    PROVE  B!Broken = {}
  <1> SUFFICES ASSUME NEW l \in DOMAIN pkg, pkg[l].t = "link" PROVE Resolves(pkg, l)
    BY SameOperators DEF B!Broken
  <1>1. Complete /\ IsTree(pkg) /\ Archived
    BY AllRead DEF Reading, PkgInv
  <1>2. l \in Seq(Name) /\ l # <<>>
    BY <1>1, TreeNode
  <1>3. InOutput(l) \in DOMAIN disk /\ disk[InOutput(l)].t = "link"
    BY <1>1, <1>2 DEF Complete
  <1>4. InOutput(l) \in Built
    BY <1>2, <1>3, InOutputIs DEF Built
  <1>5. Resolves(disk, InOutput(l))
    BY <1>3, <1>4 DEF LinkInv, Reading, Archived
  <1> QED BY <1>1, <1>5, LinkHolds

LEMMA NotRefusedStep ==
    ASSUME Inv, StoreInv, VerbatimInv, FromInv, FreeInv, ArchiveInv, NeverRefused, [DNext]_all
    PROVE  NeverRefused'
  <1> SUFFICES ASSUME bm' = "refused", disk' # <<>>, Usual' PROVE FALSE
    BY DEF NeverRefused, FromStore, Usual, Anchored, Linkless, Under, Unreserved, Shallow, Resolves, Own, Keeps, Entries
  <1>1. CASE Build
    <2>1. pass # "done" /\ bm' = bm
      BY <1>1, NotDone DEF Build, extraction
    <2> QED BY <2>1 DEF VerbatimInv
  <1>2. CASE bm' = bm /\ disk' = disk
    <2>1. Usual
      BY <1>2 DEF Usual, Anchored, Linkless, Under, Unreserved, Shallow, Resolves, Own, Keeps, Entries
    <2> QED BY <1>2, <2>1 DEF NeverRefused, FromStore, Usual
  <1>3. CASE pass = "done" /\ B!Extract /\ UNCHANGED vars
    <2>1. disk' = disk /\ disk # <<>> /\ bm = "reading"
      BY <1>3 DEF vars, B!Extract
    <2>2. Usual
      BY <2>1 DEF Usual, Anchored, Linkless, Under, Unreserved, Shallow, Resolves, Own, Keeps, Entries
    <2>3. Archived /\ LinkInv
      BY <1>3, <2>1 DEF Archived, Inv, BuildInv, DiskInv, StoreInv
    <2>4. Reading
      BY <2>1, <2>3, ArchivedSimple DEF Reading, Inv, VerbatimInv
    <2>5. ASSUME read < Len(tar), B!Refuse(tar[read + 1]) PROVE FALSE
      BY <2>2, <2>4, <2>5, NextFits DEF B!Refuse
    <2>6. ASSUME B!Finish PROVE FALSE
      <3>1. read = Len(tar) /\ bm' = IF B!Broken = {} THEN "accepted" ELSE "refused"
        BY <2>6 DEF B!Finish
      <3>2. B!Broken = {}
        BY <2>2, <2>3, <2>4, <3>1, NoneBroken DEF Usual
      <3> QED BY <3>1, <3>2
    <2>7. ASSUME B!SkipRoot(tar[read + 1]) PROVE bm' = bm
      BY <2>7 DEF B!SkipRoot, B!Took
    <2>8. ASSUME B!Unpack(tar[read + 1]) PROVE bm' = bm
      BY <2>8, UnpackFrame
    <2> QED BY <1>3, <2>1, <2>5, <2>6, <2>7, <2>8 DEF B!Extract
  <1> QED BY <1>1, <1>2, <1>3 DEF DNext, Install, all

\* bm takes the archive that artifact makes of a package, if the package is Anchored,
\* Unreserved and Shallow; of others NeverRefused says nothing.
THEOREM OwnArchivesAreTaken == DSpec => []NeverRefused
  <1> DEFINE I == Inv /\ StoreInv /\ VerbatimInv /\ FromInv /\ FreeInv /\ ArchiveInv /\ NeverRefused
  <1>1. DInit => I
    <2> SUFFICES ASSUME DInit PROVE I
      OBVIOUS
    <2>1. VerbatimInv /\ NeverRefused
      BY NothingUnpacked DEF DInit, B!ExtractInit, VerbatimInv, NeverRefused
    <2> QED BY <2>1, DInitInv, StoreInit, FromInit, FreeInit, ArchiveInit
  <1>2. I /\ [DNext]_all => I'
    <2> SUFFICES ASSUME I, [DNext]_all PROVE I'
      OBVIOUS
    <2>1. Inv' /\ VerbatimInv' /\ NeverRefused'
      BY DNextInv, VerbatimStep, NotRefusedStep
    <2>2. CASE Build
      <3>1. Next /\ BuildInv
        BY <2>2 DEF Build, Inv
      <3> QED BY <2>1, <3>1, StoreStep, FromStep, FreeStep, ArchiveStep
    <2>3. CASE UNCHANGED vars
      <3>1. disk' = disk /\ pass' = pass /\ todo' = todo /\ tar' = tar
        BY <2>3 DEF vars
      <3>2. StoreInv'
        BY <3>1 DEF StoreInv, StoreOK, Stored, Resolves, OutInv
      <3>3. FromInv'
        <4>1. Anchored(disk)' => Anchored(disk)
          BY <3>1 DEF Anchored, Linkless, Under, Resolves, Own, Keeps
        <4>2. /\ \A j : JobFrom(disk, j) => JobFrom(disk, j)'
              /\ \A p \in Built : NodeFrom(disk, p, disk[p]) => NodeFrom(disk, p, disk[p])'
              /\ Built' = Built
          BY <3>1 DEF JobFrom, NodeFrom, Linkless, Under, Original, Keeps, Resolves, Built
        <4>3. ASSUME Anchored(disk)'
              PROVE  /\ pass' = "copy" => \A j \in todo' : JobFrom(disk, j)'
                     /\ \A p \in Built' : NodeFrom(disk, p, disk[p])'
          <5>1. /\ pass = "copy" => \A j \in todo : JobFrom(disk, j)
                /\ \A p \in Built : NodeFrom(disk, p, disk[p])
            BY <4>1, <4>3 DEF FromInv
          <5> QED BY <3>1, <4>2, <5>1
        <4> QED BY <4>3 DEF FromInv
      <3>4. FreeInv'
        BY <3>1 DEF FreeInv, Unreserved, Entries, Built
      <3>5. ArchiveInv'
        BY <3>1 DEF ArchiveInv, Listed
      <3> QED BY <2>1, <3>2, <3>3, <3>4, <3>5
    <2> QED BY <2>2, <2>3 DEF DNext, Install, all, vars
  <1>3. I => NeverRefused
    OBVIOUS
  <1> HIDE DEF I
  <1> QED BY <1>1, <1>2, <1>3, PTL DEF DSpec
=============================================================================
