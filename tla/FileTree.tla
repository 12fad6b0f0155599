------------------------------ MODULE FileTree ------------------------------
(***************************************************************************)
(* File trees as cmd/artifact and cmd/binman see them: directories,        *)
(* regular files and symbolic links, and the resolution of a path through  *)
(* links.  A path is a sequence of names; a tree maps the paths that exist *)
(* to their nodes, and the root <<>> is a directory that is always there.  *)
(***************************************************************************)
EXTENDS Integers, SequencesExt

CONSTANTS Name,     \* names of directory entries, ".." not among them
          Rank,     \* [Name -> Nat]: their byte order, in which directories are read
          MaxWalk   \* bound: components walked before a resolution is a loop

ASSUME TreeAssumption == /\ ".." \notin Name
                         /\ Rank \in [Name -> Nat]
                         /\ \A m, n \in Name : Rank[m] = Rank[n] => m = n
                         /\ MaxWalk \in Nat

\* Op n times, beginning with s.  (A set of one element is evaluated once.)
Iterate(Op(_, _), s, n) ==
    LET result[i \in 0..n] == IF i = 0 THEN {s} ELSE {Op(r, i) : r \in result[i - 1]}
    IN CHOOSE r \in result[n] : TRUE

Dir == [t |-> "dir"]
File(c) == [t |-> "file", c |-> c]
Link(abs, to) == [t |-> "link", abs |-> abs, to |-> to]

IsNode(n) == \/ n = Dir \/ n.t = "file"
             \/ n \in [t : {"link"}, abs : BOOLEAN, to : Seq(Name \cup {".."})]

Exists(tree, p) == p = <<>> \/ p \in DOMAIN tree
Node(tree, p) == IF p = <<>> THEN Dir ELSE tree[p]
Is(type, tree, p) == Exists(tree, p) /\ Node(tree, p).t = type
\* What a file system holds: only directories have entries.
IsTree(tree) == /\ DOMAIN tree \subseteq Seq(Name) \ {<<>>}
                /\ \A p \in DOMAIN tree : IsNode(tree[p]) /\ Is("dir", tree, Front(p))
Under(tree, p) == {q \in DOMAIN tree : IsPrefix(p, q)}
Entries(tree, p) == {q \in DOMAIN tree : Front(q) = p}
Without(tree, P) == [q \in DOMAIN tree \ P |-> tree[q]]
With(tree, p, node) == [q \in DOMAIN tree \cup {p} |-> IF q = p THEN node ELSE tree[q]]

\* filepath.WalkDir: a directory before its entries, entries in byte order.
Before(p, q) ==
    \/ IsStrictPrefix(p, q)
    \/ \E i \in 1..Len(p) : /\ i <= Len(q)
                            /\ SubSeq(p, 1, i - 1) = SubSeq(q, 1, i - 1)
                            /\ p[i] # q[i]
                            /\ Rank[p[i]] < Rank[q[i]]
First(P) == CHOOSE p \in P : \A q \in P : p = q \/ Before(p, q)

-----------------------------------------------------------------------------
\* Resolution.  A walk has reached the real path "at" and has "rest" to go; it
\* ends "ok", "absent", "notdir" (a file where a directory is needed), "escape"
\* (above the root) or "loop".

Step(tree, w) ==
    LET next == Append(w.at, Head(w.rest))
    IN CASE w.st # "walk" -> w
         [] w.st = "walk" /\ w.rest = <<>> -> [w EXCEPT !.st = "ok"]
         [] w.st = "walk" /\ w.rest # <<>> /\ ~Is("dir", tree, w.at) -> [w EXCEPT !.st = "notdir"]
         [] OTHER ->
              IF Head(w.rest) = ".."
              THEN IF w.at = <<>> THEN [w EXCEPT !.st = "escape"]
                   ELSE [w EXCEPT !.at = Front(w.at), !.rest = Tail(w.rest)]
              ELSE IF next \notin DOMAIN tree THEN [w EXCEPT !.st = "absent"]
              ELSE IF tree[next].t # "link" THEN [w EXCEPT !.at = next, !.rest = Tail(w.rest)]
              ELSE [w EXCEPT !.at = IF tree[next].abs THEN <<>> ELSE @,
                             !.rest = tree[next].to \o Tail(w.rest)]

\* filepath.EvalSymlinks, os.Stat: follows every link, the last one included.
Eval(tree, p) ==
    LET end == Iterate(LAMBDA w, i : Step(tree, w),
                       [at |-> <<>>, rest |-> p, st |-> "walk"], MaxWalk)
    IN [st |-> IF end.st = "walk" THEN "loop" ELSE end.st, at |-> end.at]

Resolves(tree, p) == Eval(tree, p).st = "ok"

\* The directory that p is to be in is there.
Reaches(tree, p) == LET dir == Eval(tree, Front(p))
                    IN dir.st = "ok" /\ Is("dir", tree, dir.at)

\* Where a path really is: links are followed in its directory only.
Real(tree, p) == Append(Eval(tree, Front(p)).at, Last(p))

\* path.Clean of a relative path: ".." takes back the name before it.
Clean(p) == Iterate(LAMBDA done, i :
                       IF p[i] = ".." /\ done # <<>> /\ Last(done) # ".."
                       THEN Front(done) ELSE Append(done, p[i]),
                    <<>>, Len(p))
=============================================================================
