----------------------------- MODULE BinmanPlan ------------------------------
(***************************************************************************)
(* From the YAML file and the arguments of `bm install` to the plan that is *)
(* installed: the command line (main.go) appends its group to those of the *)
(* file, and plan (manifest.go) goes through the groups and merges what is *)
(* said twice.                                                             *)
(***************************************************************************)
EXTENDS Integers, SequencesExt

CONSTANTS Manifests,   \* what the YAML file may hold: sequences of groups
          Args,        \* the packages that may be named as arguments
          LinkFlag,    \* the values of --link-to, "" for --no-link
          Valid,       \* names of packages that validatePackageName accepts
          Clean        \* cleanLinkTo of each value: a root, "" or "error"

ASSUME PlanAssumption ==
    /\ \A f \in Manifests : /\ f \in Seq(ToSet(f))
                            /\ \A g \in ToSet(f) : g.packages \in Seq(ToSet(g.packages))
    /\ \A a \in Args : a \in Seq(ToSet(a))

VARIABLES groups,    \* config.Installs
          appended,  \* the last group is that of the command line
          at,        \* <<group, package>>: where plan is
          plan,      \* the packages and link operations so far
          status     \* "planning", "planned" or "refused"

planVars == <<groups, appended, at, plan, status>>

Group(packages, linkTo) == [packages |-> packages, linkTo |-> linkTo]
Op(p, r) == [pkg |-> p, root |-> r]
Packages == (UNION {ToSet(g.packages) : g \in UNION {ToSet(f) : f \in Manifests}})
              \cup (UNION {ToSet(a) : a \in Args})

\* install's RunE; without arguments there is no group of the command line.
PlanInit == \E file \in Manifests, args \in Args, link \in LinkFlag :
          /\ groups = IF args = <<>> THEN file ELSE Append(file, Group(args, link))
          /\ appended = (args # <<>>)
          /\ at = <<1, 0>>
          /\ plan = [packages |-> <<>>, links |-> <<>>, linkTo |-> [p \in Packages |-> <<>>]]
          /\ status = "planning"

This == groups[at[1]]
Target == Clean[This.linkTo]

RefusePlan == status' = "refused" /\ UNCHANGED <<groups, appended, at, plan>>

\* A group without packages, or with a target that is not below the prefix.
BeginGroup ==
    /\ status = "planning" /\ at[1] <= Len(groups) /\ at[2] = 0
    /\ \/ (This.packages = <<>> \/ Target = "error") /\ RefusePlan
       \/ This.packages # <<>> /\ Target # "error"
          /\ at' = <<at[1], 1>> /\ UNCHANGED <<groups, appended, plan, status>>

Seen(op) == op \in ToSet(plan.links)

\* Mutant: a package that was seen is done with.
TakePackageOnce ==
    LET p == This.packages[at[2]]
        op == Op(p, Target)
        first == p \notin ToSet(plan.packages)
    IN  /\ p \in Valid
        /\ plan' = [plan EXCEPT
             !.packages = IF first THEN Append(@, p) ELSE @,
             !.links = IF Target = "" \/ ~first THEN @ ELSE Append(@, op),
             !.linkTo[p] = IF Target = "" \/ ~first THEN @ ELSE Append(@, Target)]
TakePackage ==
    LET p == This.packages[at[2]]
        op == Op(p, Target)
    IN  /\ p \in Valid
        /\ plan' = [plan EXCEPT
             !.packages = IF p \in ToSet(@) THEN @ ELSE Append(@, p),
             !.links = IF Target = "" \/ Seen(op) THEN @ ELSE Append(@, op),
             !.linkTo[p] = IF Target = "" \/ Seen(op) THEN @ ELSE Append(@, Target)]

NextPackage ==
    /\ status = "planning" /\ at[1] <= Len(groups) /\ at[2] > 0
    /\ \/ This.packages[at[2]] \notin Valid /\ RefusePlan
       \/ /\ TakePackage
          /\ at' = IF at[2] < Len(This.packages) THEN <<at[1], at[2] + 1>> ELSE <<at[1] + 1, 0>>
          /\ UNCHANGED <<groups, appended, status>>

EndPlan ==
    /\ status = "planning" /\ at[1] > Len(groups)
    /\ \/ plan.packages = <<>> /\ RefusePlan
       \/ plan.packages # <<>>
          /\ status' = "planned" /\ UNCHANGED <<groups, appended, at, plan>>

PlanNext == BeginGroup \/ NextPackage \/ EndPlan
PlanSpec == PlanInit /\ [][PlanNext]_planVars

-----------------------------------------------------------------------------
\* Where the groups ask for something, in the order in which plan reads them.
Mentions == UNION {{<<i, j>> : j \in DOMAIN groups[i].packages} : i \in DOMAIN groups}
Earlier(m, n) == m[1] < n[1] \/ (m[1] = n[1] /\ m[2] < n[2])
Asked(m) == Op(groups[m[1]].packages[m[2]], Clean[groups[m[1]].linkTo])

\* s lists what is asked for, once, in the order in which it was first asked.
Lists(s, asked) ==
    /\ \A i, j \in DOMAIN s : s[i] = s[j] => i = j
    /\ ToSet(s) = {asked[m] : m \in DOMAIN asked}
    /\ \A i, j \in DOMAIN s : i < j =>
          \E m \in DOMAIN asked : /\ asked[m] = s[i]
                                  /\ \A n \in DOMAIN asked : asked[n] = s[j] => Earlier(m, n)

\* What the mentions M ask for: packages, operations, targets of p.
PackagesOf(M) == [m \in M |-> Asked(m).pkg]
LinksOf(M) == [m \in {n \in M : Asked(n).root # ""} |-> Asked(m)]
TargetsOf(M, p) == [m \in {n \in M : Asked(n).root # "" /\ Asked(n).pkg = p} |-> Asked(m).root]

PlanOf(M) == /\ Lists(plan.packages, PackagesOf(M))
             /\ Lists(plan.links, LinksOf(M))
             /\ \A p \in Packages : Lists(plan.linkTo[p], TargetsOf(M, p))

(* A plan has every package and every link operation once, in the order in  *)
(* which they were first asked for - however often and in whatever spelling *)
(* they are repeated - and so do the targets of each package: the two       *)
(* tables that commitInstall uses, targets by package (to unlink) and       *)
(* operations (to link), say the same.                                      *)
Faithful == status = "planned" => PlanOf(Mentions)

(* "CLI packages ... are executed last when files conflict" (USAGE.md): the *)
(* last operation of a plan wins, so an operation that the command line    *)
(* asks for must come after those that only the file asks for.             *)
CommandLine == {Op(p, Clean[groups[Len(groups)].linkTo]) : p \in ToSet(groups[Len(groups)].packages)}
CommandLineLast ==
    status = "planned" /\ appended =>
      \A i, j \in DOMAIN plan.links :
         plan.links[i] \in CommandLine /\ plan.links[j] \notin CommandLine => i > j
=============================================================================
