--------------------------- MODULE MCBinmanStore ---------------------------
\* The store on a small prefix, in the states in which bm may find it.
EXTENDS BinmanStore, FiniteSets, TLC

op(p, r) == [pkg |-> p, root |-> r]

\* Paths: the roots are the directories p and q.

MCFile == {"tool", "sbin", "sbin/sbin"}
MCRoot == {"p", "q"}
InP == {"p/.", "p/tool", "p/sbin", "p/sbin/sbin"}
InQ == {"q/.", "q/tool", "q/sbin", "q/sbin/sbin"}
MCLoc == {"p", "q"} \union InP \union InQ
MCInner == "p" :> "p/." @@ "q" :> "q/."
MCDest == "p" :> ("tool" :> "p/tool" @@ "sbin" :> "p/sbin" @@ "sbin/sbin" :> "p/sbin/sbin") @@
          "q" :> ("tool" :> "q/tool" @@ "sbin" :> "q/sbin" @@ "sbin/sbin" :> "q/sbin/sbin")
MCAbove == [l \in MCLoc |-> CASE l = "p/sbin/sbin" -> {"p", "p/sbin"}
                              [] l = "q/sbin/sbin" -> {"q", "q/sbin"}
                              [] l \in InP \ {"p/sbin/sbin"} -> {"p"}
                              [] l \in InQ \ {"q/sbin/sbin"} -> {"q"}
                              [] OTHER -> {}]
MCUp == [l \in MCLoc |-> Cardinality(MCAbove[l])]

\* The symlinks to a path of the prefix are the user's, from q and p/sbin to p.
FromQ == "q/." :> "p/." @@ "q/tool" :> "p/tool" @@ "q/sbin" :> "p/sbin" @@
         "q/sbin/sbin" :> "p/sbin/sbin"
MCMoved == [l \in MCLoc |-> [a \in MCLoc |-> [t \in MCLoc |->
              CASE l \in InQ /\ a = "q" /\ t = "p" -> FromQ[l]
                [] l = "p/sbin/sbin" /\ a = "p/sbin" /\ t = "p" -> "p/sbin"
                [] OTHER -> l]]]

\* sbin is a symlink to a directory in the first layer of "a", which an older bm
\* may have projected, and a directory in that of "b".
MCContent == "a" :> <<{"tool", "sbin"}, {"tool"}>> @@ "b" :> <<{"tool", "sbin/sbin"}, {"tool"}>>
MCLegacy == {op("a", "p")}
MCPlan == {[pkgs |-> {"a", "b"}, ops |-> <<op("a", "p"), op("b", "p")>>],
           [pkgs |-> {"b"}, ops |-> <<op("b", "p"), op("b", "q")>>]}
AstrayPlan == {[pkgs |-> {"b"}, ops |-> <<op("b", "p")>>]}

\* A regular file of the user's at a path of "b", and a symlink to a directory for
\* q; or symlinks of the user's, for q and p/sbin to p, and at p/tool; or one that
\* leads out of the prefix, for q.
Kept(what) == what @@ [l \in MCLoc |-> Absent]
MCExisting == {Kept("p" :> Directory @@ "p/sbin" :> Directory @@ "p/sbin/sbin" :> Foreign @@
                    "q" :> UserLink(Elsewhere)),
               Kept("p" :> Directory @@ "q" :> UserLink(At("p")) @@
                    "p/sbin" :> UserLink(At("p")) @@ "p/tool" :> UserLink(Nowhere)),
               Kept("q" :> UserLink(Nowhere))}
Empty == {[l \in MCLoc |-> Absent]}

-----------------------------------------------------------------------------
\* The package "b" has a file p, where "a" has its root.

ClashFile == {"tool", "p"}
ClashRoot == {".", "p"}
ClashLoc == {"./.", "p", "p/.", "tool", "p/tool", "p/p"}
ClashInner == "." :> "./." @@ "p" :> "p/."
ClashDest == "." :> ("tool" :> "tool" @@ "p" :> "p") @@
             "p" :> ("tool" :> "p/tool" @@ "p" :> "p/p")
ClashAbove == [l \in ClashLoc |-> IF l \in {"p/.", "p/tool", "p/p"} THEN {"p"} ELSE {}]
ClashUp == [l \in ClashLoc |-> Cardinality(ClashAbove[l])]
ClashMoved == [l \in ClashLoc |-> [a \in ClashLoc |-> [t \in ClashLoc |-> l]]]
ClashContent == "a" :> <<{"tool"}>> @@ "b" :> <<{"p"}>>
ClashPlan == {[pkgs |-> {"a"}, ops |-> <<op("a", "p")>>],
              [pkgs |-> {"b"}, ops |-> <<op("b", ".")>>]}
ClashExisting == {[l \in ClashLoc |-> Absent]}
=============================================================================
