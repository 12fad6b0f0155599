---------------------------- MODULE MCBinmanPlan -----------------------------
\* Files of up to two groups; every kind of target, one of them in two spellings.
EXTENDS BinmanPlan

MCClean == [l \in {"", ".", "sub", "./sub", "store", "../out"} |->
              CASE l = "./sub" -> "sub"
                [] l \in {"store", "../out"} -> "error"
                [] OTHER -> l]
MCGroups == {Group(p, l) : p \in {<<>>, <<"a">>, <<"b">>, <<"a", "b">>, <<"b", "a">>, <<"-x">>},
                           l \in DOMAIN MCClean}
MCManifests == {<<>>} \cup {<<g>> : g \in MCGroups} \cup (MCGroups \X MCGroups)
MCArgs == {<<>>, <<"a">>, <<"b">>, <<"a", "b">>}
=============================================================================
