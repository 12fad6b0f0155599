----------------------------- MODULE MCDelivery -----------------------------
\* A package X with a directory d, a program f and its wrappers, a static library,
\* documentation, links up, across, to the store path Y and back.
EXTENDS Delivery, TLC

MCOrder == <<"..f-wrapped-wrapped", ".f-wrapped", ".meta", "X", "Y", "bash-completion", "d", "doc",
             "e", "f", "k", "l", "m", "man", "n", "nix-support", "other", "out", "pkg", "s.a",
             "share", "t">>
MCRank == [n \in Name |-> CHOOSE i \in DOMAIN MCOrder : MCOrder[i] = n]
MCPublic == [n \in {"..f-wrapped-wrapped", ".f-wrapped"} |->
                IF n = ".f-wrapped" THEN "f" ELSE ".f-wrapped"]
MCContent == {"script", "program", "inner", "shared", "data"}
MCRewritten == [c \in MCContent |->
    CASE c = "script" -> "data" [] c = "shared" -> "refused" [] OTHER -> c]

Base == (<<"X">> :> Dir @@ <<"X", "d">> :> Dir @@ <<"X", "f">> :> File("script")
         @@ <<"X", "d", "m">> :> File("data") @@ <<"Y">> :> Dir @@ <<"Y", "m">> :> File("data"))
None == <<>>

\* A link in d, one beside it, one in Y, wrappers, and what is removed.
Inner == {None} \cup {<<"X", "d", "l">> :> n : n \in
    {Link(FALSE, <<"..", "f">>), Link(FALSE, <<"..">>), Link(FALSE, <<"..", "k", "m">>),
     Link(FALSE, <<"..", "..", "Y", "m">>), Link(FALSE, <<"..", "..", "X", "f">>), Link(TRUE, <<"X", "f">>)}} \cup
    {<<"X", "d", "e">> :> Dir @@ <<"X", "d", "f">> :> Dir @@ <<"X", "d", "f", "m">> :> File("data")
       @@ <<"X", "d", "e", "l">> :> Link(FALSE, to) : to \in {<<"..", "m">>, <<"..", "f", "m">>}}
Across == {None} \cup {<<"X", "k">> :> n : n \in
    {Link(TRUE, <<"Y">>), Link(TRUE, <<"Y", "n">>), Link(TRUE, <<"X", "d">>), Link(TRUE, <<"X", "d", "e">>), Link(TRUE, <<"X">>),
     Link(FALSE, <<"d", "l", "..", "X", "f">>),
     Link(FALSE, <<"d">>), Link(FALSE, <<"t">>), Link(FALSE, <<"k">>), Link(FALSE, <<"f", "m">>),
     Link(TRUE, <<"Y", "f">>)}}
Other == {None} \cup {<<"Y", "n">> :> n : n \in
    {Link(FALSE, <<"m">>), Link(FALSE, <<"..", "X", "f">>), Link(TRUE, <<"Y">>), Link(TRUE, <<"X", "d">>)}} \cup
    {<<"Y", "f">> :> File("script") @@ <<"Y", ".f-wrapped">> :> File("inner")}
Wrappers == {None, <<"X", ".f-wrapped">> :> File("program"),
            <<"X", ".f-wrapped">> :> File("script")
               @@ <<"X", "..f-wrapped-wrapped">> :> File("inner"),
            <<"X", ".f-wrapped">> :> File("shared"), <<"X", "d", ".f-wrapped">> :> File("program"),
            <<"X", ".f-wrapped">> :> File("program") @@ <<"X", "t">> :> Link(FALSE, <<".f-wrapped">>),
            <<"X", "..f-wrapped-wrapped">> :> File("inner"),
            <<"X", ".f-wrapped">> :> Link(TRUE, <<"Y", "m">>),
            <<"X", "d", ".f-wrapped">> :> File("program") @@ <<"X", "d", "f">> :> Link(FALSE, <<"m">>)}
Removable == {None,
           <<"X", ".meta">> :> File("data"),
           <<"X", "s.a">> :> Link(TRUE, <<"Y", "m">>) @@ <<"X", "t">> :> Link(FALSE, <<"s.a">>),
           <<"X", "share">> :> File("data"),
           <<"X", "share">> :> Link(FALSE, <<"..", "X", "d">>) @@ <<"X", "d", "doc">> :> Dir,
           <<"X", "share">> :> Link(TRUE, <<"Y">>) @@ <<"Y", "doc">> :> Dir
              @@ <<"Y", "doc", "m">> :> File("data"),
           <<"X", "share">> :> Dir @@ <<"X", "share", "doc">> :> Link(TRUE, <<"Y">>),
           <<"X", "share">> :> Dir @@ <<"X", "share", "doc">> :> Dir
              @@ <<"X", "share", "doc", "l">> :> Link(FALSE, <<"..", "..", "f">>)
              @@ <<"X", "t">> :> Link(FALSE, <<"share", "doc", "l">>),
           <<"X", "share">> :> Link(FALSE, <<"d", "..">>) @@ <<"X", "man">> :> Dir
              @@ <<"X", "man", "m">> :> File("data"),
           <<"X", "s.a">> :> File("data") @@ <<"X", "t">> :> Link(FALSE, <<"s.a">>),
           <<"X", "share">> :> Dir @@ <<"X", "share", "doc">> :> Dir
              @@ <<"X", "share", "doc", "m">> :> File("data")
              @@ <<"X", "t">> :> Link(FALSE, <<"share", "doc", "m">>),
           <<"X", "share">> :> Link(FALSE, <<"d">>) @@ <<"X", "d", "doc">> :> Dir}
\* Up to three of these at a time.
MCTrees == {Base @@ o[1] @@ o[2] @@ o[3] @@ o[4] @@ o[5] :
              o \in {p \in Inner \X Across \X Other \X Wrappers \X Removable :
                       Cardinality({i \in 1..5 : p[i] # None}) <= 3}}

-----------------------------------------------------------------------------
\* Every archive of up to three entries, in every order: directories, files, links
\* up, down and across, a hard link, names outside the package.
MCEntry ==
    {[name |-> <<"pkg">>, node |-> Dir],
     [name |-> <<"pkg", "d">>, node |-> Dir],
     [name |-> <<"pkg", "d", "e">>, node |-> Dir],
     [name |-> <<"pkg", "f">>, node |-> File("one")],
     [name |-> <<"pkg", "d", "e">>, node |-> File("two")],
     [name |-> <<"pkg", "f">>, node |-> Link(FALSE, <<"d", "e">>)],
     [name |-> <<"pkg", "f">>, node |-> Link(TRUE, <<"other">>)],
     [name |-> <<"pkg", "d">>, node |-> Link(FALSE, <<"e">>)],
     [name |-> <<"pkg", "d", "e">>, node |-> Link(FALSE, <<"..">>)],
     [name |-> <<"pkg", "d", "f">>, node |-> Link(FALSE, <<"e", "..", "f">>)],
     [name |-> <<"pkg", "d", "f">>, node |-> Link(FALSE, <<"..", "..", "f">>)],
     [name |-> <<"pkg", "e", "f">>, node |-> Link(FALSE, <<"..", "d", "e", "..", "other">>)],
     [name |-> <<"pkg", "e">>, hard |-> <<"pkg", "f">>],
     [name |-> <<"pkg", "e">>, hard |-> <<"pkg", "d", "e">>],
     [name |-> <<"pkg", "e">>, node |-> File("three")],
     [name |-> <<"pkg", ".meta">>, node |-> File("one")],
     [name |-> <<"other">>, node |-> File("one")]}
MCArchives == UNION {[1..n -> MCEntry] : n \in 0..3}
=============================================================================
