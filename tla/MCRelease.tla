----------------------------- MODULE MCRelease ------------------------------
\* Each build has a path of its own; all need the same library.
EXTENDS Release

Lib == <<"lib">>
MCRoot == [b \in Package \X Version |-> {b}]
MCRequires == [p \in (Package \X Version) \cup {Lib} |-> {p, Lib}]
=============================================================================
