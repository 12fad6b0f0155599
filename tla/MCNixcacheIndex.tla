--------------------------- MODULE MCNixcacheIndex ---------------------------
\* The live index on a small cache.
EXTENDS NixcacheIndex, TLC

\* Segments in the order of their age.  The first two have different builds of
\* p; the third repeats the build of the first; the last one is refused.
MCEntries == [s1 |-> [p |-> "b1", q |-> "b3"],
              s2 |-> [p |-> "b2", q |-> NoBlob],
              s3 |-> [p |-> "b1", q |-> NoBlob],
              s4 |-> [p |-> NoBlob, q |-> "b3"]]
MCAge == [s1 |-> 1, s2 |-> 2, s3 |-> 3, s4 |-> 4]

\* Two builds under one URL: the first two segments conflict, the second and the
\* third do not.
MCUrl == [b1 |-> 1, b2 |-> 2, b3 |-> 2]
==============================================================================
