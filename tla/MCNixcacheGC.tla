---------------------------- MODULE MCNixcacheGC ----------------------------
\* The prune protocol on a small instance.
EXTENDS NixcacheGC, TLC

Symmetry == Permutations(Tag)
==============================================================================
