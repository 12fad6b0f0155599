------------------------- MODULE MCNixcacheRetention -------------------------
\* A cache of two systems: linux with three snapshots, a package pushed four
\* times in one of them, builds of p and q with different references (s1, s2, s3),
\* and two snapshots of the same time (s2, s3); darwin with one segment.
EXTENDS NixcacheRetention, TLC

MCSystemOf == [s1 |-> "linux", s2 |-> "linux", s3 |-> "linux", s4 |-> "linux",
               s5 |-> "linux", s6 |-> "linux", s7 |-> "darwin"]
MCSnapshotOf == [s1 |-> "n1", s2 |-> "n1", s3 |-> "n2", s4 |-> "n3",
                 s5 |-> "n1", s6 |-> "n1", s7 |-> "n1"]
MCPackageOf == [s1 |-> "a", s2 |-> "a", s3 |-> NoPackage, s4 |-> "b",
                s5 |-> "a", s6 |-> "a", s7 |-> "a"]
MCCreatedAt == [s1 |-> 1, s2 |-> 2, s3 |-> 2, s4 |-> 3, s5 |-> 5, s6 |-> 4, s7 |-> 2]
MCAge == [s1 |-> 1, s2 |-> 2, s3 |-> 3, s4 |-> 5, s5 |-> 7, s6 |-> 6, s7 |-> 4]

\* Some paths refer to themselves.
MCEntries == [s1 |-> [p |-> {"p", "q"}, q |-> {"q"}],
              s2 |-> [p |-> {"p", "r"}, r |-> {}],
              s3 |-> [q |-> {"q", "r"}, r |-> {}],
              s4 |-> [q |-> {}],
              s5 |-> [q |-> {}],
              s6 |-> [q |-> {}],
              s7 |-> [p |-> {"q"}, q |-> {}]]

MCRoots == {[linux |-> {"p"}, darwin |-> {"p"}],
            [linux |-> {"q", "r"}, darwin |-> {"q"}]}
==============================================================================
