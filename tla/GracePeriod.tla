----------------------------- MODULE GracePeriod -----------------------------
(***************************************************************************)
(* What `nixcache prune` promises of the segments of the cache, without    *)
(* the protocol that achieves it: a segment version is deleted only while  *)
(* the verdict in force lists that very version, and has listed it for the *)
(* whole grace period.  A run that passes judgement replaces the verdict   *)
(* in one step; nothing that fails in between is visible.                  *)
(***************************************************************************)
EXTENDS Integers

CONSTANTS Tag,      \* tags of cache segments in the registry
          Grace     \* gcGrace, in clock units

VARIABLES tagged,   \* [Tag -> version], 0 for a tag the registry lacks
          verdictAt,  \* the time the verdict in force was passed, 0 before any
          waiting   \* the verdict: [Tag -> [ver, since]], ver 0 if not listed

vars == <<tagged, verdictAt, waiting>>

NotListed == [ver |-> 0, since |-> 0]

Init == /\ tagged = [t \in Tag |-> 0]
        /\ verdictAt = 0
        /\ waiting = [t \in Tag |-> NotListed]

\* Somebody publishes a version under a tag, for the first time or again.
Publish(t) == /\ tagged'[t] \in Nat \ {0}
              /\ \A u \in Tag : tagged[u] # tagged'[t]
              /\ tagged' = [tagged EXCEPT ![t] = tagged'[t]]
              /\ UNCHANGED <<verdictAt, waiting>>

\* A new verdict lists some versions.  A version the last verdict listed may
\* keep its time; every other one starts its grace period now.
PassVerdict ==
    /\ verdictAt' \in Nat
    /\ verdictAt' > verdictAt
    /\ \A t \in Tag : \/ waiting'[t].ver = 0
                      \/ waiting'[t].ver # 0 /\ waiting'[t].since = verdictAt'
                      \/ waiting'[t].ver # 0 /\ waiting'[t] = waiting[t]
    /\ waiting' \in [Tag -> [ver : Nat, since : Nat]]
    /\ UNCHANGED tagged

Delete(t) == /\ tagged[t] # 0
             /\ waiting[t].ver = tagged[t]
             /\ verdictAt - waiting[t].since >= Grace
             /\ tagged' = [tagged EXCEPT ![t] = 0]
             /\ UNCHANGED <<verdictAt, waiting>>

Next == \/ PassVerdict
        \/ \E t \in Tag : Publish(t) \/ Delete(t)

Spec == Init /\ [][Next]_vars
==============================================================================
