------------------------------ MODULE Listing -------------------------------
(***************************************************************************)
(* What loadTags promises its callers (refresh, prune, size): one answer,   *)
(* as if given at one moment - a failure, or the segments in the order of   *)
(* the tags, without any that has not disappeared.                         *)
(***************************************************************************)
EXTENDS Naturals

CONSTANT Tag           \* positions in the list of tags: 1..n

VARIABLES gone,        \* the tags that have disappeared
          answer,      \* "none", "failed" or "listed"
          items        \* the tags whose segments were returned

vars == <<gone, answer, items>>

Init == gone = {} /\ answer = "none" /\ items = {}

Disappear == \E t \in Tag \ gone : gone' = gone \cup {t} /\ UNCHANGED <<answer, items>>
Refuse == answer = "none" /\ answer' = "failed" /\ UNCHANGED <<gone, items>>
Answer == /\ answer = "none" /\ answer' = "listed"
          /\ \E skipped \in SUBSET gone : items' = Tag \ skipped
          /\ UNCHANGED gone

Next == Disappear \/ Refuse \/ Answer
Spec == Init /\ [][Next]_vars
=============================================================================
