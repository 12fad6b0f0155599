-------------------------- MODULE NixcacheRequests --------------------------
(***************************************************************************)
(* loadTags of cmd/nixcache/registry.go: the segments behind a list of tags *)
(* are fetched side by side, each by two requests (manifest, then metadata) *)
(* that registryRequest repeats when they time out.  Meanwhile segments are *)
(* deleted, requests fail, and the caller may be cancelled.                *)
(***************************************************************************)
EXTENDS Integers, FiniteSets

CONSTANTS N,         \* how many tags there are
          Limit,     \* segmentLoadConcurrency
          Attempts   \* registryTimeoutAttempts

ASSUME RequestsAssumption == N \in Nat /\ Limit \in Nat \ {0} /\ Attempts \in Nat \ {0}

Tag == 1..N

VARIABLES gone,       \* the tags that were deleted
          cancelled,  \* the context of the group: a fetch failed, or the caller gave up
          fetch,      \* where the goroutine of each tag is
          attempt,    \* the attempts at the request it is at
          answer,     \* what loadTags returns: an error or a list
          items       \* the list

loadVars == <<gone, cancelled, fetch, attempt, answer, items>>

Asking == {"manifest", "metadata"}
Active == Asking \cup {"started"}
Ended == {"loaded", "missing", "failed"}

LoadInit == /\ gone = {} /\ cancelled = FALSE
            /\ fetch = [t \in Tag |-> "waiting"]
            /\ attempt = [t \in Tag |-> 0]
            /\ answer = "none" /\ items = {}

Becomes(t, state, tries) ==
    /\ fetch' = [fetch EXCEPT ![t] = state]
    /\ attempt' = [attempt EXCEPT ![t] = tries]
    /\ UNCHANGED <<gone, answer, items>>

-----------------------------------------------------------------------------
\* The others: a prune deletes a segment, an interrupt cancels the command.

Disappear(t) ==
    /\ t \notin gone /\ gone' = gone \cup {t}
    /\ UNCHANGED <<cancelled, fetch, attempt, answer, items>>
Interrupt ==
    /\ answer = "none" /\ ~cancelled /\ cancelled' = TRUE
    /\ UNCHANGED <<gone, fetch, attempt, answer, items>>

-----------------------------------------------------------------------------
\* Mutant: the goroutines are not limited.
GoAll(t) ==
    /\ fetch[t] = "waiting"
    /\ \A u \in 1..(t - 1) : fetch[u] # "waiting"
    /\ Becomes(t, "started", 0) /\ UNCHANGED cancelled
\* group.Go, in the order of the tags, as long as the limit allows.
Go(t) ==
    /\ fetch[t] = "waiting"
    /\ \A u \in 1..(t - 1) : fetch[u] # "waiting"
    /\ Cardinality({u \in Tag : fetch[u] \in Active}) < Limit
    /\ Becomes(t, "started", 0) /\ UNCHANGED cancelled

FailFetch(t) == Becomes(t, "failed", attempt[t]) /\ cancelled' = TRUE

\* A goroutine that starts after a failure asks nothing.
Begin(t) ==
    /\ fetch[t] = "started"
    /\ \/ cancelled /\ FailFetch(t)
       \/ ~cancelled /\ Becomes(t, "manifest", 1) /\ UNCHANGED cancelled

\* An answer counts, whether or not the group was cancelled meanwhile.
Succeed(t) ==
    /\ t \notin gone
    /\ \/ fetch[t] = "manifest" /\ Becomes(t, "metadata", 1)
       \/ fetch[t] = "metadata" /\ Becomes(t, "loaded", attempt[t])
    /\ UNCHANGED cancelled

\* Mutant: whatever goes wrong after the group was cancelled is a tag not found.
NotFoundLate(t) ==
    /\ fetch[t] \in Asking /\ (t \in gone \/ cancelled)
    /\ Becomes(t, "missing", attempt[t]) /\ UNCHANGED cancelled
\* Not found, the manifest or the metadata: the segment is skipped, unless
\* registryRequest sees that the context was cancelled and reports that.
NotFound(t) ==
    /\ fetch[t] \in Asking /\ t \in gone
    /\ \/ cancelled /\ FailFetch(t)
       \/ ~cancelled /\ Becomes(t, "missing", attempt[t]) /\ UNCHANGED cancelled

\* Mutant: a request is repeated as long as it times out.
TimeoutForever(t) ==
    /\ fetch[t] \in Asking
    /\ \/ cancelled /\ FailFetch(t)
       \/ ~cancelled /\ Becomes(t, fetch[t], (attempt[t] % Attempts) + 1) /\ UNCHANGED cancelled
\* The deadline of the request: again, unless it was the last attempt or the
\* context was cancelled.
Timeout(t) ==
    /\ fetch[t] \in Asking
    /\ \/ (cancelled \/ attempt[t] = Attempts) /\ FailFetch(t)
       \/ ~cancelled /\ attempt[t] < Attempts
          /\ Becomes(t, fetch[t], attempt[t] + 1) /\ UNCHANGED cancelled

\* Any other error, a cancelled request included.
Error(t) == fetch[t] \in Asking /\ FailFetch(t)

\* group.Wait, then the items without the missing ones.
Return ==
    /\ answer = "none"
    /\ \A t \in Tag : fetch[t] \in Ended
    /\ \/ /\ \E t \in Tag : fetch[t] = "failed"
          /\ answer' = "failed" /\ UNCHANGED items
       \/ /\ \A t \in Tag : fetch[t] # "failed"
          /\ answer' = "listed"
          /\ items' = {t \in Tag : fetch[t] # "missing"}
    /\ UNCHANGED <<gone, cancelled, fetch, attempt>>

Respond(t) == Succeed(t) \/ NotFound(t) \/ Timeout(t) \/ Error(t)
Proceed == Return \/ \E t \in Tag : Go(t) \/ Begin(t) \/ Respond(t)

LoadNext == Interrupt \/ Proceed \/ \E t \in Tag : Disappear(t)

\* Every request has a deadline, and the goroutines go on.
LoadSpec == LoadInit /\ [][LoadNext]_loadVars
FairLoadSpec == LoadSpec /\ WF_loadVars(Proceed)

-----------------------------------------------------------------------------
LoadTypeOK == /\ gone \subseteq Tag /\ cancelled \in BOOLEAN
              /\ fetch \in [Tag -> {"waiting"} \cup Active \cup Ended]
              /\ attempt \in [Tag -> 0..Attempts]
              /\ answer \in {"none", "failed", "listed"} /\ items \subseteq Tag
              /\ Cardinality({t \in Tag : fetch[t] \in Active}) <= Limit

(* loadTags implements the promise: a failure or a cancellation never turns *)
(* into a list that lacks a segment which is still there (registry.go:189). *)
L == INSTANCE Listing
ImplementsListing == L!Spec

(* It ends, however often requests time out (registry.go:101).              *)
Answers == <>(answer # "none")
=============================================================================
