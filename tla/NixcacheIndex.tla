---------------------------- MODULE NixcacheIndex ----------------------------
(***************************************************************************)
(* The live index of `nixcache serve` (serve.go) between a registry that   *)
(* is pushed to and pruned, and clients that ask for a narinfo first and   *)
(* for its NAR some time later.                                            *)
(*                                                                         *)
(* A refresh lists the segment tags, loads those it does not know one by   *)
(* one, and replaces the index in one step, or leaves it as it is.         *)
(* Requests are answered from the index there is at that moment.           *)
(***************************************************************************)
EXTENDS Integers

CONSTANTS
    Segment,    \* segments ever pushed; every push has a tag of its own
    Path,       \* store paths
    Blob,       \* NAR blobs, by digest
    NoBlob,     \* not one of them
    Entries,    \* Entries[s][p]: the NAR of p in s, NoBlob if s lacks p
    Url,        \* Url[b]: the NAR URL of b, from the narinfo
    Age,        \* Age[s]: the place of s in the order of compareSegments
    Invalid,    \* segments that getSegment or refresh refuses
    Client,     \* who substitutes from the cache
    MaxFaults   \* bound: failing requests, answers that lag, and crashes

\* compareSegments is a total order, in which segments have a newest.
ASSUME IndexAssumption ==
    /\ NoBlob \notin Blob
    /\ Entries \in [Segment -> [Path -> Blob \union {NoBlob}]]
    /\ Age \in [Segment -> Nat]
    /\ \A s, t \in Segment : Age[s] = Age[t] => s = t
    /\ \A S \in SUBSET Segment : S # {} => \E s \in S : \A t \in S : Age[t] <= Age[s]
    /\ Invalid \subseteq Segment
    /\ MaxFaults \in Nat

VARIABLES
    registry,  \* [Segment -> "unpushed", "tagged" or "deleted"]
    blobs,     \* the NAR blobs in the registry
    segments,  \* cacheIndex.segments: those the index is made of
    current,   \* cacheIndex.current: the index that is served
    refresh,   \* the server, with the local variables of refresh
    client,    \* [Client -> the substitution it is at]
    faults     \* faults so far

remote == <<registry, blobs>>
index == <<segments, current>>
vars == <<registry, blobs, segments, current, refresh, client, faults>>

-----------------------------------------------------------------------------
Tagged == {s \in Segment : registry[s] = "tagged"}

NARs(s) == {Entries[s][p] : p \in Path} \ {NoBlob}

\* No index yet.  Requests find nothing in it.
NoIndex == [ready |-> FALSE, entries |-> [p \in Path |-> NoBlob], nars |-> {}]

Index == [ready : BOOLEAN, entries : [Path -> Blob \union {NoBlob}], nars : SUBSET Blob]

\* mergeSegments: the newest segment that has a path provides it, and the NARs
\* of all segments stay available.
Providers(S, p) == {s \in S : Entries[s][p] # NoBlob}
Newest(S) == CHOOSE s \in S : \A t \in S : Age[t] <= Age[s]

Merge(S) ==
    [ready |-> TRUE,
     entries |-> [p \in Path |-> IF Providers(S, p) = {} THEN NoBlob
                                 ELSE Entries[Newest(Providers(S, p))][p]],
     nars |-> UNION {NARs(s) : s \in S}]

\* ... unless two of them have one URL.
Conflict(S) == \E s, t \in S : \E b \in NARs(s), c \in NARs(t) :
                  b # c /\ Url[b] = Url[c]

\* "down": the process does not run; "idle": it waits for the ticker, or is
\* about to load its first index; "listed": it loads segments.
Server == [pc : {"down", "idle", "listed"}, listed : SUBSET Segment,
           todo : SUBSET Segment, loaded : SUBSET Segment]

NoRefresh == [pc |-> "idle", listed |-> {}, todo |-> {}, loaded |-> {}]
Down == [NoRefresh EXCEPT !.pc = "down"]

\* A client has a narinfo, then the answer to its request for the NAR.  "from"
\* is history: the segments of the index that had the NAR when it was issued.
Substitution == [pc : {"idle", "have", "fetch", "missing", "failed", "done"},
                 issued : Blob \union {NoBlob}, blob : Blob \union {NoBlob},
                 from : SUBSET Segment]

NoSubstitution == [pc |-> "idle", issued |-> NoBlob, blob |-> NoBlob, from |-> {}]

Init == /\ registry = [s \in Segment |-> "unpushed"]
        /\ blobs = {}
        /\ segments = {}
        /\ current = NoIndex
        /\ refresh = Down
        /\ client = [c \in Client |-> NoSubstitution]
        /\ faults = 0

-----------------------------------------------------------------------------
\* The registry: segments are pushed and pruned, and a blob that no manifest
\* refers to any more may go.

Push(s) == /\ registry[s] = "unpushed"
           /\ registry' = [registry EXCEPT ![s] = "tagged"]
           /\ blobs' = blobs \union NARs(s)
           /\ UNCHANGED <<index, refresh, client, faults>>

Delete(s) == /\ registry[s] = "tagged"
             /\ registry' = [registry EXCEPT ![s] = "deleted"]
             /\ UNCHANGED <<blobs, index, refresh, client, faults>>

Collect(b) == /\ b \in blobs
              /\ \A s \in Tagged : b \notin NARs(s)
              /\ blobs' = blobs \ {b}
              /\ UNCHANGED <<registry, index, refresh, client, faults>>

-----------------------------------------------------------------------------
\* The server.  The first index is loaded by the first refresh.

\* serveCache in live mode: it listens before it has an index.
Start == /\ refresh.pc = "down"
         /\ refresh' = NoRefresh
         /\ UNCHANGED <<remote, index, client, faults>>

\* Mutant: every segment is loaded again.
NothingKnown(listed) == {}

\* Segments are not loaded twice.
Known(listed) == listed \intersect segments

List == /\ refresh.pc = "idle"
        /\ refresh' = [pc |-> "listed", listed |-> Tagged,
                       todo |-> Tagged \ Known(Tagged), loaded |-> {}]
        /\ UNCHANGED <<remote, index, client, faults>>

\* refresh returns an error.  Without a first index, the process ends.
Abandon == /\ refresh' = IF current.ready THEN NoRefresh ELSE Down
           /\ UNCHANGED <<remote, index, client>>

\* loadTags: the fetches run concurrently, and one that fails ends them all.
Load(s) == /\ refresh.pc = "listed"
           /\ s \in refresh.todo
           /\ registry[s] = "tagged"
           /\ IF s \in Invalid THEN Abandon
              ELSE /\ refresh' = [refresh EXCEPT !.todo = @ \ {s},
                                                 !.loaded = @ \union {s}]
                   /\ UNCHANGED <<remote, index, client>>
           /\ UNCHANGED faults

\* A listed segment that is not found is skipped: it was deleted since, or
\* the registry does not show it yet.
Skip(s) == /\ refresh.pc = "listed"
           /\ s \in refresh.todo
           /\ \/ registry[s] = "deleted" /\ UNCHANGED faults
              \/ faults < MaxFaults /\ faults' = faults + 1
           /\ refresh' = [refresh EXCEPT !.todo = @ \ {s}]
           /\ UNCHANGED <<remote, index, client>>

\* Mutant: only what was loaded counts as a change.
ChangedByLoading == ~current.ready \/ refresh.loaded # {}

Changed == \/ ~current.ready
           \/ refresh.loaded # {}
           \/ ~(segments \subseteq refresh.listed)

\* Mutant: the segments are replaced before they are merged.
StoreSegmentsFirst ==
    LET S == Known(refresh.listed) \union refresh.loaded
    IN  /\ refresh.pc = "listed"
        /\ refresh.todo = {}
        /\ segments' = S
        /\ current' = IF Changed /\ ~Conflict(S) THEN Merge(S) ELSE current
        /\ refresh' = IF Conflict(S) /\ ~current.ready THEN Down ELSE NoRefresh
        /\ UNCHANGED <<remote, client, faults>>

Store == LET S == Known(refresh.listed) \union refresh.loaded
         IN  /\ refresh.pc = "listed"
             /\ refresh.todo = {}
             /\ IF ~Changed THEN refresh' = NoRefresh /\ UNCHANGED <<remote, index, client>>
                ELSE IF Conflict(S) THEN Abandon
                ELSE /\ segments' = S
                     /\ current' = Merge(S)
                     /\ refresh' = NoRefresh
                     /\ UNCHANGED <<remote, client>>
             /\ UNCHANGED faults

\* A request of the refresh fails, or times out for the last time.
Fail == /\ refresh.pc # "down"
        /\ faults < MaxFaults
        /\ faults' = faults + 1
        /\ Abandon

\* The process is killed, and the substitutions under way with it.
Crash == /\ refresh.pc # "down"
         /\ faults < MaxFaults
         /\ faults' = faults + 1
         /\ segments' = {}
         /\ current' = NoIndex
         /\ refresh' = Down
         /\ client' = [c \in Client |-> NoSubstitution]
         /\ UNCHANGED remote

-----------------------------------------------------------------------------
\* serveHTTP.

GetNarInfo(c, p) ==
    LET b == current.entries[p]
    IN  /\ client[c].pc = "idle"
        /\ b # NoBlob
        /\ client' = [client EXCEPT ![c] =
                        [pc |-> "have", issued |-> b, blob |-> NoBlob,
                         from |-> {s \in segments : b \in NARs(s)}]]
        /\ UNCHANGED <<remote, index, refresh, faults>>

\* The index is read once, and the blob is fetched afterwards.
GetNAR(c) ==
    LET found == {b \in current.nars : Url[b] = Url[client[c].issued]}
    IN  /\ client[c].pc = "have"
        /\ \/ \E b \in found :
                client' = [client EXCEPT ![c].pc = "fetch", ![c].blob = b]
           \/ found = {} /\ client' = [client EXCEPT ![c].pc = "missing"]
        /\ UNCHANGED <<remote, index, refresh, faults>>

ReadBlob(c) ==
    /\ client[c].pc = "fetch"
    /\ client' = [client EXCEPT ![c].pc =
                    IF client[c].blob \in blobs THEN "done" ELSE "failed"]
    /\ UNCHANGED <<remote, index, refresh, faults>>

\* The client goes on with something else.
Forget(c) == /\ client[c].pc # "idle"
             /\ client' = [client EXCEPT ![c] = NoSubstitution]
             /\ UNCHANGED <<remote, index, refresh, faults>>

-----------------------------------------------------------------------------
Refresh == List \/ (\E s \in Segment : Load(s) \/ Skip(s)) \/ Store

Next == \/ \E s \in Segment : Push(s) \/ Delete(s)
        \/ \E b \in Blob : Collect(b)
        \/ Start
        \/ Refresh
        \/ Fail
        \/ Crash
        \/ \E c \in Client :
             \/ \E p \in Path : GetNarInfo(c, p)
             \/ GetNAR(c)
             \/ ReadBlob(c)
             \/ Forget(c)

Spec == Init /\ [][Next]_vars

\* The ticker goes on, and every request ends (registryTimeout).
FairSpec == Spec /\ WF_vars(Refresh)

-----------------------------------------------------------------------------
\* Properties.

TypeOK == /\ registry \in [Segment -> {"unpushed", "tagged", "deleted"}]
          /\ blobs \in SUBSET Blob
          /\ segments \in SUBSET (Segment \ Invalid)
          /\ current \in Index
          /\ refresh \in Server
          /\ client \in [Client -> Substitution]
          /\ faults \in Nat

\* The index served is that of the segments kept for the next refresh, although
\* refresh merges only when it thinks that something changed, and whichever of
\* its steps fail (TestCacheRefreshFailurePreservesState).
IndexMatches == current.ready => current = Merge(segments) /\ ~Conflict(segments)

\* A NAR whose URL was handed out is there for as long as one of the segments
\* that had it then: no refresh, and no answer that lags behind, makes a client
\* run into "not found" or "bad gateway" (TestRefreshKeepsPreviouslyIssuedNARURL).
IssuedServed ==
    \A c \in Client : client[c].pc \in {"missing", "failed"} =>
                        \A s \in client[c].from : registry[s] = "deleted"

\* A segment in the registry that makes every refresh fail.
Blocked == Tagged \intersect Invalid # {} \/ Conflict(Tagged)

\* The index comes to be that of the registry, as each segment is pushed once and
\* deleted once: what is pushed gets into it and what is deleted leaves it, although
\* a refresh does nothing when it sees no change, skips what it does not find and
\* fails as a whole - unless the server is down, or a segment blocks every refresh.
IndexFollows ==
    segments # Tagged ~> segments = Tagged \/ Blocked \/ refresh.pc = "down"
==============================================================================
