------------------------- MODULE NixcacheIndexProofs -------------------------
(***************************************************************************)
(* Proofs about what nixcache reads: the live index, and the lists of      *)
(* segments it is made from.                                               *)
(*                                                                         *)
(* The index, for every cache, registry and number of clients, faults      *)
(* included.  A client relies on segments that are deleted or still in     *)
(* the index.  That holds because refresh drops a known segment only if    *)
(* the listing lacks it, which means that it was deleted (RefreshInv), and *)
(* because the index is that of the segments at all times (IndexInv).      *)
(*                                                                         *)
(* loadTags, for any number of tags, any limit and number of attempts.  A  *)
(* goroutine ends as "missing" only when its segment is gone (Honest),     *)
(* because one that sees a cancelled context ends as "failed"; so a list   *)
(* without failures lacks nothing that is still there.                     *)
(***************************************************************************)
EXTENDS NixcacheIndex, NixcacheRequests, TLAPS, FiniteSetTheorems

Gone(s) == registry[s] = "deleted"

\* The index is that of its segments, or there is neither.
IndexInv == IF current.ready THEN current = Merge(segments) /\ ~Conflict(segments)
            ELSE segments = {} /\ current = NoIndex

\* The registry keeps the blobs of what is tagged.
RegistryInv == /\ \A s \in Tagged : NARs(s) \subseteq blobs
               /\ \A s \in segments : registry[s] # "unpushed"

\* A known segment that was not listed is gone.
RefreshInv == refresh.pc = "listed" =>
                /\ \A s \in segments : s \in refresh.listed \/ Gone(s)
                /\ \A s \in refresh.loaded : registry[s] # "unpushed"
                /\ refresh.loaded \subseteq Segment \ Invalid

\* What a client relies on.
SubstitutionInv(c) ==
    LET x == client[c]
    IN  /\ \A s \in x.from : registry[s] # "unpushed" /\ x.issued \in NARs(s)
        /\ x.pc = "have" => \A s \in x.from : Gone(s) \/ s \in segments
        /\ x.pc = "fetch" => x.blob = x.issued \/ \A s \in x.from : Gone(s)
        /\ x.pc \in {"missing", "failed"} => \A s \in x.from : Gone(s)

Inv == /\ TypeOK
       /\ IndexInv
       /\ RegistryInv
       /\ RefreshInv
       /\ \A c \in Client : SubstitutionInv(c)

-----------------------------------------------------------------------------
\* The NARs of a segment are blobs.
LEMMA NARsType == ASSUME NEW s \in Segment PROVE NARs(s) \subseteq Blob
  <1>1. ASSUME NEW p \in Path PROVE Entries[s][p] \in Blob \union {NoBlob}
    <2>1. Entries[s] \in [Path -> Blob \union {NoBlob}]
      BY IndexAssumption
    <2> QED BY <2>1
  <1> QED BY <1>1 DEF NARs

\* Merging keeps the types, and makes the NARs of every segment available.
LEMMA MergeFacts ==
    ASSUME NEW S \in SUBSET Segment
    PROVE  /\ Merge(S) \in Index
           /\ Merge(S).ready
           /\ \A s \in S : NARs(s) \subseteq Merge(S).nars
           /\ \A b \in Merge(S).nars : \E s \in S : b \in NARs(s)
  <1>1. \A s \in Segment : NARs(s) \subseteq Blob
    BY NARsType
  <1>2. ASSUME NEW p \in Path
        PROVE  (IF Providers(S, p) = {} THEN NoBlob
                ELSE Entries[Newest(Providers(S, p))][p]) \in Blob \union {NoBlob}
    <2>1. CASE Providers(S, p) = {}
      BY <2>1
    <2>2. CASE Providers(S, p) # {}
      <3>1. Newest(Providers(S, p)) \in Segment
        <4> DEFINE R == Providers(S, p)
        <4>1. R \subseteq Segment /\ R # {}
          BY <2>2 DEF Providers
        <4>2. \E s \in R : \A t \in R : Age[t] <= Age[s]
          BY <4>1, IndexAssumption
        <4> QED BY <4>1, <4>2 DEF Newest
      <3> QED BY <2>2, <3>1, IndexAssumption
    <2> QED BY <2>1, <2>2
  <1> QED BY <1>1, <1>2 DEF Merge, Index

\* An index, whether it is ready or not, has the types.
LEMMA NoIndexType == NoIndex \in Index
  BY DEF NoIndex, Index

\* An empty registry and a server that is down satisfy the invariant.
LEMMA InitInv == Init => Inv
  <1> SUFFICES ASSUME Init PROVE Inv
    OBVIOUS
  <1>1. TypeOK
    BY NoIndexType DEF Init, TypeOK, Server, Down, NoRefresh, Substitution, NoSubstitution
  <1>2. IndexInv /\ RegistryInv /\ RefreshInv
    BY DEF Init, IndexInv, RegistryInv, RefreshInv, NoIndex, Tagged, Down, NoRefresh
  <1>3. \A c \in Client : SubstitutionInv(c)
    BY DEF Init, SubstitutionInv, NoSubstitution
  <1> QED BY <1>1, <1>2, <1>3 DEF Inv

-----------------------------------------------------------------------------
\* Steps of the registry.

\* A segment goes from unpushed to tagged to deleted, and never back.
LEMMA RegistryGrows ==
    ASSUME TypeOK, [Next]_vars, NEW s \in Segment
    PROVE  /\ registry[s] # "unpushed" => registry'[s] # "unpushed"
           /\ Gone(s) => Gone(s)'
  <1>1. CASE \E t \in Segment : Push(t) \/ Delete(t)
    BY <1>1 DEF TypeOK, Push, Delete, Gone
  <1>2. CASE UNCHANGED registry
    BY <1>2 DEF Gone
  <1> QED BY <1>1, <1>2 DEF Next, vars, Collect, Start, Refresh, List, Load, Skip, Store,
             Fail, Crash, Abandon, GetNarInfo, GetNAR, ReadBlob, Forget, remote

\* What a client relies on stays true while it does nothing and the index keeps
\* every segment that is not gone.
LEMMA SubstitutionKept ==
    ASSUME Inv, [Next]_vars, NEW c \in Client, client'[c] = client[c],
           client[c].pc = "have" => \A s \in segments : Gone(s)' \/ s \in segments'
    PROVE  SubstitutionInv(c)'
  <1> DEFINE x == client[c]
  <1>1. x.from \subseteq Segment
    BY DEF Inv, TypeOK, Substitution
  <1>2. \A s \in x.from : /\ registry[s] # "unpushed" => registry'[s] # "unpushed"
                          /\ Gone(s) => Gone(s)'
    BY <1>1, RegistryGrows DEF Inv
  <1>3. SubstitutionInv(c)
    BY DEF Inv
  <1> QED BY <1>1, <1>2, <1>3 DEF SubstitutionInv

\* Pushes, deletions and collected blobs preserve the invariant.
LEMMA RemoteStep ==
    ASSUME Inv, \/ \E s \in Segment : Push(s) \/ Delete(s)
                \/ \E b \in Blob : Collect(b)
    PROVE  Inv'
  <1>0. [Next]_vars
    BY DEF Next
  <1>1. UNCHANGED <<segments, current, refresh, client, faults>>
    BY DEF Push, Delete, Collect, index
  <1>2. TypeOK'
    <2>1. \A s \in Segment : NARs(s) \subseteq Blob
      BY NARsType
    <2> QED BY <1>1, <2>1 DEF Inv, TypeOK, Push, Delete, Collect
  <1>3. IndexInv'
    BY <1>1 DEF Inv, IndexInv
  <1>4. RegistryInv'
    <2>1. \A s \in segments : registry'[s] # "unpushed"
      BY <1>0, RegistryGrows DEF Inv, RegistryInv, TypeOK
    <2>2. ASSUME NEW t \in Segment, Push(t) \/ Delete(t), NEW s \in Tagged'
          PROVE  NARs(s) \subseteq blobs'
      BY <2>2 DEF Inv, RegistryInv, TypeOK, Tagged, Push, Delete
    <2>3. ASSUME NEW b \in Blob, Collect(b), NEW s \in Tagged'
          PROVE  NARs(s) \subseteq blobs'
      BY <2>3 DEF Inv, RegistryInv, Tagged, Collect
    <2>4. \A s \in Tagged' : NARs(s) \subseteq blobs'
      BY <2>2, <2>3
    <2> QED BY <1>1, <2>1, <2>4 DEF RegistryInv
  <1>5. RefreshInv'
    <2>1. refresh.loaded \subseteq Segment /\ segments \subseteq Segment
      BY DEF Inv, TypeOK, Server
    <2> QED BY <1>0, <1>1, <2>1, RegistryGrows DEF Inv, RefreshInv
  <1>6. \A c \in Client : SubstitutionInv(c)'
    BY <1>0, <1>1, SubstitutionKept
  <1> QED BY <1>2, <1>3, <1>4, <1>5, <1>6 DEF Inv

-----------------------------------------------------------------------------
\* Steps of the server.

\* A refresh that ends without a new index preserves the invariant.
LEMMA AbandonStep ==
    ASSUME Inv, [Next]_vars, UNCHANGED <<remote, index, client>>,
           refresh' \in {NoRefresh, Down}, faults' \in Nat
    PROVE  Inv'
  <1>1. TypeOK'
    BY DEF Inv, TypeOK, remote, index, Server, NoRefresh, Down
  <1>2. IndexInv' /\ RegistryInv'
    BY DEF Inv, IndexInv, RegistryInv, Tagged, remote, index
  <1>3. RefreshInv'
    BY DEF RefreshInv, NoRefresh, Down
  <1>4. \A c \in Client : SubstitutionInv(c)'
    BY SubstitutionKept DEF index
  <1> QED BY <1>1, <1>2, <1>3, <1>4 DEF Inv

\* A refresh that lists or loads preserves the invariant.
LEMMA LoadStep ==
    ASSUME Inv, [Next]_vars, UNCHANGED <<remote, index, client>>,
           refresh' \in Server, refresh'.pc = "listed", faults' \in Nat,
           \A s \in segments : s \in refresh'.listed \/ Gone(s),
           \A s \in refresh'.loaded : registry[s] # "unpushed",
           refresh'.loaded \subseteq Segment \ Invalid
    PROVE  Inv'
  <1>1. TypeOK'
    BY DEF Inv, TypeOK, remote, index
  <1>2. IndexInv' /\ RegistryInv'
    BY DEF Inv, IndexInv, RegistryInv, Tagged, remote, index
  <1>3. RefreshInv'
    BY DEF RefreshInv, remote, index, Gone
  <1>4. \A c \in Client : SubstitutionInv(c)'
    BY SubstitutionKept DEF index
  <1> QED BY <1>1, <1>2, <1>3, <1>4 DEF Inv

\* The index that Store puts in place has every segment that is not gone.
LEMMA StoreStep == Inv /\ Store => Inv'
  <1> SUFFICES ASSUME Inv, Store PROVE Inv'
    OBVIOUS
  <1> DEFINE S == Known(refresh.listed) \union refresh.loaded
  <1>0. [Next]_vars
    BY DEF Next, Refresh
  <1>1. faults' \in Nat /\ refresh.pc = "listed"
    BY DEF Store, Inv, TypeOK
  <1>2. CASE UNCHANGED <<remote, index, client>> /\ refresh' \in {NoRefresh, Down}
    BY <1>0, <1>1, <1>2, AbandonStep
  <1>3. CASE /\ ~Conflict(S)
             /\ segments' = S
             /\ current' = Merge(S)
             /\ refresh' = NoRefresh
             /\ UNCHANGED <<remote, client>>
    <2>1. S \subseteq Segment \ Invalid
      BY <1>1 DEF Inv, TypeOK, RefreshInv, Known
    <2>2. Merge(S) \in Index /\ Merge(S).ready
      BY <2>1, MergeFacts
    <2>3. TypeOK'
      BY <1>1, <1>3, <2>1, <2>2 DEF Inv, TypeOK, remote, Server, NoRefresh
    <2>4. IndexInv'
      BY <1>3, <2>2 DEF IndexInv
    <2>5. RegistryInv'
      BY <1>1, <1>3 DEF Inv, RegistryInv, RefreshInv, Tagged, Known, remote
    <2>6. RefreshInv'
      BY <1>3 DEF RefreshInv, NoRefresh
    <2>7. \A s \in segments : Gone(s)' \/ s \in segments'
      BY <1>1, <1>3 DEF Inv, RefreshInv, Known, Gone, remote
    <2>8. \A c \in Client : SubstitutionInv(c)'
      BY <1>0, <1>3, <2>7, SubstitutionKept
    <2> QED BY <2>3, <2>4, <2>5, <2>6, <2>8 DEF Inv
  <1>4. CASE ~Changed
    BY <1>2, <1>4 DEF Store
  <1>5. CASE Changed /\ Conflict(S)
    <2>1. Abandon
      BY <1>5 DEF Store
    <2> QED BY <1>2, <2>1 DEF Abandon
  <1>6. CASE Changed /\ ~Conflict(S)
    BY <1>3, <1>6 DEF Store
  <1> QED BY <1>4, <1>5, <1>6

\* Every step of the server preserves the invariant.
LEMMA ServerStep ==
    ASSUME Inv, Start \/ Refresh \/ Fail \/ Crash
    PROVE  Inv'
  <1>0. [Next]_vars
    BY DEF Next
  <1>t. TypeOK
    BY DEF Inv
  <1>1. CASE Start
    BY <1>0, <1>1, <1>t, AbandonStep DEF Start, TypeOK
  <1>2. CASE List
    <2>1. /\ UNCHANGED <<remote, index, client>>
          /\ faults' \in Nat
          /\ refresh' = [pc |-> "listed", listed |-> Tagged,
                         todo |-> Tagged \ Known(Tagged), loaded |-> {}]
      BY <1>2, <1>t DEF List, TypeOK
    <2>2. refresh' \in Server
      BY <2>1 DEF Server, Tagged
    <2>3. \A s \in segments : s \in Tagged \/ Gone(s)
      BY DEF Inv, TypeOK, RegistryInv, Tagged, Gone
    <2>4. /\ refresh'.pc = "listed" /\ refresh'.loaded = {}
          /\ \A s \in segments : s \in refresh'.listed \/ Gone(s)
      BY <2>1, <2>3
    <2> QED BY <1>0, <2>1, <2>2, <2>4, LoadStep
  <1>3. ASSUME NEW s \in Segment, Load(s) PROVE Inv'
    <2>1. faults' \in Nat /\ refresh.pc = "listed" /\ refresh \in Server
      BY <1>3, <1>t DEF Load, TypeOK
    <2>2. CASE s \in Invalid
      BY <1>0, <1>3, <2>1, <2>2, AbandonStep DEF Load, Abandon
    <2>3. CASE s \notin Invalid
      <3>1. /\ UNCHANGED <<remote, index, client>>
            /\ refresh' = [refresh EXCEPT !.todo = @ \ {s}, !.loaded = @ \union {s}]
            /\ registry[s] = "tagged"
        BY <1>3, <2>3 DEF Load
      <3>2. /\ refresh' \in Server
            /\ refresh'.pc = "listed"
            /\ refresh'.listed = refresh.listed
            /\ refresh'.loaded = refresh.loaded \union {s}
        BY <2>1, <3>1 DEF Server
      <3>3. /\ \A t \in segments : t \in refresh'.listed \/ Gone(t)
            /\ \A t \in refresh'.loaded : registry[t] # "unpushed"
            /\ refresh'.loaded \subseteq Segment \ Invalid
        BY <2>1, <2>3, <3>1, <3>2 DEF Inv, RefreshInv
      <3> QED BY <1>0, <2>1, <3>1, <3>2, <3>3, LoadStep
    <2> QED BY <2>2, <2>3
  <1>4. ASSUME NEW s \in Segment, Skip(s) PROVE Inv'
    <2>1. /\ faults' \in Nat /\ refresh.pc = "listed" /\ refresh \in Server
          /\ UNCHANGED <<remote, index, client>>
          /\ refresh' = [refresh EXCEPT !.todo = @ \ {s}]
      BY <1>4, <1>t DEF Skip, TypeOK
    <2>2. /\ refresh' \in Server
          /\ refresh'.pc = "listed"
          /\ refresh'.listed = refresh.listed
          /\ refresh'.loaded = refresh.loaded
      BY <2>1 DEF Server
    <2> QED BY <1>0, <2>1, <2>2, LoadStep DEF Inv, RefreshInv
  <1>5. CASE Store
    BY <1>5, StoreStep
  <1>6. CASE Fail
    BY <1>0, <1>6, <1>t, AbandonStep DEF Fail, Abandon, TypeOK
  <1>7. CASE Crash
    <2>1. TypeOK'
      BY <1>7, <1>t, NoIndexType
         DEF Crash, TypeOK, remote, Server, Down, NoRefresh, Substitution, NoSubstitution
    <2>2. IndexInv' /\ RefreshInv'
      BY <1>7 DEF Crash, IndexInv, RefreshInv, NoIndex, Down, NoRefresh
    <2>3. RegistryInv'
      BY <1>7 DEF Crash, Inv, RegistryInv, Tagged, remote
    <2>4. \A c \in Client : SubstitutionInv(c)'
      BY <1>7 DEF Crash, SubstitutionInv, NoSubstitution
    <2> QED BY <2>1, <2>2, <2>3, <2>4 DEF Inv
  <1> QED BY <1>1, <1>2, <1>3, <1>4, <1>5, <1>6, <1>7 DEF Refresh

-----------------------------------------------------------------------------
\* Steps of a client.

\* A NAR whose URL was handed out is in the index while one of its segments is.
LEMMA FoundIsIssued ==
    ASSUME Inv, NEW c \in Client, client[c].pc = "have",
           NEW s \in client[c].from, ~Gone(s)
    PROVE  /\ client[c].issued \in current.nars
           /\ \A b \in current.nars :
                Url[b] = Url[client[c].issued] => b = client[c].issued
  <1>1. s \in segments /\ client[c].issued \in NARs(s)
    BY DEF Inv, SubstitutionInv
  <1>2. current = Merge(segments) /\ ~Conflict(segments) /\ segments \in SUBSET Segment
    BY <1>1 DEF Inv, IndexInv, TypeOK
  <1>3. client[c].issued \in current.nars
    BY <1>1, <1>2, MergeFacts
  <1>4. ASSUME NEW b \in current.nars, Url[b] = Url[client[c].issued]
        PROVE  b = client[c].issued
    <2>1. PICK t \in segments : b \in NARs(t)
      BY <1>2, MergeFacts
    <2> QED BY <1>1, <1>2, <1>4, <2>1 DEF Conflict
  <1> QED BY <1>3, <1>4

\* The answers a client gets preserve what it relies on.
LEMMA ClientInvStep ==
    ASSUME Inv, NEW c \in Client,
           \/ \E p \in Path : GetNarInfo(c, p)
           \/ GetNAR(c) \/ ReadBlob(c) \/ Forget(c)
    PROVE  client' \in [Client -> Substitution] /\ SubstitutionInv(c)'
  <1> DEFINE x == client[c]
  <1>t. TypeOK /\ x \in Substitution /\ SubstitutionInv(c) /\ UNCHANGED <<remote, index>>
    BY DEF Inv, TypeOK, GetNarInfo, GetNAR, ReadBlob, Forget
  <1>g. \A s : Gone(s)' <=> Gone(s)
    BY <1>t DEF Gone, remote
  <1>1. ASSUME NEW p \in Path, GetNarInfo(c, p)
        PROVE  client' \in [Client -> Substitution] /\ SubstitutionInv(c)'
    <2> DEFINE b == current.entries[p]
               y == [pc |-> "have", issued |-> b, blob |-> NoBlob,
                     from |-> {s \in segments : b \in NARs(s)}]
    <2>1. client' = [client EXCEPT ![c] = y]
      BY <1>1 DEF GetNarInfo
    <2>2. b \in Blob \union {NoBlob} /\ segments \subseteq Segment
      BY <1>t DEF TypeOK, Index
    <2>3. y \in Substitution
      BY <2>2 DEF Substitution
    <2>4. client' \in [Client -> Substitution] /\ client'[c] = y
      BY <1>t, <2>1, <2>3 DEF TypeOK
    <2>5. \A s \in segments : registry[s] # "unpushed"
      BY DEF Inv, RegistryInv
    <2> QED BY <1>t, <2>4, <2>5 DEF SubstitutionInv, remote, index
  <1>2. ASSUME GetNAR(c)
        PROVE  client' \in [Client -> Substitution] /\ SubstitutionInv(c)'
    <2> DEFINE found == {b \in current.nars : Url[b] = Url[x.issued]}
    <2>0. x.pc = "have"
      BY <1>2 DEF GetNAR
    <2>1. ASSUME NEW b \in found,
                 client' = [client EXCEPT ![c].pc = "fetch", ![c].blob = b]
          PROVE  client' \in [Client -> Substitution] /\ SubstitutionInv(c)'
      <3>1. b \in Blob
        BY <1>t DEF TypeOK, Index
      <3>2. /\ client'[c] = [x EXCEPT !.pc = "fetch", !.blob = b]
            /\ client' \in [Client -> Substitution]
        BY <1>t, <2>1, <3>1 DEF TypeOK, Substitution
      <3>3. b = x.issued \/ \A s \in x.from : Gone(s)
        BY <2>0, FoundIsIssued
      <3>4. /\ client'[c].pc = "fetch" /\ client'[c].blob = b
            /\ client'[c].issued = x.issued /\ client'[c].from = x.from
        BY <1>t, <3>2 DEF Substitution
      <3> QED BY <1>t, <1>g, <3>2, <3>3, <3>4 DEF SubstitutionInv, remote
    <2>2. ASSUME found = {}, client' = [client EXCEPT ![c].pc = "missing"]
          PROVE  client' \in [Client -> Substitution] /\ SubstitutionInv(c)'
      <3>1. /\ client'[c] = [x EXCEPT !.pc = "missing"]
            /\ client' \in [Client -> Substitution]
        BY <1>t, <2>2 DEF TypeOK, Substitution
      <3>2. \A s \in x.from : Gone(s)
        BY <2>0, <2>2, FoundIsIssued
      <3>3. /\ client'[c].pc = "missing"
            /\ client'[c].issued = x.issued /\ client'[c].from = x.from
        BY <1>t, <3>1 DEF Substitution
      <3> QED BY <1>t, <1>g, <3>1, <3>2, <3>3 DEF SubstitutionInv, remote
    <2> QED BY <1>2, <2>1, <2>2 DEF GetNAR
  <1>3. ASSUME ReadBlob(c)
        PROVE  client' \in [Client -> Substitution] /\ SubstitutionInv(c)'
    <2>1. PICK pc \in {"done", "failed"} :
            /\ client' = [client EXCEPT ![c].pc = pc]
            /\ pc = "failed" => x.blob \notin blobs
      BY <1>3 DEF ReadBlob
    <2>2. /\ client'[c] = [x EXCEPT !.pc = pc]
          /\ client' \in [Client -> Substitution]
      BY <1>t, <2>1 DEF TypeOK, Substitution
    <2>3. /\ client'[c].pc = pc
          /\ client'[c].issued = x.issued /\ client'[c].from = x.from
      BY <1>t, <2>2 DEF Substitution
    <2>4. ASSUME pc = "failed", NEW s \in x.from PROVE Gone(s)
      <3>1. x.pc = "fetch" /\ x.from \subseteq Segment
        BY <1>3, <1>t DEF ReadBlob, Substitution
      <3>2. registry[s] # "unpushed" /\ x.issued \in NARs(s)
        BY <1>t DEF SubstitutionInv
      <3>3. registry[s] = "tagged" => NARs(s) \subseteq blobs
        BY <3>1 DEF Inv, RegistryInv, Tagged
      <3>4. registry[s] \in {"unpushed", "tagged", "deleted"}
        BY <1>t, <3>1 DEF TypeOK
      <3> QED BY <1>t, <2>1, <2>4, <3>1, <3>2, <3>3, <3>4 DEF SubstitutionInv, Gone
    <2> QED BY <1>t, <1>g, <2>2, <2>3, <2>4 DEF SubstitutionInv, remote
  <1>4. ASSUME Forget(c)
        PROVE  client' \in [Client -> Substitution] /\ SubstitutionInv(c)'
    <2>1. NoSubstitution \in Substitution
      BY DEF NoSubstitution, Substitution
    <2>2. client' \in [Client -> Substitution] /\ client'[c] = NoSubstitution
      BY <1>4, <1>t, <2>1 DEF Forget, TypeOK
    <2> QED BY <2>2 DEF SubstitutionInv, NoSubstitution
  <1> QED BY <1>1, <1>2, <1>3, <1>4

\* Every step of a client preserves the invariant.
LEMMA ClientStep ==
    ASSUME Inv, NEW c \in Client,
           \/ \E p \in Path : GetNarInfo(c, p)
           \/ GetNAR(c) \/ ReadBlob(c) \/ Forget(c)
    PROVE  Inv'
  <1>0. [Next]_vars
    BY DEF Next
  <1>1. /\ UNCHANGED <<remote, index, refresh, faults>>
        /\ \A d \in Client \ {c} : client'[d] = client[d]
    BY DEF Inv, TypeOK, GetNarInfo, GetNAR, ReadBlob, Forget
  <1>2. TypeOK'
    BY <1>1, ClientInvStep DEF Inv, TypeOK, remote, index
  <1>3. IndexInv' /\ RegistryInv' /\ RefreshInv'
    BY <1>1 DEF Inv, IndexInv, RegistryInv, RefreshInv, Tagged, Gone, remote, index
  <1>4. \A d \in Client : SubstitutionInv(d)'
    BY <1>0, <1>1, ClientInvStep, SubstitutionKept DEF index
  <1> QED BY <1>2, <1>3, <1>4 DEF Inv

\* Every step preserves the invariant.
LEMMA InvStep == Inv /\ [Next]_vars => Inv'
  <1> SUFFICES ASSUME Inv, [Next]_vars PROVE Inv'
    OBVIOUS
  <1>1. CASE UNCHANGED vars
    BY <1>1 DEF vars, Inv, TypeOK, IndexInv, RegistryInv, RefreshInv, SubstitutionInv,
                Tagged, Gone
  <1> QED BY <1>1, RemoteStep, ServerStep, ClientStep DEF Next

-----------------------------------------------------------------------------
\* The invariant holds in every behaviour.
THEOREM IndexInvariance == Spec => []Inv
  BY InitInv, InvStep, PTL DEF Spec

\* Every variable keeps its type, and no refused segment is in the index.
THEOREM IndexTypes == Spec => []TypeOK
  <1>1. Inv => TypeOK
    BY DEF Inv
  <1> QED BY <1>1, IndexInvariance, PTL

\* The index is that of the segments it is said to be made of, and has one NAR
\* under every URL.
THEOREM IndexIsMerged == Spec => []IndexMatches
  <1>1. Inv => IndexMatches
    BY DEF Inv, IndexInv, IndexMatches
  <1> QED BY <1>1, IndexInvariance, PTL

\* Within the life of a server, a NAR whose URL was handed out can be had until
\* every segment that had it then is deleted.
THEOREM IssuedIsServed == Spec => []IssuedServed
  <1>1. Inv => IssuedServed
    BY DEF Inv, SubstitutionInv, IssuedServed, Gone
  <1> QED BY <1>1, IndexInvariance, PTL

-----------------------------------------------------------------------------
\* loadTags: the goroutines that are under way, and what is known of them.

Busy == {t \in Tag : fetch[t] \in Active}

Honest == \A t \in Tag : fetch[t] = "missing" => t \in gone
Counting == \A t \in Tag : fetch[t] \in Asking => attempt[t] \in 1..Attempts

LoadInv == LoadTypeOK /\ Honest /\ Counting /\ (answer # "listed" => items = {})

LEMMA BusyFinite == IsFiniteSet(Busy) /\ Cardinality(Busy) \in Nat
  <1>1. IsFiniteSet(Tag)
    BY FS_Interval, RequestsAssumption DEF Tag
  <1>2. IsFiniteSet(Busy)
    BY <1>1, FS_Subset DEF Busy
  <1> QED BY <1>2, FS_CardinalityType

LEMMA BusyFinite2 == IsFiniteSet(Busy') /\ Cardinality(Busy') \in Nat
  <1>1. IsFiniteSet(Tag)
    BY FS_Interval, RequestsAssumption DEF Tag
  <1>2. IsFiniteSet(Busy')
    BY <1>1, FS_Subset DEF Busy
  <1> QED BY <1>2, FS_CardinalityType

\* A goroutine that goes on or ends does not add to those that are under way.
LEMMA NoMoreBusy ==
    ASSUME Cardinality(Busy) <= Limit, Busy' \subseteq Busy
    PROVE  Cardinality(Busy') <= Limit
  <1>1. Cardinality(Busy') <= Cardinality(Busy)
    BY BusyFinite, FS_Subset
  <1> QED BY <1>1, BusyFinite, BusyFinite2, RequestsAssumption

\* One that starts is one more.
LEMMA OneMoreBusy ==
    ASSUME NEW t \in Tag, Cardinality(Busy) < Limit, Busy' = Busy \cup {t}
    PROVE  Cardinality(Busy') <= Limit
  <1>1. Cardinality(Busy') = IF t \in Busy THEN Cardinality(Busy) ELSE Cardinality(Busy) + 1
    BY BusyFinite, FS_AddElement
  <1> QED BY <1>1, BusyFinite, RequestsAssumption

\* What every action of a goroutine does.
LEMMA BecomesKeeps ==
    ASSUME LoadInv, NEW t \in Tag, NEW state, NEW tries,
           Becomes(t, state, tries), cancelled' \in BOOLEAN,
           state \in Active \cup Ended, tries \in 0..Attempts,
           state = "missing" => t \in gone,
           state \in Asking => tries \in 1..Attempts,
           Cardinality(Busy') <= Limit
    PROVE  LoadInv'
  <1>1. LoadTypeOK'
    BY DEF LoadInv, LoadTypeOK, Becomes, Busy
  <1>2. Honest'
    BY DEF LoadInv, LoadTypeOK, Becomes, Honest
  <1>3. Counting'
    BY DEF LoadInv, LoadTypeOK, Becomes, Counting
  <1>4. (answer # "listed" => items = {})'
    BY DEF LoadInv, Becomes
  <1> QED BY <1>1, <1>2, <1>3, <1>4 DEF LoadInv

\* One that is under way stays so or ends.
LEMMA GoesOn ==
    ASSUME LoadInv, NEW t \in Tag, NEW state, NEW tries,
           Becomes(t, state, tries), fetch[t] \in Active
    PROVE  Cardinality(Busy') <= Limit
  <1>1. Busy' \subseteq Busy
    BY DEF LoadInv, LoadTypeOK, Becomes, Busy
  <1>2. Cardinality(Busy) <= Limit
    BY DEF LoadInv, LoadTypeOK, Busy
  <1> QED BY <1>1, <1>2, NoMoreBusy

LEMMA FailKeeps ==
    ASSUME LoadInv, NEW t \in Tag, fetch[t] \in Active, FailFetch(t)
    PROVE  LoadInv'
  <1>1. Cardinality(Busy') <= Limit
    BY GoesOn DEF FailFetch
  <1>2. attempt[t] \in 0..Attempts
    BY DEF LoadInv, LoadTypeOK
  <1> QED
    BY <1>1, <1>2, BecomesKeeps DEF FailFetch, Ended, Asking, Active

LEMMA GoKeeps == ASSUME LoadInv, NEW t \in Tag, Go(t) PROVE LoadInv'
  <1>1. Busy' = Busy \cup {t}
    BY DEF LoadInv, LoadTypeOK, Go, Becomes, Busy, Active
  <1>2. Cardinality(Busy') <= Limit
    BY <1>1, OneMoreBusy DEF Go, Busy
  <1>3. cancelled' \in BOOLEAN
    BY DEF Go, LoadInv, LoadTypeOK
  <1> QED
    BY <1>2, <1>3, BecomesKeeps, RequestsAssumption DEF Go, Active, Asking

LEMMA BeginKeeps == ASSUME LoadInv, NEW t \in Tag, Begin(t) PROVE LoadInv'
  <1>1. CASE FailFetch(t)
    BY <1>1, FailKeeps DEF Begin, Active
  <1>2. CASE Becomes(t, "manifest", 1) /\ UNCHANGED cancelled
    <2>1. Cardinality(Busy') <= Limit
      BY <1>2, GoesOn DEF Begin, Active
    <2>2. cancelled' \in BOOLEAN /\ 1 \in 0..Attempts /\ 1 \in 1..Attempts
      BY <1>2, RequestsAssumption DEF LoadInv, LoadTypeOK
    <2> QED
      BY <1>2, <2>1, <2>2, BecomesKeeps DEF Active, Asking
  <1> QED BY <1>1, <1>2 DEF Begin

LEMMA RespondKeeps == ASSUME LoadInv, NEW t \in Tag, Respond(t) PROVE LoadInv'
  <1>0. fetch[t] \in Active
    BY DEF Respond, Succeed, NotFound, Timeout, Error, Asking, Active
  <1>1. attempt[t] \in 0..Attempts /\ cancelled \in BOOLEAN
    BY DEF LoadInv, LoadTypeOK
  <1>2. ASSUME NEW state, NEW tries, Becomes(t, state, tries), UNCHANGED cancelled,
               state \in Active \cup Ended, tries \in 0..Attempts,
               state = "missing" => t \in gone,
               state \in Asking => tries \in 1..Attempts
        PROVE  LoadInv'
    <2>1. Cardinality(Busy') <= Limit
      BY <1>0, <1>2, GoesOn
    <2> QED BY <1>1, <1>2, <2>1, BecomesKeeps
  <1>3. CASE Succeed(t)
    <2>1. CASE Becomes(t, "metadata", 1) /\ UNCHANGED cancelled
      BY <1>2, <2>1, RequestsAssumption DEF Active, Asking
    <2>2. CASE Becomes(t, "loaded", attempt[t]) /\ UNCHANGED cancelled
      BY <1>1, <1>2, <2>2 DEF Ended, Asking
    <2> QED BY <1>3, <2>1, <2>2 DEF Succeed
  <1>4. CASE NotFound(t)
    <2>1. CASE FailFetch(t)
      BY <1>0, <2>1, FailKeeps
    <2>2. CASE Becomes(t, "missing", attempt[t]) /\ UNCHANGED cancelled
      BY <1>1, <1>2, <1>4, <2>2 DEF NotFound, Ended, Asking
    <2> QED BY <1>4, <2>1, <2>2 DEF NotFound
  <1>5. CASE Timeout(t)
    <2>1. CASE FailFetch(t)
      BY <1>0, <2>1, FailKeeps
    <2>2. CASE /\ attempt[t] < Attempts
               /\ Becomes(t, fetch[t], attempt[t] + 1) /\ UNCHANGED cancelled
      <3>1. attempt[t] + 1 \in 1..Attempts
        BY <1>1, <2>2, RequestsAssumption
      <3> QED BY <1>2, <1>5, <2>2, <3>1, RequestsAssumption DEF Timeout, Active, Asking
    <2> QED BY <1>5, <2>1, <2>2 DEF Timeout
  <1>6. CASE Error(t)
    BY <1>0, <1>6, FailKeeps DEF Error
  <1> QED BY <1>3, <1>4, <1>5, <1>6 DEF Respond

LEMMA OthersKeep ==
    ASSUME LoadInv, Interrupt \/ Return \/ (\E t \in Tag : Disappear(t)) \/ UNCHANGED loadVars
    PROVE  LoadInv'
  <1>1. CASE Interrupt
    BY <1>1 DEF LoadInv, LoadTypeOK, Honest, Counting, Interrupt
  <1>2. CASE Return
    BY <1>2 DEF LoadInv, LoadTypeOK, Honest, Counting, Return
  <1>3. CASE \E t \in Tag : Disappear(t)
    BY <1>3 DEF LoadInv, LoadTypeOK, Honest, Counting, Disappear
  <1>4. CASE UNCHANGED loadVars
    BY <1>4 DEF LoadInv, LoadTypeOK, Honest, Counting, loadVars
  <1> QED BY <1>1, <1>2, <1>3, <1>4

LEMMA LoadInitInv == LoadInit => LoadInv
  <1> SUFFICES ASSUME LoadInit PROVE LoadInv
    OBVIOUS
  <1>1. Busy = {}
    BY DEF LoadInit, Busy, Active, Asking
  <1>2. Cardinality(Busy) <= Limit
    BY <1>1, FS_EmptySet, RequestsAssumption
  <1>a. Cardinality({t \in Tag : fetch[t] \in Active}) <= Limit
    BY <1>2 DEF Busy
  <1>b. fetch \in [Tag -> {"waiting"} \cup Active \cup Ended] /\ attempt \in [Tag -> 0..Attempts]
    BY RequestsAssumption DEF LoadInit
  <1>3. LoadTypeOK
    BY <1>a, <1>b DEF LoadInit, LoadTypeOK
  <1>4. Honest /\ Counting
    BY DEF LoadInit, Honest, Counting, Asking
  <1> QED
    BY <1>3, <1>4 DEF LoadInit, LoadInv

LEMMA LoadNextInv == LoadInv /\ [LoadNext]_loadVars => LoadInv'
  <1> SUFFICES ASSUME LoadInv, [LoadNext]_loadVars PROVE LoadInv'
    OBVIOUS
  <1>1. CASE \E t \in Tag : Go(t) \/ Begin(t) \/ Respond(t)
    BY <1>1, GoKeeps, BeginKeeps, RespondKeeps
  <1>2. CASE Interrupt \/ Return \/ (\E t \in Tag : Disappear(t)) \/ UNCHANGED loadVars
    BY <1>2, OthersKeep
  <1> QED BY <1>1, <1>2 DEF LoadNext, Proceed

LEMMA LoadInvariance == LoadSpec => []LoadInv
  BY LoadInitInv, LoadNextInv, PTL DEF LoadSpec

(* The types, and no more goroutines under way than the limit allows.      *)
THEOREM LoadTypes == LoadSpec => []LoadTypeOK
  <1>1. LoadInv => LoadTypeOK
    BY DEF LoadInv
  <1> QED BY <1>1, LoadInvariance, PTL

-----------------------------------------------------------------------------
\* A list lacks only what is gone.
LEMMA ReturnImplements == LoadInv /\ Return => L!Answer \/ L!Refuse
  <1> SUFFICES ASSUME LoadInv, Return PROVE L!Answer \/ L!Refuse
    OBVIOUS
  <1>1. CASE answer' = "failed" /\ UNCHANGED items
    BY <1>1 DEF Return, L!Refuse
  <1>2. CASE answer' = "listed" /\ items' = {t \in Tag : fetch[t] # "missing"}
    <2> DEFINE skipped == {t \in Tag : fetch[t] = "missing"}
    <2>1. skipped \in SUBSET gone
      BY DEF LoadInv, Honest
    <2>2. items' = Tag \ skipped
      BY <1>2
    <2> QED BY <1>2, <2>1, <2>2 DEF Return, L!Answer
  <1> QED BY <1>1, <1>2 DEF Return

LEMMA StepImplements == LoadInv /\ [LoadNext]_loadVars => [L!Next]_(L!vars)
  <1> SUFFICES ASSUME LoadInv, [LoadNext]_loadVars PROVE [L!Next]_(L!vars)
    OBVIOUS
  <1>1. CASE Return
    BY <1>1, ReturnImplements DEF L!Next
  <1>2. CASE \E t \in Tag : Disappear(t)
    BY <1>2 DEF Disappear, L!Next, L!Disappear
  <1>3. CASE Interrupt \/ (\E t \in Tag : Go(t) \/ Begin(t) \/ Respond(t)) \/ UNCHANGED loadVars
    BY <1>3 DEF Interrupt, Go, Begin, Respond, Succeed, NotFound, Timeout, Error, FailFetch,
                Becomes, loadVars, L!vars
  <1> QED BY <1>1, <1>2, <1>3 DEF LoadNext, Proceed

(* loadTags answers as if at one moment: with a failure, or with every      *)
(* segment of the list that is not gone, whatever fails, is cancelled or    *)
(* deleted meanwhile.                                                      *)
THEOREM LoadImplementsListing == LoadSpec => ImplementsListing
  <1>1. LoadInit => L!Init
    BY DEF LoadInit, L!Init
  <1> QED BY <1>1, LoadInvariance, StepImplements, PTL DEF LoadSpec, ImplementsListing, L!Spec
=============================================================================
