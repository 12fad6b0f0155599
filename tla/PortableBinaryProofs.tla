------------------------ MODULE PortableBinaryProofs ------------------------
(***************************************************************************)
(* Proofs about normalizeFile, for files with any libraries, search paths  *)
(* and number of slices.                                                   *)
(*                                                                         *)
(* What is decided about a Mach-O file is decided on info, which must      *)
(* therefore be what the file is by then (MachOInv); and the edit must     *)
(* have changed the file whenever it is signed again (Changed).            *)
(***************************************************************************)
EXTENDS PortableBinary, TLAPS, WellFoundedInduction, SequenceTheorems

\* The load commands are not those of the original.
Changed(f) ==
    \/ [i \in DOMAIN f.slices |-> f.slices[i].deps] # [i \in DOMAIN original.slices |-> original.slices[i].deps]
    \/ [i \in DOMAIN f.slices |-> f.slices[i].rpaths] # [i \in DOMAIN original.slices |-> original.slices[i].rpaths]

\* The file after the edit, also when it was signed.
EditedFrom(f) ==
    /\ f \in ThinFile \cup FatFile
    /\ IsMachO(f)
    /\ DOMAIN f.slices = DOMAIN original.slices
    /\ \A i \in DOMAIN f.slices : original.slices[i].entitled => f.slices[i].entitled
    /\ Changed(f)

Intact(f) == \A i \in DOMAIN f.slices : f.slices[i].intact

\* Nothing is left to repair.
Good(f) == /\ f.magic = "macho"
           /\ f.slices[1].deps \subseteq Portable
           /\ f.slices[1].id \notin {"nix", "resolv"}
           /\ ToSet(f.slices[1].rpaths) \subseteq {"loader"}

OtherInv ==
    /\ step = "dispatch" => file = original
    /\ step \in {"strip", "validate"} => file \in ELFFile /\ original.magic = "elf"
    /\ step = "validate" => ~file.refs
    /\ step = "text" => file = original /\ ~IsELF(file) /\ ~IsMachO(file)

MachOInv ==
    /\ step \in {"inspect", "edit"} => file = original
    /\ step \in {"inspect", "edit", "sign", "reinspect", "check"} => IsMachO(original)
    /\ step \in {"edit", "sign"} => info = InfoOf(original)
    /\ step \in {"sign", "reinspect"} => EditedFrom(file)
    /\ step = "reinspect" => Intact(file)
    /\ step = "check" => /\ info = InfoOf(file)
                         /\ IsMachO(file)
                         /\ file = original \/ (EditedFrom(file) /\ Intact(file))
    /\ step \in {"sign", "reinspect", "check"} /\ Repairable(original) => Good(file)

KeptInv == RunsOnDarwin /\ Signed /\ DataIntact

Inv == original \in Files /\ OtherInv /\ MachOInv /\ KeptInv

-----------------------------------------------------------------------------
\* Taking one element out of a sequence.

LEMMA Least ==
    ASSUME NEW I \in SUBSET Nat, I # {}
    PROVE  \E x \in I : \A y \in I : x <= y
  <1> DEFINE R == {ss \in Nat \X Nat : ss[1] < ss[2]}
  <1>1. IsWellFoundedOn(R, Nat)
    BY NatLessThanWellFounded DEF OpToRel
  <1>2. PICK x \in I : \A y \in I : ~ (<<y, x>> \in R)
    <2> HIDE DEF R
    <2> QED BY <1>1, WFMin
  <1>3. \A y \in I : ~ (y < x)
    BY <1>2
  <1> QED BY <1>3

\* What is left without the k-th element.
LEMMA RemoveAtIs ==
    ASSUME NEW S, NEW s \in Seq(S), NEW k \in 1..Len(s)
    PROVE  /\ RemoveAt(s, k) \in Seq(S)
           /\ Len(RemoveAt(s, k)) = Len(s) - 1
           /\ \A j \in 1..Len(RemoveAt(s, k)) : \E i \in DOMAIN s \ {k} : RemoveAt(s, k)[j] = s[i]
  <1> DEFINE a == SubSeq(s, 1, k - 1)
             b == SubSeq(s, k + 1, Len(s))
             r == RemoveAt(s, k)
  <1>0. /\ k \in Nat /\ Len(s) \in Nat /\ 1 <= k /\ k <= Len(s)
        /\ DOMAIN s = 1..Len(s)
        /\ \A j \in 1..Len(s) : s[j] \in S
    OBVIOUS
  <1>1. a \in Seq(S) /\ Len(a) = k - 1 /\ \A j \in 1..(k - 1) : a[j] = s[j]
    <2>1. /\ SubSeq(s, 1, k - 1) \in Seq(S)
          /\ Len(SubSeq(s, 1, k - 1)) = IF 1 <= k - 1 THEN (k - 1) - 1 + 1 ELSE 0
          /\ \A i \in 1..((k - 1) - 1 + 1) : SubSeq(s, 1, k - 1)[i] = s[1 + i - 1]
      BY <1>0, SubSeqProperties, SMTT(30)
    <2> QED BY <1>0, <2>1
  <1>2. b \in Seq(S) /\ Len(b) = Len(s) - k /\ \A j \in 1..(Len(s) - k) : b[j] = s[j + k]
    <2>1. /\ SubSeq(s, k + 1, Len(s)) \in Seq(S)
          /\ Len(SubSeq(s, k + 1, Len(s))) = IF k + 1 <= Len(s) THEN Len(s) - (k + 1) + 1 ELSE 0
          /\ \A i \in 1..(Len(s) - (k + 1) + 1) : SubSeq(s, k + 1, Len(s))[i] = s[(k + 1) + i - 1]
      BY <1>0, SubSeqProperties, SMTT(30)
    <2>2. Len(b) = Len(s) - k
      <3>1. \A n \in Nat : k <= n => (IF k + 1 <= n THEN n - (k + 1) + 1 ELSE 0) = n - k
        OBVIOUS
      <3> QED BY <1>0, <2>1, <3>1
    <2>3. ASSUME NEW j \in 1..(Len(s) - k) PROVE b[j] = s[j + k]
      <3>1. j \in 1..(Len(s) - (k + 1) + 1) /\ (k + 1) + j - 1 = j + k
        BY <1>0
      <3> QED BY <2>1, <3>1
    <2> QED BY <2>1, <2>2, <2>3
  <1>3. r = a \o b
    BY DEF RemoveAt
  <1> HIDE DEF a, b, r
  <1>4. /\ r \in Seq(S) /\ Len(r) = Len(s) - 1
        /\ \A i \in 1..(Len(s) - 1) : r[i] = IF i <= k - 1 THEN a[i] ELSE b[i - (k - 1)]
    <2>1. /\ a \o b \in Seq(S) /\ Len(a \o b) = Len(a) + Len(b)
          /\ \A i \in 1..(Len(a) + Len(b)) : (a \o b)[i] = IF i <= Len(a) THEN a[i] ELSE b[i - Len(a)]
      BY <1>1, <1>2, ConcatProperties
    <2>2. Len(a) + Len(b) = Len(s) - 1
      BY <1>0, <1>1, <1>2
    <2> QED BY <1>1, <1>3, <2>1, <2>2
  <1>5. ASSUME NEW j \in 1..Len(r) PROVE \E i \in DOMAIN s \ {k} : r[j] = s[i]
    <2>1. CASE j < k
      <3>0. j \in 1..(Len(s) - 1)
        BY <1>4
      <3>1. j \in 1..(k - 1) /\ j <= k - 1 /\ j \in DOMAIN s \ {k}
        BY <1>0, <2>1, <3>0
      <3> QED BY <1>1, <1>4, <3>0, <3>1
    <2>2. CASE ~ (j < k)
      <3>0. j \in 1..(Len(s) - 1)
        BY <1>4
      <3>1. /\ ~ (j <= k - 1)
            /\ j - (k - 1) \in 1..(Len(s) - k)
            /\ (j - (k - 1)) + k = j + 1
            /\ j + 1 \in DOMAIN s \ {k}
        BY <1>0, <2>2, <3>0
      <3>2. r[j] = b[j - (k - 1)]
        BY <1>4, <3>0, <3>1
      <3>3. b[j - (k - 1)] = s[j + 1]
        BY <1>2, <3>1
      <3> QED BY <3>1, <3>2, <3>3
    <2> QED BY <2>1, <2>2
  <1> QED BY <1>4, <1>5 DEF r

\* Exactly one occurrence goes, and what is left was there before.
LEMMA RemoveFirstIs ==
    ASSUME NEW S, NEW s \in Seq(S), NEW e \in ToSet(s)
    PROVE  /\ RemoveFirst(s, e) \in Seq(S)
           /\ Len(RemoveFirst(s, e)) = Len(s) - 1
           /\ \E k \in DOMAIN s : /\ s[k] = e
                                  /\ ToSet(RemoveFirst(s, e)) \subseteq {s[j] : j \in DOMAIN s \ {k}}
  <1> DEFINE I == {i \in 1..Len(s) : s[i] = e}
  <1>1. I \in SUBSET Nat /\ I # {}
    BY DEF ToSet
  <1>2. PICK k \in I : k = Min(I)
    <2> HIDE DEF I
    <2> QED BY <1>1, Least DEF Min
  <1>3. RemoveFirst(s, e) = RemoveAt(s, k)
    BY <1>1, <1>2 DEF RemoveFirst, SelectInSeq
  <1>4. k \in 1..Len(s) /\ s[k] = e
    BY <1>2
  <1>5. /\ RemoveAt(s, k) \in Seq(S)
        /\ Len(RemoveAt(s, k)) = Len(s) - 1
        /\ \A j \in 1..Len(RemoveAt(s, k)) : \E i \in DOMAIN s \ {k} : RemoveAt(s, k)[j] = s[i]
    BY <1>4, RemoveAtIs
  <1>6. ToSet(RemoveFirst(s, e)) \subseteq {s[j] : j \in DOMAIN s \ {k}}
    BY <1>3, <1>5 DEF ToSet
  <1> QED BY <1>3, <1>4, <1>5, <1>6

\* A Mach-O file has its slices, and a thin one has one.
LEMMA MachOFacts ==
    ASSUME original \in Files, IsMachO(original)
    PROVE  /\ original \in ThinFile \cup FatFile
           /\ original.slices \in Seq(Slice)
           /\ original.magic = "macho" => DOMAIN original.slices = {1}
           /\ \A i \in DOMAIN original.slices :
                 /\ original.slices[i] \in Slice
                 /\ original.slices[i].intact
                 /\ original.slices[i].entitled => original.slices[i].signed
  <1>1. original.magic \in {"macho", "cafebabe"}
    BY DEF IsMachO
  <1>2. original \in ThinFile \cup FatFile
    BY <1>1, FilesAssumption DEF ELFFile, OtherFile
  <1>3. original.slices \in Seq(Slice)
    BY <1>2 DEF ThinFile, FatFile
  <1>4. original.magic = "macho" => DOMAIN original.slices = {1}
    <2>1. original.magic = "macho" => Len(original.slices) = 1
      BY FilesAssumption
    <2> QED BY <1>3, <2>1
  <1> QED BY <1>1, <1>2, <1>3, <1>4, FilesAssumption

-----------------------------------------------------------------------------
\* What becomes of the file, step by step.

\* The steps at which nothing is promised of what is shipped.
LEMMA NotKept == ASSUME step # "kept" PROVE KeptInv
  BY DEF KeptInv, RunsOnDarwin, Signed, DataIntact, Kept

LEMMA InitInv == Init => Inv
  <1> SUFFICES ASSUME Init PROVE Inv
    OBVIOUS
  <1>1. step = "dispatch" /\ file = original /\ original \in Files
    BY DEF Init
  <1> QED BY <1>1, NotKept DEF Inv, OtherInv, MachOInv

LEMMA DispatchInv == ASSUME Inv, Dispatch PROVE Inv'
  <1>1. /\ file' = file /\ original' = original /\ file = original /\ original \in Files
        /\ info' = info /\ platform' = platform /\ allowDynamic' = allowDynamic
    BY DEF Dispatch, Becomes, Inv, OtherInv
  <1>2. CASE IsELF(file)
    <2>1. step' = "strip" /\ original.magic = "elf"
      BY <1>1, <1>2 DEF Dispatch, Becomes, IsELF, IsMachO
    <2>2. original \in ELFFile
      BY <1>1, <2>1, FilesAssumption DEF ThinFile, FatFile, OtherFile
    <2>3. KeptInv'
      BY <2>1 DEF KeptInv, RunsOnDarwin, Signed, DataIntact, Kept
    <2> QED BY <1>1, <2>1, <2>2, <2>3 DEF Inv, OtherInv, MachOInv
  <1>3. CASE ~ IsELF(file) /\ IsMachO(file)
    <2>1. /\ step' = IF platform = "darwin" THEN "inspect" ELSE "kept"
          /\ file.magic \notin {"elf", "text", "data"}
      BY <1>3 DEF Dispatch, Becomes, IsELF, IsMachO
    <2>2. KeptInv'
      BY <1>1, <2>1 DEF KeptInv, RunsOnDarwin, Signed, DataIntact, Kept
    <2> QED BY <1>1, <1>3, <2>1, <2>2 DEF Inv, OtherInv, MachOInv
  <1>4. CASE ~ IsELF(file) /\ ~ IsMachO(file)
    <2>1. step' = "text"
      BY <1>4 DEF Dispatch, Becomes
    <2>2. KeptInv'
      BY <2>1 DEF KeptInv, RunsOnDarwin, Signed, DataIntact, Kept
    <2>3. ~ IsELF(file') /\ ~ IsMachO(file')
      BY <1>1, <1>4
    <2> QED BY <1>1, <2>1, <2>2, <2>3 DEF Inv, OtherInv, MachOInv, IsELF, IsMachO
  <1> QED BY <1>2, <1>3, <1>4

LEMMA RejectedInv ==
    ASSUME Inv, step' \in {"rejected"}, original' = original
    PROVE  Inv'
  <1>1. KeptInv'
    BY DEF KeptInv, RunsOnDarwin, Signed, DataIntact, Kept
  <1> QED BY <1>1 DEF Inv, OtherInv, MachOInv

LEMMA NukeInv == ASSUME Inv, Nuke PROVE Inv'
  <1>1. CASE Unusable
    BY <1>1, RejectedInv DEF Unusable, Becomes
  <1>2. ASSUME Becomes([file EXCEPT !.refs = FALSE],
                       IF platform = "linux" /\ ~ file.exempt THEN "validate" ELSE "kept")
        PROVE  Inv'
    <2>1. file \in ELFFile /\ original.magic = "elf"
      BY DEF Nuke, Inv, OtherInv
    <2>2. /\ file' \in ELFFile /\ ~ file'.refs
          /\ file'.magic = "elf" /\ file'.exempt = file.exempt
      BY <1>2, <2>1 DEF Becomes, ELFFile
    <2>3. /\ step' = IF platform = "linux" /\ ~ file.exempt THEN "validate" ELSE "kept"
          /\ original' = original /\ platform' = platform
      BY <1>2 DEF Becomes
    <2>4. KeptInv'
      BY <2>1, <2>2, <2>3 DEF KeptInv, RunsOnDarwin, Signed, DataIntact, Kept, IsMachO
    <2> QED BY <2>1, <2>2, <2>3, <2>4 DEF Inv, OtherInv, MachOInv
  <1> QED BY <1>1, <1>2 DEF Nuke

LEMMA ValidateELFInv == ASSUME Inv, ValidateELF PROVE Inv'
  <1> DEFINE Bad == \/ IsDynamic(file) /\ ~ allowDynamic
                    \/ "nix" \in {file.interp} \cup file.libs \cup file.rpaths
  <1>1. /\ file \in ELFFile /\ original.magic = "elf" /\ ~ file.refs
        /\ file' = file /\ original' = original /\ allowDynamic' = allowDynamic
    BY DEF ValidateELF, Becomes, Inv, OtherInv
  <1>2. CASE Bad
    BY <1>1, <1>2, RejectedInv DEF ValidateELF, Becomes
  <1>3. CASE ~ Bad
    <2>1. step' = "kept" /\ file.magic = "elf"
      BY <1>1, <1>3 DEF ValidateELF, Becomes, ELFFile
    <2>2. KeptInv'
      BY <1>1, <2>1 DEF KeptInv, RunsOnDarwin, Signed, DataIntact, Kept, IsMachO
    <2> QED BY <1>1, <2>1, <2>2 DEF Inv, OtherInv, MachOInv
  <1> QED BY <1>2, <1>3

LEMMA RewriteTextInv == ASSUME Inv, RewriteText PROVE Inv'
  <1>1. CASE Unusable
    BY <1>1, RejectedInv DEF Unusable, Becomes
  <1>2. ASSUME Becomes(IF file.magic = "text" THEN [file EXCEPT !.refs = FALSE] ELSE file, "kept")
        PROVE  Inv'
    <2>1. file = original /\ original \in Files /\ file.magic # "elf" /\ ~ IsMachO(file)
      BY DEF RewriteText, Inv, OtherInv, IsELF
    <2>2. step' = "kept" /\ original' = original
      BY <1>2 DEF Becomes
    <2>3. CASE file.magic = "text"
      <3>1. file \in OtherFile
        BY <2>1, <2>3, FilesAssumption DEF ELFFile, ThinFile, FatFile
      <3>2. file'.magic = "text" /\ ~ file'.refs
        BY <1>2, <2>3, <3>1 DEF Becomes, OtherFile
      <3>3. KeptInv'
        BY <2>1, <2>2, <2>3, <3>2 DEF KeptInv, RunsOnDarwin, Signed, DataIntact, Kept, IsMachO
      <3> QED BY <2>1, <2>2, <3>3 DEF Inv, OtherInv, MachOInv
    <2>4. CASE file.magic # "text"
      <3>1. file' = file
        BY <1>2, <2>4 DEF Becomes
      <3>2. KeptInv'
        BY <2>1, <2>2, <2>4, <3>1 DEF KeptInv, RunsOnDarwin, Signed, DataIntact, Kept, IsMachO
      <3> QED BY <2>1, <2>2, <3>2 DEF Inv, OtherInv, MachOInv
    <2> QED BY <2>3, <2>4
  <1> QED BY <1>1, <1>2 DEF RewriteText

-----------------------------------------------------------------------------
\* Mach-O files.

LEMMA InspectInv == ASSUME Inv, Inspect PROVE Inv'
  <1>1. CASE Unusable
    BY <1>1, RejectedInv DEF Unusable, Becomes
  <1>2. ASSUME info' = InfoOf(file), Becomes(file, "edit") PROVE Inv'
    <2>1. /\ file = original /\ IsMachO(original)
          /\ file' = file /\ original' = original /\ step' = "edit"
      BY <1>2 DEF Inspect, Becomes, Inv, MachOInv
    <2>2. KeptInv'
      BY <2>1 DEF KeptInv, RunsOnDarwin, Signed, DataIntact, Kept
    <2>3. info' = InfoOf(original') /\ IsMachO(original')
      BY <1>2, <2>1
    <2> QED BY <2>1, <2>2, <2>3 DEF Inv, OtherInv, MachOInv
  <1> QED BY <1>1, <1>2 DEF Inspect

\* A file that is shipped as it was, or edited and signed, keeps what Signed
\* and DataIntact say.
LEMMA ShippedMachO ==
    ASSUME original \in Files, IsMachO(original), IsMachO(file),
           file = original \/ (EditedFrom(file) /\ Intact(file)),
           file' = file, original' = original
    PROVE  Signed' /\ DataIntact'
  <1>1. original.magic # "data" /\ ~ (original.magic = "cafebabe" /\ original.class)
    <2>1. original.magic = "macho" \/ (original.magic = "cafebabe" /\ original.count < MaxFatArch)
      BY DEF IsMachO
    <2>2. CASE original.magic = "cafebabe"
      <3>1. original \in FatFile
        BY <2>2, FilesAssumption DEF ELFFile, ThinFile, OtherFile
      <3>2. original.class => original.count >= MaxFatArch
        BY <2>2, FilesAssumption
      <3> QED BY <2>1, <2>2, <3>1, <3>2, FilesAssumption DEF FatFile
    <2> QED BY <2>1, <2>2
  <1>2. file.magic \notin {"elf", "text"}
    BY DEF IsMachO
  <1>3. DataIntact'
    BY <1>1, <1>2 DEF DataIntact
  <1>4. Signed'
    <2>1. CASE file = original
      BY <2>1 DEF Signed
    <2>2. CASE EditedFrom(file) /\ Intact(file)
      BY <2>2 DEF Signed, EditedFrom, Intact, Changed
    <2> QED BY <2>1, <2>2
  <1> QED BY <1>3, <1>4

\* install_name_tool changes each slice, and only where it should.
LEMMA EditedIs ==
    ASSUME NEW t \in Slice, Deletes \subseteq ToSet(t.rpaths)
    PROVE  /\ Edited(t) \in Slice
           /\ Edited(t).id = t.id /\ Edited(t).entitled = t.entitled /\ Edited(t).signed = t.signed
           /\ Edited(t).deps = IF Replaces(file) THEN (t.deps \ {"resolv"}) \cup {"system"} ELSE t.deps
           /\ Edited(t).rpaths = IF Deletes = {} THEN t.rpaths ELSE RemoveFirst(t.rpaths, "nix")
           /\ Deletes # {} => Edited(t).rpaths # t.rpaths
  <1>1. /\ t.deps \in SUBSET Names /\ t.id \in Names /\ t.rpaths \in Seq(Names)
        /\ t.cgo \in BOOLEAN /\ t.signed \in BOOLEAN /\ t.entitled \in BOOLEAN
    BY DEF Slice
  <1> DEFINE d == IF Replaces(file) THEN (t.deps \ {"resolv"}) \cup {"system"} ELSE t.deps
             rp == IF Deletes = {} THEN t.rpaths ELSE RemoveFirst(t.rpaths, "nix")
  <1>2. Edited(t) = [t EXCEPT !.deps = d, !.rpaths = rp, !.intact = FALSE]
    BY DEF Edited
  <1>3. Deletes # {} => "nix" \in ToSet(t.rpaths)
    BY DEF Deletes
  <1>4. rp \in Seq(Names) /\ (Deletes # {} => rp # t.rpaths)
    <2>1. CASE Deletes = {}
      BY <1>1, <2>1
    <2>2. CASE Deletes # {}
      <3>1. rp \in Seq(Names) /\ Len(rp) = Len(t.rpaths) - 1
        BY <1>1, <1>3, <2>2, RemoveFirstIs
      <3>2. Len(t.rpaths) \in Nat
        BY <1>1
      <3> QED BY <3>1, <3>2
    <2> QED BY <2>1, <2>2
  <1>5. d \in SUBSET Names
    <2>1. (t.deps \ {"resolv"}) \cup {"system"} \in SUBSET Names
      BY <1>1, FilesAssumption
    <2> QED BY <1>1, <2>1
  <1> HIDE DEF d, rp
  <1>6. /\ Edited(t) \in Slice
        /\ Edited(t).id = t.id /\ Edited(t).entitled = t.entitled /\ Edited(t).signed = t.signed
        /\ Edited(t).deps = d /\ Edited(t).rpaths = rp
    BY <1>2, <1>4, <1>5 DEF Slice
  <1> QED BY <1>4, <1>6 DEF d, rp

\* Every slice was edited: the file is another one, and was repaired if that
\* is all it needed.
LEMMA EditedFileIs ==
    ASSUME Inv, step = "edit", Replaces(file) \/ Deletes # {},
           \A t \in ToSet(file.slices) : Deletes \subseteq ToSet(t.rpaths),
           file' = [file EXCEPT !.slices = [i \in DOMAIN @ |-> Edited(@[i])]],
           original' = original
    PROVE  /\ EditedFrom(file)'
           /\ Repairable(original) => Good(file')
  <1> DEFINE old == original.slices
             new == [i \in DOMAIN old |-> Edited(old[i])]
  <1>1. /\ file = original /\ original \in Files /\ IsMachO(original) /\ info = InfoOf(original)
    BY DEF Inv, MachOInv
  <1>2. /\ original \in ThinFile \cup FatFile
        /\ old \in Seq(Slice)
        /\ original.magic = "macho" => DOMAIN old = {1}
        /\ \A i \in DOMAIN old : old[i] \in Slice
    BY <1>1, MachOFacts
  <1>3. ASSUME NEW i \in DOMAIN old
        PROVE  /\ Deletes \subseteq ToSet(old[i].rpaths)
               /\ new[i] \in Slice
               /\ new[i].id = old[i].id /\ new[i].entitled = old[i].entitled
               /\ new[i].deps = IF Replaces(file) THEN (old[i].deps \ {"resolv"}) \cup {"system"} ELSE old[i].deps
               /\ new[i].rpaths = IF Deletes = {} THEN old[i].rpaths ELSE RemoveFirst(old[i].rpaths, "nix")
               /\ Deletes # {} => new[i].rpaths # old[i].rpaths
    <2>1. Deletes \subseteq ToSet(old[i].rpaths)
      BY <1>1 DEF ToSet
    <2>2. new[i] = Edited(old[i])
      OBVIOUS
    <2> QED BY <1>2, <2>1, <2>2, EditedIs
  <1>4. new \in Seq(Slice) /\ DOMAIN new = DOMAIN old
    <2>1. DOMAIN old = 1..Len(old) /\ Len(old) \in Nat
      BY <1>2
    <2>2. new \in [1..Len(old) -> Slice]
      BY <1>3, <2>1
    <2> QED BY <2>1, <2>2, SeqDef
  <1>5. file' = [original EXCEPT !.slices = new]
    BY <1>1
  <1> HIDE DEF new
  <1>6. /\ file' \in ThinFile \cup FatFile
        /\ file'.slices = new /\ file'.magic = original.magic
        /\ IsMachO(file')
    BY <1>1, <1>2, <1>4, <1>5 DEF ThinFile, FatFile, IsMachO
  <1>7. \/ [i \in DOMAIN new |-> new[i].deps] # [i \in DOMAIN old |-> old[i].deps]
        \/ [i \in DOMAIN new |-> new[i].rpaths] # [i \in DOMAIN old |-> old[i].rpaths]
    <2>1. CASE Deletes # {}
      <3>1. PICK i \in DOMAIN old : TRUE
        BY <1>1, <2>1 DEF Deletes, InfoOf, ToSet
      <3>2. new[i].rpaths # old[i].rpaths
        BY <1>3, <2>1
      <3>3. [j \in DOMAIN new |-> new[j].rpaths][i] # [j \in DOMAIN old |-> old[j].rpaths][i]
        BY <1>4, <3>2
      <3> QED BY <3>3
    <2>2. CASE Replaces(file)
      <3>1. "resolv" \in info.deps /\ DOMAIN old = {1}
        BY <1>1, <1>2, <2>2 DEF Replaces
      <3>2. "resolv" \in old[1].deps
        BY <1>1, <3>1 DEF InfoOf, ToSet
      <3>3. new[1].deps = (old[1].deps \ {"resolv"}) \cup {"system"}
        BY <1>3, <2>2, <3>1
      <3>4. new[1].deps # old[1].deps
        BY <3>2, <3>3
      <3>5. [j \in DOMAIN new |-> new[j].deps][1] # [j \in DOMAIN old |-> old[j].deps][1]
        BY <1>4, <3>1, <3>4
      <3> QED BY <3>5
    <2> QED BY <2>1, <2>2
  <1>8. EditedFrom(file)'
    <2>1. DOMAIN file'.slices = DOMAIN original'.slices
      BY <1>4, <1>6
    <2>2. \A i \in DOMAIN file'.slices : original'.slices[i].entitled => file'.slices[i].entitled
      BY <1>3, <1>4, <1>6
    <2>3. Changed(file)'
      BY <1>6, <1>7 DEF Changed
    <2> QED BY <1>6, <2>1, <2>2, <2>3 DEF EditedFrom
  <1>9. ASSUME Repairable(original) PROVE Good(file')
    <2>1. original.magic = "macho" /\ 1 \in DOMAIN old
      BY <1>2, <1>9 DEF Repairable
    <2>2. new[1].deps \subseteq Portable
      <3>1. CASE Replaces(file)
        BY <1>3, <1>9, <2>1, <3>1 DEF Repairable, Portable
      <3>2. CASE ~ Replaces(file)
        <4>1. old[1].cgo => "resolv" \notin old[1].deps
          BY <1>1, <2>1, <3>2 DEF Replaces, InfoOf, ToSet
        <4>2. new[1].deps = old[1].deps
          BY <1>3, <2>1, <3>2
        <4> QED BY <1>9, <4>1, <4>2 DEF Repairable
      <3> QED BY <3>1, <3>2
    <2>3. ToSet(new[1].rpaths) \subseteq {"loader"}
      <3>1. old[1].rpaths \in {<<>>, <<"nix">>, <<"loader">>, <<"nix", "loader">>, <<"loader", "nix">>}
        BY <1>9 DEF Repairable
      <3>2. CASE Deletes = {}
        <4>1. "nix" \notin ToSet(old[1].rpaths)
          BY <1>1, <2>1, <3>2 DEF Deletes, InfoOf, ToSet
        <4>2. new[1].rpaths = old[1].rpaths
          BY <1>3, <2>1, <3>2
        <4> QED BY <3>1, <4>1, <4>2 DEF ToSet
      <3>3. CASE Deletes # {}
        <4>1. "nix" \in ToSet(old[1].rpaths) /\ old[1].rpaths \in Seq(Names)
          BY <1>2, <1>3, <2>1, <3>3 DEF Deletes, Slice
        <4>2. PICK k \in DOMAIN old[1].rpaths :
                 /\ old[1].rpaths[k] = "nix"
                 /\ ToSet(RemoveFirst(old[1].rpaths, "nix"))
                       \subseteq {old[1].rpaths[j] : j \in DOMAIN old[1].rpaths \ {k}}
          BY <4>1, RemoveFirstIs
        <4>3. new[1].rpaths = RemoveFirst(old[1].rpaths, "nix")
          BY <1>3, <2>1, <3>3
        <4>4. {old[1].rpaths[j] : j \in DOMAIN old[1].rpaths \ {k}} \subseteq {"loader"}
          BY <3>1, <4>2
        <4> QED BY <4>2, <4>3, <4>4
      <3> QED BY <3>2, <3>3
    <2>4. new[1].id \notin {"nix", "resolv"}
      BY <1>3, <1>9, <2>1 DEF Repairable
    <2> QED BY <1>6, <2>1, <2>2, <2>3, <2>4 DEF Good
  <1> QED BY <1>8, <1>9

LEMMA EditInv == ASSUME Inv, Edit PROVE Inv'
  <1>1. /\ file = original /\ original \in Files /\ IsMachO(original) /\ IsMachO(file)
        /\ info = InfoOf(original) /\ step = "edit" /\ original' = original
        /\ info' = info /\ platform' = platform
    BY DEF Edit, Becomes, Inv, MachOInv
  <1>2. CASE ~ Replaces(file) /\ Deletes = {}
    <2>1. file' = file /\ step' = IF file.exempt THEN "kept" ELSE "check"
      BY <1>2 DEF Edit, Becomes
    <2>2. Repairable(original) => Good(file)
      <3> SUFFICES ASSUME Repairable(original) PROVE Good(file)
        OBVIOUS
      <3>1. /\ original.magic = "macho" /\ 1 \in DOMAIN original.slices
            /\ original.slices[1] \in ToSet(original.slices)
        BY <1>1, MachOFacts DEF Repairable, ToSet
      <3>2. file.slices[1].deps \subseteq Portable
        BY <1>1, <1>2, <3>1 DEF Repairable, Replaces, InfoOf
      <3>3. "nix" \notin ToSet(file.slices[1].rpaths)
        BY <1>1, <1>2, <3>1 DEF Deletes, InfoOf
      <3>4. ToSet(file.slices[1].rpaths) \subseteq {"loader"}
        BY <1>1, <3>3 DEF Repairable, ToSet
      <3> QED BY <1>1, <3>2, <3>4 DEF Repairable, Good
    <2>3. Signed' /\ DataIntact'
      <3>1. file = original \/ (EditedFrom(file) /\ Intact(file))
        BY <1>1
      <3> QED BY <1>1, <2>1, <3>1, ShippedMachO, Zenon
    <2>4. RunsOnDarwin'
      BY <1>1, <2>1 DEF RunsOnDarwin, Kept, IsMachO
    <2>5. info' = InfoOf(file') /\ IsMachO(file') /\ IsMachO(original') /\ file' = original'
      BY <1>1, <2>1
    <2>6. Repairable(original') => Good(file')
      BY <1>1, <2>1, <2>2
    <2>7. OtherInv' /\ MachOInv'
      BY <2>1, <2>5, <2>6 DEF OtherInv, MachOInv
    <2> QED BY <1>1, <2>3, <2>4, <2>7 DEF Inv, KeptInv
  <1>3. CASE Replaces(file) \/ Deletes # {}
    <2>1. CASE step' = "rejected"
      BY <1>1, <2>1, RejectedInv
    <2>2. ASSUME \A t \in ToSet(file.slices) : Deletes \subseteq ToSet(t.rpaths),
                 Becomes([file EXCEPT !.slices = [i \in DOMAIN @ |-> Edited(@[i])]], "sign")
          PROVE  Inv'
      <3>1. /\ file' = [file EXCEPT !.slices = [i \in DOMAIN @ |-> Edited(@[i])]]
            /\ step' = "sign"
        BY <2>2 DEF Becomes
      <3>2. EditedFrom(file)' /\ (Repairable(original) => Good(file'))
        BY <1>1, <1>3, <2>2, <3>1, EditedFileIs
      <3>3. KeptInv'
        BY <3>1 DEF KeptInv, RunsOnDarwin, Signed, DataIntact, Kept
      <3>4. info' = InfoOf(original') /\ IsMachO(original') /\ (Repairable(original') => Good(file'))
        BY <1>1, <3>2
      <3> QED BY <1>1, <3>1, <3>2, <3>3, <3>4 DEF Inv, OtherInv, MachOInv
    <2> QED BY <1>3, <2>1, <2>2 DEF Edit, Becomes
  <1> QED BY <1>2, <1>3

LEMMA SignInv == ASSUME Inv, Sign PROVE Inv'
  <1>1. /\ EditedFrom(file) /\ original \in Files /\ IsMachO(original)
        /\ info = InfoOf(original) /\ original' = original
        /\ (Repairable(original) => Good(file))
    BY DEF Sign, Becomes, Inv, MachOInv
  <1>2. CASE step' = "rejected"
    BY <1>1, <1>2, RejectedInv
  <1> DEFINE old == file.slices
             new == [i \in DOMAIN old |-> Codesigned(old[i])]
  <1>3. ASSUME file' = [file EXCEPT !.slices = new], step' = "reinspect"
        PROVE  Inv'
    <2>1. /\ file \in ThinFile \cup FatFile /\ old \in Seq(Slice)
          /\ DOMAIN old = DOMAIN original.slices
          /\ \A i \in DOMAIN old : old[i] \in Slice
      BY <1>1 DEF EditedFrom, ThinFile, FatFile
    <2>2. ASSUME NEW i \in DOMAIN old
          PROVE  /\ new[i] \in Slice
                 /\ new[i].deps = old[i].deps /\ new[i].id = old[i].id /\ new[i].rpaths = old[i].rpaths
                 /\ new[i].intact
                 /\ new[i].entitled = (old[i].entitled /\ info.signed)
      <3>1. InfoOf(original).signed \in BOOLEAN
        BY DEF InfoOf
      <3> QED BY <1>1, <2>1, <3>1 DEF Slice, Codesigned
    <2>3. new \in Seq(Slice) /\ DOMAIN new = DOMAIN old
      <3>1. DOMAIN old = 1..Len(old) /\ Len(old) \in Nat
        BY <2>1
      <3>2. new \in [1..Len(old) -> Slice]
        BY <2>2, <3>1
      <3> QED BY <3>1, <3>2, SeqDef
    <2> HIDE DEF new
    <2>4. /\ file' \in ThinFile \cup FatFile
          /\ file'.slices = new /\ file'.magic = file.magic
          /\ IsMachO(file')
      BY <1>1, <1>3, <2>1, <2>3 DEF ThinFile, FatFile, IsMachO, EditedFrom
    <2>5. ASSUME NEW i \in DOMAIN new, original.slices[i].entitled
          PROVE  new[i].entitled
      <3>1. original.slices[i].signed /\ i \in DOMAIN original.slices
        BY <1>1, <2>1, <2>3, <2>5, MachOFacts
      <3>2. info.signed
        BY <1>1, <3>1 DEF InfoOf, ToSet
      <3> QED BY <1>1, <2>2, <2>3, <2>5, <3>2 DEF EditedFrom
    <2>6. Changed(file)'
      <3>1. /\ [i \in DOMAIN new |-> new[i].deps] = [i \in DOMAIN old |-> old[i].deps]
            /\ [i \in DOMAIN new |-> new[i].rpaths] = [i \in DOMAIN old |-> old[i].rpaths]
        BY <2>2, <2>3
      <3> QED BY <1>1, <2>4, <3>1 DEF Changed, EditedFrom
    <2>7. EditedFrom(file)' /\ Intact(file')
      BY <1>1, <2>1, <2>2, <2>3, <2>4, <2>5, <2>6 DEF EditedFrom, Intact
    <2>8. Repairable(original') => Good(file')
      <3> SUFFICES ASSUME Repairable(original) PROVE Good(file')
        BY <1>1
      <3>1. 1 \in DOMAIN old
        BY <1>1, <2>1, MachOFacts DEF Repairable
      <3> QED BY <1>1, <2>2, <2>4, <3>1 DEF Good
    <2>9. KeptInv'
      BY <1>3 DEF KeptInv, RunsOnDarwin, Signed, DataIntact, Kept
    <2>10. IsMachO(original') /\ original' \in Files
      BY <1>1
    <2>11. OtherInv' /\ MachOInv'
      BY <1>3, <2>7, <2>8, <2>10 DEF OtherInv, MachOInv
    <2> QED BY <2>9, <2>10, <2>11 DEF Inv
  <1> QED BY <1>2, <1>3 DEF Sign, Becomes

LEMMA ReinspectInv == ASSUME Inv, Reinspect PROVE Inv'
  <1>1. CASE Unusable
    BY <1>1, RejectedInv DEF Unusable, Becomes
  <1>2. ASSUME info' = InfoOf(file), Becomes(file, IF file.exempt THEN "kept" ELSE "check")
        PROVE  Inv'
    <2>1. /\ EditedFrom(file) /\ Intact(file) /\ original \in Files /\ IsMachO(original)
          /\ IsMachO(file)
          /\ Repairable(original) => Good(file)
      BY DEF Reinspect, Inv, MachOInv, EditedFrom
    <2>2. /\ file' = file /\ original' = original
          /\ step' = IF file.exempt THEN "kept" ELSE "check"
      BY <1>2 DEF Becomes
    <2>3. Signed' /\ DataIntact'
      BY <2>1, <2>2, ShippedMachO
    <2>4. RunsOnDarwin'
      BY <2>1, <2>2 DEF RunsOnDarwin, Kept, IsMachO
    <2>5. /\ info' = InfoOf(file') /\ IsMachO(file') /\ IsMachO(original')
          /\ EditedFrom(file)' /\ Intact(file')
          /\ Repairable(original') => Good(file')
      BY <1>2, <2>1, <2>2 DEF EditedFrom, Changed
    <2> QED BY <2>1, <2>2, <2>3, <2>4, <2>5 DEF Inv, OtherInv, MachOInv, KeptInv
  <1> QED BY <1>1, <1>2 DEF Reinspect

LEMMA ValidateMachOInv ==
    ASSUME Inv, ValidateMachO
    PROVE  Inv' /\ (Repairable(original) => step' # "rejected")
  <1> DEFINE Ok == info.deps \subseteq Portable /\ ~ info.nix /\ info.rpaths \subseteq {"loader"}
  <1>1. /\ info = InfoOf(file) /\ IsMachO(file) /\ IsMachO(original) /\ original \in Files
        /\ file = original \/ (EditedFrom(file) /\ Intact(file))
        /\ Repairable(original) => Good(file)
        /\ file' = file /\ original' = original /\ info' = info
        /\ step' = IF Ok THEN "kept" ELSE "rejected"
    BY DEF ValidateMachO, Becomes, Inv, MachOInv
  <1>2. CASE Ok
    <2>1. \A t \in ToSet(file.slices) : /\ Loads(t) \cap {"nix", "resolv"} = {}
                                        /\ t.deps \subseteq Portable
                                        /\ ToSet(t.rpaths) \subseteq {"loader"}
      BY <1>1, <1>2 DEF InfoOf
    <2>2. Signed' /\ DataIntact'
      BY <1>1, ShippedMachO
    <2>3. RunsOnDarwin'
      BY <1>1, <2>1 DEF RunsOnDarwin, Kept, IsMachO
    <2>4. step' = "kept"
      BY <1>1, <1>2
    <2> QED BY <1>1, <2>2, <2>3, <2>4 DEF Inv, OtherInv, MachOInv, KeptInv
  <1>3. CASE ~ Ok
    <2>1. Inv'
      BY <1>1, <1>3, RejectedInv
    <2>2. ASSUME Repairable(original) PROVE Ok
      <3>1. Good(file) /\ DOMAIN file.slices = {1}
        BY <1>1, <2>2, MachOFacts DEF Repairable, EditedFrom
      <3>2. ToSet(file.slices) = {file.slices[1]}
        BY <3>1 DEF ToSet
      <3>3. info.deps \subseteq Portable /\ info.rpaths \subseteq {"loader"}
        BY <1>1, <3>1, <3>2 DEF InfoOf, Good
      <3>4. Loads(file.slices[1]) \cap {"nix", "resolv"} = {}
        BY <3>1 DEF Loads, Good, Portable
      <3> QED BY <1>1, <3>2, <3>3, <3>4 DEF InfoOf
    <2> QED BY <1>3, <2>1, <2>2
  <1> QED BY <1>1, <1>2, <1>3

-----------------------------------------------------------------------------

LEMMA NextInv == Inv /\ [Next]_vars => Inv'
  <1> SUFFICES ASSUME Inv, [Next]_vars PROVE Inv'
    OBVIOUS
  <1>1. CASE UNCHANGED vars
    BY <1>1 DEF vars, Inv, OtherInv, MachOInv, KeptInv, EditedFrom, Changed,
                RunsOnDarwin, Signed, DataIntact, Kept
  <1> QED BY <1>1, DispatchInv, NukeInv, ValidateELFInv, InspectInv, EditInv, SignInv,
             ReinspectInv, ValidateMachOInv, RewriteTextInv DEF Next

\* The invariant the theorems below come from.
LEMMA Invariance == Spec => []Inv
  BY InitInv, NextInv, PTL DEF Spec

(* What is shipped for macOS loads nothing from the store, whatever the    *)
(* number of slices and the search paths of each (validateMachO).          *)
THEOREM ShippedRunsOnDarwin == Spec => []RunsOnDarwin
  <1>1. Inv => RunsOnDarwin
    BY DEF Inv, KeptInv
  <1> QED BY <1>1, Invariance, PTL

(* A Mach-O file is signed again exactly when it was edited, and keeps its *)
(* entitlements (editMachO).                                               *)
THEOREM EditedIsSigned == Spec => []Signed
  <1>1. Inv => Signed
    BY DEF Inv, KeptInv
  <1> QED BY <1>1, Invariance, PTL

(* Data and Java classes are shipped as they are, text and ELF files       *)
(* without references to the store (isMachOMagic, rewriteTextFile).        *)
THEOREM DataStaysIntact == Spec => []DataIntact
  <1>1. Inv => DataIntact
    BY DEF Inv, KeptInv
  <1> QED BY <1>1, Invariance, PTL

(* A program with no other faults than the ones that are repaired is not   *)
(* refused: validation sees the file as it is after the repair.            *)
THEOREM RepairedIsShipped == Spec => Repaired
  <1>1. Inv /\ [Next]_vars => [step = "check" /\ Repairable(original) => step' # "rejected"]_vars
    <2> SUFFICES ASSUME Inv, Next, step = "check", Repairable(original) PROVE step' # "rejected"
      OBVIOUS
    <2>1. CASE ValidateMachO
      BY <2>1, ValidateMachOInv
    <2> QED BY <2>1 DEF Next, Dispatch, Nuke, ValidateELF, Inspect, Edit, Sign, Reinspect, RewriteText
  <1> QED BY <1>1, Invariance, PTL DEF Spec, Repaired
=============================================================================
