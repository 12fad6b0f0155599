--------------------------- MODULE PortableBinary ---------------------------
(***************************************************************************)
(* normalizeFile of cmd/artifact on one file: which kind of file it is, what *)
(* is taken out of it, and what makes the build fail (normalize.go,         *)
(* binary.go).  strip, install_name_tool and codesign are programs that may *)
(* fail; a failing strip is ignored.                                       *)
(*                                                                         *)
(* A string in a file is a member of a small set: "nix" is a path in the    *)
(* store, "resolv" the libresolv of the store that the workaround for CGO   *)
(* replaces, "loader" and "rpath" relative ones, "system" one of macOS.     *)
(***************************************************************************)
EXTENDS Integers, SequencesExt

CONSTANTS Files,      \* the files that are considered
          Names,      \* the strings in them
          MaxFatArch  \* maxFatArchCount

\* Files by their magic number.  Load commands of a Mach-O file are in slices.
Slice == [deps : SUBSET Names, id : Names, rpaths : Seq(Names),
          cgo : BOOLEAN, signed : BOOLEAN, entitled : BOOLEAN, intact : BOOLEAN]
ELFFile == [magic : {"elf"}, exempt : BOOLEAN, type : {"exec", "dyn"}, pie : BOOLEAN,
            interp : Names, libs : SUBSET Names, rpaths : SUBSET Names, refs : BOOLEAN]
ThinFile == [magic : {"macho"}, exempt : BOOLEAN, slices : Seq(Slice)]
FatFile == [magic : {"cafebabe"}, exempt : BOOLEAN, count : Nat, class : BOOLEAN,
            slices : Seq(Slice)]
OtherFile == [magic : {"text", "data"}, exempt : BOOLEAN, refs : BOOLEAN]

\* Classes have a version of at least 45 in the place of the count; entitlements
\* are part of a signature.
ASSUME FilesAssumption ==
    /\ MaxFatArch \in Nat
    /\ "system" \in Names     \* the libresolv of macOS
    /\ Files \subseteq ELFFile \cup ThinFile \cup FatFile \cup OtherFile
    /\ \A f \in Files :
          /\ f.magic = "macho" => Len(f.slices) = 1
          /\ f.magic = "cafebabe" => (f.class => f.count >= MaxFatArch)
          /\ f.magic \in {"macho", "cafebabe"} =>
                \A i \in DOMAIN f.slices : f.slices[i].intact /\ (f.slices[i].entitled => f.slices[i].signed)

VARIABLES platform, allowDynamic,  \* the configuration
          original,                \* the file in the package
          file,                    \* the file in the output
          info,                    \* what inspectMachO last saw
          step

vars == <<platform, allowDynamic, original, file, info, step>>

NoInfo == [deps |-> {}, rpaths |-> {}, nix |-> FALSE, signed |-> FALSE]

Init == /\ platform \in {"linux", "darwin"}
        /\ allowDynamic \in BOOLEAN
        /\ original \in Files
        /\ file = original
        /\ info = NoInfo
        /\ step = "dispatch"

\* fileMagic.  A Java class has the magic number of a fat Mach-O file; its version
\* is where the other has the number of architectures.
IsELF(f) == f.magic = "elf"
IsMachOAny(f) == f.magic \in {"macho", "cafebabe"}   \* mutant: classes count as Mach-O
IsMachO(f) == f.magic = "macho" \/ (f.magic = "cafebabe" /\ f.count < MaxFatArch)

Becomes(f, s) == file' = f /\ step' = s /\ UNCHANGED <<platform, allowDynamic, original>>
\* The file cannot be read, parsed or replaced.
Unusable == Becomes(file, "rejected") /\ UNCHANGED info

Dispatch ==
    /\ step = "dispatch"
    /\ Becomes(file, CASE IsELF(file) -> "strip"
                       [] IsMachO(file) -> IF platform = "darwin" THEN "inspect" ELSE "kept"
                       [] OTHER -> "text")
    /\ UNCHANGED info

-----------------------------------------------------------------------------
\* ELF

\* stripBinary, whether or not it works, and nukeStoreReferences: the digests of
\* store paths are overwritten, so that the paths stay but lead nowhere.
Nuke ==
    /\ step = "strip"
    /\ \/ /\ Becomes([file EXCEPT !.refs = FALSE],
                     IF platform = "linux" /\ ~file.exempt THEN "validate" ELSE "kept")
          /\ UNCHANGED info
       \/ Unusable

\* isDynamicallyLinkedELF: a static PIE has neither interpreter nor libraries.
IsDynamic(f) == \/ f.interp # "none" \/ f.libs # {}
                \/ f.type = "dyn" /\ ~f.pie

ValidateELF ==
    /\ step = "validate"
    /\ Becomes(file, IF \/ IsDynamic(file) /\ ~allowDynamic
                        \/ "nix" \in {file.interp} \cup file.libs \cup file.rpaths
                     THEN "rejected" ELSE "kept")
    /\ UNCHANGED info

-----------------------------------------------------------------------------
\* Mach-O: one slice, or one per architecture of a fat file.  A slice has load
\* commands: the libraries it needs, its own name, and where to look for them.

Loads(s) == s.deps \cup {s.id} \cup ToSet(s.rpaths)
InfoOf(f) == [deps |-> UNION {s.deps : s \in ToSet(f.slices)},
              rpaths |-> UNION {ToSet(s.rpaths) : s \in ToSet(f.slices)},
              nix |-> \E s \in ToSet(f.slices) : Loads(s) \cap {"nix", "resolv"} # {},
              signed |-> \E s \in ToSet(f.slices) : s.signed]

Inspect ==
    /\ step = "inspect"
    /\ \/ info' = InfoOf(file) /\ Becomes(file, "edit")
       \/ Unusable

\* darwinCGOResolvDependencies: thin arm64 programs that Go's CGO linked.
Replaces(f) == /\ "resolv" \in info.deps
               /\ f.magic = "macho" /\ f.slices[1].cgo
Deletes == info.rpaths \cap {"nix"}

\* install_name_tool: an rpath is deleted once per slice, and must be in each.
Edited(s) ==
    [s EXCEPT !.deps = IF Replaces(file) THEN (@ \ {"resolv"}) \cup {"system"} ELSE @,
              !.rpaths = IF Deletes = {} THEN @ ELSE RemoveFirst(@, "nix"),
              !.intact = FALSE]
Edit ==
    /\ step = "edit"
    /\ \/ /\ ~Replaces(file) /\ Deletes = {}
          /\ Becomes(file, IF file.exempt THEN "kept" ELSE "check")
       \/ /\ Replaces(file) \/ Deletes # {}
          /\ \/ Becomes(file, "rejected")
             \/ /\ \A s \in ToSet(file.slices) : Deletes \subseteq ToSet(s.rpaths)
                /\ Becomes([file EXCEPT !.slices = [i \in DOMAIN @ |-> Edited(@[i])]], "sign")
    /\ UNCHANGED info

\* Mutant: the metadata of the old signature is never kept.
SignBare ==
    /\ step = "sign"
    /\ \/ Becomes(file, "rejected")
       \/ Becomes([file EXCEPT !.slices = [i \in DOMAIN @ |->
                     [@[i] EXCEPT !.intact = TRUE, !.signed = TRUE, !.entitled = FALSE]]],
                  "reinspect")
    /\ UNCHANGED info

\* codesign: a signature of its own, with the entitlements of the one that was there.
Codesigned(s) == [s EXCEPT !.intact = TRUE, !.signed = TRUE, !.entitled = @ /\ info.signed]
Sign ==
    /\ step = "sign"
    /\ \/ Becomes(file, "rejected")
       \/ Becomes([file EXCEPT !.slices = [i \in DOMAIN @ |-> Codesigned(@[i])]], "reinspect")
    /\ UNCHANGED info

\* Mutant: what was seen before the file was edited counts.
ReinspectNot ==
    /\ step = "reinspect"
    /\ Becomes(file, IF file.exempt THEN "kept" ELSE "check")
    /\ UNCHANGED info

Reinspect ==
    /\ step = "reinspect"
    /\ \/ info' = InfoOf(file) /\ Becomes(file, IF file.exempt THEN "kept" ELSE "check")
       \/ Unusable

Portable == {"system", "rpath", "loader"}
\* Mutant: only libraries are looked at.
ValidateDeps ==
    /\ step = "check"
    /\ Becomes(file, IF info.deps \subseteq Portable THEN "kept" ELSE "rejected")
    /\ UNCHANGED info
ValidateMachO ==
    /\ step = "check"
    /\ Becomes(file, IF /\ info.deps \subseteq Portable
                        /\ ~info.nix
                        /\ info.rpaths \subseteq {"loader"}
                     THEN "kept" ELSE "rejected")
    /\ UNCHANGED info

-----------------------------------------------------------------------------
\* Anything else: text is rewritten, data is left alone.

\* rewriteTextFile.
RewriteText ==
    /\ step = "text"
    /\ \/ /\ Becomes(IF file.magic = "text" THEN [file EXCEPT !.refs = FALSE] ELSE file, "kept")
          /\ UNCHANGED info
       \/ Unusable

Next == \/ Dispatch \/ Nuke \/ ValidateELF
        \/ Inspect \/ Edit \/ Sign \/ Reinspect \/ ValidateMachO
        \/ RewriteText

Spec == Init /\ [][Next]_vars

-----------------------------------------------------------------------------
Kept == step = "kept"

(* What is shipped for macOS loads nothing from the store, in any slice,   *)
(* also when a search path occurs twice or in one slice only.              *)
RunsOnDarwin ==
    Kept /\ platform = "darwin" /\ IsMachO(file) /\ ~file.exempt =>
        \A s \in ToSet(file.slices) : /\ Loads(s) \cap {"nix", "resolv"} = {}
                                      /\ s.deps \subseteq Portable
                                      /\ ToSet(s.rpaths) \subseteq {"loader"}

(* A Mach-O file that was edited is signed again and keeps its              *)
(* entitlements; one that was not edited is not touched.                   *)
Signed ==
    Kept /\ IsMachO(file) =>
        \/ file = original
        \/ /\ \A i \in DOMAIN file.slices :
                /\ file.slices[i].intact
                /\ original.slices[i].entitled => file.slices[i].entitled
           /\ [i \in DOMAIN file.slices |-> file.slices[i].deps] # [i \in DOMAIN original.slices |-> original.slices[i].deps]
              \/ [i \in DOMAIN file.slices |-> file.slices[i].rpaths] # [i \in DOMAIN original.slices |-> original.slices[i].rpaths]

(* A Java class and other data are shipped as they are, whatever they begin *)
(* with (isMachOMagic); text and ELF files lose their references to the    *)
(* store.                                                                  *)
DataIntact ==
    /\ Kept /\ (original.magic = "data" \/ (original.magic = "cafebabe" /\ original.class)) => file = original
    /\ Kept /\ file.magic \in {"elf", "text"} => ~file.refs

(* A program whose only faults are the ones that are repaired - the resolver *)
(* of a CGO program, a search path in the store - is shipped unless a tool *)
(* fails: what is validated is the file as it is after the repair.         *)
Repairable(f) ==
    /\ f.magic = "macho"
    /\ f.slices[1].deps \subseteq Portable \cup (IF f.slices[1].cgo THEN {"resolv"} ELSE {})
    /\ f.slices[1].id \notin {"nix", "resolv"}
    /\ f.slices[1].rpaths \in {<<>>, <<"nix">>, <<"loader">>, <<"nix", "loader">>, <<"loader", "nix">>}
Repaired == [][step = "check" /\ Repairable(original) => step' # "rejected"]_vars
=============================================================================
