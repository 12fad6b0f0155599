-------------------------- MODULE MCPortableBinary --------------------------
\* ELF files of every make; Mach-O files with one or two slices; classes and fat
\* files at the limit that tells them apart; text and data.
EXTENDS PortableBinary

ELF == [magic : {"elf"}, exempt : BOOLEAN, type : {"exec", "dyn"}, pie : BOOLEAN,
        interp : {"none", "system", "nix"}, libs : SUBSET {"system", "nix"},
        rpaths : SUBSET {"loader", "nix"}, refs : BOOLEAN]
MCSlice == [deps : {{}, {"system"}, {"resolv"}, {"nix"}, {"rpath", "resolv"}, {"bare"}},
          id : {"none", "nix"}, cgo : BOOLEAN, signed : BOOLEAN, entitled : BOOLEAN,
          intact : {TRUE},
          rpaths : {<<>>, <<"loader">>, <<"nix">>, <<"nix", "nix">>, <<"loader", "nix">>, <<"other">>}]
Slices == {s \in MCSlice : s.entitled => s.signed}
FatSlices == {s \in Slices : s.deps # {"bare"} /\ s.id = "none" /\ s.cgo = s.signed /\ Len(s.rpaths) < 2}
Thin == [magic : {"macho"}, exempt : BOOLEAN, slices : {<<s>> : s \in Slices}]
Fat == [magic : {"cafebabe"}, exempt : {FALSE}, count : {2}, class : {FALSE},
        slices : FatSlices \X FatSlices]
\* With the slice a class would be taken to have.
Class == [magic : {"cafebabe"}, exempt : {FALSE}, count : {45, 65}, class : {TRUE},
          slices : {<<s>> : s \in {t \in Slices : t.deps = {} /\ t.id = "none" /\ t.rpaths = <<"nix">>}}]
Other == [magic : {"text", "data"}, exempt : BOOLEAN, refs : BOOLEAN]
MCNames == {"none", "system", "nix", "resolv", "rpath", "loader", "bare", "other"}
MCFiles == ELF \cup Thin \cup Fat \cup Class \cup Other
=============================================================================
