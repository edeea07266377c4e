------------------------------- MODULE Bytecode -------------------------------
(***************************************************************************)
(* BytecodeUtil and SignatureUtil (bytecode_util.cc, signature_util.cc): what the *)
(* host reads of a wasm file before an engine sees it.  A file is the sequence of   *)
(* sections that the reader meets in it; each of the readers walks it from the       *)
(* start and gives up at the first section that it cannot make sense of.            *)
(***************************************************************************)
EXTENDS Integers, Sequences, SequencesExt, FiniteSetsExt

(* A file: magic (it begins with the magic number), short (it has less than 8         *)
(* bytes), and sections.  A section: its type ("custom", "export" or "other"), the     *)
(* bytes of its length, and room, the bytes that follow in the file.  A custom section  *)
(* has a name, which lies inside the section, beyond it but inside the file, or         *)
(* nowhere, and data; an export section has a sequence of exports.                    *)
IsFile(m) ==
    /\ m \in [magic : BOOLEAN, short : BOOLEAN, sections : Seq(ToSet(m.sections))]
    /\ \A s \in ToSet(m.sections) : s.type = "export" => s.exports \in Seq(ToSet(s.exports))

PrecompiledNames == {"precompiled_v8", "wavm.precompiled_object"}
SignatureName == "signature_wasmsign"

AbiMarkers == [proxy_abi_version_0_1_0 |-> "0.1.0",
               proxy_abi_version_0_2_0 |-> "0.2.0",
               proxy_abi_version_0_2_1 |-> "0.2.1"]

(* parseVarint: at most five bytes of seven bits, the lowest first; of the fifth no      *)
(* more than two bits.  Unreadable if the bytes end, or say more.                    *)
Unreadable == -1
ParseVarint(bytes) ==
    LET last == SelectInSeq(bytes, LAMBDA b : b < 128)
    IN IF last \notin 1 .. 5 \/ (last = 5 /\ bytes[5] > 3) THEN Unreadable
       ELSE MapThenSumSet(LAMBDA i : (bytes[i] % 128) * 128 ^ (i - 1), 1 .. last)

Fits(s) == ParseVarint(s.len) # Unreadable /\ ParseVarint(s.len) <= s.room

CheckWasmHeader(m) == m.short \/ m.magic
SectionsOf(m) == IF m.short THEN <<>> ELSE m.sections

-----------------------------------------------------------------------------
(* getAbiVersion: the first marker among the functions of the first export section;       *)
(* what comes after that is not looked at.                                          *)
AbiOfExports(exports) ==
    LET stop == SelectInSeq(exports, LAMBDA e :
                    ~e.sound \/ (e.kind = "func" /\ e.name \in DOMAIN AbiMarkers))
    IN IF stop = 0 THEN [ok |-> TRUE, abi |-> "Unknown"]
       ELSE IF ~exports[stop].sound THEN [ok |-> FALSE, abi |-> "Unknown"]
       ELSE [ok |-> TRUE, abi |-> AbiMarkers[exports[stop].name]]

GetAbiVersion(m) ==
    LET stop == SelectInSeq(SectionsOf(m), LAMBDA s : ~Fits(s) \/ s.type = "export")
    IN IF ~CheckWasmHeader(m) THEN [ok |-> FALSE, abi |-> "Unknown"]
       ELSE IF stop = 0 THEN [ok |-> TRUE, abi |-> "Unknown"]
       ELSE IF ~Fits(m.sections[stop]) THEN [ok |-> FALSE, abi |-> "Unknown"]
       ELSE AbiOfExports(m.sections[stop].exports)

(* getCustomSection: the place of the first one of that name, 0 if there is none before   *)
(* the file ends, Unreadable if the reader gives up first.                           *)
GetCustomSection(m, name) ==
    LET stop == SelectInSeq(SectionsOf(m), LAMBDA s :
                    \/ ~Fits(s)
                    \/ s.type = "custom" /\ (s.naming # "inside" \/ s.name = name))
    IN IF ~CheckWasmHeader(m) THEN Unreadable
       ELSE IF stop = 0 THEN 0
       ELSE IF ~Fits(m.sections[stop]) \/ m.sections[stop].naming # "inside" THEN Unreadable
       ELSE stop

(* getFunctionNameIndex: every subsection of the name section has to be sound. *)
FunctionNamesReadable(m) ==
    LET at == GetCustomSection(m, "name")
    IN at # Unreadable /\ (at > 0 => m.sections[at].data = "sound")

(* getStrippedSource: the file itself if it has no compiled code; otherwise everything     *)
(* up to the first such section and, of what follows, the sections that are not custom.   *)
Precompiled(s) == s.type = "custom" /\ s.name \in PrecompiledNames

(* The loop of it that copies what is not custom: so much after the first i sections. *)
NotCustom(sections) ==
    LET copied[i \in 0 .. Len(sections)] ==
            IF i = 0 THEN <<>>
            ELSE IF sections[i].type = "custom" THEN copied[i - 1]
            ELSE Append(copied[i - 1], sections[i])
    IN copied[Len(sections)]

BadStrippedFirstOnly(sections) ==
    SelectSeq(sections, LAMBDA s : s # sections[SelectInSeq(sections, Precompiled)])
Stripped(sections) ==
    LET first == SelectInSeq(sections, Precompiled)
    IN IF first = 0 THEN sections
       ELSE SubSeq(sections, 1, first - 1)
            \o NotCustom(SubSeq(sections, first + 1, Len(sections)))

GetStrippedSource(m) ==
    [ok |-> /\ CheckWasmHeader(m)
            /\ \A i \in DOMAIN SectionsOf(m) :
                   LET s == m.sections[i]
                   IN Fits(s) /\ (s.type = "custom" => s.naming # "nowhere"),
     sections |-> Stripped(SectionsOf(m))]

(* verifySignature, in a build that has a public key: the signature is the last section,  *)
(* has the right size and algorithm, and is one of all that comes before it.           *)
VerifySignature(m) ==
    LET at == GetCustomSection(m, SignatureName)
    IN at \notin {0, Unreadable} /\ at = Len(m.sections) /\ m.sections[at].data = "good"
=============================================================================
