------------------------------ MODULE Validator ------------------------------
(***************************************************************************)
(* What an upload's header must pass (pkg/validator/file.go): the handler    *)
(* sanitizes the name and validates what comes out.                         *)
(*                                                                          *)
(* A name is a sequence of bytes, each a member of its class:                *)
(*   "a"     a letter or any other byte no rule speaks of                    *)
(*   "t"     the letters of an allowed extension                             *)
(*   "N"     the letters of a name Windows reserves                          *)
(*   "<"     a byte that is replaced: < > : " | ? * and 0x00-0x1f             *)
(*   "DEL"   a control character that is not: 0x7f                           *)
(*   "lead", "cont"     the bytes of a two-byte rune                         *)
(* and ".", " ", "\\" and "_" themselves; the form's parser keeps what        *)
(* follows the last "/".  Lengths are counted in bytes.                      *)
(***************************************************************************)
EXTENDS Integers, Sequences
Sets == INSTANCE FiniteSetsExt

CONSTANTS
    MaxFilenameLen,
    MaxFileSize,
    Filename        \* the names clients send

ASSUME LimitAssumption == MaxFilenameLen \in Nat \ {0} /\ MaxFileSize \in Nat
ASSUME FilenameAssumption == \A n \in Filename : n \in Seq(STRING)

\* The extensions allowed and the types of their contents.
AllowedTypes(ext) == IF ext = <<".", "t">> THEN {"t"} ELSE {}

\* filepath.Ext: from the last dot on.
Ext(n) ==
    LET dots == {i \in DOMAIN n : n[i] = "."}
    IN  IF dots = {} THEN <<>> ELSE SubSeq(n, Sets!Max(dots), Len(n))

\* strings.TrimSuffix(n, filepath.Ext(n))
BaseName(n) == SubSeq(n, 1, Len(n) - Len(Ext(n)))

-----------------------------------------------------------------------------
(* SanitizeFilename *)

Replaced(n) == [i \in DOMAIN n |-> IF n[i] = "<" THEN "_" ELSE n[i]]

\* strings.Trim(n, " .")
Trimmed(n) ==
    LET kept == {i \in DOMAIN n : n[i] \notin {" ", "."}}
    IN  IF kept = {} THEN <<>> ELSE SubSeq(n, Sets!Min(kept), Sets!Max(kept))

\* The name without its extension gives way; an extension that leaves no room for
\* it is left as it is, and is too long for ValidateFilename.
Cut(n) ==
    LET room == MaxFilenameLen - Len(Ext(n))
    IN  IF Len(n) > MaxFilenameLen /\ room > 0
        THEN SubSeq(BaseName(n), 1, room) \o Ext(n)
        ELSE n

\* Mutant: the name is cut first, so that trimming comes last.
SanitizeCutFirst(n) == LET s == Trimmed(Cut(Replaced(n))) IN IF s = <<>> THEN <<"a">> ELSE s

\* "unnamed_file" has no extension either.
SanitizeFilename(n) == LET s == Cut(Trimmed(Replaced(n))) IN IF s = <<>> THEN <<"a">> ELSE s

-----------------------------------------------------------------------------
(* ValidateFile *)

ValidateFilename(n) ==
    /\ Len(n) \in 1..MaxFilenameLen
    /\ \A i \in DOMAIN n : n[i] \notin {"<", "DEL", "\\"}
    /\ BaseName(n) # <<"N">>
    /\ \A i \in 1..(Len(n) - 1) : <<n[i], n[i + 1]>> # <<".", ".">>
    /\ n[1] # "."

\* The extensions that are refused as dangerous are none of those allowed.
ValidateFileExtension(n) == AllowedTypes(Ext(n)) # {}

ValidateContentType(n, type) == type \in AllowedTypes(Ext(n))

ValidateFileSize(size) == size \in 1..MaxFileSize

ValidateFile(header) ==
    /\ ValidateFilename(header.name)
    /\ ValidateFileExtension(header.name)
    /\ ValidateFileSize(header.size)
    /\ header.contentType # "" => ValidateContentType(header.name, header.contentType)

-----------------------------------------------------------------------------
(* Properties *)

\* Every rune is whole.
WellFormed(n) ==
    \A i \in DOMAIN n :
        /\ n[i] = "lead" => i < Len(n) /\ n[i + 1] = "cont"
        /\ n[i] = "cont" => i > 1 /\ n[i - 1] = "lead"

Accepted(n) == ValidateFilename(n) /\ ValidateFileExtension(n)

\* Sanitizing the name of a stored file again changes nothing, it has the extension it
\* came with, it was cut no shorter than the limit asks, and its runes are whole unless
\* it was cut.
Settles(n) ==
    LET s == SanitizeFilename(n)
        given == Trimmed(Replaced(n))
    IN  Accepted(s) =>
            /\ SanitizeFilename(s) = s
            /\ Ext(s) = Ext(given)
            /\ s = given \/ Len(s) = MaxFilenameLen
            /\ WellFormed(n) /\ s = given => WellFormed(s)
=============================================================================
