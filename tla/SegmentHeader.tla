---------------------------- MODULE SegmentHeader ----------------------------
(***************************************************************************)
(* The header that opens a segment file (tcslog/src/header.rs) and the     *)
(* name the file has (segid.rs, util.rs): what one build of the library    *)
(* stores, and what this build makes of what it finds.                     *)
(*                                                                         *)
(* The offsets and widths are the code's.  A byte is a number below Base,  *)
(* which an instance may take smaller than 256 to keep numbers small; Zero *)
(* is the byte of the character '0', and ten digits follow it.  A name is  *)
(* a sequence of characters, and Digits are those of an identifier, lowest *)
(* first; an identifier has Groups groups of GroupLen digits.              *)
(***************************************************************************)
EXTENDS Naturals, SequencesExt

CONSTANTS Base, Zero, TypeMagic, Digits, Groups, GroupLen, PrefixMax

ASSUME HeaderAssumption ==
  /\ {Base, Zero, Groups, GroupLen, PrefixMax} \subseteq Nat
  /\ Groups > 0 /\ GroupLen > 0
  /\ Zero + 10 <= Base
  /\ TypeMagic \in [1 .. 8 -> 0 .. Base - 1]
  /\ Len(Digits) > 1

\* The version this build writes, and the first it still reads.
ThisBuild == [major |-> 1, minor |-> 1, patch |-> 0]

HeaderBytes == 53   \* SEGMENT_FILE_HEADER_LEN

Refused(error) == [accepted |-> FALSE, error |-> error]

-----------------------------------------------------------------------------
(* Formats.                                                                *)

FixedFormat(n) == [kind |-> "fixed", len |-> n]
VariableSimple == [kind |-> "simple", len |-> 0]
VariableTsRc == [kind |-> "tsrc", len |-> 0]

Tag(format) ==
  CASE format.kind = "fixed" -> 0 [] format.kind = "simple" -> 1
    [] format.kind = "tsrc" -> 2

\* from_tag: the formats the two fields name, none if they are not of a format.
FromTag(tag, arg) ==
  {f \in {FixedFormat(arg), VariableSimple, VariableTsRc} :
     Tag(f) = tag /\ (f.kind = "fixed" => arg > 0)}

DataHeaderLen(format) ==
  CASE format.kind = "fixed" -> 0 [] format.kind = "simple" -> 4
    [] format.kind = "tsrc" -> 18

\* A mistake: every file is laid out as this build lays its own out.
DataHeaderLenNow(format, minor) == DataHeaderLen(format)

\* data_header_len_in: a 1.0 file counts its records in 32 bits.
DataHeaderLenIn(format, minor) ==
  IF format.kind = "tsrc" /\ minor = 0 THEN 16 ELSE DataHeaderLen(format)

-----------------------------------------------------------------------------
(* The header.                                                             *)

FieldNames == <<"type", "version", "segment_id", "session_id", "max_size",
                "remaining", "tag", "arg", "sequence">>

\* A mistake: the sequence starts within the format's argument.
OffOverlapping ==
  [type |-> 0, version |-> 8, segment_id |-> 12, session_id |-> 20,
   max_size |-> 28, remaining |-> 32, tag |-> 40, arg |-> 41, sequence |-> 44]

Off ==
  [type |-> 0, version |-> 8, segment_id |-> 12, session_id |-> 20,
   max_size |-> 28, remaining |-> 32, tag |-> 40, arg |-> 41, sequence |-> 45]

Width ==
  [type |-> 8, version |-> 4, segment_id |-> 8, session_id |-> 8,
   max_size |-> 4, remaining |-> 8, tag |-> 1, arg |-> 4, sequence |-> 8]

LittleEndian(n, width) ==
  [i \in 1 .. width |-> (n \div Base ^ (i - 1)) % Base]
Number(bytes) == FoldRight(LAMBDA b, n : n * Base + b, bytes, 0)

\* version_bytes: two digits of the major, one of the minor, one of the patch.
VersionBytes(build) ==
  <<Zero + (build.major \div 10), Zero + (build.major % 10),
    Zero + (build.minor % 10), Zero + (build.patch % 10)>>

\* to_bytes, as a build writes it.
ToBytes(h, build) ==
  LET stored ==
        [f \in DOMAIN Off |->
           CASE f = "type" -> TypeMagic
             [] f = "version" -> VersionBytes(build)
             [] f = "tag" -> <<Tag(h.format)>>
             [] f = "arg" -> LittleEndian(h.format.len, Width[f])
             [] OTHER -> LittleEndian(h[f], Width[f])]
      place(out, f) ==
        [i \in 1 .. HeaderBytes |->
           IF i - Off[f] \in 1 .. Width[f] THEN stored[f][i - Off[f]] ELSE out[i]]
  IN FoldLeft(place, [i \in 1 .. HeaderBytes |-> 0], FieldNames)

\* A mistake: a file of a later minor version is read as well.
CheckMajorOnly(field) ==
  LET digit(i) == field[i] - Zero IN
  /\ \A i \in 1 .. 4 : field[i] \in Zero .. Zero + 9
  /\ digit(1) * 10 + digit(2) = ThisBuild.major

\* check_version: four digits, this build's major and no later minor.
CheckVersion(field) ==
  LET digit(i) == field[i] - Zero IN
  /\ \A i \in 1 .. 4 : field[i] \in Zero .. Zero + 9
  /\ digit(1) * 10 + digit(2) = ThisBuild.major
  /\ digit(3) <= ThisBuild.minor

\* from_bytes.
FromBytes(bytes) ==
  LET field(f) == SubSeq(bytes, Off[f] + 1, Off[f] + Width[f])
      formats == FromTag(field("tag")[1], Number(field("arg")))
  IN IF Len(bytes) < HeaderBytes \/ field("type") # TypeMagic
     THEN Refused("InvalidHeader")
     ELSE IF ~ CheckVersion(field("version")) THEN Refused("VersionMismatch")
     ELSE IF formats = {} THEN Refused("InvalidHeader")
     ELSE [accepted |-> TRUE,
           header |-> [segment_id |-> Number(field("segment_id")),
                       session_id |-> Number(field("session_id")),
                       max_size |-> Number(field("max_size")),
                       remaining |-> Number(field("remaining")),
                       sequence |-> Number(field("sequence")),
                       format |-> CHOOSE f \in formats : TRUE,
                       version_minor |-> field("version")[3] - Zero]]

-----------------------------------------------------------------------------
(* Names.                                                                  *)

StrLen == Groups * (GroupLen + 1) - 1   \* SegId::STR_LEN

IsDash(i) == i % (GroupLen + 1) = 0

\* A mistake: an identifier's text has its lowest digit first.
TextReversed(id) ==
  [i \in 1 .. StrLen |->
     IF IsDash(i) THEN "-"
     ELSE LET place == i - 1 - i \div (GroupLen + 1)
          IN Digits[1 + ((id \div Len(Digits) ^ place) % Len(Digits))]]

\* Display of a SegId: every digit, highest first, in groups with dashes between.
Text(id) ==
  [i \in 1 .. StrLen |->
     IF IsDash(i) THEN "-"
     ELSE LET place == Groups * GroupLen - (i - i \div (GroupLen + 1))
          IN Digits[1 + ((id \div Len(Digits) ^ place) % Len(Digits))]]

DigitValue(c) == {d \in 0 .. Len(Digits) - 1 : Digits[d + 1] = c}

\* SegId::parse: the identifiers a text stands for, none if it is malformed.
Parse(text) ==
  IF \/ Len(text) # StrLen
     \/ \E i \in 1 .. StrLen :
          IF IsDash(i) THEN text[i] # "-" ELSE DigitValue(text[i]) = {}
  THEN {}
  ELSE {FoldLeft(LAMBDA n, c : n * Len(Digits) + (CHOOSE d \in DigitValue(c) : TRUE),
                 0, SelectSeq(text, LAMBDA c : c # "-"))}

Delimiters == {"/", "\\"}

\* check_log_location, but for the directory: what is wrong with a log's names.
LocationError(log) ==
  IF ToSet(log.prefix \o log.suffix) \cap Delimiters # {}
  THEN {"PathDelimiterNotAllowed"}
  ELSE IF Len(log.prefix) > PrefixMax \/ Len(log.suffix) > PrefixMax
  THEN {"NameTooLong"} ELSE {}

BuildName(log, id) == log.prefix \o Text(id) \o log.suffix

\* A mistake: what stands between prefix and suffix may be anything longer.
IdFromNameLoosely(name, log) ==
  IF /\ Len(name) >= Len(log.prefix) + StrLen + Len(log.suffix)
     /\ IsPrefix(log.prefix, name) /\ IsSuffix(log.suffix, name)
  THEN Parse(SubSeq(name, Len(log.prefix) + 1, Len(log.prefix) + StrLen))
  ELSE {}

\* id_from_name: the identifier in a name of the log, none in any other name.
IdFromName(name, log) ==
  IF /\ Len(name) = Len(log.prefix) + StrLen + Len(log.suffix)
     /\ IsPrefix(log.prefix, name) /\ IsSuffix(log.suffix, name)
  THEN Parse(SubSeq(name, Len(log.prefix) + 1, Len(name) - Len(log.suffix)))
  ELSE {}
=============================================================================
