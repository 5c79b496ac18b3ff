----------------------------- MODULE SegmentFile -----------------------------
(***************************************************************************)
(* Segment files in a directory that several logs share, made by builds of *)
(* this library of several versions, then renamed, copied, damaged or      *)
(* added to, and what a reader of this build makes of each of them:        *)
(* scan_segment_ids (util.rs) and open_validated (read.rs).                *)
(***************************************************************************)
EXTENDS SegmentHeader, FiniteSets

CONSTANTS
  Logs,        \* logs: records of a prefix and a suffix
  Ids,         \* identifiers given to files
  Formats,     \* formats of logs
  Builds,      \* versions that make files
  Sizes,       \* maximum sizes, all beyond the header
  Bytes,       \* what a damaged byte may come to read
  Letters,     \* what a character of a changed name may be
  MaxFiles, MaxChanges

\* A file: its name, its header's bytes, its length, and, for the properties,
\* who made it with what header, and the places of the bytes changed since.
VARIABLES dir, changes

fvars == <<dir, changes>>

Names == {f.name : f \in dir}

Init == dir = {} /\ changes = 0

\* A build makes a file of a log, of any length up to the maximum.
Make(log, id, format, build, size, len) ==
  LET header == [segment_id |-> id, session_id |-> id, max_size |-> size,
                 remaining |-> size - len, format |-> format,
                 sequence |-> 1, version_minor |-> build.minor]
      name == BuildName(log, id)
  IN /\ changes = 0 /\ Cardinality(dir) < MaxFiles
     /\ LocationError(log) = {} /\ name \notin Names
     /\ dir' = dir \cup {[name |-> name, bytes |-> ToBytes(header, build),
                          len |-> len, log |-> log, build |-> build,
                          header |-> header, touched |-> {}]}
     /\ UNCHANGED changes

Change == changes < MaxChanges /\ changes' = changes + 1

Replace(f, g) == dir' = (dir \ {f}) \cup {g}

\* One byte of the header reads differently.
Damage(f, i, b) ==
  /\ Change /\ f.bytes[i] # b
  /\ Replace(f, [f EXCEPT !.bytes[i] = b, !.touched = @ \cup {i}])

\* The file is cut short within its header, or something is added to it.
Resize(f, len) ==
  /\ Change /\ len # f.len
  /\ Replace(f, [f EXCEPT !.len = len,
                          !.bytes = SubSeq(@, 1, IF len < Len(@) THEN len ELSE Len(@))])

\* The file is copied under another name, or renamed: one character reads
\* differently, is left out, or is added at an end.
OtherNames(name) ==
  UNION {{[name EXCEPT ![i] = c], <<c>> \o name, name \o <<c>>,
          SubSeq(name, 1, i - 1) \o SubSeq(name, i + 1, Len(name))} :
         i \in 1 .. Len(name), c \in Letters}

Copy(f, name) ==
  /\ Change /\ name \notin Names
  /\ dir' = dir \cup {[f EXCEPT !.name = name]}

Rename(f, name) ==
  /\ Change /\ name \notin Names
  /\ Replace(f, [f EXCEPT !.name = name])

Next ==
  \/ \E log \in Logs, id \in Ids, format \in Formats, build \in Builds,
        size \in Sizes : \E len \in {HeaderBytes, size} :
       Make(log, id, format, build, size, len)
  \/ \E f \in dir :
       \/ \E i \in DOMAIN f.bytes, b \in Bytes : Damage(f, i, b)
       \/ \E len \in {HeaderBytes - 1, f.header.max_size + 1} : Resize(f, len)
       \/ \E name \in OtherNames(f.name) : Copy(f, name) \/ Rename(f, name)

Spec == Init /\ [][Next]_fvars

-----------------------------------------------------------------------------
(* The reader.                                                             *)

\* scan_segment_ids: the files of a log, by name.
Scan(log) == {f \in dir : IdFromName(f.name, log) # {}}
IdOf(f, log) == CHOOSE id \in IdFromName(f.name, log) : TRUE

\* A mistake: a file is read whatever its name.
ReadableUnderAnyName(f, log) ==
  LET read == FromBytes(f.bytes)
  IN f.len >= HeaderBytes /\ read.accepted /\ f.len <= read.header.max_size

\* open_validated: the files of the scan that are opened and read.
Readable(f, log) ==
  LET read == FromBytes(f.bytes)
  IN /\ f.len >= HeaderBytes /\ read.accepted
     /\ read.header.segment_id = IdOf(f, log)
     /\ f.len <= read.header.max_size

Opened(log) == {f \in Scan(log) : Readable(f, log)}
Header(f) == FromBytes(f.bytes).header

-----------------------------------------------------------------------------
(* Properties.                                                             *)

\* What a build of the library lays out before each payload: a record count of
\* four bytes in version 1.0 and of six in 1.1; what others do is not known.
LaidOut(f) ==
  IF f.header.format # VariableTsRc THEN DataHeaderLen(f.header.format)
  ELSE CASE f.build.minor = 0 -> 4 + 8 + 4 [] f.build.minor = 1 -> 4 + 8 + 6
         [] OTHER -> 0

Readers == {v \in Builds : v.major = ThisBuild.major /\ v.minor <= ThisBuild.minor}

\* Builds of several versions share a directory: a file that is as it was made
\* is read exactly if this build knows its version, with the header its maker
\* gave it, and its records are laid out as its maker laid them out.
VersionsAgree ==
  \A log \in Logs : \A f \in Scan(log) :
    f.log = log /\ f.touched = {} /\ f.len \in {HeaderBytes, f.header.max_size} =>
      /\ Readable(f, log) <=> f.build \in Readers /\ IdOf(f, log) = f.header.segment_id
      /\ Readable(f, log) =>
           /\ Header(f) = f.header
           /\ DataHeaderLenIn(Header(f).format, Header(f).version_minor) = LaidOut(f)

\* The fields a place of the header is part of.
At(i) == {field \in DOMAIN Width : i - Off[field] \in 1 .. Width[field]}
Hit(f) == UNION {At(i) : i \in f.touched}

\* Damage to one field does not show in another: a file that is still read with
\* bytes of its header changed has every other field as it was made.
DamageStaysInField ==
  \A log \in Logs : \A f \in Opened(log) :
    /\ \A field \in {"segment_id", "session_id", "max_size", "remaining", "sequence"} :
         field \notin Hit(f) => Header(f)[field] = f.header[field]
    /\ Hit(f) \cap {"tag", "arg"} = {} => Header(f).format = f.header.format
    /\ "version" \notin Hit(f) => Header(f).version_minor = f.header.version_minor

\* A segment file is read once.  Two names in a directory never stand for one
\* identifier, so that no pending file hides another; and of a file's copies,
\* under whatever names, a reader opens at most one, so that no record comes twice.
ReadOnce ==
  \A log \in Logs :
    /\ \A f, g \in Scan(log) : IdOf(f, log) = IdOf(g, log) => f.name = g.name
    /\ \A f, g \in Opened(log) :
         f.touched = {} /\ g.touched = {} /\ f.header = g.header /\ f.log = g.log => f = g

Rank(c) == IF c = "-" THEN 0 ELSE CHOOSE d \in 1 .. Len(Digits) : Digits[d] = c
Earlier(s, t) ==
  \E i \in 1 .. StrLen : /\ SubSeq(s, 1, i - 1) = SubSeq(t, 1, i - 1)
                         /\ Rank(s[i]) < Rank(t[i])

\* What util.rs says: sorting the names as text gives the order of the
\* identifiers, so that a listing shows a log oldest first.
TextOrder ==
  \A f \in dir : LET made == f.header.segment_id IN
    \A id \in Ids : Earlier(Text(made), Text(id)) <=> made < id

\* "A directory may hold several unrelated logs, distinguished by their prefixes"
\* (manual.rst): a file no one has renamed is scanned by the log that made it and
\* by no other, unless both prefix and suffix differ, and the prefixes by whole
\* groups of an identifier's text, which then reads as well one group further on.
WholeGroups(a, b) ==
  /\ Len(a) # Len(b)
  /\ (IF Len(a) < Len(b) THEN Len(b) - Len(a) ELSE Len(a) - Len(b)) % (GroupLen + 1) = 0

OwnFilesOnly ==
  \A f \in dir : f.name = BuildName(f.log, f.header.segment_id) =>
    \A log \in Logs :
      ~ (log.suffix # f.log.suffix /\ WholeGroups(log.prefix, f.log.prefix)) =>
        (f \in Scan(log) <=> log = f.log)
=============================================================================
