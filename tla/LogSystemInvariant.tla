-------------------------- MODULE LogSystemInvariant --------------------------
(***************************************************************************)
(* The inductive invariants of LogSystem: the shape of a reader's state,   *)
(* the budget from which each failing read is paid, and what a reader has  *)
(* read of what was written.                                               *)
(***************************************************************************)
EXTENDS LogSystem, LogWriterInvariant

Writing == phase \in {"writing", "live"}

Option(S) == {s \in Seq(S) : Len(s) <= 1}

\* A segment file as a reader's directory has it.
Segment ==
  [no : Nat, session : Nat, seq : Nat, remaining : Nat, whole : BOOLEAN,
   data : Seq(Byte)]

Outcome ==
  [kind : {"record", "overflow", "truncated", "eof", "end", "error"},
   lost : Nat, data : Seq(Byte), meta : Option(Nat)]

SystemTypes ==
  /\ phase \in {"writing", "live", "damaging", "reading"}
  /\ {known, damaged, corrupted} \subseteq Nat
  /\ stored \in Seq(Segment) /\ disk \in Seq(Segment) /\ lens \in Seq(Nat)

\* The reader's state has the shape its fields have, and its position is within
\* the file that is open.
PlaceTypes ==
  /\ pending \in Seq(1 .. Len(disk))
  /\ current = R!NoFile
     \/ /\ current \in [file : 1 .. Len(disk), pos : Nat, len : Nat]
        /\ current.pos <= current.len
        /\ current.len <= Len(disk[current.file].data)
  /\ session \in Option(Nat) /\ prevSeq \in Option(Nat)
  /\ startLost \in Nat
  /\ reopened \in Option(Nat)
  /\ headers \in Seq([file : 1 .. Len(disk), read : Nat])

CallTypes ==
  /\ rpc \in {"idle", "find", "header", "payload", "skip"}
  /\ {bufLen, need, payloadLen, consumed} \subseteq Nat
  /\ got \in Seq(Byte)
  /\ total \in Option(Nat) /\ implied \in Option(Nat)

RestTypes ==
  /\ resync \in BOOLEAN
  /\ recovery \in Option([file : Nat, owed : Nat])
  /\ lastMeta \in Option(Nat)
  /\ results \in Seq(Outcome)
  /\ readFaults \in Nat

\* What the cursor and the lengths of a call say of one another.
CallShape ==
  /\ rpc \in {"idle", "find"} =>
       /\ need = 0 /\ got = <<>> /\ payloadLen = 0
       /\ consumed = 0 /\ total = <<>> /\ implied = <<>>
  /\ rpc = "header" =>
       /\ Format # "fixed" /\ payloadLen = 0 /\ total = <<>>
       /\ Len(got) = consumed /\ consumed + need = HeaderLen
  /\ rpc = "payload" =>
       /\ total = <<consumed + need + payloadLen - Lesser(payloadLen, bufLen)>>
       /\ Len(got) + need = Lesser(payloadLen, bufLen)
  /\ rpc = "skip" =>
       /\ total = <<consumed + need>>
       /\ payloadLen > bufLen /\ Len(got) = bufLen

\* A reader with a file open has a session and a sequence; one within a record
\* has a file open, and one that has lost its position has none.
Anchored ==
  /\ current # R!NoFile => session # <<>> /\ prevSeq # <<>>
  /\ R!Reading => current # R!NoFile
  /\ resync => current = R!NoFile
  /\ rpc = "find" => resync
  /\ R!AtEof => rpc = "idle"

\* Before there is a reader.
Unborn ==
  phase \in {"writing", "damaging"} =>
    /\ pending = <<>> /\ current = R!NoFile /\ session = <<>>
    /\ headers = <<>> /\ results = <<>> /\ recovery = <<>> /\ rpc = "idle"

\* Beside a writer: the files a reader lists have no byte that was not written.
Listed ==
  phase = "live" =>
    \A k \in 1 .. Len(disk) :
      Len(disk[k].data) <=
        IF disk[k].no \in 1 .. Len(files) THEN Len(files[disk[k].no].data) ELSE 0

ReaderInv == PlaceTypes /\ CallTypes /\ RestTypes /\ CallShape /\ Anchored

SystemInv ==
  /\ SystemTypes
  /\ Writing => Inv /\ NamesInv
  /\ Listed /\ Unborn /\ ReaderInv

-----------------------------------------------------------------------------
(* Every failing read is paid for: by a file taken from those pending, by  *)
(* the open one, by the session, or by a header that runs on into a file   *)
(* that is handed back; or else it is a failure of reading itself.         *)

FailedReads ==
  {i \in 1 .. Len(results) : results[i].kind \notin {"record", "overflow"}}

OpenFile == IF current = R!NoFile THEN 0 ELSE 1
WithSession == IF session = <<>> THEN 0 ELSE 1
RunsOn == IF implied = <<>> THEN 0 ELSE 1
AtEnd == IF R!AtEof THEN 1 ELSE 0

Budget == 3 * Len(pending) + OpenFile + WithSession + 3 * RunsOn

WithinBudget ==
  Cardinality(FailedReads) + Budget <= 3 * Len(disk) + readFaults + AtEnd
-----------------------------------------------------------------------------
(* What a reader has read is what was written.                             *)

\* The segment files that were ever made, and the payload lengths of the records.
Segments ==
  IF Writing THEN [i \in 1 .. Len(files) |-> Stored(i, files[i])] ELSE stored
Written == IF Writing THEN Lengths ELSE lens

Size(r) == TotalLen(Written[r])
Lasts(b) == b[2] = Size(b[1])

\* What is to be relied on of the files as they were written.
SegmentsFlow ==
  \A i \in 1 .. Len(Segments) :
    LET d == Segments[i].data IN
    /\ Len(d) <= DataLen
    /\ \A a \in 1 .. Len(d) : d[a][1] \in 1 .. Len(Written) /\ d[a][2] \in 1 .. Size(d[a][1])
    /\ \A a, c \in 1 .. Len(d) :
         a < c =>
           /\ d[a][2] + (c - a) <= Size(d[a][1]) => d[c] = <<d[a][1], d[a][2] + (c - a)>>
           /\ c = a + 1 /\ Lasts(d[a]) => d[c][2] = 1

SegmentsOrdered ==
  \A i, j \in 1 .. Len(Segments) :
    \A a \in 1 .. Len(Segments[i].data), b \in 1 .. Len(Segments[j].data) :
      Before(<<i, a>>, <<j, b>>) => Before(Segments[i].data[a], Segments[j].data[b])

SegmentsFollow ==
  \A i \in 1 .. Len(Segments) :
    LET s == Segments[i]
        p == Segments[i - 1]
        b == p.data[DataLen] IN
    /\ s.seq # 0 => /\ i > 1 /\ p.session = s.session /\ s.seq = SeqNext(p.seq)
                    /\ Len(p.data) = DataLen => s.remaining = Size(b[1]) - b[2]
    /\ s.remaining # 0 => s.seq # 0 /\ Len(p.data) = DataLen
    /\ s.data # <<>> =>
         s.data[1] = IF s.remaining = 0 THEN <<s.data[1][1], 1>> ELSE <<b[1], b[2] + 1>>

SegmentsRise ==
  \A i, j \in 1 .. Len(Segments) :
    i < j /\ (\A o \in i + 1 .. j : Segments[o].seq # 0) =>
      Segments[i].seq < Segments[j].seq \/ Segments[j].seq >= SeqMax

Truth ==
  /\ SegmentsRise
  /\ SegmentsFlow /\ SegmentsOrdered /\ SegmentsFollow
  /\ Format = "fixed" => \A r \in 1 .. Len(Written) : Written[r] = FixedLen

SequencesLeft == \A i \in 1 .. Len(Segments) : Segments[i].seq < SeqMax

No(k) == disk[k].no

\* File x of a directory is what was written as s, or the front of it.
FrontOf(x, s) ==
  /\ Len(x.data) <= Len(s.data) /\ \A a \in 1 .. Len(x.data) : x.data[a] = s.data[a]
  /\ x.whole =>
       x.session = s.session /\ x.seq = s.seq /\ x.remaining = s.remaining

DiskTrue ==
  \A k \in 1 .. Len(disk) :
    /\ No(k) \in 1 .. Len(Segments) + 1
    /\ IF No(k) <= Len(Segments) THEN FrontOf(disk[k], Segments[No(k)])
       ELSE disk[k].data = <<>> /\ ~ disk[k].whole

\* No file of the session of an earlier one is behind the beginning of another.
SessionsBetween(i, j) ==
  (\E o \in i + 1 .. j : Segments[o].seq = 0) => Segments[i].session < Segments[j].session

DiskOrdered ==
  \A k, l \in 1 .. Len(disk) : k < l =>
    /\ No(k) < No(l)
    /\ IF No(l) <= Len(Segments)
       THEN Segments[No(l)].seq # 0 => SessionsBetween(No(k), No(l))
       ELSE SessionsBetween(No(k), Len(Segments))

DiskInv == DiskTrue /\ DiskOrdered

\* Position p of file i is where a record begins, or behind byte o of record r.
Starts(i, p) ==
  IF p = 0 THEN Segments[i].remaining = 0 ELSE Lasts(Segments[i].data[p])
Within(i, p, r, o) ==
  IF p = 0 THEN Segments[i].remaining # 0 /\ Segments[i - 1].data[DataLen] = <<r, o>>
  ELSE Segments[i].data[p] = <<r, o>>

PendingRises == \A p, q \in 1 .. Len(pending) : p < q => pending[p] < pending[q]

Here == No(current.file)

\* The open file is before those pending, and the session and sequence that the
\* next is compared with are its own; between calls a record begins at the position.
CurrentSound ==
  current # R!NoFile =>
    /\ \A p \in 1 .. Len(pending) : current.file < pending[p]
    /\ Here <= Len(Segments)
    /\ session = <<Segments[Here].session>> /\ prevSeq = <<Segments[Here].seq>>
    /\ startLost = 0
    /\ rpc = "idle" => Starts(Here, current.pos)

\* What the file before the one handed back owed, one that has been lost.
RecoverySound ==
  Format = "simple" /\ recovery # <<>> =>
    LET i == No(recovery[1].file) IN
    /\ recovery[1].file \in 1 .. Len(disk) /\ i \in 2 .. Len(Segments)
    /\ recovery[1].owed = Segments[i - 1].remaining /\ Segments[i - 1].remaining # 0
    /\ startLost = 0 /\ session # <<>>

PlaceSound == PendingRises /\ CurrentSound /\ RecoverySound

\* Byte b was written before the place that the reader is at.
Passed(b) ==
  \E i \in 1 .. Len(Segments) : \E a \in 1 .. Len(Segments[i].data) :
    /\ Segments[i].data[a] = b
    /\ \A p \in 1 .. Len(pending) : i < No(pending[p])
    /\ current # R!NoFile => i < Here \/ (i = Here /\ a <= current.pos)

\* The record being read, and what has been read of it.
Reads(r) ==
  /\ Within(Here, current.pos, r, consumed)
  /\ rpc = "header" => got = BytesOf(r, 0, consumed) /\ implied \in {<<>>, <<lens[r]>>}
  /\ rpc \in {"payload", "skip"} =>
       /\ payloadLen = lens[r]
       /\ Format = "tsrc" => lastMeta = <<r>>
       /\ got = BytesOf(r, HeaderLen, HeaderLen + Len(got))
       /\ got # <<>> => Passed(got[1])
  /\ \A i \in Telling : Told(i) < r

CallSound ==
  /\ R!Reading =>
       IF consumed = 0 THEN Starts(Here, current.pos) /\ got = <<>> /\ implied = <<>>
       ELSE \E r \in 1 .. Len(lens) : Reads(r)
  /\ rpc \in {"payload", "skip"} =>
       /\ total = <<HeaderLen + payloadLen>> /\ consumed >= HeaderLen
       /\ Format = "fixed" => payloadLen = FixedLen
  /\ Format # "tsrc" => lastMeta = <<>>

\* Result x has the front of the payload of record r, or all of it.
Gives(x, r) ==
  /\ Len(x.data) <= lens[r] /\ x.data = BytesOf(r, HeaderLen, HeaderLen + Len(x.data))
  /\ x.meta = IF Format = "tsrc" THEN <<r>> ELSE <<>>
  /\ IF x.kind = "record" THEN Len(x.data) = lens[r] ELSE Len(x.data) < lens[r]

TellsTruth(x) ==
  IF x.kind = "record" \/ x.data # <<>> THEN \E r \in 1 .. Len(lens) : Gives(x, r)
  ELSE x.meta = <<>>

TellSound ==
  /\ \A i \in 1 .. Len(results) : TellsTruth(results[i])
  /\ \A i \in Telling : Passed(results[i].data[1])
  /\ InOrder

ReaderSound == PlaceSound /\ CallSound /\ TellSound

Sources ==
  /\ Writing => WriterInv
  /\ phase = "writing" => disk = <<>>
  /\ phase # "writing" => lens = Written
  /\ Truth

\* A reader of what has only been taken from, of sessions whose sequence numbers have
\* not run out, is where it believes itself to be, and has read what was written.
SoundInv ==
  Sources /\ (MaxCorrupted = 0 => DiskInv /\ (SequencesLeft => ReaderSound))

-----------------------------------------------------------------------------
(* No gap is silent.                                                       *)

\* Results i and on are all records, and only the first of them has a payload.
UnbrokenFrom(i) ==
  \A m \in i .. Len(results) :
    results[m].kind = "record" /\ (m # i => results[m].data = <<>>)

\* The place that the reader is at is behind byte a of file i.
PlaceBehind(i, a) == i < Here \/ (i = Here /\ a <= current.pos)

\* Between the last record told and the reader's place nothing is passed over but
\* records without payload, while each read has returned Ok.
OnTrack ==
  \A i \in Telling :
    UnbrokenFrom(i) =>
      /\ current # R!NoFile
      /\ \A x \in 1 .. Len(Segments) : \A a \in 1 .. Len(Segments[x].data) :
           LET r == Segments[x].data[a][1] IN
           PlaceBehind(x, a) /\ Told(i) < r =>
             \/ Written[r] = 0
             \/ R!Reading /\ consumed # 0 /\ Within(Here, current.pos, r, consumed)

\* Nor has anything been between two records told.
NonePassedOver ==
  \A i, j \in Telling :
    /\ i < j /\ \A m \in i + 1 .. j - 1 : m \notin Telling
    /\ \A m \in i .. j - 1 : results[m].kind = "record"
    => \A x \in 1 .. Len(Segments) : \A a \in 1 .. Len(Segments[x].data) :
         LET r == Segments[x].data[a][1] IN
         Told(i) < r /\ r < Told(j) => Written[r] = 0

TrackInv ==
  /\ Writing => stored = <<>>
  /\ MaxCorrupted = 0 /\ SequencesLeft => OnTrack /\ NonePassedOver

-----------------------------------------------------------------------------
(* Each file's header is told once, and before its bytes.                  *)

\* The header of file f is among those told, by the n-th read at the latest.
HeaderOf(f, n) ==
  \E a \in 1 .. Len(headers) : headers[a].file = f /\ headers[a].read <= n

\* Byte b is in a file whose header has been told by the n-th read.
From(b, n) ==
  \E a \in 1 .. Len(headers) :
    /\ headers[a].read <= n
    /\ \E m \in 1 .. Len(disk[headers[a].file].data) :
         disk[headers[a].file].data[m] = b

\* Headers are told of files before those pending, but for one handed back.
HeadersBefore ==
  \A a \in 1 .. Len(headers), p \in 1 .. Len(pending) :
    /\ headers[a].file <= pending[p]
    /\ headers[a].file = pending[p] => reopened = <<pending[p]>>

HeadersOpen ==
  /\ current # R!NoFile =>
       /\ HeaderOf(current.file, Len(results) + 1)
       /\ \A a \in 1 .. Len(headers) : headers[a].file <= current.file
       /\ \A p \in 1 .. Len(pending) : current.file < pending[p]
  /\ reopened # <<>> => HeaderOf(reopened[1], Len(results) + 1)
  /\ \A a \in 1 .. Len(headers) : headers[a].read <= Len(results) + 1
  /\ rpc \in {"payload", "skip"} /\ got # <<>> => From(got[1], Len(results) + 1)

\* What a live reader has listed is what has been written of it, or the front of it.
LiveTrue == phase = "live" => DiskInv

HeadersSound == PendingRises /\ HeadersBefore /\ HeadersOpen /\ HeadersListed

HeadersInv == HeadersSound /\ LiveTrue

-----------------------------------------------------------------------------
(* Damage is contained.                                                    *)

BufferGiven == rpc # "idle" => bufLen \in BufLens

\* The files pending are the last of the directory, behind the open one; at the end
\* of the log there are none.
Reached == Len(disk) - Len(pending)

PendingLast ==
  /\ \A p \in 1 .. Len(pending) : pending[p] = Reached + p
  /\ current # R!NoFile => current.file = Reached
  /\ R!AtEof => pending = <<>> /\ current = R!NoFile

\* The records known are written: a writer beside the reader is done with them, and
\* what is still in the directory of the files listed is as that writer left it.
KnownDone ==
  /\ known \in 0 .. Len(lens) /\ (phase \in {"writing", "damaging"} => known = 0)
  /\ phase = "live" =>
       /\ \A r \in 1 .. known : records[r].status # "writing"
       /\ \A k \in 1 .. Len(disk) : No(k) \in Present => disk[k] = Stored(No(k), files[No(k)])

\* What the open file has more than when it was opened is of no record known.
OpenedWhole ==
  current # R!NoFile =>
    LET data == disk[current.file].data IN
    \A n \in current.len + 1 .. Len(data) : ~ (data[n][1] <= known)

\* The reader has come past byte n of file f.
ComePast(f, n) ==
  f <= Reached /\ (current # R!NoFile => f < current.file \/ n <= current.pos)

Recorded(r) ==
  \E i \in Telling : Told(i) = r /\ results[i].kind \in {"record", "overflow"}
Underway(r) == R!Reading /\ consumed # 0 /\ Within(Here, current.pos, r, consumed)

\* A record known that survives, and has something to tell; and that it begins with
\* byte n of file f, which opens.
Due(r) == r \in 1 .. known /\ Survives(r) /\ lens[r] > 0
BeginsAt(r, f, n) == disk[f].whole /\ disk[f].data[n] = <<r, 1>>

\* Such a record is told, or being read, once the reader is past its first byte.
NoneLost ==
  readFaults = 0 =>
    \A f \in 1 .. Len(disk) : \A n \in 1 .. Len(disk[f].data) :
      LET r == disk[f].data[n][1] IN
      Due(r) /\ BeginsAt(r, f, n) /\ ComePast(f, n) => Recorded(r) \/ Underway(r)

ContainInv ==
  /\ BufferGiven /\ PendingLast
  /\ MaxCorrupted = 0 /\ SequencesLeft =>
       KnownDone /\ OpenedWhole /\ (0 \notin BufLens => NoneLost)

-----------------------------------------------------------------------------
(* No loss is overstated.                                                  *)

\* The session being read is that of the file whose header was told last; behind
\* those of which one was told, and before any pending, another begins when it has ended.
SessionTold ==
  session # <<>> =>
    /\ headers # <<>>
    /\ No(headers[Len(headers)].file) <= Len(Segments)
    /\ session = <<Segments[No(headers[Len(headers)].file)].session>>

SessionOver ==
  session = <<>> =>
    \A a \in 1 .. Len(headers), p \in 1 .. Len(pending) :
      \E o \in 1 .. Len(Segments) :
        /\ Segments[o].seq = 0
        /\ No(headers[a].file) < o /\ o <= No(pending[p])

\* The files up to the last that was opened of which none opens any more; and those behind
\* it that the reader has failed to open, as long as it may come to know what is missing.
Vanished ==
  {i \in 1 .. Len(Segments) :
     /\ \E a \in 1 .. Len(headers) : i <= No(headers[a].file)
     /\ ~ \E f \in 1 .. Len(disk) : No(f) = i /\ disk[f].whole}

Unopened ==
  {f \in 1 .. Len(disk) :
     /\ disk[f].whole /\ f <= Reached /\ pending # <<>>
     /\ \A a \in 1 .. Len(headers) : headers[a].file < f}

\* What is told of losses, and what is yet to be, is paid for by the files that are gone
\* and by the failures to open one.
LossesPaid ==
  LostTold + startLost + Cardinality(Unopened) <= readFaults + Cardinality(Vanished)

LossInv ==
  MaxCorrupted = 0 /\ SequencesLeft => SessionTold /\ SessionOver /\ LossesPaid
=============================================================================
