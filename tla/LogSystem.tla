------------------------------ MODULE LogSystem ------------------------------
(***************************************************************************)
(* A log from end to end: writers fill a directory (LogWriter), storage    *)
(* loses some of it, and a reader reads what is left to the end            *)
(* (LogReader).  Damage takes things away and never adds any: a file is    *)
(* gone, is cut short, or has a header that no longer validates.  Or the   *)
(* reader comes while a writer is still at work on the directory.          *)
(***************************************************************************)
EXTENDS LogWriter, SequencesExt

CONSTANTS BufLens, GarbageLens, MaxReadFaults, Chunk,
          Live,         \* may a reader come while a writer writes
          MaxDamaged,   \* how often damage takes something away
          MaxCorrupted, \* how often it changes something
          CorruptValues \* what a damaged header field may read

ASSUME SystemAssumption ==
  /\ BufLens \cup GarbageLens \cup CorruptValues \subseteq Nat
  /\ {MaxReadFaults, MaxDamaged, MaxCorrupted} \subseteq Nat /\ Chunk \in Nat \ {0}
  /\ Live \in BOOLEAN

VARIABLES
  phase,   \* "writing", "damaging" or "live" (both write and read), "reading"
  known,   \* records whose write had returned when the reader was made
  stored,  \* every segment file ever written, before any damage
  damaged, corrupted, \* how often it has been
  disk, lens, pending, current, resync, session, prevSeq, startLost, reopened,
  recovery, headers, lastMeta, rpc, bufLen, need, got, payloadLen, consumed, total, implied,
  results, readFaults

R == INSTANCE LogReader

\* The reader's state but for the directory it reads, and all of it.
readervars == <<pending, current, resync, session, prevSeq, startLost, reopened,
                recovery, headers, lastMeta, rpc, bufLen, need, got, payloadLen,
                consumed, total, implied, results, readFaults>>
rdvars == <<disk, lens, readervars>>

sysvars == <<phase, known, stored, damaged, corrupted, wvars, rdvars>>

SystemInit ==
  /\ Init
  /\ phase = "writing" /\ known = 0 /\ stored = <<>> /\ damaged = 0 /\ corrupted = 0
  /\ R!Init

-----------------------------------------------------------------------------
(* The directory, and what becomes of it.                                  *)

\* What is on storage of the file that is or will be files[i]; no is which it is.
Stored(i, f) == [no |-> i, session |-> f.session, seq |-> f.seq,
                 remaining |-> f.remaining, whole |-> f.whole, data |-> f.data]

\* scan_segment_ids: the files whose names are the log's, sorted; k names of them
\* are up to that of the k-th.
Nth(k) ==
  CHOOSE i \in Present :
    Cardinality({j \in Present : files[j].id <= files[i].id}) = k

Listing ==
  [k \in 1 .. Cardinality(Present) |-> Stored(Nth(k), files[Nth(k)])]

Lengths == [r \in 1 .. Len(records) |-> records[r].len]

\* The files of an earlier listing as they are after a step of a writer: those
\* whose names have gone can no longer be opened.
Refreshed ==
  [k \in 1 .. Len(disk) |->
     IF disk[k].no \in Present' THEN Stored(disk[k].no, files'[disk[k].no])
     ELSE [disk[k] EXCEPT !.whole = FALSE]]

\* A writer works on, before there is a reader or beside it.
Write ==
  /\ phase \in {"writing", "live"} /\ Next
  /\ IF phase = "live" THEN disk' = Refreshed /\ lens' = Lengths'
                       ELSE UNCHANGED <<disk, lens>>
  /\ UNCHANGED <<phase, known, stored, damaged, corrupted, readervars>>

\* A reader lists the directory between two steps of a writer.  The file being
\* created may be there already, without its header.
OpenBesideWriter ==
  /\ Live /\ phase = "writing" /\ phase' = "live"
  /\ \E new \in {<<>>} \cup
                 (IF Creating THEN {<<Stored(Len(files) + 1, NewFile(id, FALSE))>> :
                                      id \in FreeIds} ELSE {}) :
       R!New(Listing \o new, Lengths)
  /\ known' = Cardinality({r \in 1 .. Len(records) : records[r].status # "writing"})
  /\ UNCHANGED <<stored, damaged, corrupted, wvars>>

\* The last writer has gone; of its state only what it stored matters.
StopWriting ==
  /\ phase \in {"writing", "live"} /\ pc = "down" /\ lives > 0
  /\ stored' = [i \in 1 .. Len(files) |-> Stored(i, files[i])]
  /\ IF phase = "live"
     THEN phase' = "reading" /\ UNCHANGED <<disk, lens>>
     ELSE phase' = "damaging" /\ disk' = Listing /\ lens' = Lengths
  /\ files' = <<>>
  /\ clock' = 0 /\ sessionId' = 0 /\ sequence' = 0 /\ recordCount' = 0
  /\ left' = 0 /\ faults' = 0 /\ lives' = 0 /\ taken' = 0
  /\ UNCHANGED <<known, records, cur, pc, why, back, off, scan, damaged, corrupted,
                 readervars>>

\* What becomes of a file: nothing is left of one that is gone.
Remains(f) ==
  {<<>>, <<[f EXCEPT !.whole = FALSE]>>}
    \cup {<<[f EXCEPT !.data = SubSeq(f.data, 1, n)]>> : n \in 0 .. Len(f.data) - 1}

Damage(i) ==
  /\ phase = "damaging" /\ damaged < MaxDamaged /\ damaged' = damaged + 1
  /\ \E remains \in Remains(disk[i]) :
       disk' = SubSeq(disk, 1, i - 1) \o remains \o SubSeq(disk, i + 1, Len(disk))
  /\ UNCHANGED <<phase, known, stored, corrupted, wvars, lens, readervars>>

\* A header that still validates has come to say another sequence number, session
\* or remaining, or a byte of the data has changed. The record sizes, the format
\* and the version that a header tells stay as they were written.
Corrupt(i) ==
  /\ phase = "damaging" /\ corrupted < MaxCorrupted /\ corrupted' = corrupted + 1
  /\ \/ \E v \in CorruptValues, field \in {"seq", "remaining", "session"} :
          disk' = [disk EXCEPT ![i][field] = v]
     \/ \E n \in 1 .. Len(disk[i].data) :
          disk' = [disk EXCEPT ![i].data[n] = <<0, 0>>]
  /\ UNCHANGED <<phase, known, stored, damaged, wvars, lens, readervars>>

\* A reader opens what is left.
OpenReader ==
  /\ phase = "damaging" /\ phase' = "reading"
  /\ R!New(disk, lens)
  /\ known' = Len(lens)
  /\ damaged' = 0 /\ corrupted' = 0
  /\ UNCHANGED <<stored, wvars>>

ReadOn ==
  /\ phase \in {"live", "reading"} /\ R!Next
  /\ UNCHANGED <<phase, known, stored, damaged, corrupted, wvars>>

SystemNext ==
  \/ Write \/ StopWriting \/ OpenBesideWriter
  \/ \E i \in 1 .. Len(disk) : Damage(i) \/ Corrupt(i)
  \/ OpenReader \/ ReadOn

SystemSpec == SystemInit /\ [][SystemNext]_sysvars

FairSystemSpec ==
  SystemSpec /\ WF_sysvars(OpenReader) /\ WF_sysvars(ReadOn)

-----------------------------------------------------------------------------
(* What reading promises, when damage only takes things away.              *)

Payload(r) == BytesOf(r, HeaderLen, TotalLen(lens[r]))

\* The results that handed payload bytes to the caller, and whose they are.
Telling == {i \in 1 .. Len(results) : results[i].data # <<>>}
Told(i) == results[i].data[1][1]

\* Nothing is invented: what a read hands over is the payload of one record
\* that was written, whole when the read returned Ok and otherwise the front
\* of it; bytes from the two sides of a gap are never joined.
NothingInvented ==
  \A i \in 1 .. Len(results) :
    LET r == results[i] IN
    /\ r.kind = "record" => \E n \in 1 .. Len(lens) : r.data = Payload(n)
    /\ r.data # <<>> => IsPrefix(r.data, Payload(Told(i)))

\* Records come in the order in which they were written, and none comes twice,
\* whatever is lost, handed back or recovered on the way.
InOrder == \A i, j \in Telling : i < j => Told(i) < Told(j)

Survives(r) ==
  \A o \in 1 .. TotalLen(lens[r]) :
    \E f \in 1 .. Len(disk) :
      disk[f].whole /\ \E n \in 1 .. Len(disk[f].data) : disk[f].data[n] = <<r, o>>

\* Two files of a session have the last sequence number.
SequencesRunOut ==
  \E f, g \in 1 .. Len(disk) :
    /\ f # g /\ disk[f].session = disk[g].session
    /\ disk[f].seq = SeqMax /\ disk[g].seq = SeqMax

\* Damage is contained: a record whose every byte is in a file that still opens
\* is read, unless the buffer was too small for it, or reading itself failed;
\* also by a reader that came while the next was being written.
DamageContained ==
  R!AtEof /\ readFaults = 0 /\ ~ SequencesRunOut =>
    \A r \in 1 .. known :
      Survives(r) /\ lens[r] > 0 =>
        \E i \in Telling : Told(i) = r /\ results[i].kind \in {"record", "overflow"}

\* The files that the results have told lost, all together.
LostTold ==
  LET sum[i \in 0 .. Len(results)] ==
        IF i = 0 THEN 0 ELSE sum[i - 1] + results[i].lost
  IN sum[Len(results)]

\* A loss is never overstated: the files reported lost are really missing, or
\* could not be opened.
LossNotOverstated ==
  phase = "reading" =>
    LostTold <=
      readFaults + Cardinality({i \in 1 .. Len(stored) :
                                  ~ \E f \in 1 .. Len(disk) :
                                      disk[f].no = i /\ disk[f].whole})

\* What a read says of a record besides its bytes is of that record, also where
\* a loss or a small buffer leaves the front of it, or where it has no payload;
\* no other result says any.
MetaTold ==
  \A i \in 1 .. Len(results) :
    LET r == results[i] IN
    IF Format = "tsrc" /\ i \in Telling THEN r.meta = <<Told(i)>>
    ELSE IF Format = "tsrc" /\ r.kind = "record"
    THEN \E n \in 1 .. Len(lens) : lens[n] = 0 /\ r.meta = <<n>>
    ELSE r.meta = <<>>

\* The headers are each file's once, in order, and no later than the first byte from it.
HeadersListed ==
  /\ \A a, b \in 1 .. Len(headers) : a < b => headers[a].file < headers[b].file
  /\ \A i \in Telling :
       \E a \in 1 .. Len(headers) :
         /\ headers[a].read <= i
         /\ \E n \in 1 .. Len(disk[headers[a].file].data) :
              disk[headers[a].file].data[n] = results[i].data[1]

\* A caller who takes the headers after every read, with room for any number,
\* has each file's once, in order, and no later than the first byte from it.
HeadersTold ==
  rpc = "idle" =>
  /\ HeadersListed
  /\ \A room \in 1 .. Chunk + 1 : R!Drained(headers, room) = headers

\* The iterator passes nothing off for a whole record that is the front of one,
\* nothing for the front of one that is whole, and nothing that is neither.
ItemsMarked ==
  rpc = "idle" =>
  \A i \in 1 .. Len(R!Items) :
    LET item == R!Items[i]
        whole(r) == item.data = Payload(r)
        front(r) == IsStrictPrefix(item.data, Payload(r))
    IN \E r \in 1 .. Len(lens) : IF item.truncated THEN front(r) ELSE whole(r)

SessionOf(r) ==
  {stored[i].session : i \in {j \in 1 .. Len(stored) :
                              \E n \in 1 .. Len(stored[j].data) :
                                stored[j].data[n] = <<r, 1>>}}

\* Two results that tell of records of one session with none between them, and
\* yet a record with a payload was written between the two.
Gap(i, j) ==
  /\ i < j /\ {i, j} \subseteq Telling /\ i + 1 .. j - 1 \cap Telling = {}
  /\ SessionOf(Told(i)) = SessionOf(Told(j))
  /\ \E t \in Told(i) + 1 .. Told(j) - 1 : lens[t] > 0 /\ SessionOf(t) # {}

\* No gap is silent: where the records a session gives back skip one that was
\* written, a read between them has not returned Ok.
NoSilentGap ==
  \A i, j \in 1 .. Len(results) :
    Gap(i, j) => \E m \in i .. j - 1 : results[m].kind # "record"

\* What docs/manual.rst says: every loss the reader finds is reported, and not
\* only by the way, as a record too long for the buffer.
LossesReported ==
  \A i, j \in 1 .. Len(results) :
    Gap(i, j) => \E m \in i .. j - 1 :
                    results[m].kind \notin {"record", "overflow"}

\* Every read leaves the reader nowhere (what find_record_start asserts), or at
\* the start of a record or the end of a data section: never where the next read
\* would take bytes for a header.
PositionSound ==
  rpc = "idle" /\ current # R!NoFile =>
    /\ ~ resync
    /\ LET data == disk[current.file].data IN
       current.pos = Len(data) \/ data[current.pos + 1][2] = 1

\* The reader gets to the end of what is left, by way of any faults.
EofReached == <>(phase = "reading") => <>R!AtEof

\* Every failing read gets somewhere, whatever sequence, session and remaining
\* the headers say and whatever the data: a caller is told of no more faults than
\* three for each file, the failures of reading itself, and the end.
ReadsBounded ==
  Cardinality({i \in 1 .. Len(results) :
                 results[i].kind \notin {"record", "overflow"}})
    <= 3 * Len(disk) + readFaults + 1

-----------------------------------------------------------------------------
(* What docs/manual.rst says of files deleted.                             *)

\* The damage is deletions and nothing else.
OnlyDeleted == \A f \in 1 .. Len(disk) : \E i \in 1 .. Len(stored) : disk[f] = stored[i]

Missing == {i \in 1 .. Len(stored) :
              stored[i].whole /\ \A f \in 1 .. Len(disk) : disk[f] # stored[i]}
Survivors(i) == {f \in 1 .. Len(disk) :
                   disk[f].whole /\ disk[f].session = stored[i].session}

Between == {i \in Missing : \E f, g \in Survivors(i) :
              disk[f].seq < stored[i].seq /\ stored[i].seq < disk[g].seq}
Leading == {i \in Missing : /\ Survivors(i) # {}
                            /\ \A f \in Survivors(i) : stored[i].seq < disk[f].seq}

\* Files deleted from before or between the surviving files of a session are
\* counted, each of them, by the time the reader is at the end.
DeletedCounted ==
  R!AtEof /\ readFaults = 0 /\ OnlyDeleted =>
    LostTold >= Cardinality(Leading \cup Between)
=============================================================================
