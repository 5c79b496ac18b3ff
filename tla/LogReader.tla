------------------------------ MODULE LogReader ------------------------------
(***************************************************************************)
(* LogRead (tcslog/src/read.rs): a reader of a directory of segment files, *)
(* any of which may be missing, cut short, unreadable, or left unfinished  *)
(* by a writer that failed.                                                *)
(*                                                                         *)
(* disk holds the files LogRead::new found, in the order of the names; a   *)
(* file is referred to by its index there.  A file may still grow or go,   *)
(* but not while it is open: current has its length as it was then.        *)
(* An option is <<>> for None and <<x>> for Some(x).  The caller has asked *)
(* for the header of each file opened, and takes them after each read.     *)
(* rpc is the place in the read() in progress:                             *)
(*   "idle"     between calls                                              *)
(*   "find"     find_record_start, at the top of its loop                  *)
(*   "header"   read_data_header, with need bytes of the header to come    *)
(*   "payload"  the fill of the caller's buffer, with need bytes to come   *)
(*   "skip"     the skip of what does not fit it, likewise                 *)
(***************************************************************************)
EXTENDS SegmentFormat, FiniteSets, SequencesExt

CONSTANTS
  BufLens,       \* buffer lengths a caller passes to read()
  GarbageLens,   \* payload lengths that bytes of no one header may decode to
  Chunk,         \* headers the C library moves at a time
  MaxReadFaults  \* bound on failures to open, read or seek

VARIABLES
  disk,          \* the segment files a directory scan found, sorted
  lens,          \* payload length of each record: what its data header says
  pending, current, resync, session, prevSeq, startLost, reopened, recovery,
  headers,       \* opened_headers: each header retained, and the read it was in
  lastMeta,      \* last_meta
  rpc, bufLen, need, got, payloadLen,
  consumed, total, implied,                       \* the cursor
  results,       \* what each read() returned, oldest first
  readFaults

cursor == <<consumed, total, implied>>
call == <<bufLen, need, got, payloadLen>>
place == <<pending, current, session, prevSeq, startLost, reopened, headers>>
\* What all but a few steps leave alone.
aside == <<disk, lens, lastMeta>>
rvars == <<aside, place, resync, recovery, rpc, call, cursor, results,
           readFaults>>

NoFile == [file |-> 0, pos |-> 0, len |-> 0]

\* File f, opened just now, at position p of its data section.
Open(f, p) == [file |-> f, pos |-> p, len |-> Len(disk[f].data)]

-----------------------------------------------------------------------------
(* The results of read().                                                  *)

\* Only a result with a record, or the front of one, carries metadata: of a
\* whole record its own, otherwise what last_meta says.
Result(kind, lost, data) ==
  [kind |-> kind, lost |-> lost, data |-> data,
   meta |-> IF kind = "record" \/ data # <<>> THEN lastMeta ELSE <<>>]

\* The payload bytes the caller's buffer holds, payload_in_buf of them.
InBuf == IF rpc \in {"payload", "skip"} THEN got ELSE <<>>

Truncated(lost) == Result("truncated", lost, InBuf)

\* Between calls nothing of the call remains.
EndCall ==
  /\ rpc' = "idle"
  /\ bufLen' = 0 /\ need' = 0 /\ got' = <<>> /\ payloadLen' = 0
  /\ consumed' = 0 /\ total' = <<>> /\ implied' = <<>>

Return(r) == EndCall /\ results' = Append(results, r)

\* A failed read gives its position up (lose_position).  While skipping, the
\* failure is not told: the caller gets the overflow it would have got.
Fails(r) ==
  /\ Return(IF rpc = "skip" THEN Result("overflow", 0, got) ELSE r)
  /\ resync' = TRUE

ReadFault == readFaults < MaxReadFaults /\ readFaults' = readFaults + 1

-----------------------------------------------------------------------------
(* open_next and open_validated.                                           *)

\* A file opens when its header is whole and names it.
Valid(f) == disk[f].whole

Behind(k) == SubSeq(pending, k + 1, Len(pending))

\* The first k pending files are passed over: those that do not validate, and
\* those the file system fails to open.  more counts a failure that follows.
PassOver(k, more) ==
  LET failing == {i \in 1 .. k : Valid(pending[i])} IN
  /\ readFaults + Cardinality(failing) + more <= MaxReadFaults
  /\ readFaults' = readFaults + Cardinality(failing) + more

NoneLeft == PassOver(Len(pending), 0)

\* It is of another session than the one being read: it stays pending.
EndsSession(k) ==
  /\ Valid(pending[k + 1]) /\ PassOver(k, 0)
  /\ session # <<>> /\ session[1] # disk[pending[k + 1]].session
  /\ pending' = Behind(k)

\* A mistake: the session that has ended is still the one being read.
ForgetPosition == prevSeq' = <<>> /\ recovery' = <<>> /\ UNCHANGED session

ForgetSession == session' = <<>> /\ prevSeq' = <<>> /\ recovery' = <<>>

\* A mistake: a file is always opened for the first time.
AgainNever(f) == FALSE

\* reject_current handed the file back, so it has been counted before.
Again(f) == reopened = <<f>>

\* It is the next file.  The first of a session says by its sequence how many
\* were lost before it.  A file handed back (by reject_current) stays pending,
\* and is not counted again when it is next opened.
Opens(k, handBack, more) ==
  LET f == pending[k + 1]
      again == Again(f) IN
  /\ Valid(f) /\ PassOver(k, more)
  /\ session \in {<<>>, <<disk[f].session>>}
  /\ headers' = IF again THEN headers
                ELSE Append(headers, [file |-> f, read |-> Len(results) + 1])
  /\ pending' = IF handBack THEN Behind(k) ELSE Behind(k + 1)
  /\ reopened' = IF handBack THEN <<f>> ELSE IF again THEN <<>> ELSE reopened
  /\ session' = <<disk[f].session>>
  /\ prevSeq' = <<disk[f].seq>>

Exhausted ==
  IF current = NoFile THEN TRUE
  ELSE current.pos >= current.len

-----------------------------------------------------------------------------
(* read(), up to the start of a record.                                    *)

\* A record starts at the reader's position: a "fixed" one with its payload,
\* any other with its data header.
FreshStart(n) ==
  /\ bufLen' = n /\ got' = <<>> /\ consumed' = 0 /\ implied' = <<>>
  /\ IF Format = "fixed"
     THEN /\ rpc' = "payload" /\ payloadLen' = FixedLen
          /\ need' = Lesser(FixedLen, n) /\ total' = <<FixedLen>>
          /\ lastMeta' = <<>>
     ELSE /\ rpc' = "header" /\ payloadLen' = 0
          /\ need' = HeaderLen /\ total' = <<>>
          /\ UNCHANGED lastMeta

ReadAtEnd ==
  /\ rpc = "idle" /\ pending = <<>> /\ Exhausted
  /\ current' = NoFile
  /\ Return(Result("eof", 0, <<>>))
  /\ UNCHANGED <<aside, pending, session, prevSeq, startLost, reopened,
                 headers, resync, recovery, readFaults>>

Read(n) ==
  /\ rpc = "idle" /\ ~ (pending = <<>> /\ Exhausted)
  /\ IF resync \/ current = NoFile
     THEN /\ resync' = TRUE /\ rpc' = "find" /\ bufLen' = n
          /\ UNCHANGED <<need, got, payloadLen, cursor, lastMeta>>
     ELSE FreshStart(n) /\ UNCHANGED resync
  /\ UNCHANGED <<disk, lens, place, recovery, results, readFaults>>

\* recovered_payload_len: the one gap whose arithmetic gives the length of the
\* record whose data header it swallowed.
Recovers(f) ==
  /\ Format = "simple"
  /\ recovery # <<>> /\ recovery[1].file = f
  /\ disk[f].remaining # 0
  /\ DataLen = recovery[1].owed + HeaderLen

\* Nothing in the file but the tail of a record begun earlier.
OnlyTail(f) == ~ Recovers(f) /\ disk[f].remaining >= Len(disk[f].data)

\* The files have run out: the end of the log.
FindNone ==
  /\ rpc = "find" /\ NoneLeft
  /\ pending' = <<>> /\ recovery' = <<>> /\ current' = NoFile
  /\ Fails(Result("eof", 0, <<>>))
  /\ UNCHANGED <<aside, session, prevSeq, startLost, reopened, headers>>

FindSessionEnd(k) ==
  /\ rpc = "find" /\ EndsSession(k)
  /\ ForgetSession /\ current' = NoFile
  /\ Fails(Result("end", 0, <<>>))
  /\ UNCHANGED <<aside, startLost, reopened, headers>>

LostAhead(k) == IF session = <<>> THEN disk[pending[k + 1]].seq ELSE startLost

\* A mistake: a file with no start in it stays the next to be opened.
FindKeeps(k) ==
  LET f == pending[k + 1] IN
  /\ rpc = "find" /\ Opens(k, TRUE, 0)
  /\ OnlyTail(f)
  /\ startLost' = LostAhead(k)
  /\ recovery' = <<>> /\ current' = NoFile
  /\ UNCHANGED <<aside, resync, rpc, call, cursor, results>>

\* No record starts in the file: on to the next.
FindDiscards(k) ==
  LET f == pending[k + 1] IN
  /\ rpc = "find" /\ Opens(k, FALSE, 0)
  /\ OnlyTail(f)
  /\ startLost' = LostAhead(k)
  /\ recovery' = <<>> /\ current' = NoFile
  /\ UNCHANGED <<aside, resync, rpc, call, cursor, results>>

\* A record starts in the file.  Files lost ahead of the session are reported
\* first, and the position kept for the next read.
FindsStart(k) ==
  LET f == pending[k + 1]
      start == IF Recovers(f) THEN 0 ELSE disk[f].remaining IN
  /\ rpc = "find" /\ Opens(k, FALSE, 0)
  /\ ~ OnlyTail(f)
  /\ current' = Open(f, start) /\ recovery' = <<>> /\ resync' = FALSE
  /\ startLost' = 0
  /\ IF LostAhead(k) > 0
     THEN Return(Truncated(LostAhead(k))) /\ UNCHANGED lastMeta
     ELSE /\ UNCHANGED results
          /\ IF Recovers(f)
             THEN LET n == disk[f].remaining IN
                  /\ rpc' = "payload" /\ payloadLen' = n
                  /\ need' = Lesser(n, bufLen) /\ got' = <<>>
                  /\ consumed' = HeaderLen /\ total' = <<HeaderLen + n>>
                  /\ implied' = <<>> /\ lastMeta' = <<>>
                  /\ UNCHANGED bufLen
             ELSE FreshStart(bufLen)
  /\ UNCHANGED <<disk, lens>>

\* The seek past the bytes the file owes fails.
FindSeekFails(k) ==
  LET f == pending[k + 1] IN
  /\ rpc = "find" /\ Opens(k, FALSE, 1)
  /\ ~ Recovers(f) /\ ~ OnlyTail(f)
  /\ startLost' = LostAhead(k) /\ recovery' = <<>> /\ current' = NoFile
  /\ Fails(Result("error", 0, <<>>))
  /\ UNCHANGED aside

-----------------------------------------------------------------------------
(* fill and skip, within one file.                                         *)

Reading == rpc \in {"header", "payload", "skip"}

\* The bytes of the current file from the reader's position, n of them.
Ahead(n) ==
  SubSeq(disk[current.file].data, current.pos + 1, current.pos + n)

Piece == Lesser(need, current.len - current.pos)

ReadPiece ==
  /\ Reading /\ need > 0 /\ ~ Exhausted
  /\ got' = IF rpc = "skip" THEN got ELSE got \o Ahead(Piece)
  /\ current' = [current EXCEPT !.pos = @ + Piece]
  /\ consumed' = consumed + Piece
  /\ need' = need - Piece
  /\ UNCHANGED <<aside, pending, session, prevSeq, startLost, reopened,
                 headers, resync, recovery, rpc, bufLen, payloadLen, total,
                 implied, results, readFaults>>

\* A mistake: a failed read keeps its position.
PieceFailsInPlace ==
  /\ Reading /\ need > 0 /\ ~ Exhausted /\ ReadFault
  /\ Return(Result("error", 0, <<>>))
  /\ UNCHANGED <<aside, place, resync, recovery>>

PieceFails ==
  /\ Reading /\ need > 0 /\ ~ Exhausted /\ ReadFault
  /\ current' = NoFile
  /\ Fails(Result("error", 0, <<>>))
  /\ UNCHANGED <<aside, pending, session, prevSeq, startLost, reopened,
                 headers, recovery>>

-----------------------------------------------------------------------------
(* cross: the next file, and the checks that it follows.                   *)

Crossing == Reading /\ need > 0 /\ Exhausted

\* The record runs off the end of the log.
CrossNone ==
  /\ Crossing /\ NoneLeft
  /\ pending' = <<>> /\ current' = NoFile
  /\ Fails(Truncated(0))
  /\ UNCHANGED <<aside, session, prevSeq, startLost, reopened, headers,
                 recovery>>

\* Between two records a session's end is one; within a record it is the end
\* of that record first, and of the session at the next read.
CrossSessionEnd(k) ==
  /\ Crossing /\ EndsSession(k)
  /\ current' = NoFile
  /\ IF consumed > 0
     THEN /\ Fails(Truncated(0))
          /\ recovery' = <<>> /\ UNCHANGED <<session, prevSeq>>
     ELSE Fails(Result("end", 0, <<>>)) /\ ForgetSession
  /\ UNCHANGED <<aside, startLost, reopened, headers>>

\* The file that ran out is cut short: what it lost cannot be measured.
Short == current.len < DataLen

\* What the data header has still to come, when the crossing splits it.
HeaderRest == HeaderLen - consumed

\* remaining is what the record being read still owes.  Within a data header
\* that is not known yet, and remaining implies the payload length instead.
Matches(f) ==
  LET owed == disk[f].remaining IN
  IF consumed = 0 THEN owed = 0
  ELSE IF total # <<>> THEN owed = total[1] - consumed
  ELSE owed >= HeaderRest /\ implied \in {<<>>, <<owed - HeaderRest>>}

\* The sequence looked for is one more in 64 bits.
Successor(s) == (s + 1) % (SeqMax + 1)

\* Mistakes: the file that ran out is not measured; or the next file is taken
\* for the successor when it owes the right length, or when its sequence is.
FollowsShort(f) == disk[f].seq = Successor(prevSeq[1]) /\ Matches(f)
FollowsByLength(f) == ~ Short /\ Matches(f)

Follows(f) == ~ Short /\ disk[f].seq = Successor(prevSeq[1]) /\ Matches(f)

CrossFollows(k) ==
  LET f == pending[k + 1] IN
  /\ Crossing /\ Opens(k, FALSE, 0) /\ Follows(f)
  /\ current' = Open(f, 0)
  /\ implied' = IF consumed > 0 /\ total = <<>>
                THEN <<disk[f].remaining - HeaderRest>> ELSE implied
  /\ UNCHANGED <<aside, startLost, resync, recovery, rpc, call, consumed,
                 total, results>>

\* The files missing between the two, by their sequences, in 64 bits as well.
\* A mistake: the surviving file is counted with the lost.
LostBetweenInclusive(f) ==
  IF disk[f].seq > Successor(prevSeq[1]) THEN disk[f].seq - prevSeq[1] ELSE 0

LostBetween(f) ==
  IF disk[f].seq > Successor(prevSeq[1])
  THEN (disk[f].seq + SeqMax - prevSeq[1]) % (SeqMax + 1) ELSE 0

\* Mistakes: the search goes on in the same call, and nobody is told; or the
\* file is not handed back.
CrossSilently(k) ==
  LET f == pending[k + 1] IN
  /\ Crossing /\ Opens(k, TRUE, 0) /\ ~ Follows(f)
  /\ current' = NoFile /\ resync' = TRUE /\ rpc' = "find"
  /\ UNCHANGED <<aside, startLost, recovery, call, cursor, results>>

CrossDrops(k) ==
  LET f == pending[k + 1] IN
  /\ Crossing /\ Opens(k, FALSE, 0) /\ ~ Follows(f)
  /\ current' = NoFile
  /\ Fails(Truncated(LostBetween(f)))
  /\ UNCHANGED <<aside, startLost, recovery>>

\* The file does not follow: it is handed back, with a hint for the search that
\* the next read makes when one whole file is missing.
CrossRejects(k) ==
  LET f == pending[k + 1] IN
  /\ Crossing /\ Opens(k, TRUE, 0) /\ ~ Follows(f)
  /\ current' = NoFile
  /\ recovery' = IF LostBetween(f) = 1 /\ ~ Short /\ total # <<>>
                 THEN <<[file |-> f, owed |-> total[1] - consumed]>>
                 ELSE recovery
  /\ Fails(Truncated(LostBetween(f)))
  /\ UNCHANGED <<aside, startLost>>

-----------------------------------------------------------------------------
(* The end of each part of a record.                                       *)

\* The payload length a complete data header decodes to: its record's, if the
\* bytes are the header of one record, and otherwise anything.
Decoded ==
  IF \E r \in 1 .. Len(lens) : got = BytesOf(r, 0, HeaderLen)
  THEN {lens[got[1][1]]} ELSE GarbageLens

\* What a complete data header says of its record besides the length: for a
\* "tsrc" record its time and its count, which stand for the record here, or
\* for none when the bytes are of no one header.  The others have nothing.
MetaOf(header) ==
  IF Format # "tsrc" THEN <<>>
  ELSE IF header = BytesOf(header[1][1], 0, HeaderLen) THEN <<header[1][1]>>
  ELSE <<0>>

\* A mistake: last_meta is left what it was.
HeaderDoneNoMeta ==
  /\ rpc = "header" /\ need = 0
  /\ \E n \in Decoded :
       IF implied \in {<<>>, <<n>>}
       THEN /\ rpc' = "payload" /\ payloadLen' = n
            /\ need' = Lesser(n, bufLen) /\ got' = <<>>
            /\ total' = <<HeaderLen + n>>
            /\ UNCHANGED <<bufLen, consumed, implied, place, resync, results,
                           lastMeta>>
       ELSE /\ pending' = <<current.file>> \o pending
            /\ reopened' = <<current.file>> /\ current' = NoFile
            /\ Fails(Truncated(0))
            /\ UNCHANGED <<session, prevSeq, startLost, headers, lastMeta>>
  /\ UNCHANGED <<disk, lens, recovery, readFaults>>

\* settle_payload_len: the length agrees with what a crossing implied.
HeaderDone ==
  /\ rpc = "header" /\ need = 0
  /\ \E n \in Decoded :
       IF implied \in {<<>>, <<n>>}
       THEN /\ rpc' = "payload" /\ payloadLen' = n
            /\ need' = Lesser(n, bufLen) /\ got' = <<>>
            /\ total' = <<HeaderLen + n>>
            /\ lastMeta' = MetaOf(got)
            /\ UNCHANGED <<bufLen, consumed, implied, place, resync, results>>
       ELSE /\ pending' = <<current.file>> \o pending
            /\ reopened' = <<current.file>> /\ current' = NoFile
            /\ Fails(Truncated(0))
            /\ UNCHANGED <<session, prevSeq, startLost, headers, lastMeta>>
  /\ UNCHANGED <<disk, lens, recovery, readFaults>>

PayloadDone ==
  /\ rpc = "payload" /\ need = 0
  /\ IF payloadLen > bufLen
     THEN /\ rpc' = "skip" /\ need' = payloadLen - bufLen
          /\ UNCHANGED <<bufLen, got, payloadLen, cursor, results>>
     ELSE Return(Result("record", 0, got))
  /\ UNCHANGED <<aside, place, resync, recovery, readFaults>>

SkipDone ==
  /\ rpc = "skip" /\ need = 0
  /\ Return(Result("overflow", 0, got))
  /\ UNCHANGED <<aside, place, resync, recovery, readFaults>>

-----------------------------------------------------------------------------
\* Before there is a reader.
Init ==
  /\ disk = <<>> /\ lens = <<>>
  /\ pending = <<>> /\ current = NoFile
  /\ resync = TRUE /\ session = <<>> /\ prevSeq = <<>> /\ startLost = 0
  /\ reopened = <<>> /\ recovery = <<>> /\ headers = <<>> /\ lastMeta = <<>>
  /\ rpc = "idle" /\ bufLen = 0 /\ need = 0 /\ got = <<>> /\ payloadLen = 0
  /\ consumed = 0 /\ total = <<>> /\ implied = <<>>
  /\ results = <<>> /\ readFaults = 0

\* A mistake: the files are read from the newest back.
NewBackwards(listing, lengths) ==
  /\ listing # <<>>
  /\ disk' = listing /\ lens' = lengths
  /\ pending' = [f \in 1 .. Len(listing) |-> Len(listing) + 1 - f]
  /\ UNCHANGED <<current, session, prevSeq, startLost, reopened, headers, resync,
                 recovery, lastMeta, rpc, call, cursor, results, readFaults>>

\* LogRead::new: a directory with no file of the log is refused.
New(listing, lengths) ==
  /\ listing # <<>>
  /\ disk' = listing /\ lens' = lengths
  /\ pending' = [f \in 1 .. Len(listing) |-> f]
  /\ UNCHANGED <<current, session, prevSeq, startLost, reopened, headers, resync,
                 recovery, lastMeta, rpc, call, cursor, results, readFaults>>

-----------------------------------------------------------------------------
(* What a caller makes of the results and of the headers.                  *)

\* LogReadIter: a record, or as much of one as was read, is an item; the end
\* of the log ends the items, and so does a failure to read.
\* A mistake: only a loss cuts a record, not a buffer too small for it.
ItemOfLoss(r) ==
  [data |-> r.data, meta |-> r.meta, truncated |-> r.kind = "truncated"]

Item(r) ==
  [data |-> r.data, meta |-> r.meta, truncated |-> r.kind # "record"]

Items ==
  LET ends == {i \in 1 .. Len(results) : results[i].kind \in {"eof", "error"}}
      last == IF ends = {} THEN Len(results) ELSE Min(ends) - 1
      has(r) == r.kind = "record" \/ r.data # <<>>
      yielded[i \in 0 .. last] ==
        IF i = 0 THEN <<>>
        ELSE IF has(results[i]) THEN Append(yielded[i - 1], Item(results[i]))
             ELSE yielded[i - 1]
  IN yielded[last]

\* A mistake: headers taken and not wanted are lost.
TakenWholeChunks(hs, room) ==
  LET take[done \in 0 .. room] ==
        LET n == Lesser(Chunk, Len(hs) - done) IN
        IF done + n > room \/ n < Chunk THEN done ELSE take[done + n]
  IN take[0]

\* tcslog_read_take_opened_headers: of the headers hs, as many as there is room
\* for, moved Chunk at a time until there are fewer than were asked for.
Taken(hs, room) ==
  LET take[done \in 0 .. room] ==
        LET want == Lesser(room - done, Chunk)
            n == Lesser(want, Len(hs) - done) IN
        IF done = room \/ n < want THEN done + n ELSE take[done + n]
  IN take[0]

\* A caller with room for so many takes them until fewer come than that.
Drained(hs, room) ==
  LET drain[at \in 0 .. Len(hs)] ==
        LET n == Taken(SubSeq(hs, at + 1, Len(hs)), room) IN
        SubSeq(hs, at + 1, at + n)
          \o IF n < room THEN <<>> ELSE drain[at + n]
  IN drain[0]

AtEof == results # <<>> /\ results[Len(results)].kind = "eof"

\* A caller reads until it is told the log has ended.
Call == ~ AtEof /\ (ReadAtEnd \/ \E n \in BufLens : Read(n))

Step ==
  \/ FindNone \/ CrossNone
  \/ \E k \in 0 .. Len(pending) - 1 :
       \/ FindSessionEnd(k) \/ FindDiscards(k) \/ FindsStart(k)
       \/ FindSeekFails(k)
       \/ CrossSessionEnd(k) \/ CrossFollows(k) \/ CrossRejects(k)
  \/ ReadPiece \/ PieceFails
  \/ HeaderDone \/ PayloadDone \/ SkipDone

Next == Call \/ Step
=============================================================================
