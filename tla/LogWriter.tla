------------------------------ MODULE LogWriter ------------------------------
(***************************************************************************)
(* LogWrite (tcslog/src/write.rs): one process that writes a log, session  *)
(* after session, with the storage it writes to, the callbacks it calls,   *)
(* and the crashes and restarts between two writers of one directory.      *)
(*                                                                         *)
(* Every call on the file system or on the user's handler is a step of its *)
(* own, with its failure as an alternative, so that a crash, or a person   *)
(* deleting a file, can come between any two of them.  pc is the place in  *)
(* the call in progress: "down" (no writer), "idle" (between calls), and   *)
(*   "resend"   send_existing, in LogWrite::new                            *)
(*   "open"     create_segment(true): the first file of a session          *)
(*   "extend"   create_segment(false): a further file of the session       *)
(*   "close"    close_and_send, for the purpose why                        *)
(*   "build"    build_data_header                                          *)
(*   "bytes"    write_bytes, the data header and then the payload          *)
(*   "clear"    the removals of clear()                                    *)
(* and back names the place a successful create_segment returns to.        *)
(***************************************************************************)
EXTENDS SegmentFormat, FiniteSets

CONSTANTS
  RecordCountMax, \* RECORD_COUNT_MAX: the last count a data header can hold
  KeepSent,       \* may a file still have its name after send: a subset of BOOLEAN
  Ticks,          \* how far the clock may advance between two files
  Lens,           \* payload lengths offered to write()
  MaxRecords, MaxFaults, MaxLives, MaxTaken, MaxAnchor  \* bounds of an instance

ASSUME WriterAssumption ==
  /\ RecordCountMax \in Nat \ {0}
  /\ KeepSent \subseteq BOOLEAN /\ KeepSent # {}
  /\ Ticks \subseteq Nat /\ 1 \in Ticks
  /\ Lens \subseteq Nat
  /\ {MaxRecords, MaxFaults, MaxLives, MaxTaken, MaxAnchor} \subseteq Nat

VARIABLES
  files,       \* every segment file ever created, oldest first
  records,     \* every record ever offered to write(), oldest first
  clock,       \* the last reading of the writer's clock
  cur,         \* index in files of the open segment file, 0 for None
  sessionId,   \* session_id
  sequence,    \* sequence
  recordCount, \* record_count
  left,        \* record_bytes_left
  pc, why, back,
  off,         \* bytes of the record in progress already written
  scan,        \* indices of files a directory scan found and not yet visited
  faults, lives, taken

wvars == <<files, records, clock, cur, sessionId, sequence, recordCount, left,
           pc, why, back, off, scan, faults, lives, taken>>

-----------------------------------------------------------------------------
(* A file is what its segment file header says (segment and session        *)
(* identifiers, sequence, remaining), whether that header was wholly       *)
(* written, its data section, who is responsible for it, and whether its   *)
(* name is still in the log's directory.                                   *)

FileStates == {"open", "closed", "refused", "sent"}

File ==
  [id : Nat, session : Nat, seq : Nat, remaining : Nat, whole : BOOLEAN,
   data : Seq(Byte), state : FileStates, present : BOOLEAN]

Record == [len : Nat, count : Nat, status : {"writing", "acked", "failed"}]

Present == {i \in 1 .. Len(files) : files[i].present}

\* The record in progress, and its length with its data header.
Rec == Len(records)
Total == TotalLen(records[Rec].len)

\* room(): what is left of the open file's data section, 0 with none open.
Room == IF cur = 0 THEN 0 ELSE DataLen - Len(files[cur].data)

\* create_unique_file retries until the clock reads a value that names no file
\* in the directory; SegmentNaming has the retries themselves.
FreeIds == {id \in {clock + t : t \in Ticks} :
              \A i \in Present : files[i].id # id}

NewFile(id, whole) ==
  [id |-> id, session |-> IF pc = "open" THEN id ELSE sessionId,
   seq |-> sequence, remaining |-> left, whole |-> whole, data |-> <<>>,
   state |-> IF whole THEN "open" ELSE "closed", present |-> TRUE]

\* What becomes of a file: it is handed to send, which may leave it its name or
\* not; it is closed without that; it loses its name; bytes are added to it.
Sent(f, keep) == [f EXCEPT !.state = "sent", !.present = @ /\ keep]
Ended(f, s) == [f EXCEPT !.state = s]
Gone(f) == [f EXCEPT !.present = FALSE]
Extended(f, bytes) == [f EXCEPT !.data = @ \o bytes]

SetStatus(s) == records' = [records EXCEPT ![Rec].status = s]

Fault == faults < MaxFaults /\ faults' = faults + 1

-----------------------------------------------------------------------------
(* LogWrite::new and the end of a writer.                                  *)

Init ==
  /\ files = <<>> /\ records = <<>>
  /\ clock = 0 /\ cur = 0 /\ sessionId = 0 /\ sequence = 0
  /\ recordCount = 0 /\ left = 0
  /\ pc = "down" /\ why = "none" /\ back = "none" /\ off = 0
  /\ scan = {}
  /\ faults = 0 /\ lives = 0 /\ taken = 0

\* A mistake: the record count runs on into the next session.
StartSessionCounting(return) ==
  /\ sequence' = 0 /\ left' = 0
  /\ pc' = "open" /\ back' = return
  /\ UNCHANGED recordCount

\* start_session, up to the create_segment(true) it ends in.
StartSession(return) ==
  /\ recordCount' = 0 /\ sequence' = 0 /\ left' = 0
  /\ pc' = "open" /\ back' = return

\* create_segment(false), after the sequence has been advanced.
Extend(return) ==
  /\ sequence' = SeqNext(sequence)
  /\ pc' = "extend" /\ back' = return
  /\ UNCHANGED <<recordCount, left>>

\* A call returns: to the caller of write(), or out of LogWrite::new.
Return(at) == pc' = at /\ why' = "none" /\ back' = "none" /\ off' = 0

\* A mistake: a file that cannot be made or closed fails nothing.
ReturnErrorIgnored ==
  IF back = "ready"
  THEN Return("down") /\ UNCHANGED records
  ELSE Return("idle") /\ SetStatus("acked")

ReturnError ==
  IF back = "ready"
  THEN Return("down") /\ UNCHANGED records
  ELSE Return("idle") /\ SetStatus("failed")

\* A mistake: the real-time clock is believed.
AdvancePastNothing(now, ids) == {now}

\* Clock::advance_past: the one value a clock at now is moved to when the
\* directory holds ids: now itself, or one past the highest of them.
AdvancePast(now, ids) ==
  {c \in {now} \cup {id + 1 : id \in ids} : c >= now /\ \A id \in ids : c > id}

\* A mistake: the files an earlier writer left are not handed over.
NewSendsNothing(anchor) ==
  /\ pc = "down" /\ lives < MaxLives
  /\ lives' = lives + 1
  /\ clock' \in AdvancePast(anchor, {files[i].id : i \in Present})
  /\ scan' = {} /\ pc' = "resend"
  /\ sessionId' = 0 /\ sequence' = 0 /\ recordCount' = 0 /\ left' = 0
  /\ UNCHANGED <<files, records, cur, why, back, off, faults, taken>>

\* LogWrite::new anchors the clock on the real-time clock, which may read
\* anything, and scans the directory.  The scan gives the files to hand over
\* and the identifiers to move the clock past; the code moves it after the
\* last file is handed over, and nothing reads it before that.
New(anchor) ==
  /\ pc = "down" /\ lives < MaxLives
  /\ lives' = lives + 1
  /\ clock' \in AdvancePast(anchor, {files[i].id : i \in Present})
  /\ scan' = Present
  /\ pc' = "resend"
  /\ sessionId' = 0 /\ sequence' = 0 /\ recordCount' = 0 /\ left' = 0
  /\ UNCHANGED <<files, records, cur, why, back, off, faults, taken>>

\* The files a scan has not visited are visited in the order of their names.
NextScanned(i) == i \in scan /\ \A j \in scan : files[i].id <= files[j].id

\* send_existing hands one more file over.
Resend(i) ==
  /\ pc = "resend" /\ NextScanned(i)
  /\ \/ /\ \E keep \in KeepSent : files' = [files EXCEPT ![i] = Sent(@, keep)]
        /\ scan' = scan \ {i}
        /\ UNCHANGED <<pc, faults>>
     \/ /\ Fault
        /\ files' = [files EXCEPT ![i] = Ended(@, "refused")]
        /\ scan' = {} /\ pc' = "down"
  /\ UNCHANGED <<records, clock, cur, sessionId, sequence, recordCount, left,
                 why, back, off, lives, taken>>

\* Every file found has been handed over: the first session starts.
FirstSession ==
  /\ pc = "resend" /\ scan = {}
  /\ StartSession("ready")
  /\ UNCHANGED <<files, records, clock, cur, sessionId, why, off, scan, faults,
                 lives, taken>>

\* Drop: a current file with data is handed over, whether or not it can be
\* flushed, and a failure of send is dropped; an empty one is left where it is.
Drop ==
  /\ pc = "idle"
  /\ IF cur = 0
     THEN UNCHANGED <<files, faults>>
     ELSE IF files[cur].data = <<>>
     THEN files' = [files EXCEPT ![cur] = Ended(@, "closed")] /\ UNCHANGED faults
     ELSE \/ /\ \E keep \in KeepSent : files' = [files EXCEPT ![cur] = Sent(@, keep)]
             /\ UNCHANGED faults
          \/ Fault /\ files' = [files EXCEPT ![cur] = Ended(@, "refused")]
  /\ cur' = 0
  /\ Return("down")
  /\ UNCHANGED <<records, clock, sessionId, sequence, recordCount, left, scan,
                 lives, taken>>

-----------------------------------------------------------------------------
(* create_segment: a name nobody has, the file, and its header.            *)

Creating == pc \in {"open", "extend"}

\* What create_segment returns to when the header has been written.
Created ==
  IF back = "ready" THEN Return("idle") /\ UNCHANGED records
  ELSE IF back = "error" THEN Return("idle") /\ SetStatus("failed")
  ELSE pc' = back /\ UNCHANGED <<why, back, off, records>>

CreateSegment(id) ==
  /\ Creating /\ id \in FreeIds
  /\ clock' = id
  /\ files' = Append(files, NewFile(id, TRUE))
  /\ cur' = Len(files) + 1
  /\ sessionId' = IF pc = "open" THEN id ELSE sessionId
  /\ Created
  /\ UNCHANGED <<sequence, recordCount, left, scan, faults, lives, taken>>

\* The file is created, but not all of its header can be written: it stays in
\* the directory, and the writer has no current segment file.
HeaderFails(id) ==
  /\ Creating /\ id \in FreeIds /\ Fault
  /\ clock' = id
  /\ files' = Append(files, NewFile(id, FALSE))
  /\ sessionId' = IF pc = "open" THEN id ELSE sessionId
  /\ ReturnError
  /\ UNCHANGED <<cur, sequence, recordCount, left, scan, lives, taken>>

\* The file cannot be created, for a reason other than its name being taken.
CreateFails(id) ==
  /\ Creating /\ id \in FreeIds /\ Fault
  /\ clock' = id
  /\ ReturnError
  /\ UNCHANGED <<files, cur, sessionId, sequence, recordCount, left, scan,
                 lives, taken>>

-----------------------------------------------------------------------------
(* close_and_send, and what each of its callers does next.                 *)

\* roll and abandon_after_error go on to a further file, the record count
\* running out to a new session.
AfterClose ==
  IF why = "session" THEN StartSession("build") ELSE Extend(back)

CloseAndSend ==
  /\ pc = "close"
  /\ \E keep \in KeepSent : files' = [files EXCEPT ![cur] = Sent(@, keep)]
  /\ cur' = 0
  /\ AfterClose /\ why' = "none"
  /\ UNCHANGED <<records, clock, sessionId, off, scan, faults, lives, taken>>

\* A mistake: the file is left the current one when its close fails.
CloseFailsKeepingIt ==
  /\ pc = "close" /\ Fault
  /\ \E s \in {"closed", "refused"} : files' = [files EXCEPT ![cur] = Ended(@, s)]
  /\ ReturnError
  /\ UNCHANGED <<clock, cur, sessionId, sequence, recordCount, left, scan, lives,
                 taken>>

\* The flush fails, and send is not called, or send itself fails.  After a
\* failed write the failure is ignored; otherwise it ends the call.
CloseFails ==
  /\ pc = "close" /\ Fault
  /\ \E s \in {"closed", "refused"} : files' = [files EXCEPT ![cur] = Ended(@, s)]
  /\ cur' = 0
  /\ IF why = "abandon"
     THEN AfterClose /\ why' = "none" /\ UNCHANGED <<records, off>>
     ELSE ReturnError /\ UNCHANGED <<sequence, recordCount, left>>
  /\ UNCHANGED <<clock, sessionId, scan, lives, taken>>

-----------------------------------------------------------------------------
(* write().                                                                *)

\* A record of another length than a "fixed" log's is refused at once.
Accepts(n) == Format = "fixed" => n = FixedLen

\* The record has begun: without a current segment file it starts a session;
\* at the last record count it ends one and starts another; at the end of a
\* full file it rolls first, so that the new file owes nothing.
BeginWrite(n) ==
  /\ pc = "idle" /\ Len(records) < MaxRecords /\ Accepts(n)
  /\ records' = Append(records, [len |-> n, count |-> 0, status |-> "writing"])
  /\ \/ /\ cur = 0
        /\ StartSession("build") /\ UNCHANGED why
     \/ /\ cur # 0
        /\ Format = "tsrc" /\ recordCount >= RecordCountMax
        /\ pc' = "close" /\ why' = "session" /\ back' = "build"
        /\ UNCHANGED <<sequence, recordCount, left>>
     \/ /\ cur # 0
        /\ ~ (Format = "tsrc" /\ recordCount >= RecordCountMax)
        /\ IF Room = 0 THEN pc' = "close" /\ why' = "roll"
                       ELSE pc' = "build" /\ UNCHANGED why
        /\ back' = "build"
        /\ UNCHANGED <<sequence, recordCount, left>>
  /\ UNCHANGED <<files, clock, cur, sessionId, off, scan, faults, lives, taken>>

\* build_data_header: only a "tsrc" record is counted.
BuildDataHeader ==
  /\ pc = "build"
  /\ IF Format = "tsrc"
     THEN /\ recordCount' = recordCount + 1
          /\ records' = [records EXCEPT ![Rec].count = recordCount + 1]
     ELSE UNCHANGED <<recordCount, records>>
  /\ left' = Total
  /\ pc' = "bytes" /\ back' = "bytes"
  /\ UNCHANGED <<files, clock, cur, sessionId, sequence, why, off, scan, faults,
                 lives, taken>>

\* build_data_header finds the clock past what a timestamp holds: nothing of the
\* record has been counted or stored.
TimestampFails ==
  /\ pc = "build" /\ Format = "tsrc" /\ Fault
  /\ Return("idle") /\ SetStatus("failed")
  /\ UNCHANGED <<files, clock, cur, sessionId, sequence, recordCount, left, scan,
                 lives, taken>>

\* write_bytes is called for the data header and then for the payload, and
\* hands storage what fits: the end of the part in hand, and the length of the
\* next piece of it.
PartEnd == IF off < HeaderLen THEN HeaderLen ELSE Total

Take == Lesser(Room, PartEnd - off)

Storing == pc = "bytes" /\ off < Total

\* A mistake: a file is left for the next when a byte of it is still free.
RollEarly ==
  /\ Storing /\ Room <= 1
  /\ pc' = "close" /\ why' = "roll"
  /\ UNCHANGED <<files, records, clock, cur, sessionId, sequence, recordCount,
                 left, back, off, scan, faults, lives, taken>>

RollWithin ==
  /\ Storing /\ Room = 0
  /\ pc' = "close" /\ why' = "roll"
  /\ UNCHANGED <<files, records, clock, cur, sessionId, sequence, recordCount,
                 left, back, off, scan, faults, lives, taken>>

WriteChunk ==
  /\ Storing /\ Room > 0
  /\ files' = [files EXCEPT ![cur] = Extended(@, BytesOf(Rec, off, off + Take))]
  /\ left' = left - Take
  /\ off' = off + Take
  /\ UNCHANGED <<records, clock, cur, sessionId, sequence, recordCount, pc, why,
                 back, scan, faults, lives, taken>>

\* Mistakes: the abandoned record is still owed by the file after it; or the
\* piece is tried again in that file.
ChunkFailsOwing(n) ==
  /\ Storing /\ Room > 0 /\ n < Take /\ Fault
  /\ files' = [files EXCEPT ![cur] = Extended(@, BytesOf(Rec, off, off + n))]
  /\ pc' = "close" /\ why' = "abandon" /\ back' = "error"
  /\ UNCHANGED <<records, clock, cur, sessionId, sequence, recordCount, left, off,
                 scan, lives, taken>>

ChunkFailsRetried(n) ==
  /\ Storing /\ Room > 0 /\ n < Take /\ Fault
  /\ files' = [files EXCEPT ![cur] = Extended(@, BytesOf(Rec, off, off + n))]
  /\ pc' = "close" /\ why' = "abandon"
  /\ UNCHANGED <<records, clock, cur, sessionId, sequence, recordCount, left, back,
                 off, scan, lives, taken>>

\* write_all fails with n bytes of the piece in the file: the file is given up
\* and the record with it.
ChunkFails(n) ==
  /\ Storing /\ Room > 0 /\ n < Take /\ Fault
  /\ files' = [files EXCEPT ![cur] = Extended(@, BytesOf(Rec, off, off + n))]
  /\ left' = 0
  /\ pc' = "close" /\ why' = "abandon" /\ back' = "error"
  /\ UNCHANGED <<records, clock, cur, sessionId, sequence, recordCount, off, scan,
                 lives, taken>>

\* record_complete, whose failure is the call's although the record is stored.
RecordComplete ==
  /\ pc = "bytes" /\ off = Total
  /\ Return("idle")
  /\ \/ SetStatus("acked") /\ UNCHANGED faults
     \/ SetStatus("failed") /\ Fault
  /\ UNCHANGED <<files, clock, cur, sessionId, sequence, recordCount, left, scan,
                 lives, taken>>

-----------------------------------------------------------------------------
(* clear(): the current file is closed, then every file found is removed.  *)

BeginClear ==
  /\ pc = "idle"
  /\ files' = IF cur = 0 THEN files ELSE [files EXCEPT ![cur] = Ended(@, "closed")]
  /\ cur' = 0 /\ left' = 0
  /\ scan' = Present
  /\ pc' = "clear"
  /\ UNCHANGED <<records, clock, sessionId, sequence, recordCount, why, back, off,
                 faults, lives, taken>>

\* A mistake: a file that has gone is waited for.
ClearStepWaiting(i) ==
  /\ pc = "clear" /\ NextScanned(i) /\ files[i].present
  /\ files' = [files EXCEPT ![i] = Gone(@)]
  /\ scan' = scan \ {i}
  /\ UNCHANGED <<records, clock, cur, sessionId, sequence, recordCount, left, pc,
                 why, back, off, faults, lives, taken>>

\* The removals stop at the first that fails; a file somebody else has taken
\* in the meantime cannot be removed.
ClearStep(i) ==
  /\ pc = "clear" /\ NextScanned(i)
  /\ \/ /\ files[i].present
        /\ files' = [files EXCEPT ![i] = Gone(@)]
        /\ scan' = scan \ {i} /\ UNCHANGED <<pc, faults>>
     \/ /\ ~ files[i].present
        /\ scan' = {} /\ pc' = "idle" /\ UNCHANGED <<files, faults>>
     \/ /\ files[i].present /\ Fault
        /\ scan' = {} /\ pc' = "idle" /\ UNCHANGED files
  /\ UNCHANGED <<records, clock, cur, sessionId, sequence, recordCount, left, why,
                 back, off, lives, taken>>

ClearDone ==
  /\ pc = "clear" /\ scan = {}
  /\ pc' = "idle"
  /\ UNCHANGED <<files, records, clock, cur, sessionId, sequence, recordCount,
                 left, why, back, off, scan, faults, lives, taken>>

-----------------------------------------------------------------------------
(* What happens around the writer.                                         *)

\* Somebody deletes or moves a file other than the one being written.
TakeAway(i) ==
  /\ taken < MaxTaken /\ taken' = taken + 1
  /\ i \in Present /\ files[i].state # "open"
  /\ files' = [files EXCEPT ![i] = Gone(@)]
  /\ UNCHANGED <<records, clock, cur, sessionId, sequence, recordCount, left, pc,
                 why, back, off, scan, faults, lives>>

\* The process ends at any point: n bytes of a piece being written may be in
\* the file, a file just created may have no header.
Crash(n) ==
  /\ pc # "down" /\ Fault
  /\ n \in 0 .. (IF Storing THEN Take ELSE 0)
  /\ \E orphan \in {<<>>} \cup
                   (IF Creating THEN {<<NewFile(id, FALSE)>> : id \in FreeIds}
                                ELSE {}) :
       files' = IF cur = 0
                THEN files \o orphan
                ELSE [files EXCEPT ![cur] =
                        Ended(Extended(@, BytesOf(Rec, off, off + n)), "closed")]
  /\ cur' = 0 /\ scan' = {}
  /\ Return("down")
  /\ records' = [r \in DOMAIN records |->
                   IF records[r].status = "writing"
                   THEN [records[r] EXCEPT !.status = "failed"] ELSE records[r]]
  /\ UNCHANGED <<clock, sessionId, sequence, recordCount, left, lives, taken>>

-----------------------------------------------------------------------------
Caller ==
  \/ \E anchor \in 1 .. MaxAnchor : New(anchor)
  \/ \E n \in Lens : BeginWrite(n)
  \/ BeginClear
  \/ Drop

\* A step of a call in progress.
Step ==
  \/ \E i \in scan : Resend(i) \/ ClearStep(i)
  \/ FirstSession \/ ClearDone
  \/ \E id \in FreeIds : CreateSegment(id) \/ HeaderFails(id) \/ CreateFails(id)
  \/ CloseAndSend \/ CloseFails
  \/ BuildDataHeader \/ TimestampFails
  \/ RollWithin \/ WriteChunk
  \/ \E n \in 0 .. DataLen : ChunkFails(n)
  \/ RecordComplete

Environment ==
  \/ \E i \in Present : TakeAway(i)
  \/ \E n \in 0 .. DataLen : Crash(n)

Next == Caller \/ Step \/ Environment

Spec == Init /\ [][Next]_wvars

\* Calls end: nothing in the writer waits for anything but its own next step.
FairSpec == Spec /\ WF_wvars(Step)

-----------------------------------------------------------------------------
(* Properties.                                                             *)

\* The writer's state has the shape its fields and the files on storage have.
TypeOK ==
  /\ files \in Seq(File)
  /\ records \in Seq(Record)
  /\ {clock, sessionId, sequence, recordCount, left, off} \subseteq Nat
  /\ cur \in 0 .. Len(files)
  /\ pc \in {"down", "idle", "resend", "open", "extend", "close", "build",
             "bytes", "clear"}
  /\ why \in {"none", "roll", "session", "abandon"}
  /\ back \in {"none", "ready", "build", "bytes", "error"}
  /\ scan \subseteq 1 .. Len(files)
  /\ {faults, lives, taken} \subseteq Nat

SameSession(i, j) == files[i].session = files[j].session

\* Sequence numbers are dense: a file that does not open its session comes
\* directly after the file with the sequence before its own, in the same
\* session, and that file has a header.  A reader counts lost files by it, and
\* may trust 0 to open a session, however many files one has.
SequenceDense ==
  \A i \in 1 .. Len(files) :
    IF files[i].seq = 0
    THEN files[i].session = files[i].id
    ELSE /\ i > 1 /\ files[i - 1].whole
         /\ files[i].seq = SeqNext(files[i - 1].seq)
         /\ SameSession(i - 1, i)

\* remaining tells the truth.  A file that owes bytes follows a full file that
\* ends inside a record, owes exactly the rest of that record, and starts with
\* it; a file that owes nothing starts with the first byte of a record.
RemainingTold ==
  \A i \in 1 .. Len(files) :
    LET f == files[i] IN
    IF f.remaining = 0
    THEN f.data # <<>> => f.data[1][2] = 1
    ELSE /\ i > 1 /\ f.seq > 0
         /\ Len(files[i - 1].data) = DataLen
         /\ LET last == files[i - 1].data[DataLen] IN
              /\ f.remaining = TotalLen(records[last[1]].len) - last[2]
              /\ f.data # <<>> => f.data[1] = <<last[1], last[2] + 1>>

\* Files are filled: one that is followed in its session is full, unless the
\* record it ends in, or would have held next, failed; the file after it then
\* owes nothing, so that a reader takes the short file for a damaged one.
OnlyFailureLeavesShort ==
  \A i \in 1 .. Len(files) - 1 :
    files[i + 1].seq > 0 =>
      \/ Len(files[i].data) = DataLen
      \/ /\ Len(files[i].data) < DataLen
         /\ files[i + 1].remaining = 0
         /\ \E r \in 1 .. Len(records) :
              /\ records[r].status # "acked"
              /\ \A o \in 1 .. Len(files[i].data) : files[i].data[o][1] <= r

\* Byte b is on storage, in whatever file; and of two bytes, or of two places in
\* files, which comes before the other.
OnStorage(b) ==
  \E i \in 1 .. Len(files) : \E o \in 1 .. Len(files[i].data) : files[i].data[o] = b

Before(p, q) == p[1] < q[1] \/ (p[1] = q[1] /\ p[2] < q[2])

\* Bytes are on storage in the order in which they were given: no record comes
\* before an earlier one, and no byte is written twice, whatever was rolled out of
\* or tried again.
BytesOrdered ==
  \A i, j \in 1 .. Len(files) :
    \A a \in 1 .. Len(files[i].data), b \in 1 .. Len(files[j].data) :
      Before(<<i, a>>, <<j, b>>) => Before(files[i].data[a], files[j].data[b])

\* Every byte on storage is one of its record, behind the byte before it.
BytesFollow ==
  \A i \in 1 .. Len(files) : \A a \in 1 .. Len(files[i].data) :
    LET b == files[i].data[a] IN
    /\ b[2] \in 1 .. TotalLen(records[b[1]].len)
    /\ b[2] > 1 => OnStorage(<<b[1], b[2] - 1>>)

\* The last byte of record r is on storage.
Whole(r) == OnStorage(<<r, TotalLen(records[r].len)>>)

AckedWhole ==
  \A r \in 1 .. Len(records) : records[r].status = "acked" => Whole(r)

\* A record is on storage as a prefix of itself, once, behind the records before
\* it: no byte of it is written twice, skipped, or written again after a roll or a
\* failure; and a write that returned Ok has stored all of it.
RecordsStored == BytesOrdered /\ BytesFollow /\ AckedWhole

\* The file that holds the first byte of record r, if any does; and whether no
\* session begins after files[i] and up to files[j].
StartsIn(r) ==
  {i \in 1 .. Len(files) :
     \E o \in 1 .. Len(files[i].data) : files[i].data[o] = <<r, 1>>}
OneSession(i, j) == \A k \in i + 1 .. j : files[k].seq # 0

\* No two records of one session carry the same count, counts grow with the
\* records, and none exceeds what a data header can hold: the record after the
\* last count begins a session.
CountsUnique ==
  Format = "tsrc" =>
    \A r, s \in 1 .. Len(records) :
      \A i \in StartsIn(r), j \in StartsIn(s) :
        /\ records[r].count \in 1 .. RecordCountMax
        /\ r < s /\ OneSession(i, j) => records[r].count < records[s].count

\* The names in the directory sort in the order the files were made, across
\* writers and whatever the real-time clock reads when a writer starts, and no
\* two files have one name.
NamesOrdered ==
  \A i, j \in Present : i < j => files[i].id < files[j].id

\* No file is forgotten: of the files in the directory that are not the open one,
\* each failure and each file taken away keeps at most one from having been handed
\* to send, and a writer dropped before its first record one more.
StorageBounded ==
  pc # "clear" =>
    Cardinality({i \in Present \ {cur} : files[i].state # "sent"})
      <= faults + taken + 1

\* A file is handed over complete: once closed it is never written or opened
\* again, whatever becomes of the call that closed it.
ClosedForGood ==
  [][\A i \in 1 .. Len(files) :
       files[i].state # "open" =>
         /\ files'[i].data = files[i].data
         /\ files'[i].state # "open"]_wvars

\* Every call returns: a record longer than a file is carried from file to
\* file to its end, and neither new() nor clear() visits a file for ever.
CallsReturn == pc \notin {"idle", "down"} ~> pc \in {"idle", "down"}

\* What tests/api.rs says of clear(): the session that the next write starts is
\* not the one that was cleared, nor any other that the log has had.
SessionsApart ==
  \A i, j \in 1 .. Len(files) :
    i # j /\ files[i].seq = 0 /\ files[j].seq = 0 =>
      files[i].session # files[j].session

-----------------------------------------------------------------------------
(* The writer implements TelemetryLog: a record is stored when the last of *)
(* its bytes is on storage, in whatever files they are, the others being   *)
(* there once, in their order (RecordsStored).                             *)

Abs == INSTANCE TelemetryLog WITH
         offered <- Len(records),
         busy <- \E r \in 1 .. Len(records) : records[r].status = "writing",
         stored <- {r \in 1 .. Len(records) : Whole(r)},
         acked <- {r \in 1 .. Len(records) : records[r].status = "acked"}

\* Whatever fails, splits or restarts underneath, the program sees a log of
\* whole records: offered one at a time, none stored after its write has returned
\* or out of turn, and none acknowledged without being stored.
ImplementsLog == Abs!Spec
=============================================================================
