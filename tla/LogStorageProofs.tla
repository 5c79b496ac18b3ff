--------------------------- MODULE LogStorageProofs ---------------------------
(***************************************************************************)
(* Records reach storage whole and in order, and a LogWriter implements    *)
(* TelemetryLog, for any length of record and of file, and any number of   *)
(* failures, crashes and restarts.                                         *)
(***************************************************************************)
EXTENDS LogWriterProofs

-----------------------------------------------------------------------------
(* What any step does to storage and to the record in progress.            *)

InWrite == back \in {"build", "bytes", "error"}

\* n bytes of the record in progress come to storage.
Stores(n) ==
  \/ n = 0 /\ (FilesKept \/ FileMadeBehind)
  \/ n \in Nat /\ cur # 0 /\ PieceAdded(n) /\ (n > 0 => pc = "bytes" /\ off + n <= Total)

\* The last record has status s, and nothing else about records changes.
Verdict(s) ==
  /\ records' \in Seq(Record) /\ Len(records') = Len(records)
  /\ \A r \in 1 .. Len(records) :
       /\ records'[r].len = records[r].len
       /\ records'[r].status = IF r = Rec THEN s ELSE records[r].status

\* A write, if one is in progress, goes on, n bytes further; or it ends.
GoesOn(n) ==
  /\ Verdict(records[Rec].status) /\ (InWrite' <=> InWrite)
  /\ back' = "build" => back = "build"
  /\ back' = "bytes" => \/ back = "bytes" /\ off' = off + n
                        \/ back = "build" /\ off' = 0

Ends(s) == Verdict(s) /\ InWrite /\ back' = "none"

\* The steps of a writer, by what they mean to the program that writes.
Writes(n) ==
  \/ n = 0 /\ \E m \in Lens : BeginWrite(m)
  \/ GoesOn(n)
  \/ n = 0 /\ RecordComplete /\ Ends("acked")
  \/ Ends("failed")

LEMMA SameVerdict ==
  ASSUME TypeOK, records' = records
  PROVE  Verdict(records[Rec].status)
BY DEF TypeOK, Verdict

LEMMA VerdictGiven ==
  ASSUME TypeOK, records # <<>>, NEW s \in {"acked", "failed"}, SetStatus(s)
  PROVE  Verdict(s)
<1>1. records \in Seq(Record) /\ Rec \in 1 .. Len(records) BY DEF TypeOK, Rec
<1>2. records[Rec] \in Record BY <1>1
<1> DEFINE g == [records[Rec] EXCEPT !.status = s]
<1>3. g \in Record /\ g.status = s /\ g.len = records[Rec].len BY <1>2 DEF Record
<1>4. records' = [records EXCEPT ![Rec] = g] BY DEF SetStatus
<1> HIDE DEF g
<1>5. /\ records' \in Seq(Record) /\ Len(records') = Len(records) /\ records'[Rec] = g
      /\ \A j \in 1 .. Len(records) : j # Rec => records'[j] = records[j]
  BY <1>1, <1>3, <1>4, Replaced
<1> QED BY <1>3, <1>5 DEF Verdict

LEMMA HeaderVerdict ==
  ASSUME Inv, Alone, BuildDataHeader
  PROVE  Verdict(records[Rec].status)
<1>1. records \in Seq(Record) /\ Rec \in 1 .. Len(records) /\ back = "build"
  BY DEF Inv, TypeOK, Place, Owing, Control, BuildDataHeader, Rec
<1>2. CASE Format # "tsrc"
  <2>1. records' = records BY <1>2 DEF BuildDataHeader
  <2> QED BY <2>1, SameVerdict DEF Inv
<1>3. CASE Format = "tsrc"
  <2>1. records[Rec] \in Record /\ recordCount + 1 \in Nat BY <1>1 DEF Inv, TypeOK
  <2> DEFINE g == [records[Rec] EXCEPT !.count = recordCount + 1]
  <2>2. g \in Record /\ g.status = records[Rec].status /\ g.len = records[Rec].len
    BY <2>1 DEF Record
  <2>3. records' = [records EXCEPT ![Rec] = g] BY <1>3 DEF BuildDataHeader
  <2> HIDE DEF g
  <2>4. /\ records' \in Seq(Record) /\ Len(records') = Len(records) /\ records'[Rec] = g
        /\ \A j \in 1 .. Len(records) : j # Rec => records'[j] = records[j]
    BY <1>1, <2>2, <2>3, Replaced
  <2> QED BY <2>2, <2>4 DEF Verdict
<1> QED BY <1>2, <1>3

LEMMA CrashVerdict ==
  ASSUME TypeOK, Alone, NEW n, Crash(n)
  PROVE  Verdict(IF InWrite THEN "failed" ELSE records[Rec].status)
<1>1. records \in Seq(Record) BY DEF TypeOK
<1> DEFINE g(r) == IF records[r].status = "writing"
                   THEN [records[r] EXCEPT !.status = "failed"] ELSE records[r]
<1>2. records' = [r \in 1 .. Len(records) |-> g(r)] BY <1>1 DEF Crash
<1>3. \A r \in 1 .. Len(records) :
        /\ g(r) \in Record /\ g(r).len = records[r].len
        /\ g(r).status = IF records[r].status = "writing" THEN "failed"
                         ELSE records[r].status
  <2> TAKE r \in 1 .. Len(records)
  <2>1. records[r] \in Record BY <1>1
  <2> QED BY <2>1 DEF Record
<1> HIDE DEF g
<1>4. /\ records' \in Seq(Record) /\ Len(records') = Len(records)
      /\ \A r \in 1 .. Len(records) : records'[r] = g(r)
  BY <1>1, <1>2, <1>3
<1> QED BY <1>3, <1>4 DEF Verdict, Alone, InWrite

LEMMA CallerWrites ==
  ASSUME Inv, Caller
  PROVE  \E n \in Nat : Stores(n) /\ Writes(n)
<1>1. Stores(0) BY CallerMoves DEF Stores
<1>2. ASSUME NEW anchor \in 1 .. MaxAnchor, New(anchor) PROVE GoesOn(0)
  <2>1. Verdict(records[Rec].status) BY <1>2, SameVerdict DEF New, Inv
  <2> QED BY <1>2, <2>1 DEF New, GoesOn, InWrite, Inv, Place, Control
<1>3. CASE BeginClear \/ Drop
  <2>1. Verdict(records[Rec].status) BY <1>3, SameVerdict DEF BeginClear, Drop, Inv
  <2>2. back = "none" /\ back' = "none"
    BY <1>3 DEF BeginClear, Drop, Return, Inv, Place, Control
  <2>3. GoesOn(0) BY <2>1, <2>2 DEF GoesOn, InWrite
  <2> QED BY <1>1, <2>3 DEF Writes
<1> QED BY <1>1, <1>2, <1>3 DEF Caller, Writes

LEMMA ErrorEnds ==
  ASSUME Inv, pc \in {"open", "extend", "close"}, ReturnError
  PROVE  Writes(0)
<1>1. CASE back = "ready"
  <2>1. records' = records /\ back' = "none" BY <1>1 DEF ReturnError, Return
  <2> QED BY <1>1, <2>1, SameVerdict DEF Inv, Writes, GoesOn, InWrite
<1>2. CASE back # "ready"
  <2>1. InWrite BY <1>2 DEF Inv, TypeOK, Place, Control, InWrite
  <2>2. records # <<>> BY <2>1 DEF Inv, Place, Owing, InWrite
  <2>3. SetStatus("failed") /\ back' = "none" BY <1>2 DEF ReturnError, Return
  <2> QED BY <2>1, <2>2, <2>3, VerdictGiven DEF Inv, Writes, Ends
<1> QED BY <1>1, <1>2

LEMMA CreateWrites ==
  ASSUME Inv, NEW id \in FreeIds,
         CreateSegment(id) \/ HeaderFails(id) \/ CreateFails(id)
  PROVE  Writes(0)
<1>1. pc \in {"open", "extend"}
  BY DEF CreateSegment, HeaderFails, CreateFails, Creating
<1>2. CASE HeaderFails(id) \/ CreateFails(id)
  BY <1>1, <1>2, ErrorEnds DEF HeaderFails, CreateFails
<1>3. CASE CreateSegment(id) /\ back = "ready"
  <2>1. records' = records /\ back' = "none" BY <1>3 DEF CreateSegment, Created, Return
  <2> QED BY <1>3, <2>1, SameVerdict DEF Inv, Writes, GoesOn, InWrite
<1>4. CASE CreateSegment(id) /\ back = "error"
  <2>1. SetStatus("failed") /\ back' = "none"
    BY <1>4 DEF CreateSegment, Created, Return
  <2>2. records # <<>> BY <1>4 DEF Inv, Place, Owing
  <2> QED BY <1>4, <2>1, <2>2, VerdictGiven DEF Inv, Writes, Ends, InWrite
<1>5. CASE CreateSegment(id) /\ back \notin {"ready", "error"}
  <2>1. records' = records /\ back' = back /\ off' = off /\ off \in Nat
    BY <1>5 DEF CreateSegment, Created, Inv, TypeOK
  <2> QED BY <2>1, SameVerdict DEF Inv, Writes, GoesOn, InWrite
<1> QED BY <1>2, <1>3, <1>4, <1>5

LEMMA CloseWrites ==
  ASSUME Inv, CloseAndSend \/ CloseFails
  PROVE  Writes(0)
<1>1. CASE CloseFails /\ why # "abandon"
  BY <1>1, ErrorEnds DEF CloseFails
<1>2. CASE CloseAndSend \/ (CloseFails /\ why = "abandon")
  <2>1. records' = records /\ off' = off /\ AfterClose
    BY <1>2 DEF CloseAndSend, CloseFails
  <2>2. back' = back
    BY <2>1 DEF AfterClose, StartSession, Extend, Inv, Place, Control
  <2>3. off \in Nat BY DEF Inv, TypeOK
  <2> QED BY <2>1, <2>2, <2>3, SameVerdict DEF Inv, Writes, GoesOn, InWrite
<1> QED BY <1>1, <1>2

LEMMA StepWrites ==
  ASSUME Inv, Alone, Step
  PROVE  \E n \in Nat : Stores(n) /\ Writes(n)
<1> DEFINE Piece == WriteChunk \/ \E n \in 0 .. DataLen : ChunkFails(n)
<1>1. ~ Piece => Stores(0) BY QuietStepMoves DEF Stores
<1>2. off \in Nat BY DEF Inv, TypeOK
<1>3. ASSUME NEW i \in scan, Resend(i) \/ ClearStep(i) PROVE ~ Piece /\ Writes(0)
  <2>1. Verdict(records[Rec].status) BY <1>3, SameVerdict DEF Resend, ClearStep, Inv
  <2>2. back = "none" /\ back' = "none" /\ pc # "bytes"
    BY <1>3 DEF Resend, ClearStep, Inv, Place, Control
  <2> QED BY <2>1, <2>2 DEF GoesOn, Writes, InWrite, WriteChunk, ChunkFails, Storing
<1>4. CASE FirstSession \/ ClearDone
  <2>1. Verdict(records[Rec].status) BY <1>4, SameVerdict DEF FirstSession, ClearDone, Inv
  <2>2. back = "none" /\ back' \in {"none", "ready"} /\ pc # "bytes"
    BY <1>4 DEF FirstSession, StartSession, ClearDone, Inv, Place, Control
  <2>3. ~ Piece /\ Writes(0)
    BY <2>1, <2>2 DEF GoesOn, Writes, InWrite, WriteChunk, ChunkFails, Storing
  <2> QED BY <1>1, <2>3
<1>5. ASSUME NEW id \in FreeIds, CreateSegment(id) \/ HeaderFails(id) \/ CreateFails(id)
      PROVE  ~ Piece /\ Writes(0)
  <2>1. pc # "bytes" BY <1>5 DEF CreateSegment, HeaderFails, CreateFails, Creating
  <2> QED BY <1>5, <2>1, CreateWrites DEF WriteChunk, ChunkFails, Storing
<1>6. CASE CloseAndSend \/ CloseFails
  <2>1. pc # "bytes" BY <1>6 DEF CloseAndSend, CloseFails
  <2>2. ~ Piece BY <2>1 DEF WriteChunk, ChunkFails, Storing
  <2> QED BY <1>1, <1>6, <2>2, CloseWrites
<1>7. CASE BuildDataHeader
  <2>1. back = "build" /\ back' = "bytes" /\ off = 0 /\ off' = 0 /\ pc # "bytes"
    BY <1>7 DEF BuildDataHeader, Inv, Place, Control, Owing
  <2>2. ~ Piece BY <2>1 DEF WriteChunk, ChunkFails, Storing
  <2>3. GoesOn(0) BY <1>7, <2>1, HeaderVerdict DEF GoesOn, InWrite
  <2> QED BY <1>1, <2>2, <2>3 DEF Writes
<1>8. CASE RollWithin
  <2>1. records' = records /\ back' = back /\ off' = off /\ files' = files
    BY <1>8 DEF RollWithin
  <2>2. Stores(0) BY <2>1, UnchangedKept DEF Stores, Inv
  <2> QED BY <1>2, <2>1, <2>2, SameVerdict DEF Inv, Writes, GoesOn, InWrite
<1>9. CASE WriteChunk
  <2>1. /\ pc = "bytes" /\ cur # 0 /\ Take \in Nat /\ off + Take <= Total
    BY <1>9, TakeFits DEF WriteChunk, Storing, Inv, Place, CurrentFile
  <2>2. Stores(Take) BY <1>9, <2>1, PieceKept DEF WriteChunk, Inv, Stores
  <2>3. records' = records /\ back' = back /\ off' = off + Take /\ back = "bytes"
    BY <1>9, <2>1 DEF WriteChunk, Inv, Place, Control
  <2> QED BY <2>1, <2>2, <2>3, SameVerdict DEF Inv, Writes, GoesOn, InWrite
<1>10. ASSUME NEW n \in 0 .. DataLen, ChunkFails(n)
       PROVE  n \in Nat /\ Stores(n) /\ Writes(n)
  <2>1. /\ pc = "bytes" /\ cur # 0 /\ Take \in Nat /\ off + Take <= Total /\ n < Take
    BY <1>10, TakeFits DEF ChunkFails, Storing, Inv, Place, CurrentFile
  <2>2. Total \in Nat BY <2>1, TotalNat DEF Inv, Place, Control, Owing
  <2>3. n \in Nat /\ off + n <= Total BY <1>2, <2>1, <2>2, FormatAssumption
  <2>4. Stores(n) BY <1>10, <2>1, <2>3, PieceKept DEF ChunkFails, Inv, Stores
  <2>5. records' = records /\ back' = "error" /\ back = "bytes"
    BY <1>10, <2>1 DEF ChunkFails, Inv, Place, Control
  <2> QED BY <2>3, <2>4, <2>5, SameVerdict DEF Inv, Writes, GoesOn, InWrite
<1>11. CASE RecordComplete
  <2>1. files' = files /\ back' = "none" /\ back = "bytes" /\ records # <<>>
    BY <1>11 DEF RecordComplete, Return, Inv, Place, Control, Owing
  <2>2. Stores(0) BY <2>1, UnchangedKept DEF Stores, Inv
  <2>3. Ends("acked") \/ Ends("failed")
    BY <1>11, <2>1, VerdictGiven DEF RecordComplete, Ends, InWrite, Inv
  <2> QED BY <1>11, <2>2, <2>3 DEF Writes
<1>12. CASE TimestampFails
  <2>1. files' = files /\ back' = "none" /\ back = "build" /\ records # <<>>
    BY <1>12 DEF TimestampFails, Return, Inv, Place, Control, Owing
  <2>2. Stores(0) BY <2>1, UnchangedKept DEF Stores, Inv
  <2>3. Ends("failed")
    BY <1>12, <2>1, VerdictGiven DEF TimestampFails, Ends, InWrite, Inv
  <2> QED BY <2>2, <2>3 DEF Writes
<1> HIDE DEF Piece
<1> QED
  BY <1>1, <1>3, <1>4, <1>5, <1>6, <1>7, <1>8, <1>9, <1>10, <1>11, <1>12 DEF Step

LEMMA EnvironmentWrites ==
  ASSUME Inv, Alone, Environment
  PROVE  \E n \in Nat : Stores(n) /\ Writes(n)
<1>1. ASSUME NEW i \in Present, TakeAway(i) PROVE Stores(0) /\ Writes(0)
  <2>1. i \in 1 .. Len(files) /\ files[i] \in File BY DEF Inv, TypeOK, Present
  <2>2. FilesKept BY <1>1, <2>1, FileTouched, TouchedKept DEF TakeAway, Inv
  <2>3. records' = records /\ back' = back /\ off' = off /\ off \in Nat
    BY <1>1 DEF TakeAway, Inv, TypeOK
  <2> QED BY <2>2, <2>3, SameVerdict DEF Inv, Stores, Writes, GoesOn, InWrite
<1>2. ASSUME NEW n \in 0 .. DataLen, Crash(n)
      PROVE  \E m \in Nat : Stores(m) /\ Writes(m)
  <2>1. \A m : Writes(m)
    BY <1>2, CrashVerdict DEF Inv, Crash, Return, Writes, GoesOn, Ends, InWrite
  <2>2. CASE cur = 0 BY <1>2, <2>1, <2>2, DeathMoves DEF Stores
  <2>3. CASE cur # 0
    <3>1. n \in Nat BY FormatAssumption
    <3>2. PieceAdded(n) BY <1>2, <2>3, <3>1, PieceKept DEF Crash, Inv
    <3>3. n > 0 => pc = "bytes" /\ off + n <= Total
      <4> SUFFICES ASSUME n > 0 PROVE Storing /\ off + n <= Total BY DEF Storing
      <4>1. Storing /\ n <= Take BY <1>2, <3>1 DEF Crash
      <4>2. Take \in Nat /\ off + Take <= Total BY <2>3, <4>1, TakeFits
      <4>3. Total \in Nat BY <4>1, TotalNat DEF Storing, Inv, Place, Control, Owing
      <4>4. off \in Nat BY DEF Inv, TypeOK
      <4> QED BY <3>1, <4>1, <4>2, <4>3, <4>4
    <3> QED BY <2>1, <2>3, <3>1, <3>2, <3>3 DEF Stores
  <2> QED BY <2>2, <2>3
<1> QED BY <1>1, <1>2 DEF Environment

LEMMA NextWrites ==
  ASSUME Inv, Alone, [Next]_wvars
  PROVE  \E n \in Nat : Stores(n) /\ Writes(n)
<1>1. CASE UNCHANGED wvars
  <2>1. Stores(0) BY <1>1, UnchangedKept DEF wvars, Stores, Inv
  <2>2. records' = records /\ back' = back /\ off' = off /\ off \in Nat
    BY <1>1 DEF wvars, Inv, TypeOK
  <2> QED BY <2>1, <2>2, SameVerdict DEF Inv, Writes, GoesOn, InWrite
<1> QED BY <1>1, CallerWrites, StepWrites, EnvironmentWrites DEF Next

-----------------------------------------------------------------------------
(* The places of storage before and after a step.                          *)

LEMMA FileData ==
  ASSUME TypeOK, NEW i \in 1 .. Len(files)
  PROVE  /\ i \in Nat /\ Len(files) \in Nat /\ Len(files[i].data) \in Nat
         /\ \A a \in 1 .. Len(files[i].data) :
              a \in Nat /\ files[i].data[a] \in Byte
<1>1. files \in Seq(File) BY DEF TypeOK
<1>2. files[i] \in File BY <1>1
<1>3. files[i].data \in Seq(Byte) BY <1>2 DEF File
<1> DEFINE d == files[i].data
<1> HIDE DEF d
<1>4. d \in Seq(Byte) BY <1>3 DEF d
<1>5. Len(d) \in Nat /\ \A a \in 1 .. Len(d) : a \in Nat /\ d[a] \in Byte BY <1>4
<1> QED BY <1>1, <1>5 DEF d

\* The current file and the record that grow by a piece.
LEMMA PieceData ==
  ASSUME Inv, NEW n \in Nat, cur # 0, PieceAdded(n)
  PROVE  /\ cur \in 1 .. Len(files) /\ cur = Len(files) /\ off \in Nat
         /\ Len(files') = Len(files) /\ Len(files[cur].data) \in Nat
         /\ Len(files'[cur].data) = Len(files[cur].data) + n
         /\ \A a \in 1 .. Len(files[cur].data) : files'[cur].data[a] = files[cur].data[a]
         /\ \A k \in 1 .. n : files'[cur].data[Len(files[cur].data) + k] = <<Rec, off + k>>
         /\ \A i \in 1 .. Len(files) : i # cur => files'[i] = files[i]
<1>1. /\ off \in Nat /\ Rec \in Nat /\ cur = Len(files) /\ cur \in 1 .. Len(files)
  BY DEF Inv, TypeOK, Place, CurrentFile, Rec
<1>2. Len(files[cur].data) \in Nat BY <1>1, FileData DEF Inv
<1> DEFINE b == BytesOf(Rec, off, off + n)
<1>3. Len(b) = n /\ \A k \in 1 .. n : b[k] = <<Rec, off + k>> BY <1>1, BytesOfPiece
<1>4. Grown(files[cur], files'[cur], b) BY DEF PieceAdded
<1> HIDE DEF b
<1> QED BY <1>1, <1>2, <1>3, <1>4 DEF Grown, PieceAdded

Held(i, a) ==
  /\ i \in 1 .. Len(files) /\ a \in 1 .. Len(files[i].data)
  /\ files'[i].data[a] = files[i].data[a]

Added(i, a, n) ==
  /\ cur # 0 /\ pc = "bytes" /\ i = Len(files) /\ i \in 1 .. Len(files)
  /\ \E k \in 1 .. n : /\ a = Len(files[i].data) + k
                       /\ files'[i].data[a] = <<Rec, off + k>>
                       /\ off + k <= off + n /\ off + n <= Total

\* A place after a step was one before it, or holds a byte of the piece.
LEMMA PlacesAfter ==
  ASSUME Inv, NEW n \in Nat, Stores(n),
         NEW i \in 1 .. Len(files'), NEW a \in 1 .. Len(files'[i].data)
  PROVE  Held(i, a) \/ Added(i, a, n)
<1>1. files \in Seq(File) BY DEF Inv, TypeOK
<1>2. CASE FilesKept BY <1>2 DEF FilesKept, Touched, Held
<1>3. CASE FileMadeBehind
  <2>1. CASE i \in 1 .. Len(files) BY <1>3, <2>1 DEF FileMadeBehind, Held
  <2>2. CASE i \notin 1 .. Len(files)
    <3>1. i = Len(files) + 1 BY <1>1, <1>3, <2>2 DEF FileMadeBehind
    <3>2. files'[i].data = <<>> BY <1>3, <3>1 DEF FileMadeBehind
    <3> QED BY <3>2
  <2> QED BY <2>1, <2>2
<1>4. CASE cur # 0 /\ PieceAdded(n) /\ (n > 0 => pc = "bytes" /\ off + n <= Total)
  <2>1. /\ cur \in 1 .. Len(files) /\ cur = Len(files) /\ off \in Nat
        /\ Len(files') = Len(files) /\ Len(files[cur].data) \in Nat
        /\ Len(files'[cur].data) = Len(files[cur].data) + n
        /\ \A x \in 1 .. Len(files[cur].data) : files'[cur].data[x] = files[cur].data[x]
        /\ \A k \in 1 .. n :
             files'[cur].data[Len(files[cur].data) + k] = <<Rec, off + k>>
        /\ \A j \in 1 .. Len(files) : j # cur => files'[j] = files[j]
    BY <1>4, PieceData
  <2>2. CASE i # cur BY <2>1, <2>2 DEF Held
  <2>3. CASE i = cur /\ a \in 1 .. Len(files[cur].data) BY <2>1, <2>3 DEF Held
  <2>4. CASE i = cur /\ a \notin 1 .. Len(files[cur].data)
    <3> DEFINE l == Len(files[cur].data)
               k == a - l
    <3>1. l \in Nat /\ a \in 1 .. l + n /\ a \notin 1 .. l BY <2>1, <2>4
    <3> HIDE DEF l
    <3>2. k \in 1 .. n /\ a = l + k BY <3>1
    <3>3. n > 0 /\ off + k <= off + n BY <2>1, <3>2
    <3> HIDE DEF k
    <3> QED BY <1>4, <2>1, <2>4, <3>2, <3>3 DEF Added, l
  <2> QED BY <2>2, <2>3, <2>4
<1> QED BY <1>2, <1>3, <1>4 DEF Stores

\* A byte is on storage after a step if it was before, or is one of the piece.
LEMMA BytesStay ==
  ASSUME Inv, NEW n \in Nat, Stores(n), NEW b, OnStorage(b)
  PROVE  OnStorage(b)'
<1>1. PICK i \in 1 .. Len(files) : \E a \in 1 .. Len(files[i].data) : files[i].data[a] = b
  BY DEF OnStorage
<1>2. PICK a \in 1 .. Len(files[i].data) : files[i].data[a] = b BY <1>1
<1>3. files \in Seq(File) /\ a \in Nat /\ Len(files[i].data) \in Nat
  BY FileData DEF Inv, TypeOK
<1>4. CASE FilesKept BY <1>2, <1>4 DEF FilesKept, Touched, OnStorage
<1>5. CASE FileMadeBehind
  <2>1. i \in 1 .. Len(files') /\ files'[i] = files[i] BY <1>3, <1>5 DEF FileMadeBehind
  <2> QED BY <1>2, <2>1 DEF OnStorage
<1>6. CASE cur # 0 /\ PieceAdded(n)
  <2>1. CASE i # cur BY <1>2, <1>6, <2>1 DEF PieceAdded, OnStorage
  <2>2. CASE i = cur
    <3>1. /\ Len(files') = Len(files)
          /\ Len(files'[cur].data) = Len(files[cur].data) + n
          /\ files'[cur].data[a] = files[cur].data[a]
      BY <1>6, <2>2, PieceData
    <3>2. a \in 1 .. Len(files'[cur].data) BY <1>3, <2>2, <3>1
    <3> QED BY <1>2, <2>2, <3>1, <3>2 DEF OnStorage
  <2> QED BY <2>1, <2>2
<1> QED BY <1>4, <1>5, <1>6 DEF Stores

LEMMA PieceStored ==
  ASSUME Inv, NEW n \in Nat, Stores(n), NEW k \in 1 .. n, NEW b, b = <<Rec, off + k>>
  PROVE  OnStorage(b)' /\ pc = "bytes" /\ off + n <= Total
<1>1. n > 0 OBVIOUS
<1>2. cur # 0 /\ PieceAdded(n) /\ pc = "bytes" /\ off + n <= Total BY <1>1 DEF Stores
<1>3. /\ cur \in 1 .. Len(files) /\ Len(files') = Len(files)
      /\ Len(files[cur].data) \in Nat
      /\ Len(files'[cur].data) = Len(files[cur].data) + n
      /\ files'[cur].data[Len(files[cur].data) + k] = b
  BY <1>2, PieceData
<1>4. Len(files[cur].data) + k \in 1 .. Len(files'[cur].data) BY <1>3
<1> QED BY <1>2, <1>3, <1>4 DEF OnStorage

LEMMA StorageAfter ==
  ASSUME Inv, NEW n \in Nat, Stores(n), NEW b
  PROVE  OnStorage(b)' <=> OnStorage(b) \/ \E k \in 1 .. n : b = <<Rec, off + k>>
<1>1. ASSUME OnStorage(b)'
      PROVE  OnStorage(b) \/ \E k \in 1 .. n : b = <<Rec, off + k>>
  <2>1. PICK i \in 1 .. Len(files') :
          \E a \in 1 .. Len(files'[i].data) : files'[i].data[a] = b
    BY <1>1 DEF OnStorage
  <2>2. PICK a \in 1 .. Len(files'[i].data) : files'[i].data[a] = b BY <2>1
  <2>3. Held(i, a) \/ Added(i, a, n) BY PlacesAfter
  <2> QED BY <2>2, <2>3 DEF Held, Added, OnStorage
<1> QED BY <1>1, BytesStay, PieceStored

\* A byte on storage is one of a record that was offered.
LEMMA ByteKnown ==
  ASSUME Inv, NEW b, OnStorage(b)
  PROVE  b \in Byte /\ b[1] \in 1 .. Len(records)
<1>1. PICK i \in 1 .. Len(files) : \E a \in 1 .. Len(files[i].data) : files[i].data[a] = b
  BY DEF OnStorage
<1>2. PICK a \in 1 .. Len(files[i].data) : files[i].data[a] = b BY <1>1
<1> QED BY <1>2, FileData DEF Inv, FileInv, Contents

\* The byte a record being stored has reached is on storage.
LEMMA ReachedStored ==
  ASSUME Inv, pc = "bytes", off > 0
  PROVE  OnStorage(<<Rec, off>>)
<1>1. /\ files \in Seq(File) /\ cur \in 1 .. Len(files) /\ cur = Len(files)
  BY DEF Inv, TypeOK, Place, CurrentFile
<1>2. CASE Newest.data # <<>>
  <2>1. Newest.data[Len(Newest.data)] = <<Rec, off>>
    BY <1>2 DEF Inv, TypeOK, Place, WithinRecord
  <2>2. files[cur] \in File BY <1>1
  <2>3. files[cur].data \in Seq(Byte) /\ files[cur].data # <<>>
    BY <1>1, <1>2, <2>2 DEF Newest, File
  <2>4. Len(files[cur].data) \in 1 .. Len(files[cur].data) BY <2>3
  <2> QED BY <1>1, <2>1, <2>4 DEF Newest, OnStorage
<1>3. CASE Newest.data = <<>>
  <2>1. /\ Newest.remaining # 0 /\ Len(files) > 1
        /\ files[Len(files) - 1].data[DataLen] = <<Rec, off>>
    BY <1>3 DEF Inv, TypeOK, Place, WithinRecord
  <2>2. Len(files[Len(files) - 1].data) = DataLen
    BY <1>1, <2>1 DEF Inv, FileInv, RemainingTold, Newest
  <2>3. Len(files) - 1 \in 1 .. Len(files) /\ DataLen \in 1 .. DataLen
    BY <1>1, <2>1, FormatAssumption
  <2> QED BY <2>1, <2>2, <2>3 DEF OnStorage
<1> QED BY <1>2, <1>3

-----------------------------------------------------------------------------
(* StorageInv is inductive.                                                *)

\* What a step leaves of the records, but for a new one.
LEMMA LensStay ==
  ASSUME Inv, NEW n \in Nat, Writes(n)
  PROVE  /\ Len(records) \in Nat
         /\ Len(records') \in {Len(records), Len(records) + 1}
         /\ \A r \in 1 .. Len(records) : records'[r].len = records[r].len
         /\ Len(records') = Len(records) + 1 =>
              /\ back = "none" /\ back' = "build" /\ files' = files
              /\ Accepts(records'[Len(records) + 1].len)
              /\ records'[Len(records) + 1].status = "writing"
              /\ \A r \in 1 .. Len(records) : records'[r] = records[r]
         /\ Len(records') = Len(records) =>
              GoesOn(n) \/ (RecordComplete /\ Ends("acked")) \/ Ends("failed")
<1>1. records \in Seq(Record) BY DEF Inv, TypeOK
<1>2. ASSUME NEW m \in Lens, BeginWrite(m)
      PROVE  /\ Len(records') = Len(records) + 1
             /\ back = "none" /\ back' = "build" /\ files' = files
             /\ Accepts(records'[Len(records) + 1].len)
             /\ records'[Len(records) + 1].status = "writing"
             /\ \A r \in 1 .. Len(records) : records'[r] = records[r]
  <2> DEFINE r == [len |-> m, count |-> 0, status |-> "writing"]
  <2>1. r \in Record BY WriterAssumption DEF Record
  <2>2. records' = Append(records, r) BY <1>2 DEF BeginWrite
  <2>3. r.len = m /\ r.status = "writing" OBVIOUS
  <2>4. Accepts(m) /\ back = "none" /\ back' = "build" /\ files' = files
    BY <1>2 DEF BeginWrite, StartSession, Inv, Place, Control
  <2> HIDE DEF r
  <2> QED BY <1>1, <2>1, <2>2, <2>3, <2>4, Appended
<1> QED BY <1>1, <1>2 DEF Writes, GoesOn, Ends, Verdict

LEMMA NextLensAccepted ==
  ASSUME Inv, LensAccepted, NEW n \in Nat, Writes(n)
  PROVE  LensAccepted'
<1> SUFFICES ASSUME NEW r \in 1 .. Len(records') PROVE Accepts(records'[r].len)
  BY DEF LensAccepted, Accepts
<1> QED BY LensStay DEF LensAccepted

LEMMA NextAlone ==
  ASSUME Inv, Alone, NEW n \in Nat, Writes(n)
  PROVE  Alone'
<1>1. Len(records) \in Nat BY LensStay
<1>2. CASE Len(records') = Len(records) + 1
  <2>1. \A r \in 1 .. Len(records) : records'[r].status # "writing"
    BY <1>2, LensStay DEF Alone
  <2> QED BY <1>1, <1>2, <2>1, LensStay DEF Alone, Rec
<1>3. CASE GoesOn(n) BY <1>3 DEF GoesOn, Verdict, Alone, InWrite, Rec
<1>4. CASE Ends("acked") \/ Ends("failed") BY <1>4 DEF Ends, Verdict, Alone, Rec
<1> QED BY <1>2, <1>3, <1>4, LensStay

LEMMA NextFrontier ==
  ASSUME Inv, Frontier, NEW n \in Nat, Stores(n), Writes(n)
  PROVE  Frontier'
<1> SUFFICES ASSUME NEW i \in 1 .. Len(files'), NEW a \in 1 .. Len(files'[i].data),
                    NEW b, b = files'[i].data[a]
             PROVE  /\ back' = "build" => b[1] # Rec'
                    /\ back' = "bytes" => ~ Before(<<Rec', off'>>, b)
  BY DEF Frontier, Before
<1>1. OnStorage(b)' BY DEF OnStorage
<1>2. OnStorage(b) \/ \E k \in 1 .. n : b = <<Rec, off + k>> BY <1>1, StorageAfter
<1>3. /\ off \in Nat /\ Rec \in Nat /\ Len(records) = Rec
      /\ OnStorage(b) => b \in Byte /\ b[1] \in 1 .. Rec
  BY ByteKnown, LensStay DEF Inv, TypeOK, Rec
<1>4. OnStorage(b) => /\ back = "build" => b[1] # Rec
                      /\ back = "bytes" => ~ Before(<<Rec, off>>, b)
  BY DEF OnStorage, Frontier
<1>5. CASE Len(records') = Len(records) + 1
  <2>1. back' = "build" /\ Rec' = Rec + 1 /\ files' = files BY <1>5, LensStay DEF Rec
  <2>2. OnStorage(b) BY <1>1, <2>1 DEF OnStorage
  <2> QED BY <1>3, <2>1, <2>2
<1>6. CASE Ends("acked") \/ Ends("failed") BY <1>6 DEF Ends
<1>7. CASE GoesOn(n)
  <2>1. Rec' = Rec BY <1>7 DEF GoesOn, Verdict, Rec
  <2>2. back = "build" => OnStorage(b)
    <3>1. back = "build" => pc # "bytes" BY DEF Inv, Place, Control
    <3> QED BY <1>2, <3>1, PieceStored
  <2>3. CASE back' = "build" BY <1>4, <1>7, <2>1, <2>2, <2>3 DEF GoesOn
  <2>4. CASE back' = "bytes" /\ back = "build"
    <3>1. off' = 0 BY <1>7, <2>4 DEF GoesOn
    <3>2. b \in Byte /\ b[1] < Rec
      <4>1. b \in Byte /\ b[1] \in 1 .. Rec /\ b[1] # Rec BY <1>3, <1>4, <2>2, <2>4
      <4> QED BY <1>3, <4>1
    <3>3. b[1] \in Nat BY <3>2 DEF Byte
    <3> QED BY <1>3, <2>1, <2>4, <3>1, <3>2, <3>3 DEF Before
  <2>5. CASE back' = "bytes" /\ back = "bytes"
    <3>1. off' = off + n BY <1>7, <2>5 DEF GoesOn
    <3>2. CASE OnStorage(b)
      <4>1. b \in Byte /\ ~ Before(<<Rec, off>>, b) BY <1>3, <1>4, <2>5, <3>2
      <4>2. b[1] \in Nat /\ b[2] \in Nat BY <4>1 DEF Byte
      <4>3. ~ (Rec < b[1]) /\ ~ (Rec = b[1] /\ off < b[2]) BY <4>1 DEF Before
      <4>4. ~ (Rec < b[1]) /\ ~ (Rec = b[1] /\ off + n < b[2]) BY <1>3, <4>2, <4>3
      <4> QED BY <2>1, <2>5, <3>1, <4>4 DEF Before
    <3>3. ASSUME NEW k \in 1 .. n, b = <<Rec, off + k>>
          PROVE  ~ Before(<<Rec, off + n>>, b)
      <4>1. b[1] = Rec /\ b[2] = off + k BY <3>3
      <4>2. ~ (off + n < off + k) BY <1>3
      <4> QED BY <1>3, <4>1, <4>2 DEF Before
    <3> QED BY <1>2, <2>1, <2>5, <3>1, <3>2, <3>3
  <2> QED BY <1>7, <2>3, <2>4, <2>5 DEF GoesOn
<1> QED BY <1>5, <1>6, <1>7, LensStay

\* What is not behind the byte that a record has reached is before its next ones.
LEMMA NotBehind ==
  \A p, q, r, o \in Nat, k \in Nat \ {0} :
    ~ (r < p) /\ ~ (r = p /\ o < q) => p < r \/ (p = r /\ q < o + k)
OBVIOUS

LEMMA SameShift ==
  ASSUME NEW m \in Nat, NEW o \in Nat, NEW k \in Nat, NEW l \in Nat, m + k < m + l
  PROVE  o + k < o + l
OBVIOUS

LEMMA NextOrdered ==
  ASSUME Inv, Frontier, BytesOrdered, NEW n \in Nat, Stores(n)
  PROVE  BytesOrdered'
<1> SUFFICES ASSUME NEW i \in 1 .. Len(files'), NEW j \in 1 .. Len(files'),
                    NEW a \in 1 .. Len(files'[i].data), NEW b \in 1 .. Len(files'[j].data),
                    Before(<<i, a>>, <<j, b>>)
             PROVE  Before(files'[i].data[a], files'[j].data[b])
  BY Zenon DEF BytesOrdered, Before
<1> SUFFICES ASSUME NEW x, x = files'[i].data[a], NEW y, y = files'[j].data[b]
             PROVE  Before(x, y)
  OBVIOUS
<1>0. i < j \/ (i = j /\ a < b) BY DEF Before
<1>1. Held(i, a) \/ Added(i, a, n) BY PlacesAfter
<1>2. Held(j, b) \/ Added(j, b, n) BY PlacesAfter
<1>3. off \in Nat /\ Rec \in Nat BY DEF Inv, TypeOK, Rec
<1>4. CASE Held(i, a) /\ Held(j, b)
  BY <1>4 DEF Held, BytesOrdered
<1>5. ASSUME Held(i, a), Added(j, b, n) PROVE Before(x, y)
  <2>1. PICK k \in 1 .. n : y = <<Rec, off + k>> BY <1>5 DEF Added
  <2>2. back = "bytes" BY <1>5 DEF Added, Inv, Place, Control
  <2>3. OnStorage(x) BY <1>5 DEF Held, OnStorage
  <2>4. ~ Before(<<Rec, off>>, x) BY <1>5, <2>2 DEF Held, Frontier
  <2>5. x[1] \in Nat /\ x[2] \in Nat BY <2>3, ByteKnown DEF Byte
  <2>6. ~ (Rec < x[1]) /\ ~ (Rec = x[1] /\ off < x[2]) BY <2>4 DEF Before
  <2>7. k \in Nat \ {0} OBVIOUS
  <2>8. x[1] < Rec \/ (x[1] = Rec /\ x[2] < off + k)
    <3>1. PICK p : p = x[1] OBVIOUS
    <3>2. PICK q : q = x[2] OBVIOUS
    <3>3. p \in Nat /\ q \in Nat /\ ~ (Rec < p) /\ ~ (Rec = p /\ off < q)
      BY <2>5, <2>6, <3>1, <3>2
    <3>4. p < Rec \/ (p = Rec /\ q < off + k) BY <1>3, <2>7, <3>3, NotBehind
    <3> QED BY <3>1, <3>2, <3>4
  <2> QED BY <2>1, <2>8 DEF Before
<1>6. ASSUME Added(i, a, n), Added(j, b, n) PROVE Before(x, y)
  <2>1. i = Len(files) /\ j = Len(files) /\ i \in 1 .. Len(files) BY <1>6 DEF Added
  <2>2. a < b /\ Len(files[i].data) \in Nat BY <1>0, <2>1, FileData DEF Inv
  <2>3. PICK k \in 1 .. n :
          a = Len(files[i].data) + k /\ x[1] = Rec /\ x[2] = off + k
    BY <1>6 DEF Added
  <2>4. PICK l \in 1 .. n :
          b = Len(files[i].data) + l /\ y[1] = Rec /\ y[2] = off + l
    BY <1>6, <2>1 DEF Added
  <2>5. k \in Nat /\ l \in Nat OBVIOUS
  <2>6. Len(files[i].data) + k < Len(files[i].data) + l BY <2>2, <2>3, <2>4
  <2>7. off + k < off + l BY <1>3, <2>2, <2>5, <2>6, SameShift
  <2> QED BY <2>3, <2>4, <2>7 DEF Before
<1>7. ASSUME Added(i, a, n), Held(j, b) PROVE FALSE
  <2>1. i = Len(files) /\ i \in 1 .. Len(files) /\ j \in 1 .. Len(files)
    BY <1>7 DEF Added, Held
  <2>2. i = j /\ a < b BY <1>0, <2>1, FileData DEF Inv
  <2>3. Len(files[i].data) \in Nat BY <2>1, FileData DEF Inv
  <2>4. PICK k \in 1 .. n : a = Len(files[i].data) + k BY <1>7 DEF Added
  <2>5. b \in 1 .. Len(files[i].data) BY <1>7, <2>2 DEF Held
  <2> QED BY <2>2, <2>3, <2>4, <2>5
<1> QED BY <1>1, <1>2, <1>4, <1>5, <1>6, <1>7

LEMMA NextBytesFollow ==
  ASSUME Inv, BytesFollow, NEW n \in Nat, Stores(n), Writes(n)
  PROVE  BytesFollow'
<1> SUFFICES ASSUME NEW i \in 1 .. Len(files'), NEW a \in 1 .. Len(files'[i].data),
                    NEW b, b = files'[i].data[a],
                    NEW p, p = <<b[1], b[2] - 1>>
             PROVE  /\ b[2] \in 1 .. TotalLen(records'[b[1]].len)
                    /\ b[2] > 1 => OnStorage(p)'
  BY DEF BytesFollow, TotalLen
<1>1. CASE Held(i, a)
  <2>1. b[1] \in 1 .. Len(records) BY <1>1 DEF Held, Inv, FileInv, Contents
  <2>2. /\ b[2] \in 1 .. TotalLen(records[b[1]].len)
        /\ b[2] > 1 => OnStorage(p)
    BY <1>1 DEF Held, BytesFollow
  <2>3. records'[b[1]].len = records[b[1]].len BY <2>1, LensStay
  <2> QED BY <2>2, <2>3, BytesStay
<1>2. CASE Added(i, a, n)
  <2>1. PICK k \in 1 .. n : b = <<Rec, off + k>> /\ off + k <= off + n /\ off + n <= Total
    BY <1>2 DEF Added
  <2>2. pc = "bytes" /\ records # <<>> /\ off \in Nat
    BY <1>2 DEF Added, Inv, TypeOK, Place, Control, Owing
  <2>3. Rec \in 1 .. Len(records) /\ Total \in Nat BY <2>2, TotalNat DEF Inv
  <2>4. records'[Rec].len = records[Rec].len BY <2>3, LensStay
  <2>5. off + k \in 1 .. Total BY <2>1, <2>2, <2>3
  <2>6. CASE k = 1 /\ off = 0 BY <2>1, <2>4, <2>5, <2>6 DEF Total
  <2>7. CASE k = 1 /\ off > 0
    <3>1. p = <<Rec, off>> BY <2>1, <2>2, <2>7
    <3>2. OnStorage(<<Rec, off>>) BY <2>2, <2>7, ReachedStored
    <3>3. OnStorage(p) BY <3>1, <3>2
    <3> QED BY <2>1, <2>4, <2>5, <3>3, BytesStay DEF Total
  <2>8. CASE k > 1
    <3>1. k - 1 \in 1 .. n /\ p = <<Rec, off + (k - 1)>> BY <2>1, <2>2, <2>8
    <3>2. OnStorage(p)' BY <3>1, PieceStored
    <3> QED BY <2>1, <2>4, <2>5, <3>2 DEF Total
  <2> QED BY <2>2, <2>6, <2>7, <2>8
<1> QED BY <1>1, <1>2, PlacesAfter

\* A record has bytes, so that one completed has stored its last.
LEMMA RecordHasBytes ==
  ASSUME Inv, LensAccepted, NEW r \in 1 .. Len(records)
  PROVE  TotalLen(records[r].len) \in Nat \ {0} /\ TotalLen(records[r].len) >= HeaderLen
<1>1. records[r].len \in Nat
  <2>1. records \in Seq(Record) BY DEF Inv, TypeOK
  <2>2. records[r] \in Record BY <2>1
  <2> QED BY <2>2 DEF Record
<1>2. CASE Format # "fixed" BY <1>1, <1>2, FormatAssumption DEF TotalLen
<1>3. CASE Format = "fixed"
  <2>1. records[r].len = FixedLen BY <1>3 DEF LensAccepted, Accepts
  <2> QED BY <2>1, FormatAssumption DEF TotalLen
<1> QED BY <1>2, <1>3

LEMMA CompletedWhole ==
  ASSUME Inv, LensAccepted, RecordComplete
  PROVE  Whole(Rec)
<1>1. pc = "bytes" /\ off = Total /\ records # <<>>
  BY DEF RecordComplete, Inv, Place, Control, Owing
<1>2. Rec \in 1 .. Len(records) BY <1>1, TotalNat DEF Inv
<1>3. Total \in Nat \ {0} BY <1>2, RecordHasBytes DEF Total
<1> QED BY <1>1, <1>3, ReachedStored DEF Whole, Total

LEMMA WholeStays ==
  ASSUME Inv, NEW n \in Nat, Stores(n), Writes(n), NEW r \in 1 .. Len(records), Whole(r)
  PROVE  Whole(r)'
<1> SUFFICES ASSUME NEW b, b = <<r, TotalLen(records[r].len)>>
             PROVE  b = <<r, TotalLen(records'[r].len)>> /\ OnStorage(b)'
  BY DEF Whole, TotalLen
<1>1. OnStorage(b) BY DEF Whole
<1>2. records'[r].len = records[r].len BY LensStay
<1> QED BY <1>1, <1>2, BytesStay

LEMMA NextAckedWhole ==
  ASSUME Inv, LensAccepted, AckedWhole, NEW n \in Nat, Stores(n), Writes(n)
  PROVE  AckedWhole'
<1> SUFFICES ASSUME NEW r \in 1 .. Len(records'), records'[r].status = "acked"
             PROVE  Whole(r)'
  BY DEF AckedWhole
<1>1. Len(records) \in Nat BY LensStay
<1>2. CASE Len(records') = Len(records) + 1
  <2>1. r \in 1 .. Len(records) /\ records[r].status = "acked" BY <1>1, <1>2, LensStay
  <2> QED BY <2>1, WholeStays DEF AckedWhole
<1>3. CASE GoesOn(n) \/ Ends("failed")
  <2>1. r \in 1 .. Len(records) /\ records[r].status = "acked"
    BY <1>3 DEF GoesOn, Ends, Verdict
  <2> QED BY <2>1, WholeStays DEF AckedWhole
<1>4. CASE RecordComplete /\ Ends("acked")
  <2>1. r \in 1 .. Len(records) /\ (r # Rec => records[r].status = "acked")
    BY <1>4 DEF Ends, Verdict
  <2>2. Whole(r) BY <1>4, <2>1, CompletedWhole DEF AckedWhole
  <2> QED BY <2>1, <2>2, WholeStays
<1> QED BY <1>2, <1>3, <1>4, LensStay

LEMMA StorageStep == Inv /\ StorageInv /\ [Next]_wvars => StorageInv'
<1> SUFFICES ASSUME Inv, StorageInv, [Next]_wvars PROVE StorageInv' OBVIOUS
<1>1. PICK n \in Nat : Stores(n) /\ Writes(n) BY NextWrites DEF StorageInv
<1>2. LensAccepted' /\ Alone' BY <1>1, NextLensAccepted, NextAlone DEF StorageInv
<1>3. Frontier' BY <1>1, NextFrontier DEF StorageInv
<1>4. BytesOrdered' BY <1>1, NextOrdered DEF StorageInv, RecordsStored
<1>5. BytesFollow' BY <1>1, NextBytesFollow DEF StorageInv, RecordsStored
<1>6. AckedWhole' BY <1>1, NextAckedWhole DEF StorageInv, RecordsStored
<1> QED BY <1>2, <1>3, <1>4, <1>5, <1>6 DEF StorageInv, RecordsStored

-----------------------------------------------------------------------------
(* FlowInv is inductive: how the bytes of a record go on within a file and *)
(* from file to file.                                                      *)

\* What is at the end of the newest file, after a step that stores nothing there.
LEMMA NewestKept ==
  ASSUME Inv, FilesKept
  PROVE  /\ files' = <<>> <=> files = <<>>
         /\ files # <<>> => Newest'.data = Newest.data /\ Newest'.seq = Newest.seq
<1>1. files \in Seq(File) /\ files' \in Seq(File) /\ Len(files') = Len(files)
  BY DEF Inv, TypeOK, FilesKept
<1> QED BY <1>1, KeptLast DEF Inv, SameHeader

LEMMA CloseKeeps ==
  ASSUME Inv, CloseAndSend \/ CloseFails
  PROVE  FilesKept /\ cur # 0 /\ files # <<>>
<1>1. cur # 0 BY DEF CloseAndSend, CloseFails, Inv, Place, CurrentFile
<1>2. cur \in 1 .. Len(files) /\ files[cur] \in File /\ files # <<>>
  BY <1>1 DEF Inv, TypeOK
<1>3. \E g : Touched(files[cur], g) /\ files' = [files EXCEPT ![cur] = g]
  BY <1>2, FileTouched, WriterAssumption DEF CloseAndSend, CloseFails
<1> QED BY <1>1, <1>2, <1>3, TouchedKept DEF Inv

LEMMA TakeAwayKept ==
  ASSUME Inv, NEW i \in Present, TakeAway(i)
  PROVE  FilesKept
<1>1. i \in 1 .. Len(files) /\ files[i] \in File BY DEF Inv, TypeOK, Present
<1> QED BY <1>1, FileTouched, TouchedKept DEF TakeAway, Inv

LEMMA NextAbandoned ==
  ASSUME Inv, Abandoned, [Next]_wvars
  PROVE  Abandoned'
<1> SUFFICES ASSUME back' = "error" PROVE files' # <<>> /\ Len(Newest'.data) < DataLen
  BY DEF Abandoned
<1>1. CASE FilesKept /\ back = "error" BY <1>1, NewestKept DEF Abandoned
<1>2. ASSUME NEW n \in 0 .. DataLen, ChunkFails(n)
      PROVE  files' # <<>> /\ Len(Newest'.data) < DataLen
  <2>1. Storing /\ cur # 0 /\ n < Take /\ n \in Nat /\ pc = "bytes"
    BY <1>2, FormatAssumption DEF ChunkFails, Storing, Inv, Place, CurrentFile
  <2>2. Room \in Nat /\ Take \in Nat /\ Take <= Room BY <2>1, TakeFits
  <2>3. PieceAdded(n) BY <1>2, <2>1, PieceKept DEF ChunkFails, Inv
  <2>4. /\ cur = Len(files) /\ Len(files') = Len(files)
        /\ Len(Newest.data) \in Nat /\ Len(Newest'.data) = Len(Newest.data) + n
    BY <2>1, <2>3, PieceLast
  <2>5. Room = DataLen - Len(Newest.data) BY <2>1, <2>4 DEF Room, Newest
  <2>6. files' # <<>>
    <3>1. files' \in Seq(File) /\ Len(files') # 0 BY <2>1, <2>3, <2>4 DEF PieceAdded
    <3> QED BY <3>1
  <2> QED BY <2>1, <2>2, <2>4, <2>5, <2>6, FormatAssumption
<1>3. CASE CloseAndSend \/ CloseFails
  <2>1. FilesKept BY <1>3, CloseKeeps
  <2>2. back = "error"
    BY <1>3 DEF CloseAndSend, CloseFails, AfterClose, StartSession, Extend, ReturnError,
                Return, Inv, Place, Control
  <2> QED BY <1>1, <2>1, <2>2
<1>4. ASSUME NEW i \in Present, TakeAway(i)
      PROVE  FilesKept /\ back = "error"
  BY <1>4, TakeAwayKept DEF TakeAway
<1>5. CASE UNCHANGED wvars
  BY <1>1, <1>5, UnchangedKept DEF wvars, Inv
<1>6. ASSUME NEW id \in FreeIds, CreateSegment(id) \/ HeaderFails(id) \/ CreateFails(id)
      PROVE  FALSE
  BY <1>6 DEF CreateSegment, HeaderFails, CreateFails, Created, ReturnError, Return
<1>7. ~ Caller
  BY DEF Caller, New, BeginWrite, StartSession, BeginClear, Drop, Return, Inv, Place,
         Control
<1>8. ASSUME NEW i \in scan, Resend(i) \/ ClearStep(i) PROVE FALSE
  BY <1>8 DEF Resend, ClearStep, Inv, Place, Control
<1>9. ~ (FirstSession \/ ClearDone \/ BuildDataHeader \/ RollWithin \/ WriteChunk
         \/ RecordComplete \/ TimestampFails)
  BY DEF FirstSession, StartSession, ClearDone, BuildDataHeader, RollWithin, WriteChunk,
         Storing, RecordComplete, TimestampFails, Return, Inv, Place, Control
<1>10. \A n : ~ Crash(n) BY DEF Crash, Return
<1> QED
  BY <1>1, <1>2, <1>3, <1>4, <1>5, <1>6, <1>7, <1>8, <1>9, <1>10
  DEF Next, Step, Environment

\* Where the newest file is to end with a whole record.
NoneOwed ==
  \/ cur # 0 /\ (back \in {"none", "build"} \/ (back = "bytes" /\ off = 0))
  \/ pc = "extend" /\ back = "build"

LEMMA SettledKept ==
  ASSUME Inv, Settled, NoneOwed, FilesKept, NEW n \in Nat, Writes(n), files # <<>>,
         NEW b, b = Newest'.data[Len(Newest'.data)], Newest'.data # <<>>
  PROVE  Completes(b)'
<1>1. Newest'.data = Newest.data BY NewestKept
<1>2. Completes(b) BY <1>1 DEF Settled, NoneOwed
<1>3. b[1] \in 1 .. Len(records)
  <2>1. files \in Seq(File) /\ Len(files) \in 1 .. Len(files) BY DEF Inv, TypeOK
  <2>2. files[Len(files)] \in File BY <2>1
  <2>3. Newest.data \in Seq(Byte) BY <2>2 DEF Newest, File
  <2>4. Len(Newest.data) \in 1 .. Len(Newest.data) BY <1>1, <2>3
  <2> QED BY <1>1, <2>1, <2>4 DEF Inv, FileInv, Contents, Newest
<1>4. records'[b[1]].len = records[b[1]].len BY <1>3, LensStay
<1> QED BY <1>2, <1>4 DEF Completes, TotalLen

LEMMA BetweenBefore ==
  ASSUME Inv, [Next]_wvars, NoneOwed'
  PROVE  (FilesKept /\ NoneOwed) \/ FileMadeBehind \/ RecordComplete
<1>1. ASSUME NEW n \in Lens, BeginWrite(n) PROVE FilesKept /\ NoneOwed
  <2>1. FilesKept BY <1>1, UnchangedKept DEF BeginWrite, Inv
  <2>2. back = "none" /\ cur' = cur BY <1>1 DEF BeginWrite, Inv, Place, Control
  <2> QED BY <1>1, <2>1, <2>2 DEF BeginWrite, StartSession, NoneOwed
<1>2. CASE BuildDataHeader \/ RollWithin
  <2>1. FilesKept BY <1>2, UnchangedKept DEF BuildDataHeader, RollWithin, Inv
  <2>2. cur # 0 /\ cur' = cur /\ off' = off
    BY <1>2 DEF BuildDataHeader, RollWithin, Storing, Inv, Place, CurrentFile
  <2>3. back = "build" \/ back' = back
    BY <1>2 DEF BuildDataHeader, RollWithin, Inv, Place, Control
  <2> QED BY <1>2, <2>1, <2>2, <2>3 DEF RollWithin, NoneOwed
<1>3. CASE CloseAndSend \/ CloseFails
  <2>1. FilesKept /\ cur # 0 BY <1>3, CloseKeeps
  <2>2. cur' = 0 BY <1>3 DEF CloseAndSend, CloseFails
  <2>3. pc' = "extend" /\ back' = "build" BY <2>2 DEF NoneOwed
  <2>4. back = "build"
    BY <1>3, <2>3 DEF CloseAndSend, CloseFails, AfterClose, StartSession, Extend,
                      ReturnError, Return
  <2> QED BY <2>1, <2>4 DEF NoneOwed
<1>4. ASSUME NEW i \in Present, TakeAway(i) PROVE FilesKept /\ NoneOwed
  <2>1. cur' = cur /\ pc' = pc /\ back' = back /\ off' = off BY <1>4 DEF TakeAway
  <2> QED BY <1>4, <2>1, TakeAwayKept DEF NoneOwed
<1>5. CASE UNCHANGED wvars
  BY <1>5, UnchangedKept DEF wvars, Inv, NoneOwed
<1>6. ASSUME NEW id \in FreeIds, CreateSegment(id) \/ HeaderFails(id)
      PROVE  FileMadeBehind
  BY <1>6, MadeBehind DEF CreateSegment, HeaderFails
<1>7. ASSUME NEW id \in FreeIds, CreateFails(id) PROVE FALSE
  <2>1. cur' = 0 BY <1>7 DEF CreateFails, Creating, Inv, Place, CurrentFile
  <2> QED BY <1>7, <2>1 DEF CreateFails, ReturnError, Return, NoneOwed
<1>8. ~ ((\E anchor \in 1 .. MaxAnchor : New(anchor)) \/ BeginClear \/ Drop)
  BY DEF New, BeginClear, Drop, Return, NoneOwed, Inv, Place, CurrentFile
<1>9. ASSUME NEW i \in scan, Resend(i) \/ ClearStep(i) PROVE FALSE
  BY <1>9 DEF Resend, ClearStep, Inv, Place, CurrentFile, NoneOwed
<1>10. ~ (FirstSession \/ ClearDone)
  BY DEF FirstSession, StartSession, ClearDone, Inv, Place, CurrentFile, NoneOwed
<1>11. ~ WriteChunk
  <2> SUFFICES ASSUME WriteChunk PROVE FALSE OBVIOUS
  <2>1. Storing /\ cur # 0 /\ off \in Nat /\ back = "bytes"
    BY DEF WriteChunk, Storing, Inv, TypeOK, Place, CurrentFile, Control
  <2>2. Take \in Nat /\ Take > 0 BY <2>1, TakeFits DEF WriteChunk
  <2>3. off' # 0 BY <2>1, <2>2 DEF WriteChunk
  <2>4. cur' = cur /\ back' = "bytes" /\ pc' = "bytes"
    BY <2>1 DEF WriteChunk, Storing
  <2> QED BY <2>3, <2>4 DEF NoneOwed
<1>12. ASSUME NEW n \in 0 .. DataLen, ChunkFails(n) \/ Crash(n) PROVE FALSE
  BY <1>12 DEF ChunkFails, Crash, Return, NoneOwed
<1>13. CASE TimestampFails
  <2>1. FilesKept BY <1>13, UnchangedKept DEF TimestampFails, Inv
  <2>2. cur # 0 /\ back = "build"
    BY <1>13 DEF TimestampFails, Inv, Place, CurrentFile, Control
  <2> QED BY <2>1, <2>2 DEF NoneOwed
<1> QED
  BY <1>1, <1>2, <1>3, <1>4, <1>5, <1>6, <1>7, <1>8, <1>9, <1>10, <1>11, <1>12, <1>13
  DEF Next, Caller, Step, Environment

\* The last byte of a record that is complete ends the file.
LEMMA SettledComplete ==
  ASSUME Inv, LensAccepted, RecordComplete, NEW n \in Nat, Writes(n),
         NEW b, b = Newest'.data[Len(Newest'.data)], Newest'.data # <<>>
  PROVE  Completes(b)'
<1>1. /\ pc = "bytes" /\ off = Total /\ records # <<>> /\ files' = files
  BY DEF RecordComplete, Inv, Place, Control, Owing
<1>2. Rec \in 1 .. Len(records) BY <1>1, TotalNat DEF Inv
<1>3. Total \in Nat \ {0} BY <1>2, RecordHasBytes DEF Total
<1>4. Newest' = Newest BY <1>1 DEF Newest
<1>5. b = <<Rec, Total>> BY <1>1, <1>3, <1>4 DEF Inv, Place, WithinRecord
<1>6. records'[Rec].len = records[Rec].len BY <1>2, LensStay
<1> QED BY <1>5, <1>6 DEF Completes, Total, TotalLen

LEMMA NextSettled ==
  ASSUME Inv, LensAccepted, Settled, [Next]_wvars, NEW n \in Nat, Writes(n)
  PROVE  Settled'
<1> SUFFICES ASSUME NoneOwed', Newest'.data # <<>>,
                    NEW b, b = Newest'.data[Len(Newest'.data)]
             PROVE  Completes(b)'
  BY DEF Settled, NoneOwed, Completes
<1>1. CASE FilesKept /\ NoneOwed
  <2>1. files # <<>>
    BY <1>1 DEF NoneOwed, Inv, TypeOK, Place, CurrentFile, Position
  <2> QED BY <1>1, <2>1, SettledKept
<1>2. CASE FileMadeBehind BY <1>2 DEF FileMadeBehind, Newest
<1>3. CASE RecordComplete BY <1>3, SettledComplete
<1> QED BY <1>1, <1>2, <1>3, BetweenBefore

\* What there was of the files, and what a step has made of it.
LEMMA OldFiles ==
  ASSUME Inv, [Next]_wvars
  PROVE  /\ Len(files) \in Nat
         /\ \/ Len(files') = Len(files)
            \/ Len(files') = Len(files) + 1 /\ FileMadeBehind
         /\ \A i \in 1 .. Len(files) :
              /\ SameHeader(files[i], files'[i])
              /\ i < Len(files) => files'[i].data = files[i].data
<1>1. files \in Seq(File) /\ cur \in {0, Len(files)}
  BY DEF Inv, TypeOK, Place, CurrentFile
<1>2. CASE FilesKept BY <1>1, <1>2 DEF FilesKept, Touched
<1>3. CASE FileMadeBehind BY <1>1, <1>3 DEF FileMadeBehind, SameHeader
<1>4. CASE CurrentGrows
  BY <1>1, <1>4 DEF CurrentGrows, PieceAdded, Grown, SameHeader
<1> QED BY <1>2, <1>3, <1>4, NextMoves DEF FilesMoved

\* The file made behind a full one owes what that lacks.
LEMMA TailHandedOn ==
  ASSUME Inv, Settled, Abandoned, FileMadeBehind, files # <<>>, sequence # 0,
         Len(Newest.data) = DataLen, NEW b, b = Newest.data[DataLen]
  PROVE  left = TotalLen(records[b[1]].len) - b[2]
<1>1. pc = "extend" BY DEF FileMadeBehind, Creating, Inv, Place, Position
<1>2. back \in {"build", "bytes", "error"} BY <1>1 DEF Inv, TypeOK, Place, Control
<1>3. CASE back = "bytes"
  <2>1. b = <<Rec, off>> /\ left = Total - off
    BY <1>1, <1>3 DEF Inv, Place, Rolling, Owing
  <2> QED BY <2>1 DEF Total
<1>4. CASE back = "build"
  <2>1. left = 0 BY <1>1, <1>4 DEF Inv, Place, Owing
  <2>2. DataLen \in Nat \ {0} BY FormatAssumption
  <2>3. Newest.data # <<>> BY <2>2
  <2>4. Completes(b) BY <1>1, <1>4, <2>3 DEF Settled
  <2>5. files \in Seq(File) /\ Len(files) \in 1 .. Len(files) BY DEF Inv, TypeOK
  <2>6. Newest.data \in Seq(Byte)
    <3>1. files[Len(files)] \in File BY <2>5
    <3> QED BY <3>1 DEF Newest, File
  <2>7. b \in Byte BY <2>2, <2>6
  <2>8. b[2] \in Nat BY <2>7 DEF Byte
  <2>9. b[2] - b[2] = 0 BY <2>8
  <2> QED BY <2>1, <2>4, <2>9 DEF Completes
<1>5. CASE back = "error"
  <2>1. Len(Newest.data) < DataLen BY <1>5 DEF Abandoned
  <2> QED BY <2>1, FormatAssumption
<1> QED BY <1>2, <1>3, <1>4, <1>5

LEMMA NextTailOwed ==
  ASSUME Inv, Settled, Abandoned, TailOwed, [Next]_wvars, NEW n \in Nat, Writes(n)
  PROVE  TailOwed'
<1> SUFFICES ASSUME NEW i \in 1 .. Len(files') - 1, files'[i + 1].seq # 0,
                    Len(files'[i].data) = DataLen,
                    NEW b, b = files'[i].data[DataLen]
             PROVE  files'[i + 1].remaining = TotalLen(records'[b[1]].len) - b[2]
  BY DEF TailOwed, TotalLen
<1>1. Len(files) \in Nat /\ i \in Nat \ {0} BY OldFiles
<1>2. i \in 1 .. Len(files) /\ files'[i].data = files[i].data
  <2>1. CASE Len(files') = Len(files)
    <3>1. i \in 1 .. Len(files) /\ i < Len(files) BY <1>1, <2>1
    <3> QED BY <3>1, OldFiles
  <2>2. CASE FileMadeBehind
    <3>1. i \in 1 .. Len(files) BY <1>1, <2>2 DEF FileMadeBehind
    <3> QED BY <2>2, <3>1 DEF FileMadeBehind
  <2> QED BY <2>1, <2>2, OldFiles
<1>3. records'[b[1]].len = records[b[1]].len
  <2>1. DataLen \in 1 .. Len(files[i].data) BY <1>2, FormatAssumption
  <2>2. b[1] \in 1 .. Len(records) BY <1>2, <2>1 DEF Inv, FileInv, Contents
  <2> QED BY <2>2, LensStay
<1>4. CASE i < Len(files)
  <2>1. i \in 1 .. Len(files) - 1 /\ i + 1 \in 1 .. Len(files) BY <1>1, <1>4
  <2>2. files'[i + 1].seq = files[i + 1].seq /\ files'[i + 1].remaining = files[i + 1].remaining
    BY <2>1, OldFiles DEF SameHeader
  <2> QED BY <1>2, <1>3, <2>1, <2>2 DEF TailOwed, TotalLen
<1>5. CASE ~ (i < Len(files))
  <2>1. i = Len(files) /\ Len(files') # Len(files) BY <1>1, <1>2, <1>5
  <2>2. FileMadeBehind BY <2>1, OldFiles
  <2>3. files'[i + 1].seq = sequence /\ files'[i + 1].remaining = left
    BY <2>1, <2>2 DEF FileMadeBehind
  <2>4. files # <<>> /\ Newest.data = files[i].data BY <1>2, <2>1 DEF Newest
  <2>5. left = TotalLen(records[b[1]].len) - b[2]
    BY <1>2, <2>2, <2>3, <2>4, TailHandedOn
  <2> QED BY <1>3, <2>3, <2>5 DEF TotalLen
<1> QED BY <1>4, <1>5

LEMMA NextSequencesRise ==
  ASSUME Inv, SequencesRise, [Next]_wvars
  PROVE  SequencesRise'
<1> SUFFICES ASSUME NEW i \in 1 .. Len(files'), NEW j \in 1 .. Len(files'), i < j,
                    OneSession(i, j)'
             PROVE  files'[i].seq < files'[j].seq \/ files'[j].seq >= SeqMax
  BY DEF SequencesRise
<1>1. /\ Len(files) \in Nat /\ Len(files') \in {Len(files), Len(files) + 1}
      /\ \A k \in 1 .. Len(files) : files'[k].seq = files[k].seq
  BY SessionsAfter
<1>2. i \in 1 .. Len(files) BY <1>1
<1>3. CASE j \in 1 .. Len(files)
  <2>1. OneSession(i, j) BY <1>2, <1>3, OneSessionBefore
  <2> QED BY <1>1, <1>2, <1>3, <2>1 DEF SequencesRise
<1>4. CASE j \notin 1 .. Len(files)
  <2>1. j = Len(files) + 1 /\ Len(files') # Len(files) BY <1>1, <1>4
  <2>2. OneSession(i, Len(files)) /\ files'[j].seq # 0 BY <1>2, <1>4, <2>1, OneSessionBefore
  <2>3. FileMadeBehind BY <2>1, OldFiles
  <2>4. pc = "extend" /\ files'[j].seq = SeqNext(Newest.seq)
    BY <2>1, <2>2, <2>3 DEF FileMadeBehind, Creating, Inv, Place, Position
  <2>5. Len(files) \in 1 .. Len(files) BY <1>1, <1>2
  <2>6. \A k \in 1 .. Len(files) : files[k].seq \in Nat
    <3>1. files \in Seq(File) BY DEF Inv, TypeOK
    <3>2. \A k \in 1 .. Len(files) : files[k] \in File BY <3>1
    <3> QED BY <3>2 DEF File
  <2> DEFINE s == files[i].seq
             t == Newest.seq
  <2>7. s \in Nat /\ t \in Nat /\ SeqMax \in Nat
    BY <1>2, <2>5, <2>6, FormatAssumption DEF Newest
  <2>8. i < Len(files) => s < t \/ t >= SeqMax
    BY <1>2, <2>2, <2>5 DEF SequencesRise, Newest
  <2>9. s < t \/ t >= SeqMax \/ s = t
    <3>1. i < Len(files) \/ i = Len(files) BY <1>1, <1>2
    <3> QED BY <2>8, <3>1 DEF Newest
  <2> HIDE DEF s, t
  <2>10. s < SeqNext(t) \/ SeqNext(t) >= SeqMax BY <2>7, <2>9 DEF SeqNext
  <2>11. files'[i].seq = s BY <1>1, <1>2 DEF s
  <2> QED BY <2>4, <2>10, <2>11 DEF t
<1> QED BY <1>3, <1>4

\* Of two bytes of a file the first has gone on to the second, or its record is over.
LEMMA RunsTo ==
  ASSUME Inv, Runs, NEW i \in 1 .. Len(files),
         NEW a \in 1 .. Len(files[i].data), NEW c \in 1 .. Len(files[i].data), a <= c,
         NEW b, b = files[i].data[a], b[2] + (c - a) <= TotalLen(records[b[1]].len)
  PROVE  files[i].data[c] = <<b[1], b[2] + (c - a)>>
<1>1. a \in Nat /\ c \in Nat /\ b \in Byte BY FileData DEF Inv
<1>2. CASE a < c BY <1>2 DEF Runs
<1>3. CASE a = c
  <2>1. b = <<b[1], b[2]>> /\ b[2] \in Nat BY <1>1 DEF Byte
  <2>2. b[2] + (c - a) = b[2] BY <1>1, <1>3, <2>1
  <2> QED BY <1>3, <2>1, <2>2
<1> QED BY <1>1, <1>2, <1>3

\* The piece that is stored goes on where the file ends.
LEMMA Nearer ==
  ASSUME NEW t \in Nat, NEW a \in Nat, NEW m \in Nat, NEW k \in Nat \ {0}, NEW s \in Nat,
         t + ((m + k) - a) <= s
  PROVE  t + (m - a) < s /\ t + (m - a) <= s
OBVIOUS

\* Byte d at place c of a data section goes on the run of byte b at place a.
Continues(b, a, d, c) ==
  /\ b[2] + (c - a) <= TotalLen(records[b[1]].len) => d = <<b[1], b[2] + (c - a)>>
  /\ c = a + 1 /\ Completes(b) => d[2] = 1

LEMMA RunsOnto ==
  ASSUME Inv, Runs, Settled, NEW n \in Nat,
         NEW i, NEW a \in 1 .. Len(files[i].data), NEW c, Added(i, c, n)
  PROVE  Continues(files[i].data[a], a, files'[i].data[c], c)
<1>15. PICK b : b = files[i].data[a] OBVIOUS
<1> SUFFICES /\ b[2] + (c - a) <= TotalLen(records[b[1]].len) =>
                  files'[i].data[c] = <<b[1], b[2] + (c - a)>>
             /\ c = a + 1 /\ Completes(b) => files'[i].data[c][2] = 1
  BY <1>15 DEF Continues
<1>1. /\ i = Len(files) /\ i \in 1 .. Len(files) /\ cur # 0 /\ pc = "bytes"
      /\ back = "bytes" /\ off \in Nat
  BY DEF Added, Inv, TypeOK, Place, Control
<1>14. PICK m : m = Len(files[i].data) OBVIOUS
<1>2. PICK k \in 1 .. n : c = m + k /\ files'[i].data[c] = <<Rec, off + k>>
                          /\ off + k <= Total
  <2>1. records # <<>> BY <1>1 DEF Inv, Place, Owing
  <2>2. Total \in Nat BY <2>1, TotalNat DEF Inv
  <2>3. PICK k \in 1 .. n : c = m + k /\ files'[i].data[c] = <<Rec, off + k>>
                            /\ off + k <= off + n /\ off + n <= Total
    BY <1>14 DEF Added
  <2>4. off + k <= Total BY <1>1, <2>2, <2>3
  <2> QED BY <2>3, <2>4
<1>3. /\ a \in Nat \ {0} /\ m \in Nat /\ a <= m /\ k \in Nat \ {0} /\ b \in Byte
  BY <1>1, <1>14, <1>15, FileData DEF Inv
<1>4. m \in 1 .. Len(files[i].data) BY <1>3, <1>14
<1>5. b[2] \in Nat /\ b[1] \in 1 .. Len(records)
  BY <1>1, <1>3, <1>15 DEF Byte, Inv, FileInv, Contents
<1>6. TotalLen(records[b[1]].len) \in Nat
  <2>1. records \in Seq(Record) BY DEF Inv, TypeOK
  <2>2. records[b[1]] \in Record BY <1>5, <2>1
  <2> QED BY <2>2, FormatAssumption DEF Record, TotalLen
<1>7. PICK e : e = files[i].data[m] OBVIOUS
<1>8. PICK s : s = TotalLen(records[b[1]].len) OBVIOUS
<1>9. Newest.data # <<>> /\ Newest.data[Len(Newest.data)] = e
  BY <1>1, <1>3, <1>4, <1>7, <1>14 DEF Newest
<1>10. b[2] + (c - a) <= s => e = <<b[1], b[2] + (m - a)>> /\ b[2] + (m - a) < s
  <2> SUFFICES ASSUME b[2] + (c - a) <= s
               PROVE  e = <<b[1], b[2] + (m - a)>> /\ b[2] + (m - a) < s
    OBVIOUS
  <2>1. b[2] + (m - a) < s /\ b[2] + (m - a) <= s
    <3>1. b[2] + ((m + k) - a) <= s BY <1>2
    <3>2. s \in Nat BY <1>6, <1>8
    <3> QED BY <1>3, <1>5, <3>1, <3>2, Nearer
  <2>2. b[2] + (m - a) <= TotalLen(records[b[1]].len) BY <1>8, <2>1
  <2>3. files[i].data[m] = <<b[1], b[2] + (m - a)>> BY <1>1, <1>3, <1>4, <1>15, <2>2, RunsTo
  <2>4. e = <<b[1], b[2] + (m - a)>> BY <1>7, <2>3
  <2> QED BY <2>1, <2>4
<1>11. c = a + 1 => a = m /\ k = 1 /\ b = e
  <2>1. c = a + 1 => a = m /\ k = 1 BY <1>2, <1>3
  <2> QED BY <2>1, <1>7, <1>14, <1>15
<1>12. CASE off = 0
  <2>1. Completes(e) BY <1>1, <1>9, <1>12 DEF Settled
  <2>2. ~ (b[2] + (c - a) <= s)
    <3> SUFFICES ASSUME b[2] + (c - a) <= s PROVE FALSE OBVIOUS
    <3>1. e[1] = b[1] /\ e[2] = b[2] + (m - a) /\ b[2] + (m - a) < s BY <1>10
    <3>2. e[2] = s BY <1>8, <2>1, <3>1 DEF Completes
    <3>3. s \in Nat /\ s < s BY <1>6, <1>8, <3>1, <3>2
    <3> QED BY <3>3
  <2>3. c = a + 1 => files'[i].data[c][2] = 1 BY <1>2, <1>11, <1>12
  <2> QED BY <1>8, <2>2, <2>3
<1>13. CASE off # 0
  <2>1. e = <<Rec, off>> BY <1>1, <1>9, <1>13 DEF Inv, Place, WithinRecord
  <2>2. b[2] + (c - a) <= s => files'[i].data[c] = <<b[1], b[2] + (c - a)>>
    <3> SUFFICES ASSUME b[2] + (c - a) <= s
                 PROVE  files'[i].data[c] = <<b[1], b[2] + (c - a)>>
      OBVIOUS
    <3>1. b[1] = Rec /\ off = b[2] + (m - a) BY <1>10, <2>1
    <3>2. off + k = b[2] + (c - a)
      <4>1. (b[2] + (m - a)) + k = b[2] + ((m + k) - a) BY <1>3, <1>5
      <4> QED BY <1>2, <3>1, <4>1
    <3> QED BY <1>2, <3>1, <3>2
  <2>3. ~ (c = a + 1 /\ Completes(b))
    <3> SUFFICES ASSUME c = a + 1, Completes(b) PROVE FALSE OBVIOUS
    <3>1. k = 1 /\ b[1] = Rec /\ b[2] = off BY <1>11, <2>1
    <3>2. off = Total BY <3>1 DEF Completes, Total
    <3> QED BY <1>1, <1>2, <3>1, <3>2
  <2> QED BY <1>8, <2>2, <2>3
<1> QED BY <1>12, <1>13

LEMMA NextRuns ==
  ASSUME Inv, Runs, Settled, NEW n \in Nat, Stores(n), Writes(n)
  PROVE  Runs'
<1> SUFFICES ASSUME NEW i \in 1 .. Len(files'), NEW a \in 1 .. Len(files'[i].data),
                    NEW c \in 1 .. Len(files'[i].data), a < c
             PROVE  (LET b == files[i].data[a] IN
                       /\ b[2] + (c - a) <= TotalLen(records[b[1]].len) =>
                            files[i].data[c] = <<b[1], b[2] + (c - a)>>
                       /\ c = a + 1 /\ Completes(b) => files[i].data[c][2] = 1)'
  BY DEF Runs
<1>9. PICK b : b = files'[i].data[a] OBVIOUS
<1>10. PICK d : d = files'[i].data[c] OBVIOUS
<1> SUFFICES /\ b[2] + (c - a) <= TotalLen(records'[b[1]].len) =>
                  d = <<b[1], b[2] + (c - a)>>
             /\ c = a + 1 /\ b[2] = TotalLen(records'[b[1]].len) => d[2] = 1
  BY <1>9, <1>10 DEF Completes, TotalLen
<1>1. Held(i, a) \/ Added(i, a, n) BY PlacesAfter
<1>2. Held(i, c) \/ Added(i, c, n) BY PlacesAfter
<1>3. off \in Nat /\ Rec \in Nat BY DEF Inv, TypeOK, Rec
<1>4. ASSUME Held(i, a) PROVE b = files[i].data[a] /\ records'[b[1]].len = records[b[1]].len
  <2>1. b = files[i].data[a] /\ b[1] \in 1 .. Len(records)
    BY <1>4, <1>9 DEF Held, Inv, FileInv, Contents
  <2> QED BY <2>1, LensStay
<1>5. CASE Held(i, a) /\ Held(i, c)
  <2>1. b = files[i].data[a] /\ records'[b[1]].len = records[b[1]].len BY <1>4, <1>5
  <2>2. /\ i \in 1 .. Len(files) /\ a \in 1 .. Len(files[i].data)
        /\ c \in 1 .. Len(files[i].data) /\ d = files[i].data[c]
    BY <1>5, <1>10 DEF Held
  <2>3. /\ b[2] + (c - a) <= TotalLen(records[b[1]].len) => d = <<b[1], b[2] + (c - a)>>
        /\ c = a + 1 /\ Completes(b) => d[2] = 1
    BY <2>1, <2>2 DEF Runs
  <2>4. TotalLen(records'[b[1]].len) = TotalLen(records[b[1]].len) BY <2>1 DEF TotalLen
  <2> QED BY <2>3, <2>4 DEF Completes
<1>6. CASE Held(i, a) /\ Added(i, c, n)
  <2>1. a \in 1 .. Len(files[i].data) BY <1>6 DEF Held
  <2>2. b = files[i].data[a] /\ records'[b[1]].len = records[b[1]].len BY <1>4, <1>6
  <2>3. Added(i, c, n) BY <1>6
  <2>4. /\ b[2] + (c - a) <= TotalLen(records[b[1]].len) =>
              files'[i].data[c] = <<b[1], b[2] + (c - a)>>
        /\ c = a + 1 /\ Completes(b) => files'[i].data[c][2] = 1
    <3>1. Continues(files[i].data[a], a, files'[i].data[c], c) BY <2>1, <2>3, RunsOnto
    <3>2. Continues(b, a, files'[i].data[c], c) BY <2>2, <3>1
    <3> QED BY <3>2 DEF Continues
  <2>5. TotalLen(records'[b[1]].len) = TotalLen(records[b[1]].len) BY <2>2 DEF TotalLen
  <2> QED BY <1>10, <2>4, <2>5 DEF Completes
<1>7. CASE Added(i, a, n) /\ Added(i, c, n)
  <2>1. i \in 1 .. Len(files) /\ pc = "bytes" /\ records # <<>>
    BY <1>7 DEF Added, Inv, Place, Control, Owing
  <2>2. Len(files[i].data) \in Nat BY <2>1, FileData DEF Inv
  <2>3. Rec \in 1 .. Len(records) /\ Total \in Nat BY <2>1, TotalNat DEF Inv
  <2>4. records'[Rec].len = records[Rec].len BY <2>3, LensStay
  <2>5. PICK m : m = Len(files[i].data) OBVIOUS
  <2>6. PICK j \in 1 .. n : a = m + j /\ b = <<Rec, off + j>> BY <1>7, <1>9, <1>10, <2>5 DEF Added
  <2>7. PICK k \in 1 .. n : c = m + k /\ d = <<Rec, off + k>> /\ off + k <= off + n
                            /\ off + n <= Total
    BY <1>7, <1>9, <1>10, <2>5 DEF Added
  <2>8. (off + j) + (c - a) = off + k /\ off + k <= Total /\ (c = a + 1 => k = j + 1)
    <3>1. m \in Nat /\ j \in Nat /\ k \in Nat /\ k <= n BY <2>2, <2>5, <2>6, <2>7
    <3>2. c - a = k - j /\ (c = a + 1 => k = j + 1) BY <2>6, <2>7, <3>1
    <3>3. off + k <= Total BY <1>3, <2>3, <2>7, <3>1
    <3> QED BY <1>3, <3>1, <3>2, <3>3
  <2>9. b[1] = Rec /\ b[2] = off + j /\ TotalLen(records'[Rec].len) = Total
    BY <2>4, <2>6 DEF Total, TotalLen
  <2>10. d = <<b[1], b[2] + (c - a)>> BY <2>7, <2>8, <2>9
  <2>11. c = a + 1 => b[2] # Total BY <1>3, <2>3, <2>8, <2>9
  <2> QED BY <2>9, <2>10, <2>11
<1>8. CASE Added(i, a, n) /\ Held(i, c)
  <2>1. i \in 1 .. Len(files) /\ c \in 1 .. Len(files[i].data) BY <1>8 DEF Added, Held
  <2>2. Len(files[i].data) \in Nat BY <2>1, FileData DEF Inv
  <2>3. PICK k \in 1 .. n : a = Len(files[i].data) + k BY <1>8 DEF Added
  <2>4. PICK l : l = Len(files[i].data) OBVIOUS
  <2>5. l \in Nat /\ c \in 1 .. l /\ a = l + k BY <2>1, <2>2, <2>3, <2>4
  <2> QED BY <2>5
<1> QED BY <1>1, <1>2, <1>5, <1>6, <1>7, <1>8

LEMMA FlowStep == Inv /\ StorageInv /\ FlowInv /\ [Next]_wvars => FlowInv'
<1> SUFFICES ASSUME Inv, StorageInv, FlowInv, [Next]_wvars PROVE FlowInv' OBVIOUS
<1>1. PICK n \in Nat : Stores(n) /\ Writes(n) BY NextWrites DEF StorageInv
<1>2. Runs' BY <1>1, NextRuns DEF FlowInv
<1>3. Settled' BY <1>1, NextSettled DEF FlowInv, StorageInv
<1>4. Abandoned' BY NextAbandoned DEF FlowInv
<1>5. TailOwed' BY <1>1, NextTailOwed DEF FlowInv
<1>6. SequencesRise' BY NextSequencesRise DEF FlowInv
<1> QED BY <1>2, <1>3, <1>4, <1>5, <1>6 DEF FlowInv

-----------------------------------------------------------------------------
(* SessionInv is inductive.                                                *)

\* A file is made under a name behind all others, or names are only lost.
LEMMA NamesMove ==
  ASSUME Inv, [Next]_wvars
  PROVE  \/ Shrinks
         \/ \E id \in FreeIds : Makes(id) /\ Creating /\ (pc' = "down" \/ clock' = id)
<1>1. CASE UNCHANGED wvars BY <1>1, NoneShrinks DEF wvars
<1> QED BY <1>1, CallerShrinks, StepShrinksOrMakes, EnvironmentShrinksOrMakes DEF Next

\* The file made carries the session on, or begins one by its own name, which is a
\* greater number than any before it in the directory.
LEMMA SessionMade ==
  ASSUME Inv, NamesInv, SessionInv, NEW id \in FreeIds, Makes(id), Creating
  PROVE  /\ Len(files) \in Nat /\ Len(files') = Len(files) + 1
         /\ \A i \in 1 .. Len(files) : files'[i] = files[i]
         /\ files'[Len(files) + 1].session <= files'[Len(files) + 1].id
         /\ \/ /\ files # <<>> /\ files'[Len(files) + 1].seq # 0
               /\ files'[Len(files) + 1].session = Newest.session
            \/ \A i \in Present : files[i].session < files'[Len(files) + 1].session
<1>1. files \in Seq(File) /\ clock \in Nat /\ id \in Nat /\ sessionId \in Nat
  BY FreeNat DEF Inv, TypeOK
<1>2. PICK whole \in BOOLEAN : files' = Append(files, NewFile(id, whole)) BY DEF Makes
<1>3. /\ NewFile(id, whole).id = id /\ NewFile(id, whole).seq = sequence
      /\ NewFile(id, whole).session = IF pc = "open" THEN id ELSE sessionId
  BY DEF NewFile
<1>4. /\ Len(files') = Len(files) + 1
      /\ \A i \in 1 .. Len(files) : files'[i] = files[i]
      /\ files'[Len(files) + 1] = NewFile(id, whole)
  BY <1>1, <1>2
<1>5. id >= clock /\ \A i \in Present : files[i].id # id
  BY <1>1, WriterAssumption DEF FreeIds
<1>6. CASE pc = "open"
  <2>1. ASSUME NEW i \in Present PROVE files[i].session < id
    <3>1. i \in 1 .. Len(files) /\ files[i] \in File /\ files[i].id \in Nat
      BY PresentFiles DEF Inv
    <3>2. files[i].session \in Nat BY <3>1 DEF File
    <3>3. files[i].session <= files[i].id BY <3>1 DEF SessionInv
    <3>4. files[i].id <= clock BY <1>6 DEF NamesInv, Ahead
    <3>5. files[i].id # id BY <1>5
    <3> QED BY <1>1, <1>5, <3>1, <3>2, <3>3, <3>4, <3>5
  <2> QED BY <1>1, <1>3, <1>4, <1>6, <2>1
<1>7. CASE pc = "extend"
  <2>1. sessionId <= clock BY <1>7 DEF SessionInv
  <2>2. sessionId <= id BY <1>1, <1>5, <2>1
  <2>3. files # <<>> /\ Newest.session = sessionId /\ sequence = SeqNext(Newest.seq)
    BY <1>7 DEF Inv, Place, Position
  <2>4. Newest.seq \in Nat
    <3>1. files[Len(files)] \in File BY <1>1, <2>3
    <3> QED BY <3>1 DEF Newest, File
  <2>5. sequence # 0 BY <2>3, <2>4, Successor
  <2> QED BY <1>1, <1>3, <1>4, <1>7, <2>2, <2>3, <2>5
<1> QED BY <1>6, <1>7 DEF Creating

\* The session of the open file is one that the clock has passed.
LEMMA NextSessionPassed ==
  ASSUME Inv, SessionInv, [Next]_wvars, cur' # 0 \/ pc' = "extend"
  PROVE  sessionId' <= clock'
<1>1. sessionId \in Nat /\ clock \in Nat BY DEF Inv, TypeOK
<1>2. ASSUME NEW id \in FreeIds, CreateSegment(id) PROVE sessionId' <= clock'
  <2>1. id \in Nat /\ id >= clock BY <1>1, FreeNat, WriterAssumption DEF FreeIds
  <2>2. pc = "extend" => sessionId <= clock BY DEF SessionInv
  <2> QED BY <1>1, <1>2, <2>1, <2>2 DEF CreateSegment, Creating
<1>3. ASSUME NEW id \in FreeIds, HeaderFails(id) \/ CreateFails(id) PROVE FALSE
  <2>1. cur' = 0 BY <1>3 DEF HeaderFails, CreateFails, Creating, Inv, Place, CurrentFile
  <2> QED BY <1>3, <2>1 DEF HeaderFails, CreateFails, ReturnError, Return
<1>4. ~ \E anchor \in 1 .. MaxAnchor : New(anchor)
  BY DEF New, Inv, Place, CurrentFile
<1>5. CASE sessionId' = sessionId /\ clock' = clock /\ (cur # 0 \/ pc = "extend")
  BY <1>5 DEF SessionInv
<1>6. CASE CloseAndSend \/ CloseFails \/ BuildDataHeader \/ RollWithin \/ WriteChunk
           \/ RecordComplete \/ TimestampFails \/ \E n \in 0 .. DataLen : ChunkFails(n)
  <2>1. cur # 0 /\ sessionId' = sessionId /\ clock' = clock
    BY <1>6 DEF CloseAndSend, CloseFails, BuildDataHeader, RollWithin, WriteChunk,
                ChunkFails, Storing, RecordComplete, TimestampFails, Inv, Place,
                CurrentFile
  <2> QED BY <1>5, <2>1
<1>7. ASSUME NEW i \in scan, Resend(i) \/ ClearStep(i) PROVE FALSE
  BY <1>7 DEF Resend, ClearStep, Inv, Place, CurrentFile
<1>8. ~ (FirstSession \/ ClearDone)
  BY DEF FirstSession, StartSession, ClearDone, Inv, Place, CurrentFile
<1>9. ASSUME NEW n \in 0 .. DataLen, Crash(n) PROVE FALSE
  BY <1>9 DEF Crash, Return
<1>10. ~ (BeginClear \/ Drop) BY DEF BeginClear, Drop, Return
<1>11. ASSUME NEW n \in Lens, BeginWrite(n) PROVE sessionId' <= clock'
  BY <1>5, <1>11 DEF BeginWrite, StartSession
<1>12. ASSUME NEW i \in Present, TakeAway(i) PROVE sessionId' <= clock'
  BY <1>5, <1>12 DEF TakeAway
<1>13. CASE UNCHANGED wvars BY <1>5, <1>13 DEF wvars
<1> QED
  BY <1>2, <1>3, <1>4, <1>6, <1>7, <1>8, <1>9, <1>10, <1>11, <1>12, <1>13
  DEF Next, Caller, Step, Environment

LEMMA SessionStep == Inv /\ NamesInv /\ SessionInv /\ [Next]_wvars => SessionInv'
<1> SUFFICES ASSUME Inv, NamesInv, SessionInv, [Next]_wvars PROVE SessionInv' OBVIOUS
<1>1. cur' # 0 \/ pc' = "extend" => sessionId' <= clock' BY NextSessionPassed
<1>2. CASE Shrinks
  <2>1. /\ Len(files') = Len(files)
        /\ \A i \in 1 .. Len(files) : /\ SameHeader(files[i], files'[i])
                                      /\ files'[i].present => files[i].present
    BY <1>2, OldFiles DEF Shrinks, Stays
  <2>2. \A i \in 1 .. Len(files') : files'[i].session <= files'[i].id
    BY <2>1 DEF SessionInv, SameHeader
  <2>3. SessionsRise'
    <3> SUFFICES ASSUME NEW i \in 1 .. Len(files'), NEW j \in 1 .. Len(files'), i < j,
                        files'[i].present, ~ OneSession(i, j)'
                 PROVE  files'[i].session < files'[j].session
      BY DEF SessionsRise
    <3>1. ~ OneSession(i, j)
      <4>1. Len(files) \in Nat BY OldFiles
      <4>2. \A k \in i + 1 .. j : k \in 1 .. Len(files) BY <2>1, <4>1
      <4> QED BY <2>1, <4>2 DEF OneSession, SameHeader
    <3> QED BY <2>1, <3>1 DEF SessionInv, SessionsRise, SameHeader
  <2> QED BY <1>1, <2>2, <2>3 DEF SessionInv
<1>3. ASSUME NEW id \in FreeIds, Makes(id), Creating, pc' = "down" \/ clock' = id
      PROVE  SessionInv'
  <2>1. /\ Len(files) \in Nat /\ Len(files') = Len(files) + 1
        /\ \A i \in 1 .. Len(files) : files'[i] = files[i]
        /\ files'[Len(files) + 1].session <= files'[Len(files) + 1].id
        /\ \/ /\ files # <<>> /\ files'[Len(files) + 1].seq # 0
              /\ files'[Len(files) + 1].session = Newest.session
           \/ \A i \in Present : files[i].session < files'[Len(files) + 1].session
    BY <1>3, SessionMade
  <2>2. \A i \in 1 .. Len(files') : i \in 1 .. Len(files) \/ i = Len(files) + 1
    BY <2>1
  <2>3. \A i \in 1 .. Len(files') : files'[i].session <= files'[i].id
    BY <2>1, <2>2 DEF SessionInv
  <2>4. SessionsRise'
    <3> SUFFICES ASSUME NEW i \in 1 .. Len(files'), NEW j \in 1 .. Len(files'), i < j,
                        files'[i].present, ~ OneSession(i, j)'
                 PROVE  files'[i].session < files'[j].session
      BY DEF SessionsRise
    <3>1. i \in 1 .. Len(files) BY <2>1
    <3>2. i \in Present BY <2>1, <3>1 DEF Present
    <3>3. CASE j \in 1 .. Len(files)
      <4>1. \A k \in i + 1 .. j : k \in 1 .. Len(files) BY <2>1, <3>1, <3>3
      <4>2. ~ OneSession(i, j) BY <2>1, <4>1 DEF OneSession
      <4> QED BY <2>1, <3>1, <3>3, <4>2 DEF SessionInv, SessionsRise
    <3>4. CASE j = Len(files) + 1 /\ ~ \A x \in Present : files[x].session < files'[j].session
      <4>1. files'[j].seq # 0 /\ files'[j].session = Newest.session BY <2>1, <3>4
      <4>2. PICK k \in i + 1 .. j : files'[k].seq = 0 BY DEF OneSession
      <4>3. k \in i + 1 .. Len(files) /\ k \in 1 .. Len(files)
        BY <2>1, <3>1, <3>4, <4>1, <4>2
      <4>4. i < Len(files) /\ Len(files) \in 1 .. Len(files) BY <2>1, <3>1, <4>3
      <4>5. ~ OneSession(i, Len(files)) BY <2>1, <4>2, <4>3 DEF OneSession
      <4>6. files[i].session < Newest.session
        BY <2>1, <3>1, <4>4, <4>5 DEF SessionInv, SessionsRise, Newest
      <4> QED BY <2>1, <3>1, <4>1, <4>6
    <3>5. CASE j = Len(files) + 1 /\ \A x \in Present : files[x].session < files'[j].session
      BY <2>1, <3>1, <3>2, <3>5
    <3> QED BY <2>2, <3>3, <3>4, <3>5
  <2> QED BY <1>1, <2>3, <2>4 DEF SessionInv
<1> QED BY <1>2, <1>3, NamesMove

LEMMA WriterInit == Init => WriterInv
BY InitEstablishes
DEF Init, WriterInv, StorageInv, LensAccepted, Alone, Frontier, RecordsStored,
    BytesOrdered, BytesFollow, AckedWhole, FlowInv, Runs, Settled, Abandoned, TailOwed,
    SequencesRise, NamesInv, NamesOrdered, Ahead, Present, SessionInv, SessionsRise

LEMMA WriterStep == WriterInv /\ [Next]_wvars => WriterInv'
BY StepKeeps, StorageStep, FlowStep, NextKeepsNames, SessionStep DEF WriterInv

\* What each place in a call of LogWrite may rely on holds throughout, of its fields,
\* of the files, of the record in progress, of the directory and its sessions: it is
\* inductive.
THEOREM StorageHolds == Spec => []WriterInv
BY WriterInit, WriterStep, PTL DEF Spec

\* write_bytes, roll and the way a failed write is abandoned store records as
\* prefixes of themselves, once and in order, and a write that returned Ok has
\* stored the whole of its record: for records of any length over any number of
\* files, whatever fails or dies between two calls on storage.
THEOREM WholeRecords == Spec => []RecordsStored
<1>1. WriterInv => RecordsStored BY DEF WriterInv, StorageInv
<1> QED BY <1>1, StorageHolds, PTL

-----------------------------------------------------------------------------
(* The refinement of TelemetryLog: what each step is to the program.       *)

Busy == \E r \in 1 .. Len(records) : records[r].status = "writing"

Wholes == {r \in 1 .. Len(records) : Whole(r)}

Acked == {r \in 1 .. Len(records) : records[r].status = "acked"}

\* The program waits for its record while a call is about it.
LEMMA BusyInWrite ==
  ASSUME Inv, Alone
  PROVE  (Busy <=> InWrite) /\ (InWrite => Rec \in 1 .. Len(records))
<1>1. records \in Seq(Record) /\ (InWrite => records # <<>>)
  BY DEF Inv, TypeOK, Place, Owing, InWrite
<1>2. InWrite => Rec \in 1 .. Len(records) BY <1>1 DEF Rec
<1> QED BY <1>2 DEF Alone, Busy, InWrite

\* Only the record in progress may come to be stored, and it was not before.
LEMMA StoredAfter ==
  ASSUME Inv, StorageInv, NEW n \in Nat, Stores(n), Len(records') = Len(records),
         \A r \in 1 .. Len(records) : records'[r].len = records[r].len
  PROVE  \/ Wholes' = Wholes
         \/ Rec \notin Wholes /\ Wholes' = Wholes \cup {Rec} /\ InWrite
<1>1. /\ Wholes' \subseteq 1 .. Len(records)
      /\ \A r \in 1 .. Len(records) : /\ r \in Wholes <=> Whole(r)
                                      /\ r \in Wholes' <=> Whole(r)'
  BY DEF Wholes
<1>2. ASSUME NEW r \in 1 .. Len(records)
      PROVE  Whole(r)' <=>
               \/ Whole(r)
               \/ r = Rec /\ \E k \in 1 .. n : Total = off + k
  <2> SUFFICES ASSUME NEW b, b = <<r, TotalLen(records[r].len)>>
               PROVE  OnStorage(b)' <=>
                        OnStorage(b) \/ (r = Rec /\ \E k \in 1 .. n : Total = off + k)
    BY DEF Whole, TotalLen
  <2>1. OnStorage(b)' <=> OnStorage(b) \/ \E k \in 1 .. n : b = <<Rec, off + k>>
    BY StorageAfter
  <2>2. \A k \in 1 .. n : b = <<Rec, off + k>> <=> r = Rec /\ Total = off + k
    BY DEF Total
  <2> QED BY <2>1, <2>2
<1>3. CASE \A k \in 1 .. n : Total # off + k
  <2>1. Wholes' = Wholes BY <1>1, <1>2, <1>3 DEF Wholes
  <2> QED BY <2>1
<1>4. ASSUME NEW k \in 1 .. n, Total = off + k
      PROVE  Rec \notin Wholes /\ Wholes' = Wholes \cup {Rec} /\ InWrite
  <2>1. pc = "bytes" /\ off \in Nat
    <3>1. n > 0 OBVIOUS
    <3> QED BY <3>1 DEF Stores, Inv, TypeOK
  <2>2. back = "bytes" /\ records # <<>> BY <2>1 DEF Inv, Place, Control, Owing
  <2>3. Rec \in 1 .. Len(records) BY <2>2, TotalNat DEF Inv
  <2>4. Rec \notin Wholes
    <3> SUFFICES ASSUME Whole(Rec) PROVE FALSE BY DEF Wholes
    <3>1. OnStorage(<<Rec, off + k>>) BY <1>4 DEF Whole, Total
    <3>2. ~ Before(<<Rec, off>>, <<Rec, off + k>>)
      BY <2>2, <3>1 DEF StorageInv, Frontier, OnStorage
    <3>3. off < off + k BY <2>1
    <3> QED BY <3>2, <3>3 DEF Before
  <2>5. \A r \in 1 .. Len(records) : r \in Wholes' <=> r \in Wholes \cup {Rec}
    BY <1>1, <1>2, <1>4
  <2>6. Wholes' = Wholes \cup {Rec} BY <1>1, <2>3, <2>5 DEF Wholes
  <2> QED BY <2>2, <2>4, <2>6 DEF InWrite
<1> QED BY <1>3, <1>4

LEMMA AbstractStep ==
  ASSUME Inv, StorageInv, Inv', StorageInv', [Next]_wvars
  PROVE  [Abs!Next]_(Abs!tvars)
<1>1. PICK n \in Nat : Stores(n) /\ Writes(n) BY NextWrites DEF StorageInv
<1>2. /\ Busy <=> InWrite
      /\ InWrite => Rec \in 1 .. Len(records)
      /\ Len(records) \in Nat
  BY <1>1, BusyInWrite, LensStay DEF StorageInv
<1>3. Busy' <=> InWrite'
  <2>1. records' \in Seq(Record) /\ (InWrite' => records' # <<>>)
    BY DEF Inv, TypeOK, Place, Owing, InWrite
  <2>2. InWrite' => Rec' \in 1 .. Len(records') BY <2>1 DEF Rec
  <2> QED BY <2>2 DEF StorageInv, Alone, Busy, InWrite
<1>4. CASE Len(records') = Len(records) + 1
  <2>1. /\ back = "none" /\ back' = "build" /\ files' = files
        /\ \A r \in 1 .. Len(records) : records'[r] = records[r]
        /\ records'[Len(records) + 1].status = "writing"
    BY <1>1, <1>4, LensStay
  <2>2. ~ Busy /\ Busy' BY <1>2, <1>3, <2>1 DEF InWrite
  <2>3. \A r \in 1 .. Len(records) : Whole(r)' <=> Whole(r)
    BY <2>1 DEF Whole, OnStorage, TotalLen
  <2>4. ASSUME NEW r, r = Len(records) + 1 PROVE ~ Whole(r)'
    <3> SUFFICES ASSUME NEW b, b = <<r, TotalLen(records'[r].len)>>, OnStorage(b)
                 PROVE  FALSE
      BY <2>1 DEF Whole, OnStorage, TotalLen
    <3>1. b[1] \in 1 .. Len(records) BY ByteKnown
    <3> QED BY <1>2, <2>4, <3>1
  <2>5. Wholes' = Wholes
    <3>1. \A r \in 1 .. Len(records') : r \in 1 .. Len(records) \/ r = Len(records) + 1
      BY <1>2, <1>4
    <3>2. \A r \in 1 .. Len(records) : r \in 1 .. Len(records') BY <1>2, <1>4
    <3>3. Wholes' = {r \in 1 .. Len(records') : Whole(r)'} BY DEF Wholes
    <3> QED BY <2>3, <2>4, <3>1, <3>2, <3>3 DEF Wholes
  <2>6. Acked' = Acked BY <1>2, <1>4, <2>1 DEF Acked
  <2>7. Abs!Offer BY <1>4, <2>2, <2>5, <2>6 DEF Abs!Offer, Busy, Wholes, Acked
  <2> QED BY <2>7 DEF Abs!Next
<1>5. CASE GoesOn(n)
  <2>1. /\ Len(records') = Len(records) /\ (InWrite' <=> InWrite)
        /\ \A r \in 1 .. Len(records) :
             records'[r].len = records[r].len /\ records'[r].status = records[r].status
    BY <1>5 DEF GoesOn, Verdict
  <2>2. Busy' = Busy /\ Acked' = Acked BY <2>1 DEF Busy, Acked
  <2>3. CASE Wholes' = Wholes
    BY <2>1, <2>2, <2>3 DEF Abs!tvars, Busy, Wholes, Acked
  <2>4. CASE Rec \notin Wholes /\ Wholes' = Wholes \cup {Rec} /\ InWrite
    <3>1. Abs!Store
      BY <1>2, <2>1, <2>2, <2>4 DEF Abs!Store, Busy, Wholes, Acked, Rec
    <3> QED BY <3>1 DEF Abs!Next
  <2> QED BY <1>1, <2>1, <2>3, <2>4, StoredAfter
<1>6. CASE Len(records') = Len(records) /\ RecordComplete /\ Ends("acked")
  <2>1. Busy /\ ~ Busy' /\ Rec \in 1 .. Len(records)
    <3>1. InWrite /\ ~ InWrite' BY <1>6 DEF Ends, InWrite
    <3> QED BY <1>2, <1>3, <3>1
  <2>2. /\ \A r \in 1 .. Len(records) :
             /\ records'[r].len = records[r].len
             /\ records'[r].status = IF r = Rec THEN "acked" ELSE records[r].status
    BY <1>6 DEF Ends, Verdict
  <2>3. Acked' = Acked \cup {Rec} BY <1>6, <2>1, <2>2 DEF Acked
  <2>4. Rec \in Wholes BY <1>6, <2>1, CompletedWhole DEF StorageInv, Wholes
  <2>5. Wholes' = Wholes BY <1>1, <1>6, <2>2, <2>4, StoredAfter
  <2>6. Abs!Acknowledge
    BY <1>6, <2>1, <2>3, <2>4, <2>5 DEF Abs!Acknowledge, Busy, Wholes, Acked, Rec
  <2> QED BY <2>6 DEF Abs!Next
<1>7. CASE Ends("failed")
  <2>1. Busy /\ ~ Busy' /\ Rec \in 1 .. Len(records)
    <3>1. InWrite /\ ~ InWrite' BY <1>7 DEF Ends, InWrite
    <3> QED BY <1>2, <1>3, <3>1
  <2>2. /\ Len(records') = Len(records)
        /\ \A r \in 1 .. Len(records) :
             /\ records'[r].len = records[r].len
             /\ records'[r].status = IF r = Rec THEN "failed" ELSE records[r].status
    BY <1>7 DEF Ends, Verdict
  <2>3. records[Rec].status = "writing"
    BY <1>7, <2>1 DEF Ends, InWrite, StorageInv, Alone
  <2>4. Acked' = Acked BY <2>1, <2>2, <2>3 DEF Acked
  <2>5. Wholes' \in {Wholes, Wholes \cup {Rec}} BY <1>1, <2>2, StoredAfter
  <2>6. Abs!Fail
    BY <2>1, <2>2, <2>4, <2>5 DEF Abs!Fail, Busy, Wholes, Acked, Rec
  <2> QED BY <2>6 DEF Abs!Next
<1> QED BY <1>1, <1>4, <1>5, <1>6, <1>7, LensStay

\* LogWrite implements TelemetryLog: to the program that writes, any interleaving
\* of its calls with failures of storage or of the handler, deletions, crashes and
\* restarts is a log of whole records, each stored before its write returns or
\* never, and none acknowledged that is not stored.
THEOREM WriterImplementsLog == Spec => ImplementsLog
<1>1. Init => Abs!Init BY DEF Init, Abs!Init
<1>2. WriterInv /\ WriterInv' /\ [Next]_wvars => [Abs!Next]_(Abs!tvars)
  BY AbstractStep DEF WriterInv
<1> QED BY <1>1, <1>2, StorageHolds, PTL DEF Spec, ImplementsLog, Abs!Spec
=============================================================================
