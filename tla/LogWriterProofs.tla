--------------------------- MODULE LogWriterProofs ---------------------------
(***************************************************************************)
(* What holds of LogWriter for every format, every length of record and of *)
(* file, and any number of failures, crashes and restarts.                 *)
(* First the invariant and what the headers of the files say; then the     *)
(* directory a LogWriter leaves behind and the records in its files: the   *)
(* order of the names, how many files have never been handed over, that a  *)
(* file is short only for a failure, and what the record counts tell.      *)
(***************************************************************************)
EXTENDS LogWriterInvariant, FiniteSetTheorems, TLAPS

-----------------------------------------------------------------------------
(* The operators on files and records.                                     *)

\* The successor of a sequence is never that of a session's first file.
LEMMA Successor ==
  ASSUME NEW s \in Nat
  PROVE  SeqNext(s) \in Nat /\ SeqNext(s) > 0
  BY FormatAssumption DEF SeqNext

\* A piece of a record is a sequence of its bytes, in their order.
LEMMA BytesOfPiece ==
  ASSUME NEW r \in Nat, NEW a \in Nat, NEW n \in Nat
  PROVE  /\ BytesOf(r, a, a + n) \in Seq(Byte)
         /\ Len(BytesOf(r, a, a + n)) = n
         /\ \A i \in 1 .. n : BytesOf(r, a, a + n)[i] = <<r, a + i>>
<1> DEFINE b == [i \in 1 .. n |-> <<r, a + i>>]
<1>1. (a + n) - a = n OBVIOUS
<1>2. BytesOf(r, a, a + n) = b BY <1>1 DEF BytesOf
<1>3. \A i \in 1 .. n : <<r, a + i>> \in Byte BY DEF Byte
<1>4. b \in Seq(Byte) BY <1>3
<1>5. Len(b) = n OBVIOUS
<1>6. \A i \in 1 .. n : b[i] = <<r, a + i>> OBVIOUS
<1> HIDE DEF b
<1> QED BY <1>2, <1>4, <1>5, <1>6

\* g has the header of f.
SameHeader(f, g) ==
  /\ g.id = f.id /\ g.session = f.session /\ g.seq = f.seq
  /\ g.remaining = f.remaining /\ g.whole = f.whole

\* g is f with its header and its data as they were, and not newly opened.
Touched(f, g) ==
  /\ g \in File /\ SameHeader(f, g) /\ g.data = f.data
  /\ g.state = "open" => f.state = "open"

\* g is f with the bytes b at the end of its data.
Grown(f, g, b) ==
  /\ g \in File /\ SameHeader(f, g)
  /\ Len(g.data) = Len(f.data) + Len(b)
  /\ \A o \in 1 .. Len(f.data) : g.data[o] = f.data[o]
  /\ \A o \in 1 .. Len(b) : g.data[Len(f.data) + o] = b[o]
  /\ g.state = "open" => f.state = "open"

\* Handing a file over, closing it or removing it touches neither its header
\* nor its data, and opens nothing.
LEMMA FileTouched ==
  ASSUME NEW f \in File
  PROVE  /\ \A keep \in BOOLEAN : Touched(f, Sent(f, keep))
         /\ Touched(f, Ended(f, "closed")) /\ Touched(f, Ended(f, "refused"))
         /\ Touched(f, Gone(f))
<1>1. ASSUME NEW keep \in BOOLEAN PROVE Touched(f, Sent(f, keep))
  <2>1. Sent(f, keep) \in File BY Zenon DEF Sent, File, FileStates
  <2> QED BY <2>1 DEF Sent, File, Touched, SameHeader
<1>2. ASSUME NEW s \in {"closed", "refused"} PROVE Touched(f, Ended(f, s))
  BY DEF Ended, File, FileStates, Touched, SameHeader
<1>3. Touched(f, Gone(f)) BY DEF Gone, File, FileStates, Touched, SameHeader
<1> QED BY <1>1, <1>2, <1>3

\* Writing a piece touches the data alone, and so does being cut off in it.
LEMMA FileGrown ==
  ASSUME NEW f \in File, NEW b \in Seq(Byte)
  PROVE  /\ Grown(f, Extended(f, b), b)
         /\ Grown(f, Ended(Extended(f, b), "closed"), b)
<1>1. f.data \in Seq(Byte) BY DEF File
<1>2. f.data \o b \in Seq(Byte) BY <1>1
<1> DEFINE g == Extended(f, b)
<1>3. /\ g \in File /\ g.data = f.data \o b
      /\ SameHeader(f, g) /\ g.state = f.state
  BY <1>2 DEF Extended, File, SameHeader
<1> DEFINE d == f.data
<1>4. d \in Seq(Byte) BY <1>1
<1>5. /\ Len(d \o b) = Len(d) + Len(b)
      /\ \A o \in 1 .. Len(d) : (d \o b)[o] = d[o]
      /\ \A o \in 1 .. Len(b) : (d \o b)[Len(d) + o] = b[o]
  <2> HIDE DEF d
  <2> QED BY <1>4
<1> HIDE DEF g
<1>6. Grown(f, g, b) BY <1>3, <1>5 DEF Grown
<1>7. Touched(g, Ended(g, "closed")) BY <1>3, FileTouched
<1>8. Grown(f, Ended(g, "closed"), b)
  BY <1>6, <1>7 DEF Grown, Touched, SameHeader
<1> QED BY <1>6, <1>8 DEF g

\* A new file is empty, and its header says what the writer's fields do.
LEMMA FileMade ==
  ASSUME TypeOK, NEW id \in Nat, NEW whole \in BOOLEAN
  PROVE  /\ NewFile(id, whole) \in File
         /\ NewFile(id, whole).data = <<>>
         /\ NewFile(id, whole).id = id
         /\ NewFile(id, whole).session = IF pc = "open" THEN id ELSE sessionId
         /\ NewFile(id, whole).seq = sequence
         /\ NewFile(id, whole).remaining = left
         /\ NewFile(id, whole).whole = whole
         /\ NewFile(id, whole).state = "open" => whole
<1>1. /\ sessionId \in Nat /\ sequence \in Nat /\ left \in Nat
  BY DEF TypeOK
<1>2. <<>> \in Seq(Byte) OBVIOUS
<1> QED BY <1>1, <1>2 DEF NewFile, File, FileStates

LEMMA Replaced ==
  ASSUME NEW S, NEW s \in Seq(S), NEW i \in 1 .. Len(s), NEW f \in S
  PROVE  LET t == [s EXCEPT ![i] = f] IN
         /\ t \in Seq(S) /\ Len(t) = Len(s)
         /\ t[i] = f
         /\ \A j \in 1 .. Len(s) : j # i => t[j] = s[j]
OBVIOUS

LEMMA Appended ==
  ASSUME NEW S, NEW s \in Seq(S), NEW f \in S
  PROVE  LET t == Append(s, f) IN
         /\ t \in Seq(S) /\ Len(t) = Len(s) + 1
         /\ t[Len(s) + 1] = f
         /\ \A j \in 1 .. Len(s) : t[j] = s[j]
OBVIOUS

-----------------------------------------------------------------------------
(* What a step may do to the files and the records.                        *)

\* Headers and data stay as they are, and no file is opened.
FilesKept ==
  /\ files' \in Seq(File) /\ Len(files') = Len(files)
  /\ \A i \in 1 .. Len(files) : Touched(files[i], files'[i])

\* Records may be added, and keep their lengths.
RecordsKept ==
  /\ records' \in Seq(Record) /\ Len(records') >= Len(records)
  /\ \A r \in 1 .. Len(records) : records'[r].len = records[r].len

\* A file is made, by create_segment or by a writer that dies in it.
FileAdded(id, whole) ==
  id \in Nat /\ whole \in BOOLEAN /\ files' = Append(files, NewFile(id, whole))

\* n more bytes of the record in progress are in the open file.
PieceAdded(n) ==
  /\ files' \in Seq(File) /\ Len(files') = Len(files)
  /\ Grown(files[cur], files'[cur], BytesOf(Rec, off, off + n))
  /\ \A i \in 1 .. Len(files) : i # cur => files'[i] = files[i]

LEMMA UnchangedKept ==
  ASSUME TypeOK, files' = files
  PROVE  FilesKept
<1>1. files \in Seq(File) BY DEF TypeOK
<1> QED BY <1>1 DEF FilesKept, Touched, SameHeader

LEMMA RecordsUnchanged ==
  ASSUME TypeOK, records' = records
  PROVE  RecordsKept
<1>1. records \in Seq(Record) BY DEF TypeOK
<1> QED BY <1>1 DEF RecordsKept

LEMMA TouchedKept ==
  ASSUME TypeOK, NEW i \in 1 .. Len(files), NEW g, Touched(files[i], g),
         files' = [files EXCEPT ![i] = g]
  PROVE  FilesKept
<1>1. files \in Seq(File) BY DEF TypeOK
<1>2. g \in File BY DEF Touched
<1>3. /\ files' \in Seq(File) /\ Len(files') = Len(files)
      /\ files'[i] = g
      /\ \A j \in 1 .. Len(files) : j # i => files'[j] = files[j]
  BY <1>1, <1>2, Replaced
<1>4. \A j \in 1 .. Len(files) : Touched(files[j], files[j]) BY <1>1 DEF Touched, SameHeader
<1> QED BY <1>3, <1>4 DEF FilesKept

LEMMA PieceKept ==
  ASSUME TypeOK, cur # 0, NEW n \in Nat,
         LET g == Extended(files[cur], BytesOf(Rec, off, off + n)) IN
         \/ files' = [files EXCEPT ![cur] = g]
         \/ files' = [files EXCEPT ![cur] = Ended(g, "closed")]
  PROVE  PieceAdded(n)
<1>1. /\ files \in Seq(File) /\ records \in Seq(Record)
      /\ cur \in 1 .. Len(files) /\ off \in Nat
  BY DEF TypeOK
<1>2. files[cur] \in File /\ Rec \in Nat BY <1>1 DEF Rec
<1> DEFINE b == BytesOf(Rec, off, off + n)
<1>3. b \in Seq(Byte) BY <1>1, <1>2, BytesOfPiece
<1> HIDE DEF b
<1>4. PICK g : /\ files' = [files EXCEPT ![cur] = g]
               /\ Grown(files[cur], g, b)
  BY <1>2, <1>3, FileGrown DEF b
<1>5. g \in File BY <1>4 DEF Grown
<1>6. /\ files' \in Seq(File) /\ Len(files') = Len(files)
      /\ files'[cur] = g
      /\ \A j \in 1 .. Len(files) : j # cur => files'[j] = files[j]
  BY <1>1, <1>4, <1>5, Replaced
<1> QED BY <1>4, <1>6 DEF PieceAdded, b

LEMMA StatusKept ==
  ASSUME TypeOK, records # <<>>, NEW s \in {"acked", "failed"}, SetStatus(s)
  PROVE  RecordsKept
<1>1. records \in Seq(Record) BY DEF TypeOK
<1>2. Rec \in 1 .. Len(records) BY <1>1 DEF Rec
<1>3. records[Rec] \in Record BY <1>1, <1>2
<1> DEFINE g == [records[Rec] EXCEPT !.status = s]
<1>4. g \in Record /\ g.len = records[Rec].len BY <1>3 DEF Record
<1>5. records' = [records EXCEPT ![Rec] = g] BY DEF SetStatus
<1> HIDE DEF g
<1>6. /\ records' \in Seq(Record) /\ Len(records') = Len(records)
      /\ records'[Rec] = g
      /\ \A j \in 1 .. Len(records) : j # Rec => records'[j] = records[j]
  BY <1>1, <1>2, <1>4, <1>5, Replaced
<1> QED BY <1>4, <1>6 DEF RecordsKept

-----------------------------------------------------------------------------
(* What holds of the files, through each of these.                         *)

LEMMA HeadersKept ==
  ASSUME TypeOK, SequenceDense, Len(files') = Len(files),
         \A i \in 1 .. Len(files) : SameHeader(files[i], files'[i])
  PROVE  SequenceDense'
<1> SUFFICES ASSUME NEW i \in 1 .. Len(files)
             PROVE  IF files'[i].seq = 0
                    THEN files'[i].session = files'[i].id
                    ELSE /\ i > 1 /\ files'[i - 1].whole
                         /\ files'[i].seq = SeqNext(files'[i - 1].seq)
                         /\ files'[i - 1].session = files'[i].session
  BY DEF SequenceDense, SameSession
<1>1. CASE files[i].seq = 0
  BY <1>1 DEF SequenceDense, SameHeader
<1>2. CASE files[i].seq # 0
  <2>1. /\ i > 1 /\ files[i - 1].whole
        /\ files[i].seq = SeqNext(files[i - 1].seq)
        /\ files[i - 1].session = files[i].session
    BY <1>2 DEF SequenceDense, SameSession
  <2>2. files \in Seq(File) BY DEF TypeOK
  <2>3. i - 1 \in 1 .. Len(files) BY <2>1, <2>2
  <2> QED BY <1>2, <2>1, <2>3 DEF SameHeader
<1> QED BY <1>1, <1>2

LEMMA KeptFileInv ==
  ASSUME TypeOK, FileInv, FilesKept, RecordsKept
  PROVE  FileInv'
<1>1. files \in Seq(File) /\ records \in Seq(Record) BY DEF TypeOK
<1>2. SequenceDense'
  BY HeadersKept DEF FileInv, FilesKept, Touched
<1>3. Contents'
  <2> SUFFICES ASSUME NEW i \in 1 .. Len(files)
               PROVE  /\ Len(files'[i].data) <= DataLen
                      /\ \A o \in 1 .. Len(files'[i].data) :
                           files'[i].data[o][1] \in 1 .. Len(records')
    BY DEF Contents, FilesKept
  <2>1. files'[i].data = files[i].data BY DEF FilesKept, Touched
  <2>2. Len(records) \in Nat /\ Len(records') \in Nat /\ Len(records') >= Len(records)
    BY <1>1 DEF RecordsKept
  <2> QED BY <2>1, <2>2 DEF FileInv, Contents
<1>4. RemainingTold'
  <2> SUFFICES ASSUME NEW i \in 1 .. Len(files)
               PROVE  LET f == files'[i] IN
                 IF f.remaining = 0
                 THEN f.data # <<>> => f.data[1][2] = 1
                 ELSE /\ i > 1 /\ f.seq > 0
                      /\ Len(files'[i - 1].data) = DataLen
                      /\ LET last == files'[i - 1].data[DataLen] IN
                         /\ f.remaining = TotalLen(records'[last[1]].len) - last[2]
                         /\ f.data # <<>> => f.data[1] = <<last[1], last[2] + 1>>
    BY DEF RemainingTold, FilesKept
  <2>1. CASE files[i].remaining = 0
    BY <2>1 DEF FileInv, RemainingTold, FilesKept, Touched, SameHeader
  <2>2. CASE files[i].remaining # 0
    <3> DEFINE last == files[i - 1].data[DataLen]
    <3>1. /\ i > 1 /\ files[i].seq > 0 /\ Len(files[i - 1].data) = DataLen
          /\ files[i].remaining = TotalLen(records[last[1]].len) - last[2]
          /\ files[i].data # <<>> => files[i].data[1] = <<last[1], last[2] + 1>>
      BY <2>2 DEF FileInv, RemainingTold
    <3>2. i - 1 \in 1 .. Len(files) BY <1>1, <3>1
    <3>3. DataLen \in 1 .. Len(files[i - 1].data) BY <3>1, FormatAssumption
    <3>4. last[1] \in 1 .. Len(records)
      BY <3>2, <3>3 DEF FileInv, Contents
    <3>5. records'[last[1]].len = records[last[1]].len
      BY <3>4 DEF RecordsKept
    <3>6. files'[i - 1].data = files[i - 1].data
      BY <3>2 DEF FilesKept, Touched
    <3> QED BY <2>2, <3>1, <3>5, <3>6 DEF FilesKept, Touched, SameHeader
  <2> QED BY <2>1, <2>2
<1> QED BY <1>2, <1>3, <1>4 DEF FileInv

\* What RemainingTold says of file i.
TellsTrue(i) ==
  LET f == files[i] IN
  IF f.remaining = 0
  THEN f.data # <<>> => f.data[1][2] = 1
  ELSE /\ i > 1 /\ f.seq > 0
       /\ Len(files[i - 1].data) = DataLen
       /\ LET last == files[i - 1].data[DataLen] IN
            /\ f.remaining = TotalLen(records[last[1]].len) - last[2]
            /\ f.data # <<>> => f.data[1] = <<last[1], last[2] + 1>>

\* The open file grows by a piece of the record in progress.
LEMMA PieceFileInv ==
  ASSUME Inv, pc = "bytes", NEW n \in Nat, n <= Room, PieceAdded(n), RecordsKept
  PROVE  FileInv'
<1> DEFINE b == BytesOf(Rec, off, off + n)
           f == files[cur]
           g == files'[cur]
<1>1. /\ files \in Seq(File) /\ records \in Seq(Record)
      /\ off \in Nat /\ cur = Len(files) /\ cur \in 1 .. Len(files)
  <2>1. /\ files \in Seq(File) /\ records \in Seq(Record)
        /\ off \in Nat /\ cur \in 0 .. Len(files)
    BY DEF Inv, TypeOK
  <2>2. cur # 0 /\ cur \in {0, Len(files)} BY DEF Inv, Place, CurrentFile
  <2> QED BY <2>1, <2>2
<1>2. Rec \in 1 .. Len(records)
  <2>1. records # <<>> BY DEF Inv, Place, Owing, Control
  <2> QED BY <1>1, <2>1 DEF Rec
<1>3. /\ b \in Seq(Byte) /\ Len(b) = n
      /\ \A i \in 1 .. n : b[i] = <<Rec, off + i>>
  <2>1. Rec \in Nat /\ off \in Nat BY <1>1, <1>2
  <2> QED BY <2>1, BytesOfPiece
<1>4. f \in File /\ f.data \in Seq(Byte)
  <2>1. f \in File BY <1>1
  <2> QED BY <2>1 DEF File
<1>5. Grown(f, g, b) BY DEF PieceAdded
<1>6. g.data \in Seq(Byte) BY <1>5 DEF Grown, File
<1>7. \A i \in 1 .. Len(files) : i # cur => files'[i] = files[i]
  BY DEF PieceAdded
<1> HIDE DEF b, f, g
<1>8. /\ SameHeader(f, g) /\ Len(g.data) = Len(f.data) + n
      /\ \A o \in 1 .. Len(f.data) : g.data[o] = f.data[o]
      /\ \A o \in 1 .. n : g.data[Len(f.data) + o] = <<Rec, off + o>>
  BY <1>3, <1>5 DEF Grown
<1>9. SequenceDense'
  <2>1. \A i \in 1 .. Len(files) : SameHeader(files[i], files'[i])
    BY <1>7, <1>8 DEF SameHeader, f, g
  <2> QED BY <2>1, HeadersKept DEF Inv, FileInv, PieceAdded
<1>10. Contents'
  <2> SUFFICES ASSUME NEW i \in 1 .. Len(files)
               PROVE  /\ Len(files'[i].data) <= DataLen
                      /\ \A o \in 1 .. Len(files'[i].data) :
                           files'[i].data[o][1] \in 1 .. Len(records')
    BY DEF Contents, PieceAdded
  <2>1. Len(records) \in Nat /\ Len(records') \in Nat /\ Len(records') >= Len(records)
    BY <1>1 DEF RecordsKept
  <2>2. CASE i # cur
    <3>1. files'[i] = files[i] BY <1>7, <2>2
    <3>2. /\ Len(files[i].data) <= DataLen
          /\ \A o \in 1 .. Len(files[i].data) :
               files[i].data[o][1] \in 1 .. Len(records)
      BY DEF Inv, FileInv, Contents
    <3> QED BY <2>1, <3>1, <3>2
  <2>3. CASE i = cur
    <3>1. \A o \in 1 .. Len(f.data) : f.data[o][1] \in 1 .. Len(records)
      BY <1>1 DEF Inv, FileInv, Contents, f
    <3>2. Len(g.data) <= DataLen
      BY <1>1, <1>4, <1>8, FormatAssumption DEF Room, f
    <3>3. ASSUME NEW o \in 1 .. Len(g.data)
          PROVE  g.data[o][1] \in 1 .. Len(records')
      <4>1. CASE o \in 1 .. Len(f.data)
        <5>1. g.data[o] = f.data[o] BY <1>8, <4>1
        <5> QED BY <2>1, <3>1, <4>1, <5>1
      <4>2. CASE o \notin 1 .. Len(f.data)
        <5>1. o - Len(f.data) \in 1 .. n
          BY <1>4, <1>6, <1>8, <3>3, <4>2
        <5>2. g.data[Len(f.data) + (o - Len(f.data))]
                = <<Rec, off + (o - Len(f.data))>>
          BY <1>8, <5>1
        <5>3. Len(f.data) + (o - Len(f.data)) = o BY <1>4, <3>3
        <5>4. g.data[o] = <<Rec, off + (o - Len(f.data))>> BY <5>2, <5>3
        <5>5. g.data[o][1] = Rec BY <5>4
        <5> QED BY <1>2, <2>1, <5>5
      <4> QED BY <4>1, <4>2
    <3> QED BY <2>3, <3>2, <3>3 DEF g
  <2> QED BY <2>2, <2>3
<1>11. RemainingTold'
  <2> SUFFICES ASSUME NEW i \in 1 .. Len(files) PROVE TellsTrue(i)'
    BY DEF RemainingTold, TellsTrue, PieceAdded
  <2>1. TellsTrue(i) BY DEF Inv, FileInv, RemainingTold, TellsTrue
  <2>2. SameHeader(files[i], files'[i]) BY <1>7, <1>8 DEF SameHeader, f, g
  <2>3. CASE files[i].remaining # 0
    <3> DEFINE last == files[i - 1].data[DataLen]
    <3>1. i - 1 \in 1 .. Len(files) /\ i - 1 # cur BY <1>1, <2>1, <2>3 DEF TellsTrue
    <3>2. files'[i - 1] = files[i - 1] BY <1>7, <3>1
    <3>3. last[1] \in 1 .. Len(records)
      BY <2>1, <2>3, <3>1, FormatAssumption DEF TellsTrue, Inv, FileInv, Contents
    <3>4. records'[last[1]].len = records[last[1]].len
      BY <3>3 DEF RecordsKept
    <3>5. CASE i # cur
      BY <1>7, <2>1, <2>3, <3>2, <3>4, <3>5 DEF TellsTrue
    <3>6. CASE i = cur /\ f.data # <<>>
      <4>1. g.data[1] = f.data[1]
        <5>1. 1 \in 1 .. Len(f.data) BY <1>4, <3>6
        <5> QED BY <1>8, <5>1
      <4> QED BY <2>1, <2>2, <2>3, <3>2, <3>4, <3>6, <4>1
              DEF TellsTrue, SameHeader, f, g
    <3>7. CASE i = cur /\ f.data = <<>>
      <4>1. off # 0 /\ last = <<Rec, off>>
        BY <1>1, <2>3, <3>7 DEF Inv, Place, WithinRecord, Newest, f
      <4>2. g.data # <<>> => g.data[1] = <<Rec, off + 1>>
        BY <1>6, <1>8, <3>7
      <4> QED BY <2>1, <2>2, <2>3, <3>2, <3>4, <3>7, <4>1, <4>2
              DEF TellsTrue, SameHeader, g
    <3> QED BY <3>5, <3>6, <3>7
  <2>4. CASE files[i].remaining = 0
    <3>1. CASE i # cur BY <1>7, <2>1, <2>4, <3>1 DEF TellsTrue
    <3>2. CASE i = cur /\ f.data # <<>>
      <4>1. g.data[1] = f.data[1]
        <5>1. 1 \in 1 .. Len(f.data) BY <1>4, <3>2
        <5> QED BY <1>8, <5>1
      <4> QED BY <2>1, <2>2, <2>4, <3>2, <4>1 DEF TellsTrue, SameHeader, f, g
    <3>3. CASE i = cur /\ f.data = <<>>
      <4>1. off = 0
        BY <1>1, <2>4, <3>3 DEF Inv, Place, WithinRecord, Newest, f
      <4>2. g.data # <<>> => g.data[1][2] = 1
        BY <1>6, <1>8, <3>3, <4>1
      <4> QED BY <2>2, <2>4, <3>3, <4>2 DEF TellsTrue, SameHeader, g
    <3> QED BY <3>1, <3>2, <3>3
  <2> QED BY <2>3, <2>4
<1> QED BY <1>9, <1>10, <1>11 DEF FileInv

\* A file is made for the session's next place, or a session's first.
LEMMA AddedFileInv ==
  ASSUME Inv, pc \in {"open", "extend"}, NEW id, NEW whole,
         FileAdded(id, whole), RecordsKept
  PROVE  /\ FileInv'
         /\ files' \in Seq(File) /\ Len(files') = Len(files) + 1
         /\ files'[Len(files) + 1] = NewFile(id, whole)
         /\ \A i \in 1 .. Len(files) : files'[i] = files[i]
<1> DEFINE k == Len(files) + 1
           new == NewFile(id, whole)
<1>1. /\ files \in Seq(File) /\ records \in Seq(Record) /\ left \in Nat
  BY DEF Inv, TypeOK
<1>2. /\ new \in File /\ new.data = <<>> /\ new.id = id
      /\ new.session = IF pc = "open" THEN id ELSE sessionId
      /\ new.seq = sequence /\ new.remaining = left
  BY FileMade DEF Inv, FileAdded
<1> HIDE DEF new
<1>3. /\ files' \in Seq(File) /\ Len(files') = k /\ files'[k] = new
      /\ \A i \in 1 .. Len(files) : files'[i] = files[i]
  <2>1. files' = Append(files, new) BY DEF FileAdded, new
  <2> QED BY <1>1, <1>2, <2>1, Appended
<1>4. /\ Len(files) \in Nat
      /\ \A i \in 1 .. k : i = k \/ i \in 1 .. Len(files)
  BY <1>1
<1>5. SequenceDense'
  <2> SUFFICES ASSUME NEW i \in 1 .. k
               PROVE  IF files'[i].seq = 0
                      THEN files'[i].session = files'[i].id
                      ELSE /\ i > 1 /\ files'[i - 1].whole
                           /\ files'[i].seq = SeqNext(files'[i - 1].seq)
                           /\ files'[i - 1].session = files'[i].session
    BY <1>3 DEF SequenceDense, SameSession
  <2>1. CASE i \in 1 .. Len(files)
    <3>1. files'[i] = files[i] BY <1>3, <2>1
    <3>2. files[i].seq # 0 => i - 1 \in 1 .. Len(files)
      BY <1>1, <2>1 DEF Inv, FileInv, SequenceDense
    <3>3. files[i].seq # 0 => files'[i - 1] = files[i - 1] BY <1>3, <3>2
    <3> QED BY <2>1, <3>1, <3>3 DEF Inv, FileInv, SequenceDense, SameSession
  <2>2. CASE i = k /\ pc = "open"
    BY <1>2, <1>3, <2>2 DEF Inv, Place, Position
  <2>3. CASE i = k /\ pc = "extend"
    <3>1. /\ files # <<>> /\ Newest.whole /\ Newest.session = sessionId
          /\ sequence = SeqNext(Newest.seq)
      BY <2>3 DEF Inv, Place, Position
    <3>2. Len(files) \in 1 .. Len(files) BY <1>1, <3>1
    <3>3. files[Len(files)] \in File BY <1>1, <3>2
    <3>4. Newest.seq \in Nat BY <3>3 DEF Newest, File
    <3>5. i - 1 = Len(files) /\ i > 1
      <4>1. i = Len(files) + 1 /\ Len(files) \in Nat /\ Len(files) >= 1
        BY <1>4, <2>3, <3>2
      <4> QED BY <4>1
    <3>6. files'[i - 1] = Newest BY <1>3, <3>2, <3>5 DEF Newest
    <3>7. files'[i].seq # 0
      <4>1. files'[i].seq = SeqNext(Newest.seq) BY <1>2, <1>3, <2>3, <3>1
      <4>2. SeqNext(Newest.seq) > 0 BY <3>4, Successor
      <4> QED BY <4>1, <4>2
    <3> QED BY <1>2, <1>3, <2>3, <3>1, <3>5, <3>6, <3>7
  <2> QED BY <1>4, <2>1, <2>2, <2>3
<1>6. Contents'
  <2> SUFFICES ASSUME NEW i \in 1 .. k
               PROVE  /\ Len(files'[i].data) <= DataLen
                      /\ \A o \in 1 .. Len(files'[i].data) :
                           files'[i].data[o][1] \in 1 .. Len(records')
    BY <1>3 DEF Contents
  <2>1. Len(records) \in Nat /\ Len(records') \in Nat /\ Len(records') >= Len(records)
    BY <1>1 DEF RecordsKept
  <2>2. CASE i \in 1 .. Len(files)
    <3>1. files'[i] = files[i] BY <1>3, <2>2
    <3>2. /\ Len(files[i].data) <= DataLen
          /\ \A o \in 1 .. Len(files[i].data) :
               files[i].data[o][1] \in 1 .. Len(records)
      BY <2>2 DEF Inv, FileInv, Contents
    <3> QED BY <2>1, <3>1, <3>2
  <2>3. CASE i = k
    <3>1. files'[i].data = <<>> BY <1>2, <1>3, <2>3
    <3> QED BY <3>1, FormatAssumption
  <2> QED BY <1>4, <2>2, <2>3
<1>7. RemainingTold'
  <2> SUFFICES ASSUME NEW i \in 1 .. k PROVE TellsTrue(i)'
    BY <1>3 DEF RemainingTold, TellsTrue
  <2>1. CASE i \in 1 .. Len(files)
    <3>1. TellsTrue(i) BY <2>1 DEF Inv, FileInv, RemainingTold, TellsTrue
    <3>2. files'[i] = files[i] BY <1>3, <2>1
    <3>3. CASE files[i].remaining = 0 BY <3>1, <3>2, <3>3 DEF TellsTrue
    <3>4. CASE files[i].remaining # 0
      <4>1. i - 1 \in 1 .. Len(files) /\ Len(files[i - 1].data) = DataLen
        BY <1>1, <2>1, <3>1, <3>4 DEF TellsTrue
      <4>2. files'[i - 1] = files[i - 1] BY <1>3, <4>1
      <4>3. files[i - 1].data[DataLen][1] \in 1 .. Len(records)
        BY <4>1, FormatAssumption DEF Inv, FileInv, Contents
      <4>4. records'[files[i - 1].data[DataLen][1]].len
              = records[files[i - 1].data[DataLen][1]].len
        BY <4>3 DEF RecordsKept
      <4> QED BY <3>1, <3>2, <3>4, <4>2, <4>4 DEF TellsTrue
    <3> QED BY <3>3, <3>4
  <2>2. CASE i = k /\ left = 0
    BY <1>2, <1>3, <2>2 DEF TellsTrue
  <2>3. CASE i = k /\ left # 0
    <3>1. back = "bytes" /\ pc = "extend"
      BY <2>3 DEF Inv, Place, Owing, Control
    <3>2. /\ files # <<>> /\ Len(Newest.data) = DataLen
          /\ Newest.data[DataLen] = <<Rec, off>>
      BY <3>1 DEF Inv, Place, Rolling
    <3>3. records # <<>> /\ left = Total - off BY <3>1 DEF Inv, Place, Owing
    <3>4. Rec \in 1 .. Len(records) BY <1>1, <3>3 DEF Rec
    <3>5. records'[Rec].len = records[Rec].len BY <3>4 DEF RecordsKept
    <3>6. Len(files) \in 1 .. Len(files) BY <1>1, <3>2
    <3>7. i - 1 = Len(files) /\ i > 1 BY <1>4, <2>3, <3>6
    <3>8. files'[i - 1] = Newest BY <1>3, <3>6, <3>7 DEF Newest
    <3>9. sequence > 0
      <4>1. Newest \in File BY <1>1, <3>6 DEF Newest
      <4>2. Newest.seq \in Nat BY <4>1 DEF File
      <4> QED BY <3>1, <4>2, Successor DEF Inv, Place, Position
    <3> QED BY <1>2, <1>3, <2>3, <3>2, <3>3, <3>5, <3>7, <3>8, <3>9
            DEF TellsTrue, Total
  <2> QED BY <1>4, <2>1, <2>2, <2>3
<1> QED BY <1>3, <1>5, <1>6, <1>7 DEF FileInv, new

-----------------------------------------------------------------------------
(* Each step keeps the invariant.                                          *)

\* The newest file, when headers and data stay as they are.
LEMMA KeptLast ==
  ASSUME TypeOK, FilesKept
  PROVE  /\ Len(files') = Len(files)
         /\ files # <<>> =>
              /\ files' # <<>> /\ SameHeader(Newest, Newest')
              /\ Newest'.data = Newest.data
         /\ Len(files) > 1 =>
              files'[Len(files') - 1].data = files[Len(files) - 1].data
<1>1. files \in Seq(File) /\ files' \in Seq(File) /\ Len(files') = Len(files)
  BY DEF TypeOK, FilesKept
<1>2. ASSUME files # <<>>
      PROVE  files' # <<>> /\ SameHeader(Newest, Newest') /\ Newest'.data = Newest.data
  <2>1. Len(files) \in 1 .. Len(files) BY <1>1, <1>2
  <2> QED BY <1>1, <2>1 DEF FilesKept, Touched, Newest
<1>3. ASSUME Len(files) > 1
      PROVE  files'[Len(files') - 1].data = files[Len(files) - 1].data
  <2>1. Len(files) - 1 \in 1 .. Len(files) BY <1>1, <1>3
  <2> QED BY <1>1, <2>1 DEF FilesKept, Touched
<1> QED BY <1>1, <1>2, <1>3

LEMMA FirstSessionKeeps ==
  ASSUME Inv, FirstSession
  PROVE  Inv'
<1>1. FilesKept /\ RecordsKept
  BY UnchangedKept, RecordsUnchanged DEF Inv, FirstSession
<1>2. FileInv' BY <1>1, KeptFileInv DEF Inv
<1>3. TypeOK' BY DEF Inv, TypeOK, FirstSession, StartSession
<1>4. Place'
  BY DEF Inv, Place, Control, CurrentFile, Owing, Position, BetweenRecords,
         WithinRecord, Rolling, Newest, Total, Rec, FirstSession, StartSession
<1> QED BY <1>2, <1>3, <1>4 DEF Inv

LEMMA NewKeeps ==
  ASSUME Inv, NEW anchor \in 1 .. MaxAnchor, New(anchor)
  PROVE  Inv'
<1>1. FilesKept /\ RecordsKept
  BY UnchangedKept, RecordsUnchanged DEF Inv, New
<1>2. FileInv' BY <1>1, KeptFileInv DEF Inv
<1>3. clock' \in Nat
  <2>1. \A i \in Present : files[i].id \in Nat
    <3>1. files \in Seq(File) BY DEF Inv, TypeOK
    <3>2. \A i \in Present : files[i] \in File BY <3>1 DEF Present
    <3> QED BY <3>2 DEF File
  <2> DEFINE ids == {files[i].id : i \in Present}
  <2>2. \A id \in ids : id + 1 \in Nat BY <2>1
  <2>3. clock' \in {anchor} \cup {id + 1 : id \in ids} BY DEF New, AdvancePast
  <2> HIDE DEF ids
  <2> QED BY <2>2, <2>3
<1>4. TypeOK' BY <1>3 DEF Inv, TypeOK, New, Present
<1>5. Place'
  BY DEF Inv, Place, Control, CurrentFile, Owing, Position, BetweenRecords,
         WithinRecord, Rolling, Newest, Total, Rec, New
<1> QED BY <1>2, <1>4, <1>5 DEF Inv

LEMMA ResendKeeps ==
  ASSUME Inv, NEW i \in scan, Resend(i)
  PROVE  Inv'
<1>1. i \in 1 .. Len(files) /\ files \in Seq(File) BY DEF Inv, TypeOK
<1>2. files[i] \in File BY <1>1
<1>3. PICK g : Touched(files[i], g) /\ files' = [files EXCEPT ![i] = g]
  BY <1>2, FileTouched, WriterAssumption DEF Resend
<1>4. FilesKept /\ RecordsKept
  BY <1>1, <1>3, TouchedKept, RecordsUnchanged DEF Inv, Resend
<1>5. FileInv' BY <1>4, KeptFileInv DEF Inv
<1>6. TypeOK' BY <1>4 DEF Inv, TypeOK, Resend, FilesKept, Fault
<1>7. Place'
  BY <1>4, KeptLast DEF Inv, Place, Control, CurrentFile, Owing, Position,
     BetweenRecords, WithinRecord, Rolling, Total, Rec, Resend, FilesKept, Touched
<1> QED BY <1>5, <1>6, <1>7 DEF Inv

\* An error returned by create_segment or close_and_send ends the call.
LEMMA ErrorReturned ==
  ASSUME Inv, pc \in {"open", "extend", "close"}, ReturnError
  PROVE  /\ RecordsKept
         /\ pc' \in {"down", "idle"} /\ why' = "none" /\ back' = "none" /\ off' = 0
<1>1. CASE back = "ready"
  <2>1. records' = records BY <1>1 DEF ReturnError
  <2> QED BY <1>1, <2>1, RecordsUnchanged DEF Inv, ReturnError, Return
<1>2. CASE back # "ready"
  <2>1. back \in {"build", "bytes", "error"}
    BY <1>2 DEF Inv, TypeOK, Place, Control
  <2>2. records # <<>> BY <2>1 DEF Inv, Place, Owing
  <2> QED BY <1>2, <2>2, StatusKept DEF Inv, ReturnError, Return
<1> QED BY <1>1, <1>2

\* A step that ends a call, or goes on in clear(), and leaves no file open.
LEMMA ErrorPlace ==
  ASSUME Inv, pc' \in {"down", "idle", "clear"}, why' = "none", back' = "none", off' = 0,
         cur' = 0, files' \in Seq(File),
         \A i \in 1 .. Len(files') : files'[i].state # "open"
  PROVE  Place'
BY DEF Place, Control, CurrentFile, Owing, Position, BetweenRecords, WithinRecord,
       Rolling, Newest, Total, Rec

LEMMA FreeNat ==
  ASSUME Inv, NEW id \in FreeIds
  PROVE  id \in Nat
<1>1. PICK t \in Ticks : id = clock + t BY DEF FreeIds
<1>2. t \in Nat BY WriterAssumption
<1>3. clock \in Nat BY DEF Inv, TypeOK
<1> QED BY <1>1, <1>2, <1>3

LEMMA CreateFailsKeeps ==
  ASSUME Inv, NEW id \in FreeIds, CreateFails(id)
  PROVE  Inv'
<1>1. id \in Nat BY FreeNat
<1>2. /\ RecordsKept
      /\ pc' \in {"down", "idle"} /\ why' = "none" /\ back' = "none" /\ off' = 0
  BY ErrorReturned DEF CreateFails, Creating
<1>3. FilesKept BY UnchangedKept DEF Inv, CreateFails
<1>4. FileInv' BY <1>2, <1>3, KeptFileInv DEF Inv
<1>5. TypeOK'
  BY <1>1, <1>2, <1>3 DEF Inv, TypeOK, CreateFails, Fault, FilesKept, RecordsKept
<1>6. Place'
  <2>1. cur' = 0 /\ files' = files /\ files \in Seq(File)
    BY DEF Inv, TypeOK, Place, CurrentFile, CreateFails, Creating
  <2>2. \A i \in 1 .. Len(files') : files'[i].state # "open"
    BY <2>1 DEF Inv, Place, CurrentFile, CreateFails
  <2> QED BY <1>2, <2>1, <2>2, ErrorPlace
<1> QED BY <1>4, <1>5, <1>6 DEF Inv

LEMMA HeaderFailsKeeps ==
  ASSUME Inv, NEW id \in FreeIds, HeaderFails(id)
  PROVE  Inv'
<1>1. id \in Nat BY FreeNat
<1>2. /\ RecordsKept
      /\ pc' \in {"down", "idle"} /\ why' = "none" /\ back' = "none" /\ off' = 0
  BY ErrorReturned DEF HeaderFails, Creating
<1>3. FileAdded(id, FALSE) BY <1>1 DEF FileAdded, HeaderFails
<1>4. /\ FileInv'
      /\ files' \in Seq(File) /\ Len(files') = Len(files) + 1
      /\ files'[Len(files) + 1] = NewFile(id, FALSE)
      /\ \A i \in 1 .. Len(files) : files'[i] = files[i]
  BY <1>2, <1>3, AddedFileInv DEF HeaderFails, Creating
<1>5. cur = 0 /\ cur' = 0 /\ Len(files) \in Nat /\ scan \subseteq 1 .. Len(files)
  BY DEF Inv, TypeOK, Place, CurrentFile, HeaderFails, Creating
<1>6. TypeOK'
  <2>1. scan' \subseteq 1 .. Len(files') BY <1>4, <1>5 DEF HeaderFails
  <2>2. {clock', sessionId', sequence', recordCount', left', off'} \subseteq Nat
    BY <1>1, <1>2 DEF Inv, TypeOK, HeaderFails
  <2>3. cur' \in 0 .. Len(files') BY <1>4, <1>5
  <2>4. {faults', lives', taken'} \subseteq Nat
    BY DEF Inv, TypeOK, HeaderFails, Fault
  <2> QED BY <1>2, <1>4, <2>1, <2>2, <2>3, <2>4 DEF TypeOK, RecordsKept
<1>7. Place'
  <2>1. NewFile(id, FALSE).state # "open" BY DEF NewFile
  <2>2. \A i \in 1 .. Len(files) : files[i].state # "open"
    BY <1>5 DEF Inv, Place, CurrentFile
  <2>3. \A i \in 1 .. Len(files') : i \in 1 .. Len(files) \/ i = Len(files) + 1
    BY <1>4, <1>5
  <2>4. \A i \in 1 .. Len(files') : files'[i].state # "open"
    BY <1>4, <2>1, <2>2, <2>3
  <2> QED BY <1>2, <1>4, <1>5, <2>4, ErrorPlace
<1> QED BY <1>4, <1>6, <1>7 DEF Inv

LEMMA CreateSegmentKeeps ==
  ASSUME Inv, NEW id \in FreeIds, CreateSegment(id)
  PROVE  Inv'
<1>1. id \in Nat BY FreeNat
<1>2. cur = 0 /\ pc \in {"open", "extend"} /\ Len(files) \in Nat
  BY DEF Inv, TypeOK, Place, CurrentFile, CreateSegment, Creating
<1>3. /\ RecordsKept /\ Len(records') = Len(records)
      /\ back \in {"build", "bytes"} => records' = records
  <2>1. CASE back = "error"
    <3>1. records # <<>> BY <2>1 DEF Inv, Place, Owing
    <3>2. SetStatus("failed") BY <2>1 DEF CreateSegment, Created
    <3>3. records \in Seq(Record) BY DEF Inv, TypeOK
    <3> QED BY <2>1, <3>1, <3>2, <3>3, StatusKept DEF Inv, SetStatus
  <2>2. CASE back # "error"
    BY <2>2, RecordsUnchanged DEF Inv, CreateSegment, Created
  <2> QED BY <2>1, <2>2
<1>4. FileAdded(id, TRUE) BY <1>1 DEF FileAdded, CreateSegment
<1>5. /\ FileInv'
      /\ files' \in Seq(File) /\ Len(files') = Len(files) + 1
      /\ files'[Len(files) + 1] = NewFile(id, TRUE)
      /\ \A i \in 1 .. Len(files) : files'[i] = files[i]
  BY <1>2, <1>3, <1>4, AddedFileInv
<1> DEFINE new == NewFile(id, TRUE)
<1>6. /\ new.data = <<>> /\ new.whole /\ new.seq = sequence /\ new.remaining = left
      /\ new.session = IF pc = "open" THEN id ELSE sessionId
  BY <1>1, FileMade DEF Inv
<1> HIDE DEF new
<1>7. files' # <<>> /\ Newest' = new
  BY <1>2, <1>5 DEF Newest, new
<1>8. back \in {"ready", "build", "bytes", "error"}
  BY <1>2 DEF Inv, TypeOK, Place, Control
<1>9. TypeOK'
  <2>1. scan' \subseteq 1 .. Len(files') /\ cur' \in 0 .. Len(files')
    BY <1>2, <1>5 DEF Inv, TypeOK, CreateSegment
  <2>2. {clock', sessionId', sequence', recordCount', left', off'} \subseteq Nat
    BY <1>1 DEF Inv, TypeOK, CreateSegment, Created, Return
  <2>3. /\ pc' \in {"idle", "build", "bytes"}
        /\ why' \in {"none", "roll", "session", "abandon"}
        /\ back' \in {"none", "ready", "build", "bytes", "error"}
    BY <1>8 DEF Inv, TypeOK, CreateSegment, Created, Return
  <2>4. {faults', lives', taken'} \subseteq Nat BY DEF Inv, TypeOK, CreateSegment
  <2> QED BY <1>3, <1>5, <2>1, <2>2, <2>3, <2>4 DEF TypeOK, RecordsKept
<1>10. Control'
  BY <1>2, <1>8 DEF Inv, Place, Control, CreateSegment, Created, Return
<1>11. CurrentFile'
  <2>1. pc' \in {"idle", "build", "bytes"}
    BY <1>8 DEF CreateSegment, Created, Return
  <2>2. \A i \in 1 .. Len(files') : i \in 1 .. Len(files) \/ i = Len(files) + 1
    BY <1>2, <1>5
  <2>3. cur' = Len(files') /\ cur' # 0 BY <1>2, <1>5 DEF CreateSegment
  <2>4. \A i \in 1 .. Len(files) : files[i].state # "open"
    BY <1>2 DEF Inv, Place, CurrentFile
  <2>5. \A i \in 1 .. Len(files') : files'[i].state = "open" => i = cur'
    BY <1>2, <1>5, <2>2, <2>3, <2>4
  <2> QED BY <2>1, <2>3, <2>5 DEF CurrentFile
<1>12. Owing'
  BY <1>2, <1>3, <1>8
  DEF Inv, Place, Owing, Total, Rec, CreateSegment, Created, Return
<1>13. Position'
  BY <1>2, <1>6, <1>7, <1>8
  DEF Inv, Place, Position, CreateSegment, Created, Return
<1>14. BetweenRecords'
  BY <1>2, <1>6, <1>7, <1>8, FormatAssumption
  DEF Inv, Place, BetweenRecords, Owing, Control, CreateSegment, Created, Return
<1>15. WithinRecord'
  <2> SUFFICES ASSUME pc' = "bytes" PROVE WithinRecord'
    BY DEF WithinRecord
  <2>1. back = "bytes" /\ off' = off /\ records' = records
    BY <1>3, <1>8 DEF CreateSegment, Created, Return
  <2>2. pc = "extend" BY <1>2, <2>1 DEF Inv, Place, Control
  <2>3. /\ files # <<>> /\ 0 < off /\ off < Total
        /\ Newest.data[DataLen] = <<Rec, off>>
    BY <2>1, <2>2 DEF Inv, Place, Rolling
  <2>4. left = Total - off BY <2>1 DEF Inv, Place, Owing
  <2>5. Total' = Total /\ Rec' = Rec BY <2>1 DEF Total, Rec
  <2>6. Total \in Nat /\ off \in Nat
    <3>1. records # <<>> BY <2>1 DEF Inv, Place, Owing
    <3>2. records \in Seq(Record) BY DEF Inv, TypeOK
    <3>3. records[Rec] \in Record BY <3>1, <3>2 DEF Rec
    <3>4. records[Rec].len \in Nat BY <3>3 DEF Record
    <3>5. off \in Nat BY DEF Inv, TypeOK
    <3> QED BY <3>4, <3>5, FormatAssumption DEF Total, TotalLen
  <2>7. left # 0 BY <2>3, <2>4, <2>6
  <2>8. Len(files) \in 1 .. Len(files) BY <1>2, <2>3 DEF Inv, TypeOK
  <2>9. files'[Len(files') - 1] = Newest BY <1>5, <2>8 DEF Newest
  <2>10. Len(files') > 1 BY <1>5, <2>8
  <2> QED BY <1>6, <1>7, <2>1, <2>3, <2>5, <2>6, <2>7, <2>9, <2>10 DEF WithinRecord
<1>16. Rolling'
  BY <1>2, <1>8 DEF Rolling, CreateSegment, Created, Return
<1> QED BY <1>5, <1>9, <1>10, <1>11, <1>12, <1>13, <1>14, <1>15, <1>16 DEF Inv, Place

\* What a closed file was, and that no file is open behind it.
LEMMA ClosedFile ==
  ASSUME Inv, cur # 0, NEW g, Touched(files[cur], g), g.state # "open",
         files' = [files EXCEPT ![cur] = g]
  PROVE  /\ FilesKept
         /\ \A i \in 1 .. Len(files') : files'[i].state # "open"
<1>1. cur \in 1 .. Len(files) /\ files \in Seq(File)
  BY DEF Inv, TypeOK
<1>2. FilesKept BY <1>1, TouchedKept DEF Inv
<1>3. files'[cur] = g BY <1>1
<1>4. \A i \in 1 .. Len(files) : files'[i].state = "open" => files[i].state = "open"
  BY <1>2 DEF FilesKept, Touched
<1>5. \A i \in 1 .. Len(files) : files[i].state = "open" => i = cur
  BY DEF Inv, Place, CurrentFile
<1> QED BY <1>2, <1>3, <1>4, <1>5 DEF FilesKept

\* The purpose of a close, followed by a further file or session.
LEMMA AfterClosePlace ==
  ASSUME Inv, pc = "close", AfterClose, FilesKept, cur' = 0, why' = "none",
         records' = records, off' = off, sessionId' = sessionId,
         \A i \in 1 .. Len(files') : files'[i].state # "open"
  PROVE  Place'
<1>1. cur # 0 /\ cur = Len(files) /\ files # <<>>
  BY DEF Inv, TypeOK, Place, CurrentFile
<1>2. /\ files' # <<>> /\ SameHeader(Newest, Newest') /\ Newest'.data = Newest.data
      /\ files' \in Seq(File)
  BY <1>1, KeptLast DEF Inv, FilesKept
<1>3. back \in {"build", "bytes", "error"}
  BY DEF Inv, TypeOK, Place, Control
<1>4. Total' = Total /\ Rec' = Rec BY DEF Total, Rec
<1>5. CASE why = "session"
  BY <1>2, <1>5
  DEF Inv, Place, Control, CurrentFile, Owing, Position, BetweenRecords,
      WithinRecord, Rolling, AfterClose, StartSession
<1>6. CASE why # "session"
  BY <1>1, <1>2, <1>3, <1>4, <1>6
  DEF Inv, Place, Control, CurrentFile, Owing, Position, BetweenRecords,
      WithinRecord, Rolling, AfterClose, Extend, SameHeader
<1> QED BY <1>5, <1>6

LEMMA CloseAndSendKeeps ==
  ASSUME Inv, CloseAndSend
  PROVE  Inv'
<1>1. cur \in 1 .. Len(files) /\ files \in Seq(File) /\ cur # 0
  BY DEF Inv, TypeOK, Place, CurrentFile, CloseAndSend
<1>2. files[cur] \in File BY <1>1
<1>3. PICK keep \in BOOLEAN : files' = [files EXCEPT ![cur] = Sent(files[cur], keep)]
  BY WriterAssumption DEF CloseAndSend
<1>4. /\ Touched(files[cur], Sent(files[cur], keep))
      /\ Sent(files[cur], keep).state # "open"
  BY <1>2, FileTouched DEF Sent, File
<1>5. /\ FilesKept
      /\ \A i \in 1 .. Len(files') : files'[i].state # "open"
  BY <1>1, <1>3, <1>4, ClosedFile
<1>6. FileInv' BY <1>5, KeptFileInv, RecordsUnchanged DEF Inv, CloseAndSend
<1>7. TypeOK'
  <2>1. {sequence', recordCount', left'} \subseteq Nat
    <3>1. SeqNext(sequence) \in Nat BY Successor DEF Inv, TypeOK
    <3> QED
      BY <3>1 DEF Inv, TypeOK, CloseAndSend, AfterClose, StartSession, Extend
  <2>2. /\ pc' \in {"open", "extend"} /\ why' = "none"
        /\ back' \in {"none", "ready", "build", "bytes", "error"}
    BY DEF Inv, TypeOK, CloseAndSend, AfterClose, StartSession, Extend
  <2> QED BY <1>5, <2>1, <2>2 DEF Inv, TypeOK, CloseAndSend, FilesKept
<1>8. Place' BY <1>5, AfterClosePlace DEF CloseAndSend
<1> QED BY <1>6, <1>7, <1>8 DEF Inv

LEMMA CloseFailsKeeps ==
  ASSUME Inv, CloseFails
  PROVE  Inv'
<1>1. cur \in 1 .. Len(files) /\ files \in Seq(File) /\ cur # 0
  BY DEF Inv, TypeOK, Place, CurrentFile, CloseFails
<1>2. files[cur] \in File BY <1>1
<1>3. PICK s \in {"closed", "refused"} :
        files' = [files EXCEPT ![cur] = Ended(files[cur], s)]
  BY DEF CloseFails
<1>4. /\ Touched(files[cur], Ended(files[cur], s))
      /\ Ended(files[cur], s).state # "open"
  BY <1>2, FileTouched DEF Ended, File
<1>5. /\ FilesKept
      /\ \A i \in 1 .. Len(files') : files'[i].state # "open"
  BY <1>1, <1>3, <1>4, ClosedFile
<1>6. CASE why = "abandon"
  <2>1. FileInv' BY <1>5, <1>6, KeptFileInv, RecordsUnchanged DEF Inv, CloseFails
  <2>2. {sequence', recordCount', left'} \subseteq Nat
    BY <1>6, Successor DEF Inv, TypeOK, CloseFails, AfterClose, Extend
  <2>3. /\ pc' = "extend" /\ why' = "none"
        /\ back' \in {"none", "ready", "build", "bytes", "error"}
    BY <1>6 DEF Inv, TypeOK, CloseFails, AfterClose, Extend
  <2>4. TypeOK'
    <3>1. files' \in Seq(File) /\ Len(files') \in Nat BY <1>5 DEF FilesKept
    <3>2. /\ records' = records /\ off' = off /\ clock' = clock
          /\ sessionId' = sessionId /\ scan' = scan /\ lives' = lives /\ taken' = taken
          /\ cur' = 0 /\ faults' = faults + 1
      BY <1>6 DEF CloseFails, Fault
    <3>3. /\ records \in Seq(Record) /\ scan \subseteq 1 .. Len(files)
          /\ {clock, sessionId, off, faults, lives, taken} \subseteq Nat
      BY DEF Inv, TypeOK
    <3>4. Len(files') = Len(files) BY <1>5 DEF FilesKept
    <3>5. cur' \in 0 .. Len(files') /\ {faults', lives', taken'} \subseteq Nat
      BY <3>1, <3>2, <3>3
    <3>6. {clock', sessionId', sequence', recordCount', left', off'} \subseteq Nat
      BY <2>2, <3>2, <3>3
    <3> QED BY <2>3, <3>1, <3>2, <3>3, <3>4, <3>5, <3>6 DEF TypeOK
  <2>5. Place' BY <1>5, <1>6, AfterClosePlace DEF CloseFails
  <2> QED BY <2>1, <2>4, <2>5 DEF Inv
<1>7. CASE why # "abandon"
  <2>1. /\ RecordsKept
        /\ pc' \in {"down", "idle"} /\ why' = "none" /\ back' = "none" /\ off' = 0
    BY <1>7, ErrorReturned DEF CloseFails
  <2>2. FileInv' BY <1>5, <2>1, KeptFileInv DEF Inv
  <2>3. TypeOK'
    <3>1. /\ files' \in Seq(File) /\ Len(files') \in Nat /\ Len(files') = Len(files)
          /\ records' \in Seq(Record)
      BY <1>5, <2>1 DEF FilesKept, RecordsKept
    <3>2. /\ sequence' = sequence /\ recordCount' = recordCount /\ left' = left
          /\ clock' = clock /\ sessionId' = sessionId /\ scan' = scan
          /\ lives' = lives /\ taken' = taken /\ cur' = 0 /\ faults' = faults + 1
      BY <1>7 DEF CloseFails, Fault
    <3>3. /\ scan \subseteq 1 .. Len(files)
          /\ {clock, sessionId, sequence, recordCount, left, faults, lives, taken}
               \subseteq Nat
      BY DEF Inv, TypeOK
    <3>4. /\ cur' \in 0 .. Len(files') /\ {faults', lives', taken'} \subseteq Nat
          /\ {clock', sessionId', sequence', recordCount', left', off'} \subseteq Nat
      BY <2>1, <3>1, <3>2, <3>3
    <3> QED BY <2>1, <3>1, <3>2, <3>3, <3>4 DEF TypeOK
  <2>4. Place' BY <1>5, <2>1, ErrorPlace DEF CloseFails, FilesKept
  <2> QED BY <2>2, <2>3, <2>4 DEF Inv
<1> QED BY <1>6, <1>7

LEMMA BeginWriteKeeps ==
  ASSUME Inv, NEW n \in Lens, BeginWrite(n)
  PROVE  Inv'
<1>1. records \in Seq(Record) BY DEF Inv, TypeOK
<1> DEFINE r == [len |-> n, count |-> 0, status |-> "writing"]
<1>2. r \in Record BY WriterAssumption DEF Record
<1>3. /\ records' \in Seq(Record) /\ Len(records') = Len(records) + 1
      /\ \A i \in 1 .. Len(records) : records'[i] = records[i]
  <2>1. records' = Append(records, r) BY DEF BeginWrite
  <2> HIDE DEF r
  <2> QED BY <1>1, <1>2, <2>1, Appended
<1>4. RecordsKept BY <1>1, <1>3 DEF RecordsKept
<1>5. FilesKept BY UnchangedKept DEF Inv, BeginWrite
<1>6. FileInv' BY <1>4, <1>5, KeptFileInv DEF Inv
<1>7. TypeOK'
  BY <1>3 DEF Inv, TypeOK, BeginWrite, StartSession
<1>8. records' # <<>> BY <1>1, <1>3
<1>9. cur # 0 => cur = Len(files) /\ files[cur].data \in Seq(Byte)
  <2>1. files \in Seq(File) /\ cur \in 0 .. Len(files) BY DEF Inv, TypeOK
  <2>2. cur # 0 => files[cur] \in File BY <2>1
  <2>3. cur # 0 => cur = Len(files) BY DEF Inv, Place, CurrentFile
  <2> QED BY <2>2, <2>3 DEF File
<1>10. Place'
  <2>1. pc' = "build" => Len(Newest'.data) < DataLen
    BY <1>9, FormatAssumption DEF Inv, FileInv, Contents, Room, Newest, BeginWrite, StartSession
  <2> QED
    BY <1>8, <2>1 DEF Inv, Place, Control, CurrentFile, Owing, Position,
       BetweenRecords, WithinRecord, Rolling, Newest, BeginWrite, StartSession
<1> QED BY <1>6, <1>7, <1>10 DEF Inv

\* The record in progress has a length.
LEMMA TotalNat ==
  ASSUME TypeOK, records # <<>>
  PROVE  Rec \in 1 .. Len(records) /\ Total \in Nat /\ Total >= HeaderLen
<1>1. records \in Seq(Record) BY DEF TypeOK
<1>2. Rec \in 1 .. Len(records) BY <1>1 DEF Rec
<1>3. records[Rec] \in Record BY <1>1, <1>2
<1>4. records[Rec].len \in Nat BY <1>3 DEF Record
<1> QED BY <1>2, <1>4, FormatAssumption DEF Total, TotalLen

LEMMA BuildDataHeaderKeeps ==
  ASSUME Inv, BuildDataHeader
  PROVE  Inv'
<1>1. records # <<>> /\ off = 0 /\ cur # 0 /\ cur = Len(files)
  BY DEF Inv, Place, Control, CurrentFile, Owing, BuildDataHeader
<1>2. records \in Seq(Record) /\ recordCount \in Nat BY DEF Inv, TypeOK
<1>3. Rec \in 1 .. Len(records) /\ Total \in Nat
  BY <1>1, TotalNat DEF Inv
<1>4. RecordsKept /\ Len(records') = Len(records)
  <2>1. CASE Format = "tsrc"
    <3> DEFINE g == [records[Rec] EXCEPT !.count = recordCount + 1]
    <3>1. records[Rec] \in Record BY <1>2, <1>3
    <3>2. g \in Record /\ g.len = records[Rec].len
      <4>1. recordCount + 1 \in Nat BY <1>2
      <4>2. g.len = records[Rec].len BY <3>1 DEF Record
      <4> QED BY <3>1, <4>1, <4>2 DEF Record
    <3>3. records' = [records EXCEPT ![Rec] = g] BY <2>1 DEF BuildDataHeader
    <3> HIDE DEF g
    <3>4. /\ records' \in Seq(Record) /\ Len(records') = Len(records)
          /\ records'[Rec] = g
          /\ \A i \in 1 .. Len(records) : i # Rec => records'[i] = records[i]
      BY <1>2, <1>3, <3>2, <3>3, Replaced
    <3> QED BY <3>2, <3>4 DEF RecordsKept
  <2>2. CASE Format # "tsrc"
    BY <2>2, RecordsUnchanged DEF Inv, BuildDataHeader
  <2> QED BY <2>1, <2>2
<1>5. FilesKept BY UnchangedKept DEF Inv, BuildDataHeader
<1>6. FileInv' BY <1>4, <1>5, KeptFileInv DEF Inv
<1>7. Total' = Total /\ Rec' = Rec
  BY <1>3, <1>4 DEF Total, Rec, RecordsKept
<1>8. TypeOK'
  <2>1. recordCount' \in Nat BY <1>2 DEF BuildDataHeader
  <2> QED BY <1>3, <1>4, <2>1 DEF Inv, TypeOK, BuildDataHeader, RecordsKept
<1>9. records' # <<>> BY <1>2, <1>3, <1>4
<1>10. Place'
  BY <1>1, <1>3, <1>7, <1>9
  DEF Inv, Place, Control, CurrentFile, Owing, Position, BetweenRecords,
      WithinRecord, Rolling, Newest, BuildDataHeader
<1> QED BY <1>6, <1>8, <1>10 DEF Inv

LEMMA RollWithinKeeps ==
  ASSUME Inv, RollWithin
  PROVE  Inv'
<1>1. FilesKept /\ RecordsKept
  BY UnchangedKept, RecordsUnchanged DEF Inv, RollWithin
<1>2. FileInv' BY <1>1, KeptFileInv DEF Inv
<1>3. TypeOK' BY DEF Inv, TypeOK, RollWithin
<1>4. pc = "bytes" /\ back = "bytes" /\ cur # 0 /\ cur = Len(files)
  BY DEF Inv, Place, Control, CurrentFile, RollWithin, Storing
<1>5. files \in Seq(File) /\ files[cur] \in File /\ files # <<>>
  <2>1. files \in Seq(File) /\ cur \in 0 .. Len(files) BY DEF Inv, TypeOK
  <2> QED BY <1>4, <2>1
<1>6. Newest.data \in Seq(Byte) BY <1>4, <1>5 DEF Newest, File
<1>7. Len(Newest.data) = DataLen
  BY <1>4, <1>6, FormatAssumption DEF RollWithin, Room, Newest
<1>8. /\ off # 0 /\ Newest.data[DataLen] = <<Rec, off>>
  BY <1>4, <1>6, <1>7, FormatAssumption DEF Inv, Place, WithinRecord
<1>9. 0 < off /\ off < Total
  BY <1>8 DEF Inv, TypeOK, RollWithin, Storing
<1>10. Place'
  BY <1>4, <1>5, <1>7, <1>8, <1>9
  DEF Inv, Place, Control, CurrentFile, Owing, Position, BetweenRecords,
      WithinRecord, Rolling, Newest, Total, Rec, RollWithin
<1> QED BY <1>2, <1>3, <1>10 DEF Inv

LEMMA DropKeeps ==
  ASSUME Inv, Drop
  PROVE  Inv'
<1>1. /\ files \in Seq(File) /\ cur \in 0 .. Len(files)
      /\ \A i \in 1 .. Len(files) : files[i].state = "open" => i = cur
  BY DEF Inv, TypeOK, Place, CurrentFile
<1>2. /\ FilesKept
      /\ \A i \in 1 .. Len(files') : files'[i].state # "open"
  <2>1. CASE cur = 0
    <3>1. files' = files BY <2>1 DEF Drop
    <3> QED BY <1>1, <2>1, <3>1, UnchangedKept DEF Inv
  <2>2. CASE cur # 0
    <3>1. files[cur] \in File BY <1>1, <2>2
    <3>2. PICK g : /\ Touched(files[cur], g) /\ g.state # "open"
                   /\ files' = [files EXCEPT ![cur] = g]
      <4>1. \A keep \in KeepSent : /\ Touched(files[cur], Sent(files[cur], keep))
                                   /\ Sent(files[cur], keep).state # "open"
        BY <3>1, FileTouched, WriterAssumption DEF Sent, File
      <4>2. \A s \in {"closed", "refused"} :
               /\ Touched(files[cur], Ended(files[cur], s))
               /\ Ended(files[cur], s).state # "open"
        BY <3>1, FileTouched DEF Ended, File
      <4> QED BY <2>2, <4>1, <4>2 DEF Drop
    <3> QED BY <2>2, <3>2, ClosedFile
  <2> QED BY <2>1, <2>2
<1>3. FileInv' BY <1>2, KeptFileInv, RecordsUnchanged DEF Inv, Drop
<1>4. faults' \in Nat BY DEF Inv, TypeOK, Drop, Fault
<1>5. TypeOK' BY <1>2, <1>4 DEF Inv, TypeOK, Drop, Return, FilesKept
<1>6. Place' BY <1>2, ErrorPlace DEF Drop, Return, FilesKept
<1> QED BY <1>3, <1>5, <1>6 DEF Inv

LEMMA RecordCompleteKeeps ==
  ASSUME Inv, RecordComplete
  PROVE  Inv'
<1>1. records # <<>> /\ back = "bytes" /\ cur # 0 /\ cur = Len(files)
  BY DEF Inv, Place, Control, CurrentFile, Owing, RecordComplete
<1>2. RecordsKept BY <1>1, StatusKept DEF Inv, RecordComplete
<1>3. FilesKept BY UnchangedKept DEF Inv, RecordComplete
<1>4. FileInv' BY <1>2, <1>3, KeptFileInv DEF Inv
<1>5. TypeOK'
  BY <1>2 DEF Inv, TypeOK, RecordComplete, Return, RecordsKept, Fault
<1>6. Total \in Nat BY <1>1, TotalNat DEF Inv
<1>7. left = 0 BY <1>1, <1>6 DEF Inv, Place, Owing, RecordComplete
<1>8. Newest.data = <<>> => Newest.remaining = 0
  BY <1>6 DEF Inv, Place, WithinRecord, RecordComplete
<1>9. Place'
  BY <1>1, <1>7, <1>8
  DEF Inv, Place, Control, CurrentFile, Owing, Position, BetweenRecords,
      WithinRecord, Rolling, Newest, RecordComplete, Return
<1> QED BY <1>4, <1>5, <1>9 DEF Inv

LEMMA TimestampFailsKeeps ==
  ASSUME Inv, TimestampFails
  PROVE  Inv'
<1>1. records # <<>> /\ back = "build" /\ cur # 0 /\ left = 0
  BY DEF Inv, Place, Control, CurrentFile, Owing, TimestampFails
<1>2. RecordsKept BY <1>1, StatusKept DEF Inv, TimestampFails
<1>3. FilesKept BY UnchangedKept DEF Inv, TimestampFails
<1>4. FileInv' BY <1>2, <1>3, KeptFileInv DEF Inv
<1>5. TypeOK'
  BY <1>2 DEF Inv, TypeOK, TimestampFails, Return, RecordsKept, Fault
<1>6. Place'
  BY <1>1
  DEF Inv, Place, Control, CurrentFile, Owing, Position, BetweenRecords,
      WithinRecord, Rolling, Newest, TimestampFails, Return
<1> QED BY <1>4, <1>5, <1>6 DEF Inv

\* The newest file, when it is the one that grew.
LEMMA PieceLast ==
  ASSUME Inv, pc = "bytes", NEW n \in Nat, PieceAdded(n)
  PROVE  /\ cur # 0 /\ cur = Len(files) /\ Len(files') = Len(files)
         /\ SameHeader(Newest, Newest')
         /\ Len(Newest.data) \in Nat /\ Len(Newest'.data) = Len(Newest.data) + n
         /\ n > 0 => Newest'.data[Len(Newest'.data)] = <<Rec, off + n>>
         /\ \A i \in 1 .. Len(files') : files'[i].state = "open" => i = cur
<1>1. /\ files \in Seq(File) /\ off \in Nat /\ cur # 0 /\ cur = Len(files)
      /\ cur \in 1 .. Len(files) /\ records # <<>>
  BY DEF Inv, TypeOK, Place, Control, CurrentFile, Owing
<1>2. Rec \in Nat BY <1>1, TotalNat DEF Inv
<1> DEFINE b == BytesOf(Rec, off, off + n)
<1>3. Len(b) = n /\ \A i \in 1 .. n : b[i] = <<Rec, off + i>>
  BY <1>1, <1>2, BytesOfPiece
<1>4. Grown(files[cur], files'[cur], b) BY DEF PieceAdded
<1> HIDE DEF b
<1>5. files[cur] \in File BY <1>1
<1>6. Len(files[cur].data) \in Nat BY <1>5 DEF File
<1>7. Newest = files[cur] /\ Newest' = files'[cur] BY <1>1 DEF Newest, PieceAdded
<1>8. n > 0 => Newest'.data[Len(Newest'.data)] = <<Rec, off + n>>
  BY <1>3, <1>4, <1>7 DEF Grown
<1>9. \A i \in 1 .. Len(files') : files'[i].state = "open" => i = cur
  BY <1>1 DEF PieceAdded, Inv, Place, CurrentFile
<1> QED BY <1>1, <1>3, <1>4, <1>6, <1>7, <1>8, <1>9 DEF Grown, PieceAdded

\* A piece fits in the file and in the record.
LEMMA TakeFits ==
  ASSUME Inv, Storing, cur # 0
  PROVE  /\ Room \in Nat /\ Take \in Nat /\ Take <= Room /\ off + Take <= Total
         /\ Room > 0 => Take > 0
<1>1. Total \in Nat /\ Total >= HeaderLen /\ off \in Nat
  BY TotalNat DEF Inv, TypeOK, Place, Control, Owing, Storing
<1>2. PartEnd \in Nat /\ off < PartEnd /\ PartEnd <= Total
  BY <1>1, FormatAssumption DEF PartEnd, Storing
<1>3. Room \in Nat
  <2>1. /\ files \in Seq(File) /\ cur \in 1 .. Len(files)
    BY DEF Inv, TypeOK
  <2>2. files[cur] \in File BY <2>1
  <2>3. Len(files[cur].data) \in Nat BY <2>2 DEF File
  <2>4. Len(files[cur].data) <= DataLen BY <2>1 DEF Inv, FileInv, Contents
  <2> QED BY <2>3, <2>4, FormatAssumption DEF Room
<1> QED BY <1>1, <1>2, <1>3 DEF Take, Lesser

LEMMA WriteChunkKeeps ==
  ASSUME Inv, WriteChunk
  PROVE  Inv'
<1>1. /\ pc = "bytes" /\ back = "bytes" /\ cur # 0 /\ records # <<>>
      /\ off \in Nat
  BY DEF Inv, TypeOK, Place, Control, CurrentFile, Owing, WriteChunk, Storing
<1>2. /\ Take \in Nat /\ Take <= Room /\ off + Take <= Total /\ Take > 0
  BY <1>1, TakeFits DEF WriteChunk
<1>3. PieceAdded(Take) BY <1>1, <1>2, PieceKept DEF Inv, WriteChunk
<1>4. RecordsKept BY RecordsUnchanged DEF Inv, WriteChunk
<1>5. FileInv' BY <1>1, <1>2, <1>3, <1>4, PieceFileInv
<1>6. Total \in Nat BY <1>1, TotalNat DEF Inv
<1>7. Total' = Total /\ Rec' = Rec BY DEF Total, Rec, WriteChunk
<1>8. left' = Total - off' /\ off' <= Total /\ off' \in Nat /\ off' # 0
  BY <1>1, <1>2, <1>6 DEF Inv, Place, Owing, WriteChunk
<1>9. TypeOK'
  <2>1. \A t, o \in Nat : o <= t => t - o \in Nat OBVIOUS
  <2>2. left' \in Nat BY <1>6, <1>8, <2>1
  <2> QED BY <1>3, <1>8, <2>2 DEF Inv, TypeOK, WriteChunk, PieceAdded
<1>10. /\ cur = Len(files) /\ Len(files') = Len(files)
       /\ SameHeader(Newest, Newest') /\ Newest'.data # <<>>
       /\ Newest'.data[Len(Newest'.data)] = <<Rec, off'>>
       /\ \A i \in 1 .. Len(files') : files'[i].state = "open" => i = cur
  BY <1>1, <1>2, <1>3, PieceLast DEF WriteChunk
<1>11. WithinRecord' BY <1>7, <1>8, <1>10 DEF WithinRecord
<1>12. CurrentFile' BY <1>10 DEF Inv, Place, CurrentFile, WriteChunk
<1>13. Position' BY <1>1, <1>10 DEF Inv, Place, Position, SameHeader, WriteChunk
<1>14. Place'
  BY <1>1, <1>7, <1>8, <1>11, <1>12, <1>13
  DEF Inv, Place, Control, Owing, BetweenRecords, Rolling, WriteChunk
<1> QED BY <1>5, <1>9, <1>14 DEF Inv

LEMMA ChunkFailsKeeps ==
  ASSUME Inv, NEW n \in 0 .. DataLen, ChunkFails(n)
  PROVE  Inv'
<1>1. /\ pc = "bytes" /\ back = "bytes" /\ cur # 0 /\ records # <<>>
      /\ off \in Nat /\ n \in Nat
  BY FormatAssumption
  DEF Inv, TypeOK, Place, Control, CurrentFile, Owing, ChunkFails, Storing
<1>2. n <= Room
  <2>1. Room \in Nat /\ Take \in Nat /\ Take <= Room
    BY <1>1, TakeFits DEF ChunkFails
  <2> QED BY <1>1, <2>1 DEF ChunkFails
<1>3. PieceAdded(n) BY <1>1, PieceKept DEF Inv, ChunkFails
<1>4. RecordsKept BY RecordsUnchanged DEF Inv, ChunkFails
<1>5. FileInv' BY <1>1, <1>2, <1>3, <1>4, PieceFileInv
<1>6. TypeOK' BY <1>3 DEF Inv, TypeOK, ChunkFails, PieceAdded, Fault
<1>7. /\ cur = Len(files) /\ Len(files') = Len(files)
      /\ SameHeader(Newest, Newest')
      /\ \A i \in 1 .. Len(files') : files'[i].state = "open" => i = cur
  BY <1>1, <1>3, PieceLast
<1>8. Place'
  BY <1>1, <1>7
  DEF Inv, Place, Control, CurrentFile, Owing, Position, BetweenRecords,
      WithinRecord, Rolling, SameHeader, ChunkFails
<1> QED BY <1>5, <1>6, <1>8 DEF Inv

\* A step that moves nothing but files whose headers and data it keeps.
LEMMA KeptPlace ==
  ASSUME Inv, FilesKept,
         UNCHANGED <<records, cur, sessionId, sequence, left, pc, why, back, off>>
  PROVE  Place'
BY KeptLast DEF Inv, Place, Control, CurrentFile, Owing, Position, BetweenRecords,
   WithinRecord, Rolling, Total, Rec, FilesKept, Touched, SameHeader

LEMMA BeginClearKeeps ==
  ASSUME Inv, BeginClear
  PROVE  Inv'
<1>1. /\ files \in Seq(File) /\ cur \in 0 .. Len(files)
      /\ \A i \in 1 .. Len(files) : files[i].state = "open" => i = cur
  BY DEF Inv, TypeOK, Place, CurrentFile
<1>2. /\ FilesKept
      /\ \A i \in 1 .. Len(files') : files'[i].state # "open"
  <2>1. CASE cur = 0
    <3>1. files' = files BY <2>1 DEF BeginClear
    <3> QED BY <1>1, <2>1, <3>1, UnchangedKept DEF Inv
  <2>2. CASE cur # 0
    <3>1. files[cur] \in File BY <1>1, <2>2
    <3>2. /\ Touched(files[cur], Ended(files[cur], "closed"))
          /\ Ended(files[cur], "closed").state # "open"
      BY <3>1, FileTouched DEF Ended, File
    <3>3. files' = [files EXCEPT ![cur] = Ended(files[cur], "closed")]
      BY <2>2 DEF BeginClear
    <3> QED BY <2>2, <3>2, <3>3, ClosedFile
  <2> QED BY <2>1, <2>2
<1>3. FileInv' BY <1>2, KeptFileInv, RecordsUnchanged DEF Inv, BeginClear
<1>4. TypeOK' BY <1>2 DEF Inv, TypeOK, BeginClear, Present, FilesKept
<1>5. why' = "none" /\ back' = "none" /\ off' = 0
  BY DEF Inv, Place, Control, Owing, BeginClear
<1>6. Place' BY <1>2, <1>5, ErrorPlace DEF BeginClear, FilesKept
<1> QED BY <1>3, <1>4, <1>6 DEF Inv

\* clear() has no file open, and stays in its loop or ends.
LEMMA ClearingPlace ==
  ASSUME Inv, pc = "clear", FilesKept, pc' \in {"idle", "clear"},
         UNCHANGED <<cur, why, back, off>>
  PROVE  Place'
<1>1. why' = "none" /\ back' = "none" /\ off' = 0 /\ cur' = 0
  BY DEF Inv, Place, Control, CurrentFile, Owing
<1>2. \A i \in 1 .. Len(files') : files'[i].state # "open"
  BY DEF Inv, Place, CurrentFile, FilesKept, Touched
<1> QED BY <1>1, <1>2, ErrorPlace DEF FilesKept

LEMMA ClearStepKeeps ==
  ASSUME Inv, NEW i \in scan, ClearStep(i)
  PROVE  Inv'
<1>1. i \in 1 .. Len(files) /\ files \in Seq(File) BY DEF Inv, TypeOK
<1>2. files[i] \in File BY <1>1
<1>3. FilesKept
  <2>1. CASE files' = files BY <2>1, UnchangedKept DEF Inv
  <2>2. CASE files' # files
    <3>1. files' = [files EXCEPT ![i] = Gone(files[i])]
      BY <2>2 DEF ClearStep
    <3> QED BY <1>1, <1>2, <3>1, FileTouched, TouchedKept DEF Inv
  <2> QED BY <2>1, <2>2
<1>4. FileInv' BY <1>3, KeptFileInv, RecordsUnchanged DEF Inv, ClearStep
<1>5. faults' \in Nat /\ scan' \subseteq scan /\ pc' \in {"idle", "clear"}
  <2>1. faults \in Nat BY DEF Inv, TypeOK
  <2> QED BY <2>1 DEF ClearStep, Fault
<1>6. TypeOK' BY <1>3, <1>5 DEF Inv, TypeOK, ClearStep, FilesKept
<1>7. Place' BY <1>3, <1>5, ClearingPlace DEF ClearStep
<1> QED BY <1>4, <1>6, <1>7 DEF Inv

LEMMA ClearDoneKeeps ==
  ASSUME Inv, ClearDone
  PROVE  Inv'
<1>1. FilesKept BY UnchangedKept DEF Inv, ClearDone
<1>2. FileInv' BY <1>1, KeptFileInv, RecordsUnchanged DEF Inv, ClearDone
<1>3. TypeOK' BY DEF Inv, TypeOK, ClearDone
<1>4. Place' BY <1>1, ClearingPlace DEF ClearDone
<1> QED BY <1>2, <1>3, <1>4 DEF Inv

LEMMA TakeAwayKeeps ==
  ASSUME Inv, NEW i \in Present, TakeAway(i)
  PROVE  Inv'
<1>1. i \in 1 .. Len(files) /\ files \in Seq(File) BY DEF Inv, TypeOK, Present
<1>2. files[i] \in File BY <1>1
<1>3. FilesKept
  BY <1>1, <1>2, FileTouched, TouchedKept DEF Inv, TakeAway
<1>4. FileInv' BY <1>3, KeptFileInv, RecordsUnchanged DEF Inv, TakeAway
<1>5. TypeOK' BY <1>3 DEF Inv, TypeOK, TakeAway, FilesKept
<1>6. Place' BY <1>3, KeptPlace DEF TakeAway
<1> QED BY <1>4, <1>5, <1>6 DEF Inv

LEMMA NothingHappens ==
  ASSUME Inv, UNCHANGED wvars
  PROVE  Inv'
<1>1. FilesKept BY UnchangedKept DEF Inv, wvars
<1>2. FileInv' BY <1>1, KeptFileInv, RecordsUnchanged DEF Inv, wvars
<1>3. TypeOK' BY DEF Inv, TypeOK, wvars
<1>4. Place' BY <1>1, KeptPlace DEF wvars
<1> QED BY <1>2, <1>3, <1>4 DEF Inv

LEMMA Joined ==
  ASSUME NEW S, NEW s \in Seq(S)
  PROVE  s \o <<>> = s /\ \A f \in S : s \o <<f>> = Append(s, f)
OBVIOUS

\* What a crash leaves of the records: the one in progress has failed.
LEMMA CrashRecords ==
  ASSUME TypeOK, NEW n, Crash(n)
  PROVE  RecordsKept
<1>1. records \in Seq(Record) BY DEF TypeOK
<1> DEFINE after(r) == IF records[r].status = "writing"
                       THEN [records[r] EXCEPT !.status = "failed"]
                       ELSE records[r]
<1>2. records' = [r \in 1 .. Len(records) |-> after(r)]
  BY <1>1 DEF Crash
<1>3. \A r \in 1 .. Len(records) :
        after(r) \in Record /\ after(r).len = records[r].len
  <2> TAKE r \in 1 .. Len(records)
  <2>1. records[r] \in Record BY <1>1
  <2> QED BY <2>1 DEF Record
<1> HIDE DEF after
<1>4. /\ records' \in Seq(Record) /\ Len(records') = Len(records)
      /\ \A r \in 1 .. Len(records) : records'[r] = after(r)
  BY <1>1, <1>2, <1>3
<1> QED BY <1>1, <1>3, <1>4 DEF RecordsKept

\* What a crash leaves of the files: the open one closed, with some of the
\* piece being written at its end; or a new file without a header; or nothing.
LEMMA CrashFiles ==
  ASSUME Inv, NEW n \in 0 .. DataLen, Crash(n)
  PROVE  /\ FileInv' /\ files' \in Seq(File) /\ Len(files') >= Len(files)
         /\ \A i \in 1 .. Len(files') : files'[i].state # "open"
<1>1. /\ files \in Seq(File) /\ cur \in 0 .. Len(files) /\ off \in Nat /\ n \in Nat
      /\ \A i \in 1 .. Len(files) : files[i].state = "open" => i = cur
  BY FormatAssumption DEF Inv, TypeOK, Place, CurrentFile
<1>2. RecordsKept BY CrashRecords DEF Inv
<1>3. CASE cur = 0
  <2>1. PICK orphan \in {<<>>} \cup
                        (IF Creating THEN {<<NewFile(id, FALSE)>> : id \in FreeIds}
                                     ELSE {}) :
          files' = files \o orphan
    BY <1>3 DEF Crash
  <2>2. CASE orphan = <<>>
    <3>1. files' = files BY <1>1, <2>1, <2>2, Joined
    <3>2. FilesKept BY <3>1, UnchangedKept DEF Inv
    <3> QED BY <1>1, <1>2, <1>3, <3>1, <3>2, KeptFileInv DEF Inv
  <2>3. CASE orphan # <<>>
    <3>1. /\ pc \in {"open", "extend"}
          /\ \E id \in FreeIds : orphan = <<NewFile(id, FALSE)>>
      BY <2>3 DEF Creating
    <3>2. PICK id \in FreeIds : orphan = <<NewFile(id, FALSE)>> BY <3>1
    <3>3. id \in Nat BY FreeNat
    <3>4. NewFile(id, FALSE) \in File BY <3>3, FileMade DEF Inv
    <3>5. FileAdded(id, FALSE)
      BY <1>1, <2>1, <3>2, <3>3, <3>4, Joined DEF FileAdded
    <3>6. /\ FileInv'
          /\ files' \in Seq(File) /\ Len(files') = Len(files) + 1
          /\ files'[Len(files) + 1] = NewFile(id, FALSE)
          /\ \A i \in 1 .. Len(files) : files'[i] = files[i]
      BY <1>2, <3>1, <3>5, AddedFileInv
    <3>7. NewFile(id, FALSE).state # "open" BY DEF NewFile
    <3>8. \A i \in 1 .. Len(files') : i \in 1 .. Len(files) \/ i = Len(files) + 1
      BY <1>1, <3>6
    <3>9. \A i \in 1 .. Len(files) : files[i].state # "open"
      BY <1>1, <1>3
    <3>10. \A i \in 1 .. Len(files') : files'[i].state # "open"
      BY <3>6, <3>7, <3>8, <3>9
    <3>11. Len(files') >= Len(files) BY <1>1, <3>6
    <3> QED BY <3>6, <3>10, <3>11
  <2> QED BY <2>2, <2>3
<1>4. CASE cur # 0
  <2> DEFINE f == files[cur]
             g == Extended(f, BytesOf(Rec, off, off + n))
  <2>1. f \in File BY <1>1, <1>4
  <2>2. files' = [files EXCEPT ![cur] = Ended(g, "closed")]
    BY <1>4 DEF Crash
  <2>3. PieceAdded(n) BY <1>1, <1>4, <2>2, PieceKept DEF Inv
  <2>4. files'[cur].state # "open"
    <3>1. files'[cur] = Ended(g, "closed") BY <1>1, <1>4, <2>2
    <3>2. Rec \in Nat
      <4>1. records \in Seq(Record) BY DEF Inv, TypeOK
      <4> QED BY <4>1 DEF Rec
    <3>3. BytesOf(Rec, off, off + n) \in Seq(Byte) BY <1>1, <3>2, BytesOfPiece
    <3>4. Grown(f, g, BytesOf(Rec, off, off + n)) BY <2>1, <3>3, FileGrown
    <3>5. g \in File BY <3>4 DEF Grown
    <3>6. Ended(g, "closed").state = "closed"
      <4> HIDE DEF g
      <4> QED BY <3>5 DEF Ended, File
    <3> QED BY <3>1, <3>6
  <2>5. \A i \in 1 .. Len(files) : i # cur => files'[i].state # "open"
    BY <1>1, <2>3 DEF PieceAdded
  <2>6. FileInv'
    <3>1. CASE Storing
      <4>1. n <= Take /\ Take \in Nat /\ Room \in Nat /\ Take <= Room
        BY <1>4, <3>1, TakeFits DEF Crash
      <4>2. n <= Room BY <1>1, <4>1
      <4> QED BY <1>2, <2>3, <3>1, <4>2, <1>1, PieceFileInv DEF Storing
    <3>2. CASE ~ Storing
      <4>1. n = 0 BY <1>1, <3>2 DEF Crash
      <4>2. Touched(files[cur], files'[cur])
        <5> DEFINE b == BytesOf(Rec, off, off + n)
                   h == files'[cur]
        <5>1. Grown(f, h, b) BY <2>3 DEF PieceAdded
        <5>2. Len(b) = 0 BY <1>1, <4>1 DEF BytesOf
        <5> HIDE DEF b, h, f
        <5>3. h \in File BY <5>1 DEF Grown
        <5>4. f.data \in Seq(Byte) /\ h.data \in Seq(Byte)
          BY <2>1, <5>3 DEF File
        <5>5. /\ Len(h.data) = Len(f.data)
              /\ \A o \in 1 .. Len(f.data) : h.data[o] = f.data[o]
          <6>1. Len(h.data) = Len(f.data) + Len(b) BY <5>1 DEF Grown
          <6>2. Len(f.data) \in Nat BY <5>4
          <6>3. Len(h.data) = Len(f.data) BY <5>2, <6>1, <6>2
          <6> QED BY <5>1, <6>3 DEF Grown
        <5>6. h.data = f.data BY <5>4, <5>5
        <5>7. Touched(f, h) BY <5>1, <5>3, <5>6 DEF Grown, Touched
        <5> QED BY <5>7 DEF f, h
      <4>3. FilesKept
        BY <1>1, <2>3, <4>2 DEF FilesKept, PieceAdded, Touched, SameHeader
      <4> QED BY <1>2, <4>3, KeptFileInv DEF Inv
    <3> QED BY <3>1, <3>2
  <2> QED BY <1>1, <2>3, <2>4, <2>5, <2>6 DEF PieceAdded
<1> QED BY <1>3, <1>4

LEMMA CrashKeeps ==
  ASSUME Inv, NEW n \in 0 .. DataLen, Crash(n)
  PROVE  Inv'
<1>1. /\ FileInv' /\ files' \in Seq(File) /\ Len(files') >= Len(files)
      /\ \A i \in 1 .. Len(files') : files'[i].state # "open"
  BY CrashFiles
<1>2. RecordsKept BY CrashRecords DEF Inv
<1>3. /\ cur' = 0 /\ scan' = {} /\ pc' = "down" /\ why' = "none"
      /\ back' = "none" /\ off' = 0
  BY DEF Crash, Return
<1>4. faults' \in Nat BY DEF Inv, TypeOK, Crash, Fault
<1>5. Len(files') \in Nat BY <1>1
<1>6. TypeOK' BY <1>1, <1>2, <1>3, <1>4, <1>5 DEF Inv, TypeOK, Crash, RecordsKept
<1>7. Place' BY <1>1, <1>3, ErrorPlace
<1> QED BY <1>1, <1>6, <1>7 DEF Inv

-----------------------------------------------------------------------------
(* The invariant, and what follows from it.                                *)

LEMMA InitEstablishes == Init => Inv
<1> SUFFICES ASSUME Init PROVE Inv OBVIOUS
<1>1. files = <<>> /\ records = <<>> BY DEF Init
<1>2. TypeOK BY <1>1 DEF Init, TypeOK
<1>3. Place
  BY <1>1 DEF Init, Place, Control, CurrentFile, Owing, Position, BetweenRecords,
     WithinRecord, Rolling
<1>4. FileInv
  BY <1>1 DEF FileInv, SequenceDense, Contents, RemainingTold
<1> QED BY <1>2, <1>3, <1>4 DEF Inv

LEMMA StepKeeps == Inv /\ [Next]_wvars => Inv'
<1> SUFFICES ASSUME Inv, [Next]_wvars PROVE Inv' OBVIOUS
<1>1. CASE Caller
  BY <1>1, NewKeeps, BeginWriteKeeps, BeginClearKeeps, DropKeeps DEF Caller
<1>2. CASE Step
  BY <1>2, ResendKeeps, ClearStepKeeps, FirstSessionKeeps, ClearDoneKeeps,
     CreateSegmentKeeps, HeaderFailsKeeps, CreateFailsKeeps, CloseAndSendKeeps,
     CloseFailsKeeps, BuildDataHeaderKeeps, RollWithinKeeps, WriteChunkKeeps,
     ChunkFailsKeeps, RecordCompleteKeeps, TimestampFailsKeeps
  DEF Step
<1>3. CASE Environment
  BY <1>3, TakeAwayKeeps, CrashKeeps DEF Environment
<1>4. CASE UNCHANGED wvars BY <1>4, NothingHappens
<1> QED BY <1>1, <1>2, <1>3, <1>4 DEF Next

\* Inv holds throughout: it is inductive.
THEOREM Invariance == Spec => []Inv
<1>1. Init => Inv BY InitEstablishes
<1>2. Inv /\ [Next]_wvars => Inv' BY StepKeeps
<1> QED BY <1>1, <1>2, PTL DEF Spec

\* The fields of LogWrite and the files it makes keep their types, whatever
\* fails or restarts.
THEOREM TypeCorrect == Spec => []TypeOK
<1>1. Inv => TypeOK BY DEF Inv
<1> QED BY <1>1, Invariance, PTL

\* Sequence numbers are dense in every session (create_segment and its callers):
\* no failure to create, fill, close or send a file, and no crash, leaves a gap
\* in them that is not a file gone from the directory.
THEOREM DenseSequences == Spec => []SequenceDense
<1>1. Inv => SequenceDense BY DEF Inv, FileInv
<1> QED BY <1>1, Invariance, PTL

\* The remaining field that create_segment writes is the rest of the record the
\* file before it ends in, and a file that owes nothing begins with a record:
\* for records of any length over any number of files, and after any failure.
THEOREM RemainingTrue == Spec => []RemainingTold
<1>1. Inv => RemainingTold BY DEF Inv, FileInv
<1> QED BY <1>1, Invariance, PTL

-----------------------------------------------------------------------------
(* Closed files.                                                           *)

\* The current segment file is open, which CurrentFile does not say.
CurrentOpen == cur # 0 => files[cur].state = "open"

\* What a step may not do to a file that is not open.
ClosedKept ==
  \A i \in 1 .. Len(files) :
    files[i].state # "open" =>
      /\ files'[i].data = files[i].data
      /\ files'[i].state # "open"

\* The files stay, and at most the current one is let go of.
LEMMA NothingTouched ==
  ASSUME CurrentOpen, files' = files, cur' \in {0, cur}
  PROVE  CurrentOpen' /\ ClosedKept
BY DEF CurrentOpen, ClosedKept

\* One file is handed over, closed or removed: the current one, which is let go
\* of, or another.
LEMMA OneTouched ==
  ASSUME Inv, CurrentOpen, NEW i \in 1 .. Len(files), NEW g, Touched(files[i], g),
         files' = [files EXCEPT ![i] = g], cur' = 0 \/ (cur' = cur /\ i # cur)
  PROVE  CurrentOpen' /\ ClosedKept
<1>1. FilesKept BY TouchedKept DEF Inv
<1>2. ClosedKept BY <1>1 DEF ClosedKept, FilesKept, Touched
<1>3. cur' # 0 => files'[cur'] = files[cur] BY DEF Inv, TypeOK
<1> QED BY <1>2, <1>3 DEF CurrentOpen

\* Bytes are added to the current file, and to no other.
LEMMA CurrentGrown ==
  ASSUME Inv, CurrentOpen, cur # 0, NEW n \in Nat,
         LET g == Extended(files[cur], BytesOf(Rec, off, off + n)) IN
         \/ files' = [files EXCEPT ![cur] = g] /\ cur' = cur
         \/ files' = [files EXCEPT ![cur] = Ended(g, "closed")] /\ cur' = 0
  PROVE  CurrentOpen' /\ ClosedKept
<1>1. files \in Seq(File) /\ cur \in 1 .. Len(files) /\ files[cur].state = "open"
  BY DEF Inv, TypeOK, CurrentOpen
<1>2. PieceAdded(n) BY PieceKept DEF Inv
<1>3. ClosedKept BY <1>1, <1>2 DEF ClosedKept, PieceAdded
<1>4. CASE cur' = 0 BY <1>3, <1>4 DEF CurrentOpen
<1>5. CASE cur' # 0
  <2>1. files'[cur] = Extended(files[cur], BytesOf(Rec, off, off + n)) /\ cur' = cur
    BY <1>1, <1>5
  <2>2. files[cur] \in File BY <1>1
  <2>3. files'[cur].state = "open" BY <1>1, <2>1, <2>2 DEF Extended, File
  <2> QED BY <1>3, <2>1, <2>3 DEF CurrentOpen
<1> QED BY <1>4, <1>5

\* A file is made behind the others, and is the current one or none is.
LEMMA FileBehind ==
  ASSUME Inv, NEW f, files' = Append(files, f),
         cur' = 0 \/ (cur' = Len(files) + 1 /\ f.state = "open")
  PROVE  CurrentOpen' /\ ClosedKept
<1>1. files \in Seq(File) BY DEF Inv, TypeOK
<1>2. \A i \in 1 .. Len(files) : files'[i] = files[i] BY <1>1
<1>3. files'[Len(files) + 1] = f BY <1>1
<1> QED BY <1>2, <1>3 DEF CurrentOpen, ClosedKept

LEMMA CallerKeepsClosed ==
  ASSUME Inv, CurrentOpen, Caller
  PROVE  CurrentOpen' /\ ClosedKept
<1>1. ASSUME NEW anchor \in 1 .. MaxAnchor, New(anchor) PROVE CurrentOpen' /\ ClosedKept
  BY <1>1, NothingTouched DEF New
<1>2. ASSUME NEW n \in Lens, BeginWrite(n) PROVE CurrentOpen' /\ ClosedKept
  BY <1>2, NothingTouched DEF BeginWrite
<1>3. CASE BeginClear
  <2>1. CASE cur = 0 BY <1>3, <2>1, NothingTouched DEF BeginClear
  <2>2. CASE cur # 0
    <3>1. cur \in 1 .. Len(files) /\ files[cur] \in File BY <2>2 DEF Inv, TypeOK
    <3>2. Touched(files[cur], Ended(files[cur], "closed")) BY <3>1, FileTouched
    <3> QED BY <1>3, <2>2, <3>1, <3>2, OneTouched DEF BeginClear
  <2> QED BY <2>1, <2>2
<1>4. CASE Drop
  <2>1. CASE cur = 0 BY <1>4, <2>1, NothingTouched DEF Drop
  <2>2. CASE cur # 0
    <3>1. cur \in 1 .. Len(files) /\ files[cur] \in File BY <2>2 DEF Inv, TypeOK
    <3>2. \E g : Touched(files[cur], g) /\ files' = [files EXCEPT ![cur] = g]
      BY <1>4, <2>2, <3>1, FileTouched, WriterAssumption DEF Drop
    <3>3. cur' = 0 BY <1>4 DEF Drop
    <3> QED BY <3>1, <3>2, <3>3, OneTouched
  <2> QED BY <2>1, <2>2
<1> QED BY <1>1, <1>2, <1>3, <1>4 DEF Caller

LEMMA StepKeepsClosed ==
  ASSUME Inv, CurrentOpen, Step
  PROVE  CurrentOpen' /\ ClosedKept
<1>1. ASSUME NEW i \in scan, Resend(i) PROVE CurrentOpen' /\ ClosedKept
  <2>1. i \in 1 .. Len(files) /\ files[i] \in File BY DEF Inv, TypeOK
  <2>2. \E g : Touched(files[i], g) /\ files' = [files EXCEPT ![i] = g]
    BY <1>1, <2>1, FileTouched, WriterAssumption DEF Resend
  <2>3. cur' = 0 BY <1>1 DEF Resend, Inv, Place, CurrentFile
  <2> QED BY <2>1, <2>2, <2>3, OneTouched
<1>2. ASSUME NEW i \in scan, ClearStep(i) PROVE CurrentOpen' /\ ClosedKept
  <2>1. cur' = 0 /\ cur = 0 BY <1>2 DEF ClearStep, Inv, Place, CurrentFile
  <2>2. CASE files' = files BY <2>1, <2>2, NothingTouched
  <2>3. CASE files' = [files EXCEPT ![i] = Gone(@)]
    <3>1. i \in 1 .. Len(files) /\ files[i] \in File BY DEF Inv, TypeOK
    <3>2. Touched(files[i], Gone(files[i])) BY <3>1, FileTouched
    <3> QED BY <2>1, <2>3, <3>1, <3>2, OneTouched
  <2> QED BY <1>2, <2>2, <2>3 DEF ClearStep
<1>3. CASE \/ FirstSession \/ ClearDone \/ BuildDataHeader \/ RollWithin
          \/ RecordComplete \/ TimestampFails
  <2>1. files' = files /\ cur' = cur
    BY <1>3 DEF FirstSession, ClearDone, BuildDataHeader, RollWithin, RecordComplete,
                TimestampFails
  <2> QED BY <2>1, NothingTouched
<1>4. ASSUME NEW id \in FreeIds, CreateSegment(id) PROVE CurrentOpen' /\ ClosedKept
  <2>1. NewFile(id, TRUE).state = "open" BY DEF NewFile
  <2>2. files' = Append(files, NewFile(id, TRUE)) /\ cur' = Len(files) + 1
    BY <1>4 DEF CreateSegment
  <2> QED BY <2>1, <2>2, FileBehind
<1>5. ASSUME NEW id \in FreeIds, HeaderFails(id) PROVE CurrentOpen' /\ ClosedKept
  <2>1. files' = Append(files, NewFile(id, FALSE)) /\ cur' = 0
    BY <1>5 DEF HeaderFails, Creating, Inv, Place, CurrentFile
  <2> QED BY <2>1, FileBehind
<1>6. ASSUME NEW id \in FreeIds, CreateFails(id) PROVE CurrentOpen' /\ ClosedKept
  BY <1>6, NothingTouched DEF CreateFails
<1>7. CASE CloseAndSend \/ CloseFails
  <2>1. cur # 0 BY <1>7 DEF CloseAndSend, CloseFails, Inv, Place, CurrentFile
  <2>2. cur \in 1 .. Len(files) /\ files[cur] \in File BY <2>1 DEF Inv, TypeOK
  <2>3. \E g : Touched(files[cur], g) /\ files' = [files EXCEPT ![cur] = g]
    BY <1>7, <2>2, FileTouched, WriterAssumption DEF CloseAndSend, CloseFails
  <2>4. cur' = 0 BY <1>7 DEF CloseAndSend, CloseFails
  <2> QED BY <2>2, <2>3, <2>4, OneTouched
<1>8. CASE WriteChunk
  <2>1. cur # 0 /\ Take \in Nat BY <1>8, TakeFits DEF WriteChunk, Storing, Inv, Place, CurrentFile
  <2> QED BY <1>8, <2>1, CurrentGrown DEF WriteChunk
<1>9. ASSUME NEW n \in 0 .. DataLen, ChunkFails(n) PROVE CurrentOpen' /\ ClosedKept
  <2>1. cur # 0 /\ n \in Nat
    BY <1>9, FormatAssumption DEF ChunkFails, Storing, Inv, Place, CurrentFile
  <2> QED BY <1>9, <2>1, CurrentGrown DEF ChunkFails
<1> QED BY <1>1, <1>2, <1>3, <1>4, <1>5, <1>6, <1>7, <1>8, <1>9 DEF Step

LEMMA EnvironmentKeepsClosed ==
  ASSUME Inv, CurrentOpen, Environment
  PROVE  CurrentOpen' /\ ClosedKept
<1>1. ASSUME NEW i \in Present, TakeAway(i) PROVE CurrentOpen' /\ ClosedKept
  <2>1. i \in 1 .. Len(files) /\ files[i] \in File BY DEF Inv, TypeOK, Present
  <2>2. Touched(files[i], Gone(files[i])) BY <2>1, FileTouched
  <2>3. files' = [files EXCEPT ![i] = Gone(files[i])] /\ cur' = cur
    BY <1>1, <2>1 DEF TakeAway
  <2>4. cur # 0 => i # cur BY <1>1 DEF TakeAway, CurrentOpen
  <2>5. i # 0 BY <2>1 DEF Inv, TypeOK
  <2> QED BY <2>1, <2>2, <2>3, <2>4, <2>5, OneTouched
<1>2. ASSUME NEW n \in 0 .. DataLen, Crash(n) PROVE CurrentOpen' /\ ClosedKept
  <2>1. cur' = 0 /\ n \in Nat BY <1>2, FormatAssumption DEF Crash
  <2>2. CASE cur # 0
    <3>1. cur \in 1 .. Len(files) BY <2>2 DEF Inv, TypeOK
    <3>2. files' = [files EXCEPT ![cur] =
                      Ended(Extended(files[cur], BytesOf(Rec, off, off + n)), "closed")]
      BY <1>2, <2>2, <3>1 DEF Crash
    <3> QED BY <2>1, <2>2, <3>2, CurrentGrown
  <2>3. CASE cur = 0
    <3>1. files \in Seq(File) BY DEF Inv, TypeOK
    <3>2. PICK orphan \in {<<>>} \cup {<<NewFile(id, FALSE)>> : id \in FreeIds} :
            files' = files \o orphan
      BY <1>2, <2>3 DEF Crash
    <3>3. CASE orphan = <<>>
      <4>1. files' = files BY <3>1, <3>2, <3>3
      <4> QED BY <2>1, <4>1, NothingTouched
    <3>4. CASE orphan # <<>>
      <4>1. PICK id \in FreeIds : orphan = <<NewFile(id, FALSE)>> BY <3>2, <3>4
      <4>2. files' = Append(files, NewFile(id, FALSE))
        <5>1. id \in Nat BY FreeNat
        <5>2. NewFile(id, FALSE) \in File BY <5>1, FileMade DEF Inv
        <5> HIDE DEF Inv
        <5> QED BY <3>1, <3>2, <4>1, <5>2, Joined
      <4> QED BY <2>1, <4>2, FileBehind
    <3> QED BY <3>3, <3>4
  <2> QED BY <2>2, <2>3
<1> QED BY <1>1, <1>2 DEF Environment

\* close_and_send, clear and the destructor let go of a file for good: neither a
\* failure on the way nor a later call writes to it again.
THEOREM ClosedStaysClosed == Spec => ClosedForGood
<1>1. Init => CurrentOpen BY DEF Init, CurrentOpen
<1>2. Inv /\ CurrentOpen /\ [Next]_wvars => CurrentOpen' /\ ClosedKept
  <2>1. UNCHANGED wvars /\ CurrentOpen => CurrentOpen' /\ ClosedKept
    BY NothingTouched DEF wvars
  <2> QED
    BY <2>1, CallerKeepsClosed, StepKeepsClosed, EnvironmentKeepsClosed DEF Next
<1>3. Inv /\ CurrentOpen /\ [Next]_wvars =>
        [\A i \in 1 .. Len(files) :
           files[i].state # "open" =>
             /\ files'[i].data = files[i].data
             /\ files'[i].state # "open"]_wvars
  BY <1>2 DEF ClosedKept
<1> QED BY <1>1, <1>2, <1>3, Invariance, PTL DEF Spec, ClosedForGood

-----------------------------------------------------------------------------
(* What a step may do to the directory.                                    *)

\* f has become g: under its old name, or no longer there.
Stays(f, g) == g.id = f.id /\ (g.present => f.present)

\* Files keep their names or lose them.
Shrinks ==
  /\ Len(files') = Len(files)
  /\ \A i \in 1 .. Len(files) : Stays(files[i], files'[i])

\* Only the i-th file may be another than it was.
OnlyChanged(i) ==
  /\ Len(files') = Len(files)
  /\ \A j \in 1 .. Len(files) : j # i => files'[j] = files[j]

\* What a file is after each of the things that become of it.
LEMMA FileAfter ==
  ASSUME NEW f \in File
  PROVE  /\ \A keep \in BOOLEAN : Stays(f, Sent(f, keep)) /\ Sent(f, keep).state = "sent"
         /\ \A s \in {"closed", "refused"} : Stays(f, Ended(f, s))
         /\ Stays(f, Gone(f)) /\ ~ Gone(f).present /\ Gone(f).state = f.state
         /\ \A b : /\ Stays(f, Extended(f, b)) /\ Extended(f, b).state = f.state
                   /\ Stays(f, Ended(Extended(f, b), "closed"))
<1>1. ASSUME NEW keep \in BOOLEAN
      PROVE  Stays(f, Sent(f, keep)) /\ Sent(f, keep).state = "sent"
  BY DEF Sent, File, Stays
<1>2. ASSUME NEW s \in {"closed", "refused"} PROVE Stays(f, Ended(f, s))
  BY DEF Ended, File, Stays
<1>3. Stays(f, Gone(f)) /\ ~ Gone(f).present /\ Gone(f).state = f.state
  BY DEF Gone, File, Stays
<1>4. ASSUME NEW b
      PROVE  /\ Stays(f, Extended(f, b)) /\ Extended(f, b).state = f.state
             /\ Stays(f, Ended(Extended(f, b), "closed"))
  BY DEF Extended, Ended, File, Stays
<1> QED BY <1>1, <1>2, <1>3, <1>4

LEMMA OneShrinks ==
  ASSUME TypeOK, NEW i \in 1 .. Len(files), NEW g, Stays(files[i], g),
         files' = [files EXCEPT ![i] = g]
  PROVE  Shrinks /\ OnlyChanged(i) /\ files'[i] = g
<1>1. files \in Seq(File) BY DEF TypeOK
<1> QED BY <1>1 DEF Shrinks, OnlyChanged, Stays

LEMMA NoneShrinks ==
  ASSUME files' = files
  PROVE  Shrinks
BY DEF Shrinks, Stays

-----------------------------------------------------------------------------
(* The steps that make a file, and those that make none.                   *)

\* A file is made, with or without its header.
Makes(id) == \E whole \in BOOLEAN : files' = Append(files, NewFile(id, whole))

LEMMA CallerShrinks ==
  ASSUME Inv, Caller
  PROVE  Shrinks
<1>1. ASSUME NEW anchor \in 1 .. MaxAnchor, New(anchor) PROVE Shrinks
  BY <1>1, NoneShrinks DEF New
<1>2. ASSUME NEW n \in Lens, BeginWrite(n) PROVE Shrinks
  BY <1>2, NoneShrinks DEF BeginWrite
<1>3. CASE cur = 0 /\ (BeginClear \/ Drop)
  BY <1>3, NoneShrinks DEF BeginClear, Drop
<1>4. CASE cur # 0 /\ (BeginClear \/ Drop)
  <2>1. cur \in 1 .. Len(files) /\ files[cur] \in File BY <1>4 DEF Inv, TypeOK
  <2>2. \E g : Stays(files[cur], g) /\ files' = [files EXCEPT ![cur] = g]
    BY <1>4, <2>1, FileAfter, WriterAssumption DEF BeginClear, Drop
  <2> QED BY <2>1, <2>2, OneShrinks DEF Inv
<1> QED BY <1>1, <1>2, <1>3, <1>4 DEF Caller

LEMMA StepShrinksOrMakes ==
  ASSUME Inv, Step
  PROVE  Shrinks \/ \E id \in FreeIds : Makes(id) /\ Creating /\ clock' = id
<1>1. ASSUME NEW i \in scan, Resend(i) \/ ClearStep(i) PROVE Shrinks
  <2>1. i \in 1 .. Len(files) /\ files[i] \in File BY DEF Inv, TypeOK
  <2>2. CASE files' = files BY <2>2, NoneShrinks
  <2>3. CASE files' # files
    <3>1. \E g : Stays(files[i], g) /\ files' = [files EXCEPT ![i] = g]
      BY <1>1, <2>1, <2>3, FileAfter, WriterAssumption DEF Resend, ClearStep
    <3> QED BY <2>1, <3>1, OneShrinks DEF Inv
  <2> QED BY <2>2, <2>3
<1>2. CASE \/ FirstSession \/ ClearDone \/ BuildDataHeader \/ RollWithin
          \/ RecordComplete \/ TimestampFails
  BY <1>2, NoneShrinks
  DEF FirstSession, ClearDone, BuildDataHeader, RollWithin, RecordComplete,
      TimestampFails
<1>3. ASSUME NEW id \in FreeIds, CreateSegment(id) \/ HeaderFails(id)
      PROVE  Makes(id) /\ Creating /\ clock' = id
  BY <1>3 DEF CreateSegment, HeaderFails, Makes
<1>4. ASSUME NEW id \in FreeIds, CreateFails(id) PROVE Shrinks
  BY <1>4, NoneShrinks DEF CreateFails
<1>5. CASE CloseAndSend \/ CloseFails \/ WriteChunk \/ \E n \in 0 .. DataLen : ChunkFails(n)
  <2>1. cur # 0
    BY <1>5 DEF CloseAndSend, CloseFails, WriteChunk, ChunkFails, Storing, Inv, Place,
                CurrentFile
  <2>2. cur \in 1 .. Len(files) /\ files[cur] \in File BY <2>1 DEF Inv, TypeOK
  <2>3. CASE CloseAndSend \/ CloseFails
    <3>1. \E g : Stays(files[cur], g) /\ files' = [files EXCEPT ![cur] = g]
      BY <2>2, <2>3, FileAfter, WriterAssumption DEF CloseAndSend, CloseFails
    <3> QED BY <2>2, <3>1, OneShrinks DEF Inv
  <2>4. CASE WriteChunk \/ \E n \in 0 .. DataLen : ChunkFails(n)
    <3>1. \E g : Stays(files[cur], g) /\ files' = [files EXCEPT ![cur] = g]
      BY <2>2, <2>4, FileAfter DEF WriteChunk, ChunkFails
    <3> QED BY <2>2, <3>1, OneShrinks DEF Inv
  <2> QED BY <1>5, <2>3, <2>4
<1> QED BY <1>1, <1>2, <1>3, <1>4, <1>5 DEF Step

LEMMA EnvironmentShrinksOrMakes ==
  ASSUME Inv, Environment
  PROVE  Shrinks \/ \E id \in FreeIds : Makes(id) /\ Creating /\ pc' = "down"
<1>1. ASSUME NEW i \in Present, TakeAway(i) PROVE Shrinks
  <2>1. i \in 1 .. Len(files) /\ files[i] \in File BY DEF Inv, TypeOK, Present
  <2> QED BY <1>1, <2>1, FileAfter, OneShrinks DEF TakeAway, Inv
<1>2. ASSUME NEW n \in 0 .. DataLen, Crash(n)
      PROVE  Shrinks \/ \E id \in FreeIds : Makes(id) /\ Creating /\ pc' = "down"
  <2>1. pc' = "down" BY <1>2 DEF Crash, Return
  <2>2. CASE cur # 0
    <3>1. cur \in 1 .. Len(files) /\ files[cur] \in File BY <2>2 DEF Inv, TypeOK
    <3> DEFINE b == BytesOf(Rec, off, off + n)
    <3>2. files' = [files EXCEPT ![cur] = Ended(Extended(files[cur], b), "closed")]
      BY <1>2, <2>2 DEF Crash
    <3> HIDE DEF b
    <3>3. Stays(files[cur], Ended(Extended(files[cur], b), "closed"))
      BY <3>1, FileAfter
    <3> QED BY <3>1, <3>2, <3>3, OneShrinks DEF Inv
  <2>3. CASE cur = 0
    <3>1. files \in Seq(File) BY DEF Inv, TypeOK
    <3>2. PICK orphan \in {<<>>} \cup
                          (IF Creating THEN {<<NewFile(id, FALSE)>> : id \in FreeIds}
                                       ELSE {}) :
            files' = files \o orphan
      BY <1>2, <2>3 DEF Crash
    <3>3. CASE orphan = <<>>
      <4>1. files' = files BY <3>1, <3>2, <3>3
      <4> QED BY <4>1, NoneShrinks
    <3>4. CASE orphan # <<>>
      <4>1. Creating /\ \E id \in FreeIds : orphan = <<NewFile(id, FALSE)>> BY <3>2, <3>4
      <4>2. PICK id \in FreeIds : orphan = <<NewFile(id, FALSE)>> BY <4>1
      <4>3. NewFile(id, FALSE) \in File BY FreeNat, FileMade DEF Inv
      <4>4. files' = Append(files, NewFile(id, FALSE)) BY <3>1, <3>2, <4>2, <4>3, Joined
      <4> QED BY <2>1, <4>1, <4>4 DEF Makes
    <3> QED BY <3>3, <3>4
  <2> QED BY <2>2, <2>3
<1> QED BY <1>1, <1>2 DEF Environment

-----------------------------------------------------------------------------
(* The names.                                                              *)

LEMMA PresentFiles ==
  ASSUME TypeOK, NEW i \in Present
  PROVE  i \in 1 .. Len(files) /\ files[i] \in File /\ files[i].id \in Nat
<1>1. i \in 1 .. Len(files) /\ files \in Seq(File) BY DEF TypeOK, Present
<1>2. files[i] \in File BY <1>1
<1>3. files[i].id \in Nat BY <1>2 DEF File
<1> QED BY <1>1, <1>2, <1>3

\* No name is new, and the clock does not go back while a writer is at work.
LEMMA ShrunkNames ==
  ASSUME Inv, NamesInv, Shrinks, clock' \in Nat,
         \/ pc' = "down"
         \/ pc # "down" /\ clock' >= clock
         \/ \A i \in Present : files[i].id < clock'
  PROVE  NamesInv'
<1>1. files \in Seq(File) /\ clock \in Nat BY DEF Inv, TypeOK
<1>2. Present' \subseteq Present /\ \A i \in Present' : files'[i].id = files[i].id
  BY DEF Shrinks, Stays, Present
<1>3. \A i \in Present : files[i].id \in Nat BY PresentFiles DEF Inv
<1>4. NamesOrdered' BY <1>2 DEF NamesInv, NamesOrdered
<1>5. Ahead' BY <1>1, <1>2, <1>3 DEF NamesInv, Ahead
<1> QED BY <1>4, <1>5 DEF NamesInv

\* A new name is behind all others.
LEMMA NewName ==
  ASSUME Inv, NamesInv, NEW id \in FreeIds, Makes(id), Creating,
         pc' = "down" \/ clock' = id
  PROVE  NamesInv'
<1>1. files \in Seq(File) /\ clock \in Nat /\ id \in Nat BY FreeNat DEF Inv, TypeOK
<1>2. PICK whole \in BOOLEAN : files' = Append(files, NewFile(id, whole)) BY DEF Makes
<1>3. NewFile(id, whole).id = id BY DEF NewFile
<1>4. /\ Len(files') = Len(files) + 1
      /\ \A i \in 1 .. Len(files) : files'[i] = files[i]
      /\ files'[Len(files) + 1].id = id
  BY <1>1, <1>2, <1>3
<1>5. \A i \in Present : files[i].id \in Nat /\ files[i].id < id
  <2>1. id >= clock /\ \A i \in Present : files[i].id # id
    BY <1>1, WriterAssumption DEF FreeIds
  <2>2. \A i \in Present : files[i].id \in Nat BY PresentFiles DEF Inv
  <2>3. \A i \in Present : files[i].id <= clock BY DEF NamesInv, Ahead, Creating
  <2> QED BY <1>1, <2>1, <2>2, <2>3
<1>6. \A i \in Present' :
        \/ i \in Present /\ files'[i] = files[i]
        \/ i = Len(files) + 1 /\ files'[i].id = id
  <2> TAKE i \in Present'
  <2>1. i \in 1 .. Len(files) + 1 /\ files'[i].present BY <1>4 DEF Present
  <2>2. Len(files) \in Nat BY <1>1
  <2>3. CASE i \in 1 .. Len(files)
    <3>1. files'[i] = files[i] BY <1>4, <2>3
    <3>2. files[i].present BY <2>1, <3>1
    <3>3. i \in Present BY <2>3, <3>2 DEF Present
    <3> QED BY <3>1, <3>3
  <2>4. CASE i = Len(files) + 1 BY <1>4, <2>4
  <2> QED BY <2>1, <2>2, <2>3, <2>4
<1>7. \A i \in Present : i < Len(files) + 1 /\ i \in Nat BY <1>1 DEF Present
<1>8. NamesOrdered'
  BY <1>1, <1>5, <1>6, <1>7 DEF NamesInv, NamesOrdered
<1>9. Ahead' BY <1>1, <1>5, <1>6 DEF Ahead
<1> QED BY <1>8, <1>9 DEF NamesInv

LEMMA NextKeepsNames ==
  ASSUME Inv, NamesInv, [Next]_wvars
  PROVE  NamesInv'
<1>1. Inv' BY StepKeeps
<1>2. clock \in Nat /\ clock' \in Nat BY <1>1 DEF Inv, TypeOK
<1>3. ASSUME NEW anchor \in 1 .. MaxAnchor, New(anchor) PROVE NamesInv'
  <2>1. \A i \in Present : files[i].id < clock'
    <3>1. clock' \in AdvancePast(anchor, {files[i].id : i \in Present}) BY <1>3 DEF New
    <3>2. \A i \in Present : files[i].id \in Nat BY PresentFiles DEF Inv
    <3> QED BY <1>2, <3>1, <3>2 DEF AdvancePast
  <2>2. Shrinks BY <1>3, NoneShrinks DEF New
  <2> QED BY <1>2, <2>1, <2>2, ShrunkNames DEF NamesInv
<1>4. CASE BeginClear \/ Drop \/ \E n \in Lens : BeginWrite(n)
  <2>1. Shrinks BY <1>4, CallerShrinks DEF Caller
  <2>2. pc # "down" /\ clock' = clock BY <1>4 DEF BeginClear, Drop, BeginWrite
  <2> QED BY <1>2, <2>1, <2>2, ShrunkNames DEF NamesInv
<1>5. CASE Step
  <2>1. ASSUME NEW id \in FreeIds, Makes(id), Creating, clock' = id PROVE NamesInv'
    BY <2>1, NewName
  <2>2. CASE Shrinks
    <3>1. pc # "down"
      BY <1>5 DEF Step, Resend, ClearStep, FirstSession, ClearDone, CreateSegment,
         HeaderFails, CreateFails, Creating, CloseAndSend, CloseFails, BuildDataHeader,
         RollWithin, WriteChunk, ChunkFails, Storing, RecordComplete, TimestampFails
    <3>2. clock' = clock \/ clock' \in FreeIds
      BY <1>5 DEF Step, Resend, ClearStep, FirstSession, ClearDone, CreateSegment,
         HeaderFails, CreateFails, CloseAndSend, CloseFails, BuildDataHeader,
         RollWithin, WriteChunk, ChunkFails, RecordComplete, TimestampFails
    <3>3. clock' >= clock BY <1>2, <3>2, WriterAssumption DEF FreeIds
    <3> QED BY <1>2, <2>2, <3>1, <3>3, ShrunkNames DEF NamesInv
  <2> QED BY <1>5, <2>1, <2>2, StepShrinksOrMakes
<1>6. CASE Environment
  <2>1. ASSUME NEW id \in FreeIds, Makes(id), Creating, pc' = "down" PROVE NamesInv'
    BY <2>1, NewName
  <2>2. CASE Shrinks
    <3>1. clock' = clock /\ (pc' = pc \/ pc' = "down")
      BY <1>6 DEF Environment, TakeAway, Crash, Return
    <3> QED BY <1>2, <2>2, <3>1, ShrunkNames DEF NamesInv
  <2> QED BY <1>6, <2>1, <2>2, EnvironmentShrinksOrMakes
<1>7. CASE UNCHANGED wvars
  BY <1>7 DEF wvars, NamesInv, NamesOrdered, Ahead, Present
<1> QED BY <1>3, <1>4, <1>5, <1>6, <1>7 DEF Next, Caller

\* create_unique_file and Clock::advance_past keep the order of the names the order
\* in which the files were made, for any clocks, crashes and files taken away.
THEOREM NamesSortByAge == Spec => []NamesOrdered
<1>1. Init => NamesInv BY DEF Init, NamesInv, NamesOrdered, Ahead, Present
<1>2. Inv /\ NamesInv /\ [Next]_wvars => NamesInv' BY NextKeepsNames
<1>3. NamesInv => NamesOrdered BY DEF NamesInv
<1> QED BY <1>1, <1>2, <1>3, Invariance, PTL DEF Spec

-----------------------------------------------------------------------------
(* The files not handed over.                                              *)

\* Those in the directory but for the current one, and what has kept them there.
Unsent == {i \in Present \ {cur} : files[i].state # "sent"}
Causes == faults + taken

\* The bound with a file closed empty to spare, which the next writer hands over
\* and clear() removes; a file that is gone before clear() comes to it is a cause.
UnsentInv ==
  /\ Cardinality(Unsent) <= Causes + 1
  /\ pc \notin {"down", "resend", "clear"} => Cardinality(Unsent) <= Causes
  /\ pc \in {"resend", "clear"} => Unsent \subseteq scan
  /\ pc = "clear" /\ (\E i \in scan : ~ files[i].present) =>
       Cardinality(Unsent) <= Causes

LEMMA Counted ==
  ASSUME TypeOK
  PROVE  /\ IsFiniteSet(Unsent) /\ Cardinality(Unsent) \in Nat
         /\ faults \in Nat /\ taken \in Nat
<1>1. files \in Seq(File) /\ faults \in Nat /\ taken \in Nat BY DEF TypeOK
<1>2. IsFiniteSet(1 .. Len(files)) BY <1>1, FS_Interval
<1>3. Unsent \subseteq 1 .. Len(files) BY DEF Unsent, Present
<1> QED BY <1>1, <1>2, <1>3, FS_Subset, FS_CardinalityType

LEMMA NoMore ==
  ASSUME TypeOK, Unsent' \subseteq Unsent
  PROVE  Cardinality(Unsent') \in Nat /\ Cardinality(Unsent') <= Cardinality(Unsent)
BY Counted, FS_Subset, FS_CardinalityType

LEMMA OneMore ==
  ASSUME TypeOK, NEW i, Unsent' \subseteq Unsent \cup {i}
  PROVE  /\ Cardinality(Unsent') \in Nat
         /\ Cardinality(Unsent') <= Cardinality(Unsent) + 1
<1>1. /\ IsFiniteSet(Unsent \cup {i})
      /\ Cardinality(Unsent \cup {i}) <= Cardinality(Unsent) + 1
      /\ Cardinality(Unsent \cup {i}) \in Nat
  BY Counted, FS_AddElement
<1>2. /\ IsFiniteSet(Unsent')
      /\ Cardinality(Unsent') <= Cardinality(Unsent \cup {i})
  BY <1>1, FS_Subset
<1>3. Cardinality(Unsent') \in Nat BY <1>2, FS_CardinalityType
<1> QED BY <1>1, <1>2, <1>3, Counted

\* One file has become another, and the current one is as it was or let go of.
LEMMA UnsentAfter ==
  ASSUME TypeOK, Shrinks, NEW i, OnlyChanged(i), cur' = cur \/ (cur' = 0 /\ cur = i)
  PROVE  /\ Unsent' \subseteq Unsent \cup {i}
         /\ i \in Unsent' => files'[i].present /\ files'[i].state # "sent"
<1>1. files \in Seq(File) BY DEF TypeOK
<1>2. ASSUME NEW j \in Unsent', j # i PROVE j \in Unsent
  <2>1. j \in Present' /\ j # cur' /\ files'[j].state # "sent" BY DEF Unsent
  <2>2. j \in 1 .. Len(files) /\ files'[j] = files[j]
    BY <1>2, <2>1 DEF Present, Shrinks, OnlyChanged
  <2>3. files[j].present BY <2>1, <2>2 DEF Present
  <2>4. j \in Present BY <2>2, <2>3 DEF Present
  <2>5. j # cur BY <1>2, <2>1
  <2> QED BY <2>1, <2>2, <2>4, <2>5 DEF Unsent
<1> QED BY <1>2 DEF Unsent, Present

LEMMA UnsentSame ==
  ASSUME files' = files, cur' = cur
  PROVE  Unsent' = Unsent
BY DEF Unsent, Present

\* A file is made: it is the current one, or has no header and is left.
LEMMA UnsentMade ==
  ASSUME TypeOK, cur = 0, NEW id, Makes(id), cur' \in {0, Len(files) + 1}
  PROVE  /\ Unsent' \subseteq Unsent \cup {Len(files) + 1}
         /\ cur' # 0 => Unsent' \subseteq Unsent
<1>1. files \in Seq(File) BY DEF TypeOK
<1>2. PICK whole \in BOOLEAN : files' = Append(files, NewFile(id, whole)) BY DEF Makes
<1>3. /\ Len(files') = Len(files) + 1 /\ Len(files) \in Nat
      /\ \A i \in 1 .. Len(files) : files'[i] = files[i]
  BY <1>1, <1>2
<1>4. ASSUME NEW j \in Unsent', j # Len(files) + 1 PROVE j \in Unsent
  <2>1. j \in Present' /\ files'[j].state # "sent" BY DEF Unsent
  <2>2. j \in 1 .. Len(files) /\ files'[j] = files[j]
    BY <1>3, <1>4, <2>1 DEF Present
  <2>3. files[j].present BY <2>1, <2>2 DEF Present
  <2>4. j \in Present /\ j # 0 BY <2>2, <2>3 DEF Present
  <2> QED BY <2>1, <2>2, <2>4 DEF Unsent
<1>5. cur' # 0 => Len(files) + 1 \notin Unsent' BY DEF Unsent
<1> QED BY <1>4, <1>5

\* A step that takes or leaves a file, and one that strands one by a failure.
LEMMA NoMoreStranded ==
  ASSUME Inv, UnsentInv, pc \notin {"down", "resend", "clear"}, Unsent' \subseteq Unsent,
         pc' \notin {"resend", "clear"}, faults' \in {faults, faults + 1}, taken' = taken
  PROVE  UnsentInv'
<1>1. /\ Cardinality(Unsent) \in Nat /\ faults \in Nat /\ taken \in Nat
      /\ Cardinality(Unsent') \in Nat /\ Cardinality(Unsent') <= Cardinality(Unsent)
  BY Counted, NoMore DEF Inv
<1>2. Cardinality(Unsent) <= Causes BY DEF UnsentInv
<1> QED BY <1>1, <1>2 DEF UnsentInv, Causes

LEMMA OneStranded ==
  ASSUME Inv, UnsentInv, NEW i, Unsent' \subseteq Unsent \cup {i},
         faults' = faults + 1, taken' = taken,
         \/ pc' = "down"
         \/ pc \notin {"down", "resend", "clear"} /\ pc' \notin {"resend", "clear"}
  PROVE  UnsentInv'
<1>1. /\ Cardinality(Unsent) \in Nat /\ faults \in Nat /\ taken \in Nat
      /\ Cardinality(Unsent') \in Nat /\ Cardinality(Unsent') <= Cardinality(Unsent) + 1
  BY Counted, OneMore DEF Inv
<1>2. CASE pc' = "down" BY <1>1, <1>2 DEF UnsentInv, Causes
<1>3. CASE pc' # "down"
  <2>1. Cardinality(Unsent) <= Causes BY <1>3 DEF UnsentInv
  <2> QED BY <1>1, <1>3, <2>1 DEF UnsentInv, Causes
<1> QED BY <1>2, <1>3

LEMMA NewStorage ==
  ASSUME Inv, UnsentInv, NEW anchor \in 1 .. MaxAnchor, New(anchor)
  PROVE  UnsentInv'
<1>1. Unsent' = Unsent BY UnsentSame DEF New
<1>2. Unsent \subseteq Present BY DEF Unsent
<1>3. pc' = "resend" /\ scan' = Present /\ faults' = faults /\ taken' = taken BY DEF New
<1> QED BY <1>1, <1>2, <1>3 DEF UnsentInv, Causes

LEMMA FirstSessionStorage ==
  ASSUME Inv, UnsentInv, FirstSession \/ ClearDone
  PROVE  UnsentInv'
<1>1. Unsent' = Unsent BY UnsentSame DEF FirstSession, ClearDone
<1>2. Unsent = {} BY DEF UnsentInv, FirstSession, ClearDone
<1>3. Cardinality(Unsent') = 0 BY <1>1, <1>2, FS_EmptySet
<1>4. /\ pc' \in {"open", "idle"} /\ faults' = faults /\ taken' = taken
      /\ faults \in Nat /\ taken \in Nat
  BY DEF FirstSession, StartSession, ClearDone, Inv, TypeOK
<1> QED BY <1>3, <1>4 DEF UnsentInv, Causes

LEMMA ResendStorage ==
  ASSUME Inv, UnsentInv, NEW i \in scan, Resend(i)
  PROVE  UnsentInv'
<1>1. i \in 1 .. Len(files) /\ files[i] \in File BY DEF Inv, TypeOK
<1>2. pc = "resend" /\ cur = 0 /\ cur' = 0 /\ taken' = taken
  BY DEF Resend, Inv, Place, CurrentFile
<1>3. CASE \E keep \in KeepSent : /\ files' = [files EXCEPT ![i] = Sent(@, keep)]
                                  /\ scan' = scan \ {i} /\ pc' = pc /\ faults' = faults
  <2>1. PICK keep \in BOOLEAN : files' = [files EXCEPT ![i] = Sent(files[i], keep)]
    BY <1>3, WriterAssumption
  <2>2. Shrinks /\ OnlyChanged(i) /\ files'[i] = Sent(files[i], keep)
    BY <1>1, <2>1, FileAfter, OneShrinks DEF Inv
  <2>3. files'[i].state = "sent" BY <1>1, <2>2, FileAfter
  <2>4. Unsent' \subseteq Unsent \ {i} BY <1>2, <2>2, <2>3, UnsentAfter DEF Inv
  <2>5. /\ Cardinality(Unsent) \in Nat /\ faults \in Nat /\ taken \in Nat
        /\ Cardinality(Unsent') \in Nat /\ Cardinality(Unsent') <= Cardinality(Unsent)
    BY <2>4, Counted, NoMore DEF Inv
  <2> QED BY <1>2, <1>3, <2>4, <2>5 DEF UnsentInv, Causes
<1>4. CASE /\ Fault /\ files' = [files EXCEPT ![i] = Ended(@, "refused")]
           /\ scan' = {} /\ pc' = "down"
  <2>1. Shrinks /\ OnlyChanged(i) BY <1>1, <1>4, FileAfter, OneShrinks DEF Inv
  <2>2. Unsent' \subseteq Unsent \cup {i} BY <1>2, <2>1, UnsentAfter DEF Inv
  <2> QED BY <1>2, <1>4, <2>2, OneStranded DEF Fault
<1> QED BY <1>3, <1>4 DEF Resend

LEMMA DropStorage ==
  ASSUME Inv, UnsentInv, Drop
  PROVE  UnsentInv'
<1>1. /\ pc = "idle" /\ pc' = "down" /\ cur' = 0 /\ taken' = taken
      /\ faults' = faults \/ faults' = faults + 1
  BY DEF Drop, Return, Fault
<1>2. Unsent' \subseteq Unsent \cup {cur}
  <2>1. CASE cur = 0 BY <1>1, <2>1, UnsentSame DEF Drop
  <2>2. CASE cur # 0
    <3>1. cur \in 1 .. Len(files) /\ files[cur] \in File BY <2>2 DEF Inv, TypeOK
    <3>2. \E g : Stays(files[cur], g) /\ files' = [files EXCEPT ![cur] = g]
      BY <2>2, <3>1, FileAfter, WriterAssumption DEF Drop
    <3>3. Shrinks /\ OnlyChanged(cur) BY <3>1, <3>2, OneShrinks DEF Inv
    <3> QED BY <1>1, <3>3, UnsentAfter DEF Inv
  <2> QED BY <2>1, <2>2
<1>3. /\ Cardinality(Unsent) \in Nat /\ faults \in Nat /\ taken \in Nat
      /\ Cardinality(Unsent') \in Nat /\ Cardinality(Unsent') <= Cardinality(Unsent) + 1
  BY <1>2, Counted, OneMore DEF Inv
<1>4. Cardinality(Unsent) <= Causes BY <1>1 DEF UnsentInv
<1> QED BY <1>1, <1>3, <1>4 DEF UnsentInv, Causes

LEMMA BeginClearStorage ==
  ASSUME Inv, UnsentInv, BeginClear
  PROVE  UnsentInv'
<1>1. /\ pc = "idle" /\ pc' = "clear" /\ cur' = 0 /\ taken' = taken /\ faults' = faults
      /\ scan' = Present
  BY DEF BeginClear
<1>2. /\ Unsent' \subseteq Unsent \cup {cur} /\ Unsent' \subseteq Present
      /\ \A i \in Present : files'[i].present
  <2>1. CASE cur = 0
    <3>1. Unsent' = Unsent /\ files' = files BY <1>1, <2>1, UnsentSame DEF BeginClear
    <3> QED BY <3>1 DEF Unsent, Present
  <2>2. CASE cur # 0
    <3>1. cur \in 1 .. Len(files) /\ files[cur] \in File BY <2>2 DEF Inv, TypeOK
    <3>2. files' = [files EXCEPT ![cur] = Ended(files[cur], "closed")]
      BY <2>2 DEF BeginClear
    <3>3. Shrinks /\ OnlyChanged(cur) /\ files'[cur] = Ended(files[cur], "closed")
      BY <3>1, <3>2, FileAfter, OneShrinks DEF Inv
    <3>4. Unsent' \subseteq Unsent \cup {cur} BY <1>1, <3>3, UnsentAfter DEF Inv
    <3>5. Unsent' \subseteq Present BY <3>3 DEF Unsent, Present, Shrinks, Stays
    <3>6. files'[cur].present = files[cur].present BY <3>1, <3>3 DEF Ended, File
    <3>7. \A i \in Present : files'[i].present
      BY <3>3, <3>6 DEF Present, OnlyChanged
    <3> QED BY <3>4, <3>5, <3>7
  <2> QED BY <2>1, <2>2
<1>3. /\ Cardinality(Unsent) \in Nat /\ faults \in Nat /\ taken \in Nat
      /\ Cardinality(Unsent') \in Nat /\ Cardinality(Unsent') <= Cardinality(Unsent) + 1
  BY <1>2, Counted, OneMore DEF Inv
<1>4. Cardinality(Unsent) <= Causes BY <1>1 DEF UnsentInv
<1> QED BY <1>1, <1>2, <1>3, <1>4 DEF UnsentInv, Causes

LEMMA ClearStepStorage ==
  ASSUME Inv, UnsentInv, NEW i \in scan, ClearStep(i)
  PROVE  UnsentInv'
<1>1. i \in 1 .. Len(files) /\ files[i] \in File BY DEF Inv, TypeOK
<1>2. pc = "clear" /\ cur = 0 /\ cur' = 0 /\ taken' = taken
  BY DEF ClearStep, Inv, Place, CurrentFile
<1>3. /\ Cardinality(Unsent) \in Nat /\ faults \in Nat /\ taken \in Nat BY Counted DEF Inv
<1>4. CASE /\ files' = [files EXCEPT ![i] = Gone(@)] /\ scan' = scan \ {i}
           /\ pc' = pc /\ faults' = faults
  <2>1. Shrinks /\ OnlyChanged(i) /\ files'[i] = Gone(files[i])
    BY <1>1, <1>4, FileAfter, OneShrinks DEF Inv
  <2>2. ~ files'[i].present BY <1>1, <2>1, FileAfter
  <2>3. Unsent' \subseteq Unsent \ {i} BY <1>2, <2>1, <2>2, UnsentAfter DEF Inv
  <2>4. Cardinality(Unsent') \in Nat /\ Cardinality(Unsent') <= Cardinality(Unsent)
    BY <2>3, NoMore DEF Inv
  <2>5. \A j \in scan' : files'[j] = files[j] /\ j \in scan
    BY <1>4, <2>1 DEF OnlyChanged, Inv, TypeOK
  <2> QED BY <1>2, <1>3, <1>4, <2>3, <2>4, <2>5 DEF UnsentInv, Causes
<1>5. CASE /\ ~ files[i].present
           /\ pc' = "idle" /\ files' = files /\ faults' = faults
  <2>1. Unsent' = Unsent BY <1>2, <1>5, UnsentSame
  <2>2. Cardinality(Unsent) <= Causes BY <1>2, <1>5 DEF UnsentInv
  <2> QED BY <1>2, <1>3, <1>5, <2>1, <2>2 DEF UnsentInv, Causes
<1>6. CASE Fault /\ pc' = "idle" /\ files' = files
  <2>1. Unsent' = Unsent BY <1>2, <1>6, UnsentSame
  <2> QED BY <1>2, <1>3, <1>6, <2>1 DEF UnsentInv, Causes, Fault
<1> QED BY <1>4, <1>5, <1>6 DEF ClearStep

LEMMA CreateStorage ==
  ASSUME Inv, UnsentInv, NEW id \in FreeIds,
         CreateSegment(id) \/ HeaderFails(id) \/ CreateFails(id)
  PROVE  UnsentInv'
<1>1. /\ pc \in {"open", "extend"} /\ cur = 0 /\ taken' = taken
      /\ back \in {"ready", "build", "bytes", "error"}
  BY DEF CreateSegment, HeaderFails, CreateFails, Creating, Inv, TypeOK, Place, Control,
         CurrentFile
<1>2. CASE CreateSegment(id)
  <2>1. Makes(id) /\ cur' = Len(files) + 1 /\ faults' = faults
    BY <1>2 DEF CreateSegment, Makes
  <2>2. cur' # 0 BY <2>1 DEF Inv, TypeOK
  <2>3. Unsent' \subseteq Unsent BY <1>1, <2>1, <2>2, UnsentMade DEF Inv
  <2>4. pc' \notin {"resend", "clear"} BY <1>1, <1>2 DEF CreateSegment, Created, Return
  <2> QED BY <1>1, <2>1, <2>3, <2>4, NoMoreStranded
<1>3. CASE HeaderFails(id)
  <2>1. Makes(id) /\ cur' = 0 /\ faults' = faults + 1
    BY <1>1, <1>3 DEF HeaderFails, Makes, Fault
  <2>2. Unsent' \subseteq Unsent \cup {Len(files) + 1} BY <1>1, <2>1, UnsentMade DEF Inv
  <2>3. pc' \in {"down", "idle"} BY <1>3 DEF HeaderFails, ReturnError, Return
  <2> QED BY <1>1, <2>1, <2>2, <2>3, OneStranded
<1>4. CASE CreateFails(id)
  <2>1. Unsent' = Unsent BY <1>4, UnsentSame DEF CreateFails
  <2>2. pc' \in {"down", "idle"} /\ faults' = faults + 1
    BY <1>4 DEF CreateFails, ReturnError, Return, Fault
  <2> QED BY <1>1, <2>1, <2>2, NoMoreStranded
<1> QED BY <1>2, <1>3, <1>4

LEMMA CloseStorage ==
  ASSUME Inv, UnsentInv, CloseAndSend \/ CloseFails
  PROVE  UnsentInv'
<1>1. pc = "close" /\ cur # 0 /\ cur' = 0 /\ taken' = taken
  BY DEF CloseAndSend, CloseFails, Inv, Place, CurrentFile
<1>2. cur \in 1 .. Len(files) /\ files[cur] \in File BY <1>1 DEF Inv, TypeOK
<1>3. pc' \in {"open", "extend", "down", "idle"}
  BY DEF CloseAndSend, CloseFails, AfterClose, StartSession, Extend, ReturnError, Return
<1>4. CASE CloseAndSend
  <2>1. PICK keep \in BOOLEAN : files' = [files EXCEPT ![cur] = Sent(files[cur], keep)]
    BY <1>4, WriterAssumption DEF CloseAndSend
  <2>2. Shrinks /\ OnlyChanged(cur) /\ files'[cur] = Sent(files[cur], keep)
    BY <1>2, <2>1, FileAfter, OneShrinks DEF Inv
  <2>3. files'[cur].state = "sent" BY <1>2, <2>2, FileAfter
  <2>4. Unsent' \subseteq Unsent BY <1>1, <2>2, <2>3, UnsentAfter DEF Inv
  <2>5. faults' = faults BY <1>4 DEF CloseAndSend
  <2> QED BY <1>1, <1>3, <2>4, <2>5, NoMoreStranded
<1>5. CASE CloseFails
  <2>1. \E g : Stays(files[cur], g) /\ files' = [files EXCEPT ![cur] = g]
    BY <1>2, <1>5, FileAfter DEF CloseFails
  <2>2. Shrinks /\ OnlyChanged(cur) BY <1>2, <2>1, OneShrinks DEF Inv
  <2>3. Unsent' \subseteq Unsent \cup {cur} BY <1>1, <2>2, UnsentAfter DEF Inv
  <2>4. faults' = faults + 1 BY <1>5 DEF CloseFails, Fault
  <2> QED BY <1>1, <1>3, <2>3, <2>4, OneStranded
<1> QED BY <1>4, <1>5

LEMMA PieceStorage ==
  ASSUME Inv, UnsentInv, WriteChunk \/ \E n \in 0 .. DataLen : ChunkFails(n)
  PROVE  UnsentInv'
<1>1. /\ pc = "bytes" /\ cur # 0 /\ cur' = cur /\ taken' = taken
      /\ pc' \in {"bytes", "close"} /\ faults' \in {faults, faults + 1}
  BY DEF WriteChunk, ChunkFails, Storing, Fault, Inv, Place, CurrentFile
<1>2. cur \in 1 .. Len(files) /\ files[cur] \in File BY <1>1 DEF Inv, TypeOK
<1>3. \E g : Stays(files[cur], g) /\ files' = [files EXCEPT ![cur] = g]
  BY <1>2, FileAfter DEF WriteChunk, ChunkFails
<1>4. Shrinks /\ OnlyChanged(cur) BY <1>2, <1>3, OneShrinks DEF Inv
<1>5. cur \notin Unsent' BY <1>1 DEF Unsent
<1>6. Unsent' \subseteq Unsent BY <1>1, <1>4, <1>5, UnsentAfter DEF Inv
<1> QED BY <1>1, <1>6, NoMoreStranded

LEMMA TakeAwayStorage ==
  ASSUME Inv, UnsentInv, NEW i \in Present, TakeAway(i)
  PROVE  UnsentInv'
<1>1. i \in 1 .. Len(files) /\ files[i] \in File BY PresentFiles DEF Inv
<1>2. cur' = cur /\ pc' = pc /\ scan' = scan /\ faults' = faults /\ taken' = taken + 1
  BY DEF TakeAway
<1>3. Shrinks /\ OnlyChanged(i) /\ files'[i] = Gone(files[i])
  BY <1>1, FileAfter, OneShrinks DEF TakeAway, Inv
<1>4. ~ files'[i].present BY <1>1, <1>3, FileAfter
<1>5. Unsent' \subseteq Unsent BY <1>2, <1>3, <1>4, UnsentAfter DEF Inv
<1>6. /\ Cardinality(Unsent) \in Nat /\ faults \in Nat /\ taken \in Nat
      /\ Cardinality(Unsent') \in Nat /\ Cardinality(Unsent') <= Cardinality(Unsent)
  BY <1>5, Counted, NoMore DEF Inv
<1> QED BY <1>2, <1>5, <1>6 DEF UnsentInv, Causes

LEMMA CrashStorage ==
  ASSUME Inv, UnsentInv, NEW n \in 0 .. DataLen, Crash(n)
  PROVE  UnsentInv'
<1>1. pc' = "down" /\ cur' = 0 /\ faults' = faults + 1 /\ taken' = taken
  BY DEF Crash, Return, Fault
<1>2. CASE cur # 0
  <2>1. cur \in 1 .. Len(files) /\ files[cur] \in File BY <1>2 DEF Inv, TypeOK
  <2> DEFINE b == BytesOf(Rec, off, off + n)
  <2>2. files' = [files EXCEPT ![cur] = Ended(Extended(files[cur], b), "closed")]
    BY <1>2 DEF Crash
  <2> HIDE DEF b
  <2>3. Stays(files[cur], Ended(Extended(files[cur], b), "closed")) BY <2>1, FileAfter
  <2>4. Shrinks /\ OnlyChanged(cur) BY <2>1, <2>2, <2>3, OneShrinks DEF Inv
  <2>5. Unsent' \subseteq Unsent \cup {cur} BY <1>1, <2>4, UnsentAfter DEF Inv
  <2> QED BY <1>1, <2>5, OneStranded
<1>3. CASE cur = 0
  <2>1. files' = files \/ \E id \in FreeIds : Makes(id)
    <3>1. files \in Seq(File) BY DEF Inv, TypeOK
    <3>2. PICK orphan \in {<<>>} \cup {<<NewFile(id, FALSE)>> : id \in FreeIds} :
            files' = files \o orphan
      BY <1>3 DEF Crash
    <3>3. CASE orphan = <<>> BY <3>1, <3>2, <3>3
    <3>4. CASE orphan # <<>>
      <4>1. PICK id \in FreeIds : orphan = <<NewFile(id, FALSE)>> BY <3>2, <3>4
      <4>2. NewFile(id, FALSE) \in File BY FreeNat, FileMade DEF Inv
      <4>3. files' = Append(files, NewFile(id, FALSE)) BY <3>1, <3>2, <4>1, <4>2, Joined
      <4> QED BY <4>3 DEF Makes
    <3> QED BY <3>3, <3>4
  <2>2. Unsent' \subseteq Unsent \cup {Len(files) + 1}
    BY <1>1, <1>3, <2>1, UnsentSame, UnsentMade DEF Inv
  <2> QED BY <1>1, <2>2, OneStranded
<1> QED BY <1>2, <1>3

LEMMA NextKeepsUnsent ==
  ASSUME Inv, UnsentInv, [Next]_wvars
  PROVE  UnsentInv'
<1>1. CASE \/ \E n \in Lens : BeginWrite(n)
           \/ BuildDataHeader \/ RollWithin \/ RecordComplete \/ TimestampFails
  <2>1. files' = files /\ cur' = cur /\ taken' = taken /\ faults' \in {faults, faults + 1}
    BY <1>1 DEF BeginWrite, BuildDataHeader, RollWithin, RecordComplete, TimestampFails,
                Fault
  <2>2. /\ pc \in {"idle", "build", "bytes"}
        /\ pc' \in {"open", "close", "build", "bytes", "idle"}
    BY <1>1 DEF BeginWrite, StartSession, BuildDataHeader, RollWithin, Storing,
                RecordComplete, TimestampFails, Return
  <2>3. Unsent' = Unsent BY <2>1, UnsentSame
  <2> QED BY <2>1, <2>2, <2>3, NoMoreStranded
<1>2. CASE Caller
  BY <1>1, <1>2, NewStorage, BeginClearStorage, DropStorage DEF Caller
<1>3. CASE Step
  BY <1>1, <1>3, ResendStorage, ClearStepStorage, FirstSessionStorage, CreateStorage,
     CloseStorage, PieceStorage
  DEF Step
<1>4. CASE Environment BY <1>4, TakeAwayStorage, CrashStorage DEF Environment
<1>5. CASE UNCHANGED wvars
  BY <1>5, UnsentSame DEF wvars, UnsentInv, Causes
<1> QED BY <1>2, <1>3, <1>4, <1>5 DEF Next

\* send_existing, close_and_send and clear leave no file behind that no failure
\* accounts for: storage does not fill with files nobody has been handed, whatever
\* the number of records and writers.
THEOREM FewStranded == Spec => []StorageBounded
<1>1. Init => UnsentInv
  <2>1. Init => Unsent = {} /\ faults = 0 /\ taken = 0 /\ pc = "down"
    BY DEF Init, Unsent, Present
  <2> QED BY <2>1, FS_EmptySet DEF UnsentInv, Causes
<1>2. Inv /\ UnsentInv /\ [Next]_wvars => UnsentInv' BY NextKeepsUnsent
<1>3. UnsentInv => StorageBounded
  BY DEF UnsentInv, StorageBounded, Unsent, Causes
<1> QED BY <1>1, <1>2, <1>3, Invariance, PTL DEF Spec

-----------------------------------------------------------------------------
(* What any step does to the files: headers stay; a file is made behind    *)
(* the others, or the current one grows, or all data stays too.            *)

FileMadeBehind ==
  /\ Creating /\ files' \in Seq(File) /\ Len(files') = Len(files) + 1
  /\ \A i \in 1 .. Len(files) : files'[i] = files[i]
  /\ files'[Len(files) + 1].data = <<>>
  /\ files'[Len(files) + 1].seq = sequence
  /\ files'[Len(files) + 1].remaining = left

CurrentGrows ==
  cur # 0 /\ \E n \in Nat : PieceAdded(n) /\ (n > 0 => pc = "bytes")

FilesMoved == FilesKept \/ FileMadeBehind \/ CurrentGrows

LEMMA MadeBehind ==
  ASSUME Inv, Creating, NEW id \in FreeIds, NEW whole \in BOOLEAN,
         files' = Append(files, NewFile(id, whole))
  PROVE  FileMadeBehind
<1>1. files \in Seq(File) /\ id \in Nat BY FreeNat DEF Inv, TypeOK
<1>2. /\ NewFile(id, whole) \in File /\ NewFile(id, whole).data = <<>>
      /\ NewFile(id, whole).seq = sequence /\ NewFile(id, whole).remaining = left
  BY <1>1, FileMade DEF Inv
<1> QED BY <1>1, <1>2, Appended DEF FileMadeBehind

LEMMA CallerMoves ==
  ASSUME Inv, Caller
  PROVE  FilesKept
<1>1. ASSUME NEW anchor \in 1 .. MaxAnchor, New(anchor) PROVE FilesKept
  BY <1>1, UnchangedKept DEF New, Inv
<1>2. ASSUME NEW n \in Lens, BeginWrite(n) PROVE FilesKept
  BY <1>2, UnchangedKept DEF BeginWrite, Inv
<1>3. CASE cur = 0 /\ (BeginClear \/ Drop)
  BY <1>3, UnchangedKept DEF BeginClear, Drop, Inv
<1>4. CASE cur # 0 /\ (BeginClear \/ Drop)
  <2>1. cur \in 1 .. Len(files) /\ files[cur] \in File BY <1>4 DEF Inv, TypeOK
  <2>2. \E g : Touched(files[cur], g) /\ files' = [files EXCEPT ![cur] = g]
    BY <1>4, <2>1, FileTouched, WriterAssumption DEF BeginClear, Drop
  <2> QED BY <2>1, <2>2, TouchedKept DEF Inv
<1> QED BY <1>1, <1>2, <1>3, <1>4 DEF Caller

\* A step of a call that stores no piece of a record.
LEMMA QuietStepMoves ==
  ASSUME Inv, Step, ~ WriteChunk, \A n \in 0 .. DataLen : ~ ChunkFails(n)
  PROVE  FilesKept \/ FileMadeBehind
<1>1. ASSUME NEW i \in scan, Resend(i) \/ ClearStep(i) PROVE FilesKept
  <2>1. i \in 1 .. Len(files) /\ files[i] \in File BY DEF Inv, TypeOK
  <2>2. CASE files' = files BY <2>2, UnchangedKept DEF Inv
  <2>3. CASE files' # files
    <3>1. \E g : Touched(files[i], g) /\ files' = [files EXCEPT ![i] = g]
      BY <1>1, <2>1, <2>3, FileTouched, WriterAssumption DEF Resend, ClearStep
    <3> QED BY <2>1, <3>1, TouchedKept DEF Inv
  <2> QED BY <2>2, <2>3
<1>2. CASE \/ FirstSession \/ ClearDone \/ BuildDataHeader \/ RollWithin
          \/ RecordComplete \/ TimestampFails
  <2>1. files' = files
    BY <1>2 DEF FirstSession, ClearDone, BuildDataHeader, RollWithin, RecordComplete,
                TimestampFails
  <2> QED BY <2>1, UnchangedKept DEF Inv
<1>3. ASSUME NEW id \in FreeIds, CreateSegment(id) \/ HeaderFails(id)
      PROVE  FileMadeBehind
  BY <1>3, MadeBehind DEF CreateSegment, HeaderFails
<1>4. ASSUME NEW id \in FreeIds, CreateFails(id) PROVE FilesKept
  BY <1>4, UnchangedKept DEF CreateFails, Inv
<1>5. CASE CloseAndSend \/ CloseFails
  <2>1. cur # 0 BY <1>5 DEF CloseAndSend, CloseFails, Inv, Place, CurrentFile
  <2>2. cur \in 1 .. Len(files) /\ files[cur] \in File BY <2>1 DEF Inv, TypeOK
  <2>3. \E g : Touched(files[cur], g) /\ files' = [files EXCEPT ![cur] = g]
    BY <1>5, <2>2, FileTouched, WriterAssumption DEF CloseAndSend, CloseFails
  <2> QED BY <2>2, <2>3, TouchedKept DEF Inv
<1> QED BY <1>1, <1>2, <1>3, <1>4, <1>5 DEF Step

LEMMA StepMoves ==
  ASSUME Inv, Step
  PROVE  FilesMoved
<1>1. CASE WriteChunk
  <2>1. /\ cur # 0 /\ Take \in Nat /\ pc = "bytes"
    BY <1>1, TakeFits DEF WriteChunk, Storing, Inv, Place, CurrentFile
  <2>2. PieceAdded(Take) BY <1>1, <2>1, PieceKept DEF WriteChunk, Inv
  <2> QED BY <2>1, <2>2 DEF FilesMoved, CurrentGrows
<1>2. ASSUME NEW n \in 0 .. DataLen, ChunkFails(n) PROVE CurrentGrows
  <2>1. cur # 0 /\ n \in Nat /\ pc = "bytes"
    BY <1>2, FormatAssumption DEF ChunkFails, Storing, Inv, Place, CurrentFile
  <2>2. PieceAdded(n) BY <1>2, <2>1, PieceKept DEF ChunkFails, Inv
  <2> QED BY <2>1, <2>2 DEF CurrentGrows
<1> QED BY <1>1, <1>2, QuietStepMoves DEF FilesMoved

\* A writer that dies with no file open may have been making one.
LEMMA DeathMoves ==
  ASSUME Inv, NEW n, Crash(n), cur = 0
  PROVE  FilesKept \/ FileMadeBehind
<1>1. files \in Seq(File) BY DEF Inv, TypeOK
<1>2. PICK orphan \in {<<>>} \cup
                      (IF Creating THEN {<<NewFile(id, FALSE)>> : id \in FreeIds}
                                   ELSE {}) :
        files' = files \o orphan
  BY DEF Crash
<1>3. CASE orphan = <<>>
  <2>1. files' = files BY <1>1, <1>2, <1>3
  <2> QED BY <2>1, UnchangedKept DEF Inv
<1>4. CASE orphan # <<>>
  <2>1. Creating /\ \E id \in FreeIds : orphan = <<NewFile(id, FALSE)>> BY <1>2, <1>4
  <2>2. PICK id \in FreeIds : orphan = <<NewFile(id, FALSE)>> BY <2>1
  <2>3. NewFile(id, FALSE) \in File BY FreeNat, FileMade DEF Inv
  <2>4. files' = Append(files, NewFile(id, FALSE)) BY <1>1, <1>2, <2>2, <2>3, Joined
  <2> QED BY <2>1, <2>4, MadeBehind
<1> QED BY <1>3, <1>4

LEMMA EnvironmentMoves ==
  ASSUME Inv, Environment
  PROVE  FilesMoved
<1>1. ASSUME NEW i \in Present, TakeAway(i) PROVE FilesKept
  <2>1. i \in 1 .. Len(files) /\ files[i] \in File BY DEF Inv, TypeOK, Present
  <2> QED BY <1>1, <2>1, FileTouched, TouchedKept DEF TakeAway, Inv
<1>2. ASSUME NEW n \in 0 .. DataLen, Crash(n) PROVE FilesMoved
  <2>1. n \in Nat /\ (n > 0 => pc = "bytes")
    BY <1>2, FormatAssumption DEF Crash, Storing
  <2>2. CASE cur # 0
    <3>1. cur \in 1 .. Len(files) BY <2>2 DEF Inv, TypeOK
    <3>2. PieceAdded(n) BY <1>2, <2>1, <2>2, <3>1, PieceKept DEF Crash, Inv
    <3> QED BY <2>1, <2>2, <3>2 DEF FilesMoved, CurrentGrows
  <2>3. CASE cur = 0 BY <1>2, <2>3, DeathMoves DEF FilesMoved
  <2> QED BY <2>2, <2>3
<1> QED BY <1>1, <1>2 DEF Environment, FilesMoved

LEMMA NextMoves ==
  ASSUME Inv, [Next]_wvars
  PROVE  FilesMoved
<1>1. CASE UNCHANGED wvars BY <1>1, UnchangedKept DEF wvars, FilesMoved, Inv
<1> QED BY <1>1, CallerMoves, StepMoves, EnvironmentMoves DEF Next, FilesMoved

-----------------------------------------------------------------------------
(* What any step does to the records: one is added, or not; a failure is   *)
(* final, and a count too, once build_data_header has written it.          *)

Begun == back \in {"build", "bytes", "error"} => records[Rec].status = "writing"

Follows(r, q) == q.count = r.count /\ (r.status = "failed" => q.status = "failed")

RecordsFollow ==
  /\ records' \in Seq(Record) /\ Len(records') \in {Len(records), Len(records) + 1}
  /\ \A r \in 1 .. Len(records) : Follows(records[r], records'[r])

LEMMA SameFollow ==
  ASSUME TypeOK, records' = records
  PROVE  RecordsFollow
BY DEF TypeOK, RecordsFollow, Follows

LEMMA StatusFollows ==
  ASSUME TypeOK, records # <<>>, NEW s \in {"acked", "failed"}, SetStatus(s),
         records[Rec].status = "failed" => s = "failed"
  PROVE  /\ RecordsFollow /\ Len(records') = Len(records)
         /\ records'[Rec].status = s
<1>1. records \in Seq(Record) /\ Rec \in 1 .. Len(records) BY DEF TypeOK, Rec
<1>2. records[Rec] \in Record BY <1>1
<1> DEFINE g == [records[Rec] EXCEPT !.status = s]
<1>3. g \in Record /\ g.status = s /\ Follows(records[Rec], g) BY <1>2 DEF Record, Follows
<1>4. records' = [records EXCEPT ![Rec] = g] BY DEF SetStatus
<1> HIDE DEF g
<1>5. /\ records' \in Seq(Record) /\ Len(records') = Len(records) /\ records'[Rec] = g
      /\ \A j \in 1 .. Len(records) : j # Rec => records'[j] = records[j]
  BY <1>1, <1>3, <1>4, Replaced
<1> QED BY <1>3, <1>5 DEF RecordsFollow, Follows

LEMMA CrashFollows ==
  ASSUME TypeOK, NEW n, Crash(n)
  PROVE  /\ RecordsFollow /\ Len(records') = Len(records)
         /\ \A r \in 1 .. Len(records) :
              records[r].status = "writing" => records'[r].status = "failed"
<1>1. records \in Seq(Record) BY DEF TypeOK
<1> DEFINE g(r) == IF records[r].status = "writing"
                   THEN [records[r] EXCEPT !.status = "failed"] ELSE records[r]
<1>2. records' = [r \in 1 .. Len(records) |-> g(r)] BY <1>1 DEF Crash
<1>3. \A r \in 1 .. Len(records) :
        /\ g(r) \in Record /\ Follows(records[r], g(r))
        /\ records[r].status = "writing" => g(r).status = "failed"
  <2> TAKE r \in 1 .. Len(records)
  <2>1. records[r] \in Record BY <1>1
  <2> QED BY <2>1 DEF Record, Follows
<1> HIDE DEF g
<1>4. records' \in Seq(Record) /\ Len(records') = Len(records) BY <1>1, <1>2, <1>3
<1> QED BY <1>2, <1>3, <1>4 DEF RecordsFollow

\* A file of the session in progress is open, or the next one is to be made.
InSession == cur # 0 \/ pc = "extend"

\* What a step other than build_data_header does: the record count stays or is
\* reset, and a session that goes on goes on with it.
CountMoves ==
  /\ Begun' /\ RecordsFollow
  /\ recordCount' \in {0, recordCount}
  /\ back' = "bytes" =>
       back = "bytes" /\ Len(records') = Len(records) /\ recordCount' = recordCount
  /\ back' = "build" =>
       \/ back = "build" /\ Len(records') = Len(records)
       \/ Len(records') = Len(records) + 1 /\ files' = files
  /\ back' = "build" /\ why' # "session" =>
       \/ recordCount' = 0 \/ recordCount' < RecordCountMax \/ Format # "tsrc"
       \/ back = "build" /\ why # "session" /\ recordCount' = recordCount
  /\ InSession' =>
       recordCount' = recordCount /\ (InSession \/ (pc = "open" /\ FileMadeBehind))

LEMMA CallerCounts ==
  ASSUME Inv, Begun, Caller
  PROVE  CountMoves
<1>1. ASSUME NEW anchor \in 1 .. MaxAnchor, New(anchor) PROVE CountMoves
  <2>1. RecordsFollow BY <1>1, SameFollow DEF New, Inv
  <2> QED BY <1>1, <2>1
    DEF New, CountMoves, Begun, InSession, Rec, Inv, Place, Control, CurrentFile
<1>2. ASSUME NEW n \in Lens, BeginWrite(n) PROVE CountMoves
  <2> DEFINE r == [len |-> n, count |-> 0, status |-> "writing"]
  <2>1. records \in Seq(Record) BY DEF Inv, TypeOK
  <2>2. r \in Record BY WriterAssumption DEF Record
  <2>3. records' = Append(records, r) BY <1>2 DEF BeginWrite
  <2>4. r.status = "writing" OBVIOUS
  <2> HIDE DEF r
  <2>5. /\ records' \in Seq(Record) /\ Len(records') = Len(records) + 1
        /\ records'[Len(records')].status = "writing"
        /\ \A j \in 1 .. Len(records) : records'[j] = records[j]
    BY <2>1, <2>2, <2>3, <2>4, Appended
  <2>6. RecordsFollow BY <2>5 DEF RecordsFollow, Follows
  <2>7. Begun' BY <2>5 DEF Begun, Rec
  <2>8. /\ back' = "build" /\ files' = files /\ cur' = cur
        /\ recordCount' \in {0, recordCount}
        /\ cur = 0 => pc' = "open" /\ recordCount' = 0
        /\ cur # 0 => recordCount' = recordCount /\ pc' # "extend"
    BY <1>2 DEF BeginWrite, StartSession
  <2>9. why' # "session" =>
          recordCount' = 0 \/ recordCount' < RecordCountMax \/ Format # "tsrc"
    <3>1. recordCount \in Nat /\ RecordCountMax \in Nat
      BY WriterAssumption DEF Inv, TypeOK
    <3>2. cur # 0 /\ why' # "session" => ~ (Format = "tsrc" /\ recordCount >= RecordCountMax)
      BY <1>2 DEF BeginWrite
    <3> QED BY <2>8, <3>1, <3>2
  <2> QED BY <2>5, <2>6, <2>7, <2>8, <2>9 DEF CountMoves, InSession
<1>3. CASE BeginClear \/ Drop
  <2>1. RecordsFollow BY <1>3, SameFollow DEF BeginClear, Drop, Inv
  <2>2. back' = "none" /\ recordCount' = recordCount /\ cur' = 0 /\ pc' # "extend"
    BY <1>3 DEF BeginClear, Drop, Return, Inv, Place, Control
  <2> QED BY <2>1, <2>2 DEF CountMoves, InSession, Begun
<1> QED BY <1>1, <1>2, <1>3 DEF Caller

\* A step that ends a call, with a verdict on the record if it was a write, keeps
\* the counts.
LEMMA ReturnCounts ==
  ASSUME Inv, back' = "none", recordCount' = recordCount, RecordsFollow,
         pc' # "extend", cur' # 0 => InSession \/ (pc = "open" /\ FileMadeBehind)
  PROVE  CountMoves
BY DEF CountMoves, InSession, Begun

LEMMA ErrorFollows ==
  ASSUME Inv, pc \in {"open", "extend", "close"}, ReturnError
  PROVE  /\ RecordsFollow /\ back' = "none" /\ pc' \in {"idle", "down"}
         /\ back \in {"build", "bytes", "error"} =>
              Len(records') = Len(records) /\ records'[Rec].status = "failed"
<1>1. CASE back = "ready"
  <2>1. records' = records BY <1>1 DEF ReturnError
  <2> QED BY <1>1, <2>1, SameFollow DEF Inv, ReturnError, Return
<1>2. CASE back # "ready"
  <2>1. back \in {"build", "bytes", "error"}
    BY <1>2 DEF Inv, TypeOK, Place, Control
  <2>2. records # <<>> BY <2>1 DEF Inv, Place, Owing
  <2>3. SetStatus("failed") BY <1>2 DEF ReturnError
  <2> QED BY <1>2, <2>2, <2>3, StatusFollows DEF Inv, ReturnError, Return
<1> QED BY <1>1, <1>2

LEMMA CreateCounts ==
  ASSUME Inv, Begun, NEW id \in FreeIds,
         CreateSegment(id) \/ HeaderFails(id) \/ CreateFails(id)
  PROVE  CountMoves
<1>1. pc \in {"open", "extend"} /\ cur = 0
  BY DEF CreateSegment, HeaderFails, CreateFails, Creating, Inv, Place, CurrentFile
<1>2. CASE HeaderFails(id) \/ CreateFails(id)
  <2>1. ReturnError /\ recordCount' = recordCount /\ cur' = 0
    BY <1>1, <1>2 DEF HeaderFails, CreateFails
  <2> QED BY <1>1, <2>1, ErrorFollows, ReturnCounts
<1>3. CASE CreateSegment(id)
  <2>1. files' = Append(files, NewFile(id, TRUE)) /\ recordCount' = recordCount
    BY <1>3 DEF CreateSegment
  <2>2. FileMadeBehind BY <1>3, <2>1, MadeBehind DEF CreateSegment
  <2>3. CASE back = "ready"
    <3>1. RecordsFollow BY <1>3, <2>3, SameFollow DEF CreateSegment, Created, Inv
    <3>2. back' = "none" /\ pc' = "idle" BY <1>3, <2>3 DEF CreateSegment, Created, Return
    <3> QED BY <1>1, <2>1, <2>2, <3>1, <3>2, ReturnCounts DEF InSession
  <2>4. CASE back = "error"
    <3>1. records # <<>> BY <2>4 DEF Inv, Place, Owing
    <3>2. SetStatus("failed") BY <1>3, <2>4 DEF CreateSegment, Created
    <3>3. RecordsFollow BY <3>1, <3>2, StatusFollows DEF Inv
    <3>4. back' = "none" /\ pc' = "idle" BY <1>3, <2>4 DEF CreateSegment, Created, Return
    <3> QED BY <1>1, <2>1, <2>2, <3>3, <3>4, ReturnCounts DEF InSession
  <2>5. CASE back \in {"build", "bytes"}
    <3>1. pc' = back /\ back' = back /\ why' = why /\ records' = records
      BY <1>3, <2>5 DEF CreateSegment, Created
    <3>2. RecordsFollow BY <3>1, SameFollow DEF Inv
    <3>3. Begun' BY <3>1 DEF Begun, Rec
    <3>4. pc = "open" \/ InSession BY <1>1 DEF InSession
    <3> QED BY <2>1, <2>2, <2>5, <3>1, <3>2, <3>3, <3>4 DEF CountMoves, InSession
  <2>6. back \in {"ready", "build", "bytes", "error"}
    BY <1>1 DEF Inv, TypeOK, Place, Control
  <2> QED BY <2>3, <2>4, <2>5, <2>6
<1> QED BY <1>2, <1>3

LEMMA CloseCounts ==
  ASSUME Inv, Begun, CloseAndSend \/ CloseFails
  PROVE  CountMoves
<1>1. pc = "close" /\ cur # 0 /\ cur' = 0
  BY DEF CloseAndSend, CloseFails, Inv, Place, CurrentFile
<1>2. CASE CloseFails /\ why # "abandon"
  <2>1. ReturnError /\ recordCount' = recordCount BY <1>2 DEF CloseFails
  <2> QED BY <1>1, <2>1, ErrorFollows, ReturnCounts
<1>3. CASE CloseAndSend \/ (CloseFails /\ why = "abandon")
  <2>1. AfterClose /\ records' = records /\ why' = "none"
    BY <1>3 DEF CloseAndSend, CloseFails
  <2>2. RecordsFollow BY <2>1, SameFollow DEF Inv
  <2>3. CASE why = "session"
    <3>1. back = "build" BY <2>3 DEF Inv, Place, Control
    <3>2. back' = "build" /\ pc' = "open" /\ recordCount' = 0
      BY <2>1, <2>3 DEF AfterClose, StartSession
    <3> QED BY <1>1, <2>1, <2>2, <3>1, <3>2 DEF CountMoves, InSession, Begun, Rec
  <2>4. CASE why # "session"
    <3>1. back' = back /\ recordCount' = recordCount
      BY <2>1, <2>4 DEF AfterClose, Extend
    <3> QED BY <1>1, <2>1, <2>2, <2>4, <3>1 DEF CountMoves, InSession, Begun, Rec
  <2> QED BY <2>3, <2>4
<1> QED BY <1>2, <1>3

LEMMA StepCounts ==
  ASSUME Inv, Begun, Step, ~ BuildDataHeader
  PROVE  CountMoves
<1>1. ASSUME NEW i \in scan, Resend(i) \/ ClearStep(i) PROVE CountMoves
  <2>1. RecordsFollow BY <1>1, SameFollow DEF Resend, ClearStep, Inv
  <2>2. back = "none" /\ cur = 0 /\ pc \in {"resend", "clear"}
    BY <1>1 DEF Resend, ClearStep, Inv, Place, Control, CurrentFile
  <2>3. back' = back /\ cur' = cur /\ recordCount' = recordCount /\ pc' # "extend"
    BY <1>1, <2>2 DEF Resend, ClearStep
  <2> QED BY <2>1, <2>2, <2>3, ReturnCounts
<1>2. CASE FirstSession
  <2>1. RecordsFollow BY <1>2, SameFollow DEF FirstSession, Inv
  <2>2. back' = "ready" /\ recordCount' = 0 /\ pc' = "open" /\ cur' = 0
    BY <1>2 DEF FirstSession, StartSession, Inv, Place, CurrentFile
  <2> QED BY <2>1, <2>2 DEF CountMoves, Begun, InSession
<1>3. CASE ClearDone
  <2>1. RecordsFollow BY <1>3, SameFollow DEF ClearDone, Inv
  <2>2. back' = "none" /\ recordCount' = recordCount /\ pc' = "idle" /\ cur' = 0
    BY <1>3 DEF ClearDone, Inv, Place, Control, CurrentFile
  <2> QED BY <2>1, <2>2, ReturnCounts
<1>4. CASE RollWithin \/ WriteChunk
  <2>1. RecordsFollow BY <1>4, SameFollow DEF RollWithin, WriteChunk, Inv
  <2>2. back = "bytes" /\ cur # 0
    BY <1>4 DEF RollWithin, WriteChunk, Storing, Inv, Place, Control, CurrentFile
  <2>3. back' = back /\ cur' = cur /\ recordCount' = recordCount /\ records' = records
    BY <1>4 DEF RollWithin, WriteChunk
  <2> QED BY <2>1, <2>2, <2>3 DEF CountMoves, Begun, InSession, Rec
<1>5. ASSUME NEW n \in 0 .. DataLen, ChunkFails(n) PROVE CountMoves
  <2>1. RecordsFollow BY <1>5, SameFollow DEF ChunkFails, Inv
  <2>2. back = "bytes" /\ cur # 0
    BY <1>5 DEF ChunkFails, Storing, Inv, Place, Control, CurrentFile
  <2>3. back' = "error" /\ cur' = cur /\ recordCount' = recordCount /\ records' = records
    BY <1>5 DEF ChunkFails
  <2> QED BY <2>1, <2>2, <2>3 DEF CountMoves, Begun, InSession, Rec
<1>6. CASE RecordComplete
  <2>1. back = "bytes" /\ cur # 0 /\ records # <<>>
    BY <1>6 DEF RecordComplete, Inv, Place, Control, CurrentFile, Owing
  <2>2. PICK s \in {"acked", "failed"} : SetStatus(s) BY <1>6 DEF RecordComplete
  <2>3. RecordsFollow BY <2>1, <2>2, StatusFollows DEF Inv, Begun
  <2>4. back' = "none" /\ recordCount' = recordCount /\ pc' = "idle" /\ cur' = cur
    BY <1>6 DEF RecordComplete, Return
  <2> QED BY <2>1, <2>3, <2>4, ReturnCounts DEF InSession
<1>7. CASE TimestampFails
  <2>1. back = "build" /\ cur # 0 /\ records # <<>>
    BY <1>7 DEF TimestampFails, Inv, Place, Control, CurrentFile, Owing
  <2>2. SetStatus("failed") BY <1>7 DEF TimestampFails
  <2>3. RecordsFollow BY <2>1, <2>2, StatusFollows DEF Inv, Begun
  <2>4. back' = "none" /\ recordCount' = recordCount /\ pc' = "idle" /\ cur' = cur
    BY <1>7 DEF TimestampFails, Return
  <2> QED BY <2>1, <2>3, <2>4, ReturnCounts DEF InSession
<1> QED
  BY <1>1, <1>2, <1>3, <1>4, <1>5, <1>6, <1>7, CreateCounts, CloseCounts DEF Step

LEMMA EnvironmentCounts ==
  ASSUME Inv, Begun, Environment
  PROVE  CountMoves
<1>1. ASSUME NEW i \in Present, TakeAway(i) PROVE CountMoves
  <2>1. RecordsFollow BY <1>1, SameFollow DEF TakeAway, Inv
  <2> QED BY <1>1, <2>1 DEF TakeAway, CountMoves, Begun, InSession, Rec
<1>2. ASSUME NEW n \in 0 .. DataLen, Crash(n) PROVE CountMoves
  <2>1. RecordsFollow BY <1>2, CrashFollows DEF Inv
  <2> QED BY <1>2, <2>1, ReturnCounts DEF Crash, Return
<1> QED BY <1>1, <1>2 DEF Environment

\* A step that is not build_data_header.
LEMMA NextCounts ==
  ASSUME Inv, Begun, [Next]_wvars
  PROVE  CountMoves \/ BuildDataHeader
<1>1. CASE UNCHANGED wvars
  <2>1. RecordsFollow BY <1>1, SameFollow DEF wvars, Inv
  <2> QED BY <1>1, <2>1 DEF wvars, CountMoves, Begun, InSession, Rec
<1> QED BY <1>1, CallerCounts, StepCounts, EnvironmentCounts DEF Next

\* build_data_header counts a record that is not on storage yet.
LEMMA HeaderCounts ==
  ASSUME Inv, Begun, BuildDataHeader
  PROVE  /\ Begun' /\ records' \in Seq(Record) /\ Len(records') = Len(records)
         /\ \A r \in 1 .. Len(records) :
              /\ records'[r].status = records[r].status
              /\ r # Rec => records'[r] = records[r]
         /\ Format = "tsrc" =>
              recordCount' = recordCount + 1 /\ records'[Rec].count = recordCount + 1
<1>1. records \in Seq(Record) /\ Rec \in 1 .. Len(records)
  BY DEF Inv, TypeOK, Place, Owing, Control, BuildDataHeader, Rec
<1>2. records[Rec].status = "writing" BY DEF Begun, Inv, Place, Control, BuildDataHeader
<1>3. CASE Format # "tsrc"
  <2>1. records' = records BY <1>3 DEF BuildDataHeader
  <2> QED BY <1>1, <1>2, <1>3, <2>1 DEF Begun, Rec
<1>4. CASE Format = "tsrc"
  <2>1. records[Rec] \in Record /\ recordCount + 1 \in Nat BY <1>1 DEF Inv, TypeOK
  <2> DEFINE g == [records[Rec] EXCEPT !.count = recordCount + 1]
  <2>2. /\ g \in Record /\ g.status = records[Rec].status
        /\ g.count = recordCount + 1
    BY <2>1 DEF Record
  <2>3. records' = [records EXCEPT ![Rec] = g] BY <1>4 DEF BuildDataHeader
  <2> HIDE DEF g
  <2>4. /\ records' \in Seq(Record) /\ Len(records') = Len(records) /\ records'[Rec] = g
        /\ \A j \in 1 .. Len(records) : j # Rec => records'[j] = records[j]
    BY <1>1, <2>2, <2>3, Replaced
  <2>5. Begun' BY <1>2, <2>2, <2>4 DEF Begun, Rec
  <2>6. recordCount' = recordCount + 1 BY <1>4 DEF BuildDataHeader
  <2> QED BY <1>1, <2>2, <2>4, <2>5, <2>6
<1> QED BY <1>3, <1>4

-----------------------------------------------------------------------------
(* Files are filled.                                                       *)

\* A file that is rolled out of, within a record or before one, is full.
FullBehind ==
  /\ pc = "close" /\ why = "roll" => Len(Newest.data) = DataLen
  /\ pc = "extend" /\ back # "error" => Len(Newest.data) = DataLen

\* A file that is followed in its session is full, or ends in a failed record,
\* of which the next owes nothing.
EndsInFailure(i) ==
  /\ files[i + 1].remaining = 0
  /\ \E r \in 1 .. Len(records) :
       /\ records[r].status = "failed"
       /\ \A o \in 1 .. Len(files[i].data) : files[i].data[o][1] <= r

Filled ==
  \A i \in 1 .. Len(files) - 1 :
    files[i + 1].seq > 0 => Len(files[i].data) = DataLen \/ EndsInFailure(i)

FillInv == Begun /\ FullBehind /\ Filled

LEMMA RoomUsed ==
  ASSUME Inv, cur # 0, Room = 0
  PROVE  Len(Newest.data) = DataLen
<1>1. cur = Len(files) /\ files \in Seq(File) /\ cur \in 1 .. Len(files)
  BY DEF Inv, TypeOK, Place, CurrentFile
<1>2. files[cur] \in File BY <1>1
<1>3. files[cur].data \in Seq(Byte) BY <1>2 DEF File
<1>4. Len(files[cur].data) \in Nat BY <1>3
<1>5. Len(files[cur].data) <= DataLen BY <1>1 DEF Inv, FileInv, Contents
<1>6. DataLen - Len(files[cur].data) = 0 BY DEF Room
<1> QED BY <1>1, <1>4, <1>5, <1>6, FormatAssumption DEF Newest

LEMMA NextFullBehind ==
  ASSUME Inv, FullBehind, [Next]_wvars
  PROVE  FullBehind'
<1>1. ASSUME NEW n \in Lens, BeginWrite(n) PROVE FullBehind'
  <2>1. Newest' = Newest BY <1>1 DEF BeginWrite, Newest
  <2>2. pc' # "extend" BY <1>1 DEF BeginWrite, StartSession
  <2>3. pc' = "close" /\ why' = "roll" => cur # 0 /\ Room = 0
    BY <1>1 DEF BeginWrite, StartSession
  <2> QED BY <2>1, <2>2, <2>3, RoomUsed DEF FullBehind
<1>2. CASE RollWithin
  <2>1. Newest' = Newest BY <1>2 DEF RollWithin, Newest
  <2>2. pc' = "close" /\ cur # 0 /\ Room = 0
    BY <1>2 DEF RollWithin, Storing, Inv, Place, CurrentFile
  <2> QED BY <2>1, <2>2, RoomUsed DEF FullBehind
<1>3. CASE CloseAndSend \/ CloseFails
  <2>1. pc = "close" /\ cur # 0
    BY <1>3 DEF CloseAndSend, CloseFails, Inv, Place, CurrentFile
  <2>2. cur \in 1 .. Len(files) /\ files[cur] \in File BY <2>1 DEF Inv, TypeOK
  <2>3. \E g : Touched(files[cur], g) /\ files' = [files EXCEPT ![cur] = g]
    BY <1>3, <2>2, FileTouched, WriterAssumption DEF CloseAndSend, CloseFails
  <2>4. FilesKept BY <2>2, <2>3, TouchedKept DEF Inv
  <2>5. files # <<>> BY <2>2 DEF Inv, TypeOK
  <2>6. Newest'.data = Newest.data BY <2>4, <2>5, KeptLast DEF Inv
  <2>7. pc' # "close"
    BY <1>3 DEF CloseAndSend, CloseFails, AfterClose, StartSession, Extend, ReturnError,
                Return
  <2>8. pc' = "extend" /\ back' # "error" => why = "roll"
    <3>1. why \in {"roll", "session", "abandon"} BY <2>1 DEF Inv, TypeOK, Place, Control
    <3>2. why = "abandon" => back = "error" BY DEF Inv, Place, Control
    <3> QED
      BY <1>3, <3>1, <3>2 DEF CloseAndSend, CloseFails, AfterClose, StartSession, Extend,
                              ReturnError, Return
  <2> QED BY <2>1, <2>6, <2>7, <2>8 DEF FullBehind
<1>4. ASSUME NEW i \in Present, TakeAway(i) PROVE FullBehind'
  <2>1. i \in 1 .. Len(files) /\ files[i] \in File BY DEF Inv, TypeOK, Present
  <2>2. FilesKept BY <1>4, <2>1, FileTouched, TouchedKept DEF TakeAway, Inv
  <2>3. files # <<>> BY <2>1 DEF Inv, TypeOK
  <2>4. Newest'.data = Newest.data BY <2>2, <2>3, KeptLast DEF Inv
  <2> QED BY <1>4, <2>4 DEF TakeAway, FullBehind
<1>5. CASE UNCHANGED wvars BY <1>5 DEF wvars, FullBehind, Newest
<1>6. CASE \/ ClearDone \/ FirstSession \/ BuildDataHeader \/ RecordComplete \/ WriteChunk
          \/ TimestampFails
  BY <1>6 DEF ClearDone, FirstSession, StartSession, BuildDataHeader, RecordComplete,
              TimestampFails, Return, WriteChunk, Storing, FullBehind
<1>7. CASE (\E anchor \in 1 .. MaxAnchor : New(anchor)) \/ BeginClear \/ Drop
  BY <1>7 DEF New, BeginClear, Drop, Return, FullBehind
<1>8. ASSUME NEW i \in scan, Resend(i) \/ ClearStep(i) PROVE FullBehind'
  BY <1>8 DEF Resend, ClearStep, FullBehind
<1>9. ASSUME NEW id \in FreeIds, CreateSegment(id) \/ HeaderFails(id) \/ CreateFails(id)
      PROVE  FullBehind'
  <2>1. back \in {"ready", "build", "bytes", "error"}
    BY <1>9 DEF CreateSegment, HeaderFails, CreateFails, Creating, Inv, TypeOK, Place,
                Control
  <2> QED
    BY <1>9, <2>1 DEF CreateSegment, HeaderFails, CreateFails, Created, ReturnError,
                      Return, FullBehind
<1>10. ASSUME NEW n \in 0 .. DataLen, ChunkFails(n) \/ Crash(n) PROVE FullBehind'
  BY <1>10 DEF ChunkFails, Crash, Return, FullBehind
<1> QED
  BY <1>1, <1>2, <1>3, <1>4, <1>5, <1>6, <1>7, <1>8, <1>9, <1>10
  DEF Next, Caller, Step, Environment

\* Who makes the file behind a failed write has failed the record.
LEMMA FailedBehind ==
  ASSUME Inv, Begun, [Next]_wvars, FileMadeBehind, back = "error"
  PROVE  Len(records') = Len(records) /\ records'[Rec].status = "failed"
<1>1. /\ records # <<>> /\ records \in Seq(Record) /\ Rec \in 1 .. Len(records)
      /\ records[Rec].status = "writing" /\ pc = "extend"
  BY DEF FileMadeBehind, Creating, Inv, TypeOK, Place, Control, Owing, Begun, Rec
<1>2. files' # files
  <2>1. Len(files) \in Nat /\ Len(files') = Len(files) + 1 BY DEF Inv, TypeOK, FileMadeBehind
  <2> QED BY <2>1
<1>3. ASSUME NEW id \in FreeIds, CreateSegment(id)
      PROVE  Len(records') = Len(records) /\ records'[Rec].status = "failed"
  <2>1. SetStatus("failed") BY <1>3 DEF CreateSegment, Created
  <2> QED BY <1>1, <2>1, StatusFollows DEF Inv
<1>4. ASSUME NEW id \in FreeIds, HeaderFails(id)
      PROVE  Len(records') = Len(records) /\ records'[Rec].status = "failed"
  BY <1>1, <1>4, ErrorFollows DEF HeaderFails
<1>5. ASSUME NEW n \in 0 .. DataLen, Crash(n)
      PROVE  Len(records') = Len(records) /\ records'[Rec].status = "failed"
  BY <1>1, <1>5, CrashFollows DEF Inv
<1>6. ~ Caller BY <1>1 DEF Caller, New, BeginWrite, BeginClear, Drop
<1>7. ASSUME Step
      PROVE  \E id \in FreeIds : CreateSegment(id) \/ HeaderFails(id)
  BY <1>1, <1>2, <1>7
  DEF Step, Resend, ClearStep, FirstSession, ClearDone, CreateFails, CloseAndSend,
      CloseFails, BuildDataHeader, RollWithin, WriteChunk, ChunkFails, Storing,
      RecordComplete, TimestampFails
<1>8. ASSUME NEW i \in Present, TakeAway(i) PROVE FALSE
  <2>1. Len(files') = Len(files) BY <1>8 DEF TakeAway
  <2>2. Len(files) \in Nat /\ Len(files') = Len(files) + 1 BY DEF Inv, TypeOK, FileMadeBehind
  <2> QED BY <2>1, <2>2
<1> QED BY <1>2, <1>3, <1>4, <1>5, <1>6, <1>7, <1>8 DEF Next, Environment, wvars

\* Every step keeps what is said of two files that were there before it.
LEMMA FilledBefore ==
  ASSUME Inv, Begun, Filled, [Next]_wvars,
         NEW i \in 1 .. Len(files) - 1, files'[i + 1].seq > 0
  PROVE  (Len(files[i].data) = DataLen \/ EndsInFailure(i))'
<1>1. /\ files \in Seq(File) /\ i \in 1 .. Len(files) /\ i + 1 \in 1 .. Len(files)
      /\ i # Len(files) /\ cur \in {0, Len(files)}
  BY DEF Inv, TypeOK, Place, CurrentFile
<1>2. /\ files'[i].data = files[i].data
      /\ files'[i + 1].seq = files[i + 1].seq
      /\ files'[i + 1].remaining = files[i + 1].remaining
  <2>1. CASE FilesKept BY <1>1, <2>1 DEF FilesKept, Touched, SameHeader
  <2>2. CASE FileMadeBehind BY <1>1, <2>2 DEF FileMadeBehind
  <2>3. CASE CurrentGrows
    <3>1. i # cur /\ cur = Len(files) BY <1>1, <2>3 DEF CurrentGrows
    <3>2. \A j \in 1 .. Len(files) : j # cur => files'[j] = files[j]
      BY <2>3 DEF CurrentGrows, PieceAdded
    <3>3. SameHeader(files[cur], files'[cur])
      BY <2>3 DEF CurrentGrows, PieceAdded, Grown
    <3>4. SameHeader(files[i + 1], files'[i + 1])
      BY <1>1, <3>1, <3>2, <3>3 DEF SameHeader
    <3> QED BY <1>1, <3>1, <3>2, <3>4 DEF SameHeader
  <2> QED BY <2>1, <2>2, <2>3, NextMoves DEF FilesMoved
<1>3. \A r \in 1 .. Len(records) :
        records[r].status = "failed" =>
          r \in 1 .. Len(records') /\ records'[r].status = "failed"
  <2>1. Len(records) \in Nat BY DEF Inv, TypeOK
  <2>2. CASE CountMoves BY <2>1, <2>2 DEF CountMoves, RecordsFollow, Follows
  <2>3. CASE BuildDataHeader BY <2>3, HeaderCounts
  <2> QED BY <2>2, <2>3, NextCounts
<1> QED BY <1>1, <1>2, <1>3 DEF Filled, EndsInFailure

LEMMA FilledBehind ==
  ASSUME Inv, Begun, FullBehind, [Next]_wvars, FileMadeBehind,
         NEW i, i = Len(files), i > 0, files'[i + 1].seq > 0
  PROVE  (Len(files[i].data) = DataLen \/ EndsInFailure(i))'
<1>1. files \in Seq(File) /\ i \in 1 .. Len(files) BY DEF Inv, TypeOK
<1>2. /\ files'[i] = Newest /\ files'[i + 1].remaining = left /\ sequence > 0
  BY <1>1 DEF FileMadeBehind, Newest
<1>3. pc = "extend" /\ sequence \in Nat
  BY <1>2 DEF FileMadeBehind, Creating, Inv, TypeOK, Place, Position
<1>4. CASE back # "error" BY <1>2, <1>3, <1>4 DEF FullBehind
<1>5. CASE back = "error"
  <2>1. left = 0 BY <1>3, <1>5 DEF Inv, Place, Owing
  <2>2. Len(records') = Len(records) /\ records'[Rec].status = "failed"
    BY <1>5, FailedBehind
  <2>3. records \in Seq(Record) /\ Rec \in 1 .. Len(records)
    BY <1>5 DEF Inv, TypeOK, Place, Owing, Rec
  <2>4. \A o \in 1 .. Len(Newest.data) : Newest.data[o][1] \in 1 .. Len(records)
    BY <1>1 DEF Inv, FileInv, Contents, Newest
  <2>5. \A o \in 1 .. Len(Newest.data) : Newest.data[o][1] <= Rec
    BY <2>3, <2>4 DEF Rec
  <2> QED BY <1>2, <2>1, <2>2, <2>3, <2>5 DEF EndsInFailure
<1> QED BY <1>4, <1>5

LEMMA NextFills ==
  ASSUME Inv, FillInv, [Next]_wvars
  PROVE  FillInv'
<1>1. Begun'
  <2>1. CASE CountMoves BY <2>1 DEF CountMoves
  <2>2. CASE BuildDataHeader BY <2>2, HeaderCounts DEF FillInv
  <2> QED BY <2>1, <2>2, NextCounts DEF FillInv
<1>2. FullBehind' BY NextFullBehind DEF FillInv
<1>3. Filled'
  <2> SUFFICES ASSUME NEW i \in 1 .. Len(files') - 1, files'[i + 1].seq > 0
               PROVE  (Len(files[i].data) = DataLen \/ EndsInFailure(i))'
    BY DEF Filled
  <2>1. Len(files) \in Nat /\ Len(files') \in {Len(files), Len(files) + 1}
    BY NextMoves DEF Inv, TypeOK, FilesMoved, FilesKept, FileMadeBehind, CurrentGrows,
                     PieceAdded
  <2>2. CASE i \in 1 .. Len(files) - 1 BY <2>2, FilledBefore DEF FillInv
  <2>3. CASE i \notin 1 .. Len(files) - 1
    <3>1. i = Len(files) /\ i > 0 /\ Len(files') # Len(files) BY <2>1, <2>3
    <3>2. FileMadeBehind
      BY <3>1, NextMoves DEF FilesMoved, FilesKept, CurrentGrows, PieceAdded
    <3> QED BY <3>1, <3>2, FilledBehind DEF FillInv
  <2> QED BY <2>2, <2>3
<1> QED BY <1>1, <1>2, <1>3 DEF FillInv

\* write_bytes leaves no hole: a file short of its size, with another of its session
\* behind it, ends in a record whose write has failed, and that other file starts with
\* a record, for any lengths of records and files.
THEOREM ShortOnlyByFailure == Spec => []OnlyFailureLeavesShort
<1>1. Init => FillInv BY DEF Init, FillInv, Begun, FullBehind, Filled
<1>2. Inv /\ FillInv /\ [Next]_wvars => FillInv' BY NextFills
<1>3. Inv /\ FillInv => OnlyFailureLeavesShort
  <2> SUFFICES ASSUME Inv, FillInv, NEW i \in 1 .. Len(files) - 1, files[i + 1].seq > 0,
                      Len(files[i].data) # DataLen
               PROVE  /\ Len(files[i].data) < DataLen
                      /\ files[i + 1].remaining = 0
                      /\ \E r \in 1 .. Len(records) :
                           /\ records[r].status # "acked"
                           /\ \A o \in 1 .. Len(files[i].data) : files[i].data[o][1] <= r
    BY DEF OnlyFailureLeavesShort
  <2>1. files \in Seq(File) /\ i \in 1 .. Len(files) BY DEF Inv, TypeOK
  <2>2. files[i] \in File BY <2>1
  <2>3. files[i].data \in Seq(Byte) BY <2>2 DEF File
  <2>4. Len(files[i].data) \in Nat /\ Len(files[i].data) <= DataLen
    BY <2>1, <2>3 DEF Inv, FileInv, Contents
  <2>5. Len(files[i].data) < DataLen BY <2>4, FormatAssumption
  <2>6. EndsInFailure(i) BY DEF FillInv, Filled
  <2>7. PICK r \in 1 .. Len(records) :
          /\ records[r].status = "failed"
          /\ \A o \in 1 .. Len(files[i].data) : files[i].data[o][1] <= r
    BY <2>6 DEF EndsInFailure
  <2>8. records[r].status # "acked" BY <2>7
  <2> QED BY <2>5, <2>6, <2>7, <2>8 DEF EndsInFailure
<1> QED BY <1>1, <1>2, <1>3, Invariance, PTL DEF Spec

-----------------------------------------------------------------------------
(* What the counts of a "tsrc" log tell apart.                             *)

\* The count goes no further than a data header can hold.
CountFits ==
  /\ recordCount <= RecordCountMax
  /\ back = "build" /\ why # "session" => recordCount < RecordCountMax

\* The record in progress is on storage only once it has been counted.
CountFirst ==
  /\ back = "build" => StartsIn(Rec) = {}
  /\ back = "bytes" => recordCount \in Nat \ {0} /\ records[Rec].count = recordCount

\* The session in progress has no record with a greater count than the last given.
CountLast ==
  InSession =>
    \A r \in 1 .. Len(records) : \A i \in StartsIn(r) :
      OneSession(i, Len(files)) =>
        /\ records[r].count <= recordCount
        /\ back = "bytes" /\ r # Rec => records[r].count < recordCount

CountsGrow ==
  \A r, s \in 1 .. Len(records) : \A i \in StartsIn(r), j \in StartsIn(s) :
    /\ records[r].count \in 1 .. RecordCountMax
    /\ r < s /\ OneSession(i, j) => records[r].count < records[s].count

CountInv == Begun /\ CountFits /\ CountFirst /\ CountLast /\ CountsGrow

\* A record is a known one in a known file.
LEMMA StartsKnown ==
  ASSUME Inv, NEW r, NEW i \in StartsIn(r)
  PROVE  i \in 1 .. Len(files) /\ r \in 1 .. Len(records)
<1>1. i \in 1 .. Len(files) BY DEF StartsIn
<1>2. PICK o \in 1 .. Len(files[i].data) : files[i].data[o] = <<r, 1>> BY DEF StartsIn
<1>3. files[i].data[o][1] \in 1 .. Len(records) BY <1>1 DEF Inv, FileInv, Contents
<1> QED BY <1>1, <1>2, <1>3

LEMMA StartsSame ==
  ASSUME files' = files, NEW r
  PROVE  StartsIn(r)' = StartsIn(r)
BY DEF StartsIn

\* Only the record in progress is ever begun, in the newest file.
LEMMA StartsAfter ==
  ASSUME Inv, [Next]_wvars, NEW r, NEW i \in StartsIn(r)'
  PROVE  i \in StartsIn(r) \/ (r = Rec /\ i = Len(files) /\ cur # 0 /\ pc = "bytes")
<1>1. files \in Seq(File) /\ off \in Nat /\ records \in Seq(Record) BY DEF Inv, TypeOK
<1>2. PICK o \in 1 .. Len(files'[i].data) : files'[i].data[o] = <<r, 1>> BY DEF StartsIn
<1>3. i \in 1 .. Len(files') BY DEF StartsIn
<1>4. CASE i \in 1 .. Len(files) /\ files'[i].data = files[i].data
  BY <1>2, <1>4 DEF StartsIn
<1>5. CASE FilesKept BY <1>3, <1>4, <1>5 DEF FilesKept, Touched
<1>6. CASE FileMadeBehind
  <2>1. CASE i \in 1 .. Len(files) BY <1>4, <1>6, <2>1 DEF FileMadeBehind
  <2>2. CASE i \notin 1 .. Len(files)
    <3>1. i = Len(files) + 1 BY <1>1, <1>3, <1>6, <2>2 DEF FileMadeBehind
    <3>2. files'[i].data = <<>> BY <1>6, <3>1 DEF FileMadeBehind
    <3> QED BY <1>2, <3>2
  <2> QED BY <2>1, <2>2
<1>7. CASE CurrentGrows
  <2>1. PICK n \in Nat : PieceAdded(n) /\ (n > 0 => pc = "bytes")
    BY <1>7 DEF CurrentGrows
  <2>2. i \in 1 .. Len(files) /\ cur # 0 /\ cur = Len(files)
    BY <1>3, <1>7, <2>1 DEF CurrentGrows, PieceAdded, Inv, Place, CurrentFile
  <2>3. CASE i # cur BY <1>4, <2>1, <2>2, <2>3 DEF PieceAdded
  <2>4. CASE i = cur
    <3> DEFINE b == BytesOf(Rec, off, off + n)
               d == files[cur].data
    <3>1. Rec \in Nat BY <1>1 DEF Rec
    <3>2. /\ Len(b) = n
          /\ \A x \in 1 .. n : b[x] = <<Rec, off + x>>
      BY <1>1, <3>1, BytesOfPiece
    <3>3. files[cur] \in File BY <1>1, <2>2, <2>4
    <3>4. d \in Seq(Byte) BY <3>3 DEF File
    <3>5. Grown(files[cur], files'[cur], b) BY <2>1 DEF PieceAdded
    <3> HIDE DEF b
    <3>6. /\ Len(files'[cur].data) = Len(d) + n
          /\ \A x \in 1 .. Len(d) : files'[cur].data[x] = d[x]
          /\ \A x \in 1 .. n : files'[cur].data[Len(d) + x] = b[x]
      BY <3>2, <3>5 DEF Grown
    <3>7. CASE o \in 1 .. Len(d) BY <1>2, <2>2, <2>4, <3>6, <3>7 DEF StartsIn
    <3>8. CASE o \notin 1 .. Len(d)
      <4> DEFINE x == o - Len(d)
      <4>1. Len(d) \in Nat BY <3>4
      <4>2. x \in 1 .. n /\ o = Len(d) + x
        <5>1. o \in 1 .. Len(d) + n BY <1>2, <2>4, <3>6
        <5> HIDE DEF d
        <5> QED BY <3>8, <4>1, <5>1
      <4>3. <<r, 1>> = <<Rec, off + x>> BY <1>2, <2>4, <3>2, <3>6, <4>2
      <4>4. r = Rec /\ n > 0 BY <4>2, <4>3
      <4> QED BY <2>1, <2>2, <2>4, <4>4
    <3> QED BY <3>7, <3>8
  <2> QED BY <2>3, <2>4
<1> QED BY <1>5, <1>6, <1>7, NextMoves DEF FilesMoved

\* No session begins between two files that had one begin there before.
LEMMA SessionsAfter ==
  ASSUME Inv, [Next]_wvars
  PROVE  /\ Len(files) \in Nat /\ Len(files') \in {Len(files), Len(files) + 1}
         /\ \A k \in 1 .. Len(files) : files'[k].seq = files[k].seq
<1>1. files \in Seq(File) BY DEF Inv, TypeOK
<1>2. CASE FilesKept BY <1>1, <1>2 DEF FilesKept, Touched, SameHeader
<1>3. CASE FileMadeBehind BY <1>1, <1>3 DEF FileMadeBehind
<1>4. CASE CurrentGrows
  BY <1>1, <1>4 DEF CurrentGrows, PieceAdded, Grown, SameHeader
<1> QED BY <1>2, <1>3, <1>4, NextMoves DEF FilesMoved

LEMMA OneSessionBefore ==
  ASSUME Inv, [Next]_wvars, NEW i \in 1 .. Len(files), NEW j \in 1 .. Len(files'),
         OneSession(i, j)'
  PROVE  /\ j \in 1 .. Len(files) => OneSession(i, j)
         /\ j \notin 1 .. Len(files) =>
              OneSession(i, Len(files)) /\ files'[Len(files) + 1].seq # 0
<1>1. /\ Len(files) \in Nat /\ Len(files') \in {Len(files), Len(files) + 1}
      /\ \A k \in 1 .. Len(files) : files'[k].seq = files[k].seq
  BY SessionsAfter
<1>2. \A k \in i + 1 .. j : files'[k].seq # 0 BY DEF OneSession
<1>3. CASE j \in 1 .. Len(files)
  <2>1. \A k \in i + 1 .. j : k \in 1 .. Len(files) BY <1>1, <1>3
  <2> QED BY <1>1, <1>2, <1>3, <2>1 DEF OneSession
<1>4. CASE j \notin 1 .. Len(files)
  <2>1. j = Len(files) + 1 BY <1>1, <1>4
  <2>2. \A k \in i + 1 .. Len(files) : k \in 1 .. Len(files) /\ k \in i + 1 .. j
    BY <1>1, <2>1
  <2>3. Len(files) + 1 \in i + 1 .. j BY <1>1, <2>1
  <2> QED BY <1>1, <1>2, <1>4, <2>2, <2>3 DEF OneSession
<1> QED BY <1>3, <1>4

LEMMA NextCountFits ==
  ASSUME Inv, CountInv, [Next]_wvars, Format = "tsrc"
  PROVE  CountFits'
<1>1. recordCount \in Nat /\ RecordCountMax \in Nat \ {0}
  BY WriterAssumption DEF Inv, TypeOK
<1>2. CASE CountMoves
  BY <1>1, <1>2 DEF CountMoves, CountInv, CountFits
<1>3. CASE BuildDataHeader
  <2>1. back = "build" /\ why # "session" /\ back' = "bytes"
    BY <1>3 DEF BuildDataHeader, Inv, Place, Control
  <2>2. recordCount' = recordCount + 1 BY <1>3 DEF BuildDataHeader
  <2> QED BY <1>1, <2>1, <2>2 DEF CountInv, CountFits
<1> QED BY <1>2, <1>3, NextCounts DEF CountInv

LEMMA NextCountFirst ==
  ASSUME Inv, CountInv, [Next]_wvars, Format = "tsrc"
  PROVE  CountFirst'
<1>1. records \in Seq(Record) /\ recordCount \in Nat BY DEF Inv, TypeOK
<1>2. CASE CountMoves
  <2>1. back' = "build" => (StartsIn(Rec) = {})'
    <3> SUFFICES ASSUME back' = "build", NEW r, r = Rec', NEW i \in StartsIn(r)'
                 PROVE  FALSE
      BY DEF StartsIn
    <3>1. CASE back = "build" /\ Len(records') = Len(records)
      <4>1. r = Rec /\ pc # "bytes" BY <3>1 DEF Rec, Inv, Place, Control
      <4>2. i \in StartsIn(r) BY <4>1, StartsAfter
      <4>3. StartsIn(Rec) = {} BY <3>1 DEF CountInv, CountFirst
      <4> QED BY <4>1, <4>2, <4>3
    <3>2. CASE Len(records') = Len(records) + 1 /\ files' = files
      <4>1. i \in StartsIn(r) BY <3>2, StartsSame
      <4>2. r \in 1 .. Len(records) BY <4>1, StartsKnown
      <4> QED BY <1>1, <3>2, <4>2 DEF Rec
    <3> QED BY <1>2, <3>1, <3>2 DEF CountMoves
  <2>2. ASSUME back' = "bytes"
        PROVE  recordCount' \in Nat \ {0} /\ records'[Rec'].count = recordCount'
    <3>1. back = "bytes" /\ Rec' = Rec /\ recordCount' = recordCount
      BY <1>2, <2>2 DEF CountMoves, Rec
    <3>2. Rec \in 1 .. Len(records) BY <1>1, <3>1 DEF Rec, Inv, Place, Owing
    <3>3. records'[Rec].count = records[Rec].count
      BY <1>2, <3>2 DEF CountMoves, RecordsFollow, Follows
    <3> QED BY <3>1, <3>3 DEF CountInv, CountFirst
  <2> QED BY <2>1, <2>2 DEF CountFirst
<1>3. CASE BuildDataHeader
  <2>1. back' = "bytes" BY <1>3 DEF BuildDataHeader
  <2>2. /\ Rec' = Rec /\ recordCount' = recordCount + 1
        /\ records'[Rec].count = recordCount + 1
    BY <1>3, HeaderCounts DEF CountInv, Rec
  <2> QED BY <1>1, <2>1, <2>2 DEF CountFirst
<1> QED BY <1>2, <1>3, NextCounts DEF CountInv

LEMMA NextCountLast ==
  ASSUME Inv, CountInv, [Next]_wvars, Format = "tsrc"
  PROVE  CountLast'
<1> SUFFICES ASSUME InSession', NEW r \in 1 .. Len(records'), NEW i \in StartsIn(r)',
                    NEW j, j = Len(files'), OneSession(i, j)'
             PROVE  /\ records'[r].count <= recordCount'
                    /\ back' = "bytes" /\ r # Rec' => records'[r].count < recordCount'
  BY DEF CountLast, OneSession
<1>1. /\ Len(files) \in Nat /\ Len(files') \in {Len(files), Len(files) + 1}
      /\ recordCount \in Nat /\ records \in Seq(Record)
  BY SessionsAfter DEF Inv, TypeOK
<1>2. i \in StartsIn(r) \/ (r = Rec /\ i = Len(files) /\ cur # 0 /\ pc = "bytes")
  BY StartsAfter
<1>3. i \in 1 .. Len(files) /\ r \in 1 .. Len(records)
  <2>1. CASE i \in StartsIn(r) BY <2>1, StartsKnown
  <2>2. CASE r = Rec /\ i = Len(files) /\ cur # 0 /\ pc = "bytes"
    <3>1. back = "bytes" BY <2>2 DEF Inv, Place, Control
    <3>2. records # <<>> /\ cur \in 1 .. Len(files)
      BY <2>2, <3>1 DEF Inv, TypeOK, Place, Owing
    <3> QED BY <1>1, <2>2, <3>2 DEF Rec
  <2> QED BY <1>2, <2>1, <2>2
<1>4. /\ OneSession(i, Len(files))
      /\ Len(files') # Len(files) => files'[Len(files) + 1].seq # 0
  <2>1. j \in 1 .. Len(files') BY <1>1, <1>3
  <2>2. CASE Len(files') = Len(files)
    <3>1. j \in 1 .. Len(files) /\ j = Len(files) BY <2>1, <2>2
    <3> QED BY <1>3, <2>1, <2>2, <3>1, OneSessionBefore
  <2>3. CASE Len(files') # Len(files)
    <3>1. j \notin 1 .. Len(files) BY <1>1, <2>3
    <3> QED BY <1>3, <2>1, <3>1, OneSessionBefore
  <2> QED BY <2>2, <2>3
<1>5. ASSUME InSession, i \in StartsIn(r)
      PROVE  /\ records[r].count <= recordCount
             /\ back = "bytes" /\ r # Rec => records[r].count < recordCount
  BY <1>3, <1>4, <1>5 DEF CountInv, CountLast
<1>6. ASSUME CountMoves
      PROVE  /\ records'[r].count <= recordCount'
             /\ back' = "bytes" /\ r # Rec' => records'[r].count < recordCount'
  <2>1. records'[r].count = records[r].count
    BY <1>3, <1>6 DEF CountMoves, RecordsFollow, Follows
  <2>2. recordCount' = recordCount BY <1>6 DEF CountMoves
  <2>3. back' = "bytes" => back = "bytes" /\ Rec' = Rec BY <1>6 DEF CountMoves, Rec
  <2>4. InSession
    <3>1. ASSUME pc = "open", FileMadeBehind PROVE FALSE
      <4>1. files'[Len(files) + 1].seq = 0 /\ Len(files') = Len(files) + 1
        BY <3>1 DEF FileMadeBehind, Inv, Place, Position
      <4> QED BY <1>1, <1>4, <4>1
    <3> QED BY <1>6, <3>1 DEF CountMoves
  <2>5. CASE i \in StartsIn(r) BY <1>5, <2>1, <2>2, <2>3, <2>4, <2>5
  <2>6. CASE r = Rec /\ pc = "bytes"
    <3>1. back = "bytes" BY <2>6 DEF Inv, Place, Control
    <3>2. records[Rec].count = recordCount BY <3>1 DEF CountInv, CountFirst
    <3> QED BY <1>1, <2>1, <2>2, <2>3, <2>6, <3>2
  <2> QED BY <1>2, <2>5, <2>6
<1>7. ASSUME BuildDataHeader
      PROVE  /\ records'[r].count <= recordCount'
             /\ back' = "bytes" /\ r # Rec' => records'[r].count < recordCount'
  <2>1. pc = "build" /\ back = "build" /\ InSession
    BY <1>7 DEF BuildDataHeader, Inv, Place, Control, CurrentFile, InSession
  <2>2. i \in StartsIn(r) BY <1>2, <2>1
  <2>3. r # Rec BY <2>1, <2>2 DEF CountInv, CountFirst
  <2>4. records'[r] = records[r] /\ recordCount' = recordCount + 1
    BY <1>3, <1>7, <2>3, HeaderCounts DEF CountInv
  <2>5. records[r] \in Record BY <1>1, <1>3
  <2>6. records[r].count \in Nat BY <2>5 DEF Record
  <2>7. records[r].count <= recordCount BY <1>5, <2>1, <2>2
  <2> QED BY <1>1, <2>4, <2>6, <2>7
<1> QED BY <1>6, <1>7, NextCounts DEF CountInv

\* Two records that are on storage before a step keep their order.
LEMMA CountsStay ==
  ASSUME Inv, CountInv, [Next]_wvars, Format = "tsrc",
         NEW r, NEW i \in StartsIn(r)
  PROVE  r \in 1 .. Len(records) /\ records'[r].count = records[r].count
<1>1. r \in 1 .. Len(records) BY StartsKnown
<1>2. CASE CountMoves BY <1>1, <1>2 DEF CountMoves, RecordsFollow, Follows
<1>3. CASE BuildDataHeader
  <2>1. back = "build" BY <1>3 DEF BuildDataHeader, Inv, Place, Control
  <2>2. r # Rec BY <2>1 DEF CountInv, CountFirst
  <2> QED BY <1>1, <1>3, <2>2, HeaderCounts DEF CountInv
<1> QED BY <1>1, <1>2, <1>3, NextCounts DEF CountInv

\* The first byte of the record in progress comes to storage with its count.
LEMMA CountComes ==
  ASSUME Inv, CountInv, [Next]_wvars, Format = "tsrc", pc = "bytes"
  PROVE  /\ Rec \in 1 .. Len(records) /\ records'[Rec].count = recordCount
         /\ recordCount \in 1 .. RecordCountMax
<1>1. back = "bytes" BY DEF Inv, Place, Control
<1>2. records \in Seq(Record) /\ records # <<>> BY <1>1 DEF Inv, TypeOK, Place, Owing
<1>3. Rec \in 1 .. Len(records) BY <1>2 DEF Rec
<1>4. CountMoves BY NextCounts DEF CountInv, BuildDataHeader
<1>5. records'[Rec].count = records[Rec].count
  BY <1>3, <1>4 DEF CountMoves, RecordsFollow, Follows
<1>6. records[Rec].count = recordCount /\ recordCount \in Nat \ {0}
  BY <1>1 DEF CountInv, CountFirst
<1>7. recordCount <= RecordCountMax /\ RecordCountMax \in Nat
  BY WriterAssumption DEF CountInv, CountFits
<1> QED BY <1>3, <1>5, <1>6, <1>7

LEMMA NextCountsGrow ==
  ASSUME Inv, CountInv, [Next]_wvars, Format = "tsrc"
  PROVE  CountsGrow'
<1> SUFFICES ASSUME NEW r \in 1 .. Len(records'), NEW s \in 1 .. Len(records'),
                    NEW i \in StartsIn(r)', NEW j \in StartsIn(s)'
             PROVE  /\ records'[r].count \in 1 .. RecordCountMax
                    /\ r < s /\ OneSession(i, j)' => records'[r].count < records'[s].count
  BY DEF CountsGrow
<1>1. i \in StartsIn(r) \/ (r = Rec /\ i = Len(files) /\ cur # 0 /\ pc = "bytes")
  BY StartsAfter
<1>2. j \in StartsIn(s) \/ (s = Rec /\ j = Len(files) /\ cur # 0 /\ pc = "bytes")
  BY StartsAfter
<1>3. records'[r].count \in 1 .. RecordCountMax
  <2>1. CASE i \in StartsIn(r)
    <3>1. r \in 1 .. Len(records) /\ records'[r].count = records[r].count
      BY <2>1, CountsStay
    <3>2. records[r].count \in 1 .. RecordCountMax
      BY <2>1, <3>1 DEF CountInv, CountsGrow
    <3> QED BY <3>1, <3>2
  <2>2. CASE r = Rec /\ pc = "bytes" BY <2>2, CountComes
  <2> QED BY <1>1, <2>1, <2>2
<1>4. ASSUME r < s, OneSession(i, j)' PROVE records'[r].count < records'[s].count
  <2>1. i \in StartsIn(r)
    <3> SUFFICES ASSUME r = Rec, pc = "bytes" PROVE FALSE BY <1>1
    <3>1. s \in 1 .. Len(records)
      <4>1. CASE j \in StartsIn(s) BY <4>1, StartsKnown
      <4>2. CASE s = Rec BY <4>2, CountComes
      <4> QED BY <1>2, <4>1, <4>2
    <3> QED BY <1>4, <3>1 DEF Rec
  <2>2. /\ r \in 1 .. Len(records) /\ i \in 1 .. Len(files)
        /\ records'[r].count = records[r].count
    BY <2>1, StartsKnown, CountsStay
  <2>3. Len(files) \in Nat /\ Len(files') \in {Len(files), Len(files) + 1}
    BY SessionsAfter
  <2>4. CASE j \in StartsIn(s)
    <3>1. /\ s \in 1 .. Len(records) /\ j \in 1 .. Len(files)
          /\ records'[s].count = records[s].count
      BY <2>4, StartsKnown, CountsStay
    <3>2. j \in 1 .. Len(files') BY <2>3, <3>1
    <3>3. OneSession(i, j) BY <1>4, <2>2, <3>1, <3>2, OneSessionBefore
    <3>4. records[r].count < records[s].count
      BY <1>4, <2>1, <2>2, <2>4, <3>1, <3>3 DEF CountInv, CountsGrow
    <3> QED BY <2>2, <3>1, <3>4
  <2>5. CASE s = Rec /\ j = Len(files) /\ cur # 0 /\ pc = "bytes"
    <3>1. records'[s].count = recordCount BY <2>5, CountComes
    <3>2. j \in 1 .. Len(files) /\ j \in 1 .. Len(files') BY <2>2, <2>3, <2>5
    <3>3. OneSession(i, Len(files)) BY <1>4, <2>2, <2>5, <3>2, OneSessionBefore
    <3>4. InSession /\ back = "bytes" BY <2>5 DEF InSession, Inv, Place, Control
    <3>5. r # Rec /\ r \in Nat BY <1>4, <2>5
    <3>6. records[r].count < recordCount
      BY <2>1, <2>2, <3>3, <3>4, <3>5 DEF CountInv, CountLast
    <3> QED BY <2>2, <3>1, <3>6
  <2> QED BY <1>2, <2>4, <2>5
<1> QED BY <1>3, <1>4

\* build_data_header and start_session keep what counts are for: no two records of a
\* session share one, whatever is split, fails or is restarted, and however many
\* records a session has.
THEOREM CountsTellApart == Spec => []CountsUnique
<1> DEFINE J == Begun /\ (Format = "tsrc" => CountInv)
<1>1. Init => J
  <2>1. Init => StartsIn(Rec) = {} /\ Begun /\ CountFirst /\ CountLast /\ CountsGrow
    BY DEF Init, StartsIn, Begun, CountFirst, CountLast, CountsGrow, InSession
  <2>2. Init => CountFits BY WriterAssumption DEF Init, CountFits
  <2> QED BY <2>1, <2>2 DEF CountInv
<1>2. Inv /\ J /\ [Next]_wvars => J'
  <2> SUFFICES ASSUME Inv, J, [Next]_wvars PROVE J' OBVIOUS
  <2>1. Begun'
    <3>1. CASE CountMoves BY <3>1 DEF CountMoves
    <3>2. CASE BuildDataHeader BY <3>2, HeaderCounts
    <3> QED BY <3>1, <3>2, NextCounts
  <2>2. ASSUME Format = "tsrc" PROVE CountInv'
    BY <2>1, <2>2, NextCountFits, NextCountFirst, NextCountLast, NextCountsGrow
    DEF CountInv
  <2> QED BY <2>1, <2>2
<1>3. J => CountsUnique BY DEF CountInv, CountsGrow, CountsUnique
<1> HIDE DEF J
<1> QED BY <1>1, <1>2, <1>3, Invariance, PTL DEF Spec
===============================================================================
