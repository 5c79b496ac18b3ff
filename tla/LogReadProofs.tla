---------------------------- MODULE LogReadProofs ----------------------------
(***************************************************************************)
(* Proofs that a reader reads what was written: from the invariant of the  *)
(* writer, by way of what its files say of one another and of what damage  *)
(* leaves of them, to the bytes that the reader hands over.                *)
(***************************************************************************)
EXTENDS LogSystemProofs

-----------------------------------------------------------------------------
(* What the files as they were written say of one another.                 *)

LEMMA SourceIs ==
  ASSUME Writing, Inv
  PROVE  /\ Segments \in Seq(Segment) /\ Len(Segments) = Len(files)
         /\ \A i \in 1 .. Len(files) :
              /\ Segments[i].session = files[i].session /\ Segments[i].seq = files[i].seq
              /\ Segments[i].remaining = files[i].remaining
              /\ Segments[i].data = files[i].data
              /\ Segments[i] = Stored(i, files[i])
         /\ Written \in Seq(Nat) /\ Len(Written) = Len(records)
         /\ \A r \in 1 .. Len(records) : Written[r] = records[r].len
<1>1. files \in Seq(File) /\ records \in Seq(Record) /\ Len(files) \in Nat
  BY DEF Inv, TypeOK
<1>2. Segments = [i \in 1 .. Len(files) |-> Stored(i, files[i])] BY DEF Segments
<1>3. \A i \in 1 .. Len(files) : Stored(i, files[i]) \in Segment
  <2> TAKE i \in 1 .. Len(files)
  <2>1. i \in Nat /\ files[i] \in File BY <1>1
  <2> QED BY <2>1, StoredIs
<1>4. Segments \in [1 .. Len(files) -> Segment] BY <1>2, <1>3
<1>5. Segments \in Seq(Segment) /\ Len(Segments) = Len(files) BY <1>1, <1>4
<1>6. Written = [r \in 1 .. Len(records) |-> records[r].len] BY DEF Written, Lengths
<1>7. Written \in Seq(Nat) /\ Len(Written) = Len(records) BY <1>1, <1>6, LengthsAre
<1>8. ASSUME NEW i \in 1 .. Len(files)
      PROVE  /\ Segments[i].session = files[i].session /\ Segments[i].seq = files[i].seq
             /\ Segments[i].remaining = files[i].remaining
             /\ Segments[i].data = files[i].data
             /\ Segments[i] = Stored(i, files[i])
  BY <1>2 DEF Stored
<1> QED BY <1>5, <1>6, <1>7, <1>8

LEMMA SourceSize ==
  ASSUME Writing, Inv, NEW r \in 1 .. Len(records)
  PROVE  Size(r) = TotalLen(records[r].len)
BY SourceIs DEF Size

LEMMA SourceRise ==
  ASSUME Writing, Inv, SequencesRise
  PROVE  SegmentsRise
<1> SUFFICES ASSUME NEW i \in 1 .. Len(Segments), NEW j \in 1 .. Len(Segments), i < j,
                    \A o \in i + 1 .. j : Segments[o].seq # 0
             PROVE  Segments[i].seq < Segments[j].seq \/ Segments[j].seq >= SeqMax
  BY DEF SegmentsRise
<1>1. i \in 1 .. Len(files) /\ j \in 1 .. Len(files) /\ Len(files) \in Nat
  BY SourceIs DEF Inv, TypeOK
<1>2. \A o \in 1 .. Len(files) : Segments[o].seq = files[o].seq BY SourceIs
<1>3. \A o \in i + 1 .. j : o \in 1 .. Len(files) BY <1>1
<1>4. OneSession(i, j) BY <1>2, <1>3 DEF OneSession
<1> QED BY <1>1, <1>2, <1>4 DEF SequencesRise

LEMMA SourceOrdered ==
  ASSUME Writing, Inv, BytesOrdered
  PROVE  SegmentsOrdered
BY SourceIs DEF SegmentsOrdered, BytesOrdered

LEMMA SourceFlow ==
  ASSUME Writing, Inv, BytesFollow, Runs
  PROVE  SegmentsFlow
<1> SUFFICES ASSUME NEW i \in 1 .. Len(Segments), NEW d, d = Segments[i].data
             PROVE  /\ Len(d) <= DataLen
                    /\ \A a \in 1 .. Len(d) :
                         d[a][1] \in 1 .. Len(Written) /\ d[a][2] \in 1 .. Size(d[a][1])
                    /\ \A a, c \in 1 .. Len(d) :
                         a < c =>
                           /\ d[a][2] + (c - a) <= Size(d[a][1]) =>
                                d[c] = <<d[a][1], d[a][2] + (c - a)>>
                           /\ c = a + 1 /\ Lasts(d[a]) => d[c][2] = 1
  BY DEF SegmentsFlow
<1>1. i \in 1 .. Len(files) /\ d = files[i].data /\ Len(Written) = Len(records)
  BY SourceIs
<1>2. Len(d) <= DataLen /\ \A a \in 1 .. Len(d) : d[a][1] \in 1 .. Len(records)
  BY <1>1 DEF Inv, FileInv, Contents
<1>3. \A a \in 1 .. Len(d) : Size(d[a][1]) = TotalLen(records[d[a][1]].len)
  BY <1>2, SourceSize
<1>4. \A a \in 1 .. Len(d) : d[a][2] \in 1 .. Size(d[a][1]) BY <1>1, <1>3 DEF BytesFollow
<1>5. ASSUME NEW a \in 1 .. Len(d), NEW c \in 1 .. Len(d), a < c
      PROVE  /\ d[a][2] + (c - a) <= Size(d[a][1]) =>
                  d[c] = <<d[a][1], d[a][2] + (c - a)>>
             /\ c = a + 1 /\ Lasts(d[a]) => d[c][2] = 1
  <2>1. /\ d[a][2] + (c - a) <= TotalLen(records[d[a][1]].len) =>
             d[c] = <<d[a][1], d[a][2] + (c - a)>>
        /\ c = a + 1 /\ Completes(d[a]) => d[c][2] = 1
    BY <1>1, <1>5 DEF Runs
  <2>2. Size(d[a][1]) = TotalLen(records[d[a][1]].len) BY <1>3
  <2> QED BY <2>1, <2>2 DEF Completes, Lasts
<1> QED BY <1>1, <1>2, <1>4, <1>5

LEMMA SourceFollow ==
  ASSUME Writing, Inv, TailOwed
  PROVE  SegmentsFollow
<1> SUFFICES ASSUME NEW i \in 1 .. Len(Segments), NEW s, s = Segments[i],
                    NEW p, p = Segments[i - 1], NEW b, b = p.data[DataLen]
             PROVE  /\ s.seq # 0 =>
                         /\ i > 1 /\ p.session = s.session /\ s.seq = SeqNext(p.seq)
                         /\ Len(p.data) = DataLen => s.remaining = Size(b[1]) - b[2]
                    /\ s.remaining # 0 => s.seq # 0 /\ Len(p.data) = DataLen
                    /\ s.data # <<>> =>
                         s.data[1] = IF s.remaining = 0 THEN <<s.data[1][1], 1>>
                                     ELSE <<b[1], b[2] + 1>>
  BY DEF SegmentsFollow
<1>1. i \in 1 .. Len(files) /\ i \in Nat /\ Len(files) \in Nat
  BY SourceIs DEF Inv, TypeOK
<1>2. /\ s.session = files[i].session /\ s.seq = files[i].seq
      /\ s.remaining = files[i].remaining /\ s.data = files[i].data
  BY <1>1, SourceIs
<1>3. i > 1 => /\ i - 1 \in 1 .. Len(files) - 1 /\ i - 1 \in 1 .. Len(files)
               /\ i = (i - 1) + 1
  BY <1>1
<1>4. i > 1 => /\ p.session = files[i - 1].session /\ p.seq = files[i - 1].seq
               /\ p.data = files[i - 1].data
  BY <1>3, SourceIs
<1>5. ASSUME s.seq # 0
      PROVE  /\ i > 1 /\ p.session = s.session /\ s.seq = SeqNext(p.seq)
             /\ Len(p.data) = DataLen => s.remaining = Size(b[1]) - b[2]
  <2>1. /\ i > 1 /\ files[i].seq = SeqNext(files[i - 1].seq)
        /\ files[i - 1].session = files[i].session
    BY <1>1, <1>2, <1>5 DEF Inv, FileInv, SequenceDense, SameSession
  <2>2. ASSUME Len(p.data) = DataLen PROVE s.remaining = Size(b[1]) - b[2]
    <3>1. files[(i - 1) + 1] = files[i] BY <1>3, <2>1
    <3>2. p.data = files[i - 1].data BY <1>4, <2>1
    <3>3. files[i].remaining = TotalLen(records[b[1]].len) - b[2]
      BY <1>2, <1>3, <1>5, <2>1, <2>2, <3>1, <3>2 DEF TailOwed
    <3>4. DataLen \in 1 .. Len(p.data) BY <2>2, FormatAssumption
    <3>5. b[1] \in 1 .. Len(records)
      BY <1>3, <2>1, <3>2, <3>4 DEF Inv, FileInv, Contents
    <3> QED BY <1>2, <3>3, <3>5, SourceSize
  <2> QED BY <1>2, <1>4, <2>1, <2>2
<1>6. ASSUME s.remaining # 0
      PROVE  /\ i > 1 /\ s.seq # 0 /\ Len(p.data) = DataLen
             /\ s.data # <<>> => s.data[1] = <<b[1], b[2] + 1>>
  <2>1. /\ i > 1 /\ s.seq > 0 /\ Len(files[i - 1].data) = DataLen
        /\ s.data # <<>> => s.data[1] = <<files[i - 1].data[DataLen][1],
                                          files[i - 1].data[DataLen][2] + 1>>
    BY <1>1, <1>2, <1>6 DEF Inv, FileInv, RemainingTold
  <2> QED BY <1>4, <2>1
<1>7. ASSUME s.remaining = 0, s.data # <<>> PROVE s.data[1] = <<s.data[1][1], 1>>
  <2>1. s.data[1][2] = 1
    <3>1. RemainingTold BY DEF Inv, FileInv
    <3>2. files[i].remaining = 0 /\ files[i].data # <<>> BY <1>2, <1>7
    <3>3. files[i].data[1][2] = 1 BY <1>1, <3>1, <3>2 DEF RemainingTold
    <3> QED BY <1>2, <3>3
  <2>2. s.data \in Seq(Byte)
    <3>1. files \in Seq(File) BY DEF Inv, TypeOK
    <3>2. files[i] \in File BY <1>1, <3>1
    <3> QED BY <1>2, <3>2 DEF File
  <2>3. s.data[1] \in Byte BY <1>7, <2>2
  <2> QED BY <2>1, <2>3 DEF Byte
<1> QED BY <1>5, <1>6, <1>7

LEMMA SourceTrue == Writing /\ WriterInv => Truth
<1> SUFFICES ASSUME Writing, WriterInv PROVE Truth OBVIOUS
<1>1. /\ Inv /\ SequencesRise /\ BytesOrdered /\ BytesFollow /\ Runs /\ TailOwed
      /\ LensAccepted
  BY DEF WriterInv, FlowInv, StorageInv, RecordsStored
<1>2. Format = "fixed" => \A r \in 1 .. Len(Written) : Written[r] = FixedLen
  BY <1>1, SourceIs DEF LensAccepted, Accepts
<1> QED
  BY <1>1, <1>2, SourceRise, SourceOrdered, SourceFlow, SourceFollow DEF Truth

-----------------------------------------------------------------------------
(* They are what they were, but for what a writer adds.                    *)

LEMMA SourceKept ==
  ASSUME Sources, StopWriting \/ OpenBesideWriter \/ OpenReader \/ ReadOn
                  \/ UNCHANGED sysvars
                  \/ \E i \in 1 .. Len(disk) : Damage(i) \/ Corrupt(i)
  PROVE  Segments' = Segments /\ Written' = Written
<1>1. CASE StopWriting
  <2>1. Writing /\ ~ Writing' BY <1>1 DEF StopWriting, Writing
  <2>2. stored' = [i \in 1 .. Len(files) |-> Stored(i, files[i])]
    BY <1>1 DEF StopWriting
  <2>3. Segments' = Segments BY <2>1, <2>2 DEF Segments
  <2>4. Written = Lengths /\ Written' = lens' BY <2>1 DEF Written
  <2>5. lens' = Lengths BY <1>1, <2>4 DEF StopWriting, Sources
  <2> QED BY <2>3, <2>4, <2>5
<1>2. CASE OpenBesideWriter
  <2>1. Writing /\ Writing' /\ files' = files /\ records' = records
    BY <1>2 DEF OpenBesideWriter, Writing, wvars
  <2>2. Segments' = Segments BY <2>1 DEF Segments, Stored
  <2>3. Written' = Written BY <2>1 DEF Written, Lengths
  <2> QED BY <2>2, <2>3
<1>3. CASE OpenReader
  <2>1. ~ Writing /\ ~ Writing' /\ stored' = stored /\ lens' = lens
    BY <1>3 DEF OpenReader, Writing, R!New
  <2> QED BY <2>1 DEF Segments, Written
<1>4. ASSUME UNCHANGED <<phase, stored, wvars, lens>>
      PROVE  Segments' = Segments /\ Written' = Written
  <2>1. files' = files /\ records' = records BY <1>4 DEF wvars
  <2>2. Writing' = Writing BY <1>4 DEF Writing
  <2>3. Segments' = Segments BY <1>4, <2>1, <2>2 DEF Segments, Stored
  <2>4. Written' = Written BY <1>4, <2>1, <2>2 DEF Written, Lengths
  <2> QED BY <2>3, <2>4
<1>5. CASE ReadOn
  <2>1. R!Next /\ UNCHANGED <<phase, stored, wvars>> BY <1>5 DEF ReadOn
  <2>2. lens' = lens
    BY <2>1
    DEF R!Next, R!Call, R!Step, R!aside, R!ReadAtEnd, R!Read, R!FindNone, R!CrossNone,
        R!FindSessionEnd, R!FindDiscards, R!FindsStart, R!FindSeekFails,
        R!CrossSessionEnd, R!CrossFollows, R!CrossRejects, R!ReadPiece, R!PieceFails,
        R!HeaderDone, R!PayloadDone, R!SkipDone
  <2> QED BY <1>4, <2>1, <2>2
<1>6. CASE UNCHANGED sysvars BY <1>4, <1>6 DEF sysvars, rdvars
<1>7. CASE \E i \in 1 .. Len(disk) : Damage(i) \/ Corrupt(i)
  BY <1>4, <1>7 DEF Damage, Corrupt
<1> QED BY <1>1, <1>2, <1>3, <1>5, <1>6, <1>7

LEMMA WriterGoesOn ==
  (Writing => WriterInv) /\ [SystemNext]_sysvars => (Writing => WriterInv)'
<1> SUFFICES ASSUME Writing => WriterInv, [SystemNext]_sysvars, Writing'
             PROVE  WriterInv'
  OBVIOUS
<1>1. Writing /\ [Next]_wvars
  BY DEF SystemNext, Write, StopWriting, OpenBesideWriter, Damage, Corrupt, OpenReader,
         ReadOn, Writing, sysvars
<1> QED BY <1>1, WriterStep

LEMMA WriterBelow == SystemSpec => [](Writing => WriterInv)
<1>1. SystemInit => (Writing => WriterInv) BY WriterInit DEF SystemInit
<1> QED BY <1>1, WriterGoesOn, PTL DEF SystemSpec

LEMMA TruthAfter ==
  ASSUME Truth, Segments' = Segments, Written' = Written
  PROVE  Truth'
<1>1. SegmentsRise' BY DEF Truth, SegmentsRise
<1>2. SegmentsOrdered' BY DEF Truth, SegmentsOrdered
<1>3. SegmentsFlow' BY DEF Truth, SegmentsFlow, Size, Lasts
<1>4. SegmentsFollow' BY DEF Truth, SegmentsFollow, Size
<1> QED BY <1>1, <1>2, <1>3, <1>4 DEF Truth

LEMMA SourcesStep ==
  Sources /\ [SystemNext]_sysvars /\ (Writing => WriterInv /\ Truth)' => Sources'
<1> SUFFICES ASSUME Sources, [SystemNext]_sysvars, (Writing => WriterInv /\ Truth)'
             PROVE  Sources'
  OBVIOUS
<1>1. CASE Write
  <2>1. Writing' /\ phase' = phase BY <1>1 DEF Write, Writing
  <2>2. phase = "writing" => disk' = <<>> BY <1>1 DEF Write, Sources
  <2>3. phase # "writing" => lens' = Written' BY <1>1, <2>1 DEF Write, Written
  <2> QED BY <2>1, <2>2, <2>3 DEF Sources
<1>2. CASE ~ Write
  <2>1. Segments' = Segments /\ Written' = Written BY <1>2, SourceKept DEF SystemNext
  <2>2. Truth' BY <2>1, TruthAfter DEF Sources
  <2>3. phase' = "writing" => phase = "writing" /\ disk' = disk
    BY <1>2
    DEF SystemNext, StopWriting, OpenBesideWriter, Damage, Corrupt, OpenReader, ReadOn,
        sysvars, rdvars
  <2>4. phase' # "writing" => lens' = Written'
    <3>1. CASE OpenBesideWriter
      <4>1. Writing /\ lens' = Lengths BY <3>1 DEF OpenBesideWriter, R!New, Writing
      <4> QED BY <2>1, <4>1 DEF Written
    <3>2. CASE StopWriting
      <4>1. Writing /\ (lens' = Lengths \/ (phase = "live" /\ lens' = lens))
        BY <3>2 DEF StopWriting, Writing
      <4>2. Written = Lengths BY <4>1 DEF Written
      <4> QED BY <2>1, <4>1, <4>2 DEF Sources
    <3>3. CASE ~ OpenBesideWriter /\ ~ StopWriting
      <4>1. lens' = lens /\ (phase' # "writing" => phase # "writing")
        <5>1. CASE ReadOn
          BY <5>1
          DEF ReadOn, R!Next, R!Call, R!Step, R!aside, R!ReadAtEnd, R!Read, R!FindNone,
              R!CrossNone, R!FindSessionEnd, R!FindDiscards, R!FindsStart,
              R!FindSeekFails, R!CrossSessionEnd, R!CrossFollows, R!CrossRejects,
              R!ReadPiece, R!PieceFails, R!HeaderDone, R!PayloadDone, R!SkipDone
        <5>2. CASE ~ ReadOn
          BY <1>2, <3>3, <5>2
          DEF SystemNext, Damage, Corrupt, OpenReader, R!New, sysvars, rdvars
        <5> QED BY <5>1, <5>2
      <4> QED BY <2>1, <4>1 DEF Sources
    <3> QED BY <3>1, <3>2, <3>3
  <2> QED BY <2>2, <2>3, <2>4 DEF Sources
<1> QED BY <1>1, <1>2

LEMMA SourcesHold == SystemSpec => []Sources
<1>1. SystemInit => Sources
  <2> SUFFICES ASSUME SystemInit PROVE Sources OBVIOUS
  <2>1. Writing /\ WriterInv BY WriterInit DEF SystemInit, Writing
  <2> QED BY <2>1, SourceTrue DEF SystemInit, R!Init, Sources
<1>2. (Writing => WriterInv) => (Writing => WriterInv /\ Truth) BY SourceTrue
<1> QED BY <1>1, <1>2, WriterBelow, SourcesStep, PTL DEF SystemSpec

-----------------------------------------------------------------------------
(* Where records begin, go on and end in the files as they were written.   *)

Known == Segments \in Seq(Segment) /\ Written \in Seq(Nat) /\ Truth

LEMMA SourcesKnown ==
  ASSUME SystemInv, Sources
  PROVE  Known
<1>1. CASE Writing BY <1>1, SourceIs DEF SystemInv, Known, Sources
<1>2. CASE ~ Writing
  BY <1>2 DEF Segments, Written, SystemInv, SystemTypes, Known, Sources
<1> QED BY <1>1, <1>2

LEMMA SegmentIs ==
  ASSUME Known, NEW i \in 1 .. Len(Segments)
  PROVE  /\ i \in Nat \ {0} /\ Len(Segments) \in Nat /\ Segments[i] \in Segment
         /\ Segments[i].data \in Seq(Byte) /\ Len(Segments[i].data) \in Nat
         /\ Segments[i].seq \in Nat /\ Segments[i].session \in Nat
         /\ Segments[i].remaining \in Nat
         /\ Len(Segments[i].data) <= DataLen /\ DataLen \in Nat \ {0}
<1>1. Segments[i] \in Segment BY DEF Known
<1>2. Segments[i].data \in Seq(Byte) BY <1>1 DEF Segment
<1>3. Len(Segments[i].data) <= DataLen BY DEF Known, Truth, SegmentsFlow
<1>4. Segments[i].seq \in Nat /\ Segments[i].session \in Nat
      /\ Segments[i].remaining \in Nat
  BY <1>1 DEF Segment
<1>5. Len(Segments) \in Nat /\ i \in Nat \ {0} BY DEF Known
<1>6. DataLen \in Nat \ {0} BY FormatAssumption
<1>7. Len(Segments[i].data) \in Nat BY <1>2
<1> QED BY <1>1, <1>2, <1>3, <1>4, <1>5, <1>6, <1>7

LEMMA SizeIs ==
  ASSUME Known, NEW r \in 1 .. Len(Written)
  PROVE  /\ Size(r) \in Nat \ {0} /\ HeaderLen <= Size(r) /\ Written[r] \in Nat
         /\ Size(r) = HeaderLen + Written[r] /\ HeaderLen \in Nat
<1>1. Written[r] \in Nat /\ HeaderLen \in Nat BY FormatAssumption DEF Known
<1>2. Size(r) = HeaderLen + Written[r] BY DEF Size, TotalLen
<1>3. CASE Format = "fixed"
  <2>1. Written[r] = FixedLen /\ FixedLen \in Nat \ {0}
    BY <1>3, FormatAssumption DEF Known, Truth
  <2> QED BY <1>1, <1>2, <2>1
<1>4. CASE Format # "fixed"
  <2>1. HeaderLen \in Nat \ {0} BY <1>4, FormatAssumption
  <2> QED BY <1>1, <1>2, <2>1
<1> QED BY <1>3, <1>4

LEMMA ByteIs ==
  ASSUME Known, NEW i \in 1 .. Len(Segments), NEW a \in 1 .. Len(Segments[i].data),
         NEW b, b = Segments[i].data[a]
  PROVE  /\ b \in Byte /\ b = <<b[1], b[2]>> /\ b[1] \in 1 .. Len(Written)
         /\ b[1] \in Nat /\ b[2] \in Nat
         /\ b[2] \in 1 .. Size(b[1]) /\ a \in Nat \ {0} /\ a <= DataLen
<1>1. Segments[i].data \in Seq(Byte) /\ Len(Segments[i].data) <= DataLen
      /\ Len(Segments[i].data) \in Nat /\ DataLen \in Nat
  BY SegmentIs
<1>2. b \in Byte BY <1>1
<1>3. b[1] \in 1 .. Len(Written) /\ b[2] \in 1 .. Size(b[1])
  BY DEF Known, Truth, SegmentsFlow
<1>4. b[1] \in Nat /\ b[2] \in Nat /\ b = <<b[1], b[2]>> BY <1>2 DEF Byte
<1>5. a \in Nat \ {0} /\ a <= DataLen BY <1>1
<1> QED BY <1>2, <1>3, <1>4, <1>5

LEMMA RunOf ==
  ASSUME Known, NEW i \in 1 .. Len(Segments), NEW d, d = Segments[i].data,
         NEW a \in 1 .. Len(d), NEW c \in 1 .. Len(d), a <= c,
         d[a][2] + (c - a) <= Size(d[a][1])
  PROVE  d[c] = <<d[a][1], d[a][2] + (c - a)>>
<1>1. a \in Nat /\ c \in Nat /\ d[a] = <<d[a][1], d[a][2]>> /\ d[a][2] \in Nat
  BY SegmentIs, ByteIs
<1>2. CASE a = c BY <1>1, <1>2
<1>3. CASE a # c
  <2>1. a < c BY <1>1, <1>3
  <2> QED BY <2>1 DEF Known, Truth, SegmentsFlow
<1> QED BY <1>2, <1>3

\* The same, from a byte that is known.
LEMMA RunFrom ==
  ASSUME Known, NEW i \in 1 .. Len(Segments), NEW a \in 1 .. Len(Segments[i].data),
         NEW c \in 1 .. Len(Segments[i].data), a <= c, NEW r, NEW b \in Nat,
         Segments[i].data[a] = <<r, b>>, NEW e, e = b + (c - a), e <= Size(r)
  PROVE  Segments[i].data[c] = <<r, e>>
<1> DEFINE d == Segments[i].data
<1>1. d[a][1] = r /\ d[a][2] = b OBVIOUS
<1> HIDE DEF d
<1>2. a \in 1 .. Len(d) /\ c \in 1 .. Len(d) /\ a <= c BY DEF d
<1>3. d[a][2] + (c - a) <= Size(d[a][1]) BY <1>1
<1>4. d = Segments[i].data BY DEF d
<1>5. d[c] = <<d[a][1], d[a][2] + (c - a)>> BY <1>2, <1>3, <1>4, RunOf
<1> QED BY <1>1, <1>4, <1>5

\* What a file owes, and what it begins with when it owes something or nothing.
LEMMA TailIs ==
  ASSUME Known, NEW i \in 1 .. Len(Segments), Segments[i].remaining # 0,
         NEW b, b = Segments[i - 1].data[DataLen]
  PROVE  /\ i > 1 /\ i - 1 \in 1 .. Len(Segments) /\ Segments[i].seq # 0
         /\ Len(Segments[i - 1].data) = DataLen
         /\ DataLen \in 1 .. Len(Segments[i - 1].data)
         /\ Segments[i].remaining = Size(b[1]) - b[2]
         /\ Segments[i].data # <<>> => Segments[i].data[1] = <<b[1], b[2] + 1>>
<1>1. Segments[i].seq # 0 /\ Len(Segments[i - 1].data) = DataLen
  BY DEF Known, Truth, SegmentsFollow
<1>2. i > 1 /\ Segments[i].remaining = Size(b[1]) - b[2]
  BY <1>1 DEF Known, Truth, SegmentsFollow
<1>3. Segments[i].data # <<>> => Segments[i].data[1] = <<b[1], b[2] + 1>>
  BY DEF Known, Truth, SegmentsFollow
<1>4. i - 1 \in 1 .. Len(Segments) BY <1>2, SegmentIs
<1>5. DataLen \in 1 .. Len(Segments[i - 1].data) BY <1>1, SegmentIs
<1> QED BY <1>1, <1>2, <1>3, <1>4, <1>5

\* Behind position p of file i are bytes o+1 to o+n of record r.
Spans(i, p, n, r, o) == \A k \in 1 .. n : Segments[i].data[p + k] = <<r, o + k>>

LEMMA RecordGoesOn ==
  ASSUME Known, NEW i \in 1 .. Len(Segments), NEW p \in 0 .. Len(Segments[i].data),
         NEW r, NEW o \in Nat, Within(i, p, r, o), NEW n \in Nat \ {0},
         NEW y, y = p + n, y <= Len(Segments[i].data), NEW z, z = o + n, z <= Size(r)
  PROVE  r \in 1 .. Len(Written) /\ Spans(i, p, n, r, o) /\ Within(i, y, r, z)
<1>1. Len(Segments[i].data) \in Nat /\ p \in Nat BY SegmentIs
<1>2. PICK a, b :
        /\ a \in 1 .. Len(Segments[i].data) /\ a <= p + 1 /\ b \in Nat
        /\ Segments[i].data[a] = <<r, b>> /\ a - p = b - o
  <2>1. CASE p # 0
    <3>1. Segments[i].data[p] = <<r, o>> BY <2>1 DEF Within
    <3>2. p \in 1 .. Len(Segments[i].data) /\ p <= p + 1 /\ p - p = o - o
      BY <1>1, <2>1
    <3> QED BY <3>1, <3>2
  <2>2. CASE p = 0
    <3>1. Segments[i].remaining # 0 /\ Segments[i - 1].data[DataLen] = <<r, o>>
      BY <2>2 DEF Within
    <3>2. Segments[i].data # <<>> BY <1>1, <2>2
    <3>3. Segments[i].data[1] = <<r, o + 1>> BY <3>1, <3>2, TailIs
    <3>4. 1 \in 1 .. Len(Segments[i].data) /\ o + 1 \in Nat BY <1>1, <2>2
    <3>5. 1 - p = (o + 1) - o /\ 1 <= p + 1 BY <2>2
    <3> QED BY <3>3, <3>4, <3>5
  <2> QED BY <2>1, <2>2
<1>3. r \in 1 .. Len(Written) BY <1>2, ByteIs
<1>4. Size(r) \in Nat BY <1>3, SizeIs
<1>5. ASSUME NEW k \in 1 .. n PROVE Segments[i].data[p + k] = <<r, o + k>>
  <2>1. PICK c : c = p + k OBVIOUS
  <2>2. PICK e : e = o + k OBVIOUS
  <2>3. /\ c \in 1 .. Len(Segments[i].data) /\ a <= c /\ e \in Nat
        /\ e = b + (c - a) /\ e <= Size(r)
    <3>1. a \in Nat /\ a - p = b - o /\ a <= p + 1 /\ b \in Nat BY <1>2
    <3>2. c \in 1 .. Len(Segments[i].data) BY <1>1, <2>1
    <3>3. a <= c BY <1>1, <2>1, <3>1
    <3>4. e \in Nat /\ e = b + (c - a) BY <1>1, <2>1, <2>2, <3>1
    <3>5. e <= Size(r) BY <1>4, <2>2
    <3> QED BY <3>2, <3>3, <3>4, <3>5
  <2>4. Segments[i].data[c] = <<r, e>> BY <1>2, <2>3, RunFrom
  <2> QED BY <2>1, <2>2, <2>4
<1>6. n \in 1 .. n /\ p + n # 0 BY <1>1
<1>7. Within(i, y, r, z) BY <1>5, <1>6 DEF Within
<1>8. Spans(i, p, n, r, o) BY <1>5 DEF Spans
<1> QED BY <1>3, <1>7, <1>8

LEMMA Begins ==
  ASSUME Known, NEW i \in 1 .. Len(Segments), NEW p \in Nat,
         p < Len(Segments[i].data), Starts(i, p)
  PROVE  /\ p + 1 \in 1 .. Len(Segments[i].data)
         /\ Segments[i].data[p + 1] = <<Segments[i].data[p + 1][1], 1>>
<1>1. Len(Segments[i].data) \in Nat BY SegmentIs
<1>2. p + 1 \in 1 .. Len(Segments[i].data) BY <1>1
<1>3. Segments[i].data[p + 1][2] = 1
  <2>1. CASE p = 0
    <3>1. Segments[i].remaining = 0 /\ Segments[i].data # <<>>
      BY <1>1, <2>1 DEF Starts
    <3>2. Segments[i].data[1] = <<Segments[i].data[1][1], 1>>
      BY <3>1 DEF Known, Truth, SegmentsFollow
    <3> QED BY <2>1, <3>2
  <2>2. CASE p # 0
    <3>1. Lasts(Segments[i].data[p]) /\ p \in 1 .. Len(Segments[i].data) /\ p < p + 1
      BY <1>1, <2>2 DEF Starts
    <3> QED BY <1>2, <3>1 DEF Known, Truth, SegmentsFlow
  <2> QED BY <2>1, <2>2
<1> QED BY <1>2, <1>3, ByteIs

LEMMA RecordBegins ==
  ASSUME Known, NEW i \in 1 .. Len(Segments), NEW p \in Nat, Starts(i, p),
         NEW n \in Nat \ {0}, NEW y, y = p + n, y <= Len(Segments[i].data),
         NEW r, r = Segments[i].data[p + 1][1], n <= Size(r)
  PROVE  r \in 1 .. Len(Written) /\ Spans(i, p, n, r, 0) /\ Within(i, y, r, n)
<1>1. Len(Segments[i].data) \in Nat BY SegmentIs
<1>2. p < Len(Segments[i].data) BY <1>1
<1>3. p + 1 \in 1 .. Len(Segments[i].data) /\ Segments[i].data[p + 1] = <<r, 1>>
  BY <1>2, Begins
<1>4. r \in 1 .. Len(Written) /\ Size(r) \in Nat BY <1>3, ByteIs, SizeIs
<1>5. ASSUME NEW k \in 1 .. n PROVE Segments[i].data[p + k] = <<r, k>>
  <2>1. PICK c : c = p + k OBVIOUS
  <2>2. PICK a : a = p + 1 OBVIOUS
  <2>3. /\ c \in 1 .. Len(Segments[i].data) /\ a <= c /\ k \in Nat
        /\ k = 1 + (c - a) /\ k <= Size(r) /\ 1 \in Nat
    BY <1>1, <1>4, <2>1, <2>2
  <2>4. a \in 1 .. Len(Segments[i].data) /\ Segments[i].data[a] = <<r, 1>>
    BY <1>3, <2>2
  <2>5. PICK d : d = Segments[i].data OBVIOUS
  <2>6. d[a][1] = r /\ d[a][2] = 1 BY <2>4, <2>5
  <2>7. d[c] = <<d[a][1], d[a][2] + (c - a)>> BY <2>3, <2>4, <2>5, <2>6, RunOf
  <2> QED BY <2>1, <2>3, <2>5, <2>6, <2>7
<1>6. p + n # 0 /\ n \in 1 .. n OBVIOUS
<1>7. Within(i, y, r, n) BY <1>5, <1>6 DEF Within
<1>8. Spans(i, p, n, r, 0)
  <2>1. \A k \in 1 .. n : 0 + k = k OBVIOUS
  <2> QED BY <1>5, <2>1 DEF Spans
<1> QED BY <1>4, <1>7, <1>8

\* Behind the last byte of a record another begins.
LEMMA EndsAtStart ==
  ASSUME Known, NEW i \in 1 .. Len(Segments), NEW p \in 0 .. Len(Segments[i].data),
         NEW r \in 1 .. Len(Written), Within(i, p, r, Size(r))
  PROVE  Starts(i, p)
<1>1. CASE p # 0 BY <1>1 DEF Within, Starts, Lasts
<1>2. CASE p = 0
  <2>1. Segments[i].remaining # 0 /\ Segments[i - 1].data[DataLen] = <<r, Size(r)>>
    BY <1>2 DEF Within
  <2>2. Segments[i].remaining = Size(r) - Size(r) BY <2>1, TailIs
  <2> QED BY <2>1, <2>2, SizeIs
<1> QED BY <1>1, <1>2

\* And behind what a file owes.
LEMMA StartsBehindTail ==
  ASSUME Known, NEW i \in 1 .. Len(Segments),
         Segments[i].remaining <= Len(Segments[i].data)
  PROVE  Starts(i, Segments[i].remaining)
<1> SUFFICES ASSUME NEW n, n = Segments[i].remaining PROVE Starts(i, n) OBVIOUS
<1>1. n \in Nat /\ n <= Len(Segments[i].data) /\ Len(Segments[i].data) \in Nat
  BY SegmentIs
<1>2. CASE n = 0 BY <1>2 DEF Starts
<1>3. CASE n # 0
  <2>1. PICK b : b = Segments[i - 1].data[DataLen] OBVIOUS
  <2>2. /\ i - 1 \in 1 .. Len(Segments) /\ DataLen \in 1 .. Len(Segments[i - 1].data)
        /\ n = Size(b[1]) - b[2]
        /\ Segments[i].data # <<>> => Segments[i].data[1] = <<b[1], b[2] + 1>>
    BY <1>3, <2>1, TailIs
  <2>3. b[1] \in 1 .. Len(Written) /\ b[2] \in Nat BY <2>1, <2>2, ByteIs
  <2>4. Size(b[1]) \in Nat BY <2>3, SizeIs
  <2>5. Segments[i].data[1] = <<b[1], b[2] + 1>> /\ 1 \in 1 .. Len(Segments[i].data)
    BY <1>1, <1>3, <2>2
  <2>6. PICK r, o, e : r = b[1] /\ o = b[2] /\ e = Size(b[1]) OBVIOUS
  <2>7. n = e - o /\ o \in Nat /\ e \in Nat BY <2>2, <2>3, <2>4, <2>6
  <2>8. (o + 1) + (n - 1) = e /\ e <= e /\ 1 <= n /\ n \in 1 .. Len(Segments[i].data)
    BY <1>1, <1>3, <2>7
  <2>9. PICK d, a : d = Segments[i].data /\ a = 1 OBVIOUS
  <2>10. /\ a \in 1 .. Len(d) /\ n \in 1 .. Len(d) /\ a <= n
         /\ d[a][1] = r /\ d[a][2] = o + 1 /\ Size(r) = e
    BY <2>5, <2>6, <2>8, <2>9
  <2>11. (o + 1) + (n - a) = e BY <2>7, <2>8, <2>9
  <2>12. PICK c : c = n OBVIOUS
  <2>13. d[c] = <<d[a][1], d[a][2] + (c - a)>>
    <3>1. d[a][2] + (c - a) <= Size(d[a][1]) BY <2>7, <2>10, <2>11, <2>12
    <3>2. c \in 1 .. Len(d) /\ a <= c BY <2>10, <2>12
    <3>3. d = Segments[i].data /\ a \in 1 .. Len(d) BY <2>9, <2>10
    <3> QED BY <3>1, <3>2, <3>3, RunOf
  <2>14. d[n] = <<r, e>> BY <2>10, <2>11, <2>12, <2>13
  <2> QED BY <1>3, <2>9, <2>10, <2>14 DEF Starts, Lasts
<1> QED BY <1>2, <1>3

-----------------------------------------------------------------------------
(* The directory has of each file what was written, or the front of it.    *)

\* What a writer does to the files: they grow, and another may come behind them.
Grow ==
  /\ Len(Segments') \in {Len(Segments), Len(Segments) + 1}
  /\ \A i \in 1 .. Len(Segments) :
       /\ Segments'[i].session = Segments[i].session /\ Segments'[i].seq = Segments[i].seq
       /\ Segments'[i].remaining = Segments[i].remaining
       /\ Len(Segments[i].data) <= Len(Segments'[i].data)
       /\ \A a \in 1 .. Len(Segments[i].data) : Segments'[i].data[a] = Segments[i].data[a]
  /\ Len(Written) <= Len(Written')
  /\ \A r \in 1 .. Len(Written) : Written'[r] = Written[r]

LEMMA WriteGrows ==
  ASSUME Sources, Write
  PROVE  /\ Grow /\ FilesGrow
         /\ \A i \in 1 .. Len(files') : Segments'[i] = Stored(i, files'[i])
         /\ Len(Segments') = Len(files')
<1>1. Writing /\ Writing' /\ Next BY DEF Write, Writing
<1>2. Inv /\ StorageInv BY <1>1 DEF Sources, WriterInv
<1>3. FilesGrow BY <1>1, <1>2, NextGrows
<1>4. files \in Seq(File) /\ Len(files) \in Nat BY <1>2 DEF Inv, TypeOK
<1>5. Len(files') \in {Len(files), Len(files) + 1}
  <2>1. FilesMoved BY <1>1, <1>2, NextMoves
  <2>2. ASSUME NEW n \in Nat, cur # 0, PieceAdded(n) PROVE Len(files') = Len(files)
    BY <1>2, <2>2, PieceData
  <2> QED BY <2>1, <2>2 DEF FilesMoved, FilesKept, FileMadeBehind, CurrentGrows
<1>6. /\ Segments = [i \in 1 .. Len(files) |-> Stored(i, files[i])]
      /\ Segments' = [i \in 1 .. Len(files') |-> Stored(i, files'[i])]
  BY <1>1 DEF Segments, Stored
<1>7. Len(Segments) = Len(files) BY <1>1, <1>2, SourceIs
<1>8. Len(files') \in Nat /\ files' \in Seq(File) BY <1>4, <1>5, <1>3 DEF FilesGrow
<1>9. Len(Segments') = Len(files') BY <1>6, <1>8
<1>10. \A i \in 1 .. Len(files) :
         /\ i \in 1 .. Len(files')
         /\ Segments[i] = Stored(i, files[i]) /\ Segments'[i] = Stored(i, files'[i])
  BY <1>4, <1>5, <1>6
<1>11. ASSUME NEW i \in 1 .. Len(Segments)
       PROVE  /\ Segments'[i].session = Segments[i].session
              /\ Segments'[i].seq = Segments[i].seq
              /\ Segments'[i].remaining = Segments[i].remaining
              /\ Segments'[i].data = files'[i].data /\ Segments[i].data = files[i].data
  <2>1. SameHeader(files[i], files'[i]) BY <1>3, <1>7 DEF FilesGrow
  <2>2. /\ files'[i].session = files[i].session /\ files'[i].seq = files[i].seq
        /\ files'[i].remaining = files[i].remaining
    BY <2>1 DEF SameHeader
  <2>3. Segments[i] = Stored(i, files[i]) /\ Segments'[i] = Stored(i, files'[i])
    BY <1>7, <1>10
  <2>4. \A f : /\ Stored(i, f).session = f.session /\ Stored(i, f).seq = f.seq
               /\ Stored(i, f).remaining = f.remaining /\ Stored(i, f).data = f.data
    BY DEF Stored
  <2> QED BY <2>2, <2>3, <2>4
<1>12. \A i \in 1 .. Len(files) :
         /\ Len(files[i].data) <= Len(files'[i].data)
         /\ \A a \in 1 .. Len(files[i].data) : files'[i].data[a] = files[i].data[a]
  <2>1. \A i \in 1 .. Len(files) :
          Len(files[i].data) \in Nat /\ Len(files'[i].data) \in Nat
    <3> TAKE i \in 1 .. Len(files)
    <3>1. files'[i] \in File BY <1>8, <1>10
    <3>2. files'[i].data \in Seq(Byte) BY <3>1 DEF File
    <3>3. Len(files'[i].data) \in Nat BY <3>2
    <3> QED BY <1>2, <3>3, FileData DEF Inv
  <2> QED BY <1>3, <2>1 DEF FilesGrow
<1>13. /\ Len(Written) <= Len(Written')
       /\ \A r \in 1 .. Len(Written) : Written'[r] = Written[r]
  <2>1. PICK n \in Nat : Writes(n) BY <1>1, <1>2, NextWrites DEF StorageInv
  <2>2. /\ Len(records) \in Nat /\ Len(records') \in {Len(records), Len(records) + 1}
        /\ \A r \in 1 .. Len(records) : records'[r].len = records[r].len
    BY <1>2, <2>1, LensStay
  <2>3. /\ Written = [r \in 1 .. Len(records) |-> records[r].len]
        /\ Written' = [r \in 1 .. Len(records') |-> records'[r].len]
    BY <1>1 DEF Written, Lengths
  <2>4. Len(Written) = Len(records) /\ Len(Written') = Len(records') BY <2>2, <2>3
  <2> QED BY <2>2, <2>3, <2>4
<1>14. \A i \in 1 .. Len(files') : Segments'[i] = Stored(i, files'[i]) BY <1>6
<1>15. Len(Segments') \in {Len(Segments), Len(Segments) + 1} BY <1>5, <1>7, <1>9
<1>16. ASSUME NEW i \in 1 .. Len(Segments)
       PROVE  /\ Len(Segments[i].data) <= Len(Segments'[i].data)
              /\ \A a \in 1 .. Len(Segments[i].data) :
                   Segments'[i].data[a] = Segments[i].data[a]
  <2>1. i \in 1 .. Len(files) BY <1>7
  <2>2. /\ Len(files[i].data) <= Len(files'[i].data)
        /\ \A a \in 1 .. Len(files[i].data) : files'[i].data[a] = files[i].data[a]
    BY <1>12, <2>1
  <2>3. Segments'[i].data = files'[i].data /\ Segments[i].data = files[i].data
    BY <1>11
  <2> QED BY <2>2, <2>3
<1>17. Grow BY <1>11, <1>13, <1>15, <1>16 DEF Grow
<1> QED BY <1>3, <1>9, <1>14, <1>17

LEMMA SessionsStay ==
  ASSUME Known, Grow, NEW i \in 1 .. Len(Segments), NEW j \in 1 .. Len(Segments),
         SessionsBetween(i, j)
  PROVE  SessionsBetween(i, j)'
<1>1. \A o \in i + 1 .. j : o \in 1 .. Len(Segments) BY SegmentIs
<1> QED BY <1>1 DEF Grow, SessionsBetween

LEMMA DiskHas ==
  ASSUME DiskTrue, NEW k \in 1 .. Len(disk), No(k) <= Len(Segments)
  PROVE  No(k) \in 1 .. Len(Segments) /\ FrontOf(disk[k], Segments[No(k)])
<1>1. No(k) \in 1 .. Len(Segments) + 1 BY DEF DiskTrue
<1>2. No(k) \in 1 .. Len(Segments) BY <1>1
<1> QED BY <1>2 DEF DiskTrue

\* A listing has every file as it was written, and the sessions in their order.
LEMMA ListingSound ==
  ASSUME Writing, WriterInv
  PROVE  /\ \A k \in 1 .. Len(Listing) :
              /\ Nth(k) \in 1 .. Len(Segments) /\ Listing[k] = Segments[Nth(k)]
              /\ Listing[k].no = Nth(k) /\ SessionsBetween(Nth(k), Len(Segments))
         /\ \A k, l \in 1 .. Len(Listing) : k < l =>
              Nth(k) < Nth(l) /\ SessionsBetween(Nth(k), Nth(l))
<1>1. TypeOK /\ Inv /\ NamesOrdered /\ SessionsRise
  BY DEF WriterInv, NamesInv, SessionInv, Inv
<1>2. files \in Seq(File) /\ Len(files) \in Nat BY <1>1 DEF TypeOK
<1>3. Len(Segments) = Len(files) BY <1>1, SourceIs
<1>4. Len(Listing) = Cardinality(Present) BY <1>1, ListingIs
<1>5. \A k \in 1 .. Len(Listing) : Nth(k) \in Present /\ Nth(k) \in 1 .. Len(files)
  BY <1>1, <1>4, NthIs, ListingIs
<1>6. ASSUME NEW i \in Present, NEW j \in 1 .. Len(files)
      PROVE  SessionsBetween(i, j)
  <2>1. i \in 1 .. Len(files) /\ files[i].present BY DEF Present
  <2>2. CASE i < j
    <3>1. ~ OneSession(i, j) => files[i].session < files[j].session
      BY <1>1, <2>1, <2>2 DEF SessionsRise
    <3>2. \A o \in i + 1 .. j : o \in 1 .. Len(files) BY <1>2, <2>1
    <3>3. \A o \in 1 .. Len(files) :
            Segments[o].seq = files[o].seq /\ Segments[o].session = files[o].session
      BY <1>1, SourceIs
    <3> QED BY <2>1, <3>1, <3>2, <3>3 DEF OneSession, SessionsBetween
  <2>3. CASE ~ (i < j)
    <3>1. i + 1 .. j = {} BY <1>2, <2>1, <2>3
    <3> QED BY <3>1 DEF SessionsBetween
  <2> QED BY <2>2, <2>3
<1>7. ASSUME NEW k \in 1 .. Len(Listing)
      PROVE  /\ Nth(k) \in 1 .. Len(Segments) /\ Listing[k] = Segments[Nth(k)]
             /\ Listing[k].no = Nth(k) /\ SessionsBetween(Nth(k), Len(Segments))
  <2>1. PICK i : i = Nth(k) OBVIOUS
  <2>2. i \in Present /\ i \in 1 .. Len(files) BY <1>5, <2>1
  <2>3. Listing[k] = Stored(i, files[i]) /\ Listing[k].no = i
    BY <1>1, <2>1, ListingIs
  <2>4. Segments[i] = Stored(i, files[i]) BY <1>1, <2>2, SourceIs
  <2>5. Len(files) \in 1 .. Len(files) BY <1>2, <2>2
  <2>6. SessionsBetween(i, Len(files)) BY <1>6, <2>2, <2>5
  <2> QED BY <1>3, <2>1, <2>2, <2>3, <2>4, <2>6
<1>8. ASSUME NEW k \in 1 .. Len(Listing), NEW l \in 1 .. Len(Listing), k < l
      PROVE  Nth(k) < Nth(l) /\ SessionsBetween(Nth(k), Nth(l))
  <2>1. Nth(k) < Nth(l) BY <1>1, <1>4, <1>8, NthIs
  <2>2. Nth(k) \in Present /\ Nth(l) \in 1 .. Len(files) BY <1>5
  <2> QED BY <1>6, <2>1, <2>2
<1> QED BY <1>7, <1>8

\* The directory, when it is a listing and perhaps the file that comes next.
LEMMA ListedDisk ==
  ASSUME Sources, Writing, Known, NEW new \in Seq(Segment), disk' = Listing \o new,
         Listing \in Seq(Segment), Len(new) <= 1,
         \A k \in 1 .. Len(new) :
           new[k].no = Len(Segments) + 1 /\ new[k].data = <<>> /\ ~ new[k].whole,
         Segments' = Segments
  PROVE  DiskInv'
<1>1. WriterInv BY DEF Sources
<1>2. /\ \A k \in 1 .. Len(Listing) :
           /\ Nth(k) \in 1 .. Len(Segments) /\ Listing[k] = Segments[Nth(k)]
           /\ Listing[k].no = Nth(k) /\ SessionsBetween(Nth(k), Len(Segments))
      /\ \A k, l \in 1 .. Len(Listing) : k < l =>
           Nth(k) < Nth(l) /\ SessionsBetween(Nth(k), Nth(l))
  BY <1>1, ListingSound
<1> DEFINE n == Len(Listing)
<1>3. /\ n \in Nat /\ Len(new) \in {0, 1} /\ Len(disk') = n + Len(new)
      /\ Len(Segments) \in Nat
  <2>1. n \in Nat /\ Len(disk') = n + Len(new) BY Joins
  <2>2. Len(new) \in Nat /\ Len(new) <= 1 OBVIOUS
  <2>3. \A m \in Nat : m <= 1 => m \in {0, 1} OBVIOUS
  <2>4. Len(new) \in {0, 1} BY <2>2, <2>3
  <2>5. Len(Segments) \in Nat BY DEF Known
  <2> QED BY <2>1, <2>4, <2>5
<1>4. \A k \in 1 .. n : disk'[k] = Listing[k] BY Joins
<1>5. \A k \in 1 .. Len(disk') : k \notin 1 .. n => k = n + 1 /\ Len(new) = 1
  BY <1>3
<1>6. Len(new) = 1 => 1 \in 1 .. Len(new) /\ disk'[n + 1] = new[1]
  <2>1. \A i \in 1 .. Len(new) : disk'[n + i] = new[i] BY Joins
  <2>2. 1 \in 1 .. 1 OBVIOUS
  <2> QED BY <2>1, <2>2
<1> HIDE DEF n
<1>7. \A k \in 1 .. n :
        /\ No(k)' = Nth(k) /\ Nth(k) \in 1 .. Len(Segments)
        /\ disk'[k] = Segments[Nth(k)] /\ SessionsBetween(Nth(k), Len(Segments))
  BY <1>2, <1>4 DEF No, n
<1>8. ASSUME NEW k \in 1 .. Len(disk'), k \notin 1 .. n
      PROVE  /\ No(k)' = Len(Segments) + 1 /\ k = n + 1
             /\ disk'[k].data = <<>> /\ ~ disk'[k].whole
  <2>1. k = n + 1 /\ Len(new) = 1 BY <1>5, <1>8
  <2>2. disk'[k] = new[1] /\ 1 \in 1 .. Len(new) BY <1>6, <2>1
  <2> QED BY <2>1, <2>2 DEF No
<1>9. DiskTrue'
  <2> SUFFICES ASSUME NEW k \in 1 .. Len(disk')
               PROVE  /\ No(k)' \in 1 .. Len(Segments) + 1
                      /\ IF No(k)' <= Len(Segments)
                         THEN FrontOf(disk'[k], Segments[No(k)'])
                         ELSE disk'[k].data = <<>> /\ ~ disk'[k].whole
    BY DEF DiskTrue, FrontOf, No
  <2>1. CASE k \in 1 .. n
    <3>1. PICK i : i = Nth(k) OBVIOUS
    <3>2. i \in 1 .. Len(Segments) /\ No(k)' = i /\ disk'[k] = Segments[i]
      BY <1>7, <2>1, <3>1
    <3>3. Len(Segments[i].data) \in Nat BY <3>2, SegmentIs
    <3>4. FrontOf(Segments[i], Segments[i]) BY <3>3 DEF FrontOf
    <3> QED BY <1>3, <3>2, <3>4
  <2>2. CASE k \notin 1 .. n
    <3>1. PICK i : i = No(k)' OBVIOUS
    <3>2. i = Len(Segments) + 1 /\ disk'[k].data = <<>> /\ ~ disk'[k].whole
      BY <1>8, <2>2, <3>1
    <3>3. i \in 1 .. Len(Segments) + 1 /\ ~ (i <= Len(Segments)) BY <1>3, <3>2
    <3> QED BY <3>1, <3>2, <3>3
  <2> QED BY <2>1, <2>2
<1>10. DiskOrdered'
  <2> SUFFICES ASSUME NEW k \in 1 .. Len(disk'), NEW l \in 1 .. Len(disk'), k < l
               PROVE  /\ No(k)' < No(l)'
                      /\ IF No(l)' <= Len(Segments)
                         THEN SessionsBetween(No(k)', No(l)')
                         ELSE SessionsBetween(No(k)', Len(Segments))
    <3>1. \A k, l : SessionsBetween(No(k), No(l))' <=> SessionsBetween(No(k)', No(l)')
      BY DEF SessionsBetween
    <3>2. \A k : SessionsBetween(No(k), Len(Segments))'
                   <=> SessionsBetween(No(k)', Len(Segments))
      BY DEF SessionsBetween
    <3> QED BY <3>1, <3>2 DEF DiskOrdered
  <2>1. CASE l \in 1 .. n
    <3>1. k \in 1 .. n BY <1>3, <2>1
    <3>2. Nth(k) < Nth(l) /\ SessionsBetween(Nth(k), Nth(l))
      BY <1>2, <2>1, <3>1 DEF n
    <3> QED BY <1>3, <1>7, <2>1, <3>1, <3>2
  <2>2. CASE l \notin 1 .. n
    <3>1. PICK j : j = No(l)' OBVIOUS
    <3>2. l = n + 1 /\ j = Len(Segments) + 1 BY <1>8, <2>2, <3>1
    <3>3. k \in 1 .. n BY <1>3, <3>2
    <3>4. PICK i : i = Nth(k) OBVIOUS
    <3>5. No(k)' = i /\ i \in 1 .. Len(Segments) /\ SessionsBetween(i, Len(Segments))
      BY <1>7, <3>3, <3>4
    <3>6. i < j /\ ~ (j <= Len(Segments)) BY <1>3, <3>2, <3>5
    <3> QED BY <3>1, <3>5, <3>6
  <2> QED BY <2>1, <2>2
<1> QED BY <1>9, <1>10 DEF DiskInv

LEMMA BesideListed ==
  ASSUME SystemInv, Sources, Known, OpenBesideWriter
  PROVE  /\ Writing /\ Inv /\ NamesInv /\ Listing \in Seq(Segment)
         /\ Len(Segments) = Len(files)
         /\ \E new \in Seq(Segment) :
              /\ disk' = Listing \o new /\ Len(new) <= 1
              /\ \A k \in 1 .. Len(new) :
                   new[k].no = Len(Segments) + 1 /\ new[k].data = <<>> /\ ~ new[k].whole
<1>1. Writing BY DEF OpenBesideWriter, Writing
<1>2. Inv /\ NamesInv BY <1>1 DEF Sources, WriterInv
<1>3. PICK new \in {<<>>} \cup
                   (IF Creating THEN {<<Stored(Len(files) + 1, NewFile(id, FALSE))>> :
                                        id \in FreeIds} ELSE {}) :
        R!New(Listing \o new, Lengths)
  BY DEF OpenBesideWriter
<1>4. disk' = Listing \o new BY <1>3 DEF R!New
<1>5. Listing \in Seq(Segment) BY <1>2, ListingIs DEF Inv, NamesInv
<1>6. Len(Segments) = Len(files) BY <1>1, <1>2, SourceIs
<1>7. /\ new \in Seq(Segment) /\ Len(new) <= 1
      /\ \A k \in 1 .. Len(new) :
           new[k].no = Len(Segments) + 1 /\ new[k].data = <<>> /\ ~ new[k].whole
  <2>1. CASE new = <<>> BY <2>1
  <2>2. CASE new # <<>>
    <3>1. Creating /\ \E id \in FreeIds : new = <<Stored(Len(files) + 1, NewFile(id, FALSE))>>
      BY <1>3, <2>2
    <3>2. PICK id \in FreeIds : new = <<Stored(Len(files) + 1, NewFile(id, FALSE))>>
      BY <3>1
    <3>3. NewFile(id, FALSE) \in File /\ NewFile(id, FALSE).data = <<>>
          /\ ~ NewFile(id, FALSE).whole
      BY <1>2, FreeNat, FileMade DEF Inv, NewFile
    <3>4. Len(files) + 1 \in Nat BY <1>2 DEF Inv, TypeOK
    <3>5. PICK x : x = Stored(Len(files) + 1, NewFile(id, FALSE)) OBVIOUS
    <3>6. x \in Segment /\ x.no = Len(files) + 1 /\ x.data = <<>>
      BY <3>3, <3>4, <3>5, StoredIs
    <3>7. ~ x.whole BY <3>3, <3>5 DEF Stored
    <3>8. <<x>> \in Seq(Segment) /\ Len(<<x>>) = 1 /\ <<x>>[1] = x BY <3>6
    <3>9. \A k \in 1 .. Len(<<x>>) : <<x>>[k] = x BY <3>8
    <3>10. new = <<x>> BY <3>2, <3>5
    <3> QED BY <1>6, <3>6, <3>7, <3>8, <3>9, <3>10
  <2> QED BY <2>1, <2>2
<1> QED BY <1>1, <1>2, <1>4, <1>5, <1>6, <1>7

LEMMA OpenedBeside ==
  ASSUME SystemInv, Sources, Known, OpenBesideWriter
  PROVE  DiskInv'
<1>1. Writing /\ Listing \in Seq(Segment) BY BesideListed
<1>2. Segments' = Segments BY SourceKept
<1> QED BY <1>1, <1>2, BesideListed, ListedDisk

LEMMA StoppedDisk ==
  ASSUME SystemInv, Sources, Known, StopWriting, phase = "live" => DiskInv
  PROVE  DiskInv'
<1>1. Segments' = Segments BY SourceKept
<1>2. CASE phase = "live"
  <2>1. disk' = disk BY <1>2 DEF StopWriting
  <2> QED BY <1>1, <1>2, <2>1
      DEF DiskInv, DiskTrue, DiskOrdered, No, FrontOf, SessionsBetween
<1>3. CASE phase # "live"
  <2>1. Writing /\ disk' = Listing BY <1>3 DEF StopWriting, Writing
  <2>2. Inv /\ NamesInv BY <2>1 DEF Sources, WriterInv
  <2>3. Listing \in Seq(Segment) BY <2>2, ListingIs DEF Inv, NamesInv
  <2>4. PICK new : new = <<>> OBVIOUS
  <2>5. new \in Seq(Segment) /\ Len(new) = 0 /\ Listing \o new = Listing
    BY <2>3, <2>4
  <2>6. \A k : k \notin 1 .. Len(new) BY <2>5
  <2>7. Len(new) <= 1 BY <2>5
  <2> QED BY <1>1, <2>1, <2>3, <2>5, <2>6, <2>7, ListedDisk
<1> QED BY <1>2, <1>3

\* Sequence r is s with t behind it.
Concatenates(r, s, t) ==
  /\ Len(r) = Len(s) + Len(t)
  /\ \A k \in 1 .. Len(s) : r[k] = s[k]
  /\ \A k \in 1 .. Len(t) : r[Len(s) + k] = t[k]

LEMMA Linked ==
  ASSUME NEW S, NEW s, s \in Seq(S), NEW t, t \in Seq(S), NEW r, r = s \o t
  PROVE  Concatenates(r, s, t) /\ r \in Seq(S)
BY DEF Concatenates

\* s and t are what is before the i-th element of q, and behind it.
Parts(q, i, s, t) ==
  /\ i \in Nat /\ Len(q) \in Nat /\ i <= Len(q)
  /\ Len(s) = i - 1 /\ \A k \in 1 .. i - 1 : s[k] = q[k]
  /\ Len(t) = Len(q) - i /\ \A k \in 1 .. Len(q) - i : t[k] = q[i + k]

LEMMA PartsOf ==
  ASSUME NEW S, NEW q, q \in Seq(S), NEW i, i \in 1 .. Len(q),
         NEW s, s = SubSeq(q, 1, i - 1), NEW t, t = SubSeq(q, i + 1, Len(q))
  PROVE  Parts(q, i, s, t) /\ s \in Seq(S) /\ t \in Seq(S)
<1>1. Len(s) = i - 1 /\ \A k \in 1 .. i - 1 : s[k] = q[k] OBVIOUS
<1>2. Len(t) = Len(q) - i /\ \A k \in 1 .. Len(q) - i : t[k] = q[i + k] OBVIOUS
<1>3. Len(q) \in Nat /\ i \in Nat /\ i <= Len(q) OBVIOUS
<1> QED BY <1>1, <1>2, <1>3 DEF Parts

\* Sequence r is q without its i-th element, or with g in its place.
Without(r, q, i) ==
  /\ Len(r) = Len(q) - 1
  /\ \A k \in 1 .. Len(r) : r[k] = q[IF k < i THEN k ELSE k + 1]
With(r, q, i, g) ==
  Len(r) = Len(q) /\ r[i] = g /\ \A k \in 1 .. Len(q) : k # i => r[k] = q[k]

LEMMA Removed ==
  ASSUME NEW q, NEW i, NEW s, NEW t, Parts(q, i, s, t), NEW r, Concatenates(r, s, t)
  PROVE  Without(r, q, i)
<1>1. Len(s) = i - 1 /\ \A k \in 1 .. i - 1 : s[k] = q[k] BY DEF Parts
<1>2. Len(t) = Len(q) - i /\ \A k \in 1 .. Len(q) - i : t[k] = q[i + k] BY DEF Parts
<1>3. Len(q) \in Nat /\ i \in Nat /\ i <= Len(q) BY DEF Parts
<1>4. /\ Len(r) = (i - 1) + (Len(q) - i) /\ \A k \in 1 .. i - 1 : r[k] = s[k]
      /\ \A k \in 1 .. Len(q) - i : r[(i - 1) + k] = t[k]
  BY <1>1, <1>2 DEF Concatenates
<1>5. Len(r) = Len(q) - 1 BY <1>3, <1>4
<1>6. ASSUME NEW k \in 1 .. Len(r) PROVE r[k] = q[IF k < i THEN k ELSE k + 1]
  <2>1. CASE k < i
    <3>1. k \in 1 .. i - 1 BY <1>3, <2>1
    <3> QED BY <1>1, <1>4, <2>1, <3>1
  <2>2. CASE ~ (k < i)
    <3>1. PICK j : j = k - (i - 1) OBVIOUS
    <3>2. k \in Nat /\ k <= Len(q) - 1
      <4>1. \A n \in Nat : k \in 1 .. n - 1 => k \in Nat /\ k <= n - 1 OBVIOUS
      <4> QED BY <1>3, <1>5, <4>1
    <3>3. j \in 1 .. Len(q) - i /\ (i - 1) + j = k /\ i + j = k + 1
      BY <1>3, <2>2, <3>1, <3>2
    <3>4. r[k] = t[j] BY <1>4, <3>3
    <3>5. t[j] = q[k + 1] BY <1>2, <3>3
    <3> QED BY <2>2, <3>4, <3>5
  <2> QED BY <2>1, <2>2
<1> QED BY <1>5, <1>6 DEF Without

LEMMA Exchanged ==
  ASSUME NEW q, NEW i, NEW s, NEW t, Parts(q, i, s, t), NEW g, NEW one, one = <<g>>,
         NEW u, Concatenates(u, s, one), NEW r, Concatenates(r, u, t), i # 0
  PROVE  With(r, q, i, g)
<1>1. Len(s) = i - 1 /\ \A k \in 1 .. i - 1 : s[k] = q[k] BY DEF Parts
<1>2. Len(t) = Len(q) - i /\ \A k \in 1 .. Len(q) - i : t[k] = q[i + k] BY DEF Parts
<1>3. Len(q) \in Nat /\ i \in Nat /\ i <= Len(q) BY DEF Parts
<1>4. (i - 1) + 1 = i /\ i + (Len(q) - i) = Len(q) /\ i \in 1 .. i BY <1>3
<1>5. Len(u) = i /\ u[i] = g /\ \A k \in 1 .. i - 1 : u[k] = s[k]
  <2>1. Len(one) = 1 /\ one[1] = g /\ 1 \in 1 .. 1 OBVIOUS
  <2>2. Len(u) = Len(s) + 1 /\ u[Len(s) + 1] = g /\ \A k \in 1 .. Len(s) : u[k] = s[k]
    BY <2>1 DEF Concatenates
  <2> QED BY <1>1, <1>4, <2>2
<1>6. /\ Len(r) = Len(q) /\ \A k \in 1 .. i : r[k] = u[k]
      /\ \A k \in 1 .. Len(q) - i : r[i + k] = t[k]
  BY <1>2, <1>4, <1>5 DEF Concatenates
<1>7. ASSUME NEW k \in 1 .. Len(q), k # i PROVE r[k] = q[k]
  <2>1. CASE k < i
    <3>1. k \in 1 .. i - 1 /\ k \in 1 .. i BY <1>3, <2>1
    <3> QED BY <1>1, <1>5, <1>6, <3>1
  <2>2. CASE ~ (k < i)
    <3>1. PICK j : j = k - i OBVIOUS
    <3>2. j \in 1 .. Len(q) - i /\ i + j = k BY <1>3, <1>7, <2>2, <3>1
    <3> QED BY <1>2, <1>6, <3>2
  <2> QED BY <2>1, <2>2
<1> QED BY <1>4, <1>5, <1>6, <1>7 DEF With

\* The k-th file of what damage leaves is what it left of one, behind those before.
LEMMA DamageIs ==
  ASSUME SystemTypes, NEW i \in 1 .. Len(disk), Damage(i)
  PROVE  \E m \in [1 .. Len(disk') -> 1 .. Len(disk)] :
           /\ \A k, l \in 1 .. Len(disk') : k < l => m[k] < m[l]
           /\ \A k \in 1 .. Len(disk') :
                disk'[k].no = disk[m[k]].no /\ FrontOf(disk'[k], disk[m[k]])
                /\ (disk'[k].whole => disk[m[k]].whole)
<1>1. disk \in Seq(Segment) /\ disk[i] \in Segment /\ Len(disk) \in Nat /\ i \in Nat
  BY DEF SystemTypes
<1>2. \A k \in 1 .. Len(disk) : Len(disk[k].data) \in Nat
  <2> TAKE k \in 1 .. Len(disk)
  <2>1. disk[k] \in Segment BY <1>1
  <2>2. disk[k].data \in Seq(Byte) BY <2>1 DEF Segment
  <2> QED BY <2>2
<1>3. PICK remains \in Remains(disk[i]) :
        disk' = SubSeq(disk, 1, i - 1) \o remains \o SubSeq(disk, i + 1, Len(disk))
  BY DEF Damage
<1>4. \A k \in 1 .. Len(disk) : FrontOf(disk[k], disk[k]) BY <1>2 DEF FrontOf
<1>5. CASE remains = <<>>
  <2> DEFINE m == [k \in 1 .. Len(disk') |-> IF k < i THEN k ELSE k + 1]
  <2>1. /\ Len(disk') = Len(disk) - 1
        /\ \A k \in 1 .. Len(disk') : disk'[k] = disk[IF k < i THEN k ELSE k + 1]
    <3>1. PICK q, r, s, t : /\ q = disk /\ r = disk' /\ s = SubSeq(disk, 1, i - 1)
                            /\ t = SubSeq(disk, i + 1, Len(disk))
      OBVIOUS
    <3>2. q \in Seq(Segment) /\ i \in 1 .. Len(q) BY <1>1, <3>1
    <3>3. s = SubSeq(q, 1, i - 1) /\ t = SubSeq(q, i + 1, Len(q)) BY <3>1
    <3>4. Parts(q, i, s, t) /\ s \in Seq(Segment) /\ t \in Seq(Segment)
      BY <3>2, <3>3, PartsOf
    <3>5. r = s \o t
      <4>1. s \o <<>> = s BY <3>4
      <4> QED BY <1>3, <1>5, <3>1, <4>1
    <3>6. Concatenates(r, s, t) BY <3>4, <3>5, Linked
    <3>7. Without(r, q, i) BY <3>4, <3>6, Removed
    <3> QED BY <3>1, <3>7 DEF Without
  <2>2. \A k \in 1 .. Len(disk') : m[k] \in 1 .. Len(disk) /\ disk'[k] = disk[m[k]]
    BY <1>1, <2>1
  <2>3. \A k, l \in 1 .. Len(disk') : k < l => m[k] < m[l] BY <1>1, <2>1
  <2>4. m \in [1 .. Len(disk') -> 1 .. Len(disk)] BY <2>2
  <2>5. \A k \in 1 .. Len(disk') :
          disk'[k].no = disk[m[k]].no /\ FrontOf(disk'[k], disk[m[k]])
          /\ (disk'[k].whole => disk[m[k]].whole)
    BY <1>4, <2>2
  <2> HIDE DEF m
  <2> QED BY <2>3, <2>4, <2>5
<1>6. ASSUME NEW g \in Segment, remains = <<g>>, g.no = disk[i].no, FrontOf(g, disk[i]),
             g.whole => disk[i].whole
      PROVE  \E m \in [1 .. Len(disk') -> 1 .. Len(disk)] :
               /\ \A k, l \in 1 .. Len(disk') : k < l => m[k] < m[l]
               /\ \A k \in 1 .. Len(disk') :
                    disk'[k].no = disk[m[k]].no /\ FrontOf(disk'[k], disk[m[k]])
                    /\ (disk'[k].whole => disk[m[k]].whole)
  <2> DEFINE m == [k \in 1 .. Len(disk') |-> k]
  <2>1. /\ Len(disk') = Len(disk) /\ disk'[i] = g
        /\ \A k \in 1 .. Len(disk) : k # i => disk'[k] = disk[k]
    <3>1. PICK q, r, s, t, u, one :
            /\ q = disk /\ r = disk' /\ s = SubSeq(disk, 1, i - 1)
            /\ t = SubSeq(disk, i + 1, Len(disk)) /\ one = <<g>> /\ u = s \o one
      OBVIOUS
    <3>2. q \in Seq(Segment) /\ i \in 1 .. Len(q) BY <1>1, <3>1
    <3>3. s = SubSeq(q, 1, i - 1) /\ t = SubSeq(q, i + 1, Len(q)) BY <3>1
    <3>4. Parts(q, i, s, t) /\ s \in Seq(Segment) /\ t \in Seq(Segment)
      BY <3>2, <3>3, PartsOf
    <3>5. one \in Seq(Segment) /\ one = <<g>> BY <1>6, <3>1
    <3>6. u = s \o one /\ r = u \o t BY <1>3, <1>6, <3>1
    <3>7. Concatenates(u, s, one) /\ u \in Seq(Segment) BY <3>4, <3>5, <3>6, Linked
    <3>8. Concatenates(r, u, t) BY <3>4, <3>6, <3>7, Linked
    <3>9. With(r, q, i, g)
      <4>1. i # 0 BY <3>2
      <4> QED BY <3>4, <3>5, <3>7, <3>8, <4>1, Exchanged
    <3> QED BY <3>1, <3>9 DEF With
  <2>2. \A k \in 1 .. Len(disk') :
          disk'[k].no = disk[k].no /\ FrontOf(disk'[k], disk[k])
          /\ (disk'[k].whole => disk[k].whole)
    BY <1>4, <1>6, <2>1
  <2>3. m \in [1 .. Len(disk') -> 1 .. Len(disk)] BY <2>1
  <2>4. \A k \in 1 .. Len(disk') : m[k] = k OBVIOUS
  <2> HIDE DEF m
  <2> QED BY <2>2, <2>3, <2>4
<1>7. CASE remains = <<[disk[i] EXCEPT !.whole = FALSE]>>
  <2>1. PICK g : g = [disk[i] EXCEPT !.whole = FALSE] OBVIOUS
  <2>2. /\ g \in Segment /\ g.no = disk[i].no /\ g.data = disk[i].data
        /\ g.whole = FALSE
    BY <1>1, <2>1 DEF Segment
  <2>3. FrontOf(g, disk[i]) BY <1>2, <2>2 DEF FrontOf
  <2> QED BY <1>6, <1>7, <2>1, <2>2, <2>3
<1>8. ASSUME NEW n \in 0 .. Len(disk[i].data) - 1,
             remains = <<[disk[i] EXCEPT !.data = SubSeq(disk[i].data, 1, n)]>>
      PROVE  \E m \in [1 .. Len(disk') -> 1 .. Len(disk)] :
               /\ \A k, l \in 1 .. Len(disk') : k < l => m[k] < m[l]
               /\ \A k \in 1 .. Len(disk') :
                    disk'[k].no = disk[m[k]].no /\ FrontOf(disk'[k], disk[m[k]])
                    /\ (disk'[k].whole => disk[m[k]].whole)
  <2>1. PICK d, e : d = disk[i].data /\ e = SubSeq(d, 1, n) OBVIOUS
  <2>2. d \in Seq(Byte) BY <1>1, <2>1 DEF Segment
  <2>3. /\ e \in Seq(Byte) /\ Len(e) = n /\ n <= Len(d)
        /\ \A a \in 1 .. n : e[a] = d[a]
    BY <1>8, <2>1, <2>2
  <2>4. PICK g : g = [disk[i] EXCEPT !.data = e] OBVIOUS
  <2>5. g \in Segment BY <1>1, <2>3, <2>4 DEF Segment
  <2>6. /\ g.data = e /\ g.no = disk[i].no /\ g.whole = disk[i].whole
        /\ g.session = disk[i].session /\ g.seq = disk[i].seq
        /\ g.remaining = disk[i].remaining
    BY <1>1, <2>4 DEF Segment
  <2>7. FrontOf(g, disk[i]) BY <2>1, <2>3, <2>6 DEF FrontOf
  <2> QED BY <1>6, <1>8, <2>1, <2>4, <2>5, <2>6, <2>7
<1> QED BY <1>3, <1>5, <1>7, <1>8 DEF Remains

LEMMA FrontOfFront ==
  ASSUME NEW x, NEW y, NEW s, FrontOf(x, y), FrontOf(y, s), x.whole => y.whole,
         x.data \in Seq(Byte), y.data \in Seq(Byte), s.data \in Seq(Byte)
  PROVE  FrontOf(x, s)
<1>1. Len(x.data) \in Nat /\ Len(y.data) \in Nat /\ Len(s.data) \in Nat OBVIOUS
<1> QED BY <1>1 DEF FrontOf

LEMMA DamagedDisk ==
  ASSUME SystemInv, SystemTypes', Known, DiskInv, NEW i \in 1 .. Len(disk), Damage(i),
         Segments' = Segments
  PROVE  DiskInv'
<1>1. PICK m \in [1 .. Len(disk') -> 1 .. Len(disk)] :
        /\ \A k, l \in 1 .. Len(disk') : k < l => m[k] < m[l]
        /\ \A k \in 1 .. Len(disk') :
             disk'[k].no = disk[m[k]].no /\ FrontOf(disk'[k], disk[m[k]])
             /\ (disk'[k].whole => disk[m[k]].whole)
  BY DamageIs DEF SystemInv
<1>2. \A k \in 1 .. Len(disk') : m[k] \in 1 .. Len(disk) /\ No(k)' = No(m[k])
  BY <1>1 DEF No
<1>3. DiskTrue'
  <2> SUFFICES ASSUME NEW k \in 1 .. Len(disk')
               PROVE  /\ No(k)' \in 1 .. Len(Segments) + 1
                      /\ IF No(k)' <= Len(Segments)
                         THEN FrontOf(disk'[k], Segments[No(k)'])
                         ELSE disk'[k].data = <<>> /\ ~ disk'[k].whole
    BY DEF DiskTrue, FrontOf, No
  <2>1. PICK l : l = m[k] OBVIOUS
  <2>2. l \in 1 .. Len(disk) /\ No(k)' = No(l) BY <1>2, <2>1
  <2>3. FrontOf(disk'[k], disk[l]) /\ (disk'[k].whole => disk[l].whole) BY <1>1, <2>1
  <2>4. disk'[k].data \in Seq(Byte) /\ disk[l].data \in Seq(Byte)
    <3>1. disk'[k] \in Segment /\ disk[l] \in Segment
      BY <2>2 DEF SystemInv, SystemTypes
    <3> QED BY <3>1 DEF Segment
  <2>5. No(l) \in 1 .. Len(Segments) + 1 BY <2>2 DEF DiskInv, DiskTrue
  <2>6. CASE No(l) <= Len(Segments)
    <3>1. No(l) \in 1 .. Len(Segments) /\ FrontOf(disk[l], Segments[No(l)])
      BY <2>2, <2>6, DiskHas DEF DiskInv
    <3>2. Segments[No(l)].data \in Seq(Byte) BY <3>1, SegmentIs
    <3>3. FrontOf(disk'[k], Segments[No(l)]) BY <2>3, <2>4, <3>1, <3>2, FrontOfFront
    <3> QED BY <2>2, <2>5, <2>6, <3>3
  <2>7. CASE ~ (No(l) <= Len(Segments))
    <3>1. disk[l].data = <<>> /\ ~ disk[l].whole BY <2>2, <2>7 DEF DiskInv, DiskTrue
    <3>2. Len(disk'[k].data) <= Len(disk[l].data) BY <2>3 DEF FrontOf
    <3>3. disk'[k].data = <<>> BY <2>4, <3>1, <3>2
    <3> QED BY <2>2, <2>3, <2>5, <2>7, <3>1, <3>3
  <2> QED BY <2>6, <2>7
<1>4. DiskOrdered'
  <2> SUFFICES ASSUME NEW k \in 1 .. Len(disk'), NEW l \in 1 .. Len(disk'), k < l
               PROVE  /\ No(k)' < No(l)'
                      /\ IF No(l)' <= Len(Segments)
                         THEN Segments[No(l)'].seq # 0 => SessionsBetween(No(k)', No(l)')
                         ELSE SessionsBetween(No(k)', Len(Segments))
    BY DEF DiskOrdered, SessionsBetween, No
  <2>1. m[k] \in 1 .. Len(disk) /\ m[l] \in 1 .. Len(disk) /\ m[k] < m[l]
        /\ No(k)' = No(m[k]) /\ No(l)' = No(m[l])
    BY <1>1, <1>2
  <2> QED BY <2>1 DEF DiskInv, DiskOrdered
<1> QED BY <1>3, <1>4 DEF DiskInv

\* A writer's step adds to the files, and the directory has what it had of them.
LEMMA WrittenDisk ==
  ASSUME SystemInv, Sources, Known, DiskInv, Write, phase = "live", Truth'
  PROVE  DiskInv'
<1>1. /\ Grow /\ \A i \in 1 .. Len(files') : Segments'[i] = Stored(i, files'[i])
      /\ Len(Segments') = Len(files')
  BY WriteGrows
<1>2. disk' = Refreshed BY DEF Write
<1>3. disk \in Seq(Segment) /\ Len(disk) \in Nat BY DEF SystemInv, SystemTypes
<1>4. /\ Len(disk') = Len(disk)
      /\ \A k \in 1 .. Len(disk) :
           disk'[k] = IF No(k) \in Present' THEN Stored(No(k), files'[No(k)])
                      ELSE [disk[k] EXCEPT !.whole = FALSE]
  BY <1>2, <1>3 DEF Refreshed, No
<1>5. /\ Len(Segments) \in Nat /\ Len(Segments') \in Nat
      /\ Len(Segments') = Len(Segments) \/ Len(Segments') = Len(Segments) + 1
  BY <1>1 DEF Known, Grow
<1>6. ASSUME NEW k \in 1 .. Len(disk)
      PROVE  /\ disk[k] \in Segment
             /\ \/ /\ No(k) \in 1 .. Len(Segments') /\ disk'[k] = Segments'[No(k)]
                   /\ disk'[k].no = No(k)
                \/ /\ disk'[k].no = No(k) /\ disk'[k].data = disk[k].data
                   /\ disk'[k].whole = FALSE
  <2>1. disk[k] \in Segment BY <1>3
  <2>2. CASE No(k) \in Present'
    <3>1. No(k) \in 1 .. Len(files') BY <2>2 DEF Present
    <3>2. disk'[k] = Stored(No(k), files'[No(k)]) BY <1>4, <2>2
    <3>3. disk'[k].no = No(k) BY <3>2 DEF Stored
    <3> QED BY <1>1, <2>1, <3>1, <3>2, <3>3
  <2>3. CASE No(k) \notin Present'
    <3>1. disk'[k] = [disk[k] EXCEPT !.whole = FALSE] BY <1>4, <2>3
    <3> QED BY <2>1, <3>1 DEF Segment, No
  <2> QED BY <2>2, <2>3
<1>7. \A k \in 1 .. Len(disk) : No(k)' = No(k) BY <1>6 DEF No
<1>8. ASSUME NEW i \in 1 .. Len(Segments') PROVE Len(Segments'[i].data) \in Nat
  <2>1. Writing' /\ WriterInv
    BY DEF Write, Writing, Sources
  <2>2. Writing /\ Next BY DEF Write, Writing
  <2>3. WriterInv' BY <2>1, <2>2, WriterStep
  <2>4. files' \in Seq(File) BY <2>3 DEF WriterInv, Inv, TypeOK
  <2>5. files'[i] \in File BY <1>1, <2>4
  <2>6. files'[i].data \in Seq(Byte) BY <2>5 DEF File
  <2>7. \A f : Stored(i, f).data = f.data BY DEF Stored
  <2>8. Segments'[i] = Stored(i, files'[i]) BY <1>1
  <2> QED BY <2>6, <2>7, <2>8
<1>9. DiskTrue'
  <2> SUFFICES ASSUME NEW k \in 1 .. Len(disk)
               PROVE  /\ No(k) \in 1 .. Len(Segments') + 1
                      /\ IF No(k) <= Len(Segments')
                         THEN FrontOf(disk'[k], Segments'[No(k)])
                         ELSE disk'[k].data = <<>> /\ ~ disk'[k].whole
    BY <1>4, <1>7 DEF DiskTrue, FrontOf, No
  <2>1. No(k) \in 1 .. Len(Segments) + 1 BY DEF DiskInv, DiskTrue
  <2>2. No(k) \in 1 .. Len(Segments') + 1 BY <1>5, <2>1
  <2>3. CASE No(k) \in 1 .. Len(Segments') /\ disk'[k] = Segments'[No(k)]
    <3>1. Len(Segments'[No(k)].data) \in Nat BY <1>8, <2>3
    <3>2. FrontOf(disk'[k], Segments'[No(k)]) BY <2>3, <3>1 DEF FrontOf
    <3>3. No(k) <= Len(Segments') BY <1>5, <2>3
    <3> QED BY <2>2, <3>2, <3>3
  <2>4. CASE disk'[k].data = disk[k].data /\ disk'[k].whole = FALSE
    <3>1. disk[k].data \in Seq(Byte) BY <1>6 DEF Segment
    <3>2. CASE No(k) <= Len(Segments)
      <4>1. No(k) \in 1 .. Len(Segments) /\ FrontOf(disk[k], Segments[No(k)])
        BY <3>2, DiskHas DEF DiskInv
      <4>2. No(k) \in 1 .. Len(Segments') /\ No(k) <= Len(Segments')
        BY <1>5, <3>2, <4>1
      <4>3. PICK d, e, x :
              /\ d = Segments[No(k)].data /\ e = Segments'[No(k)].data
              /\ x = disk'[k].data
        OBVIOUS
      <4>4. Len(d) <= Len(e) /\ \A a \in 1 .. Len(d) : e[a] = d[a]
        BY <1>1, <4>1, <4>3 DEF Grow
      <4>5. Len(x) <= Len(d) /\ \A a \in 1 .. Len(x) : x[a] = d[a]
        BY <2>4, <4>1, <4>3 DEF FrontOf
      <4>6. Len(x) \in Nat /\ Len(d) \in Nat /\ Len(e) \in Nat
        BY <1>8, <2>4, <3>1, <4>1, <4>2, <4>3, SegmentIs
      <4>7. Len(x) <= Len(e) /\ \A a \in 1 .. Len(x) : x[a] = e[a]
        BY <4>4, <4>5, <4>6
      <4>8. FrontOf(disk'[k], Segments'[No(k)]) BY <2>4, <4>3, <4>7 DEF FrontOf
      <4> QED BY <2>2, <4>2, <4>8
    <3>3. CASE ~ (No(k) <= Len(Segments))
      <4>1. disk'[k].data = <<>> /\ disk'[k].whole = FALSE
        BY <2>4, <3>3 DEF DiskInv, DiskTrue
      <4>2. CASE No(k) <= Len(Segments')
        <5>1. No(k) \in 1 .. Len(Segments') BY <1>5, <2>1, <4>2
        <5>2. Len(Segments'[No(k)].data) \in Nat BY <1>8, <5>1
        <5>3. Len(disk'[k].data) = 0 BY <4>1
        <5>4. FrontOf(disk'[k], Segments'[No(k)]) BY <4>1, <5>2, <5>3 DEF FrontOf
        <5> QED BY <2>2, <4>2, <5>4
      <4> QED BY <2>2, <4>1, <4>2
    <3> QED BY <3>2, <3>3
  <2> QED BY <1>6, <2>3, <2>4
<1>10. DiskOrdered'
  <2> SUFFICES ASSUME NEW k \in 1 .. Len(disk), NEW l \in 1 .. Len(disk), k < l
               PROVE  /\ No(k) < No(l)
                      /\ IF No(l) <= Len(Segments')
                         THEN Segments'[No(l)].seq # 0 => SessionsBetween(No(k), No(l))'
                         ELSE SessionsBetween(No(k), Len(Segments))'
    BY <1>4, <1>7 DEF DiskOrdered, SessionsBetween
  <2>1. PICK i, j : i = No(k) /\ j = No(l) OBVIOUS
  <2>2. i < j /\ i \in 1 .. Len(Segments) + 1 /\ j \in 1 .. Len(Segments) + 1
    BY <2>1 DEF DiskInv, DiskOrdered, DiskTrue
  <2>3. IF j <= Len(Segments) THEN Segments[j].seq # 0 => SessionsBetween(i, j)
        ELSE SessionsBetween(i, Len(Segments))
    BY <2>1 DEF DiskInv, DiskOrdered
  <2>4. i \in 1 .. Len(Segments) BY <1>5, <2>2
  <2>5. CASE j <= Len(Segments)
    <3>1. j \in 1 .. Len(Segments) /\ j <= Len(Segments') BY <1>5, <2>2, <2>5
    <3>2. Segments'[j].seq = Segments[j].seq BY <1>1, <3>1 DEF Grow
    <3>3. SessionsBetween(i, j) => SessionsBetween(i, j)'
      BY <1>1, <2>4, <3>1, SessionsStay
    <3>4. SessionsBetween(i, j)' = SessionsBetween(No(k), No(l))'
      BY <1>7, <2>1 DEF SessionsBetween
    <3> QED BY <2>1, <2>2, <2>3, <2>5, <3>1, <3>2, <3>3, <3>4
  <2>6. CASE ~ (j <= Len(Segments))
    <3>1. j = Len(Segments) + 1 /\ Len(Segments) \in 1 .. Len(Segments)
      BY <1>5, <2>2, <2>4, <2>6
    <3>2. PICK n : n = Len(Segments) OBVIOUS
    <3>3. SessionsBetween(i, n)'
      BY <1>1, <2>3, <2>4, <2>6, <3>1, <3>2, SessionsStay
    <3>4. CASE Len(Segments') = n
      <4>1. ~ (j <= Len(Segments')) BY <1>5, <3>1, <3>2, <3>4
      <4>2. SessionsBetween(i, n)' = SessionsBetween(No(k), Len(Segments))'
        BY <1>7, <2>1, <3>4 DEF SessionsBetween
      <4> QED BY <2>1, <2>2, <3>3, <4>1, <4>2
    <3>5. CASE Len(Segments') = n + 1
      <4>1. j = n + 1 /\ j \in 1 .. Len(Segments') /\ n = j - 1 /\ j <= Len(Segments')
        BY <1>5, <3>1, <3>2, <3>5
      <4>2. ASSUME Segments'[j].seq # 0 PROVE SessionsBetween(i, j)'
        <5>1. Segments'[j - 1].session = Segments'[j].session
          BY <4>1, <4>2 DEF Truth, SegmentsFollow
        <5>2. ASSUME NEW o \in i + 1 .. j, Segments'[o].seq = 0
              PROVE  Segments'[i].session < Segments'[j].session
          <6>1. o # j BY <4>2, <5>2
          <6>2. i \in Nat /\ n \in Nat BY <1>5, <2>4, <3>2
          <6>3. o \in i + 1 .. n BY <4>1, <6>1, <6>2
          <6>4. Segments'[i].session < Segments'[n].session
            BY <3>3, <5>2, <6>3 DEF SessionsBetween
          <6> QED BY <4>1, <5>1, <6>4
        <5> QED BY <5>2 DEF SessionsBetween
      <4>3. SessionsBetween(i, j)' = SessionsBetween(No(k), No(l))'
        BY <1>7, <2>1 DEF SessionsBetween
      <4> QED BY <2>1, <2>2, <4>1, <4>2, <4>3
    <3> QED BY <1>5, <3>2, <3>4, <3>5
  <2> QED BY <2>5, <2>6
<1> QED BY <1>9, <1>10 DEF DiskInv

LEMMA ReaderKeepsDisk == ReadOn => disk' = disk /\ lens' = lens
<1> SUFFICES ASSUME ReadOn PROVE disk' = disk /\ lens' = lens OBVIOUS
<1> QED
  BY DEF ReadOn, R!Next, R!Call, R!Step, R!aside, R!ReadAtEnd, R!Read, R!FindNone,
         R!CrossNone, R!FindSessionEnd, R!FindDiscards, R!FindsStart, R!FindSeekFails,
         R!CrossSessionEnd, R!CrossFollows, R!CrossRejects, R!ReadPiece, R!PieceFails,
         R!HeaderDone, R!PayloadDone, R!SkipDone

LEMMA DiskStep ==
  SystemInv /\ Sources /\ DiskInv /\ [SystemNext]_sysvars /\ (SystemInv /\ Sources)'
    /\ MaxCorrupted = 0 => DiskInv'
<1> SUFFICES ASSUME SystemInv, Sources, DiskInv, [SystemNext]_sysvars, SystemInv',
                    Sources', MaxCorrupted = 0
             PROVE  DiskInv'
  OBVIOUS
<1>1. Known BY SourcesKnown
<1>2. ASSUME disk' = disk, Segments' = Segments PROVE DiskInv'
  BY <1>2 DEF DiskInv, DiskTrue, DiskOrdered, No, FrontOf, SessionsBetween
<1>3. CASE Write
  <2>1. CASE phase = "live"
    <3>1. Truth' BY DEF Sources
    <3> QED BY <1>1, <1>3, <2>1, <3>1, WrittenDisk
  <2>2. CASE phase # "live"
    <3>1. disk' = <<>> BY <1>3, <2>2 DEF Write, Sources
    <3>2. \A k : k \notin 1 .. Len(disk') BY <3>1
    <3> QED BY <3>2 DEF DiskInv, DiskTrue, DiskOrdered
  <2> QED BY <2>1, <2>2
<1>4. CASE StopWriting BY <1>1, <1>4, StoppedDisk
<1>5. CASE OpenBesideWriter BY <1>1, <1>5, OpenedBeside
<1>6. CASE \E i \in 1 .. Len(disk) : Damage(i)
  <2>1. PICK i \in 1 .. Len(disk) : Damage(i) BY <1>6
  <2>2. Segments' = Segments BY <1>6, SourceKept
  <2>3. SystemTypes' BY DEF SystemInv
  <2> QED BY <1>1, <2>1, <2>2, <2>3, DamagedDisk
<1>7. CASE \E i \in 1 .. Len(disk) : Corrupt(i)
  <2>1. corrupted \in Nat /\ corrupted < MaxCorrupted
    BY <1>7 DEF Corrupt, SystemInv, SystemTypes
  <2> QED BY <2>1
<1>8. CASE OpenReader
  <2>1. Segments' = Segments BY <1>8, SourceKept
  <2>2. disk' = disk BY <1>8 DEF OpenReader, R!New
  <2> QED BY <1>2, <2>1, <2>2
<1>9. CASE ReadOn BY <1>2, <1>9, SourceKept, ReaderKeepsDisk
<1>10. CASE UNCHANGED sysvars
  <2>1. disk' = disk BY <1>10 DEF sysvars, rdvars
  <2>2. Segments' = Segments BY <1>10, SourceKept
  <2> QED BY <1>2, <2>1, <2>2
<1> QED
  BY <1>3, <1>4, <1>5, <1>6, <1>7, <1>8, <1>9, <1>10 DEF SystemNext

-----------------------------------------------------------------------------
(* The files of a session that were made one behind another.               *)

\* File j is of the session of file i, and made behind it.
Run(i, j) == i < j /\ \A o \in i + 1 .. j : Segments[o].seq # 0

LEMMA RunRises ==
  ASSUME Known, SequencesLeft, NEW i \in 1 .. Len(Segments), NEW j \in 1 .. Len(Segments),
         Run(i, j)
  PROVE  Segments[i].seq < Segments[j].seq
<1>1. Segments[i].seq < Segments[j].seq \/ Segments[j].seq >= SeqMax
  BY DEF Run, Known, Truth, SegmentsRise
<1>2. Segments[j].seq < SeqMax BY DEF SequencesLeft
<1>3. Segments[j].seq \in Nat /\ SeqMax \in Nat BY SegmentIs, FormatAssumption
<1> QED BY <1>1, <1>2, <1>3

\* The next of a run has the next sequence number.
LEMMA RunNext ==
  ASSUME Known, SequencesLeft, NEW i \in 1 .. Len(Segments), NEW j \in 1 .. Len(Segments),
         Run(i, j)
  PROVE  /\ i + 1 \in 1 .. Len(Segments) /\ Segments[i + 1].seq = Segments[i].seq + 1
         /\ i + 1 = j \/ Run(i + 1, j)
<1>1. i \in Nat /\ j \in Nat /\ Len(Segments) \in Nat BY SegmentIs
<1>2. i + 1 \in 1 .. Len(Segments) /\ i + 1 \in i + 1 .. j /\ i + 1 <= j
  BY <1>1 DEF Run
<1>3. Segments[i + 1].seq # 0 BY <1>2 DEF Run
<1>4. Segments[i + 1].seq = SeqNext(Segments[(i + 1) - 1].seq)
  BY <1>2, <1>3 DEF Known, Truth, SegmentsFollow
<1>5. (i + 1) - 1 = i BY <1>1
<1>6. Segments[i].seq < SeqMax /\ Segments[i].seq \in Nat
  BY SegmentIs DEF SequencesLeft
<1>7. Segments[i + 1].seq = Segments[i].seq + 1
  BY <1>4, <1>5, <1>6, FormatAssumption DEF SeqNext
<1>8. i + 1 = j \/ Run(i + 1, j)
  <2>1. \A o \in (i + 1) + 1 .. j : o \in i + 1 .. j BY <1>1
  <2> QED BY <1>1, <1>2, <2>1 DEF Run
<1> QED BY <1>2, <1>7, <1>8

\* The next sequence number is that of the next file; the one after it, that of
\* the file behind one.
LEMMA RunFollows ==
  ASSUME Known, SequencesLeft, NEW i \in 1 .. Len(Segments), NEW j \in 1 .. Len(Segments),
         Run(i, j)
  PROVE  /\ Segments[j].seq = Segments[i].seq + 1 => j = i + 1
         /\ Segments[j].seq = Segments[i].seq + 2 =>
              j = i + 2 /\ i + 1 \in 1 .. Len(Segments)
<1>1. PICK n, s, t : n = i + 1 /\ s = Segments[i].seq /\ t = Segments[j].seq OBVIOUS
<1>2. s \in Nat /\ t \in Nat /\ i \in Nat /\ n \in Nat BY <1>1, SegmentIs
<1>3. /\ n \in 1 .. Len(Segments) /\ Segments[n].seq = s + 1
      /\ n = j \/ Run(n, j)
  BY <1>1, RunNext
<1>4. ASSUME t = s + 1 PROVE j = i + 1
  <2>1. ASSUME Run(n, j) PROVE FALSE
    <3>1. s + 1 < t BY <1>1, <1>3, <2>1, RunRises
    <3> QED BY <1>2, <1>4, <3>1
  <2> QED BY <1>1, <1>3, <2>1
<1>5. ASSUME t = s + 2 PROVE j = i + 2
  <2>1. n # j
    <3>1. s + 1 # s + 2 BY <1>2
    <3>2. Segments[n].seq # Segments[j].seq BY <1>1, <1>3, <1>5, <3>1
    <3> QED BY <3>2
  <2>2. Run(n, j) BY <1>3, <2>1
  <2>3. PICK m : m = n + 1 OBVIOUS
  <2>4. /\ m \in 1 .. Len(Segments) /\ Segments[m].seq = (s + 1) + 1
        /\ m = j \/ Run(m, j)
    BY <1>3, <2>2, <2>3, RunNext
  <2>5. ASSUME Run(m, j) PROVE FALSE
    <3>1. (s + 1) + 1 < t BY <1>1, <2>4, <2>5, RunRises
    <3> QED BY <1>2, <1>5, <3>1
  <2> QED BY <1>1, <1>2, <2>3, <2>4, <2>5
<1> QED BY <1>1, <1>3, <1>4, <1>5

\* Two files of one session in the directory.
LEMMA RunBetween ==
  ASSUME Known, DiskInv, NEW k \in 1 .. Len(disk), NEW l \in 1 .. Len(disk), k < l,
         NEW i, i = No(k), NEW j, j = No(l), i <= Len(Segments), j <= Len(Segments),
         Segments[i].session = Segments[j].session, Segments[j].seq # 0
  PROVE  i \in 1 .. Len(Segments) /\ j \in 1 .. Len(Segments) /\ Run(i, j)
<1>1. i \in 1 .. Len(Segments) /\ j \in 1 .. Len(Segments) BY DiskHas DEF DiskInv
<1>2. i < j /\ SessionsBetween(i, j) BY DEF DiskInv, DiskOrdered
<1>3. Segments[i].session \in Nat /\ Segments[j].session \in Nat BY <1>1, SegmentIs
<1>4. ~ (Segments[i].session < Segments[j].session) BY <1>3
<1>5. \A o \in i + 1 .. j : Segments[o].seq # 0 BY <1>2, <1>4 DEF SessionsBetween
<1> QED BY <1>1, <1>2, <1>5 DEF Run

-----------------------------------------------------------------------------
(* The open file, and the files that are pending.                          *)

LEMMA FileIs ==
  ASSUME SystemTypes, Known, DiskInv, NEW f \in 1 .. Len(disk), NEW i, i = No(f)
  PROVE  /\ f \in Nat /\ Len(disk) \in Nat /\ disk[f] \in Segment
         /\ disk[f].data \in Seq(Byte) /\ Len(disk[f].data) \in Nat
         /\ disk[f].whole => i <= Len(Segments)
         /\ i <= Len(Segments) =>
              /\ i \in 1 .. Len(Segments) /\ FrontOf(disk[f], Segments[i])
              /\ Len(disk[f].data) <= Len(Segments[i].data)
         /\ disk[f].whole =>
              /\ disk[f].session = Segments[i].session /\ disk[f].seq = Segments[i].seq
              /\ disk[f].remaining = Segments[i].remaining
<1>1. disk \in Seq(Segment) BY DEF SystemTypes
<1>2. disk[f] \in Segment /\ f \in Nat /\ Len(disk) \in Nat BY <1>1
<1>3. disk[f].data \in Seq(Byte) BY <1>2 DEF Segment
<1>4. Len(disk[f].data) \in Nat BY <1>3
<1>5. disk[f].whole => i <= Len(Segments) BY DEF DiskInv, DiskTrue
<1>6. i <= Len(Segments) => i \in 1 .. Len(Segments) /\ FrontOf(disk[f], Segments[i])
  BY DiskHas DEF DiskInv
<1>7. FrontOf(disk[f], Segments[i]) /\ disk[f].whole =>
        /\ disk[f].session = Segments[i].session /\ disk[f].seq = Segments[i].seq
        /\ disk[f].remaining = Segments[i].remaining
  BY DEF FrontOf
<1>8. FrontOf(disk[f], Segments[i]) => Len(disk[f].data) <= Len(Segments[i].data)
  BY DEF FrontOf
<1> QED BY <1>2, <1>3, <1>4, <1>5, <1>6, <1>7, <1>8

LEMMA PlaceIs ==
  ASSUME SystemInv, Known, DiskInv, CurrentSound, current # R!NoFile, NEW h, h = Here
  PROVE  /\ h \in 1 .. Len(Segments) /\ current.file \in 1 .. Len(disk)
         /\ h = No(current.file)
         /\ current.pos \in Nat /\ current.len \in Nat /\ current.pos <= current.len
         /\ current.len <= Len(disk[current.file].data)
         /\ Len(disk[current.file].data) <= Len(Segments[h].data)
         /\ current.len <= Len(Segments[h].data) /\ current.len <= DataLen
         /\ current.pos \in 0 .. Len(Segments[h].data)
         /\ \A a \in 1 .. current.len : disk[current.file].data[a] = Segments[h].data[a]
         /\ \A p \in 1 .. Len(pending) : h < No(pending[p])
<1>1. /\ current.file \in 1 .. Len(disk) /\ current.pos \in Nat /\ current.len \in Nat
      /\ current.pos <= current.len /\ current.len <= Len(disk[current.file].data)
  BY DEF SystemInv, ReaderInv, PlaceTypes
<1>2. PICK f : f = current.file OBVIOUS
<1>3. f \in 1 .. Len(disk) /\ h = No(f) BY <1>1, <1>2 DEF Here
<1>4. h <= Len(Segments) BY DEF CurrentSound
<1>5. /\ h \in 1 .. Len(Segments) /\ FrontOf(disk[f], Segments[h])
      /\ Len(disk[f].data) <= Len(Segments[h].data) /\ Len(disk[f].data) \in Nat
  BY <1>3, <1>4, FileIs DEF SystemInv
<1>6. Len(Segments[h].data) \in Nat /\ Len(Segments[h].data) <= DataLen /\ DataLen \in Nat
  BY <1>5, SegmentIs
<1>7. PICK c, d, e : c = current.len /\ d = Len(disk[f].data) /\ e = Len(Segments[h].data)
  OBVIOUS
<1>8. c <= d /\ d <= e /\ e <= DataLen /\ c \in Nat /\ d \in Nat /\ e \in Nat
  BY <1>1, <1>2, <1>5, <1>6, <1>7
<1>9. c <= e /\ c <= DataLen /\ \A a \in 1 .. c : a \in 1 .. d BY <1>6, <1>8
<1>10. \A a \in 1 .. c : disk[f].data[a] = Segments[h].data[a]
  BY <1>5, <1>7, <1>9 DEF FrontOf
<1>11. current.pos \in 0 .. e BY <1>1, <1>7, <1>8, <1>9
<1>12. ASSUME NEW p \in 1 .. Len(pending) PROVE h < No(pending[p])
  <2>1. pending[p] \in 1 .. Len(disk) BY DEF SystemInv, ReaderInv, PlaceTypes
  <2>2. f < pending[p] BY <1>2 DEF CurrentSound
  <2> QED BY <1>3, <2>1, <2>2 DEF DiskInv, DiskOrdered
<1> QED BY <1>1, <1>2, <1>3, <1>5, <1>7, <1>8, <1>9, <1>10, <1>11, <1>12

-----------------------------------------------------------------------------
(* A reader beside a writer: what it has read remains what was written.    *)

LEMMA GrownPlace ==
  ASSUME Known, Grow, NEW i \in 1 .. Len(Segments), NEW p \in 0 .. Len(Segments[i].data)
  PROVE  /\ i \in 1 .. Len(Segments')
         /\ Starts(i, p) => Starts(i, p)'
         /\ \A r, o : Within(i, p, r, o) => Within(i, p, r, o)'
<1>1. /\ Len(Segments) \in Nat /\ i \in Nat
      /\ Len(Segments') = Len(Segments) \/ Len(Segments') = Len(Segments) + 1
  BY SegmentIs DEF Grow
<1>2. i \in 1 .. Len(Segments') BY <1>1
<1>3. Segments'[i].remaining = Segments[i].remaining BY DEF Grow
<1>4. p # 0 => p \in 1 .. Len(Segments[i].data) BY SegmentIs
<1>5. p # 0 => Segments'[i].data[p] = Segments[i].data[p] BY <1>4 DEF Grow
<1>6. Starts(i, p) => Starts(i, p)'
  <2>1. CASE p = 0 BY <1>3, <2>1 DEF Starts
  <2>2. CASE p # 0
    <3>1. PICK b : b = Segments[i].data[p] OBVIOUS
    <3>2. b[1] \in 1 .. Len(Written) BY <1>4, <2>2, <3>1, ByteIs
    <3>3. Written'[b[1]] = Written[b[1]] BY <3>2 DEF Grow
    <3> QED BY <1>5, <2>2, <3>1, <3>3 DEF Starts, Lasts, Size
  <2> QED BY <2>1, <2>2
<1>7. ASSUME NEW r, NEW o, Within(i, p, r, o) PROVE Within(i, p, r, o)'
  <2>1. CASE p = 0
    <3>1. Segments[i].remaining # 0 /\ Segments[i - 1].data[DataLen] = <<r, o>>
      BY <1>7, <2>1 DEF Within
    <3>2. i - 1 \in 1 .. Len(Segments) /\ DataLen \in 1 .. Len(Segments[i - 1].data)
      BY <3>1, TailIs
    <3>3. Segments'[i - 1].data[DataLen] = Segments[i - 1].data[DataLen]
      BY <3>2 DEF Grow
    <3> QED BY <1>3, <2>1, <3>1, <3>3 DEF Within
  <2>2. CASE p # 0 BY <1>5, <1>7, <2>2 DEF Within
  <2> QED BY <2>1, <2>2
<1> QED BY <1>2, <1>6, <1>7

LEMMA SequencesWereLeft ==
  ASSUME Known, Grow, SequencesLeft'
  PROVE  SequencesLeft
<1> SUFFICES ASSUME NEW i \in 1 .. Len(Segments) PROVE Segments[i].seq < SeqMax
  BY DEF SequencesLeft
<1>1. /\ Len(Segments) \in Nat
      /\ Len(Segments') = Len(Segments) \/ Len(Segments') = Len(Segments) + 1
  BY SegmentIs DEF Grow
<1>2. i \in 1 .. Len(Segments') BY <1>1
<1> QED BY <1>2 DEF SequencesLeft, Grow

\* A file that a reader has listed stays the file it is.
LEMMA FilesKeepNumbers ==
  ASSUME SystemInv, Write, phase = "live", NEW k \in 1 .. Len(disk)
  PROVE  No(k)' = No(k)
<1>1. disk' = Refreshed BY DEF Write
<1>2. disk \in Seq(Segment) /\ Len(disk) \in Nat BY DEF SystemInv, SystemTypes
<1>3. disk'[k] = IF No(k) \in Present' THEN Stored(No(k), files'[No(k)])
                 ELSE [disk[k] EXCEPT !.whole = FALSE]
  BY <1>1, <1>2 DEF Refreshed, No
<1>4. disk[k] \in Segment BY <1>2
<1>5. CASE No(k) \in Present'
  <2>1. disk'[k] = Stored(No(k), files'[No(k)]) BY <1>3, <1>5
  <2> QED BY <2>1 DEF No, Stored
<1>6. CASE No(k) \notin Present'
  <2>1. disk'[k] = [disk[k] EXCEPT !.whole = FALSE] BY <1>3, <1>6
  <2> QED BY <1>4, <2>1 DEF Segment, No
<1> QED BY <1>5, <1>6

LEMMA ReaderBesideWriter ==
  ASSUME SystemInv, Sources, Known, DiskInv, ReaderSound, Write, phase = "live", Sources'
  PROVE  ReaderSound'
<1>1. Grow BY WriteGrows
<1>2. UNCHANGED <<pending, current, session, prevSeq, startLost, recovery, lastMeta, rpc,
                  got, payloadLen, consumed, total, implied, results>>
  BY DEF Write, readervars
<1>3. disk \in Seq(Segment) /\ Len(disk) \in Nat BY DEF SystemInv, SystemTypes
<1>4. disk' = Refreshed BY DEF Write
<1>5. Len(disk') = Len(disk) BY <1>3, <1>4 DEF Refreshed
<1>6. ASSUME NEW k \in 1 .. Len(disk) PROVE No(k)' = No(k) BY FilesKeepNumbers
<1>7. lens = Written /\ lens' = Written'
  <2>1. phase' # "writing" BY DEF Write
  <2> QED BY <2>1 DEF Sources
<1>8. \A r \in 1 .. Len(lens) : r \in 1 .. Len(lens') /\ lens'[r] = lens[r]
  <2>1. Len(Written) \in Nat BY DEF Known
  <2>2. Len(Written) <= Len(Written') /\ \A r \in 1 .. Len(Written) : Written'[r] = Written[r]
    BY <1>1 DEF Grow
  <2>3. \A r \in 1 .. Len(Written) : r \in 1 .. Len(Written')
    <3>1. PICK m, n : m = Len(Written) /\ n = Len(Written') OBVIOUS
    <3>2. Len(Written') \in Nat BY <1>7 DEF Sources, Write, Lengths
    <3>3. \A r \in 1 .. m : r \in 1 .. n BY <2>1, <2>2, <3>1, <3>2
    <3> QED BY <3>1, <3>3
  <2> QED BY <1>7, <2>2, <2>3
<1>9. current # R!NoFile =>
        /\ current.file \in 1 .. Len(disk) /\ Here \in 1 .. Len(Segments)
        /\ current.pos \in 0 .. Len(Segments[Here].data) /\ Here' = Here
  <2> SUFFICES ASSUME current # R!NoFile
               PROVE  /\ current.file \in 1 .. Len(disk) /\ Here \in 1 .. Len(Segments)
                      /\ current.pos \in 0 .. Len(Segments[Here].data) /\ Here' = Here
    OBVIOUS
  <2>1. /\ current.file \in 1 .. Len(disk) /\ Here \in 1 .. Len(Segments)
        /\ current.pos \in 0 .. Len(Segments[Here].data)
    <3>1. PICK h : h = Here OBVIOUS
    <3> QED BY <3>1, PlaceIs DEF ReaderSound, PlaceSound
  <2>2. PICK k : k = current.file OBVIOUS
  <2>3. Here' = No(k)' /\ Here = No(k) BY <1>2, <2>2 DEF Here, No
  <2> QED BY <1>6, <2>1, <2>2, <2>3
<1>10. \A p \in 1 .. Len(pending) : pending[p] \in 1 .. Len(disk)
  BY DEF SystemInv, ReaderInv, PlaceTypes
<1>11. ASSUME NEW b, Passed(b) PROVE Passed(b)'
  <2>1. PICK i, a :
          /\ i \in 1 .. Len(Segments) /\ a \in 1 .. Len(Segments[i].data)
          /\ Segments[i].data[a] = b
          /\ \A p \in 1 .. Len(pending) : i < No(pending[p])
          /\ current # R!NoFile => i < Here \/ (i = Here /\ a <= current.pos)
    BY <1>11 DEF Passed
  <2>2. /\ Len(Segments) \in Nat /\ i \in Nat /\ Len(Segments[i].data) \in Nat
        /\ Len(Segments') = Len(Segments) \/ Len(Segments') = Len(Segments) + 1
    BY <1>1, <2>1, SegmentIs DEF Grow
  <2>3. i \in 1 .. Len(Segments') BY <2>1, <2>2
  <2>4. /\ Len(Segments[i].data) <= Len(Segments'[i].data)
        /\ Segments'[i].data[a] = b
    BY <1>1, <2>1 DEF Grow
  <2>5. a \in 1 .. Len(Segments'[i].data)
    <3>1. Len(Segments'[i].data) \in Nat
      <4>1. Writing' BY DEF Write, Writing
      <4>2. Inv' BY <4>1 DEF Sources, WriterInv
      <4>3. files' \in Seq(File) BY <4>2 DEF Inv, TypeOK
      <4>4. Segments'[i] = Stored(i, files'[i]) /\ Len(Segments') = Len(files')
        BY <2>3, WriteGrows
      <4>5. files'[i] \in File BY <2>3, <4>3, <4>4
      <4>6. files'[i].data \in Seq(Byte) BY <4>5 DEF File
      <4>7. \A f : Stored(i, f).data = f.data BY DEF Stored
      <4> QED BY <4>4, <4>6, <4>7
    <3>2. PICK m, n : m = Len(Segments[i].data) /\ n = Len(Segments'[i].data) OBVIOUS
    <3>3. a \in 1 .. m /\ m <= n /\ m \in Nat /\ n \in Nat BY <2>1, <2>2, <2>4, <3>1, <3>2
    <3>4. a \in 1 .. n BY <3>3
    <3> QED BY <3>2, <3>4
  <2>6. \A p \in 1 .. Len(pending') : i < No(pending[p])'
    <3>1. \A p \in 1 .. Len(pending) : No(pending[p])' = No(pending[p])
      <4> TAKE p \in 1 .. Len(pending)
      <4>1. PICK k : k = pending[p] OBVIOUS
      <4>2. k \in 1 .. Len(disk) BY <1>10, <4>1
      <4>3. No(k)' = No(k) BY <1>6, <4>2
      <4> QED BY <1>2, <4>1, <4>3 DEF No
    <3> QED BY <1>2, <2>1, <3>1 DEF No
  <2>7. current' # R!NoFile => i < Here' \/ (i = Here' /\ a <= current'.pos)
    BY <1>2, <1>9, <2>1
  <2> QED BY <2>3, <2>4, <2>5, <2>6, <2>7 DEF Passed
<1>12. PlaceSound'
  <2>1. PendingRises' BY <1>2 DEF ReaderSound, PlaceSound, PendingRises
  <2>2. CurrentSound'
    <3> SUFFICES ASSUME current # R!NoFile
                 PROVE  /\ \A p \in 1 .. Len(pending) : current.file < pending[p]
                        /\ Here <= Len(Segments')
                        /\ session = <<Segments'[Here].session>>
                        /\ prevSeq = <<Segments'[Here].seq>>
                        /\ startLost = 0
                        /\ rpc = "idle" => Starts(Here, current.pos)'
      BY <1>2, <1>9 DEF CurrentSound, Starts
    <3>1. PICK h, p : h = Here /\ p = current.pos OBVIOUS
    <3>2. h \in 1 .. Len(Segments) /\ p \in 0 .. Len(Segments[h].data) BY <1>9, <3>1
    <3>3. h \in 1 .. Len(Segments') /\ (Starts(h, p) => Starts(h, p)')
      BY <1>1, <3>2, GrownPlace
    <3>4. Segments'[h].session = Segments[h].session /\ Segments'[h].seq = Segments[h].seq
      BY <1>1, <3>2 DEF Grow
    <3>5. h <= Len(Segments') BY <3>3
    <3>6. Starts(Here, current.pos)' = Starts(h, p)' BY <1>2, <1>9, <3>1 DEF Starts
    <3>7. Starts(Here, current.pos) = Starts(h, p) BY <3>1
    <3> QED BY <3>1, <3>3, <3>4, <3>5, <3>6, <3>7 DEF ReaderSound, PlaceSound, CurrentSound
  <2>3. RecoverySound'
    <3> SUFFICES ASSUME Format = "simple", recovery # <<>>,
                        NEW i, i = No(recovery[1].file)
                 PROVE  /\ recovery[1].file \in 1 .. Len(disk)
                        /\ No(recovery[1].file)' = i /\ i \in 2 .. Len(Segments')
                        /\ recovery[1].owed = Segments'[i - 1].remaining
                        /\ Segments'[i - 1].remaining # 0
                        /\ startLost = 0 /\ session # <<>>
      BY <1>2, <1>5 DEF RecoverySound, No
    <3>1. /\ recovery[1].file \in 1 .. Len(disk) /\ i \in 2 .. Len(Segments)
          /\ recovery[1].owed = Segments[i - 1].remaining
          /\ Segments[i - 1].remaining # 0
          /\ startLost = 0 /\ session # <<>>
      BY DEF ReaderSound, PlaceSound, RecoverySound
    <3>2. Len(Segments) \in Nat BY DEF Known
    <3>3. i - 1 \in 1 .. Len(Segments) BY <3>1, <3>2
    <3>4. Segments'[i - 1].remaining = Segments[i - 1].remaining BY <1>1, <3>3 DEF Grow
    <3>5. i \in 2 .. Len(Segments') BY <1>1, <3>1, <3>2 DEF Grow
    <3>6. No(recovery[1].file)' = No(recovery[1].file)
      <4>1. PICK k : k = recovery[1].file OBVIOUS
      <4>2. No(k)' = No(k) BY <1>6, <3>1, <4>1
      <4> QED BY <1>2, <4>1, <4>2 DEF No
    <3> QED BY <3>1, <3>4, <3>5, <3>6
  <2> QED BY <2>1, <2>2, <2>3 DEF PlaceSound
<1>13. CallSound'
  <2>1. ASSUME R!Reading
        PROVE  IF consumed = 0
               THEN Starts(Here, current.pos)' /\ got = <<>> /\ implied = <<>>
               ELSE \E r \in 1 .. Len(lens') : Reads(r)'
    <3>1. PICK h, p : h = Here /\ p = current.pos OBVIOUS
    <3>2. current # R!NoFile BY <2>1 DEF SystemInv, ReaderInv, Anchored
    <3>3. h \in 1 .. Len(Segments) /\ p \in 0 .. Len(Segments[h].data)
          /\ Here' = h /\ current'.pos = p
      BY <1>2, <1>9, <3>1, <3>2
    <3>4. /\ Starts(h, p) => Starts(h, p)'
          /\ \A r, o : Within(h, p, r, o) => Within(h, p, r, o)'
      BY <1>1, <3>3, GrownPlace
    <3>5. CASE consumed = 0
      <4>1. Starts(h, p) /\ got = <<>> /\ implied = <<>>
        BY <2>1, <3>1, <3>5 DEF ReaderSound, CallSound
      <4>2. Starts(Here, current.pos)' = Starts(h, p)' BY <3>3 DEF Starts
      <4> QED BY <3>4, <3>5, <4>1, <4>2
    <3>6. CASE consumed # 0
      <4>1. PICK r \in 1 .. Len(lens) : Reads(r) BY <2>1, <3>6 DEF ReaderSound, CallSound
      <4>2. r \in 1 .. Len(lens') /\ lens'[r] = lens[r] BY <1>8
      <4>3. PICK o : o = consumed OBVIOUS
      <4>4. Within(h, p, r, o) BY <3>1, <4>1, <4>3 DEF Reads
      <4>5. Within(h, p, r, o)' BY <3>4, <4>4
      <4>6. Within(Here, current.pos, r, consumed)' BY <1>2, <3>3, <4>3, <4>5 DEF Within
      <4>7. got # <<>> /\ rpc \in {"payload", "skip"} => Passed(got[1])'
        <5>1. PICK b : b = got[1] OBVIOUS
        <5>2. Passed(b) => Passed(b)' BY <1>11
        <5>3. Passed(got[1])' = Passed(b)' BY <1>2, <5>1 DEF Passed
        <5> QED BY <4>1, <5>1, <5>2, <5>3 DEF Reads
      <4>8. \A i \in Telling' : Told(i)' < r BY <1>2, <4>1 DEF Reads, Telling, Told
      <4>9. Reads(r)' BY <1>2, <4>1, <4>2, <4>6, <4>7, <4>8 DEF Reads
      <4> QED BY <3>6, <4>2, <4>9
    <3> QED BY <3>5, <3>6
  <2> QED BY <1>2, <2>1 DEF ReaderSound, CallSound, R!Reading
<1>14. TellSound'
  <2>1. \A i \in 1 .. Len(results') : TellsTruth(results[i])'
    <3> SUFFICES ASSUME NEW i \in 1 .. Len(results), NEW x, x = results[i]
                 PROVE  TellsTruth(x)'
      BY <1>2 DEF TellsTruth, Gives
    <3>1. TellsTruth(x) BY DEF ReaderSound, TellSound
    <3>2. ASSUME NEW r \in 1 .. Len(lens), Gives(x, r)
          PROVE  r \in 1 .. Len(lens') /\ Gives(x, r)'
      BY <1>8, <3>2 DEF Gives
    <3> QED BY <3>1, <3>2 DEF TellsTruth
  <2>2. \A i \in Telling' : Passed(results[i].data[1])'
    <3> SUFFICES ASSUME NEW i \in Telling PROVE Passed(results[i].data[1])'
      BY <1>2 DEF Telling, Passed
    <3>1. PICK b : b = results[i].data[1] OBVIOUS
    <3>2. Passed(b) BY <3>1 DEF ReaderSound, TellSound
    <3>3. Passed(b)' BY <1>11, <3>2
    <3> QED BY <1>2, <3>1, <3>3 DEF Passed
  <2>3. InOrder' BY <1>2 DEF ReaderSound, TellSound, InOrder, Telling, Told
  <2> QED BY <2>1, <2>2, <2>3 DEF TellSound
<1> QED BY <1>12, <1>13, <1>14 DEF ReaderSound

-----------------------------------------------------------------------------
(* A reader that has read nothing yet.                                     *)

LEMMA FreshReader ==
  ASSUME current' = R!NoFile, recovery' = <<>>, results' = <<>>, rpc' = "idle",
         Format # "tsrc" => lastMeta' = <<>>, PendingRises'
  PROVE  ReaderSound'
<1>1. PlaceSound' BY DEF PlaceSound, CurrentSound, RecoverySound
<1>2. CallSound' BY DEF CallSound, R!Reading
<1>3. TellSound'
  <2>1. \A i : i \notin 1 .. Len(results') BY DEF Telling
  <2> QED BY <2>1 DEF TellSound, InOrder, Telling
<1> QED BY <1>1, <1>2, <1>3 DEF ReaderSound

LEMMA NoneRises == pending = <<>> => PendingRises
<1> SUFFICES ASSUME pending = <<>> PROVE PendingRises OBVIOUS
<1>1. \A p : p \notin 1 .. Len(pending) OBVIOUS
<1> QED BY <1>1 DEF PendingRises

\* A writer alone, damage, and the making of a reader.
\* The files that a new reader has before it are in their order.
LEMMA FreshRises ==
  ASSUME SystemInv, SystemInv', phase \in {"writing", "damaging"},
         (Write /\ phase = "writing") \/ (StopWriting /\ phase = "writing")
           \/ OpenBesideWriter \/ OpenReader
           \/ \E i \in 1 .. Len(disk) : Damage(i) \/ Corrupt(i)
  PROVE  PendingRises'
<1>1. CASE pending' = pending
  <2>1. pending = <<>> BY DEF SystemInv, Unborn
  <2> QED BY <1>1, <2>1 DEF PendingRises
<1>2. ASSUME NEW listing, pending' = [f \in 1 .. Len(listing) |-> f],
             listing \in Seq(Segment)
      PROVE  PendingRises'
  <2>1. Len(listing) \in Nat BY <1>2
  <2>2. Len(pending') = Len(listing) BY <1>2, <2>1
  <2>3. \A f \in 1 .. Len(pending') : pending'[f] = f BY <1>2, <2>2
  <2> QED BY <2>3 DEF PendingRises
<1>3. ASSUME NEW listing, R!New(listing, lens') PROVE PendingRises'
  <2>1. pending' = [f \in 1 .. Len(listing) |-> f] /\ disk' = listing
    BY <1>3 DEF R!New
  <2>2. listing \in Seq(Segment) BY <2>1 DEF SystemInv, SystemTypes
  <2> QED BY <1>2, <2>1, <2>2
<1>4. CASE OpenBesideWriter
  <2>1. PICK new : R!New(Listing \o new, Lengths) BY <1>4 DEF OpenBesideWriter
  <2>2. R!New(Listing \o new, lens') BY <2>1 DEF R!New
  <2> QED BY <1>3, <2>2
<1>5. CASE OpenReader
  <2>1. R!New(disk, lens) BY <1>5 DEF OpenReader
  <2>2. R!New(disk, lens') BY <2>1 DEF R!New
  <2> QED BY <1>3, <2>2
<1>6. CASE ~ OpenBesideWriter /\ ~ OpenReader
  BY <1>1, <1>6 DEF Write, StopWriting, Damage, Corrupt, readervars
<1> QED BY <1>4, <1>5, <1>6

LEMMA NothingRead ==
  ASSUME SystemInv, ReaderSound, SystemInv',
         (Write /\ phase = "writing") \/ (StopWriting /\ phase = "writing")
           \/ OpenBesideWriter \/ OpenReader
           \/ \E i \in 1 .. Len(disk) : Damage(i) \/ Corrupt(i)
  PROVE  ReaderSound'
<1>1. phase \in {"writing", "damaging"}
  BY DEF OpenBesideWriter, OpenReader, Damage, Corrupt
<1>2. pending = <<>> /\ current = R!NoFile /\ results = <<>> /\ recovery = <<>>
      /\ rpc = "idle"
  BY <1>1 DEF SystemInv, Unborn
<1>3. UNCHANGED <<current, results, recovery, rpc, lastMeta>>
  BY DEF Write, StopWriting, OpenBesideWriter, OpenReader, Damage, Corrupt, readervars,
         R!New, R!call, R!cursor
<1>4. Format # "tsrc" => lastMeta = <<>> BY DEF ReaderSound, CallSound
<1>5. PendingRises' BY <1>1, FreshRises
<1> QED BY <1>2, <1>3, <1>4, <1>5, FreshReader

-----------------------------------------------------------------------------
(* The reader moves on, and what it has read is behind it.                 *)

\* The directory stays what it is while a reader takes a step.
DirStays == Segments' = Segments /\ Written' = Written /\ disk' = disk /\ lens' = lens

LEMMA ReaderStays == Sources /\ ReadOn => DirStays
BY SourceKept, ReaderKeepsDisk DEF DirStays

\* What is pending was, and the open file was pending, or was open.
FromPending ==
  \A p \in 1 .. Len(pending') : \E q \in 1 .. Len(pending) : pending'[p] = pending[q]

Further ==
  /\ FromPending
  /\ current' # R!NoFile =>
       \/ \E q \in 1 .. Len(pending) : current'.file = pending[q]
       \/ /\ current # R!NoFile /\ current'.file = current.file
          /\ current.pos <= current'.pos

LEMMA PassedOn ==
  ASSUME DirStays, Further, PlaceTypes, PlaceTypes', NEW b, Passed(b)
  PROVE  Passed(b)'
<1>1. PICK i, a :
        /\ i \in 1 .. Len(Segments) /\ a \in 1 .. Len(Segments[i].data)
        /\ Segments[i].data[a] = b
        /\ \A p \in 1 .. Len(pending) : i < No(pending[p])
        /\ current # R!NoFile => i < Here \/ (i = Here /\ a <= current.pos)
  BY DEF Passed
<1>2. \A p \in 1 .. Len(pending') : i < No(pending[p])'
  <2> SUFFICES ASSUME NEW p \in 1 .. Len(pending') PROVE i < No(pending[p])' OBVIOUS
  <2>1. PICK q \in 1 .. Len(pending) : pending'[p] = pending[q]
    BY DEF Further, FromPending
  <2> QED BY <1>1, <2>1 DEF DirStays, No
<1>3. ASSUME current' # R!NoFile PROVE i < Here' \/ (i = Here' /\ a <= current'.pos)
  <2>1. CASE \E q \in 1 .. Len(pending) : current'.file = pending[q]
    <3>1. PICK q \in 1 .. Len(pending) : current'.file = pending[q] BY <2>1
    <3>2. Here' = No(pending[q]) BY <3>1 DEF DirStays, Here, No
    <3> QED BY <1>1, <3>2
  <2>2. CASE current # R!NoFile /\ current'.file = current.file
               /\ current.pos <= current'.pos
    <3>1. Here' = Here BY <2>2 DEF DirStays, Here, No
    <3>2. current.pos \in Nat /\ current'.pos \in Nat /\ a \in Nat
      BY <1>1, <1>3, <2>2 DEF PlaceTypes
    <3> QED BY <1>1, <2>2, <3>1, <3>2
  <2> QED BY <1>3, <2>1, <2>2 DEF Further
<1> QED BY <1>1, <1>2, <1>3 DEF Passed, DirStays

LEMMA PendingBehind ==
  ASSUME PlaceTypes, PendingRises, NEW k \in 0 .. Len(pending), pending' = R!Behind(k)
  PROVE  /\ FromPending /\ PendingRises'
         /\ k # 0 => k \in 1 .. Len(pending)
                     /\ \A p \in 1 .. Len(pending') : pending[k] < pending'[p]
<1>1. /\ Len(pending') = Len(pending) - k /\ Len(pending) \in Nat
      /\ \A p \in 1 .. Len(pending') : pending'[p] = pending[k + p]
  <2>1. /\ Len(R!Behind(k)) = Len(pending) - k
        /\ \A i \in 1 .. Len(pending) - k : R!Behind(k)[i] = pending[k + i]
    BY BehindIs
  <2>2. Len(pending) \in Nat BY DEF PlaceTypes
  <2> QED BY <2>1, <2>2
<1>2. \A p \in 1 .. Len(pending') : k + p \in 1 .. Len(pending) BY <1>1
<1>3. FromPending BY <1>1, <1>2 DEF FromPending
<1>4. PendingRises'
  <2> SUFFICES ASSUME NEW p \in 1 .. Len(pending'), NEW q \in 1 .. Len(pending'), p < q
               PROVE  pending'[p] < pending'[q]
    BY DEF PendingRises
  <2>1. k + p < k + q BY <1>1
  <2> QED BY <1>1, <1>2, <2>1 DEF PendingRises
<1>5. ASSUME k # 0
      PROVE  /\ k \in 1 .. Len(pending)
             /\ \A p \in 1 .. Len(pending') : pending[k] < pending'[p]
  <2>1. k \in 1 .. Len(pending) /\ \A p \in 1 .. Len(pending') : k < k + p BY <1>1, <1>5
  <2> QED BY <1>1, <1>2, <2>1 DEF PendingRises
<1> QED BY <1>3, <1>4, <1>5

-----------------------------------------------------------------------------
(* What a read returns.                                                    *)

\* Bytes a+1 to b of a record, and those of them that are there already.
LEMMA BytesAre ==
  ASSUME NEW r, NEW a \in Nat, NEW n \in Nat, NEW b, b = BytesOf(r, a, a + n)
  PROVE  Len(b) = n /\ \A k \in 1 .. n : b[k] = <<r, a + k>>
<1>1. (a + n) - a = n OBVIOUS
<1>2. b = [k \in 1 .. n |-> <<r, a + k>>] BY <1>1 DEF BytesOf
<1> QED BY <1>2

LEMMA TellMore ==
  ASSUME DirStays, TellSound, \A b : Passed(b) => Passed(b)', results \in Seq(Outcome),
         NEW x \in Outcome, results' = Append(results, x), TellsTruth(x),
         x.data # <<>> => Passed(x.data[1])' /\ \A i \in Telling : Told(i) < x.data[1][1]
  PROVE  TellSound'
<1>1. /\ Len(results') = Len(results) + 1 /\ Len(results) \in Nat
      /\ \A i \in 1 .. Len(results) : results'[i] = results[i]
      /\ results'[Len(results) + 1] = x
  BY Adds
<1> DEFINE n == Len(results) + 1
<1>2. \A i \in 1 .. Len(results') : i \in 1 .. Len(results) \/ i = n BY <1>1
<1>3. \A i \in 1 .. Len(results) : i \in 1 .. Len(results') /\ i < n /\ i # n BY <1>1
<1>4. \A i \in Telling' : (i \in Telling /\ Told(i)' = Told(i)
                            /\ results'[i] = results[i])
                          \/ (i = n /\ x.data # <<>> /\ Told(i)' = x.data[1][1])
  BY <1>1, <1>2 DEF Telling, Told
<1>5. \A i \in Telling : i < n /\ i \in 1 .. Len(results) BY <1>3 DEF Telling
<1>6. ASSUME NEW i \in 1 .. Len(results') PROVE TellsTruth(results[i])'
  <2>1. PICK y : y = results'[i] OBVIOUS
  <2>2. TellsTruth(y)
    <3>1. CASE i \in 1 .. Len(results)
      <4>1. TellsTruth(results[i]) BY <3>1 DEF TellSound
      <4>2. results[i] = y BY <1>1, <2>1, <3>1
      <4> QED BY <4>1, <4>2
    <3>2. CASE i = n BY <1>1, <2>1, <3>2
    <3> QED BY <1>2, <3>1, <3>2
  <2>3. TellsTruth(results[i])' = TellsTruth(y) BY <2>1 DEF TellsTruth, Gives, DirStays
  <2> QED BY <2>2, <2>3
<1>7. ASSUME NEW i \in Telling' PROVE Passed(results[i].data[1])'
  <2>1. CASE i \in Telling /\ results'[i] = results[i]
    <3>1. PICK b : b = results[i].data[1] OBVIOUS
    <3>2. Passed(b)' BY <2>1, <3>1 DEF TellSound
    <3>3. Passed(results[i].data[1])' = Passed(b)' BY <2>1, <3>1 DEF Passed
    <3> QED BY <3>2, <3>3
  <2>2. CASE i = n /\ x.data # <<>>
    <3>1. results'[i] = x BY <1>1, <2>2
    <3>2. Passed(results[i].data[1])' = Passed(x.data[1])' BY <3>1 DEF Passed
    <3> QED BY <2>2, <3>2
  <2> QED BY <1>4, <2>1, <2>2
<1>8. InOrder'
  <2> SUFFICES ASSUME NEW i \in Telling', NEW j \in Telling', i < j
               PROVE  Told(i)' < Told(j)'
    BY DEF InOrder
  <2>1. CASE j \in Telling /\ Told(j)' = Told(j)
    <3>1. i # n BY <1>3, <1>5, <2>1
    <3> QED BY <1>4, <2>1, <3>1 DEF TellSound, InOrder
  <2>2. CASE j = n /\ x.data # <<>> /\ Told(j)' = x.data[1][1]
    <3>1. i # n BY <1>1, <2>2
    <3> QED BY <1>4, <2>2, <3>1
  <2> QED BY <1>4, <2>1, <2>2
<1> QED BY <1>6, <1>7, <1>8 DEF TellSound

LEMMA TellSame ==
  ASSUME DirStays, TellSound, \A b : Passed(b) => Passed(b)', results' = results
  PROVE  TellSound'
<1>1. ASSUME NEW i \in 1 .. Len(results') PROVE TellsTruth(results[i])'
  BY DEF TellSound, TellsTruth, Gives, DirStays
<1>2. ASSUME NEW i \in Telling' PROVE Passed(results[i].data[1])'
  <2>1. PICK b : b = results[i].data[1] OBVIOUS
  <2>2. Passed(b)' BY <2>1 DEF TellSound, Telling
  <2>3. Passed(results[i].data[1])' = Passed(b)' BY <2>1 DEF Passed
  <2> QED BY <2>2, <2>3
<1>3. InOrder' BY DEF TellSound, InOrder, Telling, Told
<1> QED BY <1>1, <1>2, <1>3 DEF TellSound

\* What has been read of the payload of the record being read; lens is what the
\* records' lengths are, and the first byte of it is behind the reader.
LEMMA GotIs ==
  ASSUME CallTypes, lens \in Seq(Nat), CallSound, rpc \in {"payload", "skip"}, got # <<>>
  PROVE  \E r \in 1 .. Len(lens) :
           /\ Reads(r) /\ got[1] = <<r, HeaderLen + 1>> /\ got[1][1] = r
           /\ got = BytesOf(r, HeaderLen, HeaderLen + Len(got))
           /\ Len(got) \in Nat
           /\ lastMeta = IF Format = "tsrc" THEN <<r>> ELSE <<>>
<1>1. R!Reading BY DEF R!Reading
<1>2. PICK r \in 1 .. Len(lens) : Reads(r) BY <1>1 DEF CallSound
<1>3. got = BytesOf(r, HeaderLen, HeaderLen + Len(got)) BY <1>2 DEF Reads
<1>4. Len(got) \in Nat /\ Len(got) # 0 /\ HeaderLen \in Nat
  BY FormatAssumption DEF CallTypes
<1>5. PICK n, g : n = Len(got) /\ g = got OBVIOUS
<1>6. \A k \in 1 .. n : g[k] = <<r, HeaderLen + k>>
  <2>1. PICK a \in Nat : a = HeaderLen BY <1>4
  <2>2. n \in Nat /\ g = BytesOf(r, a, a + n) BY <1>3, <1>4, <1>5, <2>1
  <2>3. \A k \in 1 .. n : g[k] = <<r, a + k>> BY <2>2, BytesAre
  <2> QED BY <2>1, <2>3
<1>7. 1 \in 1 .. n BY <1>4, <1>5
<1>8. got[1] = <<r, HeaderLen + 1>> BY <1>5, <1>6, <1>7
<1>9. lastMeta = IF Format = "tsrc" THEN <<r>> ELSE <<>> BY <1>2 DEF Reads, CallSound
<1> QED BY <1>2, <1>3, <1>4, <1>8, <1>9

\* A result with no payload bytes tells of no record; one with what has been read
\* tells of the one being read.
LEMMA LossTells ==
  ASSUME NEW kind, kind # "record", NEW lost, NEW x, x = R!Result(kind, lost, <<>>)
  PROVE  TellsTruth(x) /\ x.data = <<>>
BY DEF R!Result, TellsTruth

LEMMA FrontTells ==
  ASSUME CallTypes, CallShape, lens \in Seq(Nat), CallSound, rpc \in {"payload", "skip"},
         rpc = "payload" => need > 0,
         NEW kind, kind # "record", NEW lost, NEW x, x = R!Result(kind, lost, got)
  PROVE  /\ TellsTruth(x)
         /\ x.data # <<>> =>
              Passed(x.data[1]) /\ \A i \in Telling : Told(i) < x.data[1][1]
<1>1. CASE got = <<>>
  <2>1. x = R!Result(kind, lost, <<>>) BY <1>1
  <2> QED BY <2>1, LossTells
<1>2. CASE got # <<>>
  <2>1. PICK r \in 1 .. Len(lens) :
          /\ Reads(r) /\ got[1] = <<r, HeaderLen + 1>> /\ got[1][1] = r
          /\ got = BytesOf(r, HeaderLen, HeaderLen + Len(got))
          /\ Len(got) \in Nat
          /\ lastMeta = IF Format = "tsrc" THEN <<r>> ELSE <<>>
    BY <1>2, GotIs
  <2>2. x.data = got /\ x.meta = lastMeta /\ x.kind = kind BY <1>2 DEF R!Result
  <2>3. Len(got) < lens[r]
    <3>1. payloadLen = lens[r] BY <2>1 DEF Reads
    <3>2. need \in Nat /\ payloadLen \in Nat /\ bufLen \in Nat BY DEF CallTypes
    <3>3. PICK l : l = Lesser(payloadLen, bufLen) OBVIOUS
    <3>4. l \in Nat /\ l <= payloadLen BY <3>2, <3>3, LesserIs
    <3>5. CASE rpc = "payload"
      <4>1. Len(got) + need = l BY <3>3, <3>5 DEF CallShape
      <4>2. need > 0 BY <3>5
      <4> QED BY <2>1, <3>1, <3>2, <3>4, <4>1, <4>2
    <3>6. CASE rpc = "skip"
      <4>1. payloadLen > bufLen /\ Len(got) = bufLen BY <3>6 DEF CallShape
      <4> QED BY <3>1, <3>2, <4>1
    <3> QED BY <3>5, <3>6
  <2>4. Gives(x, r)
    <3>1. lens[r] \in Nat OBVIOUS
    <3>2. Len(x.data) <= lens[r] /\ Len(x.data) < lens[r] BY <2>1, <2>2, <2>3, <3>1
    <3> QED BY <2>1, <2>2, <3>2 DEF Gives
  <2>5. Passed(got[1]) /\ \A i \in Telling : Told(i) < r BY <1>2, <2>1 DEF Reads
  <2> QED BY <1>2, <2>1, <2>2, <2>4, <2>5 DEF TellsTruth
<1> QED BY <1>1, <1>2

-----------------------------------------------------------------------------
(* A reader that stands still, and one that loses its position.            *)

LEMMA ReaderStandsStill ==
  ASSUME ReaderSound, DirStays, UNCHANGED readervars
  PROVE  ReaderSound'
<1>1. UNCHANGED <<pending, current, session, prevSeq, startLost, recovery, lastMeta, rpc,
                  got, payloadLen, consumed, total, implied, results>>
  BY DEF readervars
<1>2. PlaceSound'
  BY <1>1 DEF ReaderSound, PlaceSound, PendingRises, CurrentSound, RecoverySound, Starts,
              Here, No, Lasts, Size, DirStays
<1>3. ASSUME NEW b PROVE Passed(b)' = Passed(b) BY <1>1 DEF Passed, Here, No, DirStays
<1>4. CallSound'
  <2>1. ASSUME NEW r, Reads(r) PROVE Reads(r)'
    <3>1. Within(Here, current.pos, r, consumed)'
      BY <1>1, <2>1 DEF Reads, Within, Here, No, DirStays
    <3>2. got' # <<>> /\ rpc' \in {"payload", "skip"} => Passed(got[1])'
      BY <1>1, <2>1 DEF Reads, Passed, Here, No, DirStays
    <3>3. \A i \in Telling' : Told(i)' < r BY <1>1, <2>1 DEF Reads, Telling, Told
    <3> QED BY <1>1, <2>1, <3>1, <3>2, <3>3 DEF Reads, DirStays
  <2>2. Starts(Here, current.pos)' = Starts(Here, current.pos)
    BY <1>1 DEF Starts, Here, No, Lasts, Size, DirStays
  <2>3. R!Reading' = R!Reading BY <1>1 DEF R!Reading
  <2> QED BY <1>1, <2>1, <2>2, <2>3 DEF ReaderSound, CallSound, DirStays
<1>5. TellSound' BY <1>1, <1>3, TellSame DEF ReaderSound
<1> QED BY <1>2, <1>4, <1>5 DEF ReaderSound

LEMMA PositionLost ==
  ASSUME ReaderSound, PendingRises', RecoverySound', TellSound', current' = R!NoFile,
         rpc' \in {"idle", "find"}, lastMeta' = lastMeta
  PROVE  ReaderSound'
<1>1. PlaceSound' BY DEF PlaceSound, CurrentSound
<1>2. CallSound' BY DEF ReaderSound, CallSound, R!Reading
<1> QED BY <1>1, <1>2 DEF ReaderSound

LEMMA RecoveryKept ==
  ASSUME RecoverySound, DirStays, recovery' \in {recovery, <<>>}, startLost' = startLost,
         session # <<>> => session' # <<>>
  PROVE  RecoverySound'
BY DEF RecoverySound, No, DirStays

LEMMA NoRecovery == ASSUME recovery' = <<>> PROVE RecoverySound'
BY DEF RecoverySound

\* What the caller is told of a loss is true: nothing, or of what has been read.
LEMMA LossTold ==
  ASSUME DirStays, SystemInv, PlaceTypes', ReaderSound, FromPending, current' = R!NoFile,
         rpc = "payload" => need > 0,
         NEW kind \in {"truncated", "eof", "end", "error"}, NEW lost \in Nat,
         \/ R!Return(R!Result(kind, lost, <<>>)) \/ R!Fails(R!Result(kind, lost, <<>>))
         \/ R!Fails(R!Truncated(lost))
  PROVE  TellSound'
<1>1. Further BY DEF Further
<1>2. /\ PlaceTypes /\ CallTypes /\ CallShape /\ RestTypes /\ lens \in Seq(Nat)
      /\ CallSound /\ TellSound
  BY DEF SystemInv, SystemTypes, ReaderInv, ReaderSound
<1>3. \A b : Passed(b) => Passed(b)' BY <1>1, <1>2, PassedOn
<1>4. results \in Seq(Outcome) /\ lastMeta \in Option(Nat) /\ got \in Seq(Byte)
      /\ <<>> \in Seq(Byte) /\ 0 \in Nat
  BY <1>2 DEF RestTypes, CallTypes
<1>5. PICK x : /\ results' = Append(results, x)
               /\ \/ x = R!Result(kind, lost, <<>>)
                  \/ /\ rpc \in {"payload", "skip"}
                     /\ \/ x = R!Result("overflow", 0, got)
                        \/ x = R!Result("truncated", lost, got)
                  \/ x = R!Result("truncated", lost, <<>>)
  BY DEF R!Fails, R!Return, R!Truncated, R!InBuf
<1>6. x \in Outcome BY <1>4, <1>5, ResultIs
<1>7. TellsTruth(x) /\ (x.data # <<>> => /\ Passed(x.data[1])
                                          /\ \A i \in Telling : Told(i) < x.data[1][1])
  <2>1. CASE x = R!Result(kind, lost, <<>>) BY <2>1, LossTells
  <2>2. CASE x = R!Result("truncated", lost, <<>>) BY <2>2, LossTells
  <2>3. CASE /\ rpc \in {"payload", "skip"}
             /\ x = R!Result("overflow", 0, got) \/ x = R!Result("truncated", lost, got)
    BY <1>2, <2>3, FrontTells
  <2> QED BY <1>5, <2>1, <2>2, <2>3
<1> QED BY <1>2, <1>3, <1>4, <1>5, <1>6, <1>7, TellMore

\* The reader as a step finds it.
Found ==
  /\ SystemInv /\ PlaceTypes' /\ DirStays /\ Known /\ DiskInv /\ ReaderSound
  /\ SequencesLeft /\ lens = Written

LEMMA FoundIs ==
  ASSUME Found
  PROVE  /\ SystemInv /\ PlaceTypes' /\ DirStays /\ Known /\ DiskInv /\ ReaderSound
         /\ SequencesLeft /\ lens = Written /\ SystemTypes /\ ReaderInv
         /\ PlaceTypes /\ CallTypes /\ CallShape /\ RestTypes /\ Anchored
         /\ lens \in Seq(Nat) /\ Len(pending) \in Nat
         /\ PendingRises /\ CurrentSound /\ RecoverySound /\ CallSound /\ TellSound
BY DEF Found, SystemInv, SystemTypes, ReaderInv, PlaceTypes, ReaderSound, PlaceSound

LEMMA PendingKept ==
  ASSUME PendingRises, pending' = pending \/ pending' = <<>>
  PROVE  FromPending /\ PendingRises'
<1>1. CASE pending' = pending BY <1>1 DEF FromPending, PendingRises
<1>2. CASE pending' = <<>>
  <2>1. \A p : p \notin 1 .. Len(pending') BY <1>2
  <2> QED BY <2>1 DEF FromPending, PendingRises
<1> QED BY <1>1, <1>2

LEMMA PendingOpened ==
  ASSUME PlaceTypes, PendingRises, NEW k \in 0 .. Len(pending) - 1,
         R!EndsSession(k) \/ \E handBack, more : R!Opens(k, handBack, more)
  PROVE  FromPending /\ PendingRises'
<1>1. Len(pending) \in Nat BY DEF PlaceTypes
<1>2. PICK l \in 0 .. Len(pending) : pending' = R!Behind(l)
  <2>1. k \in 0 .. Len(pending) /\ k + 1 \in 0 .. Len(pending) BY <1>1
  <2>2. pending' = R!Behind(k) \/ pending' = R!Behind(k + 1)
    BY DEF R!EndsSession, R!Opens
  <2> QED BY <2>1, <2>2
<1> QED BY <1>2, PendingBehind

LEMMA StepLoses ==
  ASSUME Found,
         \/ R!ReadAtEnd \/ R!FindNone \/ R!CrossNone \/ R!PieceFails
         \/ \E k \in 0 .. Len(pending) - 1 :
              \/ R!FindSessionEnd(k) \/ R!CrossSessionEnd(k)
              \/ R!FindDiscards(k) \/ R!FindSeekFails(k)
  PROVE  ReaderSound'
<1>1. /\ SystemInv /\ PlaceTypes' /\ DirStays /\ ReaderSound /\ PlaceTypes /\ PendingRises
      /\ RecoverySound /\ TellSound /\ Anchored
  BY FoundIs
<1>2. FromPending /\ PendingRises'
  <2>1. CASE R!ReadAtEnd \/ R!FindNone \/ R!CrossNone \/ R!PieceFails
    BY <1>1, <2>1, PendingKept DEF R!ReadAtEnd, R!FindNone, R!CrossNone, R!PieceFails
  <2>2. ASSUME NEW k \in 0 .. Len(pending) - 1,
               \/ R!FindSessionEnd(k) \/ R!CrossSessionEnd(k)
               \/ R!FindDiscards(k) \/ R!FindSeekFails(k)
        PROVE  FromPending /\ PendingRises'
    <3>1. R!EndsSession(k) \/ R!Opens(k, FALSE, 0) \/ R!Opens(k, FALSE, 1)
      BY <2>2 DEF R!FindSessionEnd, R!CrossSessionEnd, R!FindDiscards, R!FindSeekFails
    <3> QED BY <1>1, <3>1, PendingOpened
  <2> QED BY <2>1, <2>2
<1>3. current' = R!NoFile /\ lastMeta' = lastMeta
  BY DEF R!ReadAtEnd, R!FindNone, R!CrossNone, R!PieceFails, R!FindSessionEnd,
         R!CrossSessionEnd, R!FindDiscards, R!FindSeekFails, R!aside
<1>4. rpc' \in {"idle", "find"}
  BY DEF R!ReadAtEnd, R!FindNone, R!CrossNone, R!PieceFails, R!FindSessionEnd,
         R!CrossSessionEnd, R!FindDiscards, R!FindSeekFails, R!Fails, R!Return, R!EndCall
<1>5. RecoverySound'
  <2>1. \/ recovery' = <<>>
        \/ recovery' = recovery /\ UNCHANGED <<session, startLost>>
    BY DEF R!ReadAtEnd, R!FindNone, R!CrossNone, R!PieceFails, R!FindSessionEnd,
           R!CrossSessionEnd, R!FindDiscards, R!FindSeekFails, R!ForgetSession
  <2> QED BY <1>1, <2>1, RecoveryKept, NoRecovery
<1>6. TellSound'
  <2>1. CASE \E k \in 0 .. Len(pending) - 1 : R!FindDiscards(k)
    <3>1. results' = results BY <2>1 DEF R!FindDiscards
    <3>2. Further BY <1>2, <1>3 DEF Further
    <3>3. \A b : Passed(b) => Passed(b)' BY <1>1, <3>2, PassedOn
    <3> QED BY <1>1, <3>1, <3>3, TellSame
  <2>2. CASE ~ \E k \in 0 .. Len(pending) - 1 : R!FindDiscards(k)
    <3>1. \/ R!Return(R!Result("eof", 0, <<>>)) \/ R!Fails(R!Result("eof", 0, <<>>))
          \/ R!Fails(R!Result("end", 0, <<>>)) \/ R!Fails(R!Result("error", 0, <<>>))
          \/ R!Fails(R!Truncated(0))
      BY <2>2 DEF R!ReadAtEnd, R!FindNone, R!CrossNone, R!PieceFails, R!FindSessionEnd,
                  R!CrossSessionEnd, R!FindSeekFails
    <3>2. PICK kind \in {"truncated", "eof", "end", "error"}, lost \in Nat :
            \/ R!Return(R!Result(kind, lost, <<>>)) \/ R!Fails(R!Result(kind, lost, <<>>))
            \/ R!Fails(R!Truncated(lost))
      BY <3>1
    <3>3. rpc = "payload" => need > 0
      BY <2>2 DEF R!ReadAtEnd, R!FindNone, R!CrossNone, R!PieceFails, R!FindSessionEnd,
                  R!CrossSessionEnd, R!FindSeekFails, R!Crossing
    <3> QED BY <1>1, <1>2, <1>3, <3>2, <3>3, LossTold
  <2> QED BY <2>1, <2>2
<1> QED BY <1>1, <1>2, <1>3, <1>4, <1>5, <1>6, PositionLost

-----------------------------------------------------------------------------
(* From one file to the next.                                              *)

LEMMA Modulo ==
  ASSUME NEW m \in Nat, NEW x \in Nat, x < m
  PROVE  x % m = x
OBVIOUS

LEMMA ModuloOnce ==
  ASSUME NEW m \in Nat, NEW x \in Nat, x < m, NEW y, y = x + m
  PROVE  y % m = x
<1>1. y % m \in 0 .. m - 1 /\ y \in Nat OBVIOUS
<1>2. y = m * (y \div m) + (y % m) /\ y \div m \in Int OBVIOUS
<1>3. PICK q \in Int, r \in Int : q = y \div m /\ r = y % m BY <1>1, <1>2
<1>4. x + m = m * q + r /\ r \in 0 .. m - 1 BY <1>1, <1>2, <1>3
<1>5. m * (q - 1) = x - r BY <1>4
<1>6. q - 1 = 0
  <2>1. CASE q - 1 >= 1
    <3>1. m * (q - 1) >= m BY <2>1
    <3> QED BY <1>4, <1>5, <3>1
  <2>2. CASE q - 1 <= -1
    <3>1. m * (q - 1) <= -m BY <2>2
    <3> QED BY <1>4, <1>5, <3>1
  <2> QED BY <2>1, <2>2
<1>7. m * (q - 1) = 0 BY <1>6
<1> QED BY <1>3, <1>4, <1>5, <1>7

\* Of two files of a session, in whose sequence numbers nothing wraps: the successor,
\* and the one that is behind one missing file.
LEMMA OneMissing ==
  ASSUME NEW m \in Nat, NEW s \in Nat, NEW t \in Nat, s < m, t < m
  PROVE  /\ (s + 1) % (m + 1) = s + 1
         /\ t > s + 1 /\ (t + m - s) % (m + 1) = 1 => t = s + 2
<1>1. (s + 1) % (m + 1) = s + 1
  <2>1. PICK a, n : a = s + 1 /\ n = m + 1 OBVIOUS
  <2>2. a \in Nat /\ n \in Nat /\ a < n BY <2>1
  <2> QED BY <2>1, <2>2, Modulo
<1>2. ASSUME t > s + 1, (t + m - s) % (m + 1) = 1 PROVE t = s + 2
  <2>1. PICK x, n, y : x = t - s - 1 /\ n = m + 1 /\ y = t + m - s OBVIOUS
  <2>2. x \in Nat /\ n \in Nat /\ x < n /\ y = x + n BY <1>2, <2>1
  <2>3. y % n = x BY <2>2, ModuloOnce
  <2> QED BY <1>2, <2>1, <2>3
<1> QED BY <1>1, <1>2

\* The file that a step opens, and what was written as it.
LEMMA NextFile ==
  ASSUME Found, NEW k \in 0 .. Len(pending) - 1, NEW handBack, NEW more,
         R!Opens(k, handBack, more), NEW f, f = pending[k + 1], NEW j, j = No(f)
  PROVE  /\ f \in 1 .. Len(disk) /\ disk[f] \in Segment
         /\ j \in 1 .. Len(Segments) /\ FrontOf(disk[f], Segments[j])
         /\ Len(disk[f].data) \in Nat /\ Len(disk[f].data) <= Len(Segments[j].data)
         /\ disk[f].session = Segments[j].session /\ disk[f].seq = Segments[j].seq
         /\ disk[f].remaining = Segments[j].remaining
         /\ session' = <<Segments[j].session>> /\ prevSeq' = <<Segments[j].seq>>
         /\ session \in {<<>>, <<Segments[j].session>>}
         /\ FromPending /\ PendingRises'
         /\ ~ handBack => \A p \in 1 .. Len(pending') : f < pending'[p]
<1>1. /\ PlaceTypes /\ SystemTypes /\ Known /\ DiskInv /\ Len(pending) \in Nat
      /\ PendingRises
  BY FoundIs
<1>2. f \in 1 .. Len(disk) BY <1>1 DEF PlaceTypes
<1>3. disk[f].whole BY DEF R!Opens, R!Valid
<1>4. /\ disk[f] \in Segment /\ j <= Len(Segments) /\ Len(disk[f].data) \in Nat
      /\ j \in 1 .. Len(Segments) /\ FrontOf(disk[f], Segments[j])
      /\ Len(disk[f].data) <= Len(Segments[j].data)
      /\ disk[f].session = Segments[j].session /\ disk[f].seq = Segments[j].seq
      /\ disk[f].remaining = Segments[j].remaining
  BY <1>1, <1>2, <1>3, FileIs
<1>5. /\ session' = <<disk[f].session>> /\ prevSeq' = <<disk[f].seq>>
      /\ session \in {<<>>, <<disk[f].session>>}
  BY DEF R!Opens
<1>6. FromPending /\ PendingRises'
  <2>1. k \in 0 .. Len(pending) /\ k + 1 \in 0 .. Len(pending) BY <1>1
  <2>2. pending' = R!Behind(k) \/ pending' = R!Behind(k + 1) BY DEF R!Opens
  <2>3. PICK l \in 0 .. Len(pending) : pending' = R!Behind(l) BY <2>1, <2>2
  <2> QED BY <1>1, <2>3, PendingBehind
<1>7. ASSUME ~ handBack PROVE \A p \in 1 .. Len(pending') : f < pending'[p]
  <2>1. PICK l : l = k + 1 OBVIOUS
  <2>2. l \in 0 .. Len(pending) /\ l # 0 BY <1>1, <2>1
  <2>3. pending' = R!Behind(l) BY <1>7, <2>1 DEF R!Opens
  <2>4. \A p \in 1 .. Len(pending') : pending[l] < pending'[p]
    BY <1>1, <2>2, <2>3, PendingBehind
  <2> QED BY <2>1, <2>4
<1> QED BY <1>2, <1>4, <1>5, <1>6, <1>7

\* A record that runs off the end of the open file, and the file that is opened then.
LEMMA Crosses ==
  ASSUME Found, R!Crossing, NEW k \in 0 .. Len(pending) - 1, NEW handBack, NEW more,
         R!Opens(k, handBack, more), NEW f, f = pending[k + 1], NEW j, j = No(f),
         NEW i, i = Here
  PROVE  /\ i \in 1 .. Len(Segments) /\ current # R!NoFile /\ prevSeq[1] = Segments[i].seq
         /\ Segments[j].seq # 0 => Run(i, j)
         /\ current.pos \in 0 .. Len(Segments[i].data) /\ startLost = 0
         /\ ~ R!Short => current.pos = DataLen /\ Len(Segments[i].data) = DataLen
<1>1. /\ SystemInv /\ Known /\ DiskInv /\ PlaceTypes /\ SystemTypes /\ CurrentSound
      /\ Anchored /\ Len(pending) \in Nat
  BY FoundIs
<1>2. current # R!NoFile BY <1>1 DEF R!Crossing, Anchored
<1>3. /\ i \in 1 .. Len(Segments) /\ current.file \in 1 .. Len(disk)
      /\ i = No(current.file) /\ current.pos \in Nat /\ current.len \in Nat
      /\ current.pos <= current.len /\ current.len <= Len(Segments[i].data)
      /\ current.len <= DataLen /\ current.pos \in 0 .. Len(Segments[i].data)
  BY <1>1, <1>2, PlaceIs
<1>4. /\ session = <<Segments[i].session>> /\ prevSeq = <<Segments[i].seq>>
      /\ startLost = 0 /\ \A p \in 1 .. Len(pending) : current.file < pending[p]
  BY <1>1, <1>2 DEF CurrentSound
<1>5. /\ f \in 1 .. Len(disk) /\ j \in 1 .. Len(Segments)
      /\ session \in {<<>>, <<Segments[j].session>>}
  BY NextFile
<1>6. Segments[i].session = Segments[j].session BY <1>4, <1>5
<1>7. current.file < f
  <2>1. k + 1 \in 1 .. Len(pending) BY <1>1
  <2> QED BY <1>4, <2>1
<1>8. Segments[j].seq # 0 => Run(i, j)
  <2>1. i <= Len(Segments) /\ j <= Len(Segments) BY <1>3, <1>5
  <2>2. PICK l : l = current.file OBVIOUS
  <2>3. l \in 1 .. Len(disk) /\ i = No(l) /\ l < f BY <1>3, <1>7, <2>2
  <2> QED BY <1>1, <1>5, <1>6, <2>1, <2>3, RunBetween
<1>9. ASSUME ~ R!Short PROVE current.pos = DataLen /\ Len(Segments[i].data) = DataLen
  <2>1. /\ Len(Segments[i].data) \in Nat /\ Len(Segments[i].data) <= DataLen
        /\ DataLen \in Nat
    BY <1>1, <1>3, SegmentIs
  <2>2. current.pos >= current.len BY <1>2 DEF R!Crossing, R!Exhausted
  <2>3. ~ (current.len < DataLen) BY <1>9 DEF R!Short
  <2> QED BY <1>3, <2>1, <2>2, <2>3
<1> QED BY <1>2, <1>3, <1>4, <1>8, <1>9

\* What the file that ran out, when it is full, leaves of the record being read is
\* what the file behind it owes.
LEMMA RestOwed ==
  ASSUME Found, R!Reading, current # R!NoFile, NEW i, i = Here, i \in 1 .. Len(Segments),
         current.pos = DataLen, Len(Segments[i].data) = DataLen, consumed # 0,
         NEW n, n = i + 1, n \in 1 .. Len(Segments), Segments[n].seq # 0
  PROVE  \E r \in 1 .. Len(Written) :
           /\ Reads(r) /\ Written[r] = lens[r]
           /\ Segments[n].remaining = Size(r) - consumed
           /\ Segments[n].remaining # 0 => Within(n, 0, r, consumed)
<1>1. Known /\ lens = Written /\ CallSound BY FoundIs
<1>2. PICK r \in 1 .. Len(lens) : Reads(r) BY <1>1 DEF CallSound
<1>3. PICK d \in Nat \ {0} : d = DataLen BY FormatAssumption
<1>4. PICK c : c = consumed OBVIOUS
<1>5. Segments[i].data[d] = <<r, c>> BY <1>2, <1>3, <1>4 DEF Reads, Within
<1>6. n - 1 = i BY <1>1, SegmentIs
<1>7. Segments[n].remaining = Size(r) - c
  <2>1. PICK b : b = Segments[i].data[d] OBVIOUS
  <2>2. Segments[n].remaining = Size(b[1]) - b[2]
    BY <1>1, <1>3, <1>6, <2>1 DEF Known, Truth, SegmentsFollow
  <2>3. b[1] = r /\ b[2] = c BY <1>5, <2>1
  <2> QED BY <2>2, <2>3
<1>8. Segments[n].remaining # 0 => Within(n, 0, r, consumed)
  BY <1>3, <1>4, <1>5, <1>6 DEF Within
<1> QED BY <1>1, <1>2, <1>4, <1>7, <1>8

\* How much of the record being read is still to come.
LEMMA MoreToCome ==
  ASSUME Found, R!Reading, need > 0, NEW r \in 1 .. Len(Written), Reads(r)
  PROVE  /\ rpc \in {"payload", "skip"} => total = <<Size(r)>> /\ total[1] = Size(r)
         /\ consumed < Size(r)
<1>1. /\ Known /\ lens = Written /\ CallSound /\ CallTypes /\ CallShape BY FoundIs
<1>2. /\ Size(r) \in Nat /\ HeaderLen <= Size(r) /\ Size(r) = HeaderLen + Written[r]
      /\ HeaderLen \in Nat
  BY <1>1, SizeIs
<1>3. /\ need \in Nat /\ consumed \in Nat /\ payloadLen \in Nat /\ bufLen \in Nat
  BY <1>1 DEF CallTypes
<1>4. CASE rpc = "header"
  <2>1. consumed + need = HeaderLen BY <1>1, <1>4 DEF CallShape
  <2> QED BY <1>2, <1>3, <1>4, <2>1
<1>5. CASE rpc \in {"payload", "skip"}
  <2>1. payloadLen = Written[r] BY <1>1, <1>5 DEF Reads
  <2>2. total = <<HeaderLen + payloadLen>> BY <1>1, <1>5 DEF CallSound
  <2>3. total = <<Size(r)>> /\ total[1] = Size(r) BY <1>2, <2>1, <2>2
  <2>4. PICK l : l = Lesser(payloadLen, bufLen) OBVIOUS
  <2>5. l \in Nat /\ l <= payloadLen BY <1>3, <2>4, LesserIs
  <2>6. \E t \in Nat : t >= consumed + need /\ total = <<t>>
    <3>1. CASE rpc = "payload"
      <4>1. total = <<consumed + need + payloadLen - l>>
        BY <1>1, <2>4, <3>1 DEF CallShape
      <4>2. PICK t : t = consumed + need + payloadLen - l OBVIOUS
      <4>3. t \in Nat /\ t >= consumed + need BY <1>3, <2>5, <4>2
      <4> QED BY <4>1, <4>2, <4>3
    <3>2. CASE rpc = "skip"
      <4>1. total = <<consumed + need>> BY <1>1, <3>2 DEF CallShape
      <4>2. PICK t : t = consumed + need OBVIOUS
      <4>3. t \in Nat /\ t >= consumed + need BY <1>3, <4>2
      <4> QED BY <4>1, <4>2, <4>3
    <3> QED BY <1>5, <3>1, <3>2
  <2>7. PICK t \in Nat : t >= consumed + need /\ total = <<t>> BY <2>6
  <2>8. t = Size(r) BY <2>3, <2>7
  <2>9. consumed < Size(r)
    <3>1. consumed < t BY <1>3, <2>7
    <3> QED BY <2>8, <3>1
  <2> QED BY <2>3, <2>9
<1> QED BY <1>4, <1>5 DEF R!Reading

LEMMA RejectionHints ==
  ASSUME Found, NEW k \in 0 .. Len(pending) - 1, R!CrossRejects(k)
  PROVE  RecoverySound'
<1>1. PICK f, j, i : f = pending[k + 1] /\ j = No(f) /\ i = Here OBVIOUS
<1>2. /\ Known /\ lens = Written /\ DirStays /\ RecoverySound /\ CallSound /\ SequencesLeft
      /\ CallTypes /\ CallShape /\ PlaceTypes /\ CurrentSound
  BY FoundIs
<1>3. /\ R!Crossing /\ R!Opens(k, TRUE, 0) /\ startLost' = startLost
      /\ recovery' = IF R!LostBetween(f) = 1 /\ ~ R!Short /\ total # <<>>
                     THEN <<[file |-> f, owed |-> total[1] - consumed]>>
                     ELSE recovery
  BY <1>1 DEF R!CrossRejects
<1>4. /\ f \in 1 .. Len(disk) /\ j \in 1 .. Len(Segments)
      /\ disk[f].seq = Segments[j].seq /\ session' = <<Segments[j].session>>
  <2>1. PICK h, m : h = TRUE /\ m = 0 OBVIOUS
  <2>2. R!Opens(k, h, m) BY <1>3, <2>1
  <2> QED BY <1>1, <2>2, NextFile
<1>5. /\ i \in 1 .. Len(Segments) /\ current # R!NoFile /\ prevSeq[1] = Segments[i].seq
      /\ Segments[j].seq # 0 => Run(i, j)
      /\ startLost = 0
      /\ ~ R!Short => current.pos = DataLen /\ Len(Segments[i].data) = DataLen
  BY <1>1, <1>3, Crosses
<1>6. CASE recovery' = recovery BY <1>2, <1>3, <1>4, <1>6, RecoveryKept
<1>7. CASE recovery' # recovery
  <2> SUFFICES ASSUME Format = "simple" PROVE RecoverySound' BY DEF RecoverySound
  <2>1. /\ R!LostBetween(f) = 1 /\ ~ R!Short /\ total # <<>>
        /\ recovery' = <<[file |-> f, owed |-> total[1] - consumed]>>
    BY <1>3, <1>7
  <2>2. Segments[j].seq = Segments[i].seq + 2 /\ Segments[j].seq # 0
    <3>1. PICK m, s, t : m = SeqMax /\ s = Segments[i].seq /\ t = Segments[j].seq
      OBVIOUS
    <3>2. m \in Nat /\ s \in Nat /\ t \in Nat /\ s < m /\ t < m
      BY <1>2, <1>4, <1>5, <3>1, SegmentIs, FormatAssumption DEF SequencesLeft
    <3>3. R!Successor(s) = (s + 1) % (m + 1) BY <3>1 DEF R!Successor
    <3>4. R!LostBetween(f) = IF t > R!Successor(s) THEN (t + m - s) % (m + 1) ELSE 0
      BY <1>4, <1>5, <3>1 DEF R!LostBetween
    <3>5. t > R!Successor(s) /\ (t + m - s) % (m + 1) = 1 BY <2>1, <3>4
    <3>6. (s + 1) % (m + 1) = s + 1 BY <3>2, OneMissing
    <3>7. t = s + 2 BY <3>2, <3>3, <3>5, <3>6, OneMissing
    <3> QED BY <3>1, <3>2, <3>7
  <2>3. PICK n : n = i + 1 OBVIOUS
  <2>4. Run(i, j) /\ j = i + 2 /\ n \in 1 .. Len(Segments) /\ i \in Nat
    BY <1>2, <1>4, <1>5, <2>2, <2>3, RunFollows, SegmentIs
  <2>5. j - 1 = n /\ n \in i + 1 .. j /\ j >= 2 BY <1>5, <2>3, <2>4
  <2>6. Segments[n].seq # 0 BY <2>4, <2>5 DEF Run
  <2>7. rpc \in {"payload", "skip"} /\ consumed # 0 /\ R!Reading /\ need > 0
    <3>1. R!Reading /\ need > 0 BY <1>3 DEF R!Crossing
    <3>2. rpc \in {"payload", "skip"}
      BY <1>2, <2>1, <3>1 DEF R!Reading, CallShape
    <3>3. consumed >= HeaderLen BY <1>2, <3>2 DEF CallSound
    <3>4. HeaderLen \in Nat \ {0} BY FormatAssumption
    <3>5. consumed \in Nat BY <1>2 DEF CallTypes
    <3> QED BY <3>1, <3>2, <3>3, <3>4, <3>5
  <2>8. PICK r \in 1 .. Len(Written) :
          Reads(r) /\ Segments[n].remaining = Size(r) - consumed
    BY <1>1, <1>5, <2>1, <2>3, <2>4, <2>6, <2>7, RestOwed
  <2>9. total[1] = Size(r) /\ consumed < Size(r) BY <2>7, <2>8, MoreToCome
  <2>10. Size(r) \in Nat /\ consumed \in Nat BY <1>2, <2>8, SizeIs DEF CallTypes
  <2>11. Size(r) - consumed # 0 BY <2>9, <2>10
  <2>12. /\ recovery'[1].file = f /\ recovery'[1].owed = Segments[n].remaining
         /\ Segments[n].remaining # 0
    BY <2>1, <2>8, <2>9, <2>11
  <2>13. No(recovery[1].file)' = j BY <1>1, <1>2, <2>12 DEF No, DirStays
  <2>14. j \in 2 .. Len(Segments) BY <1>4, <2>5, <1>2, SegmentIs
  <2> QED BY <1>1, <1>2, <1>3, <1>4, <1>5, <2>5, <2>12, <2>13, <2>14
         DEF RecoverySound, DirStays
<1> QED BY <1>6, <1>7

LEMMA CrossRejectsSound ==
  ASSUME Found, NEW k \in 0 .. Len(pending) - 1, R!CrossRejects(k)
  PROVE  ReaderSound'
<1>1. /\ SystemInv /\ PlaceTypes' /\ DirStays /\ ReaderSound /\ PlaceTypes /\ PendingRises
      /\ SystemTypes /\ Anchored
  BY FoundIs
<1>2. PICK f : f = pending[k + 1] OBVIOUS
<1>3. /\ R!Crossing /\ R!Opens(k, TRUE, 0) /\ current' = R!NoFile /\ lastMeta' = lastMeta
      /\ R!Fails(R!Truncated(R!LostBetween(f)))
  BY <1>2 DEF R!CrossRejects, R!aside
<1>4. FromPending /\ PendingRises' BY <1>1, <1>3, PendingOpened
<1>5. R!LostBetween(f) \in Nat
  <2>1. disk[f] \in Segment BY <1>2, <1>3, NextFile
  <2>2. prevSeq # <<>> BY <1>1, <1>3 DEF R!Crossing, Anchored
  <2> QED BY <1>1, <2>1, <2>2, LostBetweenIs
<1>6. PICK lost \in Nat : lost = R!LostBetween(f) BY <1>5
<1>7. TellSound'
  <2>1. R!Fails(R!Truncated(lost)) BY <1>3, <1>6
  <2>2. PICK kind \in {"truncated", "eof", "end", "error"} : kind = "truncated" OBVIOUS
  <2>3. rpc = "payload" => need > 0 BY <1>3 DEF R!Crossing
  <2> QED BY <1>1, <1>3, <1>4, <1>6, <2>1, <2>2, <2>3, LossTold
<1>8. rpc' = "idle" BY <1>3 DEF R!Fails, R!Return, R!EndCall
<1> QED BY <1>1, <1>3, <1>4, <1>7, <1>8, RejectionHints, PositionLost

\* Only the file behind the one that ran out follows it, and the record goes on there.
\* The file crossed to is the one written next, and the one before it is full.
LEMMA FollowsNext ==
  ASSUME Found, NEW k \in 0 .. Len(pending) - 1, R!CrossFollows(k),
         NEW f, f = pending[k + 1], NEW j, j = No(f), NEW i, i = Here
  PROVE  /\ i \in 1 .. Len(Segments) /\ j \in 1 .. Len(Segments)
         /\ j = i + 1 /\ Segments[j].seq # 0
         /\ current # R!NoFile /\ current.pos = DataLen /\ Len(Segments[i].data) = DataLen
         /\ current' # R!NoFile /\ current'.file = f /\ current'.pos = 0 /\ Here' = j
<1>1. PICK h, m : h = FALSE /\ m = 0 OBVIOUS
<1>2. /\ Known /\ DirStays /\ SequencesLeft /\ PlaceTypes /\ SystemTypes
      /\ Len(pending) \in Nat
  BY FoundIs
<1>3. R!Crossing /\ R!Opens(k, h, m) /\ R!Follows(f) /\ current' = R!Open(f, 0)
  BY <1>1 DEF R!CrossFollows
<1>4. /\ f \in 1 .. Len(disk) /\ j \in 1 .. Len(Segments) /\ disk[f].seq = Segments[j].seq
      /\ Len(disk[f].data) \in Nat
  <2>1. R!Opens(k, h, m) /\ f = pending[k + 1] /\ j = No(f) BY <1>3
  <2> QED BY <2>1, NextFile
<1>5. /\ i \in 1 .. Len(Segments) /\ current # R!NoFile /\ prevSeq[1] = Segments[i].seq
      /\ Segments[j].seq # 0 => Run(i, j)
      /\ ~ R!Short => current.pos = DataLen /\ Len(Segments[i].data) = DataLen
  BY <1>3, Crosses
<1>6. /\ current' # R!NoFile /\ current'.file = f /\ current'.pos = 0 /\ Here' = j
  <2>1. Len(disk[f].data) >= 0 /\ 0 \in Nat BY <1>4
  <2>2. current' # R!NoFile /\ current'.file = f /\ current'.pos = 0
    BY <1>2, <1>3, <1>4, <2>1, OpenIs
  <2> QED BY <1>2, <2>2 DEF Here, No, DirStays
<1>7. ~ R!Short /\ disk[f].seq = R!Successor(prevSeq[1]) BY <1>3 DEF R!Follows
<1>8. j = i + 1 /\ Segments[j].seq # 0
  <2>1. PICK n, s, t : n = SeqMax /\ s = Segments[i].seq /\ t = Segments[j].seq
    OBVIOUS
  <2>2. n \in Nat /\ s \in Nat /\ t \in Nat /\ s < n /\ t < n
    BY <1>2, <1>4, <1>5, <2>1, SegmentIs, FormatAssumption DEF SequencesLeft
  <2>3. t = (s + 1) % (n + 1) BY <1>4, <1>5, <1>7, <2>1 DEF R!Successor
  <2>4. t = s + 1 BY <2>2, <2>3, OneMissing
  <2>5. t # 0 BY <2>2, <2>4
  <2> QED BY <1>2, <1>4, <1>5, <2>1, <2>4, <2>5, RunFollows
<1> QED BY <1>4, <1>5, <1>6, <1>7, <1>8

LEMMA CrossFollowsSound ==
  ASSUME Found, NEW k \in 0 .. Len(pending) - 1, R!CrossFollows(k)
  PROVE  ReaderSound'
<1>1. PICK f, j, i, h, m :
        /\ f = pending[k + 1] /\ j = No(f) /\ i = Here /\ h = FALSE /\ m = 0
  OBVIOUS
<1>2. /\ Known /\ lens = Written /\ DirStays /\ RecoverySound /\ CallSound /\ SequencesLeft
      /\ CallTypes /\ CallShape /\ PlaceTypes /\ PlaceTypes' /\ TellSound /\ SystemTypes
      /\ Len(pending) \in Nat /\ lens \in Seq(Nat)
  BY FoundIs
<1>3. /\ R!Crossing /\ R!Opens(k, h, m) /\ R!Follows(f) /\ current' = R!Open(f, 0)
      /\ implied' = IF consumed > 0 /\ total = <<>>
                    THEN <<disk[f].remaining - R!HeaderRest>> ELSE implied
      /\ UNCHANGED <<startLost, recovery, rpc, got, payloadLen, consumed, total, results,
                     lastMeta>>
  BY <1>1 DEF R!CrossFollows, R!call, R!aside
<1>4. /\ f \in 1 .. Len(disk) /\ j \in 1 .. Len(Segments)
      /\ disk[f].seq = Segments[j].seq /\ disk[f].remaining = Segments[j].remaining
      /\ session' = <<Segments[j].session>> /\ prevSeq' = <<Segments[j].seq>>
      /\ FromPending /\ PendingRises'
      /\ \A p \in 1 .. Len(pending') : f < pending'[p]
  BY <1>1, <1>3, NextFile
<1>5. /\ i \in 1 .. Len(Segments) /\ current # R!NoFile /\ prevSeq[1] = Segments[i].seq
      /\ Segments[j].seq # 0 => Run(i, j)
      /\ startLost = 0
      /\ ~ R!Short => current.pos = DataLen /\ Len(Segments[i].data) = DataLen
  BY <1>1, <1>3, Crosses
<1>6. /\ current' # R!NoFile /\ current'.file = f /\ current'.pos = 0 /\ Here' = j
      /\ j = i + 1 /\ Segments[j].seq # 0
  BY <1>1, FollowsNext
<1>7. /\ R!Reading /\ need > 0 /\ ~ R!Short /\ R!Matches(f)
      /\ disk[f].seq = R!Successor(prevSeq[1])
  BY <1>3 DEF R!Crossing, R!Follows
<1>8. j = i + 1 /\ Segments[j].seq # 0 BY <1>6
<1>9. ASSUME consumed # 0
      PROVE  \E r \in 1 .. Len(lens) :
               /\ Reads(r) /\ Within(j, 0, r, consumed)
               /\ disk[f].remaining = Size(r) - consumed
               /\ Size(r) = HeaderLen + lens[r]
  <2>1. PICK r \in 1 .. Len(Written) :
          /\ Reads(r) /\ Written[r] = lens[r]
          /\ Segments[j].remaining = Size(r) - consumed
          /\ Segments[j].remaining # 0 => Within(j, 0, r, consumed)
    BY <1>1, <1>4, <1>5, <1>7, <1>8, <1>9, RestOwed
  <2>2. consumed < Size(r) BY <1>7, <2>1, MoreToCome
  <2>3. Size(r) \in Nat /\ consumed \in Nat BY <1>2, <2>1, SizeIs DEF CallTypes
  <2>4. Size(r) - consumed # 0 BY <2>2, <2>3
  <2>5. Size(r) = HeaderLen + lens[r] BY <1>2, <2>1, SizeIs
  <2> QED BY <1>2, <1>4, <2>1, <2>4, <2>5
<1>10. Further
  <2>1. k + 1 \in 1 .. Len(pending) BY <1>2
  <2> QED BY <1>1, <1>4, <1>6, <2>1 DEF Further
<1>11. \A b : Passed(b) => Passed(b)' BY <1>2, <1>10, PassedOn
<1>12. TellSound' BY <1>2, <1>3, <1>11, TellSame
<1>13. PlaceSound'
  <2>1. RecoverySound' BY <1>2, <1>3, <1>4, RecoveryKept
  <2>2. rpc' # "idle" BY <1>3, <1>7 DEF R!Reading
  <2>3. Here' <= Len(Segments') BY <1>2, <1>4, <1>6, SegmentIs DEF DirStays
  <2>4. CurrentSound'
    BY <1>2, <1>3, <1>4, <1>5, <1>6, <2>2, <2>3 DEF CurrentSound, DirStays
  <2> QED BY <1>4, <2>1, <2>4 DEF PlaceSound
<1>14. CallSound'
  <2>1. CASE consumed = 0
    <3>1. disk[f].remaining = 0 BY <1>7, <2>1 DEF R!Matches
    <3>2. Starts(Here, current.pos)' BY <1>2, <1>4, <1>6, <3>1 DEF Starts, DirStays
    <3>3. got = <<>> /\ implied = <<>> BY <1>2, <1>7, <2>1 DEF CallSound
    <3>4. implied' = <<>> BY <1>3, <2>1, <3>3
    <3> QED BY <1>2, <1>3, <2>1, <3>2, <3>3, <3>4 DEF CallSound, R!Reading
  <2>2. CASE consumed # 0
    <3>1. PICK r \in 1 .. Len(lens) :
            /\ Reads(r) /\ Within(j, 0, r, consumed)
            /\ disk[f].remaining = Size(r) - consumed
            /\ Size(r) = HeaderLen + lens[r]
      BY <1>9, <2>2
    <3>2. Within(Here, current.pos, r, consumed)'
      BY <1>2, <1>3, <1>6, <3>1 DEF Within, DirStays
    <3>3. rpc' = "header" => implied' \in {<<>>, <<lens'[r]>>}
      <4> SUFFICES ASSUME rpc = "header" PROVE implied' = <<lens[r]>> BY <1>2, <1>3 DEF DirStays
      <4>1. total = <<>> BY <1>2 DEF CallShape
      <4>2. consumed \in Nat /\ lens[r] \in Nat /\ HeaderLen \in Nat
        <5>1. lens[r] \in Nat BY <1>2
        <5>2. HeaderLen \in Nat BY FormatAssumption
        <5> QED BY <1>2, <5>1, <5>2 DEF CallTypes
      <4>3. PICK c, l, o : c = consumed /\ l = lens[r] /\ o = HeaderLen OBVIOUS
      <4>4. disk[f].remaining - R!HeaderRest = ((o + l) - c) - (o - c)
        BY <3>1, <4>3 DEF R!HeaderRest
      <4>5. ((o + l) - c) - (o - c) = l BY <4>2, <4>3
      <4>6. consumed > 0 BY <2>2, <4>2
      <4> QED BY <1>3, <4>1, <4>3, <4>4, <4>5, <4>6
    <3>4. got' # <<>> /\ rpc' \in {"payload", "skip"} => Passed(got[1])'
      <4>1. PICK b : b = got[1] OBVIOUS
      <4>2. Passed(got[1])' = Passed(b)' BY <1>3, <4>1 DEF Passed
      <4> QED BY <1>3, <1>11, <3>1, <4>1, <4>2 DEF Reads
    <3>5. \A n \in Telling' : Told(n)' < r BY <1>3, <3>1 DEF Reads, Telling, Told
    <3>6. Reads(r)' BY <1>2, <1>3, <3>1, <3>2, <3>3, <3>4, <3>5 DEF Reads, DirStays
    <3> QED BY <1>2, <1>3, <2>2, <3>6 DEF CallSound, R!Reading, DirStays
  <2> QED BY <2>1, <2>2
<1> QED BY <1>12, <1>13, <1>14 DEF ReaderSound

-----------------------------------------------------------------------------
(* A record begins where the reader is.                                    *)

LEMMA BeginsCall ==
  ASSUME CallSound, NEW n, R!FreshStart(n), Starts(Here, current.pos)'
  PROVE  CallSound'
<1>1. CASE Format = "fixed"
  <2>1. HeaderLen = 0 /\ FixedLen \in Nat BY <1>1, FormatAssumption
  <2>2. /\ rpc' = "payload" /\ payloadLen' = FixedLen /\ total' = <<FixedLen>>
        /\ got' = <<>> /\ consumed' = 0 /\ implied' = <<>>
    BY <1>1 DEF R!FreshStart
  <2>3. 0 + FixedLen = FixedLen /\ 0 >= 0 BY <2>1
  <2>4. lastMeta' = <<>> BY <1>1 DEF R!FreshStart
  <2> QED BY <1>1, <2>1, <2>2, <2>3, <2>4 DEF CallSound
<1>2. CASE Format # "fixed"
  <2>1. /\ rpc' = "header" /\ got' = <<>> /\ consumed' = 0 /\ implied' = <<>>
        /\ lastMeta' = lastMeta
    BY <1>2 DEF R!FreshStart
  <2> QED BY <1>2, <2>1 DEF CallSound
<1> QED BY <1>1, <1>2

LEMMA ReadSound ==
  ASSUME Found, ~ R!AtEof, NEW n, R!Read(n)
  PROVE  ReaderSound'
<1>1. /\ DirStays /\ PendingRises /\ RecoverySound /\ TellSound /\ CallSound /\ Anchored
      /\ CurrentSound /\ ReaderSound /\ PlaceTypes /\ PlaceTypes'
  BY FoundIs
<1>2. UNCHANGED <<pending, current, session, prevSeq, startLost, recovery, results>>
  BY DEF R!Read, R!place
<1>3. FromPending /\ PendingRises' BY <1>1, <1>2, PendingKept
<1>4. RecoverySound' BY <1>1, <1>2, RecoveryKept
<1>5. TellSound'
  <2>1. Further
    <3>1. current # R!NoFile => current.pos \in Nat BY <1>1 DEF PlaceTypes
    <3>2. current # R!NoFile => current.pos <= current.pos BY <3>1
    <3> QED BY <1>2, <1>3, <3>2 DEF Further
  <2>2. \A b : Passed(b) => Passed(b)' BY <1>1, <2>1, PassedOn
  <2> QED BY <1>1, <1>2, <2>2, TellSame
<1>6. CASE resync \/ current = R!NoFile
  <2>1. current' = R!NoFile BY <1>1, <1>2, <1>6 DEF Anchored
  <2>2. rpc' = "find" /\ lastMeta' = lastMeta BY <1>6 DEF R!Read
  <2> QED BY <1>1, <1>3, <1>4, <1>5, <2>1, <2>2, PositionLost
<1>7. CASE ~ (resync \/ current = R!NoFile)
  <2>1. R!FreshStart(n) /\ rpc = "idle" BY <1>7 DEF R!Read
  <2>2. Starts(Here, current.pos) BY <1>1, <1>7, <2>1 DEF CurrentSound
  <2>3. Starts(Here, current.pos)'
    BY <1>1, <1>2, <2>2 DEF Starts, Here, No, Lasts, Size, DirStays
  <2>4. CallSound' BY <1>1, <2>1, <2>3, BeginsCall
  <2>5. rpc' # "idle" BY <2>1 DEF R!FreshStart
  <2>6. CurrentSound' BY <1>1, <1>2, <2>5 DEF CurrentSound, Here, No, DirStays
  <2> QED BY <1>3, <1>4, <1>5, <2>4, <2>6 DEF ReaderSound, PlaceSound
<1> QED BY <1>6, <1>7

\* The first byte of what a result tells of is the first of the record's payload, so
\* that where a record is behind that byte, no further than its own first, it is a
\* later one.
LEMMA ToldBehind ==
  ASSUME Known, lens \in Seq(Nat), TellSound, NEW i \in Telling,
         NEW x \in 1 .. Len(Segments), NEW a \in 1 .. Len(Segments[x].data),
         Segments[x].data[a] = results[i].data[1],
         NEW n \in 1 .. Len(Segments), NEW c \in 1 .. Len(Segments[n].data),
         NEW r \in Nat, NEW o \in Nat, Segments[n].data[c] = <<r, o>>,
         x < n \/ (x = n /\ a <= c)
  PROVE  /\ o <= HeaderLen => Told(i) < r
         /\ o <= HeaderLen + 1 /\ (x < n \/ a < c) => Told(i) < r
<1>1. i \in 1 .. Len(results) /\ results[i].data # <<>> BY DEF Telling
<1>2. PICK t \in 1 .. Len(lens) : Gives(results[i], t)
  BY <1>1 DEF TellSound, TellsTruth
<1>3. PICK h \in Nat : h = HeaderLen BY FormatAssumption
<1>4. PICK d : d = results[i].data OBVIOUS
<1>5. d = BytesOf(t, h, h + Len(d)) BY <1>2, <1>3, <1>4 DEF Gives
<1>6. d[1] = <<t, h + 1>>
  <2>1. d = [k \in 1 .. (h + Len(d)) - h |-> <<t, h + k>>] BY <1>5 DEF BytesOf
  <2>2. 1 \in 1 .. (h + Len(d)) - h
    <3>1. CASE (h + Len(d)) - h \in Nat /\ (h + Len(d)) - h # 0 BY <3>1
    <3>2. CASE ~ ((h + Len(d)) - h \in Nat /\ (h + Len(d)) - h # 0)
      BY <1>1, <1>4, <2>1, <3>2
    <3> QED BY <3>1, <3>2
  <2> QED BY <2>1, <2>2
<1>7. Told(i) = t /\ t \in Nat BY <1>4, <1>6 DEF Told
<1>8. x \in Nat /\ n \in Nat /\ a \in Nat /\ c \in Nat BY SegmentIs, ByteIs
<1>9. ASSUME x < n \/ a < c PROVE t < r \/ (t = r /\ h + 1 < o)
  <2>1. Before(<<x, a>>, <<n, c>>) BY <1>8, <1>9 DEF Before
  <2>2. Before(Segments[x].data[a], Segments[n].data[c])
    BY <2>1 DEF Known, Truth, SegmentsOrdered
  <2>3. Before(<<t, h + 1>>, <<r, o>>) BY <1>4, <1>6, <2>2
  <2> QED BY <2>3 DEF Before
<1>10. ASSUME x = n, a = c PROVE o = h + 1
  <2>1. <<r, o>> = <<t, h + 1>> BY <1>4, <1>6, <1>10
  <2> QED BY <2>1
<1>11. o <= HeaderLen => x < n \/ a < c BY <1>3, <1>8, <1>10
<1>12. o <= h + 1 => ~ (h + 1 < o) OBVIOUS
<1>13. o <= h => o <= h + 1 OBVIOUS
<1> QED BY <1>3, <1>7, <1>9, <1>11, <1>12, <1>13

\* Where one whole file is missing and the arithmetic allows of one record only, the
\* file that follows begins with the payload of a record, behind its header.
LEMMA HeaderSwallowed ==
  ASSUME Found, NEW k \in 0 .. Len(pending) - 1, NEW handBack, NEW more,
         R!Opens(k, handBack, more), NEW f, f = pending[k + 1], R!Recovers(f),
         NEW j, j = No(f)
  PROVE  /\ \E r \in 1 .. Len(lens) :
              /\ Within(j, 0, r, HeaderLen) /\ disk[f].remaining = lens[r]
              /\ \A i \in Telling : Told(i) < r
         /\ startLost = 0 /\ session # <<>>
<1>1. /\ Known /\ lens = Written /\ RecoverySound /\ TellSound /\ lens \in Seq(Nat)
      /\ Len(pending) \in Nat
  BY FoundIs
<1>2. /\ j \in 1 .. Len(Segments) /\ disk[f].remaining = Segments[j].remaining
  BY NextFile
<1>3. PICK n, p : n = j - 1 /\ p = Segments[n].remaining OBVIOUS
<1>4. /\ recovery[1].owed = p /\ p # 0 /\ startLost = 0 /\ session # <<>>
  BY <1>1, <1>3 DEF R!Recovers, RecoverySound
<1>5. Segments[j].remaining # 0 /\ DataLen = p + HeaderLen
  BY <1>2, <1>4 DEF R!Recovers
<1>6. PICK d : d = Segments[n].data OBVIOUS
<1>7. PICK b : b = d[DataLen] OBVIOUS
<1>8. /\ n \in 1 .. Len(Segments) /\ Len(d) = DataLen /\ DataLen \in 1 .. Len(d)
      /\ Segments[j].remaining = Size(b[1]) - b[2]
  BY <1>1, <1>2, <1>3, <1>5, <1>6, <1>7, TailIs
<1>9. p \in Nat /\ DataLen \in Nat BY <1>1, <1>3, <1>8, SegmentIs
<1>10. PICK h \in Nat : h = HeaderLen BY FormatAssumption
<1>11. h # 0 BY <1>10, FormatAssumption DEF R!Recovers
<1>12. p <= Len(d) /\ p < Len(d) /\ p + h = DataLen BY <1>5, <1>8, <1>9, <1>10, <1>11
<1>13. Starts(n, p) BY <1>1, <1>3, <1>6, <1>8, <1>12, StartsBehindTail
<1>14. PICK r : r = d[p + 1][1] OBVIOUS
<1>15. p + 1 \in 1 .. Len(d) BY <1>8, <1>9, <1>12
<1>16. r \in 1 .. Len(Written) BY <1>1, <1>6, <1>8, <1>14, <1>15, ByteIs
<1>17. h <= Size(r) /\ Size(r) = HeaderLen + lens[r] /\ lens[r] \in Nat
  BY <1>1, <1>10, <1>16, SizeIs
<1>18. Within(n, DataLen, r, h)
  <2>1. DataLen = p + h /\ DataLen <= Len(d) BY <1>8, <1>12
  <2> QED BY <1>1, <1>6, <1>8, <1>9, <1>10, <1>11, <1>13, <1>14, <1>17, <2>1, RecordBegins
<1>19. d[DataLen] = <<r, h>>
  <2>1. Within(n, DataLen, r, h) /\ DataLen # 0 BY <1>8, <1>12, <1>18
  <2> QED BY <1>6, <2>1 DEF Within
<1>20. disk[f].remaining = lens[r]
  <2>1. b[1] = r /\ b[2] = h BY <1>7, <1>19
  <2>2. PICK l \in Nat : l = lens[r] BY <1>17
  <2>3. disk[f].remaining = (h + l) - h BY <1>2, <1>8, <1>10, <1>17, <2>1, <2>2
  <2> QED BY <2>2, <2>3
<1>21. Within(j, 0, r, HeaderLen) BY <1>3, <1>5, <1>6, <1>10, <1>19 DEF Within
<1>22. ASSUME NEW i \in Telling PROVE Told(i) < r
  <2>1. PICK x, a :
          /\ x \in 1 .. Len(Segments) /\ a \in 1 .. Len(Segments[x].data)
          /\ Segments[x].data[a] = results[i].data[1]
          /\ \A q \in 1 .. Len(pending) : x < No(pending[q])
    BY <1>1 DEF TellSound, Passed
  <2>2. x < j
    <3>1. k + 1 \in 1 .. Len(pending) BY <1>1
    <3> QED BY <2>1, <3>1
  <2>3. x \in Nat /\ j \in Nat /\ a \in Nat /\ a <= DataLen BY <1>1, <1>2, <2>1, SegmentIs, ByteIs
  <2>4. x < n \/ (x = n /\ a <= DataLen) BY <1>3, <2>2, <2>3
  <2>5. PICK c : c = DataLen OBVIOUS
  <2>6. /\ c \in 1 .. Len(Segments[n].data) /\ Segments[n].data[c] = <<r, h>>
        /\ x < n \/ (x = n /\ a <= c)
    BY <1>6, <1>8, <1>19, <2>4, <2>5
  <2>7. r \in Nat /\ h <= HeaderLen BY <1>10, <1>16
  <2> QED BY <1>1, <1>8, <2>1, <2>6, <2>7, ToldBehind
<1> QED BY <1>1, <1>4, <1>16, <1>20, <1>21, <1>22

\* A search for the start of a record ends at one, or behind a header that is lost.
LEMMA FindsStartSound ==
  ASSUME Found, NEW k \in 0 .. Len(pending) - 1, R!FindsStart(k)
  PROVE  ReaderSound'
<1>1. PICK f, j, h, m : f = pending[k + 1] /\ j = No(f) /\ h = FALSE /\ m = 0 OBVIOUS
<1>2. /\ Known /\ lens = Written /\ DirStays /\ CallSound /\ CallTypes /\ RestTypes
      /\ PlaceTypes /\ PlaceTypes' /\ TellSound /\ SystemTypes /\ ReaderInv
      /\ Len(pending) \in Nat
  BY FoundIs
<1>3. PICK start : start = IF R!Recovers(f) THEN 0 ELSE disk[f].remaining OBVIOUS
<1>4. /\ R!Opens(k, h, m) /\ current' = R!Open(f, start) /\ recovery' = <<>>
      /\ startLost' = 0 /\ rpc = "find"
  BY <1>1, <1>3 DEF R!FindsStart
<1>5. /\ f \in 1 .. Len(disk) /\ j \in 1 .. Len(Segments)
      /\ Len(disk[f].data) \in Nat /\ Len(disk[f].data) <= Len(Segments[j].data)
      /\ disk[f].remaining = Segments[j].remaining
      /\ session' = <<Segments[j].session>> /\ prevSeq' = <<Segments[j].seq>>
      /\ FromPending /\ PendingRises'
      /\ \A p \in 1 .. Len(pending') : f < pending'[p]
  <2>1. R!Opens(k, h, m) /\ f = pending[k + 1] /\ j = No(f) BY <1>1, <1>4
  <2>2. /\ f \in 1 .. Len(disk) /\ j \in 1 .. Len(Segments)
        /\ Len(disk[f].data) \in Nat /\ Len(disk[f].data) <= Len(Segments[j].data)
        /\ disk[f].remaining = Segments[j].remaining
        /\ session' = <<Segments[j].session>> /\ prevSeq' = <<Segments[j].seq>>
        /\ FromPending /\ PendingRises'
        /\ ~ h => \A p \in 1 .. Len(pending') : f < pending'[p]
    BY <2>1, NextFile
  <2> QED BY <1>1, <2>2
<1>6. /\ start \in Nat /\ start <= Len(disk[f].data)
      /\ ~ R!Recovers(f) => start < Len(disk[f].data)
  BY <1>1, <1>2, <1>3, StartFound
<1>7. /\ current' # R!NoFile /\ current'.file = f /\ current'.pos = start /\ Here' = j
  <2>1. current' # R!NoFile /\ current'.file = f /\ current'.pos = start
    BY <1>2, <1>4, <1>5, <1>6, OpenIs
  <2> QED BY <1>1, <1>2, <2>1 DEF Here, No, DirStays
<1>8. Further
  <2>1. k + 1 \in 1 .. Len(pending) BY <1>2
  <2> QED BY <1>1, <1>5, <1>7, <2>1 DEF Further
<1>9. \A b : Passed(b) => Passed(b)' BY <1>2, <1>8, PassedOn
<1>10. R!Recovers(f) =>
         /\ \E r \in 1 .. Len(lens) :
              /\ Within(j, 0, r, HeaderLen) /\ disk[f].remaining = lens[r]
              /\ \A i \in Telling : Told(i) < r
         /\ R!LostAhead(k) = 0
  BY <1>1, <1>4, HeaderSwallowed DEF R!LostAhead
<1>11. ~ R!Recovers(f) => Starts(Here, current.pos)'
  <2> SUFFICES ASSUME ~ R!Recovers(f) PROVE Starts(Here, current.pos)' OBVIOUS
  <2>1. start = Segments[j].remaining BY <1>3, <1>5
  <2>2. Len(Segments[j].data) \in Nat BY <1>2, <1>5, SegmentIs
  <2>3. Segments[j].remaining <= Len(Segments[j].data)
    BY <1>5, <1>6, <2>1, <2>2
  <2>4. Starts(j, start) BY <1>2, <1>5, <2>1, <2>3, StartsBehindTail
  <2> QED BY <1>2, <1>7, <2>4 DEF Starts, Lasts, Size, DirStays
<1>12. (rpc' = "idle" => Starts(Here, current.pos)') => PlaceSound'
  <2>1. RecoverySound' BY <1>4, NoRecovery
  <2>2. Here' <= Len(Segments') BY <1>2, <1>5, <1>7, SegmentIs DEF DirStays
  <2>3. (rpc' = "idle" => Starts(Here, current.pos)') => CurrentSound'
    BY <1>2, <1>4, <1>5, <1>7, <2>2 DEF CurrentSound, DirStays
  <2> QED BY <1>5, <2>1, <2>3 DEF PlaceSound
<1>13. CASE R!LostAhead(k) > 0
  <2>1. ~ R!Recovers(f) BY <1>10, <1>13
  <2>2. PICK lost : lost = R!LostAhead(k) OBVIOUS
  <2>3. lost \in Nat BY <1>2, <2>2, LostAheadIs
  <2>4. PICK x : x = R!Result("truncated", lost, <<>>) OBVIOUS
  <2>5. R!Return(x) /\ lastMeta' = lastMeta
    <3>1. R!Return(R!Truncated(lost)) /\ lastMeta' = lastMeta
      BY <1>13, <2>2 DEF R!FindsStart
    <3>2. R!InBuf = <<>> BY <1>4 DEF R!InBuf
    <3> QED BY <2>4, <3>1, <3>2 DEF R!Truncated
  <2>6. rpc' = "idle" /\ results' = Append(results, x)
    BY <2>5 DEF R!Return, R!EndCall
  <2>7. x \in Outcome
    <3>1. <<>> \in Seq(Byte) OBVIOUS
    <3> QED BY <1>2, <2>3, <2>4, <3>1, ResultIs DEF RestTypes
  <2>8. TellsTruth(x) /\ x.data = <<>> BY <2>4, LossTells
  <2>9. TellSound'
    <3>1. results \in Seq(Outcome) BY <1>2 DEF RestTypes
    <3> QED BY <1>2, <1>9, <2>6, <2>7, <2>8, <3>1, TellMore
  <2>10. CallSound' BY <1>2, <2>5, <2>6 DEF CallSound, R!Reading
  <2> QED BY <1>11, <1>12, <2>1, <2>9, <2>10 DEF ReaderSound
<1>14. CASE ~ (R!LostAhead(k) > 0)
  <2>1. results' = results BY <1>14 DEF R!FindsStart
  <2>2. TellSound' BY <1>2, <1>9, <2>1, TellSame
  <2>3. CASE ~ R!Recovers(f)
    <3>1. R!FreshStart(bufLen) BY <1>1, <1>14, <2>3 DEF R!FindsStart
    <3>2. CallSound' BY <1>2, <1>11, <2>3, <3>1, BeginsCall
    <3> QED BY <1>11, <1>12, <2>2, <2>3, <3>2 DEF ReaderSound
  <2>4. CASE R!Recovers(f)
    <3>1. /\ rpc' = "payload" /\ payloadLen' = disk[f].remaining /\ got' = <<>>
          /\ consumed' = HeaderLen /\ total' = <<HeaderLen + disk[f].remaining>>
          /\ lastMeta' = <<>>
      BY <1>1, <1>14, <2>4 DEF R!FindsStart
    <3>2. PICK r \in 1 .. Len(lens) :
            /\ Within(j, 0, r, HeaderLen) /\ disk[f].remaining = lens[r]
            /\ \A i \in Telling : Told(i) < r
      BY <1>10, <2>4
    <3>3. Format = "simple" /\ start = 0 BY <1>3, <2>4 DEF R!Recovers
    <3>4. HeaderLen \in Nat \ {0} BY <3>3, FormatAssumption
    <3>5. Within(Here, current.pos, r, consumed)'
      BY <1>2, <1>7, <3>1, <3>2, <3>3 DEF Within, DirStays
    <3>6. got' = BytesOf(r, HeaderLen, HeaderLen + Len(got'))
      <4>1. PICK n \in Nat : n = HeaderLen BY <3>4
      <4>2. (n + 0) - n = 0 /\ Len(<<>>) = 0 BY <4>1
      <4>3. BytesOf(r, n, n + 0) = [q \in 1 .. 0 |-> <<r, n + q>>] BY <4>2 DEF BytesOf
      <4>4. [q \in 1 .. 0 |-> <<r, n + q>>] = <<>> OBVIOUS
      <4> QED BY <3>1, <4>1, <4>2, <4>3, <4>4
    <3>7. \A i \in Telling' : Told(i)' < r BY <2>1, <3>2 DEF Telling, Told
    <3>8. Reads(r)'
      BY <1>2, <3>1, <3>2, <3>3, <3>5, <3>6, <3>7 DEF Reads, DirStays
    <3>9. HeaderLen >= HeaderLen /\ HeaderLen # 0 BY <3>4
    <3>10. CallSound' BY <1>2, <3>1, <3>2, <3>3, <3>8, <3>9 DEF CallSound, DirStays
    <3>11. rpc' # "idle" BY <3>1
    <3> QED BY <1>12, <2>2, <3>10, <3>11 DEF ReaderSound
  <2> QED BY <2>3, <2>4
<1> QED BY <1>13, <1>14

-----------------------------------------------------------------------------
(* The bytes of a record.                                                  *)

LEMMA CallNeeds ==
  ASSUME CallTypes, CallShape, CallSound, rpc \in {"payload", "skip"}
  PROVE  /\ consumed + need <= HeaderLen + payloadLen
         /\ rpc = "payload" => consumed = HeaderLen + Len(got)
<1>1. /\ consumed \in Nat /\ need \in Nat /\ payloadLen \in Nat /\ bufLen \in Nat
      /\ Len(got) \in Nat
  BY DEF CallTypes
<1>2. PICK h \in Nat : h = HeaderLen BY FormatAssumption
<1>3. PICK c, m, l, g : c = consumed /\ m = need /\ l = payloadLen /\ g = Len(got) OBVIOUS
<1>4. total = <<h + l>> BY <1>2, <1>3 DEF CallSound
<1>5. PICK e : e = Lesser(payloadLen, bufLen) OBVIOUS
<1>6. e \in Nat /\ e <= l BY <1>1, <1>3, <1>5, LesserIs
<1>7. CASE rpc = "payload"
  <2>1. total = <<c + m + l - e>> /\ g + m = e BY <1>3, <1>5, <1>7 DEF CallShape
  <2>2. PICK t, u : t = h + l /\ u = c + m + l - e OBVIOUS
  <2>3. t = u BY <1>4, <2>1, <2>2
  <2>4. h + l = c + m + l - e BY <2>2, <2>3
  <2>5. c + m <= h + l /\ c = h + g BY <1>1, <1>3, <1>6, <2>1, <2>4
  <2> QED BY <1>2, <1>3, <2>5
<1>8. CASE rpc = "skip"
  <2>1. total = <<c + m>> BY <1>3, <1>8 DEF CallShape
  <2>2. PICK t, u : t = h + l /\ u = c + m OBVIOUS
  <2>3. t = u BY <1>4, <2>1, <2>2
  <2>4. c + m <= h + l BY <1>1, <1>3, <2>2, <2>3
  <2> QED BY <1>2, <1>3, <1>8, <2>4
<1> QED BY <1>7, <1>8

\* A step that reads reads the next bytes of one record.
LEMMA PieceRead ==
  ASSUME Found, R!ReadPiece, NEW h, h = Here, NEW p, p = current.pos,
         NEW n, n = R!Piece, NEW c, c = consumed, NEW d, d = Segments[h].data
  PROVE  \E r \in 1 .. Len(lens) :
           /\ Spans(h, p, n, r, c)
           /\ Within(h, p + n, r, c + n)
           /\ \A i \in Telling : Told(i) < r
           /\ c # 0 => Reads(r)
           /\ c = 0 => got = <<>> /\ implied = <<>> /\ Starts(h, p)
           /\ c = 0 /\ rpc \in {"payload", "skip"} =>
                Format = "fixed" /\ payloadLen = lens[r]
<1>1. /\ SystemInv /\ Known /\ DiskInv /\ CurrentSound /\ CallSound /\ CallTypes
      /\ CallShape /\ lens = Written /\ SystemTypes /\ ReaderInv /\ TellSound
      /\ lens \in Seq(Nat)
  BY FoundIs
<1>2. /\ current # R!NoFile /\ n \in Nat \ {0} /\ n <= need /\ p + n <= current.len
  BY <1>1, PieceIs
<1>3. /\ h \in 1 .. Len(Segments) /\ p \in Nat /\ p \in 0 .. Len(d)
      /\ current.len <= Len(d) /\ current.len \in Nat
  BY <1>1, <1>2, PlaceIs
<1>4. Len(d) \in Nat /\ p + n <= Len(d) /\ p < Len(d)
  BY <1>1, <1>2, <1>3, SegmentIs
<1>5. need \in Nat /\ c \in Nat /\ R!Reading BY <1>1 DEF CallTypes, R!ReadPiece
<1>6. CASE c = 0
  <2>1. got = <<>> /\ implied = <<>> /\ Starts(h, p) BY <1>1, <1>5, <1>6 DEF CallSound
  <2>2. PICK r : r = d[p + 1][1] OBVIOUS
  <2>3. p + 1 \in 1 .. Len(d) /\ d[p + 1] = <<r, 1>>
    BY <1>1, <1>3, <1>4, <2>1, <2>2, Begins
  <2>4. r \in 1 .. Len(Written) BY <1>1, <1>3, <2>2, <2>3, ByteIs
  <2>5. Size(r) = HeaderLen + lens[r] /\ lens[r] \in Nat /\ HeaderLen \in Nat
    BY <1>1, <2>4, SizeIs
  <2>6. rpc \in {"payload", "skip"} => Format = "fixed" /\ payloadLen = lens[r]
    <3> SUFFICES ASSUME rpc \in {"payload", "skip"}
                 PROVE  Format = "fixed" /\ payloadLen = lens[r]
      OBVIOUS
    <3>1. consumed >= HeaderLen /\ (Format = "fixed" => payloadLen = FixedLen)
      BY <1>1 DEF CallSound
    <3>2. HeaderLen = 0 BY <1>6, <2>5, <3>1
    <3>3. Format = "fixed" BY <3>2, FormatAssumption
    <3>4. Written[r] = FixedLen BY <1>1, <2>4, <3>3 DEF Known, Truth
    <3> QED BY <1>1, <3>1, <3>3, <3>4
  <2>7. need <= Size(r)
    <3>1. CASE rpc = "header"
      <4>1. consumed + need = HeaderLen BY <1>1, <3>1 DEF CallShape
      <4> QED BY <1>5, <1>6, <2>5, <4>1
    <3>2. CASE rpc \in {"payload", "skip"}
      <4>1. consumed + need <= HeaderLen + payloadLen BY <1>1, <3>2, CallNeeds
      <4> QED BY <1>5, <1>6, <2>5, <2>6, <3>2, <4>1
    <3> QED BY <1>5, <3>1, <3>2 DEF R!Reading
  <2>8. n <= Size(r) BY <1>2, <1>5, <2>5, <2>7
  <2>9. Spans(h, p, n, r, c) /\ Within(h, p + n, r, c + n)
    <3>1. /\ h \in 1 .. Len(Segments) /\ p \in Nat /\ n \in Nat \ {0}
          /\ p + n <= Len(Segments[h].data) /\ Starts(h, p)
          /\ r = Segments[h].data[p + 1][1]
      BY <1>2, <1>3, <1>4, <2>1, <2>2
    <3>2. PICK y : y = p + n OBVIOUS
    <3>3. Known /\ y <= Len(Segments[h].data) BY <1>1, <3>1, <3>2
    <3>4. Spans(h, p, n, r, 0) /\ Within(h, y, r, n)
      BY <2>8, <3>1, <3>2, <3>3, RecordBegins
    <3>5. c = 0 /\ c + n = n BY <1>6, <3>1
    <3> QED BY <3>2, <3>4, <3>5
  <2>10. ASSUME NEW i \in Telling PROVE Told(i) < r
    <3>1. PICK x, a :
            /\ x \in 1 .. Len(Segments) /\ a \in 1 .. Len(Segments[x].data)
            /\ Segments[x].data[a] = results[i].data[1]
            /\ x < h \/ (x = h /\ a <= p)
      BY <1>1, <1>2 DEF TellSound, Passed
    <3>2. PICK b, o : b = p + 1 /\ o = 1 OBVIOUS
    <3>3. x < h \/ (x = h /\ a < b /\ a <= b) BY <1>3, <3>1, <3>2
    <3>4. /\ b \in 1 .. Len(Segments[h].data) /\ Segments[h].data[b] = <<r, o>>
          /\ r \in Nat /\ o \in Nat /\ o <= HeaderLen + 1
      BY <2>3, <2>4, <2>5, <3>2
    <3> QED BY <1>1, <1>3, <3>1, <3>3, <3>4, ToldBehind
  <2> QED BY <1>1, <1>6, <2>1, <2>4, <2>6, <2>9, <2>10
<1>7. CASE c # 0
  <2>1. PICK r \in 1 .. Len(lens) : Reads(r) BY <1>1, <1>5, <1>7 DEF CallSound
  <2>2. Within(h, p, r, c) /\ \A i \in Telling : Told(i) < r BY <2>1 DEF Reads
  <2>3. Size(r) = HeaderLen + lens[r] /\ lens[r] \in Nat /\ HeaderLen \in Nat
    BY <1>1, <2>1, SizeIs
  <2>4. c + need <= Size(r)
    <3>1. CASE rpc = "header"
      <4>1. consumed + need = HeaderLen BY <1>1, <3>1 DEF CallShape
      <4> QED BY <1>5, <2>3, <4>1
    <3>2. CASE rpc \in {"payload", "skip"}
      <4>1. consumed + need <= HeaderLen + payloadLen BY <1>1, <3>2, CallNeeds
      <4>2. payloadLen = lens[r] BY <2>1, <3>2 DEF Reads
      <4> QED BY <2>3, <4>1, <4>2
    <3> QED BY <1>5, <3>1, <3>2 DEF R!Reading
  <2>5. c + n <= Size(r) BY <1>2, <1>5, <2>3, <2>4
  <2>6. Spans(h, p, n, r, c) /\ Within(h, p + n, r, c + n)
    <3>1. /\ h \in 1 .. Len(Segments) /\ p \in 0 .. Len(Segments[h].data)
          /\ n \in Nat \ {0} /\ p + n <= Len(Segments[h].data)
      BY <1>2, <1>3, <1>4
    <3>2. PICK y, z : y = p + n /\ z = c + n OBVIOUS
    <3>3. Known /\ c \in Nat /\ Within(h, p, r, c) BY <1>1, <1>5, <2>2
    <3>4. y <= Len(Segments[h].data) /\ z <= Size(r) BY <2>5, <3>1, <3>2
    <3>5. Spans(h, p, n, r, c) /\ Within(h, y, r, z)
      BY <3>1, <3>2, <3>3, <3>4, RecordGoesOn
    <3> QED BY <3>2, <3>5
  <2> QED BY <1>7, <2>1, <2>2, <2>6
<1> QED BY <1>6, <1>7

-----------------------------------------------------------------------------
(* The bytes that a call has of a record.                                  *)

\* s has bytes of record r, those behind byte a of it.
Holds(s, r, a) == \A k \in 1 .. Len(s) : s[k] = <<r, a + k>>

LEMMA HoldsBytes ==
  ASSUME NEW r, NEW a \in Nat, NEW s \in Seq(Byte)
  PROVE  Holds(s, r, a) <=> s = BytesOf(r, a, a + Len(s))
<1>1. PICK n \in Nat : n = Len(s) OBVIOUS
<1>2. (a + n) - a = n BY <1>1
<1>3. BytesOf(r, a, a + n) = [k \in 1 .. n |-> <<r, a + k>>] BY <1>2 DEF BytesOf
<1>4. s = [k \in 1 .. n |-> s[k]] BY <1>1
<1>5. ASSUME Holds(s, r, a) PROVE s = BytesOf(r, a, a + n)
  <2>1. \A k \in 1 .. n : s[k] = <<r, a + k>> BY <1>1, <1>5 DEF Holds
  <2>2. [k \in 1 .. n |-> s[k]] = [k \in 1 .. n |-> <<r, a + k>>] BY <2>1
  <2> QED BY <1>3, <1>4, <2>2
<1>6. ASSUME s = BytesOf(r, a, a + n) PROVE Holds(s, r, a)
  BY <1>1, <1>3, <1>6 DEF Holds
<1> QED BY <1>1, <1>5, <1>6

LEMMA HoldsJoin ==
  ASSUME NEW r, NEW a \in Nat, NEW s \in Seq(Byte), NEW t \in Seq(Byte),
         NEW b, b = a + Len(s), Holds(s, r, a), Holds(t, r, b), NEW u, u = s \o t
  PROVE  Holds(u, r, a) /\ u \in Seq(Byte) /\ Len(u) = Len(s) + Len(t)
<1>1. PICK m \in Nat, n \in Nat : m = Len(s) /\ n = Len(t) OBVIOUS
<1>2. /\ u \in Seq(Byte) /\ Len(u) = m + n
      /\ (\A i \in 1 .. m : u[i] = s[i]) /\ (\A k \in 1 .. n : u[m + k] = t[k])
  BY <1>1, Joins
<1>3. \A i \in 1 .. m : s[i] = <<r, a + i>> BY <1>1 DEF Holds
<1>4. \A k \in 1 .. n : t[k] = <<r, b + k>> BY <1>1 DEF Holds
<1>5. ASSUME NEW i \in 1 .. m + n PROVE u[i] = <<r, a + i>>
  <2>1. CASE i \in 1 .. m BY <1>2, <1>3, <2>1
  <2>2. CASE i \notin 1 .. m
    <3>1. PICK k : k = i - m OBVIOUS
    <3>2. k \in 1 .. n /\ m + k = i /\ b + k = a + i BY <1>1, <2>2, <3>1
    <3>3. u[m + k] = t[k] BY <1>2, <3>2
    <3>4. t[k] = <<r, b + k>> BY <1>4, <3>2
    <3> QED BY <3>2, <3>3, <3>4
  <2> QED BY <2>1, <2>2
<1>6. Holds(u, r, a) BY <1>2, <1>5 DEF Holds
<1> QED BY <1>1, <1>2, <1>6

\* What has been read of a record, and what a piece adds to it.
LEMMA PieceJoins ==
  ASSUME Found, R!ReadPiece, NEW h, h = Here, NEW p, p = current.pos,
         NEW n, n = R!Piece, NEW c, c = consumed, NEW r \in 1 .. Len(lens),
         Spans(h, p, n, r, c), c # 0 => Reads(r), c = 0 => got = <<>>
  PROVE  /\ rpc = "header" => got' = BytesOf(r, 0, c + n)
         /\ rpc \in {"payload", "skip"} =>
              /\ got' = BytesOf(r, HeaderLen, HeaderLen + Len(got'))
              /\ got' # <<>> =>
                   \/ got # <<>> /\ got'[1] = got[1]
                   \/ got'[1] = Segments[h].data[p + 1]
<1>1. /\ SystemInv /\ Known /\ DiskInv /\ CurrentSound /\ CallSound /\ CallTypes
      /\ CallShape /\ SystemTypes /\ ReaderInv /\ lens \in Seq(Nat)
  BY FoundIs
<1>2. PICK t : t = R!Ahead(n) OBVIOUS
<1>3. /\ current # R!NoFile /\ n \in Nat \ {0} /\ p + n <= current.len
      /\ t \in Seq(Byte) /\ Len(t) = n
      /\ \A k \in 1 .. n : t[k] = disk[current.file].data[p + k]
  BY <1>1, <1>2, PieceIs
<1>4. /\ p \in Nat /\ current.len \in Nat
      /\ \A a \in 1 .. current.len : disk[current.file].data[a] = Segments[h].data[a]
  BY <1>1, <1>3, PlaceIs
<1>5. \A k \in 1 .. n : t[k] = Segments[h].data[p + k]
  <2>1. \A k \in 1 .. n : p + k \in 1 .. current.len BY <1>3, <1>4
  <2> QED BY <1>3, <1>4, <2>1
<1>6. \A k \in 1 .. n : t[k] = <<r, c + k>> BY <1>5 DEF Spans
<1>7. got \in Seq(Byte) /\ Len(got) \in Nat /\ c \in Nat /\ r \in Nat
  BY <1>1 DEF CallTypes
<1>8. got' = IF rpc = "skip" THEN got ELSE got \o t BY <1>2 DEF R!ReadPiece
<1>9. ASSUME rpc = "header" PROVE got' = BytesOf(r, 0, c + n)
  <2>1. Len(got) = c BY <1>1, <1>9 DEF CallShape
  <2>2. PICK a \in Nat : a = 0 OBVIOUS
  <2>3. c = a + Len(got) BY <1>7, <2>1, <2>2
  <2>4. Holds(got, r, a)
    <3>1. CASE c = 0 BY <2>1, <3>1 DEF Holds
    <3>2. CASE c # 0
      <4>1. got = BytesOf(r, a, c) BY <1>9, <2>2, <3>2 DEF Reads
      <4> QED BY <1>7, <2>3, <4>1, HoldsBytes
    <3> QED BY <3>1, <3>2
  <2>5. Holds(t, r, c) BY <1>3, <1>6 DEF Holds
  <2>6. PICK u : u = got \o t OBVIOUS
  <2>7. Holds(u, r, a) /\ u \in Seq(Byte) /\ Len(u) = Len(got) + Len(t)
    <3>1. got \in Seq(Byte) /\ t \in Seq(Byte) /\ a \in Nat BY <1>3, <1>7, <2>2
    <3>2. Holds(u, r, a) /\ u \in Seq(Byte) BY <2>3, <2>4, <2>5, <2>6, <3>1, HoldsJoin
    <3>3. Len(got \o t) = Len(got) + Len(t) BY <3>1, Joins
    <3> QED BY <2>6, <3>2, <3>3
  <2>8. a + Len(u) = c + n BY <1>3, <1>7, <2>1, <2>2, <2>7
  <2>9. u = BytesOf(r, a, a + Len(u)) BY <2>7, HoldsBytes
  <2> QED BY <1>8, <1>9, <2>2, <2>6, <2>8, <2>9
<1>10. ASSUME rpc \in {"payload", "skip"}
       PROVE  /\ got' = BytesOf(r, HeaderLen, HeaderLen + Len(got'))
              /\ got' # <<>> =>
                   \/ got # <<>> /\ got'[1] = got[1]
                   \/ got'[1] = Segments[h].data[p + 1]
  <2>1. PICK a \in Nat : a = HeaderLen BY FormatAssumption
  <2>2. Holds(got, r, a)
    <3>1. CASE c = 0 BY <3>1 DEF Holds
    <3>2. CASE c # 0
      <4>1. got = BytesOf(r, a, a + Len(got)) BY <1>10, <2>1, <3>2 DEF Reads
      <4> QED BY <1>7, <4>1, HoldsBytes
    <3> QED BY <3>1, <3>2
  <2>3. CASE rpc = "skip"
    <3>1. got = BytesOf(r, a, a + Len(got)) BY <1>7, <2>2, HoldsBytes
    <3> QED BY <1>8, <2>1, <2>3, <3>1
  <2>4. CASE rpc = "payload"
    <3>1. c = a + Len(got) BY <1>1, <1>10, <2>1, <2>4, CallNeeds
    <3>2. Holds(t, r, c) BY <1>3, <1>6 DEF Holds
    <3>3. PICK u : u = got \o t OBVIOUS
    <3>4. Holds(u, r, a) /\ u \in Seq(Byte)
      BY <1>3, <1>7, <2>1, <2>2, <3>1, <3>2, <3>3, HoldsJoin
    <3>5. (got # <<>> /\ u[1] = got[1]) \/ u[1] = Segments[h].data[p + 1]
      <4>1. CASE Len(got) = 0
        <5>1. PICK k, m : k = 1 /\ m = Len(got) OBVIOUS
        <5>2. k \in 1 .. Len(t) /\ m + k = k BY <1>3, <4>1, <5>1
        <5>3. u[m + k] = t[k] BY <1>3, <1>7, <3>3, <5>1, <5>2, Joins
        <5>4. t[k] = Segments[h].data[p + k] BY <1>3, <1>5, <5>2
        <5> QED BY <5>1, <5>2, <5>3, <5>4
      <4>2. CASE Len(got) # 0
        <5>1. 1 \in 1 .. Len(got) BY <1>7, <4>2
        <5>2. u[1] = got[1] BY <1>3, <1>7, <3>3, <5>1, Joins
        <5> QED BY <4>2, <5>2
      <4> QED BY <4>1, <4>2
    <3>6. got' = u BY <1>8, <2>4, <3>3
    <3>7. u = BytesOf(r, a, a + Len(u)) BY <3>4, HoldsBytes
    <3> QED BY <2>1, <3>5, <3>6, <3>7
  <2> QED BY <1>10, <2>3, <2>4
<1> QED BY <1>9, <1>10

LEMMA PieceSound ==
  ASSUME Found, R!ReadPiece
  PROVE  ReaderSound'
<1>1. PICK h, p, n, c, d :
        /\ h = Here /\ p = current.pos /\ n = R!Piece /\ c = consumed
        /\ d = Segments[h].data
  OBVIOUS
<1>2. /\ SystemInv /\ Known /\ DiskInv /\ CurrentSound /\ CallSound /\ CallTypes
      /\ SystemTypes /\ ReaderInv /\ DirStays /\ PlaceTypes /\ PlaceTypes' /\ TellSound
      /\ PendingRises /\ RecoverySound
  BY FoundIs
<1>3. PICK r \in 1 .. Len(lens) :
        /\ Spans(h, p, n, r, c) /\ Within(h, p + n, r, c + n)
        /\ \A i \in Telling : Told(i) < r
        /\ c # 0 => Reads(r)
        /\ c = 0 => got = <<>> /\ implied = <<>> /\ Starts(h, p)
        /\ c = 0 /\ rpc \in {"payload", "skip"} =>
             Format = "fixed" /\ payloadLen = lens[r]
  BY <1>1, PieceRead
<1>4. /\ current # R!NoFile /\ n \in Nat \ {0} /\ p + n <= current.len
  BY <1>1, <1>2, PieceIs
<1>5. /\ h \in 1 .. Len(Segments) /\ p \in Nat /\ current.len \in Nat
      /\ current.len <= Len(d) /\ h = No(current.file) /\ current.file \in 1 .. Len(disk)
  BY <1>1, <1>2, <1>4, PlaceIs
<1>6. Len(d) \in Nat BY <1>1, <1>2, <1>5, SegmentIs
<1>7. PICK y, z : y = p + n /\ z = c + n OBVIOUS
<1>8. /\ y \in Nat /\ z \in Nat /\ y # 0 /\ z # 0 /\ p <= y /\ p + 1 <= y /\ c <= z
      /\ p + 1 \in 1 .. Len(d)
  <2>1. PICK l, e : l = current.len /\ e = Len(d) OBVIOUS
  <2>2. /\ n \in Nat \ {0} /\ p + n <= l /\ p \in Nat /\ l \in Nat /\ l <= e /\ e \in Nat
    BY <1>4, <1>5, <1>6, <2>1
  <2>3. c \in Nat BY <1>1, <1>2 DEF CallTypes
  <2> QED BY <1>7, <2>1, <2>2, <2>3
<1>9. /\ R!Reading /\ current' = [current EXCEPT !.pos = y] /\ consumed' = z
      /\ UNCHANGED <<disk, lens, lastMeta, pending, session, prevSeq, startLost, recovery,
                     rpc, payloadLen, total, implied, results>>
  BY <1>1, <1>7 DEF R!ReadPiece, R!aside
<1>10. /\ current' # R!NoFile /\ current'.file = current.file /\ current'.pos = y
       /\ Here' = h
  <2>1. current \in [file : 1 .. Len(disk), pos : Nat, len : Nat]
    BY <1>2, <1>4 DEF PlaceTypes
  <2>2. current'.file = current.file /\ current'.pos = y BY <1>9, <2>1
  <2>3. R!NoFile.file = 0 BY DEF R!NoFile
  <2>4. current.file # 0 BY <1>5
  <2>5. current' # R!NoFile BY <2>2, <2>3, <2>4
  <2>6. Here' = No(current.file) BY <1>9, <2>2 DEF Here, No
  <2> QED BY <1>5, <2>2, <2>5, <2>6
<1>11. Further BY <1>1, <1>4, <1>8, <1>9, <1>10 DEF Further, FromPending
<1>12. \A b : Passed(b) => Passed(b)' BY <1>2, <1>11, PassedOn
<1>13. TellSound' BY <1>2, <1>9, <1>12, TellSame
<1>14. rpc' # "idle" /\ rpc' = rpc BY <1>9 DEF R!Reading
<1>15. PlaceSound'
  <2>1. PendingRises' BY <1>2, <1>9, PendingKept
  <2>2. RecoverySound' BY <1>2, <1>9, RecoveryKept
  <2>3. CurrentSound'
    BY <1>1, <1>2, <1>4, <1>9, <1>10, <1>14 DEF CurrentSound, DirStays
  <2> QED BY <2>1, <2>2, <2>3 DEF PlaceSound
<1>16. Within(Here, current.pos, r, consumed)'
  <2>1. Segments[h].data[y] = <<r, z>> BY <1>3, <1>7, <1>8 DEF Within
  <2> QED BY <1>2, <1>8, <1>9, <1>10, <2>1 DEF Within, DirStays
<1>17. /\ rpc = "header" => got' = BytesOf(r, 0, z)
       /\ rpc \in {"payload", "skip"} =>
            /\ got' = BytesOf(r, HeaderLen, HeaderLen + Len(got'))
            /\ got' # <<>> => \/ got # <<>> /\ got'[1] = got[1]
                              \/ got'[1] = Segments[h].data[p + 1]
  <2>1. c = 0 => got = <<>> BY <1>3
  <2>2. /\ rpc = "header" => got' = BytesOf(r, 0, c + n)
        /\ rpc \in {"payload", "skip"} =>
             /\ got' = BytesOf(r, HeaderLen, HeaderLen + Len(got'))
             /\ got' # <<>> => \/ got # <<>> /\ got'[1] = got[1]
                               \/ got'[1] = Segments[h].data[p + 1]
    BY <1>1, <1>3, <2>1, PieceJoins
  <2> QED BY <1>7, <2>2
<1>18. ASSUME NEW b, b = Segments[h].data[p + 1] PROVE Passed(b)'
  <2>1. PICK a : a = p + 1 /\ b = Segments[h].data[a] BY <1>18
  <2>2. a \in 1 .. Len(Segments[h].data) /\ a <= y BY <1>1, <1>8, <2>1
  <2>3. ASSUME NEW q \in 1 .. Len(pending') PROVE h < No(pending[q])'
    <3>1. q \in 1 .. Len(pending) /\ pending'[q] = pending[q] BY <1>9
    <3>2. current.file < pending[q] BY <1>2, <1>4, <3>1 DEF CurrentSound
    <3>3. pending[q] \in 1 .. Len(disk)
      <4>1. pending \in Seq(1 .. Len(disk)) BY <1>2 DEF PlaceTypes
      <4> QED BY <3>1, <4>1
    <3>4. No(current.file) < No(pending[q])
      BY <1>2, <1>5, <3>2, <3>3 DEF DiskInv, DiskOrdered
    <3> QED BY <1>2, <1>5, <3>1, <3>4 DEF No, DirStays
  <2> QED BY <1>2, <1>5, <1>10, <2>1, <2>2, <2>3 DEF Passed, DirStays
<1>19. rpc \in {"payload", "skip"} /\ got' # <<>> => Passed(got[1])'
  <2> SUFFICES ASSUME rpc \in {"payload", "skip"}, got' # <<>> PROVE Passed(got[1])' OBVIOUS
  <2>1. PICK b : b = got'[1] OBVIOUS
  <2>2. Passed(b)'
    <3>1. CASE got # <<>> /\ b = got[1]
      <4>1. c # 0 BY <1>3, <3>1
      <4>2. Passed(b) BY <1>3, <3>1, <4>1 DEF Reads
      <4> QED BY <1>12, <4>2
    <3>2. CASE b = Segments[h].data[p + 1] BY <1>18, <3>2
    <3> QED BY <1>17, <2>1, <3>1, <3>2
  <2> QED BY <2>1, <2>2 DEF Passed
<1>20. rpc = "header" => implied \in {<<>>, <<lens[r]>>} BY <1>3 DEF Reads
<1>21. rpc \in {"payload", "skip"} =>
         payloadLen = lens[r] /\ (Format = "tsrc" => lastMeta = <<r>>)
  BY <1>3 DEF Reads
<1>22. \A i \in Telling' : Told(i)' < r BY <1>3, <1>9 DEF Telling, Told
<1>23. Reads(r)'
  BY <1>2, <1>9, <1>16, <1>17, <1>19, <1>20, <1>21, <1>22 DEF Reads, DirStays
<1>24. rpc \in {"payload", "skip"} => z >= HeaderLen
  <2>1. rpc \in {"payload", "skip"} => consumed >= HeaderLen BY <1>2 DEF CallSound
  <2>2. HeaderLen \in Nat /\ c \in Nat BY <1>1, <1>2, FormatAssumption DEF CallTypes
  <2> QED BY <1>1, <1>8, <2>1, <2>2
<1>25. CallSound'
  <2>1. r \in 1 .. Len(lens') BY <1>9
  <2>2. /\ rpc \in {"payload", "skip"} =>
             /\ total = <<HeaderLen + payloadLen>>
             /\ Format = "fixed" => payloadLen = FixedLen
        /\ Format # "tsrc" => lastMeta = <<>>
    BY <1>2 DEF CallSound
  <2> QED BY <1>8, <1>9, <1>23, <1>24, <2>1, <2>2 DEF CallSound
<1> QED BY <1>13, <1>15, <1>25 DEF ReaderSound

-----------------------------------------------------------------------------
(* The end of each part of a record.                                       *)

LEMMA PlaceKept ==
  ASSUME Found, UNCHANGED R!place, recovery' = recovery,
         rpc' = "idle" /\ current # R!NoFile => Starts(Here, current.pos)
  PROVE  PlaceSound' /\ \A b : Passed(b) => Passed(b)'
<1>1. /\ DirStays /\ CurrentSound /\ PlaceTypes /\ PlaceTypes' /\ PendingRises /\ RecoverySound
  BY FoundIs
<1>2. UNCHANGED <<pending, current, session, prevSeq, startLost>> BY DEF R!place
<1>3. PendingRises' BY <1>1, <1>2, PendingKept
<1>4. RecoverySound' BY <1>1, <1>2, RecoveryKept
<1>5. Here' = Here BY <1>1, <1>2 DEF Here, No, DirStays
<1>6. Starts(Here, current.pos)' = Starts(Here, current.pos)
  BY <1>1, <1>2, <1>5 DEF Starts, Lasts, Size, DirStays
<1>7. CurrentSound'
  BY <1>1, <1>2, <1>5, <1>6 DEF CurrentSound, DirStays
<1>8. ASSUME NEW b, Passed(b) PROVE Passed(b)'
  BY <1>1, <1>2, <1>5, <1>8 DEF Passed, No, DirStays
<1> QED BY <1>3, <1>4, <1>7, <1>8 DEF PlaceSound

\* A header all of which has been read is that of one record.
LEMMA HeaderOfOne ==
  ASSUME Found, rpc = "header", need = 0
  PROVE  \E r \in 1 .. Len(lens) :
           /\ Reads(r) /\ R!Decoded = {lens[r]}
           /\ R!MetaOf(got) = IF Format = "tsrc" THEN <<r>> ELSE <<>>
           /\ consumed = HeaderLen /\ consumed # 0 /\ implied \in {<<>>, <<lens[r]>>}
<1>1. CallTypes /\ CallShape /\ CallSound BY FoundIs
<1>2. Format # "fixed" /\ consumed + need = HeaderLen BY <1>1 DEF CallShape
<1>3. PICK h \in Nat \ {0} : h = HeaderLen BY <1>2, FormatAssumption
<1>4. consumed = h BY <1>1, <1>2, <1>3 DEF CallTypes
<1>5. consumed # 0 BY <1>3, <1>4
<1>6. PICK r \in 1 .. Len(lens) : Reads(r) BY <1>1, <1>5 DEF CallSound, R!Reading
<1>7. got = BytesOf(r, 0, h) /\ implied \in {<<>>, <<lens[r]>>} BY <1>4, <1>6 DEF Reads
<1>8. got[1][1] = r
  <2>1. PICK a, g : a = 0 /\ g = got OBVIOUS
  <2>2. a \in Nat /\ h \in Nat BY <1>3, <2>1
  <2>3. a + h = h /\ 1 \in 1 .. h BY <1>3, <2>1
  <2>4. g = BytesOf(r, a, a + h) BY <1>7, <2>1, <2>3
  <2>5. \A k \in 1 .. h : g[k] = <<r, a + k>>
    <3>1. (a + h) - a = h BY <2>2
    <3> QED BY <2>4, <3>1 DEF BytesOf
  <2> QED BY <2>1, <2>3, <2>5
<1>9. R!BytesOf(r, 0, h) = BytesOf(r, 0, h) BY DEF R!BytesOf, BytesOf
<1>10. R!Decoded = {lens[r]} BY <1>3, <1>6, <1>7, <1>8, <1>9 DEF R!Decoded
<1>11. R!MetaOf(got) = IF Format = "tsrc" THEN <<r>> ELSE <<>>
  BY <1>3, <1>7, <1>8, <1>9 DEF R!MetaOf
<1>12. consumed = HeaderLen BY <1>3, <1>4
<1> QED BY <1>5, <1>6, <1>7, <1>10, <1>11, <1>12

LEMMA HeaderDoneSound ==
  ASSUME Found, R!HeaderDone
  PROVE  ReaderSound'
<1>1. /\ DirStays /\ TellSound /\ CallSound /\ CurrentSound /\ Anchored BY FoundIs
<1>2. rpc = "header" /\ need = 0 BY DEF R!HeaderDone
<1>3. PICK r \in 1 .. Len(lens) :
        /\ Reads(r) /\ R!Decoded = {lens[r]}
        /\ R!MetaOf(got) = IF Format = "tsrc" THEN <<r>> ELSE <<>>
        /\ consumed = HeaderLen /\ consumed # 0 /\ implied \in {<<>>, <<lens[r]>>}
  BY <1>2, HeaderOfOne
<1>4. /\ rpc' = "payload" /\ payloadLen' = lens[r] /\ got' = <<>>
      /\ total' = <<HeaderLen + lens[r]>> /\ lastMeta' = R!MetaOf(got)
      /\ UNCHANGED <<consumed, implied, R!place, results, disk, lens, recovery>>
  BY <1>3 DEF R!HeaderDone
<1>5. PlaceSound' /\ \A b : Passed(b) => Passed(b)' BY <1>4, PlaceKept
<1>6. TellSound' BY <1>1, <1>4, <1>5, TellSame
<1>7. Within(Here, current.pos, r, consumed)'
  <2>1. current' = current BY <1>4 DEF R!place
  <2>2. Here' = Here BY <1>4, <2>1 DEF Here, No
  <2> QED BY <1>1, <1>3, <1>4, <2>1, <2>2 DEF Reads, Within, DirStays
<1>8. got' = BytesOf(r, HeaderLen, HeaderLen + Len(got'))
  <2>1. PICK a, s : a \in Nat /\ a = HeaderLen /\ s = <<>> BY FormatAssumption
  <2>2. s \in Seq(Byte) /\ Len(s) = 0 /\ a \in Nat BY <2>1
  <2>3. Holds(s, r, a) BY <2>2 DEF Holds
  <2>4. s = BytesOf(r, a, a + Len(s)) BY <2>2, <2>3, HoldsBytes
  <2> QED BY <1>4, <2>1, <2>4
<1>9. \A i \in Telling' : Told(i)' < r BY <1>3, <1>4 DEF Reads, Telling, Told
<1>10. Reads(r)' BY <1>3, <1>4, <1>7, <1>8, <1>9 DEF Reads
<1>11. CallSound'
  <2>1. r \in 1 .. Len(lens') /\ consumed' # 0 BY <1>3, <1>4
  <2>2. Format # "fixed" BY <1>3, FormatAssumption
  <2>3. consumed' >= HeaderLen /\ total' = <<HeaderLen + payloadLen'>>
    <3>1. HeaderLen >= HeaderLen BY FormatAssumption
    <3> QED BY <1>3, <1>4, <3>1
  <2>4. Format # "tsrc" => lastMeta' = <<>> BY <1>3, <1>4
  <2> QED BY <1>10, <2>1, <2>2, <2>3, <2>4 DEF CallSound
<1> QED BY <1>5, <1>6, <1>11 DEF ReaderSound

\* A record all of which has been read ends where another begins.
LEMMA RecordEnds ==
  ASSUME Found, rpc \in {"payload", "skip"}, consumed = HeaderLen + payloadLen,
         consumed # 0
  PROVE  /\ Starts(Here, current.pos)
         /\ \E r \in 1 .. Len(lens) : Reads(r) /\ payloadLen = lens[r]
<1>1. /\ SystemInv /\ Known /\ DiskInv /\ CurrentSound /\ CallSound /\ Anchored /\ lens = Written
  BY FoundIs
<1>2. R!Reading BY DEF R!Reading
<1>3. PICK r \in 1 .. Len(lens) : Reads(r) BY <1>1, <1>2 DEF CallSound
<1>4. payloadLen = lens[r] BY <1>3 DEF Reads
<1>5. current # R!NoFile BY <1>1, <1>2 DEF Anchored
<1>6. PICK h, p : h = Here /\ p = current.pos OBVIOUS
<1>7. h \in 1 .. Len(Segments) /\ p \in 0 .. Len(Segments[h].data)
  BY <1>1, <1>5, <1>6, PlaceIs
<1>8. r \in 1 .. Len(Written) BY <1>1, <1>3
<1>9. Size(r) = consumed BY <1>1, <1>4, <1>8, SizeIs
<1>10. Within(h, p, r, Size(r)) BY <1>3, <1>6, <1>9 DEF Reads
<1>11. Starts(h, p) BY <1>1, <1>7, <1>8, <1>10, EndsAtStart
<1> QED BY <1>3, <1>4, <1>6, <1>11

\* What a call tells of a record that it has read to the end is true.
LEMMA EndTold ==
  ASSUME Found, rpc \in {"payload", "skip"}, Starts(Here, current.pos), UNCHANGED R!place,
         recovery' = recovery, lastMeta' = lastMeta,
         NEW x, R!Return(x), x \in Outcome, TellsTruth(x), x.data = got
  PROVE  ReaderSound'
<1>1. /\ DirStays /\ TellSound /\ CallSound /\ CallTypes /\ lens \in Seq(Nat) /\ RestTypes
  BY FoundIs
<1>2. rpc' = "idle" /\ results' = Append(results, x) BY DEF R!Return, R!EndCall
<1>3. PlaceSound' /\ \A b : Passed(b) => Passed(b)' BY PlaceKept
<1>4. ASSUME x.data # <<>>
      PROVE  Passed(x.data[1])' /\ \A i \in Telling : Told(i) < x.data[1][1]
  <2>1. PICK r \in 1 .. Len(lens) : Reads(r) /\ got[1][1] = r BY <1>1, <1>4, GotIs
  <2>2. PICK b : b = got[1] OBVIOUS
  <2>3. Passed(b) /\ \A i \in Telling : Told(i) < r BY <1>4, <2>1, <2>2 DEF Reads
  <2>4. Passed(b)' BY <1>3, <2>3
  <2> QED BY <2>1, <2>2, <2>3, <2>4
<1>5. TellSound'
  <2>1. results \in Seq(Outcome) BY <1>1 DEF RestTypes
  <2> QED BY <1>1, <1>2, <1>3, <1>4, <2>1, TellMore
<1>6. CallSound' BY <1>1, <1>2 DEF CallSound, R!Reading
<1> QED BY <1>3, <1>5, <1>6 DEF ReaderSound

LEMMA SkipDoneSound ==
  ASSUME Found, R!SkipDone
  PROVE  ReaderSound'
<1>1. /\ CallTypes /\ CallShape /\ CallSound /\ RestTypes /\ lens \in Seq(Nat) BY FoundIs
<1>2. /\ rpc = "skip" /\ need = 0 /\ UNCHANGED R!place /\ recovery' = recovery
      /\ lastMeta' = lastMeta
  BY DEF R!SkipDone, R!aside
<1>3. total = <<consumed + need>> /\ total = <<HeaderLen + payloadLen>>
      /\ payloadLen > bufLen
  BY <1>1, <1>2 DEF CallShape, CallSound
<1>4. consumed = HeaderLen + payloadLen /\ consumed # 0
  <2>1. PICK c, h, l : c = consumed /\ h = HeaderLen /\ l = payloadLen OBVIOUS
  <2>2. c \in Nat /\ h \in Nat /\ l \in Nat /\ l # 0
    BY <1>1, <1>3, <2>1, FormatAssumption DEF CallTypes
  <2>3. c + 0 = h + l BY <1>2, <1>3, <2>1
  <2> QED BY <2>1, <2>2, <2>3
<1>5. Starts(Here, current.pos) BY <1>2, <1>4, RecordEnds
<1>6. PICK x, kind, lost :
        x = R!Result(kind, lost, got) /\ kind = "overflow" /\ lost = 0
  OBVIOUS
<1>7. TellsTruth(x)
  <2>1. kind # "record" /\ rpc # "payload" BY <1>2, <1>6
  <2> QED BY <1>1, <1>2, <1>6, <2>1, FrontTells
<1>8. R!Return(x) BY <1>6 DEF R!SkipDone
<1>9. x \in Outcome /\ x.data = got
  <2>1. x \in Outcome BY <1>1, <1>6, ResultIs DEF CallTypes, RestTypes
  <2> QED BY <1>6, <2>1 DEF R!Result
<1> QED BY <1>2, <1>5, <1>7, <1>8, <1>9, EndTold

LEMMA PayloadDoneSound ==
  ASSUME Found, R!PayloadDone
  PROVE  ReaderSound'
<1>1. /\ CallTypes /\ CallShape /\ CallSound /\ RestTypes /\ lens \in Seq(Nat)
      /\ TellSound /\ DirStays
  BY FoundIs
<1>2. /\ rpc = "payload" /\ need = 0 /\ UNCHANGED R!place /\ recovery' = recovery
      /\ lastMeta' = lastMeta /\ lens' = lens /\ disk' = disk
  BY DEF R!PayloadDone, R!aside
<1>3. CASE payloadLen > bufLen
  <2>1. /\ rpc' = "skip"
        /\ UNCHANGED <<bufLen, got, payloadLen, consumed, total, implied, results>>
    BY <1>3 DEF R!PayloadDone, R!cursor
  <2>2. PlaceSound' /\ \A b : Passed(b) => Passed(b)' BY <1>2, <2>1, PlaceKept
  <2>3. TellSound' BY <1>1, <2>1, <2>2, TellSame
  <2>4. current' = current BY <1>2 DEF R!place
  <2>5. Here' = Here BY <1>2, <2>4 DEF Here, No
  <2>6. ASSUME NEW r, Reads(r) PROVE Reads(r)'
    <3>1. Within(Here, current.pos, r, consumed)'
      BY <1>1, <2>1, <2>4, <2>5, <2>6 DEF Reads, Within, DirStays
    <3>2. got' # <<>> => Passed(got[1])'
      <4>1. PICK b : b = got[1] OBVIOUS
      <4>2. got # <<>> => Passed(b)' BY <1>2, <2>2, <2>6, <4>1 DEF Reads
      <4>3. Passed(got[1])' = Passed(b)' BY <2>1, <4>1 DEF Passed
      <4> QED BY <2>1, <4>2, <4>3
    <3>3. \A i \in Telling' : Told(i)' < r BY <2>1, <2>6 DEF Reads, Telling, Told
    <3> QED BY <1>2, <2>1, <2>6, <3>1, <3>2, <3>3 DEF Reads
  <2>7. consumed = 0 => Starts(Here, current.pos)'
    <3>1. consumed = 0 => Starts(Here, current.pos)
      BY <1>1, <1>2 DEF CallSound, R!Reading
    <3> QED BY <1>1, <2>4, <2>5, <3>1 DEF Starts, Lasts, Size, DirStays
  <2>8. CallSound'
    BY <1>1, <1>2, <2>1, <2>6, <2>7 DEF CallSound, R!Reading
  <2> QED BY <2>2, <2>3, <2>8 DEF ReaderSound
<1>4. CASE ~ (payloadLen > bufLen)
  <2>1. PICK x, kind, lost :
          x = R!Result(kind, lost, got) /\ kind = "record" /\ lost = 0
    OBVIOUS
  <2>2. R!Return(x) BY <1>4, <2>1 DEF R!PayloadDone
  <2>3. x \in Outcome /\ x.data = got /\ x.meta = lastMeta /\ x.kind = "record"
    <3>1. x \in Outcome BY <1>1, <2>1, ResultIs DEF CallTypes, RestTypes
    <3> QED BY <2>1, <3>1 DEF R!Result
  <2>4. Len(got) = payloadLen
    <3>1. Len(got) + 0 = Lesser(payloadLen, bufLen) BY <1>1, <1>2 DEF CallShape
    <3>2. Lesser(payloadLen, bufLen) = payloadLen BY <1>1, <1>4 DEF CallTypes, Lesser
    <3> QED BY <1>1, <3>1, <3>2 DEF CallTypes
  <2>5. consumed = HeaderLen + payloadLen BY <1>1, <1>2, <2>4, CallNeeds
  <2>6. consumed # 0
    <3>1. payloadLen \in Nat BY <1>1 DEF CallTypes
    <3>2. Format = "fixed" => payloadLen # 0
      BY <1>1, <1>2, FormatAssumption DEF CallSound
    <3> QED BY <2>5, <3>1, <3>2, FormatAssumption
  <2>7. PICK r \in 1 .. Len(lens) : Reads(r) /\ payloadLen = lens[r]
    BY <1>2, <2>5, <2>6, RecordEnds
  <2>8. Starts(Here, current.pos) BY <1>2, <2>5, <2>6, RecordEnds
  <2>9. TellsTruth(x)
    <3>1. got = BytesOf(r, HeaderLen, HeaderLen + Len(got)) BY <1>2, <2>7 DEF Reads
    <3>2. lastMeta = IF Format = "tsrc" THEN <<r>> ELSE <<>>
      BY <1>1, <1>2, <2>7 DEF Reads, CallSound
    <3>3. lens[r] \in Nat /\ Len(x.data) = lens[r] BY <1>1, <2>3, <2>4, <2>7
    <3>4. Len(x.data) <= lens[r] BY <3>3
    <3>5. Gives(x, r) BY <2>3, <3>1, <3>2, <3>3, <3>4 DEF Gives
    <3> QED BY <2>3, <2>7, <3>5 DEF TellsTruth
  <2> QED BY <1>2, <2>2, <2>3, <2>8, <2>9, EndTold
<1> QED BY <1>3, <1>4

-----------------------------------------------------------------------------
(* A reader of what is true is right.                                      *)

LEMMA ReadsSoundly ==
  ASSUME Found, R!Next
  PROVE  ReaderSound'
<1>1. CASE R!Call
  <2>1. ~ R!AtEof /\ (R!ReadAtEnd \/ \E n \in BufLens : R!Read(n)) BY <1>1 DEF R!Call
  <2>2. CASE R!ReadAtEnd BY <2>2, StepLoses
  <2>3. ASSUME NEW n \in BufLens, R!Read(n) PROVE ReaderSound' BY <2>1, <2>3, ReadSound
  <2> QED BY <2>1, <2>2, <2>3
<1>2. CASE R!FindNone \/ R!CrossNone \/ R!PieceFails BY <1>2, StepLoses
<1>3. ASSUME NEW k \in 0 .. Len(pending) - 1,
             \/ R!FindSessionEnd(k) \/ R!FindDiscards(k) \/ R!FindsStart(k)
             \/ R!FindSeekFails(k)
             \/ R!CrossSessionEnd(k) \/ R!CrossFollows(k) \/ R!CrossRejects(k)
      PROVE  ReaderSound'
  <2>1. CASE R!FindsStart(k) BY <2>1, FindsStartSound
  <2>2. CASE R!CrossFollows(k) BY <2>2, CrossFollowsSound
  <2>3. CASE R!CrossRejects(k) BY <2>3, CrossRejectsSound
  <2>4. CASE \/ R!FindSessionEnd(k) \/ R!FindDiscards(k) \/ R!FindSeekFails(k)
             \/ R!CrossSessionEnd(k)
    BY <2>4, StepLoses
  <2> QED BY <1>3, <2>1, <2>2, <2>3, <2>4
<1>4. CASE R!ReadPiece BY <1>4, PieceSound
<1>5. CASE R!HeaderDone BY <1>5, HeaderDoneSound
<1>6. CASE R!PayloadDone BY <1>6, PayloadDoneSound
<1>7. CASE R!SkipDone BY <1>7, SkipDoneSound
<1> QED BY <1>1, <1>2, <1>3, <1>4, <1>5, <1>6, <1>7 DEF R!Next, R!Step

LEMMA ReaderSoundStep ==
  ASSUME SystemInv, Sources, DiskInv, ReaderSound, SequencesLeft,
         [SystemNext]_sysvars, SystemInv', Sources'
  PROVE  ReaderSound'
<1>1. Known BY SourcesKnown
<1>2. CASE Write
  <2>1. CASE phase = "live" BY <1>1, <1>2, <2>1, ReaderBesideWriter
  <2>2. CASE phase # "live"
    <3>1. phase = "writing" BY <1>2, <2>2 DEF Write
    <3> QED BY <1>2, <3>1, NothingRead
  <2> QED BY <2>1, <2>2
<1>3. CASE StopWriting
  <2>1. CASE phase = "writing" BY <1>3, <2>1, NothingRead
  <2>2. CASE phase # "writing"
    <3>1. disk' = disk /\ lens' = lens /\ UNCHANGED readervars
      BY <1>3, <2>2 DEF StopWriting
    <3>2. DirStays BY <1>3, <3>1, SourceKept DEF DirStays
    <3> QED BY <3>1, <3>2, ReaderStandsStill
  <2> QED BY <2>1, <2>2
<1>4. CASE OpenBesideWriter \/ OpenReader
           \/ \E i \in 1 .. Len(disk) : Damage(i) \/ Corrupt(i)
  BY <1>4, NothingRead
<1>5. CASE ReadOn
  <2>1. R!Next BY <1>5 DEF ReadOn
  <2>2. phase # "writing" BY <1>5 DEF ReadOn
  <2>3. lens = Written BY <2>2 DEF Sources
  <2>4. DirStays BY <1>5, ReaderStays
  <2>5. PlaceTypes' BY DEF SystemInv, ReaderInv
  <2>6. Found BY <1>1, <2>3, <2>4, <2>5 DEF Found
  <2> QED BY <2>1, <2>6, ReadsSoundly
<1>6. CASE UNCHANGED sysvars
  <2>1. disk' = disk /\ lens' = lens /\ UNCHANGED readervars BY <1>6 DEF sysvars, rdvars
  <2>2. DirStays BY <1>6, <2>1, SourceKept DEF DirStays
  <2> QED BY <2>1, <2>2, ReaderStandsStill
<1> QED BY <1>2, <1>3, <1>4, <1>5, <1>6 DEF SystemNext

LEMMA SequencesBefore ==
  ASSUME SystemInv, Sources, [SystemNext]_sysvars, SequencesLeft'
  PROVE  SequencesLeft
<1>1. Known BY SourcesKnown
<1>2. CASE Write
  <2>1. Grow BY <1>2, WriteGrows
  <2> QED BY <1>1, <2>1, SequencesWereLeft
<1>3. CASE ~ Write
  <2>1. Segments' = Segments BY <1>3, SourceKept DEF SystemNext
  <2> QED BY <2>1 DEF SequencesLeft
<1> QED BY <1>2, <1>3

LEMMA SoundStep ==
  SoundInv /\ SystemInv /\ [SystemNext]_sysvars /\ (SystemInv /\ Sources)' => SoundInv'
<1> SUFFICES ASSUME SoundInv, SystemInv, [SystemNext]_sysvars, SystemInv', Sources',
                    MaxCorrupted = 0
             PROVE  DiskInv' /\ (SequencesLeft' => ReaderSound')
  BY DEF SoundInv
<1>1. Sources /\ DiskInv /\ (SequencesLeft => ReaderSound) BY DEF SoundInv
<1>2. DiskInv' BY <1>1, DiskStep
<1>3. ASSUME SequencesLeft' PROVE ReaderSound'
  <2>1. SequencesLeft BY <1>1, <1>3, SequencesBefore
  <2> QED BY <1>1, <2>1, ReaderSoundStep
<1> QED BY <1>2, <1>3

LEMMA SoundInit == SystemInit /\ Sources => SoundInv
<1> SUFFICES ASSUME SystemInit, Sources PROVE DiskInv /\ ReaderSound BY DEF SoundInv
<1>1. /\ disk = <<>> /\ pending = <<>> /\ current = R!NoFile /\ results = <<>>
      /\ recovery = <<>> /\ lastMeta = <<>> /\ rpc = "idle"
  BY DEF SystemInit, R!Init
<1>2. DiskInv
  <2>1. \A k : k \notin 1 .. Len(disk) BY <1>1
  <2> QED BY <2>1 DEF DiskInv, DiskTrue, DiskOrdered
<1>3. PlaceSound BY <1>1, NoneRises DEF PlaceSound, CurrentSound, RecoverySound
<1>4. CallSound BY <1>1 DEF CallSound, R!Reading
<1>5. TellSound
  <2>1. \A i : i \notin 1 .. Len(results) BY <1>1
  <2> QED BY <2>1 DEF TellSound, InOrder, Telling
<1> QED BY <1>2, <1>3, <1>4, <1>5 DEF ReaderSound

\* Where damage only takes things away, the files that a directory still has are what
\* was written of them, in the order of writing; and unless the sequence numbers of a
\* session run out, the reader is where it takes itself to be in them: what it holds
\* of a record it has read of that record, and all that it has told is behind it.
THEOREM SystemSound == SystemSpec => []SoundInv
BY SystemTyped, SourcesHold, SoundInit, SoundStep, PTL DEF SystemSpec

-----------------------------------------------------------------------------
(* What a caller may rely on.                                              *)

\* What a result says it says of one record.
LEMMA TellingIs ==
  ASSUME SystemInv, TellSound, NEW i \in 1 .. Len(results),
         results[i].kind = "record" \/ results[i].data # <<>>
  PROVE  \E r \in 1 .. Len(lens) :
           /\ Gives(results[i], r) /\ lens[r] \in Nat /\ Len(results[i].data) \in Nat
           /\ i \in Telling => Told(i) = r /\ results[i].data # <<>>
           /\ i \notin Telling => lens[r] = 0 \/ results[i].kind # "record"
<1>1. PICK x : x = results[i] OBVIOUS
<1>2. results \in Seq(Outcome) /\ lens \in Seq(Nat)
  BY DEF SystemInv, SystemTypes, ReaderInv, RestTypes
<1>3. x \in Outcome BY <1>1, <1>2
<1>4. x.data \in Seq(Byte) BY <1>3 DEF Outcome
<1>5. PICK r \in 1 .. Len(lens) : Gives(x, r) BY <1>1 DEF TellSound, TellsTruth
<1>6. lens[r] \in Nat /\ Len(x.data) \in Nat BY <1>2, <1>4
<1>7. ASSUME i \in Telling PROVE Told(i) = r /\ x.data # <<>>
  <2>1. x.data # <<>> BY <1>1, <1>7 DEF Telling
  <2>2. PICK a \in Nat : a = HeaderLen BY FormatAssumption
  <2>3. x.data = BytesOf(r, a, a + Len(x.data)) BY <1>5, <2>2 DEF Gives
  <2>4. PICK n, d : n = Len(x.data) /\ d = x.data OBVIOUS
  <2>5. n \in Nat /\ d = BytesOf(r, a, a + n) BY <1>6, <2>3, <2>4
  <2>6. \A k \in 1 .. n : d[k] = <<r, a + k>> BY <2>5, BytesAre
  <2>7. 1 \in 1 .. n BY <1>4, <1>6, <2>1, <2>4
  <2>8. d[1][1] = r BY <2>6, <2>7
  <2> QED BY <1>1, <2>1, <2>4, <2>8 DEF Told
<1>8. ASSUME i \notin Telling, x.kind = "record" PROVE lens[r] = 0
  <2>1. x.data = <<>> BY <1>1, <1>8 DEF Telling
  <2>2. Len(x.data) = lens[r] BY <1>5, <1>8 DEF Gives
  <2> QED BY <2>1, <2>2
<1> QED BY <1>1, <1>5, <1>6, <1>7, <1>8

LEMMA SoundPosition ==
  ASSUME SystemInv, Sources, DiskInv, ReaderSound
  PROVE  PositionSound
<1> SUFFICES ASSUME rpc = "idle", current # R!NoFile
             PROVE  /\ ~ resync
                    /\ LET data == disk[current.file].data IN
                       current.pos = Len(data) \/ data[current.pos + 1][2] = 1
  BY DEF PositionSound
<1>1. ~ resync BY DEF SystemInv, ReaderInv, Anchored
<1>2. PICK h, p, e : h = Here /\ p = current.pos /\ e = disk[current.file].data OBVIOUS
<1>3. Known /\ CurrentSound BY SourcesKnown DEF ReaderSound, PlaceSound
<1>4. /\ h \in 1 .. Len(Segments) /\ current.file \in 1 .. Len(disk) /\ p \in Nat
      /\ h = No(current.file) /\ current.len \in Nat /\ p <= current.len
      /\ current.len <= Len(e)
  BY <1>2, <1>3, PlaceIs
<1>5. Starts(h, p) BY <1>2, <1>3 DEF CurrentSound
<1>6. FrontOf(disk[current.file], Segments[h])
  <2>1. h <= Len(Segments) BY <1>2, <1>3 DEF CurrentSound
  <2> QED BY <1>4, <2>1, DiskHas DEF DiskInv
<1>7. Len(e) \in Nat /\ Len(Segments[h].data) \in Nat
  <2>1. disk[current.file] \in Segment BY <1>4 DEF SystemInv, SystemTypes
  <2>2. e \in Seq(Byte) BY <1>2, <2>1 DEF Segment
  <2> QED BY <1>3, <1>4, <2>2, SegmentIs
<1>8. CASE p # Len(e)
  <2>1. PICK l, m, n : l = current.len /\ m = Len(e) /\ n = Len(Segments[h].data) OBVIOUS
  <2>2. m <= n /\ \A a \in 1 .. m : e[a] = Segments[h].data[a]
    BY <1>2, <1>6, <2>1 DEF FrontOf
  <2>3. l \in Nat /\ p <= l /\ l <= m /\ m \in Nat /\ n \in Nat /\ p \in Nat /\ p # m
    BY <1>4, <1>7, <1>8, <2>1
  <2>4. p < n /\ p + 1 \in 1 .. m BY <2>2, <2>3
  <2>5. PICK r, q : r = Segments[h].data[p + 1][1] /\ q = p + 1 OBVIOUS
  <2>6. Segments[h].data[p + 1] = <<r, 1>> BY <1>3, <1>4, <1>5, <2>1, <2>4, <2>5, Begins
  <2>7. e[q] = <<r, 1>> BY <2>2, <2>4, <2>5, <2>6
  <2> QED BY <1>1, <1>2, <2>5, <2>7
<1> QED BY <1>1, <1>2, <1>8

LEMMA FrontIsPrefix ==
  ASSUME NEW r, NEW a \in Nat, NEW m \in Nat, NEW l \in Nat, m <= l,
         NEW s \in Seq(Byte), NEW t \in Seq(Byte),
         s = BytesOf(r, a, a + m), t = BytesOf(r, a, a + l)
  PROVE  IsPrefix(s, t)
<1>1. Len(s) = m /\ \A k \in 1 .. m : s[k] = <<r, a + k>>
  <2>1. (a + m) - a = m OBVIOUS
  <2>2. s = [k \in 1 .. m |-> <<r, a + k>>] BY <2>1 DEF BytesOf
  <2> QED BY <2>2
<1>2. Len(t) = l /\ \A k \in 1 .. l : t[k] = <<r, a + k>>
  <2>1. (a + l) - a = l OBVIOUS
  <2>2. t = [k \in 1 .. l |-> <<r, a + k>>] BY <2>1 DEF BytesOf
  <2> QED BY <2>2
<1>3. PICK u, v : u = SubSeq(s, 1, m) /\ v = SubSeq(t, 1, m) OBVIOUS
<1>4. u \in Seq(Byte) /\ Len(u) = m /\ \A k \in 1 .. m : u[k] = s[k]
  BY <1>1, <1>3
<1>5. v \in Seq(Byte) /\ Len(v) = m /\ \A k \in 1 .. m : v[k] = t[k]
  BY <1>2, <1>3
<1>6. ASSUME NEW k \in 1 .. m PROVE u[k] = v[k]
  <2>1. k \in 1 .. l OBVIOUS
  <2>2. s[k] = <<r, a + k>> /\ t[k] = <<r, a + k>> BY <1>1, <1>2, <2>1
  <2> QED BY <1>4, <1>5, <2>2
<1>7. u = v BY <1>4, <1>5, <1>6
<1> QED BY <1>1, <1>2, <1>3, <1>7 DEF IsPrefix

LEMMA PayloadIs ==
  ASSUME NEW r \in Nat, lens[r] \in Nat, NEW a, a = HeaderLen, NEW l, l = lens[r]
  PROVE  Payload(r) = BytesOf(r, a, a + l) /\ Payload(r) \in Seq(Byte)
<1>1. a \in Nat /\ l \in Nat /\ (a + l) - a = l BY FormatAssumption
<1>2. Payload(r) = BytesOf(r, a, a + l) BY DEF Payload, TotalLen
<1>3. BytesOf(r, a, a + l) = [k \in 1 .. l |-> <<r, a + k>>] BY <1>1 DEF BytesOf
<1>4. \A k \in 1 .. l : <<r, a + k>> \in Byte BY <1>1 DEF Byte
<1>5. [k \in 1 .. l |-> <<r, a + k>>] \in Seq(Byte) BY <1>1, <1>4
<1> QED BY <1>2, <1>3, <1>5

LEMMA SoundPayload ==
  ASSUME SystemInv, TellSound
  PROVE  NothingInvented
<1> SUFFICES ASSUME NEW i \in 1 .. Len(results)
             PROVE  /\ results[i].kind = "record" =>
                         \E n \in 1 .. Len(lens) : results[i].data = Payload(n)
                    /\ results[i].data # <<>> => IsPrefix(results[i].data, Payload(Told(i)))
  BY DEF NothingInvented
<1> SUFFICES ASSUME results[i].kind = "record" \/ results[i].data # <<>>
             PROVE  /\ results[i].kind = "record" =>
                         \E n \in 1 .. Len(lens) : results[i].data = Payload(n)
                    /\ results[i].data # <<>> => IsPrefix(results[i].data, Payload(Told(i)))
  OBVIOUS
<1>1. PICK r \in 1 .. Len(lens) :
        /\ Gives(results[i], r) /\ lens[r] \in Nat /\ Len(results[i].data) \in Nat
        /\ i \in Telling => Told(i) = r /\ results[i].data # <<>>
  BY TellingIs
<1>2. PICK x, a, l, m :
        /\ x = results[i].data /\ a = HeaderLen /\ l = lens[r] /\ m = Len(x)
  OBVIOUS
<1>3. results \in Seq(Outcome) BY DEF SystemInv, ReaderInv, RestTypes
<1>4. results[i] \in Outcome BY <1>3
<1>5. x \in Seq(Byte) BY <1>2, <1>4 DEF Outcome
<1>6. x = BytesOf(r, a, a + m) /\ m <= l /\ m \in Nat /\ l \in Nat /\ a \in Nat
  BY <1>1, <1>2, FormatAssumption DEF Gives
<1>7. PICK t : t = Payload(r) OBVIOUS
<1>8. t = BytesOf(r, a, a + l) /\ t \in Seq(Byte) BY <1>1, <1>2, <1>7, PayloadIs
<1>9. ASSUME results[i].kind = "record"
      PROVE  \E n \in 1 .. Len(lens) : results[i].data = Payload(n)
  <2>1. m = l BY <1>1, <1>2, <1>9 DEF Gives
  <2>2. x = t BY <1>6, <1>8, <2>1
  <2> QED BY <1>1, <1>2, <1>7, <2>2
<1>10. ASSUME results[i].data # <<>> PROVE IsPrefix(results[i].data, Payload(Told(i)))
  <2>1. Told(i) = r BY <1>1, <1>10 DEF Telling
  <2>2. IsPrefix(x, t) BY <1>5, <1>6, <1>8, FrontIsPrefix
  <2> QED BY <1>2, <1>7, <2>1, <2>2
<1> QED BY <1>9, <1>10

LEMMA SoundMeta ==
  ASSUME SystemInv, TellSound
  PROVE  MetaTold
<1> SUFFICES ASSUME NEW i \in 1 .. Len(results)
             PROVE  IF Format = "tsrc" /\ i \in Telling THEN results[i].meta = <<Told(i)>>
                    ELSE IF Format = "tsrc" /\ results[i].kind = "record"
                    THEN \E n \in 1 .. Len(lens) : lens[n] = 0 /\ results[i].meta = <<n>>
                    ELSE results[i].meta = <<>>
  BY DEF MetaTold
<1>1. CASE results[i].kind = "record" \/ results[i].data # <<>>
  <2>1. PICK r \in 1 .. Len(lens) :
          /\ Gives(results[i], r)
          /\ i \in Telling => Told(i) = r /\ results[i].data # <<>>
          /\ i \notin Telling => lens[r] = 0 \/ results[i].kind # "record"
    BY <1>1, TellingIs
  <2>2. results[i].meta = IF Format = "tsrc" THEN <<r>> ELSE <<>> BY <2>1 DEF Gives
  <2> QED BY <1>1, <2>1, <2>2 DEF Telling
<1>2. CASE ~ (results[i].kind = "record" \/ results[i].data # <<>>)
  <2>1. results[i].meta = <<>> BY <1>2 DEF TellSound, TellsTruth
  <2>2. i \notin Telling BY <1>2 DEF Telling
  <2> QED BY <1>2, <2>1, <2>2
<1> QED BY <1>1, <1>2

\* Sequence numbers may run out only where a session has 2^64 files (SeqId::next stays
\* at u64::MAX): from then on a file's sequence no longer tells which file it follows.
LEMMA SoundReading ==
  SystemInv /\ SoundInv =>
    (MaxCorrupted = 0 /\ SequencesLeft =>
       PositionSound /\ NothingInvented /\ InOrder /\ MetaTold)
<1> SUFFICES ASSUME SystemInv, SoundInv, MaxCorrupted = 0, SequencesLeft
             PROVE  PositionSound /\ NothingInvented /\ InOrder /\ MetaTold
  OBVIOUS
<1>1. Sources /\ DiskInv /\ ReaderSound BY DEF SoundInv
<1>2. TellSound BY <1>1 DEF ReaderSound
<1> QED BY <1>1, <1>2, SoundPosition, SoundPayload, SoundMeta DEF TellSound

\* After every read() of a log from which damage has taken what it liked, the reader is
\* nowhere, which find_record_start asserts before it searches, or where a record begins
\* or the data ends: the next read never takes bytes of a payload for a data header.
THEOREM PositionHolds ==
  SystemSpec => [](MaxCorrupted = 0 /\ SequencesLeft => PositionSound)
<1>1. SystemInv /\ SoundInv => (MaxCorrupted = 0 /\ SequencesLeft => PositionSound)
  BY SoundReading
<1> QED BY <1>1, SystemTyped, SystemSound, PTL

\* However files were lost, cut short or left without a header, and whichever reads
\* failed: what read() hands over as a record is the payload of one that was written,
\* and what it hands over with an error is the front of one; cross() never joins bytes
\* from the two sides of a gap.
THEOREM PayloadsTrue ==
  SystemSpec => [](MaxCorrupted = 0 /\ SequencesLeft => NothingInvented)
<1>1. SystemInv /\ SoundInv => (MaxCorrupted = 0 /\ SequencesLeft => NothingInvented)
  BY SoundReading
<1> QED BY <1>1, SystemTyped, SystemSound, PTL

\* And they come in the order in which they were written, none of them twice, although
\* reject_current hands a file back to be read again.
THEOREM RecordsInOrder ==
  SystemSpec => [](MaxCorrupted = 0 /\ SequencesLeft => InOrder)
<1>1. SystemInv /\ SoundInv => (MaxCorrupted = 0 /\ SequencesLeft => InOrder)
  BY SoundReading
<1> QED BY <1>1, SystemTyped, SystemSound, PTL

\* The time and count that come with a record, or with the front of one, are its own,
\* and with any other result come none: last_meta is never an earlier record's.
THEOREM MetaIsOwn ==
  SystemSpec => [](MaxCorrupted = 0 /\ SequencesLeft => MetaTold)
<1>1. SystemInv /\ SoundInv => (MaxCorrupted = 0 /\ SequencesLeft => MetaTold)
  BY SoundReading
<1> QED BY <1>1, SystemTyped, SystemSound, PTL
=============================================================================
