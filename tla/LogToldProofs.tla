---------------------------- MODULE LogToldProofs ----------------------------
(***************************************************************************)
(* Proofs that what a reader tells is complete: it passes over nothing     *)
(* without a word, tells of each file before its bytes, and by the end has *)
(* told of every record that is left whole.                                *)
(***************************************************************************)
EXTENDS LogReadProofs, WellFoundedInduction

-----------------------------------------------------------------------------
(* What a step of a reader adds to the results.                            *)

\* The result x is told, with what has been read of a record, or with nothing.
Tells(x) ==
  /\ x \in Outcome /\ results' = Append(results, x)
  /\ x.data # <<>> => x.data = got /\ rpc \in {"payload", "skip"}
  /\ x.kind = "record" => R!PayloadDone /\ x.data = got

LEMMA NothingTells ==
  ASSUME SystemInv, NEW lost \in Nat,
         NEW kind \in {"overflow", "truncated", "eof", "end", "error"},
         NEW x, x = R!Result(kind, lost, <<>>), results' = Append(results, x)
  PROVE  Tells(x)
<1>1. lastMeta \in Option(Nat) BY DEF SystemInv, ReaderInv, RestTypes
<1>2. <<>> \in Seq(Byte) OBVIOUS
<1>3. x \in Outcome BY <1>1, <1>2, ResultIs
<1>4. x.data = <<>> /\ x.kind # "record" BY DEF R!Result
<1> QED BY <1>3, <1>4 DEF Tells

LEMMA FrontIsTold ==
  ASSUME SystemInv, NEW lost \in Nat, rpc \in {"payload", "skip"},
         NEW kind \in {"overflow", "truncated"},
         NEW x, x = R!Result(kind, lost, got), results' = Append(results, x)
  PROVE  Tells(x)
<1>1. lastMeta \in Option(Nat) /\ got \in Seq(Byte)
  BY DEF SystemInv, ReaderInv, RestTypes, CallTypes
<1>2. x \in Outcome BY <1>1, ResultIs
<1>3. x.data = got /\ x.kind # "record" BY DEF R!Result
<1> QED BY <1>2, <1>3 DEF Tells

LEMMA FailureTells ==
  ASSUME SystemInv, NEW lost \in Nat, NEW kind \in {"truncated", "eof", "end", "error"},
         \/ R!Fails(R!Result(kind, lost, <<>>)) \/ R!Return(R!Result(kind, lost, <<>>))
         \/ R!Fails(R!Truncated(lost)) \/ R!Return(R!Truncated(lost))
  PROVE  \E x : Tells(x) /\ x.kind # "record"
<1>1. ASSUME NEW x, x = R!Result(kind, lost, <<>>), R!Return(x)
      PROVE  Tells(x) /\ x.kind # "record"
  <2>1. results' = Append(results, x) BY <1>1 DEF R!Return
  <2>2. x.kind # "record" BY <1>1 DEF R!Result
  <2> QED BY <1>1, <2>1, <2>2, NothingTells
<1>2. ASSUME NEW x, x = R!Result("overflow", 0, got), rpc = "skip", R!Return(x)
      PROVE  Tells(x) /\ x.kind # "record"
  <2>1. results' = Append(results, x) BY <1>2 DEF R!Return
  <2>2. x.kind # "record" BY <1>2 DEF R!Result
  <2> QED BY <1>2, <2>1, <2>2, FrontIsTold
<1>3. ASSUME NEW x, x = R!Truncated(lost), R!Return(x)
      PROVE  Tells(x) /\ x.kind # "record"
  <2>1. results' = Append(results, x) BY <1>3 DEF R!Return
  <2>2. x.kind # "record" BY <1>3 DEF R!Result, R!Truncated
  <2>3. CASE rpc \in {"payload", "skip"}
    <3>1. x = R!Result("truncated", lost, got) BY <1>3, <2>3 DEF R!Truncated, R!InBuf
    <3> QED BY <2>1, <2>2, <2>3, <3>1, FrontIsTold
  <2>4. CASE rpc \notin {"payload", "skip"}
    <3>1. x = R!Result("truncated", lost, <<>>) BY <1>3, <2>4 DEF R!Truncated, R!InBuf
    <3> QED BY <2>1, <2>2, <3>1, NothingTells
  <2> QED BY <2>3, <2>4
<1>4. ASSUME NEW y, R!Fails(y)
      PROVE  R!Return(IF rpc = "skip" THEN R!Result("overflow", 0, got) ELSE y)
  BY <1>4 DEF R!Fails
<1>5. ASSUME NEW y, R!Fails(y), rpc = "skip" PROVE \E x : Tells(x) /\ x.kind # "record"
  BY <1>2, <1>4, <1>5
<1>6. ASSUME NEW y, R!Fails(y), rpc # "skip" PROVE R!Return(y) BY <1>4, <1>6
<1> QED BY <1>1, <1>3, <1>5, <1>6

LEMMA StepTells ==
  ASSUME SystemInv, R!Next
  PROVE  \/ results' = results
         \/ R!PayloadDone
         \/ \E x : Tells(x) /\ x.kind # "record"
<1>1. /\ SystemTypes /\ ReaderInv /\ PlaceTypes /\ CallTypes /\ RestTypes /\ Anchored
      /\ Len(pending) \in Nat
  BY DEF SystemInv, ReaderInv, PlaceTypes
<1>2. CASE R!ReadAtEnd BY <1>2, FailureTells DEF R!ReadAtEnd
<1>3. CASE \E n \in BufLens : R!Read(n) BY <1>3 DEF R!Read
<1>4. CASE R!FindNone BY <1>4, FailureTells DEF R!FindNone
<1>5. CASE R!CrossNone BY <1>5, FailureTells DEF R!CrossNone
<1>6. CASE R!ReadPiece BY <1>6 DEF R!ReadPiece
<1>7. CASE R!PieceFails BY <1>7, FailureTells DEF R!PieceFails
<1>8. CASE R!HeaderDone BY <1>8, FailureTells DEF R!HeaderDone
<1>9. CASE R!SkipDone
  <2>1. PICK x : x = R!Result("overflow", 0, got) OBVIOUS
  <2>2. results' = Append(results, x) /\ rpc \in {"payload", "skip"} /\ x.kind # "record"
    BY <1>9, <2>1 DEF R!SkipDone, R!Return, R!Result
  <2> QED BY <2>1, <2>2, FrontIsTold
<1>10. ASSUME NEW k \in 0 .. Len(pending) - 1,
              \/ R!FindSessionEnd(k) \/ R!FindDiscards(k) \/ R!FindsStart(k)
              \/ R!FindSeekFails(k)
              \/ R!CrossSessionEnd(k) \/ R!CrossFollows(k) \/ R!CrossRejects(k)
       PROVE  results' = results \/ \E x : Tells(x) /\ x.kind # "record"
  <2>1. CASE R!FindSessionEnd(k) BY <2>1, FailureTells DEF R!FindSessionEnd
  <2>2. CASE R!FindDiscards(k) BY <2>2 DEF R!FindDiscards
  <2>3. CASE R!FindSeekFails(k) BY <2>3, FailureTells DEF R!FindSeekFails
  <2>4. CASE R!CrossSessionEnd(k) BY <2>4, FailureTells DEF R!CrossSessionEnd
  <2>5. CASE R!CrossFollows(k) BY <2>5 DEF R!CrossFollows
  <2>6. CASE R!CrossRejects(k)
    <3>1. PICK f : f = pending[k + 1] OBVIOUS
    <3>2. R!Fails(R!Truncated(R!LostBetween(f))) BY <2>6, <3>1 DEF R!CrossRejects
    <3>3. R!LostBetween(f) \in Nat
      <4>1. R!Crossing /\ f \in 1 .. Len(disk) /\ prevSeq # <<>>
        <5>1. k + 1 \in 1 .. Len(pending) BY <1>1
        <5> QED BY <1>1, <2>6, <3>1, <5>1
              DEF PlaceTypes, Anchored, R!CrossRejects, R!Crossing
      <4>2. disk[f] \in Segment BY <1>1, <4>1 DEF SystemTypes
      <4> QED BY <1>1, <4>1, <4>2, LostBetweenIs
    <3> QED BY <3>2, <3>3, FailureTells
  <2>7. CASE R!FindsStart(k)
    <3>1. R!LostAhead(k) \in Nat BY <1>1, LostAheadIs
    <3>2. PICK lost \in Nat : lost = R!LostAhead(k) BY <3>1
    <3>3. results' = results \/ R!Return(R!Truncated(lost)) BY <2>7, <3>2 DEF R!FindsStart
    <3> QED BY <3>3, FailureTells
  <2> QED BY <1>10, <2>1, <2>2, <2>3, <2>4, <2>5, <2>6, <2>7
<1> QED BY <1>2, <1>3, <1>4, <1>5, <1>6, <1>7, <1>8, <1>9, <1>10
      DEF R!Next, R!Call, R!Step

LEMMA RecordTells ==
  ASSUME SystemInv, R!PayloadDone, results' # results
  PROVE  \E x : Tells(x) /\ x.kind = "record" /\ Len(got) = payloadLen
<1>1. /\ CallTypes /\ RestTypes /\ CallShape BY DEF SystemInv, ReaderInv
<1>2. /\ rpc = "payload" /\ need = 0 /\ ~ (payloadLen > bufLen)
      /\ R!Return(R!Result("record", 0, got))
  BY DEF R!PayloadDone
<1>3. PICK x, kind, lost : x = R!Result(kind, lost, got) /\ kind = "record" /\ lost = 0
  OBVIOUS
<1>4. x \in Outcome BY <1>1, <1>3, ResultIs DEF CallTypes, RestTypes
<1>5. x.kind = "record" /\ x.data = got BY <1>3 DEF R!Result
<1>6. results' = Append(results, x) BY <1>2, <1>3 DEF R!Return
<1>7. Len(got) = payloadLen
  <2>1. Len(got) + 0 = Lesser(payloadLen, bufLen) BY <1>1, <1>2 DEF CallShape
  <2>2. Lesser(payloadLen, bufLen) = payloadLen BY <1>1, <1>2 DEF CallTypes, Lesser
  <2> QED BY <1>1, <2>1, <2>2 DEF CallTypes
<1> QED BY <1>2, <1>4, <1>5, <1>6, <1>7 DEF Tells

LEMMA TellingAfter ==
  ASSUME results \in Seq(Outcome), NEW x, x \in Outcome, results' = Append(results, x)
  PROVE  /\ Len(results) \in Nat /\ Len(results') = Len(results) + 1
         /\ \A i \in 1 .. Len(results) : results'[i] = results[i]
         /\ results'[Len(results) + 1] = x
         /\ Telling \subseteq 1 .. Len(results)
         /\ \A i \in Telling : i \in Telling' /\ Told(i)' = Told(i)
         /\ \A i \in Telling' : i \in Telling \/ (i = Len(results) + 1 /\ x.data # <<>>)
<1>1. /\ Len(results) \in Nat /\ Len(results') = Len(results) + 1
      /\ \A i \in 1 .. Len(results) : results'[i] = results[i]
      /\ results'[Len(results) + 1] = x
  BY Adds
<1>2. \A i \in 1 .. Len(results') : i \in 1 .. Len(results) \/ i = Len(results) + 1
  BY <1>1
<1>3. \A i \in 1 .. Len(results) : i \in 1 .. Len(results') BY <1>1
<1> QED BY <1>1, <1>2, <1>3 DEF Telling, Told

-----------------------------------------------------------------------------
(* Nothing is passed over without a word.                                  *)

\* After a result that is not a record nothing is claimed.
LEMMA TrackBroken ==
  ASSUME results \in Seq(Outcome), NEW x, x \in Outcome, results' = Append(results, x),
         x.kind # "record"
  PROVE  OnTrack'
<1>1. /\ Len(results) \in Nat /\ Len(results') = Len(results) + 1
      /\ results'[Len(results) + 1] = x
  BY TellingAfter
<1>2. ASSUME NEW i \in Telling', UnbrokenFrom(i)' PROVE FALSE
  <2>1. i \in 1 .. Len(results') BY <1>2 DEF Telling
  <2>2. Len(results) + 1 \in i .. Len(results') BY <1>1, <2>1
  <2> QED BY <1>1, <1>2, <2>2 DEF UnbrokenFrom
<1> QED BY <1>2 DEF OnTrack

\* The reader goes on: what it comes to be behind is of the record it reads.
LEMMA TrackOn ==
  ASSUME OnTrack, Segments' = Segments, Written' = Written, results' = results,
         current # R!NoFile =>
           /\ current' # R!NoFile
           /\ \A x \in 1 .. Len(Segments) : \A a \in 1 .. Len(Segments[x].data) :
                LET r == Segments[x].data[a][1] IN
                PlaceBehind(x, a)' =>
                  \/ PlaceBehind(x, a)
                  \/ R!Reading' /\ consumed' # 0 /\ Within(Here, current.pos, r, consumed)'
           /\ \A r : R!Reading /\ consumed # 0 /\ Within(Here, current.pos, r, consumed) =>
                R!Reading' /\ consumed' # 0 /\ Within(Here, current.pos, r, consumed)'
  PROVE  OnTrack'
<1> SUFFICES ASSUME NEW i \in Telling, UnbrokenFrom(i)'
             PROVE  /\ current' # R!NoFile
                    /\ \A x \in 1 .. Len(Segments) : \A a \in 1 .. Len(Segments[x].data) :
                         LET r == Segments[x].data[a][1] IN
                         PlaceBehind(x, a)' /\ Told(i) < r =>
                           \/ Written[r] = 0
                           \/ /\ R!Reading' /\ consumed' # 0
                              /\ Within(Here, current.pos, r, consumed)'
  BY DEF OnTrack, Telling, Told
<1>1. UnbrokenFrom(i) BY DEF UnbrokenFrom
<1>2. /\ current # R!NoFile
      /\ \A x \in 1 .. Len(Segments) : \A a \in 1 .. Len(Segments[x].data) :
           LET r == Segments[x].data[a][1] IN
           PlaceBehind(x, a) /\ Told(i) < r =>
             \/ Written[r] = 0
             \/ R!Reading /\ consumed # 0 /\ Within(Here, current.pos, r, consumed)
  BY <1>1 DEF OnTrack
<1> QED BY <1>2

\* The place is what it was.
LEMMA TrackStays ==
  ASSUME OnTrack, DirStays, UNCHANGED <<current, consumed, results>>,
         current # R!NoFile /\ R!Reading /\ consumed # 0 => R!Reading'
  PROVE  OnTrack'
<1>1. Here' = Here BY DEF Here, No, DirStays
<1>2. \A x, a : PlaceBehind(x, a)' <=> PlaceBehind(x, a) BY <1>1 DEF PlaceBehind
<1>3. \A r : Within(Here, current.pos, r, consumed)' <=> Within(Here, current.pos, r, consumed)
  BY <1>1 DEF Within, DirStays
<1> QED BY <1>2, <1>3, TrackOn DEF DirStays

\* Byte o of record r is right before position p of file i: what is further back is
\* of no later record.
LEMMA NoneBehind ==
  ASSUME Known, NEW i \in 1 .. Len(Segments), NEW p \in 0 .. Len(Segments[i].data),
         NEW r, NEW o, Within(i, p, r, o),
         NEW x \in 1 .. Len(Segments), NEW a \in 1 .. Len(Segments[x].data),
         x < i \/ (x = i /\ a <= p)
  PROVE  r \in Nat /\ ~ (r < Segments[x].data[a][1])
<1>1. /\ i \in Nat /\ x \in Nat /\ a \in Nat /\ Segments[x].data[a][1] \in Nat
      /\ Segments[x].data[a][2] \in Nat /\ a <= DataLen /\ DataLen \in Nat
  <2>1. PICK b : b = Segments[x].data[a] OBVIOUS
  <2>2. b[1] \in Nat /\ b[2] \in Nat /\ a <= DataLen BY <2>1, ByteIs
  <2> QED BY <2>1, <2>2, SegmentIs
<1>2. PICK y, c :
        /\ y \in 1 .. Len(Segments) /\ c \in 1 .. Len(Segments[y].data)
        /\ Segments[y].data[c] = <<r, o>>
        /\ x < y \/ (x = y /\ a <= c)
  <2>1. CASE p = 0
    <3>1. /\ i - 1 \in 1 .. Len(Segments) /\ DataLen \in 1 .. Len(Segments[i - 1].data)
          /\ Segments[i - 1].data[DataLen] = <<r, o>>
      BY <2>1, TailIs DEF Within
    <3>2. x < i BY <1>1, <2>1
    <3>3. x < i - 1 \/ (x = i - 1 /\ a <= DataLen) BY <1>1, <3>2
    <3> QED BY <3>1, <3>3
  <2>2. CASE p # 0
    <3>1. p \in 1 .. Len(Segments[i].data) BY <2>2, SegmentIs
    <3> QED BY <2>2, <3>1 DEF Within
  <2> QED BY <2>1, <2>2
<1>3. r \in Nat /\ o \in Nat /\ c \in Nat /\ y \in Nat
  <2>1. PICK b : b = Segments[y].data[c] OBVIOUS
  <2>2. b[1] \in Nat /\ b[2] \in Nat /\ c \in Nat BY <1>2, <2>1, ByteIs
  <2>3. b = <<r, o>> BY <1>2, <2>1
  <2> QED BY <1>2, <2>2, <2>3, SegmentIs
<1>4. ASSUME r < Segments[x].data[a][1] PROVE FALSE
  <2>1. CASE x = y /\ a = c BY <1>2, <1>3, <1>4, <2>1
  <2>2. CASE ~ (x = y /\ a = c)
    <3>1. Before(<<x, a>>, <<y, c>>) BY <1>1, <1>2, <1>3, <2>2 DEF Before
    <3>2. Before(Segments[x].data[a], Segments[y].data[c])
      BY <1>2, <3>1 DEF Known, Truth, SegmentsOrdered
    <3>3. PICK b : b = Segments[x].data[a] OBVIOUS
    <3>4. Before(b, <<r, o>>) BY <1>2, <3>2, <3>3
    <3>5. b[1] \in Nat /\ r < b[1] BY <1>1, <1>4, <3>3
    <3> QED BY <1>3, <3>4, <3>5 DEF Before
  <2> QED BY <2>1, <2>2
<1> QED BY <1>3, <1>4

LEMMA SameRecord ==
  ASSUME NEW i, NEW p, NEW r, NEW s, NEW o, Within(i, p, r, o), Within(i, p, s, o)
  PROVE  r = s
<1>1. PICK y, z : Segments[y].data[z] = <<s, o>> /\ Segments[y].data[z] = <<r, o>>
  <2>1. CASE p = 0
    <3>1. PICK y : y = i - 1 OBVIOUS
    <3> QED BY <2>1, <3>1 DEF Within
  <2>2. CASE p # 0 BY <2>2 DEF Within
  <2> QED BY <2>1, <2>2
<1> QED BY <1>1

\* A piece read is of one record, and of the one being read, if any.
LEMMA PieceMoves ==
  ASSUME Found, R!ReadPiece, NEW h, h = Here, NEW p, p = current.pos,
         NEW n, n = R!Piece, NEW c, c = consumed
  PROVE  /\ current # R!NoFile /\ h \in 1 .. Len(Segments)
         /\ p \in Nat /\ n \in Nat \ {0} /\ c \in Nat
         /\ current' # R!NoFile /\ current'.file = current.file /\ current'.pos = p + n
         /\ Here' = h /\ R!Reading' /\ consumed' # 0 /\ results' = results
         /\ \E r : /\ Spans(h, p, n, r, c) /\ Within(Here, current.pos, r, consumed)'
                  /\ \A s : consumed # 0 /\ Within(Here, current.pos, s, consumed) => s = r
<1>1. PICK d : d = Segments[h].data OBVIOUS
<1>2. /\ SystemInv /\ Known /\ DiskInv /\ CurrentSound /\ SystemTypes /\ ReaderInv
      /\ PlaceTypes /\ CallTypes /\ DirStays
  BY FoundIs
<1>3. /\ current # R!NoFile /\ n \in Nat \ {0} /\ c \in Nat
  BY <1>1, <1>2, PieceIs DEF CallTypes
<1>4. h \in 1 .. Len(Segments) /\ p \in Nat BY <1>1, <1>2, <1>3, PlaceIs
<1>5. /\ current' = [current EXCEPT !.pos = p + n] /\ consumed' = c + n
      /\ rpc' = rpc /\ results' = results /\ R!Reading
  BY <1>1 DEF R!ReadPiece
<1>6. current'.pos = p + n /\ current'.file = current.file /\ current' # R!NoFile
  <2>1. current \in [file : 1 .. Len(disk), pos : Nat, len : Nat]
    BY <1>2, <1>3 DEF PlaceTypes
  <2>2. current'.pos = p + n /\ current'.file = current.file BY <1>5, <2>1
  <2>3. p + n # 0 BY <1>3, <1>4
  <2> QED BY <2>2, <2>3 DEF R!NoFile
<1>7. Here' = h BY <1>1, <1>2, <1>6 DEF Here, No, DirStays
<1>8. R!Reading' /\ consumed' # 0
  <2>1. consumed' # 0 BY <1>3, <1>5
  <2> QED BY <1>5, <2>1 DEF R!Reading
<1>9. PICK r :
        /\ Spans(h, p, n, r, c) /\ Within(h, p + n, r, c + n)
        /\ c # 0 => Reads(r)
  BY <1>1, PieceRead
<1>10. Within(Here, current.pos, r, consumed)'
  BY <1>2, <1>5, <1>6, <1>7, <1>9 DEF Within, DirStays
<1>11. ASSUME NEW s, consumed # 0, Within(Here, current.pos, s, consumed) PROVE s = r
  <2>1. Within(h, p, s, c) /\ Within(h, p, r, c) BY <1>1, <1>9, <1>11 DEF Reads
  <2> QED BY <2>1, SameRecord
<1> QED BY <1>3, <1>4, <1>5, <1>6, <1>7, <1>8, <1>9, <1>10, <1>11

LEMMA PieceTrack ==
  ASSUME Found, OnTrack, R!ReadPiece
  PROVE  OnTrack'
<1>1. PICK h, p, n, c : h = Here /\ p = current.pos /\ n = R!Piece /\ c = consumed
  OBVIOUS
<1>2. Known /\ DirStays BY FoundIs
<1>3. /\ current # R!NoFile /\ h \in 1 .. Len(Segments)
      /\ p \in Nat /\ n \in Nat \ {0}
      /\ current' # R!NoFile /\ current'.pos = p + n
      /\ Here' = h /\ R!Reading' /\ consumed' # 0 /\ results' = results
  BY <1>1, PieceMoves
<1>4. PICK r : /\ Spans(h, p, n, r, c) /\ Within(Here, current.pos, r, consumed)'
               /\ \A s : consumed # 0 /\ Within(Here, current.pos, s, consumed) => s = r
  BY <1>1, PieceMoves
<1>5. ASSUME NEW x \in 1 .. Len(Segments), NEW a \in 1 .. Len(Segments[x].data),
              PlaceBehind(x, a)', ~ PlaceBehind(x, a)
       PROVE  Segments[x].data[a][1] = r
  <2>1. /\ x < h \/ (x = h /\ a <= p + n)
        /\ ~ (x < h \/ (x = h /\ a <= p))
    BY <1>1, <1>3, <1>5 DEF PlaceBehind
  <2>2. a \in Nat BY <1>2, ByteIs
  <2>3. PICK k : k = a - p OBVIOUS
  <2>4. x = h /\ k \in 1 .. n /\ a = p + k BY <1>3, <2>1, <2>2, <2>3
  <2>5. Segments[h].data[p + k] = <<r, c + k>> BY <1>4, <2>4 DEF Spans
  <2> QED BY <2>4, <2>5
<1>6. \A x \in 1 .. Len(Segments) : \A a \in 1 .. Len(Segments[x].data) :
         LET s == Segments[x].data[a][1] IN
         PlaceBehind(x, a)' =>
           \/ PlaceBehind(x, a)
           \/ R!Reading' /\ consumed' # 0 /\ Within(Here, current.pos, s, consumed)'
  <2> TAKE x \in 1 .. Len(Segments)
  <2> TAKE a \in 1 .. Len(Segments[x].data)
  <2>1. CASE PlaceBehind(x, a) BY <2>1
  <2>2. CASE PlaceBehind(x, a)' /\ ~ PlaceBehind(x, a)
    <3>1. PICK s : s = Segments[x].data[a][1] OBVIOUS
    <3>2. s = r /\ s = Segments'[x].data[a][1] BY <1>2, <1>5, <2>2, <3>1 DEF DirStays
    <3>3. Within(Here, current.pos, s, consumed)' BY <1>4, <3>2
    <3> QED BY <1>3, <3>1, <3>2, <3>3
  <2> QED BY <2>1, <2>2
<1>7. \A s : R!Reading /\ consumed # 0 /\ Within(Here, current.pos, s, consumed) =>
          R!Reading' /\ consumed' # 0 /\ Within(Here, current.pos, s, consumed)'
  BY <1>3, <1>4
<1> QED BY <1>2, <1>3, <1>6, <1>7, TrackOn DEF DirStays

\* The record being read goes on in the file that follows.
LEMMA CrossGoesOn ==
  ASSUME Found, NEW k \in 0 .. Len(pending) - 1, R!CrossFollows(k),
         consumed # 0, NEW s, Within(Here, current.pos, s, consumed)
  PROVE  R!Reading' /\ consumed' # 0 /\ Within(Here, current.pos, s, consumed)'
<1>1. PICK f, j, i : f = pending[k + 1] /\ j = No(f) /\ i = Here OBVIOUS
<1>2. Known /\ DirStays BY FoundIs
<1>3. /\ i \in 1 .. Len(Segments) /\ j \in 1 .. Len(Segments) /\ j = i + 1
      /\ current # R!NoFile /\ current.pos = DataLen /\ Len(Segments[i].data) = DataLen
      /\ current' # R!NoFile /\ current'.pos = 0 /\ Here' = j
  BY <1>1, FollowsNext
<1>4. R!Reading /\ UNCHANGED <<rpc, consumed, results>>
  BY DEF R!CrossFollows, R!Crossing
<1>5. R!Reading' BY <1>4 DEF R!Reading
<1>6. CallSound' /\ consumed' # 0 BY <1>4, CrossFollowsSound DEF ReaderSound
<1>7. PICK r : Within(Here, current.pos, r, consumed)'
  <2>1. \E r \in 1 .. Len(lens') : Reads(r)' BY <1>5, <1>6 DEF CallSound
  <2> QED BY <2>1 DEF Reads
<1>8. Segments[j].remaining # 0 BY <1>2, <1>3, <1>7 DEF Within, DirStays
<1>9. Segments[i].data[DataLen] = <<s, consumed>>
  <2>1. DataLen # 0 BY FormatAssumption
  <2> QED BY <1>1, <1>3, <2>1 DEF Within
<1>10. j - 1 = i BY <1>2, <1>3, SegmentIs
<1>11. Within(Here, current.pos, s, consumed)'
  BY <1>2, <1>3, <1>4, <1>8, <1>9, <1>10 DEF Within, DirStays
<1> QED BY <1>5, <1>6, <1>11

LEMMA CrossTrack ==
  ASSUME Found, OnTrack, NEW k \in 0 .. Len(pending) - 1, R!CrossFollows(k)
  PROVE  OnTrack'
<1>1. PICK f, j, i : f = pending[k + 1] /\ j = No(f) /\ i = Here OBVIOUS
<1>2. Known /\ DirStays BY FoundIs
<1>3. /\ i \in 1 .. Len(Segments) /\ j \in 1 .. Len(Segments) /\ j = i + 1
      /\ current # R!NoFile /\ current.pos = DataLen /\ Len(Segments[i].data) = DataLen
      /\ current' # R!NoFile /\ current'.pos = 0 /\ Here' = j
  BY <1>1, FollowsNext
<1>4. R!Reading /\ UNCHANGED <<rpc, consumed, results>>
  BY DEF R!CrossFollows, R!Crossing
<1>5. R!Reading' BY <1>4 DEF R!Reading
<1>6. \A x \in 1 .. Len(Segments) : \A a \in 1 .. Len(Segments[x].data) :
        PlaceBehind(x, a)' => PlaceBehind(x, a)
  <2> SUFFICES ASSUME NEW x \in 1 .. Len(Segments), NEW a \in 1 .. Len(Segments[x].data),
                      PlaceBehind(x, a)'
               PROVE  PlaceBehind(x, a)
    OBVIOUS
  <2>1. x < j \/ (x = j /\ a <= 0) BY <1>3 DEF PlaceBehind
  <2>2. x \in Nat /\ i \in Nat /\ a \in Nat \ {0} /\ a <= DataLen
    <3>1. PICK b : b = Segments[x].data[a] OBVIOUS
    <3>2. a \in Nat \ {0} /\ a <= DataLen BY <1>2, <3>1, ByteIs
    <3> QED BY <1>2, <1>3, <3>2, SegmentIs
  <2>3. x < i \/ x = i BY <1>3, <2>1, <2>2
  <2> QED BY <1>1, <1>3, <2>2, <2>3 DEF PlaceBehind
<1>7. ASSUME NEW s, consumed # 0, Within(Here, current.pos, s, consumed)
      PROVE  Within(Here, current.pos, s, consumed)'
  BY <1>7, CrossGoesOn
<1> QED BY <1>2, <1>3, <1>4, <1>5, <1>6, <1>7, TrackOn DEF DirStays

\* A record whose result is told: from it on nothing has been passed over.
LEMMA RecordTrack ==
  ASSUME Found, OnTrack, R!PayloadDone, results' # results
  PROVE  OnTrack'
<1>1. /\ Known /\ SystemInv /\ DiskInv /\ CurrentSound /\ CallSound /\ CallTypes /\ CallShape
      /\ RestTypes /\ DirStays /\ lens = Written /\ lens \in Seq(Nat) /\ Anchored
  BY FoundIs
<1>2. PICK x : Tells(x) /\ x.kind = "record" /\ Len(got) = payloadLen
  BY <1>1, RecordTells
<1>3. results \in Seq(Outcome) /\ x \in Outcome /\ results' = Append(results, x) /\ x.data = got
  BY <1>1, <1>2 DEF Tells, RestTypes
<1>4. /\ Len(results) \in Nat /\ Len(results') = Len(results) + 1
      /\ \A i \in 1 .. Len(results) : results'[i] = results[i]
      /\ results'[Len(results) + 1] = x
      /\ Telling \subseteq 1 .. Len(results)
      /\ \A i \in Telling : i \in Telling' /\ Told(i)' = Told(i)
      /\ \A i \in Telling' : i \in Telling \/ (i = Len(results) + 1 /\ x.data # <<>>)
  BY <1>3, TellingAfter
<1>5. /\ rpc = "payload" /\ need = 0 /\ current' = current
      /\ R!Reading /\ payloadLen <= bufLen
  <2>1. rpc = "payload" /\ need = 0 /\ current' = current /\ ~ (payloadLen > bufLen)
    BY DEF R!PayloadDone, R!place
  <2> QED BY <1>1, <2>1 DEF R!Reading, CallTypes
<1>6. current # R!NoFile /\ current' # R!NoFile /\ Here' = Here
  BY <1>1, <1>5 DEF Anchored, Here, No, DirStays
<1>7. \A y, a : PlaceBehind(y, a)' <=> PlaceBehind(y, a)
  BY <1>5, <1>6 DEF PlaceBehind
<1>8. PICK r \in 1 .. Len(lens) : Reads(r) /\ payloadLen = lens[r]
  <2>1. consumed = HeaderLen + payloadLen BY <1>1, <1>2, <1>5, CallNeeds
  <2>2. consumed # 0
    <3>1. payloadLen \in Nat BY <1>1 DEF CallTypes
    <3>2. Format = "fixed" => payloadLen # 0
      BY <1>1, <1>5, FormatAssumption DEF CallSound
    <3> QED BY <2>1, <3>1, <3>2, FormatAssumption
  <2> QED BY <1>5, <2>1, <2>2, RecordEnds
<1>9. Within(Here, current.pos, r, consumed) BY <1>8 DEF Reads
<1>10. ASSUME NEW i \in Telling', UnbrokenFrom(i)',
              NEW y \in 1 .. Len(Segments), NEW a \in 1 .. Len(Segments[y].data),
              PlaceBehind(y, a), Told(i)' < Segments[y].data[a][1]
       PROVE  Written[Segments[y].data[a][1]] = 0
  <2>1. CASE i = Len(results) + 1
    <3>1. got # <<>> /\ Told(i)' = got[1][1] BY <1>3, <1>4, <1>10, <2>1 DEF Telling, Told
    <3>2. got[1][1] = r
      <4>1. PICK s : Reads(s) /\ got[1][1] = s BY <1>1, <1>5, <3>1, GotIs
      <4> QED BY <1>9, <4>1, SameRecord DEF Reads
    <3>3. Here \in 1 .. Len(Segments) /\ current.pos \in 0 .. Len(Segments[Here].data)
      <4>1. PICK h : h = Here OBVIOUS
      <4> QED BY <1>1, <1>6, <4>1, PlaceIs
    <3>4. ~ (r < Segments[y].data[a][1])
      BY <1>1, <1>9, <1>10, <3>3, NoneBehind DEF PlaceBehind
    <3> QED BY <1>10, <3>1, <3>2, <3>4
  <2>2. CASE i # Len(results) + 1
    <3>1. i \in Telling /\ Told(i)' = Told(i) BY <1>4, <1>10, <2>2
    <3>2. UnbrokenFrom(i)
      <4>1. \A m \in i .. Len(results) : m \in i .. Len(results') /\ m \in 1 .. Len(results)
        BY <1>4, <3>1
      <4> QED BY <1>4, <1>10, <4>1 DEF UnbrokenFrom
    <3>3. \/ Written[Segments[y].data[a][1]] = 0
          \/ /\ consumed # 0
             /\ Within(Here, current.pos, Segments[y].data[a][1], consumed)
      BY <1>10, <3>1, <3>2 DEF OnTrack
    <3>4. x.data = <<>>
      <4>1. Len(results) + 1 \in i .. Len(results') BY <1>4, <3>1
      <4> QED BY <1>4, <1>10, <2>2, <4>1 DEF UnbrokenFrom
    <3>5. lens[r] = 0 BY <1>2, <1>3, <1>8, <3>4
    <3>6. ASSUME NEW s, Within(Here, current.pos, s, consumed) PROVE s = r
      BY <1>9, <3>6, SameRecord
    <3> QED BY <1>1, <3>3, <3>5, <3>6
  <2> QED BY <2>1, <2>2
<1> QED BY <1>1, <1>6, <1>7, <1>10 DEF OnTrack, DirStays

\* What is before a byte that is behind the reader's place is behind it as well.
LEMMA EarlierBehind ==
  ASSUME Known, NEW b, Passed(b), b[1] \in Nat, current # R!NoFile,
         Here \in 1 .. Len(Segments), current.pos \in Nat,
         NEW y \in 1 .. Len(Segments), NEW a \in 1 .. Len(Segments[y].data),
         Segments[y].data[a][1] < b[1]
  PROVE  PlaceBehind(y, a)
<1>1. PICK z \in 1 .. Len(Segments) : \E c \in 1 .. Len(Segments[z].data) :
        Segments[z].data[c] = b /\ (z < Here \/ (z = Here /\ c <= current.pos))
  BY DEF Passed
<1>2. PICK c \in 1 .. Len(Segments[z].data) :
        Segments[z].data[c] = b /\ (z < Here \/ (z = Here /\ c <= current.pos))
  BY <1>1
<1>3. PICK e : e = Segments[y].data[a] OBVIOUS
<1>4. e[1] \in Nat /\ e[1] < b[1] /\ a \in Nat BY <1>3, ByteIs
<1>5. y \in Nat /\ z \in Nat /\ Here \in Nat BY SegmentIs
<1>6. c \in Nat
  <2>1. PICK g : g = Segments[z].data[c] OBVIOUS
  <2> QED BY <2>1, ByteIs
<1>7. ASSUME z < y \/ (z = y /\ c < a) PROVE FALSE
  <2>1. Before(<<z, c>>, <<y, a>>) BY <1>7 DEF Before
  <2>2. Before(b, e) BY <1>2, <1>3, <2>1 DEF Known, Truth, SegmentsOrdered
  <2> QED BY <1>4, <2>2 DEF Before
<1>8. ~ (z = y /\ c = a) BY <1>2, <1>3, <1>4
<1>9. y < z \/ (y = z /\ a < c) BY <1>4, <1>5, <1>6, <1>7, <1>8
<1>10. y < Here \/ (y = Here /\ a <= current.pos) BY <1>2, <1>4, <1>5, <1>6, <1>9
<1> QED BY <1>10 DEF PlaceBehind

\* Where nothing is told nothing has been passed over that had not been.
LEMMA NoneSame ==
  ASSUME NonePassedOver, Segments' = Segments, Written' = Written, results' = results
  PROVE  NonePassedOver'
<1>1. Telling' = Telling /\ \A i : Told(i)' = Told(i) BY DEF Telling, Told
<1> QED BY <1>1 DEF NonePassedOver

LEMMA NoneMore ==
  ASSUME Found, OnTrack, NonePassedOver, NEW x, Tells(x)
  PROVE  NonePassedOver'
<1>1. /\ Known /\ SystemInv /\ DiskInv /\ CurrentSound /\ CallSound /\ CallTypes
      /\ RestTypes /\ DirStays /\ lens = Written /\ lens \in Seq(Nat) /\ Anchored
  BY FoundIs
<1>2. /\ results \in Seq(Outcome) /\ x \in Outcome /\ results' = Append(results, x)
      /\ x.data # <<>> => x.data = got /\ rpc \in {"payload", "skip"}
  BY <1>1 DEF Tells, RestTypes
<1>3. /\ Len(results) \in Nat /\ Len(results') = Len(results) + 1
      /\ \A i \in 1 .. Len(results) : results'[i] = results[i]
      /\ results'[Len(results) + 1] = x
      /\ Telling \subseteq 1 .. Len(results)
      /\ \A i \in Telling : i \in Telling' /\ Told(i)' = Told(i)
      /\ \A i \in Telling' : i \in Telling \/ (i = Len(results) + 1 /\ x.data # <<>>)
  BY <1>2, TellingAfter
<1> SUFFICES ASSUME NEW i \in Telling', NEW j \in Telling', i < j,
                    \A m \in i + 1 .. j - 1 : m \notin Telling',
                    \A m \in i .. j - 1 : results'[m].kind = "record",
                    NEW y \in 1 .. Len(Segments), NEW a \in 1 .. Len(Segments[y].data),
                    NEW r, r = Segments[y].data[a][1], Told(i)' < r, r < Told(j)'
             PROVE  Written[r] = 0
  BY <1>1 DEF NonePassedOver, DirStays
<1>4. i \in Telling /\ Told(i)' = Told(i)
  <2>1. j \in 1 .. Len(results') /\ i \in 1 .. Len(results') BY DEF Telling
  <2>2. i # Len(results) + 1 BY <1>3, <2>1
  <2> QED BY <1>3, <2>2
<1>5. CASE j # Len(results) + 1
  <2>1. j \in Telling /\ Told(j)' = Told(j) BY <1>3, <1>5
  <2>2. \A m \in i + 1 .. j - 1 : m \notin Telling BY <1>3
  <2>3. \A m \in i .. j - 1 : results[m].kind = "record"
    <3>1. \A m \in i .. j - 1 : m \in 1 .. Len(results) BY <1>3, <1>4, <2>1
    <3> QED BY <1>3, <3>1
  <2> QED BY <1>4, <2>1, <2>2, <2>3 DEF NonePassedOver
<1>6. CASE j = Len(results) + 1
  <2>1. x.data # <<>>
    <3>1. j \notin 1 .. Len(results) BY <1>3, <1>6
    <3> QED BY <1>3, <1>6, <3>1
  <2>2. got # <<>> /\ rpc \in {"payload", "skip"} /\ Told(j)' = got[1][1]
    BY <1>2, <1>3, <1>6, <2>1 DEF Told
  <2>3. PICK s \in 1 .. Len(lens) : Reads(s) /\ got[1][1] = s
    BY <1>1, <2>2, GotIs
  <2>4. R!Reading /\ current # R!NoFile
    <3>1. R!Reading BY <2>2 DEF R!Reading
    <3> QED BY <1>1, <3>1 DEF Anchored
  <2>5. UnbrokenFrom(i)
    <3>1. \A m \in i .. Len(results) : m \in i .. j - 1 /\ m \in 1 .. Len(results)
      BY <1>3, <1>4, <1>6
    <3>2. \A m \in i .. Len(results) : m # i => m \in i + 1 .. j - 1
      BY <1>3, <1>4, <1>6
    <3>3. ASSUME NEW m \in i .. Len(results)
          PROVE  results[m].kind = "record" /\ (m # i => results[m].data = <<>>)
      <4>1. results[m].kind = "record" BY <1>3, <3>1
      <4>2. m # i => m \notin Telling BY <1>3, <3>2
      <4> QED BY <3>1, <4>1, <4>2 DEF Telling
    <3> QED BY <3>3 DEF UnbrokenFrom
  <2>6. PlaceBehind(y, a)
    <3>1. PICK b, h : b = got[1] /\ h = Here OBVIOUS
    <3>2. Passed(b) /\ b[1] = s BY <2>2, <2>3, <3>1 DEF Reads
    <3>3. h \in 1 .. Len(Segments) /\ current.pos \in Nat
      BY <1>1, <2>4, <3>1, PlaceIs
    <3>4. r < b[1] /\ b[1] \in Nat BY <1>1, <2>2, <2>3, <3>2
    <3> QED BY <1>1, <2>4, <3>1, <3>2, <3>3, <3>4, EarlierBehind
  <2>7. \/ Written[r] = 0
        \/ consumed # 0 /\ Within(Here, current.pos, r, consumed)
    BY <1>4, <2>5, <2>6 DEF OnTrack
  <2>8. ASSUME Within(Here, current.pos, r, consumed) PROVE FALSE
    <3>1. Within(Here, current.pos, s, consumed) BY <2>3 DEF Reads
    <3>2. r = s BY <2>8, <3>1, SameRecord
    <3> QED BY <1>1, <2>2, <2>3, <3>2
  <2> QED BY <2>7, <2>8
<1> QED BY <1>5, <1>6

\* A step of a reader that is on track leaves it so, and passes over nothing.
LEMMA ReaderTrack ==
  ASSUME Found, OnTrack, NonePassedOver, R!Next
  PROVE  OnTrack' /\ NonePassedOver'
<1>1. /\ SystemInv /\ RestTypes /\ CallTypes /\ DirStays /\ Anchored /\ Len(pending) \in Nat
  BY FoundIs
<1>2. ASSUME NEW x, Tells(x), x.kind # "record" PROVE OnTrack' /\ NonePassedOver'
  <2>1. results \in Seq(Outcome) /\ x \in Outcome /\ results' = Append(results, x)
    BY <1>1, <1>2 DEF Tells, RestTypes
  <2> QED BY <1>2, <2>1, TrackBroken, NoneMore
<1>3. CASE results' # results
  <2>1. CASE R!PayloadDone
    <3>1. OnTrack' BY <1>3, <2>1, RecordTrack
    <3>2. NonePassedOver' BY <1>1, <1>3, <2>1, RecordTells, NoneMore
    <3> QED BY <3>1, <3>2
  <2> QED BY <1>1, <1>2, <1>3, <2>1, StepTells
<1>4. CASE results' = results
  <2>1. NonePassedOver' BY <1>1, <1>4, NoneSame DEF DirStays
  <2>2. \A x : results' # Append(results, x)
    <3> SUFFICES ASSUME NEW x, results' = Append(results, x) PROVE FALSE OBVIOUS
    <3>1. Len(results') = Len(results) + 1 /\ Len(results) \in Nat BY <1>1 DEF RestTypes
    <3> QED BY <1>4, <3>1
  <2>3. \A x : ~ R!Return(x) BY <2>2 DEF R!Return
  <2>4. \A x : ~ R!Fails(x)
    <3> SUFFICES ASSUME NEW x, R!Fails(x) PROVE FALSE OBVIOUS
    <3>1. \E y : R!Return(y) BY DEF R!Fails
    <3> QED BY <2>3, <3>1
  <2>5. ASSUME current = R!NoFile PROVE OnTrack'
    BY <1>1, <1>4, <2>5, TrackOn DEF DirStays
  <2>6. CASE R!Call
    <3>1. PICK n : R!Read(n) BY <2>3, <2>6 DEF R!Call, R!ReadAtEnd
    <3>2. rpc = "idle" /\ current' = current BY <3>1 DEF R!Read, R!place
    <3>3. ~ R!Reading BY <3>2 DEF R!Reading
    <3>4. \A r : ~ (R!Reading /\ consumed # 0 /\ Within(Here, current.pos, r, consumed))
      BY <3>3
    <3>5. Here' = Here BY <1>1, <3>2 DEF Here, No, DirStays
    <3>6. \A x, a : PlaceBehind(x, a)' <=> PlaceBehind(x, a)
      BY <3>2, <3>5 DEF PlaceBehind
    <3> QED BY <1>1, <1>4, <2>1, <3>2, <3>4, <3>6, TrackOn DEF DirStays
  <2>7. CASE R!ReadPiece BY <2>1, <2>7, PieceTrack
  <2>8. CASE R!HeaderDone \/ R!PayloadDone
    <3>1. current' = current /\ consumed' = consumed /\ R!Reading'
      <4>1. CASE R!HeaderDone
        <5>1. rpc' = "payload" /\ consumed' = consumed /\ current' = current
          BY <2>4, <4>1 DEF R!HeaderDone, R!place
        <5> QED BY <5>1 DEF R!Reading
      <4>2. CASE R!PayloadDone
        <5>1. rpc' = "skip" /\ consumed' = consumed /\ current' = current
          BY <2>3, <4>2 DEF R!PayloadDone, R!place, R!cursor
        <5> QED BY <5>1 DEF R!Reading
      <4> QED BY <2>8, <4>1, <4>2
    <3> QED BY <1>1, <1>4, <2>1, <3>1, TrackStays
  <2>9. CASE R!FindNone \/ R!CrossNone \/ R!PieceFails \/ R!SkipDone
    BY <2>3, <2>4, <2>9 DEF R!FindNone, R!CrossNone, R!PieceFails, R!SkipDone
  <2>10. ASSUME NEW k \in 0 .. Len(pending) - 1,
                \/ R!FindSessionEnd(k) \/ R!FindDiscards(k) \/ R!FindsStart(k)
                \/ R!FindSeekFails(k)
                \/ R!CrossSessionEnd(k) \/ R!CrossFollows(k) \/ R!CrossRejects(k)
         PROVE  OnTrack'
    <3>1. CASE R!CrossFollows(k) BY <3>1, CrossTrack
    <3>2. CASE R!FindDiscards(k) \/ R!FindsStart(k)
      <4>1. rpc = "find" BY <3>2 DEF R!FindDiscards, R!FindsStart
      <4> QED BY <1>1, <2>5, <4>1 DEF Anchored
    <3>3. CASE R!FindSessionEnd(k) \/ R!FindSeekFails(k) \/ R!CrossSessionEnd(k)
               \/ R!CrossRejects(k)
      <4>1. FALSE
        BY <2>3, <2>4, <3>3
          DEF R!FindSessionEnd, R!FindSeekFails, R!CrossSessionEnd, R!CrossRejects
      <4> QED BY <4>1
    <3> QED BY <2>10, <3>1, <3>2, <3>3
  <2> QED BY <2>1, <2>6, <2>7, <2>8, <2>9, <2>10 DEF R!Next, R!Step
<1> QED BY <1>3, <1>4

\* What has been written stays where it is.
LEMMA ByteStays ==
  ASSUME Sources, Known, Write, NEW i \in 1 .. Len(Segments),
         NEW a \in 1 .. Len(Segments[i].data)
  PROVE  /\ i \in 1 .. Len(Segments') /\ a \in 1 .. Len(Segments'[i].data)
         /\ Segments'[i].data[a] = Segments[i].data[a]
         /\ Len(Written') \in Nat
<1>1. Grow BY WriteGrows
<1>2. /\ Len(Segments) \in Nat /\ i \in Nat /\ Len(Segments[i].data) \in Nat
      /\ Len(Segments') = Len(Segments) \/ Len(Segments') = Len(Segments) + 1
  BY <1>1, SegmentIs DEF Grow
<1>3. i \in 1 .. Len(Segments') BY <1>2
<1>4. /\ Len(Segments[i].data) <= Len(Segments'[i].data)
      /\ Segments'[i].data[a] = Segments[i].data[a]
  BY <1>1 DEF Grow
<1>5. Writing' BY DEF Write, Writing
<1>6. Inv /\ StorageInv /\ Next BY DEF Sources, WriterInv, Write, Writing
<1>7. Inv' BY <1>6, StepKeeps
<1>8. Len(Segments'[i].data) \in Nat
  <2>1. files' \in Seq(File) BY <1>7 DEF Inv, TypeOK
  <2>2. Segments'[i] = Stored(i, files'[i]) /\ Len(Segments') = Len(files')
    BY <1>3, WriteGrows
  <2>3. files'[i] \in File BY <1>3, <2>1, <2>2
  <2>4. files'[i].data \in Seq(Byte) BY <2>3 DEF File
  <2>5. \A f : Stored(i, f).data = f.data BY DEF Stored
  <2> QED BY <2>2, <2>4, <2>5
<1>9. a \in 1 .. Len(Segments'[i].data)
  <2>1. PICK m, n : m = Len(Segments[i].data) /\ n = Len(Segments'[i].data) OBVIOUS
  <2>2. a \in 1 .. m /\ m <= n /\ m \in Nat /\ n \in Nat BY <1>2, <1>4, <1>8, <2>1
  <2>3. a \in 1 .. n BY <2>2
  <2> QED BY <2>1, <2>3
<1>10. Len(Written') \in Nat
  <2>1. Written' = [r \in 1 .. Len(records') |-> records'[r].len] BY <1>5 DEF Written, Lengths
  <2>2. Len(records') \in Nat BY <1>7 DEF Inv, TypeOK
  <2> QED BY <2>1, <2>2
<1> QED BY <1>3, <1>4, <1>9, <1>10

\* Beside a writer, bytes are added behind all those there are.
LEMMA AddedBehind ==
  ASSUME Sources, Write, NEW x \in 1 .. Len(Segments'),
         NEW a \in 1 .. Len(Segments'[x].data)
  PROVE  /\ x \in Nat /\ a \in Nat \ {0}
         /\ \/ /\ x \in 1 .. Len(Segments) /\ a \in 1 .. Len(Segments[x].data)
               /\ Segments'[x].data[a] = Segments[x].data[a]
            \/ x = Len(Segments) /\ ~ (a <= Len(Segments[x].data))
<1>1. Writing /\ Writing' /\ Next BY DEF Write, Writing
<1>2. Inv /\ StorageInv /\ Inv'
  <2>1. Inv /\ StorageInv BY <1>1 DEF Sources, WriterInv
  <2> QED BY <1>1, <2>1, StepKeeps
<1>3. FilesMoved BY <1>1, <1>2, NextMoves
<1>4. /\ Len(Segments) = Len(files) /\ Len(files) \in Nat
      /\ \A i \in 1 .. Len(files) : Segments[i].data = files[i].data
  <2>1. Len(files) \in Nat BY <1>2 DEF Inv, TypeOK
  <2> QED BY <1>1, <1>2, <2>1, SourceIs
<1>5. /\ Len(Segments') = Len(files') /\ files' \in Seq(File)
      /\ \A i \in 1 .. Len(files') : Segments'[i].data = files'[i].data
  <2>1. \A i, f : Stored(i, f).data = f.data BY DEF Stored
  <2>2. /\ \A i \in 1 .. Len(files') : Segments'[i] = Stored(i, files'[i])
        /\ Len(Segments') = Len(files')
    BY WriteGrows
  <2> QED BY <1>2, <2>1, <2>2 DEF Inv, TypeOK
<1>6. \A i \in 1 .. Len(files) : Len(files[i].data) \in Nat
  BY <1>2, FileData DEF Inv
<1>7. x \in Nat /\ x \in 1 .. Len(files') /\ Segments'[x].data = files'[x].data
      /\ a \in 1 .. Len(files'[x].data)
  BY <1>5
<1>8. Len(files'[x].data) \in Nat /\ a \in Nat \ {0}
  <2>1. files'[x] \in File BY <1>5, <1>7
  <2>2. files'[x].data \in Seq(Byte) BY <2>1 DEF File
  <2>3. Len(files'[x].data) \in Nat BY <2>2
  <2> QED BY <1>7, <2>3
<1>9. ASSUME x \in 1 .. Len(files), files'[x].data = files[x].data
      PROVE  /\ x \in Nat /\ a \in Nat \ {0}
             /\ x \in 1 .. Len(Segments) /\ a \in 1 .. Len(Segments[x].data)
             /\ Segments'[x].data[a] = Segments[x].data[a]
  BY <1>4, <1>7, <1>8, <1>9
<1>10. CASE FilesKept
  <2>1. x \in 1 .. Len(files) /\ files'[x].data = files[x].data
    BY <1>7, <1>10 DEF FilesKept, Touched
  <2> QED BY <1>9, <2>1
<1>11. CASE FileMadeBehind
  <2>1. x = Len(files) + 1 => files'[x].data = <<>> BY <1>11 DEF FileMadeBehind
  <2>2. x # Len(files) + 1 BY <1>7, <2>1
  <2>3. Len(files') = Len(files) + 1 BY <1>11 DEF FileMadeBehind
  <2>4. x \in 1 .. Len(files) BY <1>4, <1>7, <2>2, <2>3
  <2>5. files'[x] = files[x] BY <1>11, <2>4 DEF FileMadeBehind
  <2> QED BY <1>9, <2>4, <2>5
<1>12. CASE CurrentGrows
  <2>1. PICK n \in Nat : cur # 0 /\ PieceAdded(n) BY <1>12 DEF CurrentGrows
  <2>2. /\ cur \in 1 .. Len(files) /\ cur = Len(files) /\ Len(files') = Len(files)
        /\ \A c \in 1 .. Len(files[cur].data) : files'[cur].data[c] = files[cur].data[c]
        /\ \A i \in 1 .. Len(files) : i # cur => files'[i] = files[i]
    BY <1>2, <2>1, PieceData
  <2>3. x \in 1 .. Len(files) BY <1>7, <2>2
  <2>4. CASE x # cur
    <3>1. files'[x].data = files[x].data BY <2>2, <2>3, <2>4
    <3> QED BY <1>9, <2>3, <3>1
  <2>5. CASE x = cur /\ a <= Len(files[x].data)
    <3>1. a \in 1 .. Len(files[x].data) BY <1>6, <1>8, <2>3, <2>5
    <3>2. files'[x].data[a] = files[x].data[a] BY <2>2, <2>5, <3>1
    <3> QED BY <1>4, <1>7, <1>8, <2>3, <3>1, <3>2
  <2>6. CASE x = cur /\ ~ (a <= Len(files[x].data))
    <3>1. x = Len(Segments) /\ ~ (a <= Len(Segments[x].data)) BY <1>4, <2>2, <2>3, <2>6
    <3> QED BY <1>7, <1>8, <3>1
  <2> QED BY <2>4, <2>5, <2>6
<1> QED BY <1>3, <1>10, <1>11, <1>12 DEF FilesMoved

\* A writer beside a reader adds nothing to what the reader has gone past.
LEMMA TrackBesideWriter ==
  ASSUME SystemInv, Sources, Known, DiskInv, ReaderSound, Write, phase = "live", Sources',
         OnTrack, NonePassedOver
  PROVE  OnTrack' /\ NonePassedOver'
<1>1. Grow BY WriteGrows
<1>2. UNCHANGED <<pending, current, rpc, consumed, results>> BY DEF Write, readervars
<1>3. Truth' BY DEF Sources
<1>4. Telling' = Telling /\ \A i : Told(i)' = Told(i) BY <1>2 DEF Telling, Told
<1>5. \A x \in 1 .. Len(Segments) : \A a \in 1 .. Len(Segments[x].data) :
        Written'[Segments[x].data[a][1]] = Written[Segments[x].data[a][1]]
  <2> TAKE x \in 1 .. Len(Segments)
  <2> TAKE a \in 1 .. Len(Segments[x].data)
  <2>1. PICK b : b = Segments[x].data[a] OBVIOUS
  <2>2. b[1] \in 1 .. Len(Written) BY <2>1, ByteIs
  <2> QED BY <1>1, <2>1, <2>2 DEF Grow
<1>6. ASSUME NEW i \in Telling, UnbrokenFrom(i)',
             NEW x \in 1 .. Len(Segments'), NEW a \in 1 .. Len(Segments'[x].data),
             NEW r, r = Segments'[x].data[a][1], PlaceBehind(x, a)', Told(i) < r
      PROVE  \/ Written'[r] = 0
             \/ R!Reading' /\ consumed' # 0 /\ Within(Here, current.pos, r, consumed)'
  <2>1. UnbrokenFrom(i) BY <1>2, <1>6 DEF UnbrokenFrom
  <2>2. current # R!NoFile BY <2>1 DEF OnTrack
  <2>3. PICK h, p : h = Here /\ p = current.pos OBVIOUS
  <2>4. /\ h \in 1 .. Len(Segments) /\ p \in 0 .. Len(Segments[h].data)
        /\ current.file \in 1 .. Len(disk)
    BY <2>2, <2>3, PlaceIs DEF ReaderSound, PlaceSound
  <2>5. Here' = h
    <3>1. PICK k : k = current.file OBVIOUS
    <3>2. No(k)' = No(k) BY <2>4, <3>1, FilesKeepNumbers
    <3> QED BY <1>2, <2>3, <3>1, <3>2 DEF Here, No
  <2>6. x < h \/ (x = h /\ a <= p) BY <1>2, <1>6, <2>3, <2>5 DEF PlaceBehind
  <2>7. x \in 1 .. Len(Segments) /\ a \in 1 .. Len(Segments[x].data)
        /\ r = Segments[x].data[a][1]
    <3>1. ASSUME x = Len(Segments), ~ (a <= Len(Segments[x].data)) PROVE FALSE
      <4>1. Len(Segments[h].data) \in Nat /\ h \in Nat /\ Len(Segments) \in Nat
        BY <2>4, SegmentIs
      <4>2. x = h /\ a <= p BY <2>4, <2>6, <3>1, <4>1
      <4>3. a \in Nat BY AddedBehind
      <4> QED BY <2>4, <3>1, <4>1, <4>2, <4>3
    <3> QED BY <1>6, <3>1, AddedBehind
  <2>8. PlaceBehind(x, a) BY <2>3, <2>6 DEF PlaceBehind
  <2>9. CASE Written[r] = 0 BY <1>5, <2>7, <2>9
  <2>10. CASE R!Reading /\ consumed # 0 /\ Within(Here, current.pos, r, consumed)
    <3>1. PICK o : o = consumed OBVIOUS
    <3>2. Within(h, p, r, o) BY <2>3, <2>10, <3>1
    <3>3. Within(h, p, r, o)' BY <1>1, <2>4, <3>2, GrownPlace
    <3>4. Within(Here, current.pos, r, consumed)'
      BY <1>2, <2>3, <2>5, <3>1, <3>3 DEF Within
    <3> QED BY <1>2, <2>10, <3>4 DEF R!Reading
  <2> QED BY <1>6, <2>1, <2>7, <2>8, <2>9, <2>10 DEF OnTrack
<1>7. OnTrack'
  <2>1. ASSUME NEW i \in Telling', UnbrokenFrom(i)' PROVE current' # R!NoFile
    <3>1. UnbrokenFrom(i) BY <1>2, <2>1 DEF UnbrokenFrom
    <3> QED BY <1>2, <1>4, <2>1, <3>1 DEF OnTrack
  <2> QED BY <1>4, <1>6, <2>1 DEF OnTrack
<1>8. ASSUME NEW i \in Telling, NEW j \in Telling, i < j,
             \A m \in i + 1 .. j - 1 : m \notin Telling,
             \A m \in i .. j - 1 : results[m].kind = "record",
             NEW x \in 1 .. Len(Segments'), NEW a \in 1 .. Len(Segments'[x].data),
             NEW r, r = Segments'[x].data[a][1], Told(i) < r, r < Told(j)
      PROVE  Written'[r] = 0
  <2>1. CASE /\ x \in 1 .. Len(Segments) /\ a \in 1 .. Len(Segments[x].data)
             /\ Segments'[x].data[a] = Segments[x].data[a]
    <3>1. Written[r] = 0 BY <1>8, <2>1 DEF NonePassedOver
    <3> QED BY <1>5, <1>8, <2>1, <3>1
  <2>2. CASE x = Len(Segments) /\ ~ (a <= Len(Segments[x].data))
    <3>1. PICK b : b = results[j].data[1] /\ Passed(b) /\ Told(j) = b[1]
      BY DEF ReaderSound, TellSound, Told
    <3>2. PICK z \in 1 .. Len(Segments) : \E c \in 1 .. Len(Segments[z].data) :
            Segments[z].data[c] = b
      BY <3>1 DEF Passed
    <3>3. PICK c \in 1 .. Len(Segments[z].data) : Segments[z].data[c] = b BY <3>2
    <3>4. /\ z \in Nat /\ Len(Segments) \in Nat /\ c \in Nat
          /\ Len(Segments[z].data) \in Nat
      BY <3>3, SegmentIs
    <3>5. x \in Nat /\ a \in Nat BY AddedBehind
    <3>6. Before(<<z, c>>, <<x, a>>) BY <2>2, <3>3, <3>4, <3>5 DEF Before
    <3>7. /\ z \in 1 .. Len(Segments') /\ c \in 1 .. Len(Segments'[z].data)
          /\ Segments'[z].data[c] = b
      BY <3>3, ByteStays
    <3>8. PICK e : e = Segments'[x].data[a] OBVIOUS
    <3>9. Before(b, e) BY <1>3, <3>6, <3>7, <3>8 DEF Truth, SegmentsOrdered
    <3>10. e[1] \in Nat /\ b[1] \in Nat
      <4>1. /\ x \in 1 .. Len(Segments') /\ a \in 1 .. Len(Segments'[x].data)
            /\ e = Segments'[x].data[a] /\ Len(Written') \in Nat
        BY <3>3, <3>8, ByteStays
      <4>2. e[1] \in 1 .. Len(Written') BY <1>3, <4>1 DEF Truth, SegmentsFlow
      <4>3. e[1] \in Nat BY <4>1, <4>2
      <4>4. b[1] \in Nat BY <3>3, ByteIs
      <4> QED BY <4>3, <4>4
    <3> QED BY <1>8, <3>1, <3>8, <3>9, <3>10 DEF Before
  <2> QED BY <2>1, <2>2, AddedBehind
<1>9. NonePassedOver' BY <1>4, <1>2, <1>8 DEF NonePassedOver
<1> QED BY <1>7, <1>9

\* Before a reader has told of anything nothing is claimed.
LEMMA NothingTold == results = <<>> => OnTrack /\ NonePassedOver
<1> SUFFICES ASSUME results = <<>> PROVE OnTrack /\ NonePassedOver OBVIOUS
<1>1. \A i : i \notin Telling BY DEF Telling
<1> QED BY <1>1 DEF OnTrack, NonePassedOver

LEMMA TrackStep ==
  ASSUME SystemInv, Sources, DiskInv, ReaderSound, SequencesLeft, OnTrack, NonePassedOver,
         [SystemNext]_sysvars, SystemInv', Sources'
  PROVE  OnTrack' /\ NonePassedOver'
<1>1. Known BY SourcesKnown
<1>2. ASSUME phase \in {"writing", "damaging"}, UNCHANGED results
      PROVE  OnTrack' /\ NonePassedOver'
  <2>1. results' = <<>> BY <1>2 DEF SystemInv, Unborn
  <2>2. \A i : i \notin Telling' BY <2>1 DEF Telling
  <2> QED BY <2>2 DEF OnTrack, NonePassedOver
<1>3. ASSUME disk' = disk, lens' = lens, UNCHANGED readervars,
             Segments' = Segments, Written' = Written
      PROVE  OnTrack' /\ NonePassedOver'
  <2>1. DirStays BY <1>3 DEF DirStays
  <2>2. UNCHANGED <<current, consumed, results, rpc>> BY <1>3 DEF readervars
  <2>3. R!Reading => R!Reading' BY <2>2 DEF R!Reading
  <2>4. OnTrack' BY <2>1, <2>2, <2>3, TrackStays
  <2> QED BY <1>3, <2>2, <2>4, NoneSame
<1>4. CASE Write
  <2>1. CASE phase = "live" BY <1>1, <1>4, <2>1, TrackBesideWriter
  <2>2. CASE phase = "writing"
    <3>1. UNCHANGED results BY <1>4 DEF Write, readervars
    <3> QED BY <1>2, <2>2, <3>1
  <2> QED BY <1>4, <2>1, <2>2 DEF Write
<1>5. CASE StopWriting
  <2>1. CASE phase = "writing"
    <3>1. UNCHANGED results BY <1>5 DEF StopWriting, readervars
    <3> QED BY <1>2, <2>1, <3>1
  <2>2. CASE phase = "live"
    <3>1. disk' = disk /\ lens' = lens /\ UNCHANGED readervars
      BY <1>5, <2>2 DEF StopWriting
    <3>2. Segments' = Segments /\ Written' = Written BY <1>5, SourceKept
    <3> QED BY <1>3, <3>1, <3>2
  <2> QED BY <1>5, <2>1, <2>2 DEF StopWriting
<1>6. CASE OpenBesideWriter
  <2>1. phase = "writing" /\ UNCHANGED results BY <1>6 DEF OpenBesideWriter, R!New
  <2> QED BY <1>2, <2>1
<1>7. CASE OpenReader
  <2>1. phase = "damaging" /\ UNCHANGED results BY <1>7 DEF OpenReader, R!New
  <2> QED BY <1>2, <2>1
<1>8. ASSUME NEW i \in 1 .. Len(disk), Damage(i) \/ Corrupt(i)
      PROVE  OnTrack' /\ NonePassedOver'
  <2>1. phase = "damaging" /\ UNCHANGED results
    BY <1>8 DEF Damage, Corrupt, readervars
  <2> QED BY <1>2, <2>1
<1>9. CASE ReadOn
  <2>1. R!Next /\ phase # "writing" BY <1>9 DEF ReadOn
  <2>2. lens = Written BY <2>1 DEF Sources
  <2>3. DirStays BY <1>9, ReaderStays
  <2>4. PlaceTypes' BY DEF SystemInv, ReaderInv
  <2>5. Found BY <1>1, <2>2, <2>3, <2>4 DEF Found
  <2> QED BY <2>1, <2>5, ReaderTrack
<1>10. CASE UNCHANGED sysvars
  <2>1. disk' = disk /\ lens' = lens /\ UNCHANGED readervars
    BY <1>10 DEF sysvars, rdvars
  <2>2. Segments' = Segments /\ Written' = Written BY <1>10, SourceKept
  <2> QED BY <1>3, <2>1, <2>2
<1> QED BY <1>4, <1>5, <1>6, <1>7, <1>8, <1>9, <1>10 DEF SystemNext

LEMMA StoredLast ==
  (Writing => stored = <<>>) /\ [SystemNext]_sysvars => (Writing => stored = <<>>)'
<1> SUFFICES ASSUME Writing => stored = <<>>, [SystemNext]_sysvars, Writing'
             PROVE  stored' = <<>>
  OBVIOUS
<1>1. phase' \in {"writing", "live"} BY DEF Writing
<1>2. ~ StopWriting /\ ~ OpenReader BY <1>1 DEF StopWriting, OpenReader
<1>3. \A i : ~ Damage(i) /\ ~ Corrupt(i) BY <1>1 DEF Damage, Corrupt
<1>4. CASE Write \/ ReadOn \/ UNCHANGED sysvars
  <2>1. phase' = phase /\ stored' = stored BY <1>4 DEF Write, ReadOn, sysvars
  <2> QED BY <1>1, <2>1 DEF Writing
<1>5. CASE OpenBesideWriter
  <2>1. phase = "writing" /\ stored' = stored BY <1>5 DEF OpenBesideWriter
  <2> QED BY <2>1 DEF Writing
<1> QED BY <1>2, <1>3, <1>4, <1>5 DEF SystemNext

LEMMA TrackKept ==
  TrackInv /\ SoundInv /\ SystemInv /\ [SystemNext]_sysvars /\ (SystemInv /\ SoundInv)'
    => TrackInv'
<1> SUFFICES ASSUME TrackInv, SoundInv, SystemInv, [SystemNext]_sysvars, SystemInv', Sources'
             PROVE  TrackInv'
  BY DEF SoundInv
<1>1. (Writing => stored = <<>>)' BY StoredLast DEF TrackInv
<1>2. Sources BY DEF SoundInv
<1>3. ASSUME MaxCorrupted = 0, SequencesLeft' PROVE OnTrack' /\ NonePassedOver'
  <2>1. SequencesLeft BY <1>2, <1>3, SequencesBefore
  <2>2. DiskInv /\ ReaderSound BY <1>3, <2>1 DEF SoundInv
  <2>3. OnTrack /\ NonePassedOver BY <1>3, <2>1 DEF TrackInv
  <2> QED BY <1>2, <2>1, <2>2, <2>3, TrackStep
<1> QED BY <1>1, <1>3 DEF TrackInv

LEMMA TrackInit == SystemInit => TrackInv
<1> SUFFICES ASSUME SystemInit PROVE TrackInv OBVIOUS
<1>1. stored = <<>> /\ results = <<>> BY DEF SystemInit, R!Init
<1> QED BY <1>1, NothingTold DEF TrackInv

LEMMA TrackSilent ==
  SystemInv /\ SoundInv /\ TrackInv =>
    (MaxCorrupted = 0 /\ SequencesLeft => NoSilentGap)
<1> SUFFICES ASSUME SystemInv, SoundInv, TrackInv, MaxCorrupted = 0, SequencesLeft,
                    NEW i \in 1 .. Len(results), NEW j \in 1 .. Len(results), Gap(i, j),
                    \A m \in i .. j - 1 : results[m].kind = "record"
             PROVE  FALSE
  BY DEF NoSilentGap
<1>1. TellSound /\ NonePassedOver BY DEF SoundInv, ReaderSound, TrackInv
<1>2. i < j /\ i \in Telling /\ j \in Telling BY DEF Gap
<1>3. \A m \in i + 1 .. j - 1 : m \notin Telling BY DEF Gap
<1>4. PICK t \in Told(i) + 1 .. Told(j) - 1 : lens[t] > 0 /\ SessionOf(t) # {}
  BY DEF Gap
<1>5. Told(i) \in Nat /\ Told(j) \in Nat
  <2>1. \A k \in Telling : Told(k) \in Nat
    <3> TAKE k \in Telling
    <3>1. k \in 1 .. Len(results) /\ results[k].data # <<>> BY DEF Telling
    <3>2. PICK r \in 1 .. Len(lens) : Told(k) = r BY <1>1, <3>1, TellingIs
    <3> QED BY <3>2
  <2> QED BY <1>2, <2>1
<1>6. Told(i) < t /\ t < Told(j) BY <1>4, <1>5
<1>7. PICK k \in 1 .. Len(stored) : \E n \in 1 .. Len(stored[k].data) :
        stored[k].data[n] = <<t, 1>>
  BY <1>4 DEF SessionOf
<1>8. PICK n \in 1 .. Len(stored[k].data) : stored[k].data[n] = <<t, 1>> BY <1>7
<1>9. CASE Writing
  <2>1. stored = <<>> BY <1>9 DEF TrackInv
  <2> QED BY <1>7, <2>1
<1>10. CASE ~ Writing
  <2>1. Segments = stored /\ Written = lens BY <1>10 DEF Segments, Written
  <2>2. Segments[k].data[n][1] = t BY <1>8, <2>1
  <2>3. Written[t] = 0 BY <1>1, <1>2, <1>3, <1>6, <1>8, <2>1, <2>2 DEF NonePassedOver
  <2> QED BY <1>4, <2>1, <2>3
<1> QED BY <1>9, <1>10

\* No gap is silent: where two results that tell of records have none between them, and
\* a record with a payload was written between the two, some read between them has
\* returned something other than Ok; also by a reader beside a writer.
THEOREM GapsTold ==
  SystemSpec => [](MaxCorrupted = 0 /\ SequencesLeft => NoSilentGap)
BY SystemTyped, SystemSound, TrackInit, TrackKept, TrackSilent, PTL DEF SystemSpec

-----------------------------------------------------------------------------
(* Each file's header is told once, and before its bytes.                  *)

\* Where the headers are what they were, or another is behind them, what has been told
\* of stays told of.
HeadersGrow ==
  \/ headers' = headers
  \/ \E f \in 1 .. Len(disk), n \in Nat : headers' = Append(headers, [file |-> f, read |-> n])

LEMMA HeadersStay ==
  ASSUME PlaceTypes, HeadersGrow
  PROVE  /\ Len(headers) \in Nat
         /\ \A a \in 1 .. Len(headers) :
              headers[a].file \in 1 .. Len(disk) /\ headers[a].read \in Nat
         /\ \A a \in 1 .. Len(headers) : a \in 1 .. Len(headers') /\ headers'[a] = headers[a]
         /\ headers' = headers \/ Len(headers') = Len(headers) + 1
<1>1. headers \in Seq([file : 1 .. Len(disk), read : Nat]) /\ Len(headers) \in Nat
  BY DEF PlaceTypes
<1>3. ASSUME NEW f \in 1 .. Len(disk), NEW n \in Nat,
             headers' = Append(headers, [file |-> f, read |-> n])
      PROVE  /\ \A a \in 1 .. Len(headers) :
                  a \in 1 .. Len(headers') /\ headers'[a] = headers[a]
             /\ Len(headers') = Len(headers) + 1
  <2>1. PICK h : h = [file |-> f, read |-> n] OBVIOUS
  <2>2. h \in [file : 1 .. Len(disk), read : Nat] BY <2>1
  <2>3. /\ Len(headers') = Len(headers) + 1
        /\ \A a \in 1 .. Len(headers) : headers'[a] = headers[a]
    BY <1>1, <1>3, <2>1, <2>2, Adds
  <2>4. \A a \in 1 .. Len(headers) : a \in 1 .. Len(headers') BY <1>1, <2>3
  <2> QED BY <2>3, <2>4
<1>4. ASSUME NEW a \in 1 .. Len(headers)
      PROVE  headers[a].file \in 1 .. Len(disk) /\ headers[a].read \in Nat
  <2>1. PICK S : S = [file : 1 .. Len(disk), read : Nat] OBVIOUS
  <2>2. headers \in Seq(S) BY <1>1, <2>1
  <2>3. headers[a] \in S BY <1>4, <2>2
  <2> QED BY <2>1, <2>3
<1> QED BY <1>1, <1>3, <1>4 DEF HeadersGrow

\* The header of file f is among those told once the step is taken.
Named(f, n) ==
  \E a \in 1 .. Len(headers') : headers'[a].file = f /\ headers'[a].read <= n

HeadersRise == \A a, b \in 1 .. Len(headers') : a < b => headers'[a].file < headers'[b].file

LEMMA HeaderStays ==
  ASSUME PlaceTypes, HeadersGrow, NEW f, NEW n, HeaderOf(f, n)
  PROVE  Named(f, n)
BY HeadersStay DEF HeaderOf, Named

LEMMA FromStays ==
  ASSUME PlaceTypes, HeadersGrow, disk' = disk, NEW b, NEW n \in Nat, NEW m \in Nat, n <= m,
         From(b, n)
  PROVE  From(b, m)'
<1>1. PICK a \in 1 .. Len(headers) :
        /\ headers[a].read <= n
        /\ \E c \in 1 .. Len(disk[headers[a].file].data) :
             disk[headers[a].file].data[c] = b
  BY DEF From
<1>2. /\ a \in 1 .. Len(headers') /\ headers'[a] = headers[a]
      /\ headers[a].read \in Nat
  BY HeadersStay
<1>3. headers'[a].read <= m BY <1>1, <1>2
<1> QED BY <1>1, <1>2, <1>3 DEF From

\* A byte of a file whose header has been told.
LEMMA FromFile ==
  ASSUME NEW f, NEW n, HeaderOf(f, n), NEW c \in 1 .. Len(disk[f].data),
         NEW b, b = disk[f].data[c]
  PROVE  From(b, n)
BY DEF HeaderOf, From

\* What a result tells it tells of a file whose header has been told.
LEMMA ListedStays ==
  ASSUME SystemInv, HeadersSound, disk' = disk, HeadersGrow,
         results' = results \/ \E x : Tells(x),
         HeadersRise
  PROVE  /\ HeadersListed'
         /\ Len(results) \in Nat /\ Len(results') \in Nat /\ Len(results) <= Len(results')
<1>1. PlaceTypes /\ results \in Seq(Outcome) /\ Len(results) \in Nat
  BY DEF SystemInv, ReaderInv, RestTypes
<1>2. \A i \in Telling : From(results[i].data[1], i) /\ i \in Nat
  BY DEF HeadersSound, HeadersListed, From, Telling
<1>3. CASE results' = results
  <2>1. \A i \in Telling : From(results[i].data[1], i)'
    <3> SUFFICES ASSUME NEW i \in Telling PROVE From(results[i].data[1], i)' OBVIOUS
    <3>1. PICK b : b = results[i].data[1] OBVIOUS
    <3>2. From(b, i) /\ i \in Nat /\ i <= i BY <1>2, <3>1
    <3>3. From(b, i)' BY <1>1, <3>2, FromStays
    <3>4. results'[i].data[1] = b BY <1>3, <3>1
    <3> QED BY <3>3, <3>4 DEF From
  <2>2. Telling' = Telling BY <1>3 DEF Telling
  <2> QED BY <1>1, <1>3, <2>1, <2>2 DEF HeadersListed, HeadersRise, From
<1>4. ASSUME NEW x, Tells(x)
      PROVE  HeadersListed' /\ Len(results') = Len(results) + 1
  <2>1. x \in Outcome /\ results' = Append(results, x) BY <1>4 DEF Tells
  <2>2. /\ Len(results') = Len(results) + 1
        /\ \A i \in 1 .. Len(results) : results'[i] = results[i]
        /\ results'[Len(results) + 1] = x
        /\ Telling \subseteq 1 .. Len(results)
        /\ \A i \in Telling' : i \in Telling \/ (i = Len(results) + 1 /\ x.data # <<>>)
    BY <1>1, <2>1, TellingAfter
  <2>3. \A i \in Telling' : From(results[i].data[1], i)'
    <3> SUFFICES ASSUME NEW i \in Telling' PROVE From(results[i].data[1], i)' OBVIOUS
    <3>1. CASE i \in Telling
      <4>1. PICK b : b = results[i].data[1] OBVIOUS
      <4>2. From(b, i) /\ i \in Nat /\ i <= i BY <1>2, <3>1, <4>1
      <4>3. From(b, i)' BY <1>1, <4>2, FromStays
      <4>4. results'[i].data[1] = b BY <2>2, <3>1, <4>1
      <4> QED BY <4>3, <4>4 DEF From
    <3>2. CASE i = Len(results) + 1 /\ x.data # <<>>
      <4>1. x.data = got /\ rpc \in {"payload", "skip"} BY <1>4, <3>2 DEF Tells
      <4>2. PICK b, n : b = got[1] /\ n = Len(results) + 1 OBVIOUS
      <4>3. From(b, n) BY <3>2, <4>1, <4>2 DEF HeadersSound, HeadersOpen
      <4>4. n \in Nat /\ n <= n BY <1>1, <4>2
      <4>5. From(b, n)' BY <1>1, <4>3, <4>4, FromStays
      <4>6. results'[i].data[1] = b BY <2>2, <3>2, <4>1, <4>2
      <4> QED BY <3>2, <4>2, <4>5, <4>6 DEF From
    <3> QED BY <2>2, <3>1, <3>2
  <2> QED BY <2>2, <2>3 DEF HeadersListed, HeadersRise, From
<1> QED BY <1>1, <1>3, <1>4

\* What a step has to show of the headers.
LEMMA HeadersCarried ==
  ASSUME SystemInv, HeadersSound, PlaceTypes', disk' = disk, HeadersGrow, HeadersRise,
         results' = results \/ \E x : Tells(x),
         NEW n, n = Len(results) + 1,
         \A a \in 1 .. Len(headers') : headers'[a].read <= n,
         PendingRises', HeadersBefore',
         current' # R!NoFile =>
           /\ Named(current'.file, n)
           /\ \A a \in 1 .. Len(headers') : headers'[a].file <= current'.file
           /\ \A p \in 1 .. Len(pending') : current'.file < pending'[p],
         reopened' # <<>> => Named(reopened'[1], n),
         rpc' \in {"payload", "skip"} /\ got' # <<>> => From(got'[1], n)
  PROVE  HeadersSound'
<1>1. PlaceTypes BY DEF SystemInv, ReaderInv
<1>2. /\ HeadersListed'
      /\ Len(results) \in Nat /\ Len(results') \in Nat /\ Len(results) <= Len(results')
  BY ListedStays
<1>3. PICK m \in Nat : m = Len(results') + 1 BY <1>2
<1>4. n \in Nat /\ n <= m BY <1>2, <1>3
<1>5. \A a \in 1 .. Len(headers') : headers'[a].read \in Nat
  <2> SUFFICES ASSUME NEW a \in 1 .. Len(headers') PROVE headers'[a].read \in Nat OBVIOUS
  <2>1. PICK S : S = [file : 1 .. Len(disk'), read : Nat] OBVIOUS
  <2>2. headers' \in Seq(S) BY <2>1 DEF PlaceTypes
  <2>3. headers'[a] \in S BY <2>2
  <2> QED BY <2>1, <2>3
<1>6. \A a \in 1 .. Len(headers') : headers'[a].read <= m BY <1>3, <1>4, <1>5
<1>7. \A f : Named(f, n) => Named(f, m) BY <1>6 DEF Named
<1>8. HeadersOpen'
  <2>1. current' # R!NoFile => Named(current'.file, m) BY <1>7
  <2>2. reopened' # <<>> => Named(reopened'[1], m) BY <1>7
  <2>3. ASSUME rpc' \in {"payload", "skip"}, got' # <<>>
        PROVE  \E b : b = got'[1] /\ From(b, m)'
    <3>1. PICK b : b = got'[1] OBVIOUS
    <3>2. From(b, n) BY <2>3, <3>1
    <3>3. From(b, m)' BY <1>1, <1>3, <1>4, <3>2, FromStays
    <3> QED BY <3>1, <3>3
  <2> QED BY <1>3, <1>6, <2>1, <2>2, <2>3 DEF HeadersOpen, HeaderOf, Named, From
<1> QED BY <1>2, <1>8 DEF HeadersSound

\* A step that opens no file.
LEMMA QuietHeaders ==
  ASSUME SystemInv, HeadersSound, PlaceTypes', disk' = disk,
         headers' = headers, reopened' = reopened,
         FromPending, PendingRises',
         current' # R!NoFile => current # R!NoFile /\ current'.file = current.file,
         results' = results \/ \E x : Tells(x),
         rpc' \in {"payload", "skip"} /\ got' # <<>> => From(got'[1], Len(results) + 1)
  PROVE  HeadersSound'
<1>1. PlaceTypes BY DEF SystemInv, ReaderInv
<1>2. HeadersGrow BY DEF HeadersGrow
<1>3. HeadersRise BY DEF HeadersSound, HeadersListed, HeadersRise
<1>4. PICK n : n = Len(results) + 1 OBVIOUS
<1>5. HeadersBefore'
  <2> SUFFICES ASSUME NEW a \in 1 .. Len(headers), NEW p \in 1 .. Len(pending')
               PROVE  /\ headers[a].file <= pending'[p]
                      /\ headers[a].file = pending'[p] => reopened = <<pending'[p]>>
    BY DEF HeadersBefore
  <2>1. PICK q \in 1 .. Len(pending) : pending'[p] = pending[q] BY DEF FromPending
  <2> QED BY <2>1 DEF HeadersSound, HeadersBefore
<1>6. ASSUME current' # R!NoFile
      PROVE  /\ Named(current'.file, n)
             /\ \A a \in 1 .. Len(headers') : headers'[a].file <= current'.file
             /\ \A p \in 1 .. Len(pending') : current'.file < pending'[p]
  <2>1. PICK f : f = current.file /\ f = current'.file BY <1>6
  <2>2. /\ HeaderOf(f, n)
        /\ \A a \in 1 .. Len(headers) : headers[a].file <= f
        /\ \A p \in 1 .. Len(pending) : f < pending[p]
    BY <1>4, <1>6, <2>1 DEF HeadersSound, HeadersOpen
  <2>3. Named(f, n) BY <1>1, <1>2, <2>2, HeaderStays
  <2>4. \A p \in 1 .. Len(pending') : f < pending'[p] BY <2>2 DEF FromPending
  <2> QED BY <2>1, <2>2, <2>3, <2>4
<1>7. ASSUME reopened' # <<>> PROVE Named(reopened'[1], n)
  <2>1. PICK f : f = reopened[1] OBVIOUS
  <2>2. HeaderOf(f, n) BY <1>4, <1>7, <2>1 DEF HeadersSound, HeadersOpen
  <2> QED BY <1>1, <1>2, <2>1, <2>2, HeaderStays
<1>8. \A a \in 1 .. Len(headers') : headers'[a].read <= n
  BY <1>4 DEF HeadersSound, HeadersOpen
<1> QED BY <1>2, <1>3, <1>4, <1>5, <1>6, <1>7, <1>8, HeadersCarried

\* The header of a file that is opened for the first time is told behind all others.
LEMMA HeaderAdded ==
  ASSUME PlaceTypes, NEW f \in 1 .. Len(disk), NEW n \in Nat,
         \A a \in 1 .. Len(headers) : headers[a].file < f /\ headers[a].read <= n,
         \A a, b \in 1 .. Len(headers) : a < b => headers[a].file < headers[b].file,
         headers' = Append(headers, [file |-> f, read |-> n])
  PROVE  /\ HeadersGrow /\ HeadersRise /\ Named(f, n)
         /\ \A a \in 1 .. Len(headers') : headers'[a].file <= f /\ headers'[a].read <= n
<1>1. PICK S : S = [file : 1 .. Len(disk), read : Nat] OBVIOUS
<1>2. PICK h \in S : h.file = f /\ h.read = n /\ headers' = Append(headers, h)
  <2>1. PICK h : h = [file |-> f, read |-> n] OBVIOUS
  <2>2. h \in S /\ h.file = f /\ h.read = n BY <1>1, <2>1
  <2> QED BY <2>1, <2>2
<1>3. headers \in Seq(S) BY <1>1 DEF PlaceTypes
<1>4. /\ Len(headers') = Len(headers) + 1 /\ Len(headers) \in Nat
      /\ \A a \in 1 .. Len(headers) : headers'[a] = headers[a]
      /\ headers'[Len(headers) + 1] = h
  BY <1>2, <1>3, Adds
<1>5. \A a \in 1 .. Len(headers') : a \in 1 .. Len(headers) \/ a = Len(headers) + 1
  BY <1>4
<1>6. Len(headers) + 1 \in 1 .. Len(headers') BY <1>4
<1>7. HeadersGrow BY DEF HeadersGrow
<1>8. Named(f, n) BY <1>2, <1>4, <1>6 DEF Named
<1>9. \A a \in 1 .. Len(headers) : headers[a].file \in Nat
  <2> SUFFICES ASSUME NEW a \in 1 .. Len(headers) PROVE headers[a].file \in Nat OBVIOUS
  <2>1. headers[a].file \in 1 .. Len(disk) BY <1>7, HeadersStay
  <2> QED BY <2>1
<1>10. ASSUME NEW a \in 1 .. Len(headers')
       PROVE  headers'[a].file <= f /\ headers'[a].read <= n
  <2>1. CASE a \in 1 .. Len(headers) BY <1>4, <1>9, <2>1
  <2>2. CASE a = Len(headers) + 1 BY <1>2, <1>4, <2>2
  <2> QED BY <1>5, <2>1, <2>2
<1>11. HeadersRise
  <2> SUFFICES ASSUME NEW a \in 1 .. Len(headers'), NEW b \in 1 .. Len(headers'), a < b
               PROVE  headers'[a].file < headers'[b].file
    BY DEF HeadersRise
  <2>1. a \in 1 .. Len(headers) BY <1>4
  <2>2. CASE b \in 1 .. Len(headers) BY <1>4, <2>1, <2>2
  <2>3. CASE b = Len(headers) + 1 BY <1>2, <1>4, <2>1, <2>3
  <2> QED BY <1>5, <2>2, <2>3
<1> QED BY <1>7, <1>8, <1>10, <1>11

\* A file opens: no header of it has been told, or it had been handed back.
LEMMA OpenedHeaders ==
  ASSUME SystemInv, HeadersSound, PlaceTypes', disk' = disk,
         NEW k \in 0 .. Len(pending) - 1, NEW handBack \in BOOLEAN, NEW more,
         R!Opens(k, handBack, more),
         current' # R!NoFile => ~ handBack /\ current'.file = pending[k + 1],
         results' = results \/ \E x : Tells(x),
         rpc' \in {"payload", "skip"} /\ got' # <<>> => From(got'[1], Len(results) + 1)
  PROVE  HeadersSound'
<1>1. /\ PlaceTypes /\ Len(pending) \in Nat /\ Len(results) \in Nat
      /\ \A p \in 1 .. Len(pending) : pending[p] \in 1 .. Len(disk) /\ pending[p] \in Nat
  BY DEF SystemInv, ReaderInv, PlaceTypes, RestTypes
<1>2. k + 1 \in 1 .. Len(pending) BY <1>1
<1>3. PICK f \in 1 .. Len(disk) : f = pending[k + 1] /\ f \in Nat BY <1>1, <1>2
<1>4. PICK n \in Nat : n = Len(results) + 1 BY <1>1
<1>5. FromPending /\ PendingRises' BY <1>1, PendingOpened DEF HeadersSound
<1>6. \A p \in 1 .. Len(pending') : f <= pending'[p] /\ (~ handBack => f < pending'[p])
  <2>1. CASE handBack
    <3>1. pending' = R!Behind(k) /\ k \in 0 .. Len(pending) BY <1>1, <2>1 DEF R!Opens
    <3>2. /\ Len(pending') = Len(pending) - k
          /\ \A p \in 1 .. Len(pending) - k : pending'[p] = pending[k + p]
      BY <1>1, <3>1, BehindIs
    <3> SUFFICES ASSUME NEW p \in 1 .. Len(pending') PROVE f <= pending'[p] BY <2>1
    <3>3. pending'[p] = pending[k + p] /\ k + p \in 1 .. Len(pending) /\ k + 1 <= k + p
      BY <1>1, <3>2
    <3>4. k + 1 = k + p \/ k + 1 < k + p BY <3>3
    <3> QED BY <1>1, <1>2, <1>3, <3>3, <3>4 DEF HeadersSound, PendingRises
  <2>2. CASE ~ handBack
    <3>1. pending' = R!Behind(k + 1) /\ k + 1 \in 0 .. Len(pending)
      BY <1>1, <2>2 DEF R!Opens
    <3>2. k + 1 # 0 BY <1>2
    <3>3. \A p \in 1 .. Len(pending') : f < pending'[p]
      BY <1>1, <1>3, <3>1, <3>2, PendingBehind DEF HeadersSound
    <3>4. \A p \in 1 .. Len(pending') : pending'[p] \in Nat BY <1>1, <1>5 DEF FromPending
    <3> QED BY <1>3, <3>3, <3>4
  <2> QED BY <2>1, <2>2
<1>7. \A a \in 1 .. Len(headers) :
        /\ headers[a].file <= f /\ (headers[a].file = f => reopened = <<f>>)
        /\ headers[a].file \in Nat /\ headers[a].read <= n
  <2> SUFFICES ASSUME NEW a \in 1 .. Len(headers)
               PROVE  /\ headers[a].file <= f /\ (headers[a].file = f => reopened = <<f>>)
                      /\ headers[a].file \in Nat /\ headers[a].read <= n
    OBVIOUS
  <2>1. headers[a].file <= f /\ (headers[a].file = f => reopened = <<f>>)
    BY <1>2, <1>3 DEF HeadersSound, HeadersBefore
  <2>2. headers[a].read <= n BY <1>4 DEF HeadersSound, HeadersOpen
  <2>3. PICK S : S = [file : 1 .. Len(disk), read : Nat] OBVIOUS
  <2>4. headers \in Seq(S) BY <1>1, <2>3 DEF PlaceTypes
  <2>5. headers[a] \in S BY <2>4
  <2>6. headers[a].file \in 1 .. Len(disk) BY <2>3, <2>5
  <2> QED BY <2>1, <2>2, <2>6
<1>8. \A a, b \in 1 .. Len(headers) : a < b => headers[a].file < headers[b].file
  BY DEF HeadersSound, HeadersListed
<1>9. /\ HeadersGrow /\ HeadersRise /\ Named(f, n)
      /\ \A a \in 1 .. Len(headers') : headers'[a].file <= f /\ headers'[a].read <= n
  <2>1. CASE reopened = <<f>>
    <3>1. headers' = headers BY <1>3, <2>1 DEF R!Opens, R!Again
    <3>2. HeadersGrow BY <3>1 DEF HeadersGrow
    <3>3. HeaderOf(f, n)
      <4>1. reopened # <<>> /\ reopened[1] = f BY <2>1
      <4> QED BY <1>4, <4>1 DEF HeadersSound, HeadersOpen
    <3>4. Named(f, n) BY <1>1, <3>2, <3>3, HeaderStays
    <3> QED BY <1>7, <1>8, <3>1, <3>2, <3>4 DEF HeadersRise
  <2>2. CASE reopened # <<f>>
    <3>1. headers' = Append(headers, [file |-> f, read |-> n])
      BY <1>3, <1>4, <2>2 DEF R!Opens, R!Again
    <3>2. \A a \in 1 .. Len(headers) : headers[a].file < f /\ headers[a].read <= n
      BY <1>3, <1>7, <2>2
    <3> QED BY <1>1, <1>8, <3>1, <3>2, HeaderAdded
  <2> QED BY <2>1, <2>2
<1>10. reopened' = IF handBack THEN <<f>> ELSE IF reopened = <<f>> THEN <<>> ELSE reopened
  BY <1>3 DEF R!Opens, R!Again
<1>11. \A a \in 1 .. Len(headers') : headers'[a].file \in Nat
  <2> SUFFICES ASSUME NEW a \in 1 .. Len(headers') PROVE headers'[a].file \in Nat OBVIOUS
  <2>1. PICK S : S = [file : 1 .. Len(disk'), read : Nat] OBVIOUS
  <2>2. headers' \in Seq(S) BY <2>1 DEF PlaceTypes
  <2>3. headers'[a] \in S BY <2>2
  <2>4. headers'[a].file \in 1 .. Len(disk') BY <2>1, <2>3
  <2> QED BY <2>4
<1>12. HeadersBefore'
  <2> SUFFICES ASSUME NEW a \in 1 .. Len(headers'), NEW p \in 1 .. Len(pending')
               PROVE  /\ headers'[a].file <= pending'[p]
                      /\ headers'[a].file = pending'[p] => reopened' = <<pending'[p]>>
    BY DEF HeadersBefore
  <2>1. pending'[p] \in Nat BY <1>1, <1>5 DEF FromPending
  <2>2. headers'[a].file <= f /\ f <= pending'[p] /\ headers'[a].file \in Nat
    BY <1>6, <1>9, <1>11
  <2>3. headers'[a].file <= pending'[p] BY <1>3, <2>1, <2>2
  <2>4. headers'[a].file = pending'[p] => pending'[p] = f BY <1>3, <2>1, <2>2
  <2>5. pending'[p] = f => handBack BY <1>3, <1>6
  <2> QED BY <1>10, <2>3, <2>4, <2>5
<1>13. current' # R!NoFile =>
         /\ Named(current'.file, n)
         /\ \A a \in 1 .. Len(headers') : headers'[a].file <= current'.file
         /\ \A p \in 1 .. Len(pending') : current'.file < pending'[p]
  BY <1>3, <1>6, <1>9
<1>14. ASSUME reopened' # <<>> PROVE Named(reopened'[1], n)
  <2>1. CASE handBack
    <3>1. reopened'[1] = f BY <1>10, <2>1
    <3> QED BY <1>9, <3>1
  <2>2. CASE ~ handBack
    <3>1. reopened' = reopened /\ reopened # <<>> BY <1>10, <1>14, <2>2
    <3>2. PICK g : g = reopened[1] OBVIOUS
    <3>3. HeaderOf(g, n) BY <1>4, <3>1, <3>2 DEF HeadersSound, HeadersOpen
    <3> QED BY <1>1, <1>9, <3>1, <3>2, <3>3, HeaderStays
  <2> QED BY <2>1, <2>2
<1> QED BY <1>4, <1>5, <1>9, <1>12, <1>13, <1>14, HeadersCarried

\* A data header that does not agree hands the open file back.
LEMMA RejectedHeaders ==
  ASSUME SystemInv, HeadersSound, PlaceTypes', disk' = disk, headers' = headers,
         current # R!NoFile, current' = R!NoFile, pending' = <<current.file>> \o pending,
         reopened' = <<current.file>>, rpc' = "idle",
         results' = results \/ \E x : Tells(x)
  PROVE  HeadersSound'
<1>1. /\ PlaceTypes /\ SystemTypes /\ ReaderInv
      /\ Len(pending) \in Nat /\ Len(results) \in Nat /\ pending \in Seq(1 .. Len(disk))
  BY DEF SystemInv, ReaderInv, PlaceTypes, RestTypes
<1>2. PICK f \in 1 .. Len(disk) : f = current.file /\ f \in Nat
  BY <1>1, CurrentIs DEF SystemTypes
<1>3. PICK n : n = Len(results) + 1 OBVIOUS
<1>4. /\ HeaderOf(f, n)
      /\ \A a \in 1 .. Len(headers) : headers[a].file <= f /\ headers[a].read <= n
      /\ \A p \in 1 .. Len(pending) : f < pending[p]
  BY <1>2, <1>3 DEF HeadersSound, HeadersOpen
<1>5. \A p \in 1 .. Len(pending') :
        \/ p = 1 /\ pending'[p] = f
        \/ p - 1 \in 1 .. Len(pending) /\ pending'[p] = pending[p - 1]
  <2>1. PICK s : s = <<f>> OBVIOUS
  <2>2. s \in Seq(1 .. Len(disk)) /\ Len(s) = 1 /\ s[1] = f BY <1>2, <2>1
  <2>3. pending' = s \o pending BY <1>2, <2>1
  <2>4. /\ Len(pending') = 1 + Len(pending) /\ pending'[1] = f
        /\ \A p \in 1 .. Len(pending) : pending'[1 + p] = pending[p]
    <3>1. /\ Len(s \o pending) = Len(s) + Len(pending)
          /\ \A p \in 1 .. Len(s) : (s \o pending)[p] = s[p]
          /\ \A p \in 1 .. Len(pending) : (s \o pending)[Len(s) + p] = pending[p]
      <4>1. PICK S : S = 1 .. Len(disk) OBVIOUS
      <4>2. s \in Seq(S) /\ pending \in Seq(S) BY <1>1, <2>2, <4>1
      <4> QED BY <4>2, Joins
    <3>2. 1 \in 1 .. Len(s) BY <2>2
    <3> QED BY <2>2, <2>3, <3>1, <3>2
  <2> SUFFICES ASSUME NEW p \in 1 .. Len(pending'), p # 1
               PROVE  p - 1 \in 1 .. Len(pending) /\ pending'[p] = pending[p - 1]
    BY <2>4
  <2>5. p - 1 \in 1 .. Len(pending) /\ 1 + (p - 1) = p BY <1>1, <2>4
  <2> QED BY <2>4, <2>5
<1>6. HeadersGrow /\ HeadersRise BY DEF HeadersGrow, HeadersSound, HeadersListed, HeadersRise
<1>7. Named(f, n) BY <1>1, <1>4, <1>6, HeaderStays
<1>8. \A p \in 1 .. Len(pending) : pending[p] \in Nat BY <1>1
<1>9. PendingRises'
  <2> SUFFICES ASSUME NEW p \in 1 .. Len(pending'), NEW q \in 1 .. Len(pending'), p < q
               PROVE  pending'[p] < pending'[q]
    BY DEF PendingRises
  <2>1. q # 1 /\ p - 1 < q - 1 OBVIOUS
  <2>2. q - 1 \in 1 .. Len(pending) /\ pending'[q] = pending[q - 1] BY <1>5, <2>1
  <2>3. CASE p = 1 /\ pending'[p] = f BY <1>4, <2>2, <2>3
  <2>4. CASE p - 1 \in 1 .. Len(pending) /\ pending'[p] = pending[p - 1]
    BY <2>1, <2>2, <2>4 DEF HeadersSound, PendingRises
  <2> QED BY <1>5, <2>3, <2>4
<1>10. HeadersBefore'
  <2> SUFFICES ASSUME NEW a \in 1 .. Len(headers), NEW p \in 1 .. Len(pending')
               PROVE  /\ headers[a].file <= pending'[p]
                      /\ headers[a].file = pending'[p] => reopened' = <<pending'[p]>>
    BY DEF HeadersBefore
  <2>1. headers[a].file \in Nat
    <3>1. headers[a].file \in 1 .. Len(disk) BY <1>1, <1>6, HeadersStay
    <3> QED BY <3>1
  <2>2. CASE pending'[p] = f BY <1>2, <1>4, <2>2
  <2>3. CASE p - 1 \in 1 .. Len(pending) /\ pending'[p] = pending[p - 1]
    <3>1. f < pending'[p] /\ pending'[p] \in Nat BY <1>4, <1>8, <2>3
    <3>2. headers[a].file < pending'[p] BY <1>2, <1>4, <2>1, <3>1
    <3> QED BY <2>1, <3>1, <3>2
  <2> QED BY <1>5, <2>2, <2>3
<1>11. reopened'[1] = f BY <1>2
<1>12. \A a \in 1 .. Len(headers') : headers'[a].read <= n BY <1>4
<1>13. ~ (rpc' \in {"payload", "skip"}) /\ ~ (current' # R!NoFile) OBVIOUS
<1> QED BY <1>3, <1>6, <1>7, <1>9, <1>10, <1>11, <1>12, <1>13, HeadersCarried

\* The first byte read of a payload is of a file whose header has been told.
LEMMA PieceFrom ==
  ASSUME SystemInv, HeadersSound, R!ReadPiece, rpc \in {"payload", "skip"}, got' # <<>>
  PROVE  From(got'[1], Len(results) + 1)
<1>1. /\ SystemTypes /\ ReaderInv /\ got \in Seq(Byte) /\ Len(got) \in Nat
  BY DEF SystemInv, ReaderInv, CallTypes
<1>2. PICK n : n = Len(results) + 1 OBVIOUS
<1>3. CASE got # <<>>
  <2>1. got'[1] = got[1]
    <3>1. CASE rpc = "skip" BY <3>1 DEF R!ReadPiece
    <3>2. CASE rpc # "skip"
      <4>1. PICK t : t = R!Ahead(R!Piece) OBVIOUS
      <4>2. got' = got \o t /\ t \in Seq(Byte) BY <1>1, <3>2, <4>1, PieceIs DEF R!ReadPiece
      <4>3. 1 \in 1 .. Len(got) BY <1>1, <1>3
      <4> QED BY <1>1, <4>2, <4>3, Joins
    <3> QED BY <3>1, <3>2
  <2>2. From(got[1], n) BY <1>2, <1>3 DEF HeadersSound, HeadersOpen
  <2> QED BY <1>2, <2>1, <2>2
<1>4. CASE got = <<>>
  <2>1. PICK t, l : t = R!Ahead(R!Piece) /\ l = R!Piece OBVIOUS
  <2>2. /\ current # R!NoFile /\ l \in Nat \ {0} /\ t \in Seq(Byte) /\ Len(t) = l
        /\ current.pos + l <= current.len
        /\ \A i \in 1 .. l : t[i] = disk[current.file].data[current.pos + i]
    BY <1>1, <2>1, PieceIs
  <2>3. rpc # "skip" /\ got' = t
    <3>1. rpc # "skip" BY <1>4 DEF R!ReadPiece
    <3>2. got' = got \o t BY <2>1, <3>1 DEF R!ReadPiece
    <3> QED BY <1>4, <2>2, <3>1, <3>2
  <2>4. PICK f : f = current.file OBVIOUS
  <2>5. HeaderOf(f, n) BY <1>2, <2>2, <2>4 DEF HeadersSound, HeadersOpen
  <2>6. /\ current.pos \in Nat /\ current.len \in Nat
        /\ current.len <= Len(disk[f].data) /\ Len(disk[f].data) \in Nat
    BY <1>1, <2>2, <2>4, CurrentIs
  <2>7. PICK c : c = current.pos + 1 OBVIOUS
  <2>8. c \in 1 .. Len(disk[f].data) BY <2>2, <2>6, <2>7
  <2>9. t[1] = disk[f].data[c] BY <2>2, <2>4, <2>7
  <2>10. PICK b : b = disk[f].data[c] OBVIOUS
  <2>11. From(b, n) BY <2>5, <2>8, <2>10, FromFile
  <2> QED BY <1>2, <2>3, <2>9, <2>10, <2>11
<1> QED BY <1>3, <1>4

LEMMA ReaderHeaders ==
  ASSUME SystemInv, SystemInv', HeadersSound, disk' = disk, R!Next
  PROVE  HeadersSound'
<1>1. /\ PlaceTypes /\ PlaceTypes' /\ SystemTypes /\ ReaderInv /\ Anchored
      /\ Len(pending) \in Nat /\ PendingRises
  BY DEF SystemInv, ReaderInv, PlaceTypes, HeadersSound
<1>2. results' = results \/ \E x : Tells(x)
  <2>1. CASE R!PayloadDone BY <2>1, RecordTells
  <2>2. CASE ~ R!PayloadDone BY <2>2, StepTells
  <2> QED BY <2>1, <2>2
<1>3. ASSUME NEW r, R!Fails(r) \/ R!Return(r) PROVE rpc' = "idle"
  BY <1>3 DEF R!Fails, R!Return, R!EndCall
<1>4. ASSUME pending' \in {pending, <<>>} PROVE FromPending /\ PendingRises'
  <2>1. CASE pending' = pending BY <1>1, <2>1 DEF FromPending, PendingRises
  <2>2. CASE pending' = <<>>
    <3>1. \A p : p \notin 1 .. Len(pending') BY <2>2
    <3> QED BY <3>1 DEF FromPending, PendingRises
  <2> QED BY <1>4, <2>1, <2>2
<1>5. CASE R!ReadAtEnd
  <2>1. /\ headers' = headers /\ reopened' = reopened /\ pending' = pending
        /\ current' = R!NoFile /\ rpc' = "idle"
    BY <1>3, <1>5 DEF R!ReadAtEnd
  <2> QED BY <1>1, <1>2, <1>4, <2>1, QuietHeaders
<1>6. ASSUME NEW m, R!Read(m) PROVE HeadersSound'
  <2>1. headers' = headers /\ reopened' = reopened /\ pending' = pending /\ current' = current
    BY <1>6 DEF R!Read, R!place
  <2>2. rpc' = "find" \/ got' = <<>> BY <1>6 DEF R!Read, R!FreshStart
  <2> QED BY <1>1, <1>2, <1>4, <2>1, <2>2, QuietHeaders
<1>7. CASE R!FindNone \/ R!CrossNone
  <2>1. /\ headers' = headers /\ reopened' = reopened /\ pending' = <<>>
        /\ current' = R!NoFile /\ rpc' = "idle"
    BY <1>3, <1>7 DEF R!FindNone, R!CrossNone
  <2> QED BY <1>1, <1>2, <1>4, <2>1, QuietHeaders
<1>8. CASE R!ReadPiece
  <2>1. /\ headers' = headers /\ reopened' = reopened /\ pending' = pending
        /\ rpc' = rpc /\ current' = [current EXCEPT !.pos = @ + R!Piece]
    BY <1>8 DEF R!ReadPiece
  <2>2. current # R!NoFile /\ current'.file = current.file
    <3>1. current # R!NoFile BY <1>1, <1>8, PieceIs
    <3>2. current \in [file : 1 .. Len(disk), pos : Nat, len : Nat]
      BY <1>1, <3>1, CurrentIs
    <3> QED BY <2>1, <3>1, <3>2
  <2>3. rpc' \in {"payload", "skip"} /\ got' # <<>> => From(got'[1], Len(results) + 1)
    BY <1>8, <2>1, PieceFrom
  <2> QED BY <1>1, <1>2, <1>4, <2>1, <2>2, <2>3, QuietHeaders
<1>9. CASE R!PieceFails \/ R!SkipDone
  <2>1. /\ headers' = headers /\ reopened' = reopened /\ pending' = pending
        /\ current' \in {current, R!NoFile} /\ rpc' = "idle"
    BY <1>3, <1>9 DEF R!PieceFails, R!SkipDone, R!place
  <2> QED BY <1>1, <1>2, <1>4, <2>1, QuietHeaders
<1>10. CASE R!PayloadDone
  <2>1. /\ headers' = headers /\ reopened' = reopened /\ pending' = pending
        /\ current' = current
    BY <1>10 DEF R!PayloadDone, R!place
  <2>2. rpc = "payload" /\ (rpc' = "idle" \/ got' = got)
    BY <1>3, <1>10 DEF R!PayloadDone
  <2>3. rpc' \in {"payload", "skip"} /\ got' # <<>> => From(got'[1], Len(results) + 1)
    BY <2>2 DEF HeadersSound, HeadersOpen
  <2> QED BY <1>1, <1>2, <1>4, <2>1, <2>3, QuietHeaders
<1>11. CASE R!HeaderDone
  <2>1. rpc = "header" BY <1>11 DEF R!HeaderDone
  <2>2. current # R!NoFile BY <1>1, <2>1 DEF Anchored, R!Reading
  <2>3. \/ /\ headers' = headers /\ reopened' = reopened /\ pending' = pending
           /\ current' = current /\ got' = <<>>
        \/ /\ headers' = headers /\ current' = R!NoFile /\ rpc' = "idle"
           /\ pending' = <<current.file>> \o pending /\ reopened' = <<current.file>>
    BY <1>3, <1>11 DEF R!HeaderDone, R!place
  <2> QED BY <1>1, <1>2, <1>4, <2>2, <2>3, QuietHeaders, RejectedHeaders
<1>12. ASSUME NEW k \in 0 .. Len(pending) - 1,
              R!FindSessionEnd(k) \/ R!CrossSessionEnd(k)
       PROVE  HeadersSound'
  <2>1. FromPending /\ PendingRises'
    BY <1>1, <1>12, PendingOpened DEF R!FindSessionEnd, R!CrossSessionEnd
  <2>2. /\ headers' = headers /\ reopened' = reopened
        /\ current' = R!NoFile /\ rpc' = "idle"
    BY <1>3, <1>12 DEF R!FindSessionEnd, R!CrossSessionEnd
  <2> QED BY <1>1, <1>2, <2>1, <2>2, QuietHeaders
<1>13. ASSUME NEW k \in 0 .. Len(pending) - 1,
              \/ R!FindDiscards(k) \/ R!FindsStart(k) \/ R!FindSeekFails(k)
              \/ R!CrossFollows(k) \/ R!CrossRejects(k)
       PROVE  HeadersSound'
  <2>1. CASE R!FindDiscards(k)
    <3>1. R!Opens(k, FALSE, 0) /\ current' = R!NoFile /\ rpc' = "find"
      BY <2>1 DEF R!FindDiscards
    <3> QED BY <1>1, <1>2, <3>1, OpenedHeaders
  <2>2. CASE R!FindsStart(k)
    <3>1. R!Opens(k, FALSE, 0) /\ current'.file = pending[k + 1]
      BY <2>2 DEF R!FindsStart, R!Open
    <3>2. rpc' = "idle" \/ got' = <<>>
      BY <1>3, <2>2 DEF R!FindsStart, R!FreshStart
    <3>3. ~ (rpc' \in {"payload", "skip"} /\ got' # <<>>) BY <3>2
    <3> QED BY <1>1, <1>2, <3>1, <3>3, OpenedHeaders
  <2>3. CASE R!FindSeekFails(k)
    <3>1. R!Opens(k, FALSE, 1) /\ current' = R!NoFile /\ rpc' = "idle"
      BY <1>3, <2>3 DEF R!FindSeekFails
    <3> QED BY <1>1, <1>2, <3>1, OpenedHeaders
  <2>4. CASE R!CrossFollows(k)
    <3>1. R!Opens(k, FALSE, 0) /\ current'.file = pending[k + 1] /\ rpc' = rpc /\ got' = got
      BY <2>4 DEF R!CrossFollows, R!Open, R!call
    <3>2. rpc' \in {"payload", "skip"} /\ got' # <<>> => From(got'[1], Len(results) + 1)
      BY <3>1 DEF HeadersSound, HeadersOpen
    <3> QED BY <1>1, <1>2, <3>1, <3>2, OpenedHeaders
  <2>5. CASE R!CrossRejects(k)
    <3>1. R!Opens(k, TRUE, 0) /\ current' = R!NoFile /\ rpc' = "idle"
      BY <1>3, <2>5 DEF R!CrossRejects
    <3> QED BY <1>1, <1>2, <3>1, OpenedHeaders
  <2> QED BY <1>13, <2>1, <2>2, <2>3, <2>4, <2>5
<1> QED BY <1>5, <1>6, <1>7, <1>8, <1>9, <1>10, <1>11, <1>12, <1>13 DEF R!Next, R!Step, R!Call

-----------------------------------------------------------------------------
(* Beside a writer, and where there is no reader yet.                      *)

\* What a live reader has listed, a writer only adds to.
LEMMA LiveStep ==
  ASSUME SystemInv, Sources, LiveTrue, [SystemNext]_sysvars, Sources', phase' = "live"
  PROVE  DiskInv'
<1>1. Known BY SourcesKnown
<1>2. ASSUME phase = "live", disk' = disk, Segments' = Segments PROVE DiskInv'
  BY <1>2 DEF LiveTrue, DiskInv, DiskTrue, DiskOrdered, No, FrontOf, SessionsBetween
<1>3. CASE Write
  <2>1. phase = "live" BY <1>3 DEF Write
  <2>2. Truth' /\ DiskInv BY <2>1 DEF Sources, LiveTrue
  <2> QED BY <1>1, <1>3, <2>1, <2>2, WrittenDisk
<1>4. CASE OpenBesideWriter BY <1>1, <1>4, OpenedBeside
<1>5. CASE ReadOn
  <2>1. phase = "live" BY <1>5 DEF ReadOn
  <2> QED BY <1>2, <1>5, <2>1, SourceKept, ReaderKeepsDisk
<1>6. CASE UNCHANGED sysvars
  <2>1. phase = "live" /\ disk' = disk BY <1>6 DEF sysvars, rdvars
  <2>2. Segments' = Segments BY <1>6, SourceKept
  <2> QED BY <1>2, <2>1, <2>2
<1>7. ~ StopWriting /\ ~ OpenReader /\ \A i : ~ Damage(i) /\ ~ Corrupt(i)
  BY DEF StopWriting, OpenReader, Damage, Corrupt
<1> QED BY <1>3, <1>4, <1>5, <1>6, <1>7 DEF SystemNext

\* The bytes of the files listed stay where they are.
ListedBytesStay ==
  /\ Len(disk) <= Len(disk')
  /\ \A k \in 1 .. Len(disk) : \A c \in 1 .. Len(disk[k].data) :
       c \in 1 .. Len(disk'[k].data) /\ disk'[k].data[c] = disk[k].data[c]

LEMMA WrittenStays ==
  ASSUME SystemInv, Sources, DiskInv, Write, phase = "live"
  PROVE  ListedBytesStay
<1>1. Known BY SourcesKnown
<1>2. /\ \A i \in 1 .. Len(files') : Segments'[i] = Stored(i, files'[i])
      /\ Len(Segments') = Len(files')
  BY WriteGrows
<1>3. disk' = Refreshed BY DEF Write
<1>4. Len(disk) \in Nat BY DEF SystemInv, SystemTypes
<1>5. Len(disk') = Len(disk) BY <1>3, <1>4 DEF Refreshed
<1>6. ASSUME NEW k \in 1 .. Len(disk), NEW c \in 1 .. Len(disk[k].data)
      PROVE  c \in 1 .. Len(disk'[k].data) /\ disk'[k].data[c] = disk[k].data[c]
  <2>1. PICK i : i = No(k) OBVIOUS
  <2>2. CASE i \in Present'
    <3>1. i \in 1 .. Len(files') BY <2>2 DEF Present
    <3>2. disk'[k] = Segments'[i] BY <1>2, <1>3, <2>1, <2>2, <3>1 DEF Refreshed, No
    <3>3. i \in 1 .. Len(Segments) + 1 /\ Len(Segments) \in Nat
      BY <1>1, <2>1 DEF DiskInv, DiskTrue, Known
    <3>4. i <= Len(Segments)
      <4>1. disk[k].data # <<>> BY <1>6
      <4> QED BY <2>1, <4>1 DEF DiskInv, DiskTrue
    <3>5. i \in 1 .. Len(Segments) BY <3>3, <3>4
    <3>6. FrontOf(disk[k], Segments[i]) BY <2>1, <3>4 DEF DiskInv, DiskTrue
    <3>7. Len(disk[k].data) \in Nat /\ Len(Segments[i].data) \in Nat
      <4>1. disk[k] \in Segment BY DEF SystemInv, SystemTypes
      <4>2. Segments[i] \in Segment BY <1>1, <3>5 DEF Known
      <4> QED BY <4>1, <4>2 DEF Segment
    <3>8. c \in 1 .. Len(Segments[i].data) /\ Segments[i].data[c] = disk[k].data[c]
      <4>1. PICK m, n : m = Len(disk[k].data) /\ n = Len(Segments[i].data) OBVIOUS
      <4>2. m \in Nat /\ n \in Nat /\ m <= n /\ c \in 1 .. m
        BY <3>6, <3>7, <4>1 DEF FrontOf
      <4>3. c \in 1 .. n BY <4>2
      <4> QED BY <3>6, <4>1, <4>3 DEF FrontOf
    <3> QED BY <1>1, <3>2, <3>5, <3>8, ByteStays
  <2>3. CASE i \notin Present'
    <3>1. disk'[k] = [disk[k] EXCEPT !.whole = FALSE]
      BY <1>3, <2>1, <2>3 DEF Refreshed, No
    <3>2. disk[k] \in Segment BY DEF SystemInv, SystemTypes
    <3>3. disk'[k].data = disk[k].data BY <3>1, <3>2 DEF Segment
    <3> QED BY <3>3
  <2> QED BY <2>2, <2>3
<1> QED BY <1>4, <1>5, <1>6 DEF ListedBytesStay

LEMMA StillHeaders ==
  ASSUME SystemInv, HeadersSound, UNCHANGED readervars, ListedBytesStay
  PROVE  HeadersSound'
<1>1. /\ pending' = pending /\ current' = current /\ reopened' = reopened
      /\ headers' = headers /\ rpc' = rpc /\ got' = got /\ results' = results
  BY DEF readervars
<1>2. PlaceTypes /\ HeadersGrow BY <1>1 DEF SystemInv, ReaderInv, HeadersGrow
<1>3. ASSUME NEW b, NEW n, From(b, n) PROVE From(b, n)'
  <2>1. PICK a \in 1 .. Len(headers) :
          /\ headers[a].read <= n
          /\ \E c \in 1 .. Len(disk[headers[a].file].data) :
               disk[headers[a].file].data[c] = b
    BY <1>3 DEF From
  <2>2. PICK f : f = headers[a].file OBVIOUS
  <2>3. PICK c \in 1 .. Len(disk[f].data) : disk[f].data[c] = b BY <2>1, <2>2
  <2>4. f \in 1 .. Len(disk) BY <1>2, <2>2, HeadersStay
  <2>5. c \in 1 .. Len(disk'[f].data) /\ disk'[f].data[c] = b
    BY <2>3, <2>4 DEF ListedBytesStay
  <2> QED BY <1>1, <2>1, <2>2, <2>5 DEF From
<1>4. PendingRises' /\ HeadersBefore'
  BY <1>1 DEF HeadersSound, PendingRises, HeadersBefore
<1>5. HeadersOpen'
  <2>1. ASSUME rpc \in {"payload", "skip"}, got # <<>>
        PROVE  \E b : b = got[1] /\ From(b, Len(results) + 1)'
    <3>1. PICK b, n : b = got[1] /\ n = Len(results) + 1 OBVIOUS
    <3>2. From(b, n) BY <2>1, <3>1 DEF HeadersSound, HeadersOpen
    <3>3. From(b, n)' BY <1>3, <3>2
    <3> QED BY <1>1, <3>1, <3>3 DEF From
  <2>2. rpc' \in {"payload", "skip"} /\ got' # <<>> => From(got[1], Len(results) + 1)'
    BY <1>1, <2>1 DEF From
  <2> QED BY <1>1, <2>2 DEF HeadersSound, HeadersOpen, HeaderOf
<1>6. HeadersListed'
  <2>1. Telling' = Telling BY <1>1 DEF Telling
  <2> SUFFICES ASSUME NEW i \in Telling PROVE From(results[i].data[1], i)'
    BY <1>1, <2>1 DEF HeadersSound, HeadersListed, From
  <2>2. PICK b : b = results[i].data[1] OBVIOUS
  <2>3. From(b, i) BY <2>2 DEF HeadersSound, HeadersListed, From
  <2>4. From(b, i)' BY <1>3, <2>3
  <2> QED BY <1>1, <2>2, <2>4 DEF From
<1> QED BY <1>4, <1>5, <1>6 DEF HeadersSound

\* Of a log that no reader has opened, or has begun to read, nothing has been told.
LEMMA NoHeaders ==
  ASSUME headers' = <<>>, results' = <<>>, current' = R!NoFile, reopened' = <<>>,
         rpc' = "idle", PendingRises'
  PROVE  HeadersSound'
<1>1. \A a : a \notin 1 .. Len(headers') OBVIOUS
<1>2. \A i : i \notin Telling' BY DEF Telling
<1> QED BY <1>1, <1>2 DEF HeadersSound, HeadersBefore, HeadersOpen, HeadersListed

LEMMA HeadersStep ==
  HeadersInv /\ SoundInv /\ SystemInv /\ [SystemNext]_sysvars /\ (SystemInv /\ SoundInv)'
    => HeadersInv'
<1> SUFFICES ASSUME HeadersSound, LiveTrue, Sources, SystemInv, [SystemNext]_sysvars,
                    SystemInv', Sources'
             PROVE  HeadersInv'
  BY DEF HeadersInv, SoundInv
<1>1. LiveTrue' BY LiveStep DEF LiveTrue
<1>2. ASSUME (Write /\ phase = "writing") \/ (StopWriting /\ phase = "writing")
               \/ OpenBesideWriter \/ OpenReader
               \/ \E i \in 1 .. Len(disk) : Damage(i) \/ Corrupt(i)
      PROVE  HeadersSound'
  <2>1. phase \in {"writing", "damaging"}
    BY <1>2 DEF OpenBesideWriter, OpenReader, Damage, Corrupt
  <2>2. PendingRises' BY <1>2, <2>1, FreshRises
  <2>3. headers = <<>> /\ results = <<>> /\ current = R!NoFile /\ rpc = "idle"
    BY <2>1 DEF SystemInv, Unborn
  <2>4. reopened = <<>>
    <3>1. \A a : a \notin 1 .. Len(headers) BY <2>3
    <3>2. \A f, n : ~ HeaderOf(f, n) BY <3>1 DEF HeaderOf
    <3> QED BY <3>2 DEF HeadersSound, HeadersOpen
  <2>5. UNCHANGED <<headers, results, current, rpc, reopened>>
    BY <1>2 DEF Write, StopWriting, OpenBesideWriter, OpenReader, Damage, Corrupt,
                readervars, R!New, R!call
  <2> QED BY <2>2, <2>3, <2>4, <2>5, NoHeaders
<1>3. ASSUME disk' = disk, UNCHANGED readervars PROVE HeadersSound'
  <2>1. Len(disk) \in Nat BY DEF SystemInv, SystemTypes
  <2>2. ListedBytesStay BY <1>3, <2>1 DEF ListedBytesStay
  <2> QED BY <1>3, <2>2, StillHeaders
<1>4. HeadersSound'
  <2>1. CASE Write /\ phase = "live"
    <3>1. DiskInv BY <2>1 DEF LiveTrue
    <3>2. ListedBytesStay BY <2>1, <3>1, WrittenStays
    <3>3. UNCHANGED readervars BY <2>1 DEF Write
    <3> QED BY <3>2, <3>3, StillHeaders
  <2>2. CASE StopWriting /\ phase = "live"
    <3>1. disk' = disk /\ UNCHANGED readervars BY <2>2 DEF StopWriting
    <3> QED BY <1>3, <3>1
  <2>3. CASE ReadOn
    <3>1. R!Next /\ disk' = disk BY <2>3, ReaderKeepsDisk DEF ReadOn
    <3> QED BY <3>1, ReaderHeaders
  <2>4. CASE UNCHANGED sysvars BY <1>3, <2>4 DEF sysvars, rdvars
  <2>5. (Write \/ StopWriting) => phase \in {"writing", "live"} BY DEF Write, StopWriting
  <2> QED BY <1>2, <2>1, <2>2, <2>3, <2>4, <2>5 DEF SystemNext
<1> QED BY <1>1, <1>4 DEF HeadersInv

LEMMA HeadersInit == SystemInit => HeadersInv
<1> SUFFICES ASSUME SystemInit PROVE HeadersInv OBVIOUS
<1>1. /\ headers = <<>> /\ results = <<>> /\ current = R!NoFile /\ reopened = <<>>
      /\ rpc = "idle" /\ pending = <<>> /\ phase = "writing"
  BY DEF SystemInit, R!Init
<1>2. /\ \A a : a \notin 1 .. Len(headers)
      /\ \A p : p \notin 1 .. Len(pending)
  BY <1>1
<1>3. \A i : i \notin Telling BY <1>1 DEF Telling
<1> QED BY <1>1, <1>2, <1>3
      DEF HeadersInv, HeadersSound, PendingRises, HeadersBefore, HeadersOpen,
          HeadersListed, LiveTrue

\* open_next retains the header of a file when it opens it for the first time, and
\* not again when reject_current has handed it back: the headers are each file's once,
\* in the order of the files, and none comes later than the first byte that a read
\* returns of its file, whatever has become of the files and beside a writer too.
THEOREM HeadersOnce == SystemSpec => []HeadersListed
<1>1. HeadersInv => HeadersListed BY DEF HeadersInv, HeadersSound
<1> QED BY <1>1, SystemTyped, SystemSound, HeadersInit, HeadersStep, PTL DEF SystemSpec

-----------------------------------------------------------------------------
(* A caller who takes the headers takes them all.                          *)

\* A set that has each number as soon as it has those before has them all.
LEMMA NatSetInduction ==
  ASSUME NEW S, \A n \in Nat : (\A m \in Nat : m < n => m \in S) => n \in S
  PROVE  \A n \in Nat : n \in S
<1> DEFINE T == Nat \ S
           Rel == OpToRel(<, Nat)
<1> SUFFICES ASSUME T # {} PROVE FALSE BY DEF T
<1>1. T \subseteq Nat BY DEF T
<1>2. IsWellFoundedOn(Rel, Nat) BY NatLessThanWellFounded
<1>3. PICK m \in T : \A n \in T : <<n, m>> \notin Rel
  <2> HIDE DEF T, Rel
  <2> QED BY <1>1, <1>2, WFMin
<1>4. \A n \in T : ~ (n < m) BY <1>1, <1>3 DEF OpToRel
<1>5. m \in Nat /\ m \notin S BY <1>1, <1>3 DEF T
<1>6. \A n \in Nat : n < m => n \in S BY <1>4 DEF T
<1> QED BY <1>5, <1>6

\* What fits of what is left is taken, Chunk at a time.
LEMMA TakenIs ==
  ASSUME NEW length \in Nat, NEW hs, Len(hs) = length, NEW room \in Nat
  PROVE  R!Taken(hs, room) = R!Lesser(room, length)
<1> DEFINE Want(done) == R!Lesser(room - done, Chunk)
           Next1(done) == R!Lesser(Want(done), length - done)
           Stop(done) == done = room \/ Next1(done) < Want(done)
           F(g) == [done \in 0 .. room |->
                      IF Stop(done) THEN done + Next1(done) ELSE g[done + Next1(done)]]
           T == CHOOSE g : g = F(g)
           all == R!Lesser(room, length)
           flat == [done \in 0 .. room |-> all]
<1>1. R!Taken(hs, room) = T[0] BY DEF R!Taken
<1>2. ASSUME NEW done \in 0 .. room
      PROVE  /\ Stop(done) => done + Next1(done) = all
             /\ ~ Stop(done) => Next1(done) \in Nat \ {0} /\ done + Next1(done) \in 0 .. room
  <2>1. Chunk \in Nat \ {0} BY SystemAssumption
  <2> QED BY <2>1 DEF R!Lesser
<1> HIDE DEF Stop, Next1
<1>3. flat = F(flat)
  <2>1. ASSUME NEW done \in 0 .. room PROVE flat[done] = F(flat)[done]
    BY <1>2
  <2> QED BY <2>1
<1>4. T = F(T)
  <2> HIDE DEF F, flat
  <2> QED BY <1>3
<1> HIDE DEF T
<1>5. ASSUME NEW done \in 0 .. room
      PROVE  T[done] = IF Stop(done) THEN done + Next1(done) ELSE T[done + Next1(done)]
  BY <1>4
<1> HIDE DEF F
<1>6. ASSUME NEW n \in Nat, \A m \in Nat : m < n => (m <= room => T[room - m] = all),
             n <= room
      PROVE  T[room - n] = all
  <2>1. PICK done \in 0 .. room : done = room - n BY <1>6
  <2>2. CASE Stop(done) BY <1>2, <1>5, <2>1, <2>2
  <2>3. CASE ~ Stop(done)
    <3>1. PICK e : e = done + Next1(done) OBVIOUS
    <3>2. e \in 0 .. room /\ e > done /\ T[done] = T[e]
      BY <1>2, <1>5, <2>3, <3>1
    <3>3. PICK m \in Nat : m = room - e BY <3>2
    <3>4. m < n /\ m <= room /\ e = room - m BY <2>1, <3>2, <3>3
    <3> QED BY <1>6, <2>1, <3>2, <3>4
  <2> QED BY <2>2, <2>3
<1> DEFINE S == {n \in Nat : n <= room => T[room - n] = all}
<1>7. \A n \in Nat : (\A m \in Nat : m < n => m \in S) => n \in S BY <1>6
<1>8. \A n \in Nat : n \in S
  <2> HIDE DEF S
  <2> QED BY <1>7, NatSetInduction
<1>9. T[room - room] = all BY <1>8
<1> QED BY <1>1, <1>9

\* Who takes until fewer come than there was room for has all of them.
LEMMA DrainedIs ==
  ASSUME NEW S, NEW hs \in Seq(S), NEW room \in Nat \ {0}
  PROVE  R!Drained(hs, room) = hs
<1>1. PICK length \in Nat : length = Len(hs) OBVIOUS
<1> DEFINE Rest(at) == SubSeq(hs, at + 1, length)
           N(at) == R!Taken(Rest(at), room)
           F(g) == [at \in 0 .. length |->
                      SubSeq(hs, at + 1, at + N(at))
                        \o IF N(at) < room THEN <<>> ELSE g[at + N(at)]]
           D == CHOOSE g : g = F(g)
           rests == [at \in 0 .. length |-> Rest(at)]
<1>2. R!Drained(hs, room) = D[0] BY <1>1 DEF R!Drained
<1>3. ASSUME NEW at \in 0 .. length
      PROVE  /\ N(at) \in Nat /\ (N(at) < room => N(at) = length - at)
             /\ ~ (N(at) < room) => N(at) > 0 /\ at + N(at) \in 0 .. length
             /\ SubSeq(hs, at + 1, at + N(at))
                  \o (IF N(at) < room THEN <<>> ELSE Rest(at + N(at))) = Rest(at)
  <2>1. Len(Rest(at)) = length - at /\ length - at \in Nat BY <1>1
  <2>2. N(at) = R!Lesser(room, length - at) BY <2>1, TakenIs
  <2> HIDE DEF N
  <2>3. N(at) \in 0 .. length - at /\ (N(at) < room => N(at) = length - at)
        /\ (~ (N(at) < room) => N(at) = room)
    BY <2>1, <2>2 DEF R!Lesser
  <2>4. CASE N(at) < room BY <1>1, <2>3, <2>4
  <2>5. CASE ~ (N(at) < room)
    <3>1. PICK e : e = at + N(at) OBVIOUS
    <3>2. e \in at + 1 .. length /\ N(at) > 0 BY <2>1, <2>3, <2>5, <3>1
    <3>3. SubSeq(hs, at + 1, e) \o SubSeq(hs, e + 1, length) = SubSeq(hs, at + 1, length)
      BY <1>1, <3>2, ConcatAdjacentSubSeq
    <3>4. at + N(at) \in 0 .. length /\ N(at) \in Nat BY <2>3, <3>1, <3>2
    <3>5. SubSeq(hs, at + 1, at + N(at))
            \o (IF N(at) < room THEN <<>> ELSE Rest(at + N(at))) = Rest(at)
      BY <2>5, <3>1, <3>3
    <3> QED BY <2>5, <3>2, <3>4, <3>5
  <2> QED BY <2>4, <2>5
<1> HIDE DEF N
<1>4. rests = F(rests)
  <2>1. ASSUME NEW at \in 0 .. length PROVE rests[at] = F(rests)[at]
    BY <1>3
  <2> QED BY <2>1
<1>5. D = F(D)
  <2> HIDE DEF F, rests
  <2> QED BY <1>4
<1> HIDE DEF D
<1>6. ASSUME NEW at \in 0 .. length
      PROVE  D[at] = SubSeq(hs, at + 1, at + N(at))
                       \o IF N(at) < room THEN <<>> ELSE D[at + N(at)]
  BY <1>5
<1> HIDE DEF F
<1>7. ASSUME NEW n \in Nat,
             \A m \in Nat : m < n => (m <= length => D[length - m] = Rest(length - m)),
             n <= length
      PROVE  D[length - n] = Rest(length - n)
  <2>1. length - n \in 0 .. length BY <1>7
  <2>4. PICK at \in 0 .. length : at = length - n BY <2>1
  <2>2. CASE N(at) < room
    <3>1. D[at] = SubSeq(hs, at + 1, at + N(at)) \o <<>> BY <1>6, <2>2
    <3> QED BY <1>3, <2>4, <2>2, <3>1
  <2>3. CASE ~ (N(at) < room)
    <3>1. PICK e : e = at + N(at) OBVIOUS
    <3>2. e \in 0 .. length /\ e > at BY <1>3, <2>3, <3>1
    <3>7. length - e \in Nat BY <1>1, <3>2
    <3>3. PICK m \in Nat : m = length - e BY <3>7
    <3>4. m < n /\ m <= length /\ e = length - m BY <1>1, <2>4, <3>2, <3>3
    <3>5. D[e] = Rest(e) BY <1>7, <3>4
    <3>6. D[at] = SubSeq(hs, at + 1, at + N(at)) \o Rest(e) BY <1>6, <2>3, <3>1, <3>5
    <3> HIDE DEF Rest
    <3> QED BY <1>3, <2>4, <2>3, <3>1, <3>6
  <2> QED BY <2>2, <2>3
<1> DEFINE K == {n \in Nat : n <= length => D[length - n] = Rest(length - n)}
<1>8. \A n \in Nat : (\A m \in Nat : m < n => m \in K) => n \in K BY <1>7
<1>9. \A n \in Nat : n \in K
  <2> HIDE DEF K
  <2> QED BY <1>8, NatSetInduction
<1>10. D[length - length] = Rest(length - length) BY <1>9
<1>11. Rest(0) = hs BY <1>1
<1> QED BY <1>1, <1>2, <1>10, <1>11

\* A caller of the C library who takes the headers after a read, with room for any
\* number of them at a time, takes each file's header once, in the order of the
\* files and no later than the first byte of its file, whatever is lost on the way.
THEOREM HeadersTaken == SystemSpec => []HeadersTold
<1>1. SystemInv /\ HeadersInv => HeadersTold
  <2> SUFFICES ASSUME SystemInv, HeadersInv PROVE HeadersTold OBVIOUS
  <2>1. HeadersListed BY DEF HeadersInv, HeadersSound
  <2>2. headers \in Seq([file : 1 .. Len(disk), read : Nat])
    BY DEF SystemInv, ReaderInv, PlaceTypes
  <2>3. Chunk \in Nat BY SystemAssumption
  <2>4. ASSUME NEW room \in 1 .. Chunk + 1 PROVE R!Drained(headers, room) = headers
    <3>1. room \in Nat \ {0} BY <2>3
    <3> QED BY <2>2, <3>1, DrainedIs
  <2> QED BY <2>1, <2>4 DEF HeadersTold
<1> QED BY <1>1, SystemTyped, SystemSound, HeadersInit, HeadersStep, PTL DEF SystemSpec

-----------------------------------------------------------------------------
(* What the iterator makes of the results.                                 *)

\* Each item of the iterator is made of a result that has something to tell.
LEMMA ItemsAre ==
  ASSUME SystemInv
  PROVE  R!Items \in Seq({R!Item(results[i]) :
                           i \in {j \in 1 .. Len(results) :
                                   results[j].kind = "record" \/ results[j].data # <<>>}})
<1> DEFINE ends == {i \in 1 .. Len(results) : results[i].kind \in {"eof", "error"}}
           last == IF ends = {} THEN Len(results) ELSE R!Min(ends) - 1
           Has(i) == results[i].kind = "record" \/ results[i].data # <<>>
           E(i) == R!Item(results[i])
           kept == {E(i) : i \in {j \in 1 .. Len(results) : Has(j)}}
           Rest(g, i) == IF Has(i) THEN Append(g[i - 1], E(i)) ELSE g[i - 1]
           F(g) == [i \in 0 .. last |-> IF i = 0 THEN <<>> ELSE Rest(g, i)]
           Y == CHOOSE g : g = F(g)
<1>1. R!Items = Y[last] BY DEF R!Items
<1>2. last \in Nat /\ last <= Len(results)
  <2>1. Len(results) \in Nat BY DEF SystemInv, ReaderInv, RestTypes
  <2>2. ASSUME ends # {} PROVE R!Min(ends) \in ends
    <3> DEFINE Rel == OpToRel(<, Nat)
    <3>1. ends \subseteq Nat OBVIOUS
    <3>2. IsWellFoundedOn(Rel, Nat) BY NatLessThanWellFounded
    <3>3. PICK m \in ends : \A n \in ends : <<n, m>> \notin Rel
      <4> HIDE DEF ends, Rel
      <4> QED BY <2>2, <3>1, <3>2, WFMin
    <3> HIDE DEF ends
    <3>4. \A n \in ends : ~ (n < m) BY <3>1, <3>3 DEF OpToRel
    <3>5. \A n \in ends : m <= n BY <3>1, <3>4
    <3> QED BY <3>5 DEF R!Min
  <2>3. CASE ends = {} BY <2>1, <2>3
  <2>4. CASE ends # {}
    <3>1. R!Min(ends) \in 1 .. Len(results) BY <2>2, <2>4
    <3> QED BY <2>1, <2>4, <3>1
  <2> QED BY <2>3, <2>4
<1>3. \A i \in 1 .. last : Has(i) => E(i) \in kept BY <1>2
<1> HIDE DEF last, Has, E, kept
<1> DEFINE Upto(n, g) ==
             g = [i \in 0 .. n |-> IF i = 0 THEN <<>> ELSE Rest(g, i)]
<1>4. \E g : Upto(last, g)
  <2> DEFINE S == {n \in Nat : \E g : Upto(n, g)}
  <2>1. ASSUME NEW n \in Nat, \A m \in Nat : m < n => m \in S PROVE n \in S
    <3>1. CASE n = 0
      <4>1. PICK g : g = [i \in 0 .. n |-> <<>>] OBVIOUS
      <4>2. \A i \in 0 .. n : i = 0 BY <3>1
      <4>3. g = [i \in 0 .. n |-> IF i = 0 THEN <<>> ELSE Rest(g, i)]
        <5> HIDE DEF Rest
        <5> QED BY <4>1, <4>2
      <4> QED BY <4>3
    <3>2. CASE n # 0
      <4>1. PICK m \in Nat : n = m + 1 BY <3>2
      <4>2. PICK g : Upto(m, g)
        <5>1. m < n BY <4>1
        <5>2. m \in S
          <6> HIDE DEF S
          <6> QED BY <2>1, <5>1
        <5> HIDE DEF Upto
        <5> QED BY <5>2
      <4>3. PICK h : h = [i \in 0 .. n |-> IF i = n THEN Rest(g, i) ELSE g[i]] OBVIOUS
      <4>4. \A i \in 0 .. m : g[i] = IF i = 0 THEN <<>> ELSE Rest(g, i) BY <4>2
      <4>5. \A i \in 0 .. m : h[i] = g[i] BY <4>1, <4>3
      <4>6. ASSUME NEW i \in 0 .. n, i # 0 PROVE Rest(h, i) = Rest(g, i)
        <5>1. i - 1 \in 0 .. m BY <4>1, <4>6
        <5>2. h[i - 1] = g[i - 1] BY <4>5, <5>1
        <5> QED BY <5>2
      <4> HIDE DEF Rest
      <4>7. ASSUME NEW i \in 0 .. n PROVE h[i] = IF i = 0 THEN <<>> ELSE Rest(h, i)
        <5>1. CASE i = n BY <3>2, <4>3, <4>6, <5>1
        <5>2. CASE i # n
          <6>1. i \in 0 .. m BY <4>1, <5>2
          <6> QED BY <4>4, <4>5, <4>6, <6>1
        <5> QED BY <5>1, <5>2
      <4>8. Upto(n, h)
        <5>1. h = [i \in 0 .. n |-> h[i]] BY <4>3
        <5> QED BY <4>7, <5>1
      <4> QED BY <4>8
    <3> QED BY <3>1, <3>2
  <2>2. \A n \in Nat : n \in S
    <3> HIDE DEF S
    <3> QED BY <2>1, NatSetInduction
  <2> QED BY <1>2, <2>2
<1>5. Y = F(Y)
  <2>1. \E g : g = F(g) BY <1>4
  <2> HIDE DEF F
  <2> QED BY <2>1
<1> HIDE DEF Y
<1>6. \A i \in 0 .. last : Y[i] = IF i = 0 THEN <<>> ELSE Rest(Y, i)
  <2> HIDE DEF Rest
  <2> QED BY <1>5
<1> HIDE DEF F
<1> DEFINE S == {n \in Nat : n <= last => Y[n] \in Seq(kept)}
<1>7. ASSUME NEW n \in Nat, \A m \in Nat : m < n => m \in S PROVE n \in S
  <2> SUFFICES ASSUME n <= last PROVE Y[n] \in Seq(kept) OBVIOUS
  <2>1. CASE n = 0
    <3>1. Y[n] = <<>> BY <1>2, <1>6, <2>1
    <3> QED BY <3>1
  <2>2. CASE n # 0
    <3>1. PICK m \in Nat : m = n - 1 /\ m < n /\ m <= last BY <1>2, <2>2
    <3>2. Y[m] \in Seq(kept) BY <1>7, <3>1
    <3>3. Y[n] = Rest(Y, n)
      <4>1. n \in 0 .. last BY <1>2
      <4> HIDE DEF Rest
      <4> QED BY <1>6, <2>2, <4>1
    <3>4. Y[n] = IF Has(n) THEN Append(Y[m], E(n)) ELSE Y[m] BY <3>1, <3>3
    <3>5. Has(n) => E(n) \in kept BY <1>2, <1>3, <2>2
    <3> QED BY <3>2, <3>4, <3>5
  <2> QED BY <2>1, <2>2
<1>8. \A n \in Nat : n \in S
  <2> HIDE DEF S
  <2> QED BY <1>7, NatSetInduction
<1>9. Y[last] \in Seq(kept) BY <1>2, <1>8
<1> QED BY <1>1, <1>9 DEF kept, E, Has

\* What the iterator yields is a record, whole where it is not marked as truncated and
\* otherwise less than one: a result says so by its kind, and its bytes are by that.
LEMMA ItemsTrue ==
  ASSUME SystemInv, TellSound
  PROVE  ItemsMarked
<1> SUFFICES ASSUME NEW n \in 1 .. Len(R!Items)
             PROVE  \E r \in 1 .. Len(lens) :
                      IF R!Items[n].truncated
                      THEN IsStrictPrefix(R!Items[n].data, Payload(r))
                      ELSE R!Items[n].data = Payload(r)
  BY DEF ItemsMarked
<1>1. PICK i \in 1 .. Len(results) :
        /\ results[i].kind = "record" \/ results[i].data # <<>>
        /\ R!Items[n] = R!Item(results[i])
  BY ItemsAre
<1>2. R!Items[n].data = results[i].data
      /\ R!Items[n].truncated = (results[i].kind # "record")
  BY <1>1 DEF R!Item
<1>3. PICK r \in 1 .. Len(lens) :
        Gives(results[i], r) /\ lens[r] \in Nat /\ Len(results[i].data) \in Nat
  BY <1>1, TellingIs
<1>4. PICK x, a, l, m :
        /\ x = results[i].data /\ a = HeaderLen /\ l = lens[r] /\ m = Len(x)
  OBVIOUS
<1>5. results \in Seq(Outcome) BY DEF SystemInv, ReaderInv, RestTypes
<1>6. results[i] \in Outcome BY <1>5
<1>7. x \in Seq(Byte) BY <1>4, <1>6 DEF Outcome
<1>8. x = BytesOf(r, a, a + m) /\ m <= l /\ m \in Nat /\ l \in Nat /\ a \in Nat
  BY <1>3, <1>4, FormatAssumption DEF Gives
<1>9. PICK t : t = Payload(r) OBVIOUS
<1>10. t = BytesOf(r, a, a + l) /\ t \in Seq(Byte) BY <1>3, <1>4, <1>9, PayloadIs
<1>11. CASE results[i].kind = "record"
  <2>1. m = l BY <1>3, <1>4, <1>11 DEF Gives
  <2>2. x = t BY <1>8, <1>10, <2>1
  <2> QED BY <1>2, <1>4, <1>9, <1>11, <2>2
<1>12. CASE results[i].kind # "record"
  <2>1. m < l BY <1>3, <1>4, <1>12 DEF Gives
  <2>2. IsPrefix(x, t) BY <1>7, <1>8, <1>10, FrontIsPrefix
  <2>3. Len(t) = l
    <3>1. (a + l) - a = l BY <1>8
    <3>2. t = [k \in 1 .. l |-> <<r, a + k>>] BY <1>10, <3>1 DEF BytesOf
    <3> QED BY <1>8, <3>2
  <2>4. x # t BY <1>4, <1>8, <2>1, <2>3
  <2>5. IsStrictPrefix(x, t) BY <2>2, <2>4 DEF IsStrictPrefix
  <2> QED BY <1>2, <1>4, <1>9, <1>12, <2>5
<1> QED BY <1>11, <1>12

\* What LogReadIter yields without a mark is a whole record, and with one it is less
\* than a record: the front of it, by a loss or for want of room, and never all of it.
THEOREM ItemsAreMarked == SystemSpec => [](MaxCorrupted = 0 /\ SequencesLeft => ItemsMarked)
<1>1. SystemInv /\ SoundInv => (MaxCorrupted = 0 /\ SequencesLeft => ItemsMarked)
  <2> SUFFICES ASSUME SystemInv, SoundInv, MaxCorrupted = 0, SequencesLeft
               PROVE  ItemsMarked
    OBVIOUS
  <2>1. TellSound BY DEF SoundInv, ReaderSound
  <2> QED BY <2>1, ItemsTrue
<1> QED BY <1>1, SystemTyped, SystemSound, PTL

-----------------------------------------------------------------------------
(* The files pending are the last, and the end of the log is behind them.  *)

\* Where all but the first k of the files pending are left, as many more are reached.
LEMMA FilesReached ==
  ASSUME SystemTypes, PlaceTypes, disk' = disk, NEW k \in 0 .. Len(pending), pending' = R!Behind(k)
  PROVE  /\ Len(pending) \in Nat /\ Len(disk) \in Nat /\ Reached \in Int
         /\ Reached' = Reached + k /\ Len(pending') = Len(pending) - k
         /\ \A p \in 1 .. Len(pending') : k + p \in 1 .. Len(pending) /\ pending'[p] = pending[k + p]
<1>1. Len(pending) \in Nat /\ Len(disk) \in Nat BY DEF PlaceTypes, SystemTypes
<1>2. /\ Len(pending') = Len(pending) - k
      /\ \A p \in 1 .. Len(pending) - k : pending'[p] = pending[k + p]
  BY BehindIs
<1>3. \A p \in 1 .. Len(pending') : k + p \in 1 .. Len(pending) BY <1>1, <1>2
<1> QED BY <1>1, <1>2, <1>3 DEF Reached

LEMMA LastStill ==
  ASSUME SystemTypes, PlaceTypes, PendingLast, disk' = disk,
         NEW k \in 0 .. Len(pending), pending' = R!Behind(k)
  PROVE  \A p \in 1 .. Len(pending') : pending'[p] = Reached' + p
<1>1. /\ Len(pending) \in Nat /\ Len(disk) \in Nat /\ Reached \in Int
      /\ Reached' = Reached + k
      /\ \A p \in 1 .. Len(pending') : k + p \in 1 .. Len(pending) /\ pending'[p] = pending[k + p]
  BY FilesReached
<1> TAKE p \in 1 .. Len(pending')
<1>2. PICK q \in 1 .. Len(pending) : q = k + p /\ pending'[p] = pending[q] BY <1>1
<1>3. pending[q] = Reached + q BY DEF PendingLast
<1>4. p \in Int OBVIOUS
<1> QED BY <1>1, <1>2, <1>3, <1>4

\* The files that a step takes from those pending: those passed over, and the one opened.
LEMMA FilesTaken ==
  ASSUME SystemTypes, PlaceTypes, PendingLast, disk' = disk, NEW k \in 0 .. Len(pending) - 1
  PROVE  /\ k \in Nat /\ Reached \in Int
         /\ k + 1 \in 1 .. Len(pending) /\ pending[k + 1] = Reached + k + 1
         /\ \A q \in 1 .. k : q \in 1 .. Len(pending) /\ pending[q] = Reached + q
         /\ pending' = R!Behind(k) =>
              Reached' = Reached + k /\ \A p \in 1 .. Len(pending') : pending'[p] = Reached' + p
         /\ pending' = R!Behind(k + 1) =>
              /\ Reached' = Reached + k + 1
              /\ \A p \in 1 .. Len(pending') : pending'[p] = Reached' + p
<1>1. Len(pending) \in Nat /\ Len(disk) \in Nat BY DEF PlaceTypes, SystemTypes
<1>2. /\ k \in 0 .. Len(pending) /\ k + 1 \in 0 .. Len(pending) /\ k + 1 \in 1 .. Len(pending)
      /\ k \in Nat
  BY <1>1
<1>3. PICK l : l = k + 1 OBVIOUS
<1>4. Reached \in Int BY <1>1 DEF Reached
<1>5. pending[l] = Reached + l BY <1>2, <1>3 DEF PendingLast
<1>6. \A q \in 1 .. k : q \in 1 .. Len(pending) BY <1>1, <1>2
<1>7. \A q \in 1 .. k : pending[q] = Reached + q BY <1>6 DEF PendingLast
<1>8. ASSUME pending' = R!Behind(k)
      PROVE  Reached' = Reached + k /\ \A p \in 1 .. Len(pending') : pending'[p] = Reached' + p
  BY <1>2, <1>8, FilesReached, LastStill
<1>9. ASSUME pending' = R!Behind(l)
      PROVE  Reached' = Reached + l /\ \A p \in 1 .. Len(pending') : pending'[p] = Reached' + p
  BY <1>2, <1>3, <1>9, FilesReached, LastStill
<1> QED BY <1>2, <1>3, <1>4, <1>5, <1>6, <1>7, <1>8, <1>9

\* A read tells of the end only where it has come to it.
LEMMA EndReached ==
  ASSUME SystemInv, R!Next, R!AtEof'
  PROVE  R!ReadAtEnd \/ R!FindNone
<1>1. /\ SystemTypes /\ ReaderInv /\ PlaceTypes /\ CallTypes /\ RestTypes /\ Anchored
      /\ results \in Seq(Outcome) /\ Len(results) \in Nat
  BY DEF SystemInv, ReaderInv, RestTypes
<1>2. ~ R!AtEof
  <2>1. CASE R!Call BY <2>1 DEF R!Call
  <2>2. CASE R!Step
    <3>1. rpc # "idle"
      BY <2>2 DEF R!Step, R!FindNone, R!CrossNone, R!FindSessionEnd, R!FindDiscards,
           R!FindsStart, R!FindSeekFails, R!CrossSessionEnd, R!CrossFollows, R!CrossRejects,
           R!ReadPiece, R!PieceFails, R!HeaderDone, R!PayloadDone, R!SkipDone, R!Crossing,
           R!Reading
    <3> QED BY <1>1, <3>1 DEF Anchored
  <2> QED BY <2>1, <2>2 DEF R!Next
<1>3. results' # results BY <1>2 DEF R!AtEof
<1>4. ASSUME NEW x, x.kind # "eof", R!Return(x) PROVE FALSE
  <2>1. results' = Append(results, x) BY <1>4 DEF R!Return
  <2>2. Len(results') = Len(results) + 1 /\ results'[Len(results) + 1] = x BY <1>1, <2>1
  <2> QED BY <1>4, <2>2 DEF R!AtEof
<1>5. ASSUME NEW kind, kind # "eof", NEW lost, NEW data, R!Return(R!Result(kind, lost, data))
      PROVE  FALSE
  BY <1>4, <1>5 DEF R!Result
<1>6. ASSUME NEW kind, kind # "eof", NEW lost, NEW data, R!Fails(R!Result(kind, lost, data))
      PROVE  FALSE
  BY <1>5, <1>6 DEF R!Fails
<1>7. ASSUME NEW lost, R!Fails(R!Truncated(lost)) \/ R!Return(R!Truncated(lost))
      PROVE  FALSE
  BY <1>5, <1>6, <1>7 DEF R!Truncated
<1>8. CASE \E n \in BufLens : R!Read(n) BY <1>3, <1>8 DEF R!Read
<1>9. CASE R!CrossNone BY <1>7, <1>9 DEF R!CrossNone
<1>10. CASE R!ReadPiece BY <1>3, <1>10 DEF R!ReadPiece
<1>11. CASE R!PieceFails BY <1>6, <1>11 DEF R!PieceFails
<1>12. CASE R!HeaderDone BY <1>3, <1>7, <1>12 DEF R!HeaderDone
<1>13. CASE R!PayloadDone BY <1>3, <1>5, <1>13 DEF R!PayloadDone
<1>14. CASE R!SkipDone BY <1>5, <1>14 DEF R!SkipDone
<1>15. ASSUME NEW k \in 0 .. Len(pending) - 1,
              \/ R!FindSessionEnd(k) \/ R!FindDiscards(k) \/ R!FindsStart(k)
              \/ R!FindSeekFails(k)
              \/ R!CrossSessionEnd(k) \/ R!CrossFollows(k) \/ R!CrossRejects(k)
       PROVE  FALSE
  <2>1. CASE R!FindSessionEnd(k) BY <1>6, <2>1 DEF R!FindSessionEnd
  <2>2. CASE R!FindDiscards(k) BY <1>3, <2>2 DEF R!FindDiscards
  <2>3. CASE R!FindsStart(k) BY <1>3, <1>7, <2>3 DEF R!FindsStart
  <2>4. CASE R!FindSeekFails(k) BY <1>6, <2>4 DEF R!FindSeekFails
  <2>5. CASE R!CrossSessionEnd(k) BY <1>6, <1>7, <2>5 DEF R!CrossSessionEnd
  <2>6. CASE R!CrossFollows(k) BY <1>3, <2>6 DEF R!CrossFollows
  <2>7. CASE R!CrossRejects(k) BY <1>7, <2>7 DEF R!CrossRejects
  <2> QED BY <1>15, <2>1, <2>2, <2>3, <2>4, <2>5, <2>6, <2>7
<1> QED BY <1>8, <1>9, <1>10, <1>11, <1>12, <1>13, <1>14, <1>15
      DEF R!Next, R!Call, R!Step

LEMMA PendingStep ==
  ASSUME SystemInv, SystemInv', PendingLast, R!Next
  PROVE  PendingLast'
<1>1. /\ SystemTypes /\ ReaderInv /\ PlaceTypes /\ PlaceTypes' /\ disk' = disk
      /\ Len(pending) \in Nat /\ Len(disk) \in Nat
  BY ReaderStep DEF SystemInv, ReaderInv, SystemTypes, PlaceTypes
<1>2. R!AtEof' => pending' = <<>> /\ current' = R!NoFile
  BY EndReached DEF R!ReadAtEnd, R!FindNone
<1>3. ASSUME NEW k \in 0 .. Len(pending) - 1, current' = R!NoFile,
             pending' = R!Behind(k) \/ pending' = R!Behind(k + 1)
      PROVE  PendingLast'
  <2>1. \A p \in 1 .. Len(pending') : pending'[p] = Reached' + p BY <1>1, <1>3, FilesTaken
  <2> QED BY <1>2, <1>3, <2>1 DEF PendingLast
<1>4. ASSUME pending' = pending,
             current' # R!NoFile => current # R!NoFile /\ current'.file = current.file
      PROVE  PendingLast'
  <2>1. Reached' = Reached BY <1>1, <1>4 DEF Reached
  <2> QED BY <1>2, <1>4, <2>1 DEF PendingLast
<1>5. ASSUME pending' = <<>>, current' = R!NoFile PROVE PendingLast'
  BY <1>5 DEF PendingLast
<1>6. ASSUME NEW k \in 0 .. Len(pending) - 1, R!Opens(k, FALSE, 0),
             current' # R!NoFile, current'.file = pending[k + 1]
      PROVE  PendingLast'
  <2>1. pending' = R!Behind(k + 1) BY <1>6 DEF R!Opens
  <2>2. /\ \A p \in 1 .. Len(pending') : pending'[p] = Reached' + p
        /\ pending[k + 1] = Reached + k + 1 /\ Reached' = Reached + k + 1
    BY <1>1, <2>1, FilesTaken
  <2> QED BY <1>2, <1>6, <2>2 DEF PendingLast
<1>7. CASE R!ReadAtEnd BY <1>5, <1>7 DEF R!ReadAtEnd
<1>8. CASE \E n \in BufLens : R!Read(n) BY <1>4, <1>8 DEF R!Read, R!place
<1>9. CASE R!FindNone \/ R!CrossNone BY <1>5, <1>9 DEF R!FindNone, R!CrossNone
<1>10. CASE R!ReadPiece
  <2>1. pending' = pending /\ current' = [current EXCEPT !.pos = @ + R!Piece] /\ current # R!NoFile
    BY <1>1, <1>10, PieceIs DEF R!ReadPiece
  <2>2. current \in [file : 1 .. Len(disk), pos : Nat, len : Nat] BY <1>1, <2>1 DEF PlaceTypes
  <2>3. current'.file = current.file BY <2>1, <2>2
  <2> QED BY <1>4, <2>1, <2>3
<1>11. CASE R!PieceFails BY <1>4, <1>11 DEF R!PieceFails
<1>12. CASE R!HeaderDone
  <2>1. CASE UNCHANGED R!place BY <1>4, <2>1 DEF R!place
  <2>2. CASE ~ UNCHANGED R!place
    <3>1. pending' = <<current.file>> \o pending /\ current' = R!NoFile /\ current # R!NoFile
      BY <1>1, <1>12, <2>2 DEF R!HeaderDone, ReaderInv, Anchored, R!Reading
    <3>2. PICK f : f = current.file OBVIOUS
    <3>3. f \in 1 .. Len(disk) /\ f = Reached /\ pending \in Seq(1 .. Len(disk))
      BY <1>1, <3>1, <3>2, CurrentIs DEF PendingLast, PlaceTypes
    <3>4. <<f>> \in Seq(1 .. Len(disk)) /\ Len(<<f>>) = 1 /\ <<f>>[1] = f BY <3>3
    <3>5. /\ Len(pending') = 1 + Len(pending) /\ pending'[1] = f
          /\ \A p \in 1 .. Len(pending) : pending'[1 + p] = pending[p]
      <4>1. PICK q : q = <<f>> OBVIOUS
      <4>2. q \in Seq(1 .. Len(disk)) /\ Len(q) = 1 /\ q[1] = f /\ pending' = q \o pending
        BY <3>1, <3>2, <3>4, <4>1
      <4>3. PICK S : S = 1 .. Len(disk) OBVIOUS
      <4>4. q \in Seq(S) /\ pending \in Seq(S) BY <3>3, <4>2, <4>3
      <4>5. /\ Len(q \o pending) = Len(q) + Len(pending)
            /\ \A i \in 1 .. Len(q) : (q \o pending)[i] = q[i]
            /\ \A i \in 1 .. Len(pending) : (q \o pending)[Len(q) + i] = pending[i]
        BY <4>4, Joins
      <4>6. 1 \in 1 .. Len(q) BY <4>2
      <4> QED BY <4>2, <4>5, <4>6
    <3>6. Reached' = Reached - 1 /\ Reached \in Int BY <1>1, <3>5 DEF Reached
    <3>7. ASSUME NEW p \in 1 .. Len(pending') PROVE pending'[p] = Reached' + p
      <4>1. CASE p = 1 BY <3>3, <3>5, <3>6, <4>1
      <4>2. CASE p # 1
        <5>1. PICK q \in 1 .. Len(pending) : p = 1 + q
          <6>1. p - 1 \in 1 .. Len(pending) /\ p = 1 + (p - 1) BY <1>1, <3>5, <4>2
          <6> QED BY <6>1
        <5>2. pending'[p] = pending[q] /\ pending[q] = Reached + q
          BY <3>5, <5>1 DEF PendingLast
        <5> QED BY <3>6, <5>1, <5>2
      <4> QED BY <4>1, <4>2
    <3> QED BY <1>2, <3>1, <3>7 DEF PendingLast
  <2> QED BY <2>1, <2>2
<1>13. CASE R!PayloadDone \/ R!SkipDone BY <1>4, <1>13 DEF R!PayloadDone, R!SkipDone, R!place
<1>14. ASSUME NEW k \in 0 .. Len(pending) - 1,
              \/ R!FindSessionEnd(k) \/ R!FindDiscards(k) \/ R!FindsStart(k)
              \/ R!FindSeekFails(k)
              \/ R!CrossSessionEnd(k) \/ R!CrossFollows(k) \/ R!CrossRejects(k)
       PROVE  PendingLast'
  <2>1. CASE \/ R!FindSessionEnd(k) \/ R!FindDiscards(k) \/ R!FindSeekFails(k)
             \/ R!CrossSessionEnd(k) \/ R!CrossRejects(k)
    <3>1. R!EndsSession(k) \/ \E handBack, more : R!Opens(k, handBack, more)
      BY <2>1 DEF R!FindSessionEnd, R!FindDiscards, R!FindSeekFails, R!CrossSessionEnd,
                  R!CrossRejects
    <3>2. pending' = R!Behind(k) \/ pending' = R!Behind(k + 1)
      BY <3>1 DEF R!EndsSession, R!Opens
    <3>3. current' = R!NoFile
      BY <2>1 DEF R!FindSessionEnd, R!FindDiscards, R!FindSeekFails, R!CrossSessionEnd,
                  R!CrossRejects
    <3> QED BY <1>3, <3>2, <3>3
  <2>2. CASE R!CrossFollows(k) \/ R!FindsStart(k)
    <3>1. PICK f, p : /\ f = pending[k + 1] /\ current' = R!Open(f, p)
                      /\ p = IF R!CrossFollows(k) \/ R!Recovers(f) THEN 0 ELSE disk[f].remaining
      BY <2>2 DEF R!CrossFollows, R!FindsStart
    <3>2. R!Opens(k, FALSE, 0) BY <2>2 DEF R!CrossFollows, R!FindsStart
    <3>3. k + 1 \in 1 .. Len(pending) BY <1>1
    <3>4. f \in 1 .. Len(disk)
      <4>1. pending \in Seq(1 .. Len(disk)) BY <1>1 DEF PlaceTypes
      <4>2. pending[k + 1] \in 1 .. Len(disk) BY <3>3, <4>1
      <4> QED BY <3>1, <4>2
    <3>5. current'.file = f BY <3>1 DEF R!Open
    <3>6. current' # R!NoFile BY <3>4, <3>5 DEF R!NoFile
    <3> QED BY <1>6, <3>1, <3>2, <3>5, <3>6
  <2> QED BY <1>14, <2>1, <2>2
<1> QED BY <1>7, <1>8, <1>9, <1>10, <1>11, <1>12, <1>13, <1>14 DEF R!Next, R!Call, R!Step

LEMMA BufferStep ==
  ASSUME SystemInv, BufferGiven, R!Next
  PROVE  BufferGiven'
<1>1. CASE R!Call
  BY <1>1 DEF R!Call, R!ReadAtEnd, R!Return, R!EndCall, R!Read, R!FreshStart, BufferGiven
<1>2. ASSUME \E x : R!Return(x) \/ R!Fails(x) PROVE BufferGiven'
  BY <1>2 DEF R!Fails, R!Return, R!EndCall, BufferGiven
<1>3. ASSUME bufLen' = bufLen, rpc # "idle" PROVE BufferGiven' BY <1>3 DEF BufferGiven
<1>4. CASE R!Step
  BY <1>2, <1>3, <1>4 DEF R!Step, R!FindNone, R!CrossNone, R!FindSessionEnd, R!FindDiscards,
     R!FindsStart, R!FreshStart, R!FindSeekFails, R!CrossSessionEnd, R!CrossFollows,
     R!CrossRejects, R!ReadPiece, R!PieceFails, R!HeaderDone, R!PayloadDone, R!SkipDone,
     R!Crossing, R!Reading, R!call
<1> QED BY <1>1, <1>4 DEF R!Next

-----------------------------------------------------------------------------
(* Where the bytes of a record are.                                        *)

\* A byte is in one place only.
LEMMA OneByte ==
  ASSUME Known, NEW i \in 1 .. Len(Segments), NEW a \in 1 .. Len(Segments[i].data),
         NEW j \in 1 .. Len(Segments), NEW c \in 1 .. Len(Segments[j].data),
         Segments[i].data[a] = Segments[j].data[c]
  PROVE  i = j /\ a = c
<1>1. PICK b : b = Segments[i].data[a] OBVIOUS
<1>2. b[1] \in Nat /\ b[2] \in Nat /\ a \in Nat BY <1>1, ByteIs
<1>3. c \in Nat /\ b = Segments[j].data[c]
  <2>1. PICK e : e = Segments[j].data[c] OBVIOUS
  <2> QED BY <1>1, <2>1, ByteIs
<1>4. i \in Nat /\ j \in Nat BY SegmentIs
<1>5. ~ Before(b, b) BY <1>2 DEF Before
<1>6. ~ Before(<<i, a>>, <<j, c>>) /\ ~ Before(<<j, c>>, <<i, a>>)
  BY <1>1, <1>3, <1>5 DEF Known, Truth, SegmentsOrdered
<1> QED BY <1>2, <1>3, <1>4, <1>6 DEF Before

\* Of the tail of a record, which a file begins with, no byte is a first one.
LEMMA NoStartInTail ==
  ASSUME Known, NEW i \in 1 .. Len(Segments), NEW n \in 1 .. Len(Segments[i].data),
         n <= Segments[i].remaining, NEW r, Segments[i].data[n] = <<r, 1>>
  PROVE  FALSE
<1>1. n \in Nat \ {0} /\ Segments[i].remaining \in Nat /\ Len(Segments[i].data) \in Nat
  BY SegmentIs
<1>2. Segments[i].remaining # 0 /\ 1 \in 1 .. Len(Segments[i].data) BY <1>1
<1>3. PICK b : b = Segments[i - 1].data[DataLen] OBVIOUS
<1>4. /\ i - 1 \in 1 .. Len(Segments) /\ DataLen \in 1 .. Len(Segments[i - 1].data)
      /\ Segments[i].remaining = Size(b[1]) - b[2]
      /\ Segments[i].data # <<>> => Segments[i].data[1] = <<b[1], b[2] + 1>>
  BY <1>2, <1>3, TailIs
<1>5. b[1] \in 1 .. Len(Written) /\ b[2] \in 1 .. Size(b[1]) /\ b[2] \in Nat
  BY <1>3, <1>4, ByteIs
<1>6. Size(b[1]) \in Nat BY <1>5, SizeIs
<1>7. Segments[i].data[1] = <<b[1], b[2] + 1>>
  <2>1. Segments[i].data # <<>> BY <1>2
  <2> QED BY <1>4, <2>1
<1>8. PICK o, e, s : o = b[2] + 1 /\ e = o + (n - 1) /\ s = b[1] OBVIOUS
<1>9. o \in Nat /\ e <= Size(s) /\ e \in Nat /\ e > 1
  <2>1. PICK m, d : m = Size(b[1]) /\ d = b[2] OBVIOUS
  <2>2. n <= m - d /\ d \in Nat /\ m \in Nat /\ d >= 1 BY <1>4, <1>5, <1>6, <2>1
  <2>3. o = d + 1 /\ e = o + (n - 1) /\ m = Size(s) BY <1>8, <2>1
  <2>4. o \in Nat /\ e <= m /\ e \in Nat /\ e > 1 BY <1>1, <2>2, <2>3
  <2> QED BY <2>3, <2>4
<1>10. 1 <= n /\ Segments[i].data[1] = <<s, o>> BY <1>1, <1>7, <1>8
<1>11. Segments[i].data[n] = <<s, e>>
  <2>1. PICK one : one = 1 OBVIOUS
  <2>2. /\ one \in 1 .. Len(Segments[i].data) /\ one <= n /\ Segments[i].data[one] = <<s, o>>
        /\ e = o + (n - one)
    BY <1>2, <1>8, <1>10, <2>1
  <2> QED BY <1>9, <2>2, RunFrom
<1> QED BY <1>9, <1>11

\* What is behind a byte in its file is the next of its record, or the first of another.
LEMMA ByteBehind ==
  ASSUME Known, NEW j \in 1 .. Len(Segments), NEW l \in 1 .. Len(Segments[j].data),
         NEW m \in 1 .. Len(Segments[j].data), m = l + 1, NEW b, b = Segments[j].data[l]
  PROVE  Segments[j].data[m][2] = 1 \/ Segments[j].data[m] = <<b[1], b[2] + 1>>
<1>1. l \in Nat /\ m \in Nat /\ l < m /\ l <= m BY SegmentIs
<1>2. b = <<b[1], b[2]>> /\ b[1] \in 1 .. Len(Written) /\ b[2] \in Nat /\ b[2] \in 1 .. Size(b[1])
  BY ByteIs
<1>3. Size(b[1]) \in Nat BY <1>2, SizeIs
<1>4. CASE b[2] = Size(b[1])
  BY <1>1, <1>4 DEF Known, Truth, SegmentsFlow, Lasts
<1>5. CASE b[2] # Size(b[1])
  <2>1. PICK e, s, t, z : e = t + 1 /\ s = b[1] /\ t = b[2] /\ z = Size(b[1]) OBVIOUS
  <2>2. t \in Nat /\ z \in Nat /\ t \in 1 .. z /\ t # z BY <1>2, <1>3, <1>5, <2>1
  <2>3. e = t + (m - l) /\ e <= z BY <1>1, <2>1, <2>2
  <2>4. Segments[j].data[l] = <<s, t>> /\ z = Size(s) BY <1>2, <2>1
  <2>5. Segments[j].data[m] = <<s, e>> BY <1>1, <2>2, <2>3, <2>4, RunFrom
  <2> QED BY <2>1, <2>5
<1> QED BY <1>4, <1>5

\* The first byte of a file is the first of a record, or behind the last of the file before.
LEMMA ByteFirst ==
  ASSUME Known, NEW j \in 1 .. Len(Segments), 1 \in 1 .. Len(Segments[j].data)
  PROVE  \/ Segments[j].data[1][2] = 1
         \/ /\ Segments[j].remaining # 0 /\ j - 1 \in 1 .. Len(Segments)
            /\ DataLen \in 1 .. Len(Segments[j - 1].data)
            /\ \E r, o : /\ Segments[j - 1].data[DataLen] = <<r, o>> /\ o \in Nat
                         /\ Segments[j].data[1] = <<r, o + 1>>
<1>1. Segments[j].data # <<>> OBVIOUS
<1>2. CASE Segments[j].remaining = 0
  <2>1. Segments[j].data[1] = <<Segments[j].data[1][1], 1>>
    BY <1>1, <1>2 DEF Known, Truth, SegmentsFollow
  <2> QED BY <2>1
<1>3. CASE Segments[j].remaining # 0
  <2>1. PICK b : b = Segments[j - 1].data[DataLen] OBVIOUS
  <2>2. /\ j - 1 \in 1 .. Len(Segments) /\ DataLen \in 1 .. Len(Segments[j - 1].data)
        /\ Segments[j].data[1] = <<b[1], b[2] + 1>>
    BY <1>1, <1>3, <2>1, TailIs
  <2>3. b = <<b[1], b[2]>> /\ b[2] \in Nat BY <2>1, <2>2, ByteIs
  <2> QED BY <1>3, <2>1, <2>2, <2>3
<1> QED BY <1>2, <1>3

\* The byte of its record behind byte b; and that byte b is at place a of file i.
After(b) == <<b[1], b[2] + 1>>
At(b, i, a) ==
  i \in 1 .. Len(Segments) /\ a \in 1 .. Len(Segments[i].data) /\ Segments[i].data[a] = b

LEMMA AtIs ==
  ASSUME Known, NEW b, NEW i, NEW a, At(b, i, a)
  PROVE  /\ i \in Nat /\ a \in Nat \ {0}
         /\ b = <<b[1], b[2]>> /\ b[2] \in Nat \ {0}
<1>1. i \in 1 .. Len(Segments) /\ a \in 1 .. Len(Segments[i].data) /\ Segments[i].data[a] = b
  BY DEF At
<1>2. i \in Nat /\ a \in Nat \ {0} BY <1>1, SegmentIs
<1>3. b = <<b[1], b[2]>> /\ b[2] \in Nat /\ b[2] \in 1 .. Size(b[1]) BY <1>1, ByteIs
<1>4. b[2] >= 1 BY <1>3
<1> QED BY <1>2, <1>3, <1>4

LEMMA OneAt ==
  ASSUME Known, NEW b, NEW i, NEW a, At(b, i, a), NEW j, NEW c, At(b, j, c)
  PROVE  i = j /\ a = c
<1>1. i \in 1 .. Len(Segments) /\ a \in 1 .. Len(Segments[i].data) /\ Segments[i].data[a] = b
  BY DEF At
<1>2. j \in 1 .. Len(Segments) /\ c \in 1 .. Len(Segments[j].data) /\ Segments[j].data[c] = b
  BY DEF At
<1> QED BY <1>1, <1>2, OneByte

\* What is before a byte that is not the first of its record is the one before it, in its
\* file or at the end of the file before.
LEMMA ByteAfter ==
  ASSUME Known, NEW d, NEW j, NEW m, At(d, j, m), d[2] # 1
  PROVE  \E z, i, a :
           /\ At(z, i, a) /\ d = After(z)
           /\ \/ i = j /\ m = a + 1
              \/ i = j - 1 /\ m = 1 /\ a = DataLen /\ Segments[j].remaining # 0
<1>1. j \in 1 .. Len(Segments) /\ m \in 1 .. Len(Segments[j].data) /\ Segments[j].data[m] = d
  BY DEF At
<1>2. j \in Nat /\ m \in Nat \ {0} BY AtIs
<1>3. CASE m = 1
  <2>1. 1 \in 1 .. Len(Segments[j].data) /\ Segments[j].data[1] = d BY <1>1, <1>3
  <2>2. \/ Segments[j].data[1][2] = 1
        \/ /\ Segments[j].remaining # 0 /\ j - 1 \in 1 .. Len(Segments)
           /\ DataLen \in 1 .. Len(Segments[j - 1].data)
           /\ \E r, o : /\ Segments[j - 1].data[DataLen] = <<r, o>> /\ o \in Nat
                        /\ Segments[j].data[1] = <<r, o + 1>>
    BY <1>1, <2>1, ByteFirst, ZenonT(30)
  <2>3. PICK r, o : /\ Segments[j - 1].data[DataLen] = <<r, o>> /\ d = <<r, o + 1>>
                    /\ Segments[j].remaining # 0 /\ j - 1 \in 1 .. Len(Segments)
                    /\ DataLen \in 1 .. Len(Segments[j - 1].data)
    BY <2>1, <2>2
  <2>4. PICK z : z = <<r, o>> OBVIOUS
  <2>5. At(z, j - 1, DataLen) BY <2>3, <2>4 DEF At
  <2>6. d = After(z) BY <2>3, <2>4 DEF After
  <2> QED BY <1>3, <2>3, <2>5, <2>6
<1>4. CASE m # 1
  <2>1. PICK l, z : l = m - 1 /\ z = Segments[j].data[l] OBVIOUS
  <2>2. l \in 1 .. Len(Segments[j].data) /\ m = l + 1 BY <1>1, <1>2, <1>4, <2>1, SegmentIs
  <2>3. Segments[j].data[m][2] = 1 \/ Segments[j].data[m] = <<z[1], z[2] + 1>>
    BY <1>1, <2>1, <2>2, ByteBehind, ZenonT(30)
  <2>4. d = After(z) BY <1>1, <2>3 DEF After
  <2>5. At(z, j, l) BY <1>1, <2>1, <2>2 DEF At
  <2> QED BY <2>2, <2>4, <2>5
<1> QED BY <1>3, <1>4

\* The byte behind one of a record is in the next place of its file, or the first of the
\* file made next, when that file is full.
LEMMA NextByte ==
  ASSUME Known, NEW b, NEW y, NEW c, At(b, y, c), NEW j, NEW m, At(After(b), j, m)
  PROVE  \/ j = y /\ m = c + 1
         \/ j = y + 1 /\ m = 1 /\ c = DataLen /\ Segments[j].remaining # 0
<1>1. PICK d : d = After(b) OBVIOUS
<1>2. b = <<b[1], b[2]>> /\ b[2] \in Nat \ {0} BY AtIs
<1>3. d[2] = b[2] + 1 /\ d[2] # 1 /\ At(d, j, m) /\ j \in Nat
  <2>1. d[2] = b[2] + 1 BY <1>1 DEF After
  <2> QED BY <1>1, <1>2, <2>1, AtIs
<1>4. PICK z, i, a :
        /\ At(z, i, a) /\ d = After(z)
        /\ \/ i = j /\ m = a + 1
           \/ i = j - 1 /\ m = 1 /\ a = DataLen /\ Segments[j].remaining # 0
  BY <1>3, ByteAfter
<1>5. z = b
  <2>1. z = <<z[1], z[2]>> /\ z[2] \in Nat BY <1>4, AtIs
  <2>2. z[1] = b[1] /\ z[2] + 1 = b[2] + 1 BY <1>1, <1>4 DEF After
  <2>3. z[2] = b[2] BY <1>2, <2>1, <2>2
  <2> QED BY <1>2, <2>1, <2>2, <2>3
<1>6. i = y /\ a = c BY <1>4, <1>5, OneAt
<1> QED BY <1>3, <1>4, <1>6

LEMMA ReadsUnderway ==
  ASSUME CallSound, NEW r, Underway(r)
  PROVE  r \in 1 .. Len(lens) /\ Reads(r)
<1>1. PICK s \in 1 .. Len(lens) : Reads(s) BY DEF CallSound, Underway
<1>2. s = r BY <1>1, SameRecord DEF Reads, Underway
<1> QED BY <1>1, <1>2

\* The byte that position p of file i is behind.
LEMMA ByteBefore ==
  ASSUME Known, NEW i \in 1 .. Len(Segments), NEW p \in 0 .. Len(Segments[i].data),
         NEW r, NEW o, Within(i, p, r, o)
  PROVE  At(<<r, o>>, IF p = 0 THEN i - 1 ELSE i, IF p = 0 THEN DataLen ELSE p)
<1>1. CASE p = 0
  <2>1. /\ i - 1 \in 1 .. Len(Segments) /\ DataLen \in 1 .. Len(Segments[i - 1].data)
        /\ Segments[i - 1].data[DataLen] = <<r, o>>
    BY <1>1, TailIs DEF Within
  <2>2. At(<<r, o>>, i - 1, DataLen) BY <2>1 DEF At
  <2> QED BY <1>1, <2>2
<1>2. CASE p # 0
  <2>1. p \in 1 .. Len(Segments[i].data) BY <1>2, SegmentIs
  <2>2. At(<<r, o>>, i, p) BY <1>2, <2>1 DEF Within, At
  <2> QED BY <1>2, <2>2
<1> QED BY <1>1, <1>2

\* The file that is pending next, where it is the one made behind the open one.
LEMMA NextPending ==
  ASSUME Found, PendingLast, current # R!NoFile, NEW g \in 1 .. Len(disk), NEW h, h = Here,
         No(g) = h + 1
  PROVE  1 \in 1 .. Len(pending) /\ g = pending[1]
<1>1. /\ SystemInv /\ Known /\ DiskInv /\ CurrentSound /\ SystemTypes /\ PlaceTypes
      /\ Len(pending) \in Nat
  BY FoundIs
<1>2. PICK f : f = current.file OBVIOUS
<1>3. h \in 1 .. Len(Segments) /\ f \in 1 .. Len(disk) /\ h = No(f) BY <1>1, <1>2, PlaceIs
<1>4. h \in Nat /\ f \in Nat /\ g \in Nat /\ Len(disk) \in Nat
  BY <1>1, <1>3, SegmentIs DEF SystemTypes
<1>5. f = Len(disk) - Len(pending) BY <1>2 DEF PendingLast, Reached
<1>6. f < g
  <2>1. g # f BY <1>3, <1>4
  <2>2. ~ (g < f)
    <3>1. ASSUME g < f PROVE FALSE
      <4>1. No(g) < No(f) BY <1>1, <1>3, <3>1 DEF DiskInv, DiskOrdered
      <4> QED BY <1>3, <1>4, <4>1
    <3> QED BY <3>1
  <2> QED BY <1>4, <2>1, <2>2
<1>7. 1 \in 1 .. Len(pending) BY <1>1, <1>4, <1>5, <1>6
<1>8. pending[1] = f + 1
  <2>1. pending[1] = Reached + 1 BY <1>7 DEF PendingLast
  <2> QED BY <1>5, <2>1 DEF Reached
<1>9. ASSUME g # f + 1 PROVE FALSE
  <2>1. PICK e : e = f + 1 OBVIOUS
  <2>2. e \in 1 .. Len(disk) /\ f < e /\ e < g BY <1>3, <1>4, <1>6, <1>9, <2>1
  <2>3. No(f) < No(e) /\ No(e) < No(g) BY <1>1, <1>3, <2>2 DEF DiskInv, DiskOrdered
  <2>4. No(e) \in Nat
    <3>1. disk[e] \in Segment BY <1>1, <2>2 DEF SystemTypes
    <3> QED BY <3>1 DEF Segment, No
  <2> QED BY <1>3, <1>4, <2>3, <2>4
<1> QED BY <1>7, <1>8, <1>9

\* The byte behind the one that position p of file i is behind is behind that position in
\* its file, or in the file made next.
LEMMA ByteBeyond ==
  ASSUME Known, NEW i \in 1 .. Len(Segments), NEW p \in 0 .. Len(Segments[i].data),
         NEW r, NEW o, Within(i, p, r, o), NEW j, NEW m, At(After(<<r, o>>), j, m)
  PROVE  \/ j = i /\ m > p
         \/ p = DataLen /\ j = i + 1 /\ Segments[j].remaining # 0
<1>1. PICK b, y, c : /\ y = (IF p = 0 THEN i - 1 ELSE i) /\ c = (IF p = 0 THEN DataLen ELSE p)
                     /\ b = <<r, o>>
  OBVIOUS
<1>2. At(b, y, c) BY <1>1, ByteBefore
<1>3. \/ j = y /\ m = c + 1
      \/ j = y + 1 /\ m = 1 /\ c = DataLen /\ Segments[j].remaining # 0
  BY <1>1, <1>2, NextByte
<1>4. /\ y \in Nat /\ j \in Nat /\ c \in Nat \ {0} /\ m \in Nat \ {0} BY <1>2, AtIs
<1>5. i \in Nat /\ p \in Nat BY SegmentIs
<1>6. CASE p = 0
  <2>1. y = i - 1 /\ c = DataLen BY <1>1, <1>6
  <2>2. ~ (j = y /\ m = c + 1)
    <3>1. m <= DataLen BY SegmentIs DEF At
    <3> QED BY <1>4, <2>1, <3>1
  <2> QED BY <1>3, <1>4, <1>5, <1>6, <2>1, <2>2
<1>7. CASE p # 0
  <2>1. y = i /\ c = p BY <1>1, <1>7
  <2> QED BY <1>3, <1>4, <1>5, <2>1
<1> QED BY <1>6, <1>7

\* The open file has run out within a record known that survives: what is behind it is
\* in the file that was made next, and that is pending next.
LEMMA NextHolds ==
  ASSUME Found, PendingLast, OpenedWhole, R!Exhausted, current # R!NoFile,
         NEW r, r <= known, NEW o, NEW b, b = <<r, o>>, NEW h, h = Here, Within(h, current.pos, r, o),
         NEW g \in 1 .. Len(disk), disk[g].whole, NEW m \in 1 .. Len(disk[g].data),
         disk[g].data[m] = After(b)
  PROVE  /\ h \in 1 .. Len(Segments) /\ current.pos = DataLen /\ h + 1 \in 1 .. Len(Segments)
         /\ Segments[h + 1].remaining # 0
         /\ No(g) = h + 1 /\ 1 \in 1 .. Len(pending) /\ g = pending[1]
<1>1. /\ SystemInv /\ Known /\ DiskInv /\ CurrentSound /\ SystemTypes BY FoundIs
<1>2. PICK f, p : f = current.file /\ p = current.pos OBVIOUS
<1>3. /\ h \in 1 .. Len(Segments) /\ f \in 1 .. Len(disk) /\ h = No(f)
      /\ p \in Nat /\ current.len \in Nat /\ p \in 0 .. Len(Segments[h].data)
      /\ p <= current.len
  BY <1>1, <1>2, PlaceIs
<1>4. p >= current.len BY <1>2 DEF R!Exhausted
<1>5. PICK j : j = No(g) OBVIOUS
<1>6. /\ j \in 1 .. Len(Segments) /\ FrontOf(disk[g], Segments[j])
      /\ Len(disk[g].data) <= Len(Segments[j].data) /\ Len(disk[g].data) \in Nat
  BY <1>1, <1>5, FileIs
<1>7. At(After(b), j, m) /\ m \in 1 .. Len(Segments[j].data)
  <2>1. Len(Segments[j].data) \in Nat BY <1>1, <1>6, SegmentIs
  <2>2. m \in 1 .. Len(Segments[j].data) BY <1>6, <2>1
  <2>3. Segments[j].data[m] = disk[g].data[m] BY <1>6 DEF FrontOf
  <2> QED BY <1>6, <2>2, <2>3 DEF At
<1>8. \/ j = h /\ m > p
      \/ p = DataLen /\ j = h + 1 /\ Segments[j].remaining # 0
  <2>1. Within(h, p, r, o) BY <1>2
  <2> QED BY <1>1, <1>3, <1>7, <2>1, ByteBeyond
<1>11. /\ h \in Nat /\ m \in Nat /\ Len(Segments[j].data) \in Nat
  <2>1. h \in Nat BY <1>1, <1>3, SegmentIs
  <2>2. Len(Segments[j].data) \in Nat BY <1>1, <1>6, SegmentIs
  <2> QED BY <2>1, <2>2
<1>12. ASSUME j = h PROVE g = f
  <2>1. No(g) = No(f) /\ No(f) \in Nat BY <1>3, <1>5, <1>11, <1>12
  <2>2. ~ (No(g) < No(f)) /\ ~ (No(f) < No(g)) BY <2>1
  <2>3. ~ (g < f) /\ ~ (f < g) BY <1>1, <1>3, <2>2 DEF DiskInv, DiskOrdered
  <2>4. g \in Nat /\ f \in Nat BY <1>1, <1>3 DEF SystemTypes
  <2> QED BY <2>3, <2>4
<1>13. ASSUME j = h, m > p PROVE FALSE
  <2>1. g = f BY <1>12, <1>13
  <2>2. m \in current.len + 1 .. Len(disk[f].data) BY <1>3, <1>4, <1>6, <1>11, <1>13, <2>1
  <2>3. ~ (disk[f].data[m][1] <= known) BY <1>2, <2>2 DEF OpenedWhole
  <2>4. disk[f].data[m][1] = r
    <3>1. After(b)[1] = r BY DEF After
    <3> QED BY <2>1, <3>1
  <2> QED BY <2>3, <2>4
<1>14. p = DataLen /\ j = h + 1 /\ Segments[j].remaining # 0 BY <1>8, <1>13
<1>15. 1 \in 1 .. Len(pending) /\ g = pending[1] BY <1>5, <1>14, NextPending
<1> QED BY <1>2, <1>3, <1>5, <1>6, <1>14, <1>15

\* What a record that survives still has to come is in a file that opens.
LEMMA MoreSurvives ==
  ASSUME Found, NEW r \in 1 .. Len(lens), Survives(r), NEW o \in Nat, o < Size(r)
  PROVE  \E g \in 1 .. Len(disk) : disk[g].whole /\
           \E m \in 1 .. Len(disk[g].data) : disk[g].data[m] = After(<<r, o>>)
<1>1. PICK e : e = o + 1 OBVIOUS
<1>2. lens = Written /\ Known BY FoundIs
<1>3. Size(r) \in Nat /\ Size(r) = TotalLen(lens[r]) BY <1>2, SizeIs DEF Size
<1>4. e \in 1 .. TotalLen(lens[r]) BY <1>1, <1>3
<1>5. After(<<r, o>>) = <<r, e>> BY <1>1 DEF After
<1> QED BY <1>4, <1>5 DEF Survives

\* Where the open file runs out within a record known that survives, the next pending
\* opens, is of the session being read, and follows.
LEMMA NextFollows ==
  ASSUME Found, PendingLast, OpenedWhole, R!Crossing, NEW r, r <= known, Survives(r), Underway(r)
  PROVE  /\ 1 \in 1 .. Len(pending) /\ R!Valid(pending[1])
         /\ session = <<disk[pending[1]].session>>
         /\ R!Follows(pending[1])
<1>1. /\ SystemInv /\ SystemTypes /\ Known /\ DiskInv /\ CurrentSound /\ CallSound
      /\ SequencesLeft /\ lens = Written /\ CallTypes /\ CallShape
  BY FoundIs
<1>2. r \in 1 .. Len(lens) /\ Reads(r) BY <1>1, ReadsUnderway
<1>3. R!Reading /\ need > 0 /\ R!Exhausted /\ current # R!NoFile
  BY FoundIs DEF R!Crossing, Anchored
<1>4. PICK o, h : o = consumed /\ h = Here OBVIOUS
<1>5. o \in Nat /\ o # 0 BY <1>1, <1>4 DEF CallTypes, Underway
<1>6. o < Size(r) /\ (rpc \in {"payload", "skip"} => total = <<Size(r)>> /\ total[1] = Size(r))
  BY <1>1, <1>2, <1>3, <1>4, MoreToCome
<1>7. PICK g \in 1 .. Len(disk) : disk[g].whole /\
           \E m \in 1 .. Len(disk[g].data) : disk[g].data[m] = After(<<r, o>>)
  BY <1>2, <1>5, <1>6, MoreSurvives
<1>8. PICK m \in 1 .. Len(disk[g].data) : disk[g].data[m] = After(<<r, o>>) BY <1>7
<1>9. Within(h, current.pos, r, o) BY <1>4 DEF Underway
<1>10. PICK n, b : n = h + 1 /\ b = <<r, o>> OBVIOUS
<1>11. /\ h \in 1 .. Len(Segments) /\ current.pos = DataLen /\ n \in 1 .. Len(Segments)
       /\ Segments[n].remaining # 0
       /\ No(g) = n /\ 1 \in 1 .. Len(pending) /\ g = pending[1]
  <2>1. disk[g].data[m] = After(b) BY <1>8, <1>10
  <2>2. /\ h \in 1 .. Len(Segments) /\ current.pos = DataLen /\ h + 1 \in 1 .. Len(Segments)
        /\ Segments[h + 1].remaining # 0
        /\ No(g) = h + 1 /\ 1 \in 1 .. Len(pending) /\ g = pending[1]
    BY <1>3, <1>4, <1>7, <1>9, <1>10, <2>1, NextHolds
  <2> QED BY <1>10, <2>2
<1>12. /\ disk[g].session = Segments[n].session /\ disk[g].seq = Segments[n].seq
       /\ disk[g].remaining = Segments[n].remaining
  <2>1. n = No(g) BY <1>11
  <2> QED BY <1>1, <1>7, <2>1, FileIs
<1>13. h = n - 1 /\ n > h /\ h \in Nat /\ n \in Nat BY <1>1, <1>10, <1>11, SegmentIs
<1>14. Segments[n].seq # 0 /\ Len(Segments[h].data) = DataLen
  <2>1. PICK z : z = Segments[n - 1].data[DataLen] OBVIOUS
  <2>2. Segments[n].seq # 0 /\ Len(Segments[n - 1].data) = DataLen BY <1>1, <1>11, <2>1, TailIs
  <2> QED BY <1>13, <2>2
<1>15. Segments[n].session = Segments[h].session
  BY <1>11, <1>13, <1>14, <1>1 DEF Known, Truth, SegmentsFollow
<1>16. Segments[n].seq = Segments[h].seq + 1
  <2>1. Run(h, n)
    <3>1. h + 1 .. n = {n} BY <1>13
    <3> QED BY <1>13, <1>14, <3>1 DEF Run
  <2>2. Segments[h + 1].seq = Segments[h].seq + 1 BY <1>1, <1>11, <2>1, RunNext
  <2> QED BY <1>10, <2>2
<1>17. Segments[n].remaining = Size(r) - o
  <2>1. PICK s \in 1 .. Len(Written) : Reads(s) /\ Segments[n].remaining = Size(s) - consumed
    <3>1. current.pos = DataLen /\ h = Here /\ n = h + 1 BY <1>4, <1>10, <1>11
    <3> QED BY <1>3, <1>4, <1>5, <1>11, <1>14, <3>1, RestOwed
  <2>2. s = r BY <1>2, <2>1, SameRecord DEF Reads
  <2> QED BY <1>4, <2>1, <2>2
<1>18. session = <<Segments[h].session>> /\ prevSeq = <<Segments[h].seq>>
  BY <1>1, <1>3, <1>4 DEF CurrentSound
<1>19. ~ R!Short
  <2>1. /\ current.pos \in Nat /\ current.len \in Nat /\ current.pos <= current.len
    BY <1>1, <1>3, <1>4, PlaceIs
  <2> QED BY <1>11, <2>1 DEF R!Short
<1>20. disk[g].seq = R!Successor(prevSeq[1])
  <2>1. PICK s, x : s = Segments[h].seq /\ x = SeqMax OBVIOUS
  <2>2. s \in Nat /\ x \in Nat /\ s < x
    BY <1>1, <1>11, <2>1, SegmentIs, FormatAssumption DEF SequencesLeft
  <2>3. (s + 1) % (x + 1) = s + 1 BY <2>2, OneMissing
  <2>4. prevSeq[1] = s BY <1>18, <2>1
  <2> QED BY <1>12, <1>16, <2>1, <2>3, <2>4 DEF R!Successor
<1>21. R!Matches(g)
  <2>1. /\ Size(r) \in Nat /\ HeaderLen <= Size(r) /\ Size(r) = HeaderLen + Written[r]
        /\ HeaderLen \in Nat
    BY <1>1, <1>2, SizeIs
  <2>2. disk[g].remaining = Size(r) - o /\ consumed # 0 BY <1>4, <1>5, <1>12, <1>17
  <2>3. CASE rpc \in {"payload", "skip"}
    <3>1. total # <<>> /\ total[1] = Size(r) BY <1>6, <2>3
    <3> QED BY <1>4, <2>2, <3>1 DEF R!Matches
  <2>4. CASE rpc = "header"
    <3>1. total = <<>> BY <1>1, <2>4 DEF CallShape
    <3>2. implied \in {<<>>, <<Written[r]>>} BY <1>1, <1>2, <2>4 DEF Reads
    <3>3. PICK w, c : w = Written[r] /\ c = R!HeaderRest OBVIOUS
    <3>4. disk[g].remaining >= c /\ disk[g].remaining - c = w
      <4>1. PICK z, e : z = Size(r) /\ e = HeaderLen OBVIOUS
      <4>2. z = e + w /\ z \in Nat /\ e \in Nat /\ c = e - o /\ disk[g].remaining = z - o
        BY <1>4, <2>1, <2>2, <3>3, <4>1 DEF R!HeaderRest
      <4>3. w \in Nat BY <1>1, <1>2, <3>3 DEF Known
      <4> QED BY <1>5, <4>2, <4>3
    <3>5. implied \in {<<>>, <<disk[g].remaining - c>>} BY <3>2, <3>3, <3>4
    <3> QED BY <2>2, <3>1, <3>3, <3>4, <3>5 DEF R!Matches
  <2> QED BY <1>3, <2>3, <2>4 DEF R!Reading
<1>22. R!Follows(g) BY <1>19, <1>20, <1>21 DEF R!Follows
<1>23. R!Valid(g) BY <1>7 DEF R!Valid
<1> QED BY <1>11, <1>12, <1>15, <1>18, <1>22, <1>23

-----------------------------------------------------------------------------
(* What a step of the reader comes past.                                   *)

\* A place in the directory.
InFile(f, n) == f \in 1 .. Len(disk) /\ n \in 1 .. Len(disk[f].data)

LEMMA NotLost ==
  ASSUME NoneLost, readFaults = 0, NEW r, Due(r), NEW f, NEW n, InFile(f, n),
         BeginsAt(r, f, n), ComePast(f, n)
  PROVE  Recorded(r) \/ Underway(r)
<1>1. disk[f].data[n][1] = r BY DEF BeginsAt
<1> QED BY <1>1 DEF NoneLost, InFile

\* While no read has failed, what is due and the reader comes past is told or read.
Keeps ==
  readFaults' = 0 =>
    /\ readFaults = 0
    /\ \A r : Due(r) /\ Recorded(r) => Recorded(r)'
    /\ \A r : Due(r) /\ Underway(r) => Recorded(r)' \/ Underway(r)'
    /\ \A r, f, n :
         Due(r) /\ InFile(f, n) /\ BeginsAt(r, f, n) /\ ComePast(f, n)' =>
           ComePast(f, n) \/ Recorded(r)' \/ Underway(r)'

LEMMA LostOn ==
  ASSUME NoneLost, DirStays, known' = known, Keeps
  PROVE  NoneLost'
<1> SUFFICES ASSUME readFaults' = 0, NEW f \in 1 .. Len(disk'), NEW n \in 1 .. Len(disk'[f].data),
                    NEW r, r = disk'[f].data[n][1],
                    Due(r)', BeginsAt(r, f, n)', ComePast(f, n)'
             PROVE  Recorded(r)' \/ Underway(r)'
  BY DEF NoneLost
<1>1. disk' = disk /\ lens' = lens BY DEF DirStays
<1>2. Due(r)
  <2>1. r \in 1 .. known /\ Survives(r)' /\ lens[r] > 0 BY <1>1 DEF Due
  <2>2. Survives(r)
    <3> SUFFICES ASSUME NEW o \in 1 .. TotalLen(lens[r])
                 PROVE  \E g \in 1 .. Len(disk) :
                          disk[g].whole /\ \E m \in 1 .. Len(disk[g].data) : disk[g].data[m] = <<r, o>>
      BY DEF Survives
    <3>1. o \in 1 .. TotalLen(lens'[r]) BY <1>1
    <3>2. \E g \in 1 .. Len(disk') :
            disk'[g].whole /\ \E m \in 1 .. Len(disk'[g].data) : disk'[g].data[m] = <<r, o>>
      BY <2>1, <3>1, Zenon DEF Survives
    <3> QED BY <1>1, <3>2, Zenon
  <2> QED BY <2>1, <2>2 DEF Due
<1>3. BeginsAt(r, f, n) /\ InFile(f, n) BY <1>1 DEF BeginsAt, InFile
<1>4. readFaults = 0 BY DEF Keeps
<1>5. ComePast(f, n) \/ Recorded(r)' \/ Underway(r)' BY <1>2, <1>3 DEF Keeps
<1>6. CASE ComePast(f, n)
  <2>1. Recorded(r) \/ Underway(r) BY <1>2, <1>3, <1>4, <1>6, NotLost
  <2> QED BY <1>2, <2>1 DEF Keeps
<1> QED BY <1>5, <1>6

\* Where the open file has run out, the reader has come past all it has taken.
LEMMA AllPast ==
  ASSUME Found, PendingLast, OpenedWhole, R!Exhausted, NEW r, r <= known,
         NEW f, NEW n, InFile(f, n), BeginsAt(r, f, n), f <= Reached
  PROVE  ComePast(f, n)
<1>1. CASE current = R!NoFile BY <1>1 DEF ComePast
<1>2. CASE current # R!NoFile
  <2>1. /\ SystemInv /\ Known /\ DiskInv /\ CurrentSound /\ SystemTypes BY FoundIs
  <2>2. current.pos \in Nat /\ current.len \in Nat /\ current.pos >= current.len
    <3>1. PICK h : h = Here OBVIOUS
    <3> QED BY <1>2, <2>1, <3>1, PlaceIs DEF R!Exhausted
  <2>3. current.file = Reached BY <1>2 DEF PendingLast
  <2>4. f \in 1 .. Len(disk) /\ n \in 1 .. Len(disk[f].data) BY DEF InFile
  <2>5. f \in Nat /\ n \in Nat /\ Len(disk[f].data) \in Nat
    <3>1. disk[f] \in Segment BY <2>1, <2>4 DEF SystemTypes
    <3>2. Len(disk[f].data) \in Nat BY <3>1 DEF Segment
    <3> QED BY <2>1, <2>4, <3>2 DEF SystemTypes
  <2>6. Reached \in Int BY <2>1, FoundIs DEF Reached, SystemTypes
  <2>7. ASSUME f = Reached, ~ (n <= current.pos) PROVE FALSE
    <3>1. f = current.file BY <2>3, <2>7
    <3>2. n \in current.len + 1 .. Len(disk[f].data) BY <2>2, <2>4, <2>5, <2>7
    <3>3. ~ (disk[f].data[n][1] <= known) BY <1>2, <3>1, <3>2 DEF OpenedWhole
    <3>4. disk[f].data[n][1] = r BY DEF BeginsAt
    <3> QED BY <3>3, <3>4
  <2>8. f < current.file \/ n <= current.pos BY <2>3, <2>5, <2>6, <2>7
  <2> QED BY <2>8 DEF ComePast
<1> QED BY <1>1, <1>2

\* Where it has run out, what is come past next is in the files taken.
LEMMA NewlyPast ==
  ASSUME Found, PendingLast, OpenedWhole, R!Exhausted, NEW k \in 0 .. Len(pending),
         Len(pending') = Len(pending) - k, NEW r, r <= known,
         NEW f, NEW n, InFile(f, n), BeginsAt(r, f, n), ComePast(f, n)'
  PROVE  ComePast(f, n) \/ \E q \in 1 .. k : q \in 1 .. Len(pending) /\ f = pending[q]
<1>1. SystemTypes /\ DirStays /\ Len(pending) \in Nat BY FoundIs
<1>2. f \in Nat /\ Len(disk) \in Nat /\ k \in Nat /\ f \in 1 .. Len(disk)
  BY <1>1 DEF InFile, SystemTypes
<1>3. Reached \in Int /\ Reached' = Reached + k BY <1>1, <1>2 DEF Reached, DirStays
<1>4. f <= Reached + k BY <1>3 DEF ComePast
<1>5. CASE f <= Reached BY <1>5, AllPast
<1>6. CASE ~ (f <= Reached)
  <2>1. PICK q : q = f - Reached OBVIOUS
  <2>2. q \in 1 .. k /\ q \in 1 .. Len(pending) BY <1>1, <1>2, <1>3, <1>4, <1>6, <2>1
  <2>3. pending[q] = Reached + q BY <2>2 DEF PendingLast
  <2>4. f = pending[q] BY <1>2, <1>3, <2>1, <2>3
  <2> QED BY <2>2, <2>4
<1> QED BY <1>5, <1>6

\* Files passed over while no read has failed do not open.
LEMMA NoneOpens ==
  ASSUME SystemInv, NEW k \in 0 .. Len(pending), NEW more \in Nat, R!PassOver(k, more),
         readFaults' = 0
  PROVE  /\ more = 0 /\ readFaults = 0
         /\ \A q \in 1 .. k : ~ disk[pending[q]].whole
<1>0. PICK S : S = {i \in 1 .. k : R!Valid(pending[i])} OBVIOUS
<1>1. readFaults' = readFaults + Cardinality(S) + more
  BY <1>0, SameCardinality DEF R!PassOver
<1>2. readFaults \in Nat BY DEF SystemInv, ReaderInv, RestTypes
<1>3. k \in Nat BY DEF SystemInv, ReaderInv, PlaceTypes
<1>4. IsFiniteSet(S) /\ Cardinality(S) \in Nat
  <2>1. IsFiniteSet(1 .. k) BY <1>3, FS_Interval
  <2>2. S \subseteq 1 .. k BY <1>0
  <2>3. IsFiniteSet(S) BY <2>1, <2>2, FS_Subset
  <2> QED BY <2>3, FS_CardinalityType
<1>5. more = 0 /\ readFaults = 0 /\ Cardinality(S) = 0
  <2>1. PICK c : c = Cardinality(S) OBVIOUS
  <2>2. c \in Nat /\ readFaults + c + more = 0 BY <1>1, <1>4, <2>1
  <2>3. c = 0 /\ more = 0 /\ readFaults = 0 BY <1>2, <2>2
  <2> QED BY <2>1, <2>3
<1>6. S = {} BY <1>4, <1>5, FS_EmptySet
<1> QED BY <1>0, <1>5, <1>6 DEF R!Valid

\* What is told stays told.
LEMMA RecordedStays ==
  ASSUME results \in Seq(Outcome), results' = results \/ \E x : Tells(x), NEW r, Recorded(r)
  PROVE  Recorded(r)'
<1>1. CASE results' = results BY <1>1 DEF Recorded, Telling, Told
<1>2. CASE \E x : Tells(x)
  <2>1. PICK x : Tells(x) BY <1>2
  <2>2. x \in Outcome /\ results' = Append(results, x) BY <2>1 DEF Tells
  <2>3. PICK i \in Telling : Told(i) = r /\ results[i].kind \in {"record", "overflow"}
    BY DEF Recorded
  <2>4. i \in 1 .. Len(results) BY DEF Telling
  <2>5. results'[i] = results[i] /\ i \in Telling' /\ Told(i)' = Told(i)
    BY <2>2, <2>3, <2>4, TellingAfter
  <2> QED BY <2>3, <2>5 DEF Recorded
<1> QED BY <1>1, <1>2

\* A step in the place that the reader is at, and one that takes k files from those pending.
LEMMA KeepsInPlace ==
  ASSUME Found, UNCHANGED <<pending, current, readFaults>>,
         results' = results \/ \E x : Tells(x),
         \A r : Due(r) /\ Underway(r) => Recorded(r)' \/ Underway(r)'
  PROVE  Keeps
<1>1. results \in Seq(Outcome) /\ disk' = disk BY FoundIs DEF RestTypes, DirStays
<1>2. \A f, n : ComePast(f, n)' => ComePast(f, n) BY <1>1 DEF ComePast, Reached
<1>3. \A r : Recorded(r) => Recorded(r)' BY <1>1, RecordedStays
<1> QED BY <1>2, <1>3 DEF Keeps

LEMMA KeepsPassing ==
  ASSUME Found, PendingLast, OpenedWhole, R!Exhausted, NEW k \in 0 .. Len(pending),
         Len(pending') = Len(pending) - k,
         results' = results \/ \E x : Tells(x),
         readFaults' = 0 =>
           /\ readFaults = 0
           /\ \A r : Due(r) /\ Underway(r) => Recorded(r)' \/ Underway(r)'
           /\ \A q \in 1 .. k : \A r, f, n :
                q \in 1 .. Len(pending) /\ f = pending[q] /\ InFile(f, n) /\ BeginsAt(r, f, n) =>
                  ~ ComePast(f, n)'
  PROVE  Keeps
<1>1. results \in Seq(Outcome) BY FoundIs DEF RestTypes
<1>2. \A r : Recorded(r) => Recorded(r)' BY <1>1, RecordedStays
<1>3. ASSUME readFaults' = 0, NEW r, NEW f, NEW n,
             Due(r), InFile(f, n), BeginsAt(r, f, n), ComePast(f, n)'
      PROVE  ComePast(f, n)
  <2>1. r <= known BY <1>3 DEF Due
  <2>2. ComePast(f, n) \/ \E q \in 1 .. k : q \in 1 .. Len(pending) /\ f = pending[q]
    BY <1>3, <2>1, NewlyPast
  <2>3. ~ \E q \in 1 .. k : q \in 1 .. Len(pending) /\ f = pending[q] BY <1>3
  <2> QED BY <2>2, <2>3
<1> QED BY <1>2, <1>3 DEF Keeps

\* Where a file that opens is pending next, and none is passed over but such as do not open,
\* none is passed over.
LEMMA NoneBefore ==
  ASSUME SystemInv, NEW k \in 0 .. Len(pending), NEW more \in Nat, R!PassOver(k, more),
         readFaults' = 0, 1 \in 1 .. Len(pending), R!Valid(pending[1])
  PROVE  k = 0
<1>1. \A q \in 1 .. k : ~ disk[pending[q]].whole BY NoneOpens
<1>2. ~ (1 \in 1 .. k) BY <1>1 DEF R!Valid
<1>3. k \in Nat BY DEF SystemInv, ReaderInv, PlaceTypes
<1> QED BY <1>2, <1>3

\* No record that is due is given up at a crossing.
LEMMA CrossKeeps ==
  ASSUME Found, PendingLast, OpenedWhole, readFaults' = 0, NEW r, Due(r), Underway(r),
         \/ R!CrossNone
         \/ \E k \in 0 .. Len(pending) - 1 : R!CrossSessionEnd(k) \/ R!CrossRejects(k)
  PROVE  FALSE
<1>1. SystemInv /\ Len(pending) \in Nat BY FoundIs
<1>2. R!Crossing BY DEF R!CrossNone, R!CrossSessionEnd, R!CrossRejects
<1>3. r <= known /\ Survives(r) BY DEF Due
<1>4. /\ 1 \in 1 .. Len(pending) /\ R!Valid(pending[1])
      /\ session = <<disk[pending[1]].session>> /\ R!Follows(pending[1])
  BY <1>2, <1>3, NextFollows
<1>5. PICK more \in Nat : more = 0 OBVIOUS
<1>6. CASE R!CrossNone
  <2>1. R!PassOver(Len(pending), more) BY <1>5, <1>6 DEF R!CrossNone, R!NoneLeft
  <2>2. Len(pending) = 0 BY <1>1, <1>4, <2>1, NoneBefore
  <2> QED BY <1>4, <2>2
<1>7. ASSUME NEW k \in 0 .. Len(pending) - 1, R!CrossSessionEnd(k) PROVE FALSE
  <2>1. R!EndsSession(k) BY <1>7 DEF R!CrossSessionEnd
  <2>2. /\ R!PassOver(k, more)
        /\ session[1] # disk[pending[k + 1]].session
    BY <1>5, <2>1 DEF R!EndsSession
  <2>3. k \in 0 .. Len(pending) BY <1>1
  <2>4. k = 0 BY <1>1, <1>4, <2>2, <2>3, NoneBefore
  <2> QED BY <1>4, <2>2, <2>4
<1>8. ASSUME NEW k \in 0 .. Len(pending) - 1, R!CrossRejects(k) PROVE FALSE
  <2>1. R!Opens(k, TRUE, 0) /\ ~ R!Follows(pending[k + 1]) BY <1>8 DEF R!CrossRejects
  <2>2. R!PassOver(k, more) BY <1>5, <2>1 DEF R!Opens
  <2>3. k \in 0 .. Len(pending) BY <1>1
  <2>4. k = 0 BY <1>1, <1>4, <2>2, <2>3, NoneBefore
  <2> QED BY <1>4, <2>1, <2>4
<1> QED BY <1>6, <1>7, <1>8

\* Between calls and in a search no record is being read; in a search no file is open.
LEMMA Finding ==
  ASSUME Found
  PROVE  /\ rpc \in {"idle", "find"} => \A r : ~ Underway(r)
         /\ rpc = "find" => current = R!NoFile /\ R!Exhausted
         /\ readFaults \in Nat /\ Len(pending) \in Nat
<1>1. Anchored /\ RestTypes /\ Len(pending) \in Nat BY FoundIs
<1>2. rpc \in {"idle", "find"} => \A r : ~ Underway(r) BY DEF Underway, R!Reading
<1>3. rpc = "find" => current = R!NoFile BY <1>1 DEF Anchored
<1> QED BY <1>1, <1>2, <1>3 DEF R!Exhausted, RestTypes

\* In a file with nothing but a tail in it, or before the start found, no record begins.
LEMMA NoneBegins ==
  ASSUME Found, NEW f, NEW n, InFile(f, n), NEW r, BeginsAt(r, f, n), n <= disk[f].remaining
  PROVE  FALSE
<1>1. Known /\ DiskInv /\ SystemTypes BY FoundIs
<1>2. PICK i : i = No(f) OBVIOUS
<1>3. f \in 1 .. Len(disk) /\ n \in 1 .. Len(disk[f].data) /\ disk[f].whole
      /\ disk[f].data[n] = <<r, 1>>
  BY DEF InFile, BeginsAt
<1>4. /\ i \in 1 .. Len(Segments) /\ FrontOf(disk[f], Segments[i])
      /\ Len(disk[f].data) \in Nat /\ Len(disk[f].data) <= Len(Segments[i].data)
      /\ disk[f].remaining = Segments[i].remaining
  BY <1>1, <1>2, <1>3, FileIs
<1>5. Len(Segments[i].data) \in Nat BY <1>1, <1>4, SegmentIs
<1>6. n \in 1 .. Len(Segments[i].data) BY <1>3, <1>4, <1>5
<1>7. Segments[i].data[n] = <<r, 1>> BY <1>3, <1>4 DEF FrontOf
<1>8. n <= Segments[i].remaining BY <1>4
<1> QED BY <1>1, <1>4, <1>6, <1>7, <1>8, NoStartInTail

LEMMA ResultsTell ==
  ASSUME SystemInv, R!Next
  PROVE  results' = results \/ \E x : Tells(x)
<1>1. CASE R!PayloadDone /\ results' # results BY <1>1, RecordTells
<1> QED BY <1>1, StepTells

\* Files passed over, with none opened.
LEMMA StopsKeep ==
  ASSUME Found, PendingLast, OpenedWhole, R!Exhausted, NEW k \in 0 .. Len(pending),
         pending' = R!Behind(k) \/ (k = Len(pending) /\ pending' = <<>>),
         results' = results \/ \E x : Tells(x),
         readFaults' = 0 =>
           /\ readFaults = 0 /\ \A q \in 1 .. k : ~ disk[pending[q]].whole
           /\ \A r : ~ (Due(r) /\ Underway(r))
  PROVE  Keeps
<1>1. SystemTypes /\ PlaceTypes /\ disk' = disk /\ Len(pending) \in Nat BY FoundIs DEF DirStays
<1>2. Len(pending') = Len(pending) - k
  <2>1. CASE pending' = R!Behind(k) BY <1>1, <2>1, FilesReached
  <2>2. CASE k = Len(pending) /\ pending' = <<>> BY <1>1, <2>2
  <2> QED BY <2>1, <2>2
<1>3. readFaults' = 0 =>
        \A q \in 1 .. k : \A r, f, n :
          q \in 1 .. Len(pending) /\ f = pending[q] /\ InFile(f, n) /\ BeginsAt(r, f, n) =>
            ~ ComePast(f, n)'
  BY DEF BeginsAt
<1> QED BY <1>2, <1>3, KeepsPassing

\* A file opened, with no record before the place in it.
LEMMA OpensKeep ==
  ASSUME Found, PendingLast, OpenedWhole, R!Exhausted, NEW k \in 0 .. Len(pending) - 1,
         R!Opens(k, FALSE, 0), results' = results \/ \E x : Tells(x),
         readFaults' = 0 =>
           /\ \A r : Due(r) /\ Underway(r) => Recorded(r)' \/ Underway(r)'
           /\ \A f, r, n :
                f = pending[k + 1] /\ InFile(f, n) /\ BeginsAt(r, f, n) => ~ ComePast(f, n)'
  PROVE  Keeps
<1>1. SystemInv /\ SystemTypes /\ PlaceTypes /\ disk' = disk /\ Len(pending) \in Nat
  BY FoundIs DEF DirStays
<1>2. PICK l : l = k + 1 OBVIOUS
<1>3. k \in 0 .. Len(pending) /\ l \in 0 .. Len(pending) /\ k \in Nat /\ l \in Nat BY <1>1, <1>2
<1>4. PICK more \in Nat : more = 0 OBVIOUS
<1>5. pending' = R!Behind(l) /\ R!PassOver(k, more) BY <1>2, <1>4 DEF R!Opens
<1>6. Len(pending') = Len(pending) - l BY <1>1, <1>3, <1>5, FilesReached
<1>7. readFaults' = 0 => readFaults = 0 /\ \A q \in 1 .. k : ~ disk[pending[q]].whole
  BY <1>1, <1>3, <1>5, NoneOpens
<1>8. ASSUME readFaults' = 0, NEW q \in 1 .. l, NEW r, NEW f, NEW n,
             q \in 1 .. Len(pending), f = pending[q], InFile(f, n), BeginsAt(r, f, n)
      PROVE  ~ ComePast(f, n)'
  <2>1. CASE q = l BY <1>2, <1>8, <2>1
  <2>2. CASE q # l
    <3>1. q \in 1 .. k BY <1>2, <1>3, <2>2
    <3> QED BY <1>7, <1>8, <3>1 DEF BeginsAt
  <2> QED BY <2>1, <2>2
<1> QED BY <1>3, <1>6, <1>7, <1>8, KeepsPassing

LEMMA DiscardKeeps ==
  ASSUME Found, PendingLast, OpenedWhole, NEW k \in 0 .. Len(pending) - 1, R!FindDiscards(k),
         results' = results \/ \E x : Tells(x)
  PROVE  Keeps
<1>1. R!Opens(k, FALSE, 0) /\ R!OnlyTail(pending[k + 1]) /\ rpc = "find"
  BY DEF R!FindDiscards
<1>2. R!Exhausted /\ \A r : ~ Underway(r) BY <1>1, Finding
<1>3. PICK hb, more : hb = FALSE /\ more = 0 OBVIOUS
<1>4. PICK f, j : f = pending[k + 1] /\ j = No(f) OBVIOUS
<1>5. R!Opens(k, hb, more) BY <1>1, <1>3
<1>6. disk[f] \in Segment /\ Len(disk[f].data) \in Nat BY <1>4, <1>5, NextFile
<1>7. disk[f].remaining \in Nat /\ disk[f].remaining >= Len(disk[f].data)
  BY <1>1, <1>4, <1>6 DEF R!OnlyTail, Segment
<1>8. ASSUME NEW r, NEW n, InFile(f, n), BeginsAt(r, f, n) PROVE FALSE
  <2>1. n <= disk[f].remaining BY <1>6, <1>7, <1>8 DEF InFile
  <2> QED BY <1>8, <2>1, NoneBegins
<1> QED BY <1>1, <1>2, <1>4, <1>8, OpensKeep

\* A place in the file opened now is past what is up to it, and no more.
LEMMA PastOpened ==
  ASSUME Found, NEW f, current' # R!NoFile, current'.file = f, NEW n, InFile(f, n), ComePast(f, n)'
  PROVE  n <= current'.pos
<1>1. f \in Nat BY FoundIs DEF InFile, SystemTypes
<1>2. f < f \/ n <= current'.pos BY DEF ComePast
<1> QED BY <1>1, <1>2

LEMMA StartKeeps ==
  ASSUME Found, PendingLast, OpenedWhole, NEW k \in 0 .. Len(pending) - 1, R!FindsStart(k),
         results' = results \/ \E x : Tells(x)
  PROVE  Keeps
<1>1. PICK f, j, h, m : f = pending[k + 1] /\ j = No(f) /\ h = FALSE /\ m = 0 OBVIOUS
<1>2. PICK start : start = IF R!Recovers(f) THEN 0 ELSE disk[f].remaining OBVIOUS
<1>3. /\ R!Opens(k, h, m) /\ R!Opens(k, FALSE, 0) /\ current' = R!Open(f, start) /\ rpc = "find"
  BY <1>1, <1>2 DEF R!FindsStart
<1>4. R!Exhausted /\ \A r : ~ Underway(r) BY <1>3, Finding
<1>5. ReaderInv /\ PlaceTypes /\ SystemTypes BY FoundIs
<1>6. f \in 1 .. Len(disk) /\ Len(disk[f].data) \in Nat BY <1>1, <1>3, NextFile
<1>7. start \in Nat /\ start <= Len(disk[f].data) BY <1>1, <1>2, <1>3, <1>5, <1>6, StartFound
<1>8. current' # R!NoFile /\ current'.file = f /\ current'.pos = start
  BY <1>3, <1>5, <1>6, <1>7, OpenIs
<1>9. ASSUME NEW r, NEW n, InFile(f, n), BeginsAt(r, f, n), ComePast(f, n)' PROVE FALSE
  <2>1. n <= start BY <1>8, <1>9, PastOpened
  <2>2. CASE R!Recovers(f) BY <1>2, <1>6, <1>9, <2>1, <2>2 DEF InFile
  <2>3. CASE ~ R!Recovers(f)
    <3>1. n <= disk[f].remaining BY <1>2, <2>1, <2>3
    <3> QED BY <1>9, <3>1, NoneBegins
  <2> QED BY <2>2, <2>3
<1> QED BY <1>1, <1>3, <1>4, <1>9, OpensKeep

LEMMA FollowsKeeps ==
  ASSUME Found, PendingLast, OpenedWhole, NEW k \in 0 .. Len(pending) - 1, R!CrossFollows(k),
         results' = results \/ \E x : Tells(x)
  PROVE  Keeps
<1>1. PICK f, j, i : f = pending[k + 1] /\ j = No(f) /\ i = Here OBVIOUS
<1>2. R!Opens(k, FALSE, 0) /\ R!Crossing BY DEF R!CrossFollows
<1>3. current' # R!NoFile /\ current'.file = f /\ current'.pos = 0 BY <1>1, FollowsNext
<1>4. R!Exhausted BY <1>2 DEF R!Crossing
<1>5. ASSUME NEW r, NEW n, InFile(f, n), BeginsAt(r, f, n), ComePast(f, n)' PROVE FALSE
  <2>1. n <= 0 BY <1>3, <1>5, PastOpened
  <2>2. n \in 1 .. Len(disk[f].data) BY <1>5 DEF InFile
  <2> QED BY <2>1, <2>2
<1>6. ASSUME NEW r, Due(r), Underway(r) PROVE Underway(r)'
  <2>1. consumed # 0 /\ Within(Here, current.pos, r, consumed) BY <1>6 DEF Underway
  <2> QED BY <2>1, CrossGoesOn DEF Underway
<1> QED BY <1>1, <1>2, <1>4, <1>5, <1>6, OpensKeep

\* The files that are passed over at the end of a log or of a session, or of a record.
LEMMA EndsKeep ==
  ASSUME Found, PendingLast, OpenedWhole, results' = results \/ \E x : Tells(x),
         \/ R!ReadAtEnd \/ R!FindNone \/ R!CrossNone
         \/ \E k \in 0 .. Len(pending) - 1 :
              R!FindSessionEnd(k) \/ R!CrossSessionEnd(k) \/ R!CrossRejects(k)
  PROVE  Keeps
<1>1. SystemInv /\ Len(pending) \in Nat /\ PlaceTypes /\ RestTypes BY FoundIs
<1>2. PICK more \in Nat : more = 0 OBVIOUS
<1>3. ASSUME NEW k \in 0 .. Len(pending), R!PassOver(k, more)
      PROVE  readFaults' = 0 => readFaults = 0 /\ \A q \in 1 .. k : ~ disk[pending[q]].whole
  BY <1>1, <1>3, NoneOpens
<1>4. CASE R!ReadAtEnd
  <2>1. PICK k \in 0 .. Len(pending) : k = 0 BY <1>1
  <2>2. /\ rpc = "idle" /\ R!Exhausted /\ readFaults' = readFaults
        /\ k = Len(pending) /\ pending' = <<>>
    BY <1>4, <2>1 DEF R!ReadAtEnd
  <2>3. \A r : ~ Underway(r) BY <2>2, Finding
  <2>4. \A q \in 1 .. k : ~ disk[pending[q]].whole BY <2>1
  <2> QED BY <2>2, <2>3, <2>4, StopsKeep
<1>5. CASE R!FindNone \/ R!CrossNone
  <2>1. PICK k \in 0 .. Len(pending) : k = Len(pending) BY <1>1
  <2>2. R!PassOver(k, more) /\ pending' = <<>>
    BY <1>2, <1>5, <2>1 DEF R!FindNone, R!CrossNone, R!NoneLeft
  <2>3. readFaults' = 0 => \A r : ~ (Due(r) /\ Underway(r))
    <3>1. CASE R!FindNone BY <3>1, Finding DEF R!FindNone
    <3>2. CASE R!CrossNone BY <3>2, CrossKeeps
    <3> QED BY <1>5, <3>1, <3>2
  <2>4. R!Exhausted
    <3>1. CASE R!FindNone BY <3>1, Finding DEF R!FindNone
    <3>2. CASE R!CrossNone BY <3>2 DEF R!CrossNone, R!Crossing
    <3> QED BY <1>5, <3>1, <3>2
  <2> QED BY <1>3, <2>1, <2>2, <2>3, <2>4, StopsKeep
<1>6. ASSUME NEW k \in 0 .. Len(pending) - 1,
             R!FindSessionEnd(k) \/ R!CrossSessionEnd(k) \/ R!CrossRejects(k)
      PROVE  Keeps
  <2>1. k \in 0 .. Len(pending) BY <1>1
  <2>2. R!PassOver(k, more) /\ pending' = R!Behind(k)
    BY <1>2, <1>6
    DEF R!FindSessionEnd, R!CrossSessionEnd, R!CrossRejects, R!EndsSession, R!Opens
  <2>3. readFaults' = 0 => \A r : ~ (Due(r) /\ Underway(r))
    <3>1. CASE R!FindSessionEnd(k) BY <3>1, Finding DEF R!FindSessionEnd
    <3>2. CASE R!CrossSessionEnd(k) \/ R!CrossRejects(k) BY <3>2, CrossKeeps
    <3> QED BY <1>6, <3>1, <3>2
  <2>4. R!Exhausted
    <3>1. CASE R!FindSessionEnd(k) BY <3>1, Finding DEF R!FindSessionEnd
    <3>2. CASE R!CrossSessionEnd(k) \/ R!CrossRejects(k)
      BY <3>2 DEF R!CrossSessionEnd, R!CrossRejects, R!Crossing
    <3> QED BY <1>6, <3>1, <3>2
  <2> QED BY <1>3, <2>1, <2>2, <2>3, <2>4, StopsKeep
<1> QED BY <1>4, <1>5, <1>6

\* A failure of reading itself.
LEMMA FaultKeeps ==
  ASSUME Found, R!PieceFails \/ \E k \in 0 .. Len(pending) - 1 : R!FindSeekFails(k)
  PROVE  Keeps
<1>1. SystemInv /\ readFaults \in Nat /\ Len(pending) \in Nat BY Finding, FoundIs
<1>2. readFaults' # 0
  <2>1. CASE R!PieceFails BY <1>1, <2>1 DEF R!PieceFails, R!ReadFault
  <2>2. ASSUME NEW k \in 0 .. Len(pending) - 1, R!FindSeekFails(k) PROVE readFaults' # 0
    <3>1. PICK more \in Nat : more = 1 OBVIOUS
    <3>2. R!PassOver(k, more) BY <2>2, <3>1 DEF R!FindSeekFails, R!Opens
    <3>3. k \in 0 .. Len(pending) BY <1>1
    <3> QED BY <1>1, <3>1, <3>2, <3>3, NoneOpens
  <2> QED BY <2>1, <2>2
<1> QED BY <1>2 DEF Keeps

\* A place that stays, with no record begun or ended.
LEMMA PlaceKeeps ==
  ASSUME Found, UNCHANGED R!place, readFaults' = readFaults,
         results' = results \/ \E x : Tells(x),
         (consumed' = consumed /\ R!Reading') \/ \A r : ~ Underway(r)
  PROVE  Keeps
<1>1. UNCHANGED <<pending, current, readFaults>> /\ DirStays BY FoundIs DEF R!place
<1>2. Here' = Here BY <1>1 DEF Here, No, DirStays
<1>3. \A r : Underway(r) => Underway(r)'
  BY <1>1, <1>2 DEF Underway, Within, DirStays
<1> QED BY <1>1, <1>3, KeepsInPlace

\* What is told at the end of the record being read is told of that one.
LEMMA ToldNow ==
  ASSUME Found, rpc \in {"payload", "skip"}, got # <<>>, NEW r, Underway(r),
         NEW x, x \in Outcome, x.data = got, x.kind \in {"record", "overflow"},
         results' = Append(results, x)
  PROVE  Recorded(r)'
<1>1. /\ CallTypes /\ lens \in Seq(Nat) /\ CallSound /\ RestTypes BY FoundIs
<1>2. PICK s \in 1 .. Len(lens) : Reads(s) /\ got[1][1] = s BY <1>1, GotIs
<1>3. r = s BY <1>2, SameRecord DEF Reads, Underway
<1>4. /\ Len(results) \in Nat /\ Len(results') = Len(results) + 1
      /\ results'[Len(results) + 1] = x
  BY <1>1, TellingAfter DEF RestTypes
<1>5. PICK i : i = Len(results) + 1 OBVIOUS
<1>6. i \in 1 .. Len(results') /\ results'[i] = x BY <1>4, <1>5
<1>7. i \in Telling' /\ Told(i)' = r BY <1>2, <1>3, <1>6 DEF Telling, Told
<1> QED BY <1>6, <1>7 DEF Recorded

LEMMA CallKeeps ==
  ASSUME Found, NEW n, R!Read(n), results' = results \/ \E x : Tells(x)
  PROVE  Keeps
<1>1. UNCHANGED R!place /\ readFaults' = readFaults /\ rpc = "idle" BY DEF R!Read
<1>2. \A r : ~ Underway(r) BY <1>1, Finding
<1> QED BY <1>1, <1>2, PlaceKeeps

LEMMA HeaderKeeps ==
  ASSUME Found, R!HeaderDone, results' = results \/ \E x : Tells(x)
  PROVE  Keeps
<1>1. rpc = "header" /\ need = 0 /\ readFaults' = readFaults BY DEF R!HeaderDone
<1>2. PICK r \in 1 .. Len(lens) : R!Decoded = {lens[r]} /\ implied \in {<<>>, <<lens[r]>>}
  BY <1>1, HeaderOfOne
<1>3. rpc' = "payload" /\ consumed' = consumed /\ UNCHANGED R!place
  BY <1>2 DEF R!HeaderDone
<1> QED BY <1>1, <1>3, PlaceKeeps DEF R!Reading

LEMMA PayloadKeeps ==
  ASSUME Found, R!PayloadDone, results' = results \/ \E x : Tells(x)
  PROVE  Keeps
<1>1. rpc = "payload" /\ need = 0 /\ readFaults' = readFaults /\ UNCHANGED R!place
  BY DEF R!PayloadDone
<1>2. SystemInv /\ CallTypes /\ CallSound /\ lens \in Seq(Nat) /\ disk' = disk
  BY FoundIs DEF DirStays
<1>3. CASE payloadLen > bufLen
  <2>1. rpc' = "skip" /\ consumed' = consumed BY <1>3 DEF R!PayloadDone, R!cursor
  <2> QED BY <1>1, <2>1, PlaceKeeps DEF R!Reading
<1>4. CASE ~ (payloadLen > bufLen)
  <2>1. results' # results
    <3>1. PICK x : x = R!Result("record", 0, got) OBVIOUS
    <3>2. results' = Append(results, x) BY <1>4, <3>1 DEF R!PayloadDone, R!Return
    <3>3. results \in Seq(Outcome) BY FoundIs DEF RestTypes
    <3>4. Len(results') = Len(results) + 1 /\ Len(results) \in Nat BY <3>2, <3>3
    <3> QED BY <3>4
  <2>2. PICK x : Tells(x) /\ x.kind = "record" /\ Len(got) = payloadLen
    BY <1>2, <2>1, RecordTells
  <2>3. x \in Outcome /\ results' = Append(results, x) /\ x.data = got BY <2>2 DEF Tells
  <2>4. ASSUME NEW r, Due(r), Underway(r) PROVE Recorded(r)'
    <3>1. R!Reading /\ consumed # 0 /\ Within(Here, current.pos, r, consumed)
      BY <2>4 DEF Underway
    <3>2. PICK s \in 1 .. Len(lens) : Reads(s) BY <1>2, <3>1 DEF CallSound
    <3>3. s = r BY <3>1, <3>2, SameRecord DEF Reads
    <3>4. payloadLen = lens[r] BY <1>1, <3>2, <3>3 DEF Reads
    <3>5. lens[r] > 0 /\ lens[r] \in Nat BY <1>2, <3>2, <3>3, <2>4 DEF Due
    <3>6. got # <<>> BY <2>2, <3>4, <3>5
    <3> QED BY <1>1, <2>2, <2>3, <2>4, <3>6, ToldNow
  <2> QED BY <1>1, <2>2, <2>4, KeepsInPlace DEF R!place
<1> QED BY <1>3, <1>4

\* A record too long for the buffer: the front of it fills the buffer, which is not empty.
LEMMA SkipKeeps ==
  ASSUME Found, BufferGiven, 0 \notin BufLens, R!SkipDone, results' = results \/ \E x : Tells(x)
  PROVE  Keeps
<1>1. rpc = "skip" /\ need = 0 /\ readFaults' = readFaults /\ UNCHANGED R!place
  BY DEF R!SkipDone
<1>2. CallTypes /\ CallShape /\ RestTypes /\ Len(pending) \in Nat BY FoundIs
<1>3. got # <<>>
  <2>1. Len(got) = bufLen /\ bufLen \in BufLens BY <1>1, <1>2 DEF CallShape, BufferGiven
  <2> QED BY <2>1
<1>4. PICK x, kind, lost : x = R!Result(kind, lost, got) /\ kind = "overflow" /\ lost = 0
  OBVIOUS
<1>5. x \in Outcome BY <1>2, <1>4, ResultIs DEF CallTypes, RestTypes
<1>6. x.kind = "overflow" /\ x.data = got BY <1>4 DEF R!Result
<1>7. results' = Append(results, x) BY <1>4 DEF R!SkipDone, R!Return
<1>8. \A r : Underway(r) => Recorded(r)' BY <1>1, <1>3, <1>5, <1>6, <1>7, ToldNow
<1> QED BY <1>1, <1>8, KeepsInPlace DEF R!place

\* The piece of a file that a step reads: where a record begins in it, the step reads
\* of that record.
LEMMA PieceKeeps ==
  ASSUME Found, PendingLast, R!ReadPiece, results' = results \/ \E x : Tells(x)
  PROVE  Keeps
<1>1. PICK h, p, n, c : h = Here /\ p = current.pos /\ n = R!Piece /\ c = consumed OBVIOUS
<1>2. /\ current # R!NoFile /\ h \in 1 .. Len(Segments)
      /\ p \in Nat /\ n \in Nat \ {0} /\ c \in Nat
      /\ current' # R!NoFile /\ current'.file = current.file /\ current'.pos = p + n
      /\ Here' = h /\ R!Reading' /\ consumed' # 0 /\ results' = results
  BY <1>1, PieceMoves
<1>3. PICK s :
        /\ Spans(h, p, n, s, c) /\ Within(Here, current.pos, s, consumed)'
        /\ \A t : consumed # 0 /\ Within(Here, current.pos, t, consumed) => t = s
  BY <1>1, PieceMoves
<1>4. Underway(s)' BY <1>2, <1>3 DEF Underway
<1>5. SystemInv /\ Known /\ DiskInv /\ CurrentSound /\ disk' = disk /\ SystemTypes
      /\ results \in Seq(Outcome) /\ Len(pending) \in Nat /\ Len(disk) \in Nat
  BY FoundIs DEF DirStays, RestTypes, SystemTypes
<1>6. /\ current.file \in 1 .. Len(disk) /\ current.len \in Nat /\ p <= current.len
      /\ current.len <= Len(disk[current.file].data)
      /\ \A a \in 1 .. current.len : disk[current.file].data[a] = Segments[h].data[a]
  BY <1>1, <1>2, <1>5, PlaceIs
<1>7. p + n <= current.len BY <1>1, <1>5, PieceIs DEF SystemInv
<1>8. pending' = pending /\ readFaults' = readFaults BY DEF R!ReadPiece
<1>9. \A r : Recorded(r) => Recorded(r)' BY <1>5, RecordedStays
<1>10. \A r : Underway(r) => Underway(r)' BY <1>3, <1>4 DEF Underway
<1>11. ASSUME NEW r, NEW f, NEW b, InFile(f, b), BeginsAt(r, f, b), ComePast(f, b)',
              ~ ComePast(f, b)
       PROVE  r = s
  <2>1. f \in 1 .. Len(disk) /\ b \in 1 .. Len(disk[f].data) /\ disk[f].data[b] = <<r, 1>>
    BY <1>11 DEF InFile, BeginsAt
  <2>2. f <= Reached BY <1>5, <1>8, <1>11 DEF ComePast, Reached
  <2>3. f < current.file \/ b <= p + n BY <1>2, <1>11 DEF ComePast
  <2>4. ~ (f < current.file) /\ ~ (b <= p) BY <1>1, <1>2, <1>11, <2>2 DEF ComePast
  <2>5. current.file = Reached BY <1>2 DEF PendingLast
  <2>6. f = current.file BY <1>5, <1>6, <2>1, <2>2, <2>4, <2>5
  <2>7. b <= p + n BY <2>3, <2>4
  <2>8. b \in 1 .. current.len /\ b - p \in 1 .. n
    <3>1. b \in Nat /\ b >= 1
      <4>1. disk[f] \in Segment BY <1>5, <2>1 DEF SystemTypes
      <4>2. Len(disk[f].data) \in Nat BY <4>1 DEF Segment
      <4> QED BY <2>1, <4>2
    <3> QED BY <1>2, <1>6, <1>7, <2>4, <2>7, <3>1
  <2>9. PICK k : k = b - p OBVIOUS
  <2>10. k \in 1 .. n /\ p + k = b BY <1>2, <1>6, <2>8, <2>9
  <2>11. Segments[h].data[b] = <<s, c + k>> BY <1>3, <2>10 DEF Spans
  <2>12. Segments[h].data[b] = <<r, 1>> BY <1>6, <2>1, <2>6, <2>8
  <2> QED BY <2>11, <2>12
<1>12. ASSUME NEW r, NEW f, NEW b, InFile(f, b), BeginsAt(r, f, b), ComePast(f, b)'
       PROVE  ComePast(f, b) \/ Underway(r)'
  BY <1>4, <1>11, <1>12
<1> QED BY <1>8, <1>9, <1>10, <1>12 DEF Keeps

LEMMA ReaderKeeps ==
  ASSUME Found, BufferGiven, PendingLast, OpenedWhole, 0 \notin BufLens, R!Next
  PROVE  Keeps
<1>1. SystemInv BY FoundIs
<1>2. results' = results \/ \E x : Tells(x) BY <1>1, ResultsTell
<1>3. CASE R!Call
  <2>1. R!ReadAtEnd \/ \E n : R!Read(n) BY <1>3 DEF R!Call
  <2> QED BY <1>2, <2>1, EndsKeep, CallKeeps
<1>4. CASE R!Step
  <2>1. CASE R!FindNone \/ R!CrossNone BY <1>2, <2>1, EndsKeep
  <2>2. ASSUME NEW k \in 0 .. Len(pending) - 1,
               \/ R!FindSessionEnd(k) \/ R!FindDiscards(k) \/ R!FindsStart(k)
               \/ R!FindSeekFails(k)
               \/ R!CrossSessionEnd(k) \/ R!CrossFollows(k) \/ R!CrossRejects(k)
        PROVE  Keeps
    <3>1. CASE R!FindSessionEnd(k) \/ R!CrossSessionEnd(k) \/ R!CrossRejects(k)
      BY <1>2, <3>1, EndsKeep
    <3>2. CASE R!FindDiscards(k) BY <1>2, <3>2, DiscardKeeps
    <3>3. CASE R!FindsStart(k) BY <1>2, <3>3, StartKeeps
    <3>4. CASE R!FindSeekFails(k) BY <3>4, FaultKeeps
    <3>5. CASE R!CrossFollows(k) BY <1>2, <3>5, FollowsKeeps
    <3> QED BY <2>2, <3>1, <3>2, <3>3, <3>4, <3>5
  <2>3. CASE R!ReadPiece BY <1>2, <2>3, PieceKeeps
  <2>4. CASE R!PieceFails BY <2>4, FaultKeeps
  <2>5. CASE R!HeaderDone BY <1>2, <2>5, HeaderKeeps
  <2>6. CASE R!PayloadDone BY <1>2, <2>6, PayloadKeeps
  <2>7. CASE R!SkipDone BY <1>2, <2>7, SkipKeeps
  <2> QED BY <1>4, <2>1, <2>2, <2>3, <2>4, <2>5, <2>6, <2>7 DEF R!Step
<1> QED BY <1>3, <1>4 DEF R!Next

\* A step of the reader leaves the open file, stays in it, or opens another.
LEMMA CurrentMoves ==
  ASSUME SystemInv, R!Next
  PROVE  \/ current' = R!NoFile
         \/ current # R!NoFile /\ current'.file = current.file /\ current'.len = current.len
         \/ \E f \in 1 .. Len(disk) : \E p : current' = R!Open(f, p)
<1>1. SystemTypes /\ PlaceTypes /\ ReaderInv /\ Len(pending) \in Nat
  BY DEF SystemInv, ReaderInv, PlaceTypes
<1>2. CASE current' = current BY <1>2
<1>3. CASE R!ReadPiece
  <2>1. current' = [current EXCEPT !.pos = @ + R!Piece] /\ current # R!NoFile
    BY <1>1, <1>3, PieceIs DEF R!ReadPiece
  <2>2. current \in [file : 1 .. Len(disk), pos : Nat, len : Nat] BY <1>1, <2>1 DEF PlaceTypes
  <2> QED BY <2>1, <2>2
<1>4. ASSUME NEW k \in 0 .. Len(pending) - 1, R!FindsStart(k) \/ R!CrossFollows(k)
      PROVE  \E f \in 1 .. Len(disk) : \E p : current' = R!Open(f, p)
  <2>1. k + 1 \in 1 .. Len(pending) BY <1>1
  <2>2. pending[k + 1] \in 1 .. Len(disk) BY <1>1, <2>1 DEF PlaceTypes
  <2> QED BY <1>4, <2>2 DEF R!FindsStart, R!CrossFollows
<1>5. CASE R!Call
  BY <1>2, <1>5 DEF R!Call, R!ReadAtEnd, R!Read, R!place
<1>6. CASE R!Step
  <2>1. CASE R!FindNone \/ R!CrossNone \/ R!PieceFails
    BY <2>1 DEF R!FindNone, R!CrossNone, R!PieceFails
  <2>2. CASE R!HeaderDone \/ R!PayloadDone \/ R!SkipDone
    BY <1>2, <2>2 DEF R!HeaderDone, R!PayloadDone, R!SkipDone, R!place
  <2>3. ASSUME NEW k \in 0 .. Len(pending) - 1,
               \/ R!FindSessionEnd(k) \/ R!FindDiscards(k) \/ R!FindSeekFails(k)
               \/ R!CrossSessionEnd(k) \/ R!CrossRejects(k)
        PROVE  current' = R!NoFile
    BY <2>3 DEF R!FindSessionEnd, R!FindDiscards, R!FindSeekFails, R!CrossSessionEnd,
                R!CrossRejects
  <2> QED BY <1>3, <1>4, <1>6, <2>1, <2>2, <2>3 DEF R!Step
<1> QED BY <1>5, <1>6 DEF R!Next

LEMMA OpenedStep ==
  ASSUME Found, OpenedWhole, known' = known, R!Next
  PROVE  OpenedWhole'
<1>1. SystemInv /\ DirStays /\ SystemTypes BY FoundIs
<1>2. disk' = disk BY <1>1 DEF DirStays
<1>3. CASE current' = R!NoFile BY <1>3 DEF OpenedWhole
<1>4. CASE current # R!NoFile /\ current'.file = current.file /\ current'.len = current.len
  BY <1>2, <1>4 DEF OpenedWhole
<1>5. ASSUME NEW f \in 1 .. Len(disk), NEW p, current' = R!Open(f, p) PROVE OpenedWhole'
  <2>1. PICK m : m = Len(disk[f].data) OBVIOUS
  <2>2. m \in Nat
    <3>1. disk[f] \in Segment BY <1>1 DEF SystemTypes
    <3> QED BY <2>1, <3>1 DEF Segment
  <2>3. current'.file = f /\ current'.len = m BY <1>5, <2>1 DEF R!Open
  <2>4. \A n : n \notin m + 1 .. m BY <2>2
  <2> QED BY <1>2, <2>1, <2>3, <2>4 DEF OpenedWhole
<1> QED BY <1>1, <1>3, <1>4, <1>5, CurrentMoves

LEMMA DoneStep ==
  ASSUME KnownDone, UNCHANGED <<phase, known, disk, lens, wvars>>
  PROVE  KnownDone'
<1>1. UNCHANGED <<files, records>> BY DEF wvars
<1>2. Present' = Present BY <1>1 DEF Present
<1> QED BY <1>1, <1>2 DEF KnownDone, No, Stored

-----------------------------------------------------------------------------
(* What a reader knows stays as it is while a writer writes on beside it.  *)

\* No name comes back to a file that has lost it.
LEMMA NamesStay ==
  ASSUME Inv, Next, NEW i \in Present', i \in 1 .. Len(files)
  PROVE  i \in Present
<1>1. files[i].present
  <2>1. files'[i].present BY DEF Present
  <2>2. CASE Shrinks BY <2>1, <2>2 DEF Shrinks, Stays
  <2>3. ASSUME NEW id \in FreeIds, Makes(id) PROVE files[i].present
    <3>1. PICK f : files' = Append(files, f) BY <2>3 DEF Makes
    <3>2. files \in Seq(File) BY DEF Inv, TypeOK
    <3>3. files'[i] = files[i] BY <3>1, <3>2
    <3> QED BY <2>1, <3>3
  <2> QED BY <2>2, <2>3, NamesMove
<1> QED BY <1>1 DEF Present

\* A writer done with a record has nothing more to say of it.
LEMMA DoneStays ==
  ASSUME Inv, NEW n \in Nat, Writes(n), NEW r \in 1 .. Len(records), records[r].status # "writing"
  PROVE  r \in 1 .. Len(records') /\ records'[r].status # "writing"
<1>1. /\ Len(records) \in Nat /\ Len(records') \in {Len(records), Len(records) + 1}
      /\ Len(records') = Len(records) + 1 => \A q \in 1 .. Len(records) : records'[q] = records[q]
      /\ Len(records') = Len(records) =>
           GoesOn(n) \/ (RecordComplete /\ Ends("acked")) \/ Ends("failed")
  BY LensStay
<1>2. r \in 1 .. Len(records') BY <1>1
<1>3. CASE Len(records') = Len(records) + 1 BY <1>1, <1>2, <1>3
<1>4. ASSUME NEW s, Verdict(s), s # "writing" \/ s = records[Rec].status
      PROVE  records'[r].status # "writing"
  <2>1. records'[r].status = IF r = Rec THEN s ELSE records[r].status BY <1>4 DEF Verdict
  <2> QED BY <1>4, <2>1
<1>5. CASE Len(records') = Len(records)
  <2>1. \E s : Verdict(s) /\ (s # "writing" \/ s = records[Rec].status)
    BY <1>1, <1>5 DEF GoesOn, Ends
  <2> QED BY <1>2, <1>4, <2>1
<1> QED BY <1>1, <1>3, <1>5

\* No byte is added of a record that its writer is done with.
LEMMA DoneBytes ==
  ASSUME Inv, Alone, Next, NEW m \in 1 .. Len(files'), NEW a \in 1 .. Len(files'[m].data),
         NEW r \in 1 .. Len(records), files'[m].data[a][1] = r, records[r].status # "writing"
  PROVE  /\ m \in 1 .. Len(files) /\ a \in 1 .. Len(files[m].data)
         /\ files'[m].data[a] = files[m].data[a]
<1>1. PICK n \in Nat : Stores(n) BY NextWrites
<1>2. Held(m, a) \/ Added(m, a, n) BY <1>1, PlacesAfter
<1>3. ASSUME Added(m, a, n) PROVE FALSE
  <2>1. PICK k : files'[m].data[a] = <<Rec, off + k>> /\ pc = "bytes" BY <1>3 DEF Added
  <2>2. r = Rec BY <2>1
  <2>3. back = "bytes" BY <2>1 DEF Inv, Place, Control
  <2> QED BY <2>2, <2>3 DEF Alone
<1> QED BY <1>2, <1>3 DEF Held

LEMMA KnownIs ==
  ASSUME SystemInv, Sources, KnownDone, phase = "live"
  PROVE  /\ Writing /\ WriterInv /\ Inv /\ Alone /\ known \in Nat
         /\ Len(lens) = Len(records) /\ Len(records) \in Nat
         /\ \A r \in 1 .. known :
              /\ r \in 1 .. Len(records) /\ records[r].status # "writing"
              /\ lens[r] = records[r].len
<1>1. Writing /\ WriterInv /\ Inv /\ Alone
  BY DEF Writing, Sources, WriterInv, StorageInv
<1>2. /\ lens = Written /\ Len(Written) = Len(records)
      /\ \A r \in 1 .. Len(records) : Written[r] = records[r].len
  BY <1>1, SourceIs DEF Sources
<1>3. Len(records) \in Nat BY <1>1 DEF Inv, TypeOK
<1>4. known \in 0 .. Len(records) /\ \A r \in 1 .. known : records[r].status # "writing"
  BY <1>2 DEF KnownDone
<1> QED BY <1>1, <1>2, <1>3, <1>4

\* The files listed, as a step of the writer leaves them.
LEMMA FileNow ==
  ASSUME SystemInv, Write, phase = "live", NEW f \in 1 .. Len(disk), NEW m, m = disk[f].no
  PROVE  /\ Len(disk') = Len(disk) /\ f \in 1 .. Len(disk')
         /\ disk'[f] = IF m \in Present' THEN Stored(m, files'[m])
                       ELSE [disk[f] EXCEPT !.whole = FALSE]
<1>1. disk' = Refreshed BY DEF Write
<1>2. disk \in Seq(Segment) /\ Len(disk) \in Nat BY DEF SystemInv, SystemTypes
<1> QED BY <1>1, <1>2 DEF Refreshed

\* Of what is known, a file has nothing but what it had.
LEMMA KnownByte ==
  ASSUME SystemInv, Sources, KnownDone, Write, phase = "live", SystemInv',
         NEW f \in 1 .. Len(disk'), NEW n \in 1 .. Len(disk'[f].data),
         NEW b, b = disk'[f].data[n], b[1] <= known
  PROVE  /\ InFile(f, n) /\ disk[f].data[n] = b
         /\ disk'[f].whole => disk[f].whole
<1>1. PICK m : m = disk[f].no OBVIOUS
<1>2. /\ f \in 1 .. Len(disk)
      /\ disk'[f] = IF m \in Present' THEN Stored(m, files'[m])
                    ELSE [disk[f] EXCEPT !.whole = FALSE]
  <2>1. Len(disk') = Len(disk)
    <3>1. disk' = Refreshed BY DEF Write
    <3> QED BY <3>1 DEF SystemInv, SystemTypes, Refreshed
  <2> QED BY <1>1, <2>1, FileNow
<1>3. CASE m \notin Present'
  <2>1. disk[f] \in Segment BY <1>2 DEF SystemInv, SystemTypes
  <2>2. disk'[f] = [disk[f] EXCEPT !.whole = FALSE] BY <1>2, <1>3
  <2>3. disk'[f].data = disk[f].data /\ ~ disk'[f].whole BY <2>1, <2>2 DEF Segment
  <2> QED BY <1>2, <2>3 DEF InFile
<1>4. CASE m \in Present'
  <2>1. disk'[f] = Stored(m, files'[m]) BY <1>2, <1>4
  <2>2. disk'[f].data = files'[m].data /\ disk'[f].whole = files'[m].whole BY <2>1 DEF Stored
  <2>3. m \in 1 .. Len(files') /\ n \in 1 .. Len(files'[m].data) /\ files'[m].data[n] = b
    BY <1>4, <2>2 DEF Present
  <2>4. b[1] \in 1 .. known
    <3>1. Inv' BY DEF SystemInv, Write, Writing
    <3>2. Contents' BY <3>1 DEF Inv, FileInv
    <3>3. b[1] \in 1 .. Len(records') BY <2>3, <3>2 DEF Contents
    <3>4. Len(records') \in Nat BY <3>1 DEF Inv, TypeOK
    <3>5. known \in Nat BY KnownIs
    <3> QED BY <3>3, <3>4, <3>5
  <2>5. Next BY DEF Write
  <2>6. /\ m \in 1 .. Len(files) /\ n \in 1 .. Len(files[m].data)
        /\ files'[m].data[n] = files[m].data[n]
    BY <2>3, <2>4, <2>5, KnownIs, DoneBytes
  <2>7. m \in Present BY <1>4, <2>5, <2>6, KnownIs, NamesStay
  <2>8. disk[f] = Stored(m, files[m]) BY <1>1, <1>2, <2>7 DEF KnownDone, No
  <2>9. disk[f].data = files[m].data /\ disk[f].whole = files[m].whole BY <2>8 DEF Stored
  <2>10. files'[m].whole = files[m].whole BY <2>6, WriteGrows DEF FilesGrow, SameHeader
  <2> QED BY <1>2, <2>2, <2>3, <2>6, <2>9, <2>10 DEF InFile
<1> QED BY <1>3, <1>4

LEMMA DoneBesideWriter ==
  ASSUME SystemInv, Sources, KnownDone, Write, phase = "live", SystemInv', Sources'
  PROVE  KnownDone'
<1>1. /\ Inv /\ Alone /\ known \in Nat /\ Len(lens) = Len(records) /\ Len(records) \in Nat
      /\ \A r \in 1 .. known : r \in 1 .. Len(records) /\ records[r].status # "writing"
  BY KnownIs
<1>2. known' = known /\ phase' = "live" /\ Next BY DEF Write
<1>3. PICK n \in Nat : Writes(n) BY <1>1, <1>2, NextWrites
<1>4. \A r \in 1 .. known : r \in 1 .. Len(records') /\ records'[r].status # "writing"
  BY <1>1, <1>3, DoneStays
<1>5. known \in 0 .. Len(lens')
  <2>1. Writing' /\ Inv' BY <1>2 DEF SystemInv, Writing
  <2>2. lens' = Written' BY <1>2 DEF Sources
  <2>3. Len(Written) = Len(lens) BY DEF Sources
  <2>4. Len(Written) <= Len(Written') BY WriteGrows DEF Grow
  <2>5. Len(lens') \in Nat BY DEF SystemInv, SystemTypes
  <2>6. known <= Len(lens) BY DEF KnownDone
  <2> QED BY <1>1, <2>2, <2>3, <2>4, <2>5, <2>6
<1>6. ASSUME NEW k \in 1 .. Len(disk'), NEW i, i = disk'[k].no, i \in Present'
      PROVE  disk'[k] = Stored(i, files'[i])
  <2>1. k \in 1 .. Len(disk)
    <3>1. disk' = Refreshed BY DEF Write
    <3> QED BY <3>1 DEF SystemInv, SystemTypes, Refreshed
  <2>2. i = disk[k].no BY <1>6, <2>1, FilesKeepNumbers DEF No
  <2> QED BY <1>6, <2>1, <2>2, FileNow
<1>7. \A k \in 1 .. Len(disk') : disk'[k].no \in Present' =>
        disk'[k] = Stored(disk'[k].no, files'[disk'[k].no])
  BY <1>6
<1> QED BY <1>2, <1>4, <1>5, <1>7 DEF KnownDone, No

LEMMA OpenedBesideWriter ==
  ASSUME SystemInv, Sources, KnownDone, OpenedWhole, Write, phase = "live", SystemInv'
  PROVE  OpenedWhole'
<1>1. UNCHANGED <<current, known>> BY DEF Write, readervars
<1>2. SUFFICES ASSUME current # R!NoFile, NEW f, f = current.file,
                      NEW n \in current.len + 1 .. Len(disk'[f].data),
                      disk'[f].data[n][1] <= known
               PROVE  FALSE
  BY <1>1 DEF OpenedWhole
<1>3. /\ current' \in [file : 1 .. Len(disk'), pos : Nat, len : Nat]
      /\ disk' \in Seq(Segment)
  BY <1>1, <1>2 DEF SystemInv, SystemTypes, ReaderInv, PlaceTypes
<1>4. f \in 1 .. Len(disk') /\ current.len \in Nat /\ Len(disk'[f].data) \in Nat
  <2>1. f \in 1 .. Len(disk') /\ current.len \in Nat BY <1>1, <1>2, <1>3
  <2>2. disk'[f] \in Segment BY <1>3, <2>1
  <2> QED BY <2>1, <2>2 DEF Segment
<1>5. n \in 1 .. Len(disk'[f].data) BY <1>2, <1>4
<1>6. PICK b : b = disk'[f].data[n] OBVIOUS
<1>7. InFile(f, n) /\ disk[f].data[n] = b BY <1>2, <1>4, <1>5, <1>6, KnownByte
<1>8. n \in current.len + 1 .. Len(disk[f].data)
  <2>1. disk[f] \in Segment BY <1>7 DEF InFile, SystemInv, SystemTypes
  <2>2. Len(disk[f].data) \in Nat BY <2>1 DEF Segment
  <2> QED BY <1>2, <1>4, <1>7, <2>2 DEF InFile
<1> QED BY <1>2, <1>6, <1>7, <1>8 DEF OpenedWhole

\* Byte b is in a file that opens.
Readable(b) ==
  \E f \in 1 .. Len(disk) :
    disk[f].whole /\ \E n \in 1 .. Len(disk[f].data) : disk[f].data[n] = b

LEMMA SurvivesIs == \A r : Survives(r) <=> \A o \in 1 .. TotalLen(lens[r]) : Readable(<<r, o>>)
BY DEF Survives, Readable

LEMMA UnderwayStays ==
  ASSUME SystemInv, Sources, Known, DiskInv, ReaderSound, Write, phase = "live",
         NEW r, Underway(r)
  PROVE  Underway(r)'
<1>1. Grow BY WriteGrows
<1>2. UNCHANGED <<current, rpc, consumed>> BY DEF Write, readervars
<1>3. R!Reading /\ R!Reading' /\ consumed # 0 BY <1>2 DEF Underway, R!Reading
<1>4. current # R!NoFile BY <1>3 DEF SystemInv, ReaderInv, Anchored
<1>5. PICK h, p, o : h = Here /\ p = current.pos /\ o = consumed OBVIOUS
<1>6. /\ h \in 1 .. Len(Segments) /\ p \in 0 .. Len(Segments[h].data)
      /\ current.file \in 1 .. Len(disk)
  BY <1>4, <1>5, PlaceIs DEF ReaderSound, PlaceSound
<1>7. Here' = h
  <2>1. PICK k : k = current.file OBVIOUS
  <2>2. No(k)' = No(k) BY <1>6, <2>1, FilesKeepNumbers
  <2> QED BY <1>2, <1>5, <2>1, <2>2 DEF Here, No
<1>8. Within(h, p, r, o) BY <1>5 DEF Underway
<1>9. Within(h, p, r, o)' BY <1>1, <1>6, <1>8, GrownPlace
<1>10. Within(Here, current.pos, r, consumed)' BY <1>2, <1>5, <1>7, <1>9 DEF Within
<1> QED BY <1>2, <1>3, <1>10 DEF Underway

LEMMA LostBesideWriter ==
  ASSUME SystemInv, Sources, Known, DiskInv, ReaderSound, KnownDone, NoneLost,
         Write, phase = "live", SystemInv', Sources'
  PROVE  NoneLost'
<1>1. UNCHANGED <<pending, current, rpc, consumed, results, readFaults, known>>
  BY DEF Write, readervars
<1> SUFFICES ASSUME readFaults = 0, NEW f \in 1 .. Len(disk'), NEW n \in 1 .. Len(disk'[f].data),
                      NEW r, r = disk'[f].data[n][1],
                      Due(r)', BeginsAt(r, f, n)', ComePast(f, n)'
               PROVE  Recorded(r)' \/ Underway(r)'
  BY <1>1 DEF NoneLost
<1>3. r \in 1 .. known BY <1>1 DEF Due
<1>4. PICK b : b = disk'[f].data[n] OBVIOUS
<1>5. b = <<r, 1>> /\ disk'[f].whole BY <1>4 DEF BeginsAt
<1>6. known \in Nat BY KnownIs
<1>7. InFile(f, n) /\ disk[f].data[n] = b /\ disk[f].whole
  <2>1. b[1] <= known BY <1>3, <1>5, <1>6
  <2> QED BY <1>4, <1>5, <2>1, KnownByte
<1>8. BeginsAt(r, f, n) BY <1>5, <1>7 DEF BeginsAt
<1>9. lens'[r] = lens[r]
  <2>1. lens = Written /\ lens' = Written'
    <3>1. phase' = "live" BY DEF Write
    <3> QED BY <3>1 DEF Sources
  <2>2. r \in 1 .. Len(lens) BY <1>3, KnownIs
  <2> QED BY <2>1, <2>2, WriteGrows DEF Grow
<1>10. Due(r)
  <2>1. ASSUME NEW o \in 1 .. TotalLen(lens[r]) PROVE Readable(<<r, o>>)
    <3>1. Survives(r)' BY DEF Due
    <3>2. PICK g \in 1 .. Len(disk') :
            disk'[g].whole /\ \E m \in 1 .. Len(disk'[g].data) : disk'[g].data[m] = <<r, o>>
      BY <1>9, <2>1, <3>1 DEF Survives
    <3>3. PICK m \in 1 .. Len(disk'[g].data) : disk'[g].data[m] = <<r, o>> BY <3>2
    <3>4. PICK d : d = disk'[g].data[m] OBVIOUS
    <3>5. d = <<r, o>> /\ d[1] <= known BY <1>3, <1>6, <3>3, <3>4
    <3>6. InFile(g, m) /\ disk[g].data[m] = d /\ disk[g].whole
      BY <3>2, <3>3, <3>4, <3>5, KnownByte
    <3> QED BY <3>5, <3>6 DEF Readable, InFile
  <2>2. Survives(r) BY <2>1, SurvivesIs
  <2>3. lens[r] > 0 BY <1>9 DEF Due
  <2> QED BY <1>3, <2>2, <2>3 DEF Due
<1>11. ComePast(f, n)
  <2>1. Len(disk') = Len(disk) BY <1>7, FileNow DEF InFile
  <2>2. Reached' = Reached BY <1>1, <2>1 DEF Reached
  <2> QED BY <1>1, <2>2 DEF ComePast
<1>12. Recorded(r) \/ Underway(r) BY <1>1, <1>7, <1>8, <1>10, <1>11, NotLost
<1>13. Recorded(r) => Recorded(r)' BY <1>1 DEF Recorded, Telling, Told
<1> QED BY <1>12, <1>13, UnderwayStays

-----------------------------------------------------------------------------
(* A reader is made.                                                       *)

LEMMA FreshContains ==
  ASSUME current' = R!NoFile, results' = <<>>, known' = 0 \/ Reached' = 0
  PROVE  OpenedWhole' /\ NoneLost'
<1>1. OpenedWhole' BY DEF OpenedWhole
<1>2. ASSUME NEW f \in 1 .. Len(disk'), NEW n, NEW r, Due(r)', ComePast(f, n)' PROVE FALSE
  <2>1. CASE known' = 0
    <3>1. r \in 1 .. known' BY <1>2 DEF Due
    <3> QED BY <2>1, <3>1
  <2>2. CASE Reached' = 0
    <3>1. f <= Reached' BY <1>2 DEF ComePast
    <3> QED BY <1>2, <2>2, <3>1
  <2> QED BY <2>1, <2>2
<1>3. NoneLost' BY <1>2 DEF NoneLost
<1> QED BY <1>1, <1>3

\* All the files are pending.
LEMMA AllPending ==
  ASSUME NEW listing \in Seq(Segment), NEW lengths, R!New(listing, lengths), current = R!NoFile,
         results = <<>>
  PROVE  PendingLast' /\ Reached' = 0 /\ current' = R!NoFile /\ results' = <<>>
<1>1. PICK n : n = Len(listing) OBVIOUS
<1>2. n \in Nat BY <1>1
<1>3. pending' = [f \in 1 .. n |-> f] /\ disk' = listing BY <1>1 DEF R!New
<1>4. Len(pending') = n /\ \A p \in 1 .. n : pending'[p] = p BY <1>2, <1>3
<1>5. Reached' = 0 BY <1>1, <1>2, <1>3, <1>4 DEF Reached
<1>6. current' = R!NoFile /\ results' = <<>> BY DEF R!New
<1>7. \A p \in 1 .. Len(pending') : pending'[p] = Reached' + p BY <1>2, <1>4, <1>5
<1>8. ~ R!AtEof' BY <1>6 DEF R!AtEof
<1> QED BY <1>5, <1>6, <1>7, <1>8 DEF PendingLast

\* The records that have been written are all but the one being written, the last.
LEMMA DoneCounted ==
  ASSUME Inv, Alone, NEW n, n = Cardinality({r \in 1 .. Len(records) : records[r].status # "writing"})
  PROVE  n \in 0 .. Len(records) /\ \A r \in 1 .. n : records[r].status # "writing"
<1>1. PICK m, S : /\ m = Len(records)
                  /\ S = {r \in 1 .. Len(records) : records[r].status # "writing"}
                  /\ n = Cardinality(S)
  OBVIOUS
<1>2. m \in Nat BY <1>1 DEF Inv, TypeOK
<1>3. \A k : S = 1 .. k /\ k \in 0 .. m =>
        n \in 0 .. m /\ \A r \in 1 .. n : records[r].status # "writing"
  <2> SUFFICES ASSUME NEW k, S = 1 .. k, k \in 0 .. m
               PROVE  n = k /\ \A r \in 1 .. k : records[r].status # "writing"
    OBVIOUS
  <2>1. k \in Int /\ 1 \in Int /\ k >= 0 BY <1>2
  <2>2. Cardinality(1 .. k) = IF 1 > k THEN 0 ELSE k - 1 + 1 BY <2>1, FS_Interval
  <2>3. Cardinality(1 .. k) = k BY <2>1, <2>2
  <2>4. n = k BY <1>1, <2>3
  <2>5. \A r \in S : records[r].status # "writing" BY <1>1
  <2> QED BY <2>4, <2>5
<1>4. CASE back \in {"build", "bytes", "error"} /\ m # 0
  <2>1. S = 1 .. m - 1 BY <1>1, <1>2, <1>4 DEF Alone, Rec
  <2>2. m - 1 \in 0 .. m BY <1>2, <1>4
  <2> QED BY <1>3, <1>1, <2>1, <2>2
<1>5. CASE ~ (back \in {"build", "bytes", "error"} /\ m # 0)
  <2>1. S = 1 .. m BY <1>1, <1>2, <1>5 DEF Alone
  <2>2. m \in 0 .. m BY <1>2
  <2> QED BY <1>3, <1>1, <2>1, <2>2
<1> QED BY <1>4, <1>5

LEMMA DoneBeside ==
  ASSUME SystemInv, Sources, OpenBesideWriter
  PROVE  KnownDone'
<1>1. Known BY SourcesKnown
<1>2. /\ Writing /\ Inv /\ NamesInv /\ Listing \in Seq(Segment) /\ Len(Segments) = Len(files)
  BY <1>1, BesideListed
<1>3. Alone BY <1>2 DEF Sources, WriterInv, StorageInv
<1>4. PICK new \in Seq(Segment) :
        /\ disk' = Listing \o new /\ Len(new) <= 1
        /\ \A k \in 1 .. Len(new) :
             new[k].no = Len(Segments) + 1 /\ new[k].data = <<>> /\ ~ new[k].whole
  BY <1>1, BesideListed
<1>5. /\ UNCHANGED <<files, records>> /\ phase' = "live" /\ lens' = Lengths
      /\ known' = Cardinality({r \in 1 .. Len(records) : records[r].status # "writing"})
  BY DEF OpenBesideWriter, wvars, R!New
<1>6. known' \in 0 .. Len(records) /\ \A r \in 1 .. known' : records[r].status # "writing"
  BY <1>2, <1>3, <1>5, DoneCounted
<1>7. Len(lens') = Len(records)
  <2>1. Len(records) \in Nat BY <1>2 DEF Inv, TypeOK
  <2> QED BY <1>5, <2>1 DEF Lengths
<1>8. Concatenates(disk', Listing, new) BY <1>2, <1>4, Linked
<1>9. Present' = Present BY <1>5 DEF Present
<1>10. ASSUME NEW k \in 1 .. Len(disk'), NEW i, i = disk'[k].no, i \in Present
       PROVE  disk'[k] = Stored(i, files[i])
  <2>1. CASE k \in 1 .. Len(Listing)
    <3>1. disk'[k] = Listing[k] BY <1>8, <2>1 DEF Concatenates
    <3>2. Listing[k] = Stored(Nth(k), files[Nth(k)]) /\ Listing[k].no = Nth(k)
      BY <1>2, <2>1, ListingIs DEF Inv, NamesInv
    <3> QED BY <1>10, <3>1, <3>2
  <2>2. CASE k \notin 1 .. Len(Listing)
    <3>1. PICK l, m : l = Len(Listing) /\ m = Len(new) OBVIOUS
    <3>2. l \in Nat /\ m \in Nat /\ Len(disk') = l + m BY <1>2, <1>4, <1>8, <3>1 DEF Concatenates
    <3>3. k - l \in 1 .. m /\ k = l + (k - l) BY <2>2, <3>1, <3>2
    <3>4. disk'[k] = new[k - l] BY <1>8, <3>1, <3>3 DEF Concatenates
    <3>5. i = Len(files) + 1 BY <1>2, <1>4, <1>10, <3>1, <3>3, <3>4
    <3>6. i \in 1 .. Len(files) /\ Len(files) \in Nat BY <1>2, <1>10 DEF Present, Inv, TypeOK
    <3> QED BY <3>5, <3>6
  <2> QED BY <2>1, <2>2
<1>11. \A k \in 1 .. Len(disk') : disk'[k].no \in Present' =>
         disk'[k] = Stored(disk'[k].no, files'[disk'[k].no])
  BY <1>5, <1>9, <1>10
<1> QED BY <1>5, <1>6, <1>7, <1>11 DEF KnownDone, No

LEMMA PendingSame ==
  ASSUME PendingLast, Len(disk') = Len(disk), UNCHANGED <<pending, current, results>>
  PROVE  PendingLast'
<1>1. Reached' = Reached BY DEF Reached
<1> QED BY <1>1 DEF PendingLast, R!AtEof

\* Before there is a reader, and when it is made.
LEMMA PendingMade ==
  ASSUME SystemInv, SystemInv', phase \in {"writing", "damaging"},
         UNCHANGED readervars \/ OpenBesideWriter \/ OpenReader
  PROVE  PendingLast'
<1>1. pending = <<>> /\ current = R!NoFile /\ results = <<>> BY DEF SystemInv, Unborn
<1>2. CASE UNCHANGED readervars
  <2>1. pending' = <<>> /\ current' = R!NoFile BY <1>1, <1>2 DEF readervars
  <2> QED BY <2>1 DEF PendingLast
<1>3. CASE OpenBesideWriter \/ OpenReader
  <2>1. \E listing, lengths : R!New(listing, lengths)
    BY <1>3 DEF OpenBesideWriter, OpenReader
  <2>2. PICK listing, lengths : R!New(listing, lengths) BY <2>1
  <2>3. disk' = listing BY <2>2 DEF R!New
  <2>4. listing \in Seq(Segment) BY <2>3 DEF SystemInv, SystemTypes
  <2> QED BY <1>1, <2>2, <2>4, AllPending
<1> QED BY <1>2, <1>3

LEMMA PlacesKept ==
  ASSUME SystemInv, SystemInv', BufferGiven, PendingLast, [SystemNext]_sysvars
  PROVE  BufferGiven' /\ PendingLast'
<1>1. CASE ReadOn
  <2>1. R!Next BY <1>1 DEF ReadOn
  <2> QED BY <2>1, PendingStep, BufferStep
<1>2. ASSUME UNCHANGED <<rpc, bufLen>> PROVE BufferGiven' BY <1>2 DEF BufferGiven
<1>3. ASSUME UNCHANGED readervars, Len(disk') = Len(disk) PROVE BufferGiven' /\ PendingLast'
  <2>1. UNCHANGED <<rpc, bufLen, pending, current, results>> BY <1>3 DEF readervars
  <2> QED BY <1>2, <1>3, <2>1, PendingSame
<1>4. ASSUME UNCHANGED readervars, phase \in {"writing", "damaging"}
      PROVE  BufferGiven' /\ PendingLast'
  <2>1. UNCHANGED <<rpc, bufLen>> BY <1>4 DEF readervars
  <2> QED BY <1>2, <1>4, <2>1, PendingMade
<1>5. CASE Write
  <2>1. UNCHANGED readervars BY <1>5 DEF Write
  <2>2. CASE phase = "live"
    <3>1. disk' = Refreshed BY <1>5, <2>2 DEF Write
    <3>2. Len(disk') = Len(disk) BY <3>1 DEF SystemInv, SystemTypes, Refreshed
    <3> QED BY <1>3, <2>1, <3>2
  <2>3. CASE phase = "writing" BY <1>4, <2>1, <2>3
  <2> QED BY <1>5, <2>2, <2>3 DEF Write
<1>6. CASE StopWriting
  <2>1. UNCHANGED readervars BY <1>6 DEF StopWriting
  <2>2. CASE phase = "live"
    <3>1. disk' = disk BY <1>6, <2>2 DEF StopWriting
    <3> QED BY <1>3, <2>1, <3>1
  <2>3. CASE phase = "writing" BY <1>4, <2>1, <2>3
  <2> QED BY <1>6, <2>2, <2>3 DEF StopWriting
<1>7. CASE OpenBesideWriter \/ OpenReader
  <2>1. \E listing, lengths : R!New(listing, lengths)
    BY <1>7 DEF OpenBesideWriter, OpenReader
  <2>2. UNCHANGED <<rpc, bufLen>> BY <2>1 DEF R!New, R!call
  <2>3. phase \in {"writing", "damaging"} BY <1>7 DEF OpenBesideWriter, OpenReader
  <2> QED BY <1>2, <1>7, <2>2, <2>3, PendingMade
<1>8. ASSUME NEW i \in 1 .. Len(disk), Damage(i) \/ Corrupt(i)
      PROVE  BufferGiven' /\ PendingLast'
  <2>1. phase = "damaging" /\ UNCHANGED readervars BY <1>8 DEF Damage, Corrupt
  <2> QED BY <1>4, <2>1
<1>9. CASE UNCHANGED sysvars
  <2>1. UNCHANGED readervars /\ disk' = disk BY <1>9 DEF sysvars, rdvars
  <2> QED BY <1>3, <2>1
<1> QED BY <1>1, <1>5, <1>6, <1>7, <1>8, <1>9 DEF SystemNext

LEMMA ContainStep ==
  ASSUME SystemInv, Sources, DiskInv, ReaderSound, SequencesLeft, BufferGiven, PendingLast,
         KnownDone, OpenedWhole, 0 \notin BufLens => NoneLost,
         [SystemNext]_sysvars, SystemInv', Sources'
  PROVE  KnownDone' /\ OpenedWhole' /\ (0 \notin BufLens => NoneLost')
<1>1. Known /\ Len(lens') \in Nat BY SourcesKnown DEF SystemInv, SystemTypes
<1>2. ASSUME phase \in {"writing", "damaging"}, phase' \in {"writing", "damaging"},
             UNCHANGED <<known, readervars>>
      PROVE  KnownDone' /\ OpenedWhole' /\ (0 \notin BufLens => NoneLost')
  <2>1. known' = 0 BY <1>2 DEF KnownDone
  <2>2. current = R!NoFile /\ results = <<>> BY <1>2 DEF SystemInv, Unborn
  <2>3. current' = R!NoFile /\ results' = <<>> BY <1>2, <2>2 DEF readervars
  <2>4. KnownDone'
    <3>1. 0 \in 0 .. Len(lens') /\ phase' # "live" BY <1>1, <1>2
    <3> QED BY <2>1, <3>1 DEF KnownDone
  <2> QED BY <2>1, <2>3, <2>4, FreshContains
<1>3. ASSUME UNCHANGED <<known, disk, lens, readervars>>, phase \in {"live", "reading"},
             Segments' = Segments, Written' = Written
      PROVE  OpenedWhole' /\ (0 \notin BufLens => NoneLost')
  <2>1. /\ UNCHANGED <<pending, current, rpc, consumed, results, readFaults, known>>
        /\ disk' = disk /\ DirStays
    BY <1>3 DEF readervars, DirStays
  <2>2. OpenedWhole' BY <2>1 DEF OpenedWhole
  <2>3. lens = Written BY <1>3 DEF Sources
  <2>4. PlaceTypes' BY DEF SystemInv, ReaderInv
  <2>5. Found BY <1>1, <2>1, <2>3, <2>4 DEF Found
  <2>6. Here' = Here /\ (R!Reading => R!Reading') BY <2>1 DEF Here, No, R!Reading
  <2>7. \A r : Underway(r) => Underway(r)'
    BY <2>1, <2>6 DEF Underway, Within, DirStays
  <2>8. Keeps BY <2>1, <2>5, <2>7, KeepsInPlace
  <2> QED BY <2>1, <2>2, <2>8, LostOn
<1>4. CASE Write
  <2>1. CASE phase = "live"
    BY <1>1, <1>4, <2>1, DoneBesideWriter, OpenedBesideWriter, LostBesideWriter
  <2>2. CASE phase = "writing"
    <3>1. phase' = phase /\ UNCHANGED <<known, readervars>> BY <1>4 DEF Write
    <3> QED BY <1>2, <2>2, <3>1
  <2> QED BY <1>4, <2>1, <2>2 DEF Write
<1>5. CASE StopWriting
  <2>1. UNCHANGED <<known, readervars>> BY <1>5 DEF StopWriting
  <2>2. CASE phase = "live"
    <3>1. phase' = "reading" /\ UNCHANGED <<disk, lens>> BY <1>5, <2>2 DEF StopWriting
    <3>2. Segments' = Segments /\ Written' = Written BY <1>5, SourceKept
    <3>3. KnownDone' BY <2>1, <3>1 DEF KnownDone
    <3> QED BY <1>3, <2>1, <2>2, <3>1, <3>2, <3>3
  <2>3. CASE phase = "writing"
    <3>1. phase' = "damaging" BY <1>5, <2>3 DEF StopWriting
    <3> QED BY <1>2, <2>1, <2>3, <3>1
  <2> QED BY <1>5, <2>2, <2>3 DEF StopWriting
<1>6. CASE OpenBesideWriter
  <2>1. KnownDone' BY <1>6, DoneBeside
  <2>2. current = R!NoFile /\ results = <<>>
    BY <1>6 DEF OpenBesideWriter, SystemInv, Unborn
  <2>3. PICK listing, lengths : R!New(listing, lengths) BY <1>6 DEF OpenBesideWriter
  <2>4. disk' = listing BY <2>3 DEF R!New
  <2>5. listing \in Seq(Segment) BY <2>4 DEF SystemInv, SystemTypes
  <2> QED BY <2>1, <2>2, <2>3, <2>5, AllPending, FreshContains
<1>7. CASE OpenReader
  <2>1. R!New(disk, lens) /\ phase = "damaging" /\ phase' = "reading" /\ known' = Len(lens)
    BY <1>7 DEF OpenReader
  <2>2. lens' = lens /\ disk \in Seq(Segment) BY <2>1 DEF R!New, SystemInv, SystemTypes
  <2>3. current = R!NoFile /\ results = <<>> BY <2>1 DEF SystemInv, Unborn
  <2>4. KnownDone'
    <3>1. known' \in 0 .. Len(lens') BY <1>1, <2>1, <2>2
    <3> QED BY <2>1, <3>1 DEF KnownDone
  <2> QED BY <2>1, <2>2, <2>3, <2>4, AllPending, FreshContains
<1>8. ASSUME NEW i \in 1 .. Len(disk), Damage(i) \/ Corrupt(i)
      PROVE  KnownDone' /\ OpenedWhole' /\ (0 \notin BufLens => NoneLost')
  <2>1. phase = "damaging" /\ phase' = phase /\ UNCHANGED <<known, readervars>>
    BY <1>8 DEF Damage, Corrupt
  <2> QED BY <1>2, <2>1
<1>9. CASE ReadOn
  <2>1. R!Next /\ phase # "writing" /\ UNCHANGED <<phase, known, wvars>> BY <1>9 DEF ReadOn
  <2>2. lens = Written BY <2>1 DEF Sources
  <2>3. DirStays BY <1>9, ReaderStays
  <2>4. PlaceTypes' BY DEF SystemInv, ReaderInv
  <2>5. Found BY <1>1, <2>2, <2>3, <2>4 DEF Found
  <2>6. KnownDone' BY <2>1, <2>3, DoneStep DEF DirStays
  <2>7. OpenedWhole' BY <2>1, <2>5, OpenedStep
  <2>8. 0 \notin BufLens => Keeps BY <2>1, <2>5, ReaderKeeps
  <2>9. 0 \notin BufLens => NoneLost' BY <2>1, <2>3, <2>8, LostOn
  <2> QED BY <2>6, <2>7, <2>9
<1>10. CASE UNCHANGED sysvars
  <2>1. UNCHANGED <<phase, known, disk, lens, readervars, wvars>> BY <1>10 DEF sysvars, rdvars
  <2>2. Segments' = Segments /\ Written' = Written BY <1>10, SourceKept
  <2>3. KnownDone' BY <2>1, DoneStep
  <2>4. CASE phase \in {"writing", "damaging"} BY <1>2, <2>1, <2>4
  <2>5. CASE phase \in {"live", "reading"} BY <1>3, <2>1, <2>2, <2>3, <2>5
  <2> QED BY <2>4, <2>5 DEF SystemInv, SystemTypes
<1> QED BY <1>4, <1>5, <1>6, <1>7, <1>8, <1>9, <1>10 DEF SystemNext

LEMMA ContainKept ==
  ContainInv /\ SoundInv /\ SystemInv /\ [SystemNext]_sysvars /\ (SystemInv /\ SoundInv)'
    => ContainInv'
<1> SUFFICES ASSUME ContainInv, SoundInv, SystemInv, [SystemNext]_sysvars, SystemInv', Sources'
             PROVE  ContainInv'
  BY DEF SoundInv
<1>1. BufferGiven /\ PendingLast /\ Sources BY DEF ContainInv, SoundInv
<1>2. BufferGiven' /\ PendingLast' BY <1>1, PlacesKept
<1>3. ASSUME MaxCorrupted = 0, SequencesLeft'
      PROVE  KnownDone' /\ OpenedWhole' /\ (0 \notin BufLens => NoneLost')
  <2>1. SequencesLeft BY <1>1, <1>3, SequencesBefore
  <2>2. DiskInv /\ ReaderSound BY <1>3, <2>1 DEF SoundInv
  <2>3. KnownDone /\ OpenedWhole /\ (0 \notin BufLens => NoneLost)
    BY <1>3, <2>1 DEF ContainInv
  <2> QED BY <1>1, <1>3, <2>1, <2>2, <2>3, ContainStep
<1> QED BY <1>2, <1>3 DEF ContainInv

LEMMA ContainInit == SystemInit => ContainInv
<1> SUFFICES ASSUME SystemInit PROVE ContainInv OBVIOUS
<1>1. /\ rpc = "idle" /\ pending = <<>> /\ current = R!NoFile /\ known = 0
      /\ disk = <<>> /\ lens = <<>> /\ phase = "writing"
  BY DEF SystemInit, R!Init
<1>2. BufferGiven /\ PendingLast BY <1>1 DEF BufferGiven, PendingLast
<1>3. KnownDone BY <1>1 DEF KnownDone
<1>4. OpenedWhole BY <1>1 DEF OpenedWhole
<1>5. NoneLost BY <1>1 DEF NoneLost
<1> QED BY <1>2, <1>3, <1>4, <1>5 DEF ContainInv

LEMMA ContainsDamage ==
  ASSUME SystemInv, ContainInv, MaxCorrupted = 0, SequencesLeft, 0 \notin BufLens
  PROVE  DamageContained
<1> SUFFICES ASSUME R!AtEof, readFaults = 0, NEW r \in 1 .. known, Survives(r), lens[r] > 0
             PROVE  Recorded(r)
  BY DEF DamageContained, Recorded
<1>1. PendingLast /\ KnownDone /\ NoneLost BY DEF ContainInv
<1>2. pending = <<>> /\ current = R!NoFile /\ rpc = "idle"
  BY <1>1 DEF PendingLast, SystemInv, ReaderInv, Anchored
<1>3. Due(r) BY DEF Due
<1>4. PICK f \in 1 .. Len(disk) :
        disk[f].whole /\ \E n \in 1 .. Len(disk[f].data) : disk[f].data[n] = <<r, 1>>
  <2>1. 1 \in 1 .. TotalLen(lens[r])
    <3>1. lens[r] \in Nat /\ lens[r] > 0
      <4>1. r \in 1 .. Len(lens) /\ lens \in Seq(Nat)
        BY <1>1 DEF KnownDone, SystemInv, SystemTypes
      <4> QED BY <4>1
    <3>2. HeaderLen \in Nat BY FormatAssumption
    <3> QED BY <3>1, <3>2 DEF TotalLen
  <2> QED BY <2>1 DEF Survives
<1>5. PICK n \in 1 .. Len(disk[f].data) : disk[f].data[n] = <<r, 1>> BY <1>4
<1>6. InFile(f, n) /\ BeginsAt(r, f, n) BY <1>4, <1>5 DEF InFile, BeginsAt
<1>7. ComePast(f, n)
  <2>1. Reached = Len(disk) /\ Len(disk) \in Nat BY <1>2 DEF Reached, SystemInv, SystemTypes
  <2> QED BY <1>2, <2>1 DEF ComePast
<1>8. ~ Underway(r) BY <1>2 DEF Underway, R!Reading
<1> QED BY <1>1, <1>3, <1>6, <1>7, <1>8, NotLost

\* Damage is contained: at the end of a log whose damage only took things away, and of
\* whose reading nothing failed, each record that was written before the reader came, has
\* a payload and is in files that still open has been returned, as a record or as one too
\* long for the buffer; whatever is lost around it, and beside a writer too.  A caller
\* who gives no room at all for the bytes is told of a record, but not of which.
THEOREM DamageIsContained ==
  SystemSpec =>
    [](MaxCorrupted = 0 /\ SequencesLeft /\ 0 \notin BufLens => DamageContained)
<1>1. SystemInv /\ ContainInv =>
        (MaxCorrupted = 0 /\ SequencesLeft /\ 0 \notin BufLens => DamageContained)
  BY ContainsDamage
<1> QED BY <1>1, SystemTyped, SystemSound, ContainInit, ContainKept, PTL DEF SystemSpec
=============================================================================
