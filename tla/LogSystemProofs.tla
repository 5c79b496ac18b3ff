--------------------------- MODULE LogSystemProofs ---------------------------
(***************************************************************************)
(* Proofs about a reader, beside a writer or behind damage: the shape of   *)
(* its state, and that its failing reads are few.                          *)
(***************************************************************************)
EXTENDS LogSystemInvariant, LogStorageProofs, SequenceTheorems

-----------------------------------------------------------------------------
(* Options and sequences.                                                  *)

LEMMA NoneIsOption == ASSUME NEW S PROVE <<>> \in Option(S)
BY DEF Option

LEMMA SomeIsOption == ASSUME NEW S, NEW x \in S PROVE <<x>> \in Option(S)
BY DEF Option

LEMMA OptionIsSome ==
  ASSUME NEW S, NEW s \in Option(S), s # <<>>
  PROVE  s[1] \in S /\ s = <<s[1]>>
<1>1. s \in Seq(S) /\ Len(s) <= 1 BY DEF Option
<1>2. Len(s) \in Nat \ {0} BY <1>1, EmptySeq
<1>3. \A n \in Nat \ {0} : n <= 1 => n = 1 OBVIOUS
<1>4. Len(s) = 1 BY <1>1, <1>2, <1>3
<1>5. s[1] \in S BY <1>1, <1>4
<1>6. <<s[1]>> \in Seq(S) /\ Len(<<s[1]>>) = 1 /\ <<s[1]>>[1] = s[1] BY <1>5
<1>7. \A i \in 1 .. Len(s) : s[i] = <<s[1]>>[i] BY <1>4, <1>6
<1> QED BY <1>1, <1>4, <1>5, <1>6, <1>7, SeqEqual

LEMMA Joins ==
  ASSUME NEW S, NEW s \in Seq(S), NEW t \in Seq(S)
  PROVE  /\ s \o t \in Seq(S) /\ Len(s \o t) = Len(s) + Len(t)
         /\ \A i \in 1 .. Len(s) : (s \o t)[i] = s[i]
         /\ \A i \in 1 .. Len(t) : (s \o t)[Len(s) + i] = t[i]
OBVIOUS

LEMMA Adds ==
  ASSUME NEW S, NEW s \in Seq(S), NEW x \in S
  PROVE  /\ Append(s, x) \in Seq(S) /\ Len(Append(s, x)) = Len(s) + 1
         /\ \A i \in 1 .. Len(s) : Append(s, x)[i] = s[i]
         /\ Append(s, x)[Len(s) + 1] = x
OBVIOUS

LEMMA Cuts ==
  ASSUME NEW S, NEW s \in Seq(S), NEW a \in Nat, NEW n \in Nat, a + n <= Len(s)
  PROVE  /\ SubSeq(s, a + 1, a + n) \in Seq(S)
         /\ Len(SubSeq(s, a + 1, a + n)) = n
         /\ \A i \in 1 .. n : SubSeq(s, a + 1, a + n)[i] = s[a + i]
OBVIOUS

LEMMA LesserIs ==
  ASSUME NEW a \in Nat, NEW b \in Nat
  PROVE  Lesser(a, b) \in Nat /\ Lesser(a, b) <= a /\ Lesser(a, b) <= b
         /\ (Lesser(a, b) = a \/ Lesser(a, b) = b)
BY DEF Lesser

-----------------------------------------------------------------------------
(* The parts the reader's actions are made of.                             *)

LEMMA BehindIs ==
  ASSUME PlaceTypes, NEW k \in 0 .. Len(pending)
  PROVE  /\ R!Behind(k) \in Seq(1 .. Len(disk))
         /\ Len(R!Behind(k)) = Len(pending) - k
         /\ \A i \in 1 .. Len(pending) - k : R!Behind(k)[i] = pending[k + i]
BY DEF PlaceTypes, R!Behind

\* An instance has its own of every operator.
LEMMA SameCardinality == ASSUME NEW S PROVE R!Cardinality(S) = Cardinality(S)
BY DEF R!Cardinality, Cardinality

LEMMA PassedOver ==
  ASSUME readFaults \in Nat, NEW k \in Nat, NEW more \in Nat, R!PassOver(k, more)
  PROVE  readFaults' \in Nat /\ readFaults' >= readFaults + more
<1>1. IsFiniteSet(1 .. k) BY FS_Interval
<1>2. PICK failing \in SUBSET (1 .. k) :
        readFaults' = readFaults + R!Cardinality(failing) + more
  BY DEF R!PassOver
<1>3. R!Cardinality(failing) \in Nat
  BY <1>1, FS_Subset, FS_CardinalityType, SameCardinality
<1> QED BY <1>2, <1>3

LEMMA Opened ==
  ASSUME SystemTypes, PlaceTypes, RestTypes, NEW k \in 0 .. Len(pending) - 1,
         NEW handBack \in BOOLEAN, NEW more \in Nat, R!Opens(k, handBack, more)
  PROVE  /\ pending[k + 1] \in 1 .. Len(disk)
         /\ disk[pending[k + 1]] \in Segment
         /\ pending' \in Seq(1 .. Len(disk))
         /\ Len(pending') <= Len(pending)
         /\ ~ handBack => Len(pending') <= Len(pending) - 1
         /\ session' \in Option(Nat) /\ session' # <<>>
         /\ prevSeq' \in Option(Nat) /\ prevSeq' # <<>>
         /\ reopened' \in Option(Nat)
         /\ headers' \in Seq([file : 1 .. Len(disk), read : Nat])
         /\ readFaults' \in Nat /\ readFaults' >= readFaults + more
<1> DEFINE f == pending[k + 1]
<1>1. f \in 1 .. Len(disk) BY DEF PlaceTypes
<1>2. disk[f] \in Segment BY <1>1 DEF SystemTypes
<1>3. /\ pending' \in Seq(1 .. Len(disk))
      /\ Len(pending') <= Len(pending)
      /\ ~ handBack => Len(pending') <= Len(pending) - 1
  <2>1. Len(pending) \in Nat BY DEF PlaceTypes
  <2>2. k \in 0 .. Len(pending) /\ k + 1 \in 0 .. Len(pending) BY <2>1
  <2>3. pending' = IF handBack THEN R!Behind(k) ELSE R!Behind(k + 1) BY DEF R!Opens
  <2>4. CASE handBack
    <3>1. Len(R!Behind(k)) = Len(pending) - k /\ pending' = R!Behind(k)
      BY <2>2, <2>3, <2>4, BehindIs
    <3>2. R!Behind(k) \in Seq(1 .. Len(disk)) BY <2>2, BehindIs
    <3> QED BY <2>1, <2>4, <3>1, <3>2
  <2>5. CASE ~ handBack
    <3>1. Len(R!Behind(k + 1)) = Len(pending) - (k + 1) /\ pending' = R!Behind(k + 1)
      BY <2>2, <2>3, <2>5, BehindIs
    <3>2. R!Behind(k + 1) \in Seq(1 .. Len(disk)) BY <2>2, BehindIs
    <3> QED BY <2>1, <2>5, <3>1, <3>2
  <2> QED BY <2>4, <2>5
<1>4. session' = <<disk[f].session>> /\ prevSeq' = <<disk[f].seq>> BY DEF R!Opens
<1>5. disk[f].session \in Nat /\ disk[f].seq \in Nat BY <1>2 DEF Segment
<1>6. reopened' \in Option(Nat)
  <2>1. <<f>> \in Option(Nat) BY <1>1, SomeIsOption DEF SystemTypes
  <2> QED BY <2>1, NoneIsOption DEF R!Opens, PlaceTypes
<1>7. headers' \in Seq([file : 1 .. Len(disk), read : Nat])
  <2>1. Len(results) + 1 \in Nat BY DEF RestTypes
  <2>2. [file |-> f, read |-> Len(results) + 1] \in [file : 1 .. Len(disk), read : Nat]
    BY <1>1, <2>1
  <2> QED BY <2>2, Adds DEF R!Opens, PlaceTypes
<1>8. k \in Nat OBVIOUS
<1>9. readFaults' \in Nat /\ readFaults' >= readFaults + more
  BY <1>8, PassedOver DEF R!Opens, RestTypes
<1> QED BY <1>1, <1>2, <1>3, <1>4, <1>5, <1>6, <1>7, <1>9, SomeIsOption

LEMMA SessionEnded ==
  ASSUME SystemTypes, PlaceTypes, RestTypes, NEW k \in 0 .. Len(pending) - 1,
         R!EndsSession(k)
  PROVE  /\ pending' \in Seq(1 .. Len(disk)) /\ Len(pending') <= Len(pending)
         /\ session # <<>>
         /\ readFaults' \in Nat /\ readFaults' >= readFaults
<1>1. Len(pending) \in Nat BY DEF PlaceTypes
<1>2. k \in Nat /\ k \in 0 .. Len(pending) BY <1>1
<1> QED BY <1>1, <1>2, BehindIs, PassedOver DEF R!EndsSession, RestTypes

\* What a read returns is a result, and behind it nothing of the call remains.
LEMMA ResultIs ==
  ASSUME lastMeta \in Option(Nat), NEW lost \in Nat, NEW data \in Seq(Byte),
         NEW kind \in {"record", "overflow", "truncated", "eof", "end", "error"}
  PROVE  R!Result(kind, lost, data) \in Outcome
BY NoneIsOption DEF R!Result, Outcome

LEMMA BufferIs == ASSUME CallTypes PROVE R!InBuf \in Seq(Byte)
BY DEF CallTypes, R!InBuf

LEMMA CallEnded ==
  ASSUME R!EndCall
  PROVE  CallTypes' /\ CallShape' /\ rpc' = "idle" /\ implied' = <<>>
<1>1. \A S : <<>> \in Seq(S) OBVIOUS
<1>2. 0 \in Nat OBVIOUS
<1> QED BY <1>1, <1>2, NoneIsOption DEF R!EndCall, CallTypes, CallShape

LEMMA Returned ==
  ASSUME RestTypes, NEW r \in Outcome, R!Return(r)
  PROVE  /\ CallTypes' /\ CallShape' /\ rpc' = "idle" /\ implied' = <<>>
         /\ results' = Append(results, r) /\ results' \in Seq(Outcome)
BY CallEnded DEF R!Return, RestTypes

LEMMA FailedRead ==
  ASSUME CallTypes, RestTypes, NEW r \in Outcome, R!Fails(r)
  PROVE  /\ CallTypes' /\ CallShape' /\ rpc' = "idle" /\ implied' = <<>>
         /\ results' \in Seq(Outcome) /\ resync' = TRUE
         /\ \E told \in Outcome :
              /\ results' = Append(results, told)
              /\ told.kind \in {r.kind, "overflow"}
              /\ rpc # "skip" => told = r
<1>1. CASE rpc = "skip"
  <2>1. R!Result("overflow", 0, got) \in Outcome
    BY ResultIs DEF CallTypes, RestTypes
  <2>2. R!Return(R!Result("overflow", 0, got)) BY <1>1 DEF R!Fails
  <2> QED BY <1>1, <2>1, <2>2, Returned DEF R!Fails, R!Result
<1>2. CASE rpc # "skip"
  <2>1. R!Return(r) BY <1>2 DEF R!Fails
  <2> QED BY <1>2, <2>1, Returned DEF R!Fails
<1> QED BY <1>1, <1>2

LEMMA NotYetAtEof ==
  ASSUME ~ R!AtEof, results' = results
  PROVE  ~ R!AtEof'
BY DEF R!AtEof

\* A read that begins at the start of a record.
LEMMA Fresh ==
  ASSUME RestTypes, NEW n \in Nat, R!FreshStart(n)
  PROVE  /\ CallTypes' /\ CallShape' /\ lastMeta' \in Option(Nat)
         /\ rpc' \in {"header", "payload"} /\ implied' = <<>>
<1>1. CASE Format = "fixed"
  <2>1. FixedLen \in Nat BY FormatAssumption
  <2>2. need' = Lesser(FixedLen, n) BY <1>1 DEF R!FreshStart, R!Lesser, Lesser
  <2>3. need' \in Nat BY <2>1, <2>2, LesserIs
  <2>4. /\ rpc' = "payload" /\ payloadLen' = FixedLen /\ total' = <<FixedLen>>
        /\ bufLen' = n /\ got' = <<>> /\ consumed' = 0 /\ implied' = <<>>
        /\ lastMeta' = <<>>
    BY <1>1 DEF R!FreshStart
  <2>5. <<FixedLen>> \in Option(Nat) BY <2>1, SomeIsOption
  <2>6. CallTypes' BY <2>1, <2>3, <2>4, <2>5, NoneIsOption DEF CallTypes
  <2>7. \A l, m \in Nat : 0 + m + l - m = l /\ 0 + m = m OBVIOUS
  <2>8. Len(<<>>) = 0 OBVIOUS
  <2>9. CallShape' BY <2>1, <2>2, <2>3, <2>4, <2>7, <2>8 DEF CallShape
  <2> QED BY <2>4, <2>6, <2>9, NoneIsOption
<1>2. CASE Format # "fixed"
  <2>1. HeaderLen \in Nat BY FormatAssumption
  <2>2. /\ rpc' = "header" /\ payloadLen' = 0 /\ need' = HeaderLen /\ total' = <<>>
        /\ bufLen' = n /\ got' = <<>> /\ consumed' = 0 /\ implied' = <<>>
        /\ lastMeta' = lastMeta
    BY <1>2 DEF R!FreshStart
  <2>3. CallTypes' BY <2>1, <2>2, NoneIsOption DEF CallTypes
  <2>4. CallShape' BY <1>2, <2>1, <2>2 DEF CallShape
  <2> QED BY <2>2, <2>3, <2>4 DEF RestTypes
<1> QED BY <1>1, <1>2

-----------------------------------------------------------------------------
(* Each action of a reader keeps ReaderInv.                                *)

LEMMA ReadAtEndKeeps ==
  ASSUME SystemTypes, ReaderInv, ~ R!AtEof, R!ReadAtEnd
  PROVE  ReaderInv'
<1>1. R!Result("eof", 0, <<>>) \in Outcome
  <2>1. <<>> \in Seq(Byte) OBVIOUS
  <2> QED BY <2>1, ResultIs DEF ReaderInv, RestTypes
<1>2. /\ CallTypes' /\ CallShape' /\ rpc' = "idle" /\ results' \in Seq(Outcome)
  BY <1>1, Returned DEF R!ReadAtEnd, ReaderInv
<1>3. PlaceTypes' BY DEF R!ReadAtEnd, R!aside, ReaderInv, PlaceTypes
<1>4. RestTypes' BY <1>2 DEF R!ReadAtEnd, R!aside, ReaderInv, RestTypes
<1>5. Anchored' BY <1>2 DEF R!ReadAtEnd, Anchored, R!Reading, R!AtEof
<1> QED BY <1>2, <1>3, <1>4, <1>5 DEF ReaderInv

LEMMA ReadKeeps ==
  ASSUME SystemTypes, ReaderInv, ~ R!AtEof, NEW n \in BufLens, R!Read(n)
  PROVE  ReaderInv'
<1>1. n \in Nat BY SystemAssumption
<1>2. PlaceTypes' BY DEF R!Read, R!place, ReaderInv, PlaceTypes
<1>3. ~ R!AtEof' BY NotYetAtEof DEF R!Read
<1>4. CASE resync \/ current = R!NoFile
  <2>1. CallTypes' BY <1>1, <1>4 DEF R!Read, R!cursor, ReaderInv, CallTypes
  <2>2. CallShape' BY <1>4 DEF R!Read, R!cursor, ReaderInv, CallShape
  <2>3. RestTypes' BY <1>4 DEF R!Read, ReaderInv, RestTypes
  <2>4. Anchored' BY <1>3, <1>4 DEF R!Read, R!place, ReaderInv, Anchored, R!Reading
  <2> QED BY <1>2, <2>1, <2>2, <2>3, <2>4 DEF ReaderInv
<1>5. CASE ~ (resync \/ current = R!NoFile)
  <2>1. R!FreshStart(n) BY <1>5 DEF R!Read
  <2>2. CallTypes' /\ CallShape' /\ lastMeta' \in Option(Nat)
        /\ rpc' \in {"header", "payload"}
    BY <1>1, <2>1, Fresh DEF ReaderInv
  <2>3. RestTypes' BY <1>5, <2>2 DEF R!Read, ReaderInv, RestTypes
  <2>4. Anchored' BY <1>3, <1>5, <2>2 DEF R!Read, R!place, ReaderInv, Anchored, R!Reading
  <2> QED BY <1>2, <2>2, <2>3, <2>4 DEF ReaderInv
<1> QED BY <1>4, <1>5

LEMMA FindNoneKeeps ==
  ASSUME SystemTypes, ReaderInv, R!FindNone
  PROVE  ReaderInv'
<1>1. R!Result("eof", 0, <<>>) \in Outcome
  <2>1. <<>> \in Seq(Byte) OBVIOUS
  <2> QED BY <2>1, ResultIs DEF ReaderInv, RestTypes
<1>2. /\ CallTypes' /\ CallShape' /\ rpc' = "idle" /\ results' \in Seq(Outcome)
      /\ resync' = TRUE
  BY <1>1, FailedRead DEF R!FindNone, ReaderInv
<1>3. readFaults' \in Nat
  BY PassedOver DEF R!FindNone, R!NoneLeft, ReaderInv, PlaceTypes, RestTypes
<1>4. PlaceTypes' BY DEF R!FindNone, R!aside, ReaderInv, PlaceTypes
<1>5. RestTypes'
  BY <1>2, <1>3, NoneIsOption DEF R!FindNone, R!aside, ReaderInv, RestTypes
<1>6. Anchored' BY <1>2 DEF R!FindNone, Anchored, R!Reading, R!AtEof
<1> QED BY <1>2, <1>4, <1>5, <1>6 DEF ReaderInv

LEMMA FindSessionEndKeeps ==
  ASSUME SystemTypes, ReaderInv, NEW k \in 0 .. Len(pending) - 1, R!FindSessionEnd(k)
  PROVE  ReaderInv'
<1>1. R!Result("end", 0, <<>>) \in Outcome
  <2>1. <<>> \in Seq(Byte) OBVIOUS
  <2> QED BY <2>1, ResultIs DEF ReaderInv, RestTypes
<1>2. /\ CallTypes' /\ CallShape' /\ rpc' = "idle" /\ results' \in Seq(Outcome)
      /\ resync' = TRUE
  BY <1>1, FailedRead DEF R!FindSessionEnd, ReaderInv
<1>3. pending' \in Seq(1 .. Len(disk)) /\ readFaults' \in Nat
  BY SessionEnded DEF R!FindSessionEnd, ReaderInv
<1>4. PlaceTypes'
  BY <1>3, NoneIsOption DEF R!FindSessionEnd, R!ForgetSession, R!aside, ReaderInv,
                            PlaceTypes
<1>5. RestTypes'
  BY <1>2, <1>3, NoneIsOption
    DEF R!FindSessionEnd, R!ForgetSession, R!aside, ReaderInv, RestTypes
<1>6. Anchored' BY <1>2 DEF R!FindSessionEnd, Anchored, R!Reading, R!AtEof
<1> QED BY <1>2, <1>4, <1>5, <1>6 DEF ReaderInv

LEMMA LostAheadIs ==
  ASSUME SystemTypes, PlaceTypes, NEW k \in 0 .. Len(pending) - 1
  PROVE  R!LostAhead(k) \in Nat
<1>1. pending[k + 1] \in 1 .. Len(disk) BY DEF PlaceTypes
<1>2. disk[pending[k + 1]] \in Segment BY <1>1 DEF SystemTypes
<1> QED BY <1>2 DEF R!LostAhead, Segment, PlaceTypes

LEMMA FindDiscardsKeeps ==
  ASSUME SystemTypes, ReaderInv, NEW k \in 0 .. Len(pending) - 1, R!FindDiscards(k)
  PROVE  ReaderInv'
<1>1. R!Opens(k, FALSE, 0) BY DEF R!FindDiscards
<1>2. /\ pending' \in Seq(1 .. Len(disk))
      /\ session' \in Option(Nat) /\ prevSeq' \in Option(Nat)
      /\ reopened' \in Option(Nat)
      /\ headers' \in Seq([file : 1 .. Len(disk), read : Nat])
      /\ readFaults' \in Nat
  BY <1>1, Opened DEF ReaderInv
<1>3. startLost' \in Nat BY LostAheadIs DEF R!FindDiscards, ReaderInv
<1>4. PlaceTypes' BY <1>2, <1>3 DEF R!FindDiscards, R!aside, PlaceTypes
<1>5. CallTypes' /\ CallShape'
  BY DEF R!FindDiscards, R!call, R!cursor, ReaderInv, CallTypes, CallShape
<1>6. RestTypes'
  BY <1>2, NoneIsOption DEF R!FindDiscards, R!aside, ReaderInv, RestTypes
<1>7. ~ R!AtEof /\ results' = results BY DEF R!FindDiscards, ReaderInv, Anchored
<1>8. ~ R!AtEof' BY <1>7, NotYetAtEof
<1>9. Anchored' BY <1>8 DEF R!FindDiscards, ReaderInv, Anchored, R!Reading
<1> QED BY <1>4, <1>5, <1>6, <1>9 DEF ReaderInv

LEMMA OpenIs ==
  ASSUME SystemTypes, NEW f \in 1 .. Len(disk), NEW p \in Nat, p <= Len(disk[f].data)
  PROVE  /\ R!Open(f, p) \in [file : 1 .. Len(disk), pos : Nat, len : Nat]
         /\ R!Open(f, p).pos <= R!Open(f, p).len
         /\ R!Open(f, p).len <= Len(disk[R!Open(f, p).file].data)
         /\ R!Open(f, p) # R!NoFile
         /\ R!Open(f, p).file = f /\ R!Open(f, p).pos = p
         /\ R!Open(f, p).len = Len(disk[f].data)
<1>1. disk[f] \in Segment BY DEF SystemTypes
<1>2. Len(disk[f].data) \in Nat BY <1>1 DEF Segment
<1>3. f # 0 BY DEF SystemTypes
<1> QED BY <1>2, <1>3 DEF R!Open, R!NoFile

\* Where the search for a record start leaves the reader, and what of the call.
LEMMA StartFound ==
  ASSUME SystemTypes, ReaderInv, NEW k \in 0 .. Len(pending) - 1, R!FindsStart(k)
  PROVE  LET f == pending[k + 1]
             start == IF R!Recovers(f) THEN 0 ELSE disk[f].remaining IN
         /\ f \in 1 .. Len(disk) /\ disk[f] \in Segment
         /\ start \in Nat /\ start <= Len(disk[f].data)
         /\ ~ R!Recovers(f) => start < Len(disk[f].data)
         /\ current' = R!Open(f, start)
<1> DEFINE f == pending[k + 1]
<1>1. f \in 1 .. Len(disk) BY DEF ReaderInv, PlaceTypes
<1>2. disk[f] \in Segment BY <1>1 DEF SystemTypes
<1>3. disk[f].remaining \in Nat /\ Len(disk[f].data) \in Nat BY <1>2 DEF Segment
<1>4. ~ R!OnlyTail(f) BY DEF R!FindsStart
<1>5. ~ R!Recovers(f) => ~ (disk[f].remaining >= Len(disk[f].data))
  BY <1>4 DEF R!OnlyTail
<1>6. current' = R!Open(f, IF R!Recovers(f) THEN 0 ELSE disk[f].remaining)
  BY DEF R!FindsStart
<1> QED BY <1>1, <1>2, <1>3, <1>5, <1>6

LEMMA FindsStartKeeps ==
  ASSUME SystemTypes, ReaderInv, NEW k \in 0 .. Len(pending) - 1, R!FindsStart(k)
  PROVE  ReaderInv'
<1> DEFINE f == pending[k + 1]
           start == IF R!Recovers(f) THEN 0 ELSE disk[f].remaining
<1>1. /\ f \in 1 .. Len(disk) /\ disk[f] \in Segment /\ start \in Nat
      /\ start <= Len(disk[f].data) /\ current' = R!Open(f, start)
  BY StartFound
<1>2. R!Opens(k, FALSE, 0) BY DEF R!FindsStart
<1>3. /\ pending' \in Seq(1 .. Len(disk))
      /\ session' \in Option(Nat) /\ session' # <<>>
      /\ prevSeq' \in Option(Nat) /\ prevSeq' # <<>>
      /\ reopened' \in Option(Nat)
      /\ headers' \in Seq([file : 1 .. Len(disk), read : Nat])
      /\ readFaults' \in Nat
  BY <1>2, Opened DEF ReaderInv
<1>4. /\ current' \in [file : 1 .. Len(disk), pos : Nat, len : Nat]
      /\ current'.pos <= current'.len
      /\ current'.len <= Len(disk[current'.file].data)
      /\ current' # R!NoFile
  <2> HIDE DEF f, start
  <2>1. /\ R!Open(f, start) \in [file : 1 .. Len(disk), pos : Nat, len : Nat]
        /\ R!Open(f, start).pos <= R!Open(f, start).len
        /\ R!Open(f, start).len <= Len(disk[R!Open(f, start).file].data)
        /\ R!Open(f, start) # R!NoFile
    BY <1>1, OpenIs
  <2> QED BY <1>1, <2>1
<1>5. PlaceTypes' BY <1>3, <1>4 DEF R!FindsStart, PlaceTypes
<1>6. /\ CallTypes' /\ CallShape' /\ lastMeta' \in Option(Nat)
      /\ results' \in Seq(Outcome)
      /\ rpc' # "find"
      /\ rpc' # "idle" => results' = results
  <2>1. CASE R!LostAhead(k) > 0
    <3>1. R!LostAhead(k) \in Nat BY LostAheadIs DEF ReaderInv
    <3>2. R!Truncated(R!LostAhead(k)) \in Outcome
      BY <3>1, ResultIs, BufferIs DEF R!Truncated, ReaderInv, RestTypes
    <3> QED BY <2>1, <3>2, Returned DEF R!FindsStart, ReaderInv, RestTypes
  <2>2. CASE ~ (R!LostAhead(k) > 0) /\ R!Recovers(f)
    <3>1. /\ rpc' = "payload" /\ payloadLen' = disk[f].remaining
          /\ need' = Lesser(disk[f].remaining, bufLen) /\ got' = <<>>
          /\ consumed' = HeaderLen /\ total' = <<HeaderLen + disk[f].remaining>>
          /\ implied' = <<>> /\ lastMeta' = <<>>
          /\ bufLen' = bufLen /\ results' = results
      BY <2>2 DEF R!FindsStart, R!Lesser, Lesser
    <3>2. disk[f].remaining \in Nat /\ bufLen \in Nat /\ HeaderLen \in Nat
      BY <1>1, FormatAssumption DEF Segment, ReaderInv, CallTypes
    <3>3. need' \in Nat BY <3>1, <3>2, LesserIs
    <3>4. HeaderLen + disk[f].remaining \in Nat BY <3>2
    <3>5. <<HeaderLen + disk[f].remaining>> \in Option(Nat) BY <3>4, SomeIsOption
    <3>6. CallTypes' BY <3>1, <3>2, <3>3, <3>5, NoneIsOption DEF CallTypes
    <3>7. \A h, l, m \in Nat : h + m + l - m = h + l /\ 0 + m = m OBVIOUS
    <3>8. Len(<<>>) = 0 OBVIOUS
    <3>9. CallShape' BY <3>1, <3>2, <3>3, <3>7, <3>8 DEF CallShape
    <3> QED BY <3>1, <3>6, <3>9, NoneIsOption DEF ReaderInv, RestTypes
  <2>3. CASE ~ (R!LostAhead(k) > 0) /\ ~ R!Recovers(f)
    <3>1. R!FreshStart(bufLen) /\ results' = results BY <2>3 DEF R!FindsStart
    <3>2. bufLen \in Nat BY DEF ReaderInv, CallTypes
    <3> QED BY <3>1, <3>2, Fresh DEF ReaderInv, RestTypes
  <2> QED BY <2>1, <2>2, <2>3
<1>7. RestTypes' BY <1>3, <1>6, NoneIsOption DEF R!FindsStart, RestTypes
<1>8. R!AtEof' => rpc' = "idle"
  <2>1. ~ R!AtEof BY DEF R!FindsStart, ReaderInv, Anchored
  <2> QED BY <1>6, <2>1, NotYetAtEof
<1>9. Anchored' BY <1>3, <1>4, <1>6, <1>8 DEF R!FindsStart, Anchored
<1> QED BY <1>5, <1>6, <1>7, <1>9 DEF ReaderInv

LEMMA FindSeekFailsKeeps ==
  ASSUME SystemTypes, ReaderInv, NEW k \in 0 .. Len(pending) - 1, R!FindSeekFails(k)
  PROVE  ReaderInv'
<1>1. R!Opens(k, FALSE, 1) BY DEF R!FindSeekFails
<1>2. /\ pending' \in Seq(1 .. Len(disk))
      /\ session' \in Option(Nat) /\ prevSeq' \in Option(Nat)
      /\ reopened' \in Option(Nat)
      /\ headers' \in Seq([file : 1 .. Len(disk), read : Nat])
      /\ readFaults' \in Nat
  BY <1>1, Opened DEF ReaderInv
<1>3. startLost' \in Nat BY LostAheadIs DEF R!FindSeekFails, ReaderInv
<1>4. PlaceTypes' BY <1>2, <1>3 DEF R!FindSeekFails, R!aside, PlaceTypes
<1>5. R!Result("error", 0, <<>>) \in Outcome
  <2>1. <<>> \in Seq(Byte) OBVIOUS
  <2> QED BY <2>1, ResultIs DEF ReaderInv, RestTypes
<1>6. /\ CallTypes' /\ CallShape' /\ rpc' = "idle" /\ results' \in Seq(Outcome)
      /\ resync' = TRUE
  BY <1>5, FailedRead DEF R!FindSeekFails, ReaderInv
<1>7. RestTypes'
  BY <1>2, <1>6, NoneIsOption DEF R!FindSeekFails, R!aside, ReaderInv, RestTypes
<1>8. Anchored' BY <1>6 DEF R!FindSeekFails, Anchored, R!Reading, R!AtEof
<1> QED BY <1>4, <1>6, <1>7, <1>8 DEF ReaderInv

\* The file a reader has open, and where in it.
LEMMA CurrentIs ==
  ASSUME SystemTypes, ReaderInv, current # R!NoFile
  PROVE  /\ current \in [file : 1 .. Len(disk), pos : Nat, len : Nat]
         /\ current.file \in 1 .. Len(disk) /\ disk[current.file] \in Segment
         /\ current.pos \in Nat /\ current.len \in Nat
         /\ current.pos <= current.len
         /\ current.len <= Len(disk[current.file].data)
         /\ disk[current.file].data \in Seq(Byte)
<1>1. /\ current \in [file : 1 .. Len(disk), pos : Nat, len : Nat]
      /\ current.pos <= current.len
      /\ current.len <= Len(disk[current.file].data)
  BY DEF ReaderInv, PlaceTypes
<1>2. current.file \in 1 .. Len(disk) /\ current.pos \in Nat /\ current.len \in Nat
  BY <1>1
<1>3. disk[current.file] \in Segment BY <1>2 DEF SystemTypes
<1>4. disk[current.file].data \in Seq(Byte) BY <1>3 DEF Segment
<1> QED BY <1>1, <1>2, <1>3, <1>4

\* A piece is of the bytes wanted and of those in the file, and not empty.
LEMMA PieceIs ==
  ASSUME SystemTypes, ReaderInv, R!ReadPiece
  PROVE  /\ current # R!NoFile
         /\ R!Piece \in Nat \ {0} /\ R!Piece <= need
         /\ current.pos + R!Piece <= current.len
         /\ R!Ahead(R!Piece) \in Seq(Byte) /\ Len(R!Ahead(R!Piece)) = R!Piece
         /\ \A i \in 1 .. R!Piece :
              R!Ahead(R!Piece)[i] = disk[current.file].data[current.pos + i]
<1>1. current # R!NoFile BY DEF R!ReadPiece, ReaderInv, Anchored
<1>2. /\ current.pos \in Nat /\ current.len \in Nat
      /\ current.len <= Len(disk[current.file].data)
      /\ disk[current.file].data \in Seq(Byte)
  BY <1>1, CurrentIs
<1>3. ~ (current.pos >= current.len) BY <1>1 DEF R!ReadPiece, R!Exhausted
<1>4. need \in Nat /\ need > 0 BY DEF R!ReadPiece, ReaderInv, CallTypes
<1>5. R!Piece = Lesser(need, current.len - current.pos)
  BY DEF R!Piece, R!Lesser, Lesser
<1>6. current.len - current.pos \in Nat \ {0} BY <1>2, <1>3
<1>7. R!Piece \in Nat \ {0} /\ R!Piece <= need
      /\ R!Piece <= current.len - current.pos
  BY <1>4, <1>5, <1>6, LesserIs
<1>8. current.pos + R!Piece <= current.len BY <1>2, <1>7
<1>9. Len(disk[current.file].data) \in Nat BY <1>2
<1>10. current.pos + R!Piece <= Len(disk[current.file].data) BY <1>2, <1>7, <1>8, <1>9
<1>11. \A n \in Nat : current.pos + n <= Len(disk[current.file].data) =>
         /\ R!Ahead(n) \in Seq(Byte) /\ Len(R!Ahead(n)) = n
         /\ \A i \in 1 .. n : R!Ahead(n)[i] = disk[current.file].data[current.pos + i]
  <2> DEFINE d == disk[current.file].data
             a == current.pos
  <2>1. d \in Seq(Byte) /\ a \in Nat BY <1>2
  <2>2. \A n : R!Ahead(n) = SubSeq(d, a + 1, a + n) BY DEF R!Ahead
  <2> HIDE DEF d, a
  <2>3. \A n \in Nat : a + n <= Len(d) =>
          /\ SubSeq(d, a + 1, a + n) \in Seq(Byte)
          /\ Len(SubSeq(d, a + 1, a + n)) = n
          /\ \A i \in 1 .. n : SubSeq(d, a + 1, a + n)[i] = d[a + i]
    BY <2>1, Cuts
  <2>4. \A n \in Nat : a + n <= Len(d) =>
          /\ R!Ahead(n) \in Seq(Byte) /\ Len(R!Ahead(n)) = n
          /\ \A i \in 1 .. n : R!Ahead(n)[i] = d[a + i]
    BY <2>2, <2>3
  <2> QED BY <2>4 DEF d, a
<1> QED BY <1>1, <1>7, <1>8, <1>10, <1>11

LEMMA ReadPieceKeeps ==
  ASSUME SystemTypes, ReaderInv, R!ReadPiece
  PROVE  ReaderInv'
<1> SUFFICES ASSUME NEW p, p = R!Piece PROVE ReaderInv' OBVIOUS
<1>1. /\ p \in Nat \ {0} /\ p <= need /\ current.pos + p <= current.len
      /\ R!Ahead(p) \in Seq(Byte) /\ Len(R!Ahead(p)) = p
      /\ current # R!NoFile
  BY PieceIs
<1>2. /\ current \in [file : 1 .. Len(disk), pos : Nat, len : Nat]
      /\ current.len <= Len(disk[current.file].data)
  BY <1>1, CurrentIs
<1>3. current' = [current EXCEPT !.pos = @ + p] BY DEF R!ReadPiece
<1>4. /\ current' \in [file : 1 .. Len(disk), pos : Nat, len : Nat]
      /\ current'.file = current.file /\ current'.pos = current.pos + p
      /\ current'.len = current.len
  BY <1>1, <1>2, <1>3
<1>5. current' # R!NoFile BY <1>2, <1>4 DEF R!NoFile, SystemTypes
<1>6. PlaceTypes' BY <1>1, <1>2, <1>4 DEF R!ReadPiece, R!aside, ReaderInv, PlaceTypes
<1>7. /\ need' = need - p /\ consumed' = consumed + p
      /\ got' = IF rpc = "skip" THEN got ELSE got \o R!Ahead(p)
      /\ rpc' = rpc /\ bufLen' = bufLen /\ payloadLen' = payloadLen
      /\ total' = total /\ implied' = implied
  BY DEF R!ReadPiece
<1>8. need \in Nat /\ consumed \in Nat /\ got \in Seq(Byte)
      /\ payloadLen \in Nat /\ bufLen \in Nat
  BY DEF ReaderInv, CallTypes
<1>9. got' \in Seq(Byte) /\ (rpc # "skip" => Len(got') = Len(got) + p)
  BY <1>1, <1>7, <1>8, Joins
<1>10. need' \in Nat /\ consumed' \in Nat BY <1>1, <1>7, <1>8
<1>11. CallTypes' BY <1>7, <1>9, <1>10 DEF ReaderInv, CallTypes
<1>12. RestTypes' BY DEF R!ReadPiece, R!aside, ReaderInv, RestTypes
<1>13. CallShape'
  <2>1. rpc \notin {"idle", "find"} BY DEF R!ReadPiece, R!Reading
  <2>2. consumed' + need' = consumed + need BY <1>1, <1>7, <1>8
  <2>3. CASE rpc = "header"
    <3>1. Len(got) = consumed /\ consumed + need = HeaderLen
      BY <2>3 DEF ReaderInv, CallShape
    <3>2. Len(got') = consumed' BY <1>7, <1>9, <2>3, <3>1
    <3> QED BY <1>7, <2>2, <2>3, <3>1, <3>2 DEF ReaderInv, CallShape
  <2>4. CASE rpc = "payload"
    <3>1. /\ total = <<consumed + need + payloadLen - Lesser(payloadLen, bufLen)>>
          /\ Len(got) + need = Lesser(payloadLen, bufLen)
      BY <2>4 DEF ReaderInv, CallShape
    <3>2. Len(got') + need' = Len(got) + need
      <4>1. Len(got) \in Nat BY <1>8
      <4>2. \A l, m, q \in Nat : q <= m => (l + q) + (m - q) = l + m OBVIOUS
      <4>3. Len(got') = Len(got) + p /\ need' = need - p BY <1>7, <1>9, <2>4
      <4>4. p \in Nat /\ p <= need /\ need \in Nat BY <1>1, <1>8
      <4> QED BY <4>1, <4>2, <4>3, <4>4
    <3> QED BY <1>7, <2>2, <2>4, <3>1, <3>2 DEF CallShape
  <2>5. CASE rpc = "skip"
    BY <1>7, <2>2, <2>5 DEF ReaderInv, CallShape
  <2> QED BY <2>1, <2>3, <2>4, <2>5, <1>7 DEF ReaderInv, CallTypes
<1>14. ~ R!AtEof' BY NotYetAtEof DEF R!ReadPiece, R!Reading, ReaderInv, Anchored
<1>15. Anchored'
  BY <1>1, <1>5, <1>14 DEF R!ReadPiece, ReaderInv, Anchored, R!Reading
<1> QED BY <1>6, <1>11, <1>12, <1>13, <1>15 DEF ReaderInv

LEMMA PieceFailsKeeps ==
  ASSUME SystemTypes, ReaderInv, R!PieceFails
  PROVE  ReaderInv'
<1>1. R!Result("error", 0, <<>>) \in Outcome
  <2>1. <<>> \in Seq(Byte) OBVIOUS
  <2> QED BY <2>1, ResultIs DEF ReaderInv, RestTypes
<1>2. /\ CallTypes' /\ CallShape' /\ rpc' = "idle" /\ results' \in Seq(Outcome)
      /\ resync' = TRUE
  BY <1>1, FailedRead DEF R!PieceFails, ReaderInv
<1>3. PlaceTypes' BY DEF R!PieceFails, R!aside, ReaderInv, PlaceTypes
<1>4. readFaults' \in Nat BY DEF R!PieceFails, R!ReadFault, ReaderInv, RestTypes
<1>5. RestTypes' BY <1>2, <1>4 DEF R!PieceFails, R!aside, ReaderInv, RestTypes
<1>6. Anchored' BY <1>2 DEF R!PieceFails, Anchored, R!Reading, R!AtEof
<1> QED BY <1>2, <1>3, <1>5, <1>6 DEF ReaderInv

LEMMA CrossNoneKeeps ==
  ASSUME SystemTypes, ReaderInv, R!CrossNone
  PROVE  ReaderInv'
<1>1. R!Truncated(0) \in Outcome
  BY ResultIs, BufferIs DEF R!Truncated, ReaderInv, RestTypes
<1>2. /\ CallTypes' /\ CallShape' /\ rpc' = "idle" /\ results' \in Seq(Outcome)
      /\ resync' = TRUE
  BY <1>1, FailedRead DEF R!CrossNone, ReaderInv
<1>3. readFaults' \in Nat
  BY PassedOver DEF R!CrossNone, R!NoneLeft, ReaderInv, PlaceTypes, RestTypes
<1>4. PlaceTypes' BY DEF R!CrossNone, R!aside, ReaderInv, PlaceTypes
<1>5. RestTypes' BY <1>2, <1>3 DEF R!CrossNone, R!aside, ReaderInv, RestTypes
<1>6. Anchored' BY <1>2 DEF R!CrossNone, Anchored, R!Reading, R!AtEof
<1> QED BY <1>2, <1>4, <1>5, <1>6 DEF ReaderInv

LEMMA CrossSessionEndKeeps ==
  ASSUME SystemTypes, ReaderInv, NEW k \in 0 .. Len(pending) - 1, R!CrossSessionEnd(k)
  PROVE  ReaderInv'
<1>1. R!Truncated(0) \in Outcome /\ R!Result("end", 0, <<>>) \in Outcome
  <2>1. <<>> \in Seq(Byte) OBVIOUS
  <2> QED BY <2>1, ResultIs, BufferIs DEF R!Truncated, ReaderInv, RestTypes
<1>2. /\ CallTypes' /\ CallShape' /\ rpc' = "idle" /\ results' \in Seq(Outcome)
      /\ resync' = TRUE
  BY <1>1, FailedRead DEF R!CrossSessionEnd, ReaderInv
<1>3. pending' \in Seq(1 .. Len(disk)) /\ readFaults' \in Nat
  BY SessionEnded DEF R!CrossSessionEnd, ReaderInv
<1>4. /\ session' \in {<<>>, session} /\ prevSeq' \in {<<>>, prevSeq}
      /\ recovery' = <<>>
  BY DEF R!CrossSessionEnd, R!ForgetSession
<1>5. PlaceTypes'
  BY <1>3, <1>4, NoneIsOption DEF R!CrossSessionEnd, R!aside, ReaderInv, PlaceTypes
<1>6. RestTypes'
  BY <1>2, <1>3, <1>4, NoneIsOption DEF R!CrossSessionEnd, R!aside, ReaderInv, RestTypes
<1>7. Anchored' BY <1>2 DEF R!CrossSessionEnd, Anchored, R!Reading, R!AtEof
<1> QED BY <1>2, <1>5, <1>6, <1>7 DEF ReaderInv

LEMMA CrossFollowsKeeps ==
  ASSUME SystemTypes, ReaderInv, NEW k \in 0 .. Len(pending) - 1, R!CrossFollows(k)
  PROVE  ReaderInv'
<1> SUFFICES ASSUME NEW f, f = pending[k + 1] PROVE ReaderInv' OBVIOUS
<1>1. R!Opens(k, FALSE, 0) /\ R!Follows(f) BY DEF R!CrossFollows
<1>2. /\ f \in 1 .. Len(disk) /\ disk[f] \in Segment
      /\ pending' \in Seq(1 .. Len(disk))
      /\ session' \in Option(Nat) /\ session' # <<>>
      /\ prevSeq' \in Option(Nat) /\ prevSeq' # <<>>
      /\ reopened' \in Option(Nat)
      /\ headers' \in Seq([file : 1 .. Len(disk), read : Nat])
      /\ readFaults' \in Nat
  BY <1>1, Opened DEF ReaderInv
<1>3. current' = R!Open(f, 0) BY DEF R!CrossFollows
<1>4. 0 \in Nat /\ 0 <= Len(disk[f].data) BY <1>2 DEF Segment
<1>5. /\ current' \in [file : 1 .. Len(disk), pos : Nat, len : Nat]
      /\ current'.pos <= current'.len
      /\ current'.len <= Len(disk[current'.file].data)
      /\ current' # R!NoFile
  BY <1>2, <1>3, <1>4, OpenIs
<1>6. PlaceTypes' BY <1>2, <1>5 DEF R!CrossFollows, R!aside, ReaderInv, PlaceTypes
<1>7. implied' \in Option(Nat)
  <2>1. CASE consumed > 0 /\ total = <<>>
    <3>1. rpc = "header"
      BY <2>1 DEF R!CrossFollows, R!Crossing, R!Reading, ReaderInv, CallShape
    <3>2. consumed + need = HeaderLen /\ consumed \in Nat /\ need \in Nat
      BY <3>1 DEF ReaderInv, CallShape, CallTypes
    <3>3. disk[f].remaining \in Nat BY <1>2 DEF Segment
    <3>4. consumed # 0 BY <2>1, <3>2
    <3>5. disk[f].remaining >= HeaderLen - consumed
      BY <1>1, <2>1, <3>4 DEF R!Follows, R!Matches, R!HeaderRest
    <3>6. HeaderLen \in Nat /\ HeaderLen - consumed \in Nat
      BY <3>2, FormatAssumption
    <3>7. disk[f].remaining - (HeaderLen - consumed) \in Nat BY <3>3, <3>5, <3>6
    <3>8. implied' = <<disk[f].remaining - (HeaderLen - consumed)>>
      BY <2>1 DEF R!CrossFollows, R!HeaderRest
    <3> QED BY <3>7, <3>8, SomeIsOption
  <2>2. CASE ~ (consumed > 0 /\ total = <<>>)
    BY <2>2 DEF R!CrossFollows, ReaderInv, CallTypes
  <2> QED BY <2>1, <2>2
<1>8. CallTypes' BY <1>7 DEF R!CrossFollows, R!call, ReaderInv, CallTypes
<1>9. CallShape'
  BY DEF R!CrossFollows, R!Crossing, R!Reading, R!call, ReaderInv, CallShape
<1>10. RestTypes' BY <1>2 DEF R!CrossFollows, R!aside, ReaderInv, RestTypes
<1>11. ~ R!AtEof'
  BY NotYetAtEof DEF R!CrossFollows, R!Crossing, R!Reading, ReaderInv, Anchored
<1>12. Anchored'
  BY <1>2, <1>5, <1>11 DEF R!CrossFollows, R!Crossing, ReaderInv, Anchored, R!Reading
<1> QED BY <1>6, <1>8, <1>9, <1>10, <1>12 DEF ReaderInv

LEMMA LostBetweenIs ==
  ASSUME NEW f, disk[f] \in Segment, PlaceTypes, prevSeq # <<>>
  PROVE  R!LostBetween(f) \in Nat
<1>1. disk[f].seq \in Nat /\ prevSeq[1] \in Nat
  BY OptionIsSome DEF PlaceTypes, Segment
<1>2. SeqMax \in Nat \ {0} BY FormatAssumption
<1>3. \A a, b \in Nat, m \in Nat : (a + m - b) % (m + 1) \in Nat OBVIOUS
<1>4. (disk[f].seq + SeqMax - prevSeq[1]) % (SeqMax + 1) \in Nat BY <1>1, <1>2, <1>3
<1> QED BY <1>4 DEF R!LostBetween

\* What is owed of a record whose length is known.
LEMMA OwedIs ==
  ASSUME CallTypes, CallShape, total # <<>>, R!Reading
  PROVE  total[1] - consumed \in Nat
<1>1. consumed \in Nat /\ need \in Nat /\ payloadLen \in Nat /\ bufLen \in Nat
  BY DEF CallTypes
<1>2. CASE rpc = "payload"
  <2>1. total[1] = consumed + need + payloadLen - Lesser(payloadLen, bufLen)
    BY <1>2 DEF CallShape
  <2> DEFINE l == Lesser(payloadLen, bufLen)
  <2>2. l \in Nat /\ l <= payloadLen BY <1>1, LesserIs
  <2>3. \A c, n, p, m \in Nat : m <= p => (c + n + p - m) - c \in Nat OBVIOUS
  <2> HIDE DEF l
  <2>4. (consumed + need + payloadLen - l) - consumed \in Nat BY <1>1, <2>2, <2>3
  <2> QED BY <2>1, <2>4 DEF l
<1>3. CASE rpc = "skip"
  <2>1. total[1] = consumed + need BY <1>3 DEF CallShape
  <2> QED BY <1>1, <2>1
<1> QED BY <1>2, <1>3 DEF R!Reading, CallShape

LEMMA CrossRejectsKeeps ==
  ASSUME SystemTypes, ReaderInv, NEW k \in 0 .. Len(pending) - 1, R!CrossRejects(k)
  PROVE  ReaderInv'
<1> SUFFICES ASSUME NEW f, f = pending[k + 1] PROVE ReaderInv' OBVIOUS
<1>1. R!Opens(k, TRUE, 0) BY DEF R!CrossRejects
<1>2. /\ f \in 1 .. Len(disk) /\ disk[f] \in Segment
      /\ pending' \in Seq(1 .. Len(disk))
      /\ session' \in Option(Nat) /\ prevSeq' \in Option(Nat)
      /\ reopened' \in Option(Nat)
      /\ headers' \in Seq([file : 1 .. Len(disk), read : Nat])
      /\ readFaults' \in Nat
  BY <1>1, Opened DEF ReaderInv
<1>3. R!Reading BY DEF R!CrossRejects, R!Crossing
<1>4. prevSeq # <<>> BY <1>3 DEF ReaderInv, Anchored
<1>5. R!LostBetween(f) \in Nat BY <1>2, <1>4, LostBetweenIs DEF ReaderInv
<1>6. R!Truncated(R!LostBetween(f)) \in Outcome
  BY <1>5, ResultIs, BufferIs DEF R!Truncated, ReaderInv, RestTypes
<1>7. R!Fails(R!Truncated(R!LostBetween(f))) BY DEF R!CrossRejects
<1>8. /\ CallTypes' /\ CallShape' /\ rpc' = "idle" /\ results' \in Seq(Outcome)
      /\ resync' = TRUE
  BY <1>6, <1>7, FailedRead DEF ReaderInv
<1>9. PlaceTypes' BY <1>2 DEF R!CrossRejects, R!aside, ReaderInv, PlaceTypes
<1>10. recovery' \in Option([file : Nat, owed : Nat])
  <2>1. CASE recovery' = recovery BY <2>1 DEF ReaderInv, RestTypes
  <2>2. CASE recovery' # recovery
    <3>1. total # <<>> /\ recovery' = <<[file |-> f, owed |-> total[1] - consumed]>>
      BY <2>2 DEF R!CrossRejects
    <3>2. total[1] - consumed \in Nat BY <1>3, <3>1, OwedIs DEF ReaderInv
    <3>3. f \in Nat BY <1>2 DEF SystemTypes
    <3>4. [file |-> f, owed |-> total[1] - consumed] \in [file : Nat, owed : Nat]
      BY <3>2, <3>3
    <3> QED BY <3>1, <3>4, SomeIsOption
  <2> QED BY <2>1, <2>2
<1>11. RestTypes' BY <1>2, <1>8, <1>10 DEF R!CrossRejects, R!aside, ReaderInv, RestTypes
<1>12. Anchored' BY <1>8 DEF R!CrossRejects, Anchored, R!Reading, R!AtEof
<1> QED BY <1>8, <1>9, <1>11, <1>12 DEF ReaderInv

\* A complete data header has a first byte, and decodes to a length.
LEMMA HeaderIs ==
  ASSUME SystemTypes, ReaderInv, rpc = "header", need = 0
  PROVE  /\ Len(got) = HeaderLen /\ HeaderLen \in Nat \ {0} /\ got[1] \in Byte
         /\ R!Decoded \subseteq Nat /\ R!MetaOf(got) \in Option(Nat)
<1>1. Len(got) = consumed /\ consumed + need = HeaderLen /\ Format # "fixed"
  BY DEF ReaderInv, CallShape
<1>2. consumed \in Nat /\ got \in Seq(Byte) BY DEF ReaderInv, CallTypes
<1>3. HeaderLen \in Nat \ {0} BY <1>1, FormatAssumption
<1>4. Len(got) = HeaderLen BY <1>1, <1>2, <1>3
<1>5. got[1] \in Byte BY <1>2, <1>3, <1>4
<1>6. R!Decoded \subseteq Nat
  <2>1. CASE \E r \in 1 .. Len(lens) : got = R!BytesOf(r, 0, HeaderLen)
    <3>1. PICK r \in 1 .. Len(lens) : got = R!BytesOf(r, 0, HeaderLen) BY <2>1
    <3>2. got[1] = <<r, 0 + 1>> BY <1>3, <3>1 DEF R!BytesOf
    <3>3. lens[r] \in Nat BY DEF SystemTypes
    <3> QED BY <2>1, <3>2, <3>3 DEF R!Decoded
  <2>2. CASE ~ \E r \in 1 .. Len(lens) : got = R!BytesOf(r, 0, HeaderLen)
    BY <2>2, SystemAssumption DEF R!Decoded
  <2> QED BY <2>1, <2>2
<1>7. R!MetaOf(got) \in Option(Nat)
  <2>1. got[1][1] \in Nat /\ 0 \in Nat BY <1>5 DEF Byte
  <2> QED BY <2>1, NoneIsOption, SomeIsOption DEF R!MetaOf
<1> QED BY <1>3, <1>4, <1>5, <1>6, <1>7

\* The file in which the length of a record is not what a crossing implied.
LEMMA HandedBack ==
  ASSUME SystemTypes, ReaderInv, current # R!NoFile
  PROVE  /\ <<current.file>> \o pending \in Seq(1 .. Len(disk))
         /\ Len(<<current.file>> \o pending) = 1 + Len(pending)
         /\ <<current.file>> \in Option(Nat)
<1>1. current.file \in 1 .. Len(disk) /\ current.file \in Nat
  BY CurrentIs DEF SystemTypes
<1>2. <<current.file>> \in Seq(1 .. Len(disk)) /\ Len(<<current.file>>) = 1 BY <1>1
<1>3. pending \in Seq(1 .. Len(disk)) BY DEF ReaderInv, PlaceTypes
<1>4. <<current.file>> \in Option(Nat) BY <1>1, SomeIsOption
<1> HIDE DEF R!NoFile
<1> QED BY <1>2, <1>3, <1>4, Joins

LEMMA HeaderDoneKeeps ==
  ASSUME SystemTypes, ReaderInv, R!HeaderDone
  PROVE  ReaderInv'
<1>1. rpc = "header" /\ need = 0 BY DEF R!HeaderDone
<1>2. current # R!NoFile /\ ~ R!AtEof BY <1>1 DEF R!Reading, ReaderInv, Anchored
<1>3. /\ Len(got) = HeaderLen /\ R!Decoded \subseteq Nat
      /\ R!MetaOf(got) \in Option(Nat)
  BY <1>1, HeaderIs
<1>4. UNCHANGED <<disk, lens, recovery, readFaults>> BY DEF R!HeaderDone
<1>5. PICK n \in R!Decoded :
       IF implied \in {<<>>, <<n>>}
       THEN /\ rpc' = "payload" /\ payloadLen' = n
            /\ need' = R!Lesser(n, bufLen) /\ got' = <<>>
            /\ total' = <<HeaderLen + n>>
            /\ lastMeta' = R!MetaOf(got)
            /\ UNCHANGED <<bufLen, consumed, implied, R!place, resync, results>>
       ELSE /\ pending' = <<current.file>> \o pending
            /\ reopened' = <<current.file>> /\ current' = R!NoFile
            /\ R!Fails(R!Truncated(0))
            /\ UNCHANGED <<session, prevSeq, startLost, headers, lastMeta>>
  BY DEF R!HeaderDone
<1>6. n \in Nat BY <1>3
<1>7. CASE implied \in {<<>>, <<n>>}
  <2>1. /\ rpc' = "payload" /\ payloadLen' = n
        /\ need' = Lesser(n, bufLen) /\ got' = <<>>
        /\ total' = <<HeaderLen + n>>
        /\ lastMeta' = R!MetaOf(got)
        /\ UNCHANGED <<bufLen, consumed, implied, R!place, resync, results>>
    BY <1>5, <1>7 DEF R!Lesser, Lesser
  <2>2. PlaceTypes' BY <1>4, <2>1 DEF R!place, ReaderInv, PlaceTypes
  <2>3. bufLen \in Nat /\ consumed \in Nat /\ implied \in Option(Nat) /\ HeaderLen \in Nat
    BY FormatAssumption DEF ReaderInv, CallTypes
  <2>4. need' \in Nat /\ HeaderLen + n \in Nat BY <1>6, <2>1, <2>3, LesserIs
  <2>5. total' \in Option(Nat) BY <2>1, <2>4, SomeIsOption
  <2>6. CallTypes' BY <1>6, <2>1, <2>3, <2>4, <2>5 DEF CallTypes
  <2>7. consumed = HeaderLen
    BY <1>1, <2>3 DEF ReaderInv, CallShape
  <2>8. \A h, l, m \in Nat : h + m + l - m = h + l /\ 0 + m = m OBVIOUS
  <2>9. Len(<<>>) = 0 OBVIOUS
  <2>10. CallShape' BY <1>6, <2>1, <2>3, <2>4, <2>7, <2>8, <2>9 DEF CallShape
  <2>11. RestTypes' BY <1>3, <1>4, <2>1 DEF ReaderInv, RestTypes
  <2>12. ~ R!AtEof' BY <1>2, <2>1, NotYetAtEof
  <2>13. Anchored'
    BY <1>1, <1>2, <2>1, <2>12 DEF R!place, ReaderInv, Anchored, R!Reading
  <2> QED BY <2>2, <2>6, <2>10, <2>11, <2>13 DEF ReaderInv
<1>8. CASE ~ (implied \in {<<>>, <<n>>})
  <2>1. /\ pending' = <<current.file>> \o pending
        /\ reopened' = <<current.file>> /\ current' = R!NoFile
        /\ R!Fails(R!Truncated(0))
        /\ UNCHANGED <<session, prevSeq, startLost, headers, lastMeta>>
    BY <1>5, <1>8
  <2>2. R!Truncated(0) \in Outcome
    BY ResultIs, BufferIs DEF R!Truncated, ReaderInv, RestTypes
  <2>3. /\ CallTypes' /\ CallShape' /\ rpc' = "idle" /\ results' \in Seq(Outcome)
        /\ resync' = TRUE
    BY <2>1, <2>2, FailedRead DEF ReaderInv
  <2>4. pending' \in Seq(1 .. Len(disk)) /\ reopened' \in Option(Nat)
    BY <1>2, <2>1, HandedBack
  <2>5. PlaceTypes' BY <1>4, <2>1, <2>4 DEF ReaderInv, PlaceTypes
  <2>6. RestTypes' BY <1>4, <2>1, <2>3 DEF ReaderInv, RestTypes
  <2>7. Anchored' BY <2>1, <2>3 DEF Anchored, R!Reading, R!AtEof
  <2> QED BY <2>3, <2>5, <2>6, <2>7 DEF ReaderInv
<1> QED BY <1>7, <1>8

LEMMA PayloadDoneKeeps ==
  ASSUME SystemTypes, ReaderInv, R!PayloadDone
  PROVE  ReaderInv'
<1>1. rpc = "payload" /\ need = 0 BY DEF R!PayloadDone
<1>2. current # R!NoFile /\ ~ R!AtEof BY <1>1 DEF R!Reading, ReaderInv, Anchored
<1>3. PlaceTypes' BY DEF R!PayloadDone, R!aside, R!place, ReaderInv, PlaceTypes
<1>4. CASE payloadLen > bufLen
  <2>1. /\ rpc' = "skip" /\ need' = payloadLen - bufLen
        /\ UNCHANGED <<bufLen, got, payloadLen, consumed, total, implied, results>>
    BY <1>4 DEF R!PayloadDone, R!cursor
  <2>2. payloadLen \in Nat /\ bufLen \in Nat /\ consumed \in Nat /\ Len(got) \in Nat
    BY DEF ReaderInv, CallTypes
  <2>3. need' \in Nat BY <1>4, <2>1, <2>2
  <2>4. CallTypes' BY <2>1, <2>3 DEF ReaderInv, CallTypes
  <2>5. Lesser(payloadLen, bufLen) = bufLen BY <1>4, <2>2 DEF Lesser
  <2>6. Len(got) = bufLen BY <1>1, <2>2, <2>5 DEF ReaderInv, CallShape
  <2>7. total = <<consumed + 0 + payloadLen - bufLen>>
    BY <1>1, <2>5 DEF ReaderInv, CallShape
  <2>8. \A c, l, m \in Nat : c + 0 + l - m = c + (l - m) OBVIOUS
  <2>9. total' = <<consumed' + need'>> BY <2>1, <2>2, <2>7, <2>8
  <2>10. CallShape' BY <1>4, <2>1, <2>6, <2>9 DEF CallShape
  <2>11. RestTypes' BY <2>1 DEF R!PayloadDone, R!aside, ReaderInv, RestTypes
  <2>12. ~ R!AtEof' BY <1>2, <2>1, NotYetAtEof
  <2>13. Anchored'
    BY <1>1, <1>2, <2>1, <2>12 DEF R!PayloadDone, R!place, ReaderInv, Anchored, R!Reading
  <2> QED BY <1>3, <2>4, <2>10, <2>11, <2>13 DEF ReaderInv
<1>5. CASE ~ (payloadLen > bufLen)
  <2>1. R!Result("record", 0, got) \in Outcome
    BY ResultIs DEF ReaderInv, CallTypes, RestTypes
  <2>2. R!Return(R!Result("record", 0, got)) BY <1>5 DEF R!PayloadDone
  <2>3. /\ CallTypes' /\ CallShape' /\ rpc' = "idle" /\ results' \in Seq(Outcome)
    BY <2>1, <2>2, Returned DEF ReaderInv
  <2>4. RestTypes' BY <2>3 DEF R!PayloadDone, R!aside, ReaderInv, RestTypes
  <2>5. Anchored'
    BY <1>1, <1>2, <2>3 DEF R!PayloadDone, R!place, ReaderInv, Anchored, R!Reading, R!AtEof
  <2> QED BY <1>3, <2>3, <2>4, <2>5 DEF ReaderInv
<1> QED BY <1>4, <1>5

LEMMA SkipDoneKeeps ==
  ASSUME SystemTypes, ReaderInv, R!SkipDone
  PROVE  ReaderInv'
<1>1. rpc = "skip" BY DEF R!SkipDone
<1>2. current # R!NoFile BY <1>1 DEF R!Reading, ReaderInv, Anchored
<1>3. PlaceTypes' BY DEF R!SkipDone, R!aside, R!place, ReaderInv, PlaceTypes
<1>4. R!Result("overflow", 0, got) \in Outcome
  BY ResultIs DEF ReaderInv, CallTypes, RestTypes
<1>5. /\ CallTypes' /\ CallShape' /\ rpc' = "idle" /\ results' \in Seq(Outcome)
  BY <1>4, Returned DEF R!SkipDone, ReaderInv
<1>6. RestTypes' BY <1>5 DEF R!SkipDone, R!aside, ReaderInv, RestTypes
<1>7. Anchored'
  BY <1>1, <1>2, <1>5 DEF R!SkipDone, R!place, ReaderInv, Anchored, R!Reading, R!AtEof
<1> QED BY <1>3, <1>5, <1>6, <1>7 DEF ReaderInv

LEMMA ReaderStep ==
  ASSUME SystemTypes, ReaderInv, R!Next
  PROVE  ReaderInv' /\ UNCHANGED <<disk, lens>>
<1>1. UNCHANGED <<disk, lens>>
  BY DEF R!Next, R!Call, R!Step, R!aside, R!ReadAtEnd, R!Read, R!FindNone, R!CrossNone,
         R!FindSessionEnd, R!FindDiscards, R!FindsStart, R!FindSeekFails,
         R!CrossSessionEnd, R!CrossFollows, R!CrossRejects, R!ReadPiece, R!PieceFails,
         R!HeaderDone, R!PayloadDone, R!SkipDone
<1>2. CASE R!Call
  <2>1. CASE ~ R!AtEof /\ R!ReadAtEnd BY <1>1, <2>1, ReadAtEndKeeps
  <2>2. CASE ~ R!AtEof /\ \E n \in BufLens : R!Read(n) BY <1>1, <2>2, ReadKeeps
  <2> QED BY <1>2, <2>1, <2>2 DEF R!Call
<1>3. CASE R!Step
  <2>1. CASE \E k \in 0 .. Len(pending) - 1 :
               \/ R!FindSessionEnd(k) \/ R!FindDiscards(k) \/ R!FindsStart(k)
               \/ R!FindSeekFails(k)
    BY <1>1, <2>1, FindSessionEndKeeps, FindDiscardsKeeps, FindsStartKeeps,
       FindSeekFailsKeeps
  <2>2. CASE \E k \in 0 .. Len(pending) - 1 :
               R!CrossSessionEnd(k) \/ R!CrossFollows(k) \/ R!CrossRejects(k)
    BY <1>1, <2>2, CrossSessionEndKeeps, CrossFollowsKeeps, CrossRejectsKeeps
  <2>3. CASE R!FindNone \/ R!CrossNone BY <1>1, <2>3, FindNoneKeeps, CrossNoneKeeps
  <2>4. CASE R!ReadPiece \/ R!PieceFails
    BY <1>1, <2>4, ReadPieceKeeps, PieceFailsKeeps
  <2>5. CASE R!HeaderDone \/ R!PayloadDone \/ R!SkipDone
    BY <1>1, <2>5, HeaderDoneKeeps, PayloadDoneKeeps, SkipDoneKeeps
  <2> QED BY <1>3, <2>1, <2>2, <2>3, <2>4, <2>5 DEF R!Step
<1> QED BY <1>1, <1>2, <1>3 DEF R!Next

-----------------------------------------------------------------------------
(* The directory a reader is given, and what a writer beside it does to it. *)

\* The files of a log only grow, and their headers stay.
FilesGrow ==
  /\ files' \in Seq(File) /\ Len(files') >= Len(files)
  /\ \A i \in 1 .. Len(files) :
       /\ SameHeader(files[i], files'[i])
       /\ Len(files'[i].data) >= Len(files[i].data)
       /\ \A a \in 1 .. Len(files[i].data) : files'[i].data[a] = files[i].data[a]

LEMMA NextGrows ==
  ASSUME Inv, Next
  PROVE  FilesGrow
<1>1. files \in Seq(File) /\ FilesMoved BY NextMoves DEF Inv, TypeOK
<1>2. Len(files) \in Nat /\ \A i \in 1 .. Len(files) : Len(files[i].data) \in Nat
  BY FileData DEF Inv
<1>3. CASE FilesKept BY <1>2, <1>3 DEF FilesKept, Touched, FilesGrow
<1>4. CASE FileMadeBehind
  BY <1>2, <1>4 DEF FileMadeBehind, FilesGrow, SameHeader
<1>5. CASE CurrentGrows
  <2>1. PICK n \in Nat : cur # 0 /\ PieceAdded(n) BY <1>5 DEF CurrentGrows
  <2>2. /\ cur \in 1 .. Len(files) /\ Len(files') = Len(files)
        /\ Len(files'[cur].data) = Len(files[cur].data) + n
        /\ \A a \in 1 .. Len(files[cur].data) :
             files'[cur].data[a] = files[cur].data[a]
        /\ \A i \in 1 .. Len(files) : i # cur => files'[i] = files[i]
    BY <2>1, PieceData
  <2>3. files' \in Seq(File) /\ SameHeader(files[cur], files'[cur])
    BY <2>1 DEF PieceAdded, Grown
  <2>4. ASSUME NEW i \in 1 .. Len(files)
        PROVE  /\ SameHeader(files[i], files'[i])
               /\ Len(files'[i].data) >= Len(files[i].data)
               /\ \A a \in 1 .. Len(files[i].data) : files'[i].data[a] = files[i].data[a]
    <3>1. CASE i = cur BY <1>2, <2>2, <2>3, <3>1
    <3>2. CASE i # cur
      <4>1. files'[i] = files[i] BY <2>2, <3>2
      <4> QED BY <1>2, <4>1 DEF SameHeader
    <3> QED BY <3>1, <3>2
  <2>5. Len(files') >= Len(files) BY <1>2, <2>2
  <2> QED BY <2>3, <2>4, <2>5 DEF FilesGrow
<1> QED BY <1>1, <1>3, <1>4, <1>5 DEF FilesMoved

LEMMA StoredIs ==
  ASSUME NEW i \in Nat, NEW f \in File
  PROVE  /\ Stored(i, f) \in Segment /\ Stored(i, f).no = i
         /\ Stored(i, f).data = f.data
<1>1. /\ f.session \in Nat /\ f.seq \in Nat /\ f.remaining \in Nat
      /\ f.whole \in BOOLEAN /\ f.data \in Seq(Byte)
  BY DEF File
<1>2. Stored(i, f) \in Segment BY <1>1, SMT DEF Stored, Segment
<1> QED BY <1>2, SMT DEF Stored

\* How many files in the directory have names up to that of files[i].
Rank(i) == Cardinality({j \in Present : files[j].id <= files[i].id})

LEMMA PresentFinite ==
  ASSUME TypeOK
  PROVE  IsFiniteSet(Present) /\ Cardinality(Present) \in Nat
<1>1. files \in Seq(File) BY DEF TypeOK
<1>2. IsFiniteSet(1 .. Len(files)) BY <1>1, FS_Interval
<1>3. Present \subseteq 1 .. Len(files) BY DEF Present
<1> QED BY <1>2, <1>3, FS_Subset, FS_CardinalityType

LEMMA RankIs ==
  ASSUME TypeOK, NamesOrdered, NEW i \in Present
  PROVE  /\ Rank(i) \in 1 .. Cardinality(Present)
         /\ \A j \in Present : j < i => Rank(j) < Rank(i)
<1> DEFINE upto(x) == {j \in Present : files[j].id <= files[x].id}
<1>1. \A x \in Present : files[x].id \in Nat /\ x \in Nat
  BY PresentFiles DEF Present
<1>2. \A x \in Present : IsFiniteSet(upto(x)) /\ Cardinality(upto(x)) \in Nat
  BY PresentFinite, FS_Subset, FS_CardinalityType
<1>3. Rank(i) \in 1 .. Cardinality(Present)
  <2>1. upto(i) \in SUBSET Present OBVIOUS
  <2>2. Cardinality(upto(i)) <= Cardinality(Present) BY <2>1, PresentFinite, FS_Subset
  <2>3. i \in upto(i) BY <1>1
  <2>4. Cardinality(upto(i)) # 0 BY <1>2, <2>3, FS_EmptySet
  <2>5. Rank(i) = Cardinality(upto(i)) BY DEF Rank
  <2> HIDE DEF upto
  <2> QED BY <1>2, <2>2, <2>4, <2>5, PresentFinite
<1>4. ASSUME NEW j \in Present, j < i PROVE Rank(j) < Rank(i)
  <2>1. files[j].id < files[i].id BY <1>4 DEF NamesOrdered
  <2>2. upto(j) \subseteq upto(i) BY <1>1, <2>1
  <2>3. i \in upto(i) /\ i \notin upto(j) BY <1>1, <2>1
  <2>4. Cardinality(upto(j)) <= Cardinality(upto(i)) BY <1>2, <2>2, FS_Subset
  <2>5. Cardinality(upto(j)) # Cardinality(upto(i)) BY <1>2, <2>2, <2>3, FS_Subset
  <2>6. Rank(i) = Cardinality(upto(i)) /\ Rank(j) = Cardinality(upto(j)) BY DEF Rank
  <2> HIDE DEF upto
  <2> QED BY <1>2, <2>4, <2>5, <2>6
<1> QED BY <1>3, <1>4

\* A listing has the files of the directory, in the order in which they were made.
LEMMA NthIs ==
  ASSUME TypeOK, NamesOrdered
  PROVE  /\ \A k \in 1 .. Cardinality(Present) : Nth(k) \in Present /\ Rank(Nth(k)) = k
         /\ \A i \in Present : Nth(Rank(i)) = i
         /\ \A k, l \in 1 .. Cardinality(Present) : k < l => Nth(k) < Nth(l)
<1> DEFINE n == Cardinality(Present)
           rank == [i \in Present |-> Rank(i)]
<1>1. IsFiniteSet(Present) /\ n \in Nat BY PresentFinite
<1>2. \A i \in Present : i \in Nat BY PresentFiles
<1>3. \A i \in Present : Rank(i) \in 1 .. n BY RankIs
<1>4. \A i, j \in Present : j < i => Rank(j) < Rank(i) BY RankIs
<1>5. \A i, j \in Present : Rank(i) = Rank(j) => i = j
  BY <1>2, <1>3, <1>4
<1> HIDE DEF n
<1>6. IsFiniteSet(1 .. n) /\ Cardinality(1 .. n) = n BY <1>1, FS_Interval
<1>7. rank \in Injection(Present, 1 .. n) BY <1>3, <1>5 DEF Injection, IsInjective
<1>8. rank \in Surjection(Present, 1 .. n)
  BY <1>1, <1>6, <1>7, FS_Injection DEF n
<1>9. \A k \in 1 .. n : \E i \in Present : Rank(i) = k BY <1>8 DEF Surjection
<1>10. \A k \in 1 .. n : Nth(k) \in Present /\ Rank(Nth(k)) = k
  <2> TAKE k \in 1 .. n
  <2>1. \E i \in Present : Cardinality({j \in Present : files[j].id <= files[i].id}) = k
    BY <1>9 DEF Rank
  <2> QED BY <2>1 DEF Nth, Rank
<1>11. \A i \in Present : Nth(Rank(i)) = i BY <1>3, <1>5, <1>10
<1>12. \A k, l \in 1 .. n : k < l => Nth(k) < Nth(l)
  <2> TAKE k, l \in 1 .. n
  <2> HAVE k < l
  <2>1. Nth(k) \in Present /\ Nth(l) \in Present /\ Rank(Nth(k)) = k /\ Rank(Nth(l)) = l
    BY <1>10
  <2>2. Nth(k) \in Nat /\ Nth(l) \in Nat BY <1>2, <2>1
  <2>3. ~ (Nth(l) < Nth(k)) /\ Nth(k) # Nth(l) BY <1>1, <1>4, <2>1
  <2> QED BY <2>2, <2>3
<1> QED BY <1>10, <1>11, <1>12 DEF n

LEMMA ListingIs ==
  ASSUME TypeOK, NamesOrdered
  PROVE  /\ Listing \in Seq(Segment) /\ Len(Listing) = Cardinality(Present)
         /\ \A k \in 1 .. Len(Listing) :
              /\ Nth(k) \in 1 .. Len(files) /\ Listing[k] = Stored(Nth(k), files[Nth(k)])
              /\ Listing[k].no = Nth(k) /\ Listing[k].data = files[Nth(k)].data
<1>1. Cardinality(Present) \in Nat BY PresentFinite
<1>2. ASSUME NEW k \in 1 .. Cardinality(Present)
      PROVE  /\ Nth(k) \in 1 .. Len(files) /\ Nth(k) \in Nat /\ files[Nth(k)] \in File
  <2>1. Nth(k) \in Present BY NthIs
  <2> QED BY <2>1, PresentFiles DEF TypeOK
<1>3. \A k \in 1 .. Cardinality(Present) :
        /\ Stored(Nth(k), files[Nth(k)]) \in Segment
        /\ Stored(Nth(k), files[Nth(k)]).no = Nth(k)
        /\ Stored(Nth(k), files[Nth(k)]).data = files[Nth(k)].data
  BY <1>2, StoredIs
<1>4. Listing \in [1 .. Cardinality(Present) -> Segment] BY <1>3 DEF Listing
<1>5. Listing \in Seq(Segment) /\ Len(Listing) = Cardinality(Present) BY <1>1, <1>4
<1> QED BY <1>2, <1>3, <1>5 DEF Listing

LEMMA LengthsAre ==
  ASSUME NEW rs \in Seq(Record), NEW ls, ls = [r \in 1 .. Len(rs) |-> rs[r].len]
  PROVE  ls \in Seq(Nat) /\ Len(ls) = Len(rs)
<1>1. \A r \in 1 .. Len(rs) : rs[r].len \in Nat
  <2>1. \A r \in 1 .. Len(rs) : rs[r] \in Record OBVIOUS
  <2> QED BY <2>1 DEF Record
<1>2. ls \in [1 .. Len(rs) -> Nat] BY <1>1
<1> QED BY <1>2

\* The file a reader has of a listing, after a step of a writer beside it.
LEMMA RefreshedIs ==
  ASSUME SystemTypes, Inv, Inv', Listed, phase = "live", FilesGrow
  PROVE  /\ Refreshed \in Seq(Segment) /\ Len(Refreshed) = Len(disk)
         /\ \A k \in 1 .. Len(disk) :
              /\ Refreshed[k].no = disk[k].no
              /\ Len(disk[k].data) <= Len(Refreshed[k].data)
              /\ Len(Refreshed[k].data) <=
                   IF Refreshed[k].no \in 1 .. Len(files')
                   THEN Len(files'[Refreshed[k].no].data) ELSE 0
<1>1. /\ files \in Seq(File) /\ files' \in Seq(File) /\ disk \in Seq(Segment)
      /\ Len(disk) \in Nat /\ Len(files) \in Nat /\ Len(files') \in Nat
  <2>1. files \in Seq(File) BY DEF Inv, TypeOK
  <2>2. files' \in Seq(File) BY DEF FilesGrow
  <2>3. disk \in Seq(Segment) BY DEF SystemTypes
  <2> QED BY <2>1, <2>2, <2>3
<1>2. ASSUME NEW k \in 1 .. Len(disk)
      PROVE  /\ Refreshed[k] \in Segment /\ Refreshed[k].no = disk[k].no
             /\ Len(disk[k].data) <= Len(Refreshed[k].data)
             /\ Len(Refreshed[k].data) <=
                  IF Refreshed[k].no \in 1 .. Len(files')
                  THEN Len(files'[Refreshed[k].no].data) ELSE 0
  <2> SUFFICES ASSUME NEW i, i = disk[k].no
      PROVE  /\ Refreshed[k] \in Segment /\ Refreshed[k].no = i
             /\ Len(disk[k].data) <= Len(Refreshed[k].data)
             /\ Len(Refreshed[k].data) <=
                  IF i \in 1 .. Len(files') THEN Len(files'[i].data) ELSE 0
    OBVIOUS
  <2>1. disk[k] \in Segment BY <1>1
  <2>2. i \in Nat /\ disk[k].data \in Seq(Byte) /\ Len(disk[k].data) \in Nat
    BY <2>1 DEF Segment
  <2>3. Len(disk[k].data) <= IF i \in 1 .. Len(files) THEN Len(files[i].data) ELSE 0
    BY DEF Listed
  <2>4. \A j \in 1 .. Len(files') : files'[j] \in File /\ Len(files'[j].data) \in Nat
    <3> TAKE j \in 1 .. Len(files')
    <3>1. files'[j] \in File BY <1>1
    <3>2. files'[j].data \in Seq(Byte) BY <3>1 DEF File
    <3> QED BY <3>1, <3>2
  <2>5. \A j \in 1 .. Len(files) :
          /\ j \in 1 .. Len(files') /\ Len(files'[j].data) >= Len(files[j].data)
          /\ Len(files[j].data) \in Nat
    BY <1>1, FileData DEF FilesGrow, Inv
  <2>6. Len(disk[k].data) <= IF i \in 1 .. Len(files') THEN Len(files'[i].data) ELSE 0
    <3>1. CASE i \in 1 .. Len(files) BY <2>2, <2>3, <2>4, <2>5, <3>1
    <3>2. CASE i \notin 1 .. Len(files) BY <2>2, <2>3, <2>4, <3>2
    <3> QED BY <3>1, <3>2
  <2>7. CASE i \in Present'
    <3>1. i \in 1 .. Len(files') BY <2>7 DEF Present
    <3>2. Refreshed[k] = Stored(i, files'[i]) BY <2>7 DEF Refreshed
    <3>3. Refreshed[k] \in Segment /\ Refreshed[k].no = i
          /\ Refreshed[k].data = files'[i].data
      BY <2>2, <2>4, <3>1, <3>2, StoredIs
    <3> QED BY <2>4, <2>6, <3>1, <3>3
  <2>8. CASE i \notin Present'
    <3>1. Refreshed[k] = [disk[k] EXCEPT !.whole = FALSE] BY <2>8 DEF Refreshed
    <3>2. Refreshed[k] \in Segment /\ Refreshed[k].no = i
          /\ Refreshed[k].data = disk[k].data
      BY <2>1, <3>1 DEF Segment
    <3> QED BY <2>2, <2>6, <3>2
  <2> QED BY <2>7, <2>8
<1>3. Refreshed \in [1 .. Len(disk) -> Segment] BY <1>2 DEF Refreshed
<1>4. Refreshed \in Seq(Segment) /\ Len(Refreshed) = Len(disk) BY <1>1, <1>3
<1> QED BY <1>2, <1>4

\* A reader's state stands when the directory has as many files, no shorter.
LEMMA ReaderStands ==
  ASSUME ReaderInv, SystemTypes, disk' \in Seq(Segment), Len(disk') = Len(disk),
         UNCHANGED readervars,
         \A k \in 1 .. Len(disk) : Len(disk[k].data) <= Len(disk'[k].data)
  PROVE  ReaderInv'
<1>1. CASE current = R!NoFile
  BY <1>1 DEF readervars, ReaderInv, PlaceTypes, CallTypes, RestTypes, CallShape,
              Anchored, R!Reading, R!AtEof
<1>2. CASE current # R!NoFile
  <2>1. /\ current \in [file : 1 .. Len(disk), pos : Nat, len : Nat]
        /\ current.file \in 1 .. Len(disk) /\ current.pos <= current.len
        /\ current.len \in Nat /\ current.len <= Len(disk[current.file].data)
        /\ disk[current.file].data \in Seq(Byte)
    BY <1>2, CurrentIs
  <2>2. disk'[current.file] \in Segment /\ Len(disk[current.file].data) \in Nat
    BY <2>1
  <2>3. Len(disk'[current.file].data) \in Nat
    <3>1. disk'[current.file].data \in Seq(Byte) BY <2>2 DEF Segment
    <3> QED BY <3>1
  <2>4. Len(disk[current.file].data) <= Len(disk'[current.file].data) BY <2>1
  <2>5. current.len <= Len(disk'[current.file].data) BY <2>1, <2>2, <2>3, <2>4
  <2>6. PlaceTypes' BY <2>1, <2>5 DEF readervars, ReaderInv, PlaceTypes
  <2> QED BY <2>6 DEF readervars, ReaderInv, CallTypes, RestTypes, CallShape,
                      Anchored, R!Reading, R!AtEof
<1> QED BY <1>1, <1>2

LEMMA WriteKeeps ==
  ASSUME SystemInv, Write
  PROVE  SystemInv'
<1>1. phase \in {"writing", "live"} /\ phase' = phase /\ Next BY DEF Write
<1>2. Inv /\ NamesInv BY <1>1 DEF SystemInv, Writing
<1>3. Inv' /\ NamesInv' BY <1>1, <1>2, StepKeeps, NextKeepsNames
<1>4. FilesGrow BY <1>1, <1>2, NextGrows
<1>5. UNCHANGED readervars BY DEF Write
<1>6. /\ disk' \in Seq(Segment) /\ Len(disk') = Len(disk) /\ lens' \in Seq(Nat)
      /\ \A k \in 1 .. Len(disk) : Len(disk[k].data) <= Len(disk'[k].data)
      /\ Listed'
  <2>1. CASE phase = "live"
    <3>1. disk' = Refreshed /\ lens' = Lengths' BY <2>1 DEF Write
    <3>2. /\ Refreshed \in Seq(Segment) /\ Len(Refreshed) = Len(disk)
          /\ \A k \in 1 .. Len(disk) :
               /\ Refreshed[k].no = disk[k].no
               /\ Len(disk[k].data) <= Len(Refreshed[k].data)
               /\ Len(Refreshed[k].data) <=
                    IF Refreshed[k].no \in 1 .. Len(files')
                    THEN Len(files'[Refreshed[k].no].data) ELSE 0
      BY <1>2, <1>3, <1>4, <2>1, RefreshedIs DEF SystemInv
    <3>3. lens' \in Seq(Nat)
      <4>1. records' \in Seq(Record) BY <1>3 DEF Inv, TypeOK
      <4>2. Lengths' = [r \in 1 .. Len(records') |-> records'[r].len] BY DEF Lengths
      <4> QED BY <3>1, <4>1, <4>2, LengthsAre
    <3>4. Listed' BY <3>1, <3>2 DEF Listed
    <3> QED BY <3>1, <3>2, <3>3, <3>4
  <2>2. CASE phase # "live"
    <3>1. disk' = disk /\ lens' = lens BY <2>2 DEF Write
    <3>2. \A k \in 1 .. Len(disk) : Len(disk[k].data) \in Nat
      <4> TAKE k \in 1 .. Len(disk)
      <4>1. disk[k] \in Segment BY DEF SystemInv, SystemTypes
      <4>2. disk[k].data \in Seq(Byte) BY <4>1 DEF Segment
      <4> QED BY <4>2
    <3>3. Listed' BY <1>1, <2>2 DEF Listed
    <3> QED BY <3>1, <3>2, <3>3 DEF SystemInv, SystemTypes
  <2> QED BY <2>1, <2>2
<1>7. SystemTypes' BY <1>1, <1>6 DEF Write, SystemInv, SystemTypes
<1>8. ReaderInv' BY <1>5, <1>6, ReaderStands DEF SystemInv
<1>9. Unborn' BY <1>1, <1>5 DEF SystemInv, Unborn, readervars
<1> QED BY <1>3, <1>6, <1>7, <1>8, <1>9 DEF SystemInv, Writing

\* Before a reader opens a file, its directory may be any.
LEMMA UnbornStands ==
  ASSUME ReaderInv, current = R!NoFile, headers = <<>>, resync = TRUE \/ rpc = "idle",
         pending' \in Seq(1 .. Len(disk')),
         UNCHANGED <<current, session, prevSeq, startLost, reopened, recovery, headers,
                     resync, lastMeta, rpc, bufLen, need, got, payloadLen, consumed,
                     total, implied, results, readFaults>>
  PROVE  ReaderInv'
<1>1. headers' \in Seq([file : 1 .. Len(disk'), read : Nat]) BY DEF ReaderInv
<1>2. PlaceTypes' BY <1>1 DEF ReaderInv, PlaceTypes
<1>3. CallTypes' /\ RestTypes' /\ CallShape'
  BY DEF ReaderInv, CallTypes, RestTypes, CallShape
<1>4. Anchored' BY DEF ReaderInv, Anchored, R!Reading, R!AtEof
<1> QED BY <1>2, <1>3, <1>4 DEF ReaderInv

LEMMA NewReader ==
  ASSUME ReaderInv, current = R!NoFile, headers = <<>>, rpc = "idle",
         NEW listing \in Seq(Segment), NEW lengths \in Seq(Nat), R!New(listing, lengths)
  PROVE  /\ ReaderInv' /\ disk' \in Seq(Segment) /\ lens' \in Seq(Nat)
         /\ disk' = listing /\ Len(pending') = Len(disk') /\ current' = R!NoFile
<1>1. disk' = listing /\ lens' = lengths BY DEF R!New
<1>2. pending' = [f \in 1 .. Len(listing) |-> f] BY DEF R!New
<1>3. Len(listing) \in Nat OBVIOUS
<1>4. pending' \in [1 .. Len(listing) -> 1 .. Len(listing)] BY <1>2
<1>5. pending' \in Seq(1 .. Len(listing)) /\ Len(pending') = Len(listing)
  BY <1>3, <1>4
<1>6. /\ UNCHANGED <<current, session, prevSeq, startLost, reopened, recovery, headers,
                     resync, lastMeta, rpc, bufLen, need, got, payloadLen, consumed,
                     total, implied, results, readFaults>>
  BY DEF R!New, R!call, R!cursor
<1>7. ReaderInv' BY <1>1, <1>5, <1>6, UnbornStands
<1> QED BY <1>1, <1>5, <1>6, <1>7

LEMMA OpenBesideWriterKeeps ==
  ASSUME SystemInv, OpenBesideWriter
  PROVE  SystemInv'
<1>1. phase = "writing" /\ phase' = "live" BY DEF OpenBesideWriter
<1>2. Inv /\ NamesInv BY <1>1 DEF SystemInv, Writing
<1>3. files \in Seq(File) /\ records \in Seq(Record) /\ Len(files) \in Nat
      /\ Len(records) \in Nat
  BY <1>2 DEF Inv, TypeOK
<1>4. PICK new \in {<<>>} \cup
                   (IF Creating THEN {<<Stored(Len(files) + 1, NewFile(id, FALSE))>> :
                                        id \in FreeIds} ELSE {}) :
        R!New(Listing \o new, Lengths)
  BY DEF OpenBesideWriter
<1>5. new \in Seq(Segment) /\ \A k \in 1 .. Len(new) : Len(new[k].data) = 0
  <2>1. CASE new = <<>> BY <2>1
  <2>2. CASE new # <<>>
    <3>1. Creating /\ \E id \in FreeIds : new = <<Stored(Len(files) + 1, NewFile(id, FALSE))>>
      BY <1>4, <2>2
    <3>2. PICK id \in FreeIds : new = <<Stored(Len(files) + 1, NewFile(id, FALSE))>>
      BY <3>1
    <3>3. NewFile(id, FALSE) \in File /\ NewFile(id, FALSE).data = <<>>
      BY <1>2, FreeNat, FileMade DEF Inv
    <3>4. Len(files) + 1 \in Nat BY <1>3
    <3>5. /\ Stored(Len(files) + 1, NewFile(id, FALSE)) \in Segment
          /\ Stored(Len(files) + 1, NewFile(id, FALSE)).data = <<>>
      BY <3>3, <3>4, StoredIs
    <3>6. \A x \in Segment : x.data = <<>> =>
            /\ <<x>> \in Seq(Segment)
            /\ \A k \in 1 .. Len(<<x>>) : Len(<<x>>[k].data) = 0
      OBVIOUS
    <3> QED BY <3>2, <3>5, <3>6
  <2> QED BY <2>1, <2>2
<1>6. /\ Listing \in Seq(Segment) /\ Len(Listing) = Cardinality(Present)
      /\ \A k \in 1 .. Len(Listing) :
           /\ Nth(k) \in 1 .. Len(files) /\ Listing[k].no = Nth(k)
           /\ Listing[k].data = files[Nth(k)].data
  BY <1>2, ListingIs DEF Inv, NamesInv
<1>7. Lengths \in Seq(Nat) BY <1>3, LengthsAre DEF Lengths
<1> DEFINE l == Listing \o new
<1>8. /\ l \in Seq(Segment) /\ Len(l) = Len(Listing) + Len(new)
      /\ \A i \in 1 .. Len(Listing) : l[i] = Listing[i]
      /\ \A i \in 1 .. Len(new) : l[Len(Listing) + i] = new[i]
  <2>1. Listing \in Seq(Segment) /\ new \in Seq(Segment) BY <1>5, <1>6
  <2>2. \A s, t \in Seq(Segment) :
          /\ s \o t \in Seq(Segment) /\ Len(s \o t) = Len(s) + Len(t)
          /\ \A i \in 1 .. Len(s) : (s \o t)[i] = s[i]
          /\ \A i \in 1 .. Len(t) : (s \o t)[Len(s) + i] = t[i]
    BY Joins
  <2> QED BY <2>1, <2>2
<1>9. /\ ReaderInv' /\ disk' \in Seq(Segment) /\ lens' \in Seq(Nat) /\ disk' = l
  <2>1. R!New(l, Lengths) BY <1>4
  <2>2. current = R!NoFile /\ headers = <<>> /\ rpc = "idle"
    BY <1>1 DEF SystemInv, Unborn
  <2> HIDE DEF l
  <2> QED BY <1>7, <1>8, <2>1, <2>2, NewReader DEF SystemInv
<1> HIDE DEF l
<1>10. Inv' /\ NamesInv'
  <2>1. UNCHANGED wvars BY DEF OpenBesideWriter
  <2> QED BY <1>2, <2>1, StepKeeps, NextKeepsNames
<1>11. Listed'
  <2>1. UNCHANGED files BY DEF OpenBesideWriter, wvars
  <2>2. ASSUME NEW k \in 1 .. Len(l)
        PROVE  Len(l[k].data) <=
                 IF l[k].no \in 1 .. Len(files) THEN Len(files[l[k].no].data) ELSE 0
    <3>1. Len(Listing) \in Nat /\ Len(new) \in Nat /\ Len(l) \in Nat BY <1>5, <1>6, <1>8
    <3>2. \A i \in 1 .. Len(files) : Len(files[i].data) \in Nat BY <1>2, FileData DEF Inv
    <3>3. CASE k \in 1 .. Len(Listing) BY <1>6, <1>8, <3>2, <3>3
    <3>4. CASE k \notin 1 .. Len(Listing)
      <4>1. k - Len(Listing) \in 1 .. Len(new) /\ k = Len(Listing) + (k - Len(Listing))
        BY <1>8, <3>1, <3>4
      <4>2. l[k] = new[k - Len(Listing)] BY <1>8, <4>1
      <4>3. Len(l[k].data) = 0 BY <1>5, <4>1, <4>2
      <4> QED BY <3>2, <4>3
    <3> QED BY <3>3, <3>4
  <2> QED BY <1>9, <2>1, <2>2 DEF Listed
<1>12. SystemTypes'
  <2>1. Cardinality({r \in 1 .. Len(records) : records[r].status # "writing"}) \in Nat
    <3>1. IsFiniteSet(1 .. Len(records)) BY <1>3, FS_Interval
    <3>2. {r \in 1 .. Len(records) : records[r].status # "writing"}
            \in SUBSET (1 .. Len(records))
      OBVIOUS
    <3> QED BY <3>1, <3>2, FS_Subset, FS_CardinalityType
  <2> QED BY <1>1, <1>9, <2>1 DEF OpenBesideWriter, SystemInv, SystemTypes
<1> QED BY <1>1, <1>9, <1>10, <1>11, <1>12 DEF SystemInv, Unborn

LEMMA StopWritingKeeps ==
  ASSUME SystemInv, StopWriting
  PROVE  SystemInv'
<1>1. phase \in {"writing", "live"} BY DEF StopWriting
<1>2. Inv /\ NamesInv BY <1>1 DEF SystemInv, Writing
<1>3. files \in Seq(File) /\ records \in Seq(Record) /\ Len(files) \in Nat
  BY <1>2 DEF Inv, TypeOK
<1>4. stored' \in Seq(Segment)
  <2>1. \A i \in 1 .. Len(files) : Stored(i, files[i]) \in Segment
    <3> TAKE i \in 1 .. Len(files)
    <3>1. i \in Nat /\ files[i] \in File BY <1>3
    <3> QED BY <3>1, StoredIs
  <2>2. stored' = [i \in 1 .. Len(files) |-> Stored(i, files[i])] BY DEF StopWriting
  <2>3. stored' \in [1 .. Len(files) -> Segment] BY <2>1, <2>2
  <2> QED BY <1>3, <2>3
<1>5. UNCHANGED readervars /\ UNCHANGED <<known, damaged, corrupted>> BY DEF StopWriting
<1>6. CASE phase = "live"
  <2>1. phase' = "reading" /\ UNCHANGED <<disk, lens>> BY <1>6 DEF StopWriting
  <2>2. SystemTypes' BY <1>4, <1>5, <2>1 DEF SystemInv, SystemTypes
  <2>3. ReaderInv'
    BY <1>5, <2>1 DEF readervars, SystemInv, ReaderInv, PlaceTypes, CallTypes, RestTypes,
                      CallShape, Anchored, R!Reading, R!AtEof
  <2> QED BY <2>1, <2>2, <2>3 DEF SystemInv, Writing, Listed, Unborn
<1>7. CASE phase # "live"
  <2>1. phase' = "damaging" /\ disk' = Listing /\ lens' = Lengths
    BY <1>7 DEF StopWriting
  <2>2. Listing \in Seq(Segment) BY <1>2, ListingIs DEF Inv, NamesInv
  <2>3. Lengths \in Seq(Nat) BY <1>3, LengthsAre DEF Lengths
  <2>4. SystemTypes' BY <1>4, <1>5, <2>1, <2>2, <2>3 DEF SystemInv, SystemTypes
  <2>5. /\ pending = <<>> /\ current = R!NoFile /\ headers = <<>> /\ rpc = "idle"
    BY <1>1, <1>7 DEF SystemInv, Unborn
  <2>6. pending' \in Seq(1 .. Len(disk')) BY <1>5, <2>5 DEF readervars
  <2>7. ReaderInv' BY <1>5, <2>5, <2>6, UnbornStands DEF readervars, SystemInv
  <2>8. Unborn' BY <1>1, <1>5, <1>7 DEF readervars, SystemInv, Unborn
  <2> QED BY <2>1, <2>4, <2>7, <2>8 DEF SystemInv, Writing, Listed
<1> QED BY <1>6, <1>7

\* What damage leaves of a directory is one of as many files, or fewer by one.
LEMMA DamageLeaves ==
  ASSUME SystemTypes, NEW i \in 1 .. Len(disk), Damage(i)
  PROVE  disk' \in Seq(Segment)
<1>1. disk \in Seq(Segment) /\ disk[i] \in Segment /\ Len(disk) \in Nat
  BY DEF SystemTypes
<1>2. PICK remains \in Remains(disk[i]) :
        disk' = SubSeq(disk, 1, i - 1) \o remains \o SubSeq(disk, i + 1, Len(disk))
  BY DEF Damage
<1>3. remains \in Seq(Segment)
  <2>1. CASE remains = <<>> BY <2>1
  <2>2. CASE remains = <<[disk[i] EXCEPT !.whole = FALSE]>>
    <3>1. [disk[i] EXCEPT !.whole = FALSE] \in Segment BY <1>1 DEF Segment
    <3> QED BY <2>2, <3>1
  <2>3. ASSUME NEW n \in 0 .. Len(disk[i].data) - 1,
               remains = <<[disk[i] EXCEPT !.data = SubSeq(disk[i].data, 1, n)]>>
        PROVE  remains \in Seq(Segment)
    <3>1. disk[i].data \in Seq(Byte) BY <1>1 DEF Segment
    <3> DEFINE d == disk[i].data
    <3> HIDE DEF d
    <3>2. d \in Seq(Byte) /\ n \in 0 .. Len(d) - 1 BY <3>1 DEF d
    <3>3. SubSeq(d, 1, n) \in Seq(Byte) BY <3>2
    <3>4. [disk[i] EXCEPT !.data = SubSeq(d, 1, n)] \in Segment BY <1>1, <3>3 DEF Segment
    <3> QED BY <2>3, <3>4 DEF d
  <2> QED BY <2>1, <2>2, <2>3 DEF Remains
<1>4. SubSeq(disk, 1, i - 1) \in Seq(Segment)
      /\ SubSeq(disk, i + 1, Len(disk)) \in Seq(Segment)
  BY <1>1
<1> QED BY <1>2, <1>3, <1>4, Joins

LEMMA CorruptLeaves ==
  ASSUME SystemTypes, NEW i \in 1 .. Len(disk), Corrupt(i)
  PROVE  disk' \in Seq(Segment)
<1>1. disk \in Seq(Segment) /\ disk[i] \in Segment /\ disk[i].data \in Seq(Byte)
  <2>1. disk \in Seq(Segment) /\ disk[i] \in Segment BY DEF SystemTypes
  <2> QED BY <2>1 DEF Segment
<1>2. ASSUME NEW v \in CorruptValues, NEW field \in {"seq", "remaining", "session"},
             disk' = [disk EXCEPT ![i][field] = v]
      PROVE  disk' \in Seq(Segment)
  <2>1. v \in Nat BY SystemAssumption
  <2>2. [disk[i] EXCEPT ![field] = v] \in Segment
    <3>1. CASE field = "seq" BY <1>1, <2>1, <3>1 DEF Segment
    <3>2. CASE field = "remaining" BY <1>1, <2>1, <3>2 DEF Segment
    <3>3. CASE field = "session" BY <1>1, <2>1, <3>3 DEF Segment
    <3> QED BY <3>1, <3>2, <3>3
  <2> QED BY <1>1, <1>2, <2>2
<1>3. ASSUME NEW n \in 1 .. Len(disk[i].data),
             disk' = [disk EXCEPT ![i].data[n] = <<0, 0>>]
      PROVE  disk' \in Seq(Segment)
  <2>1. <<0, 0>> \in Byte BY DEF Byte
  <2>2. [disk[i].data EXCEPT ![n] = <<0, 0>>] \in Seq(Byte) BY <1>1, <2>1
  <2>3. [disk[i] EXCEPT !.data = [disk[i].data EXCEPT ![n] = <<0, 0>>]] \in Segment
    BY <1>1, <2>2 DEF Segment
  <2> QED BY <1>1, <1>3, <2>3
<1> QED BY <1>2, <1>3 DEF Corrupt

LEMMA DamageKeeps ==
  ASSUME SystemInv, NEW i \in 1 .. Len(disk), Damage(i) \/ Corrupt(i)
  PROVE  SystemInv'
<1>1. /\ phase = "damaging" /\ phase' = phase /\ UNCHANGED readervars
      /\ UNCHANGED <<known, stored, lens>>
      /\ damaged' \in {damaged, damaged + 1} /\ corrupted' \in {corrupted, corrupted + 1}
  BY DEF Damage, Corrupt
<1>2. disk' \in Seq(Segment) BY DamageLeaves, CorruptLeaves DEF SystemInv
<1>3. SystemTypes' BY <1>1, <1>2 DEF SystemInv, SystemTypes
<1>4. pending = <<>> /\ current = R!NoFile /\ headers = <<>> /\ rpc = "idle"
  BY <1>1 DEF SystemInv, Unborn
<1>5. pending' \in Seq(1 .. Len(disk')) BY <1>1, <1>4 DEF readervars
<1>6. ReaderInv' BY <1>1, <1>4, <1>5, UnbornStands DEF readervars, SystemInv
<1>7. Unborn' BY <1>1 DEF readervars, SystemInv, Unborn
<1> QED BY <1>1, <1>3, <1>6, <1>7 DEF SystemInv, Writing, Listed

LEMMA OpenReaderKeeps ==
  ASSUME SystemInv, OpenReader
  PROVE  SystemInv'
<1>1. phase = "damaging" /\ phase' = "reading" /\ R!New(disk, lens) /\ known' = Len(lens)
      /\ damaged' = 0 /\ corrupted' = 0 /\ UNCHANGED stored
  BY DEF OpenReader
<1>2. disk \in Seq(Segment) /\ lens \in Seq(Nat) BY DEF SystemInv, SystemTypes
<1>3. current = R!NoFile /\ headers = <<>> /\ rpc = "idle"
  BY <1>1 DEF SystemInv, Unborn
<1>4. ReaderInv' /\ disk' \in Seq(Segment) /\ lens' \in Seq(Nat)
  BY <1>1, <1>2, <1>3, NewReader DEF SystemInv
<1>5. SystemTypes' BY <1>1, <1>2, <1>4 DEF SystemInv, SystemTypes
<1> QED BY <1>1, <1>4, <1>5 DEF SystemInv, Writing, Listed, Unborn

LEMMA ReadOnKeeps ==
  ASSUME SystemInv, ReadOn
  PROVE  SystemInv'
<1>1. /\ phase \in {"live", "reading"} /\ R!Next
      /\ UNCHANGED <<phase, known, stored, damaged, corrupted, wvars>>
  BY DEF ReadOn
<1>2. ReaderInv' /\ UNCHANGED <<disk, lens>> BY <1>1, ReaderStep DEF SystemInv
<1>3. SystemTypes' BY <1>1, <1>2 DEF SystemInv, SystemTypes
<1>4. Writing => Inv' /\ NamesInv'
  BY <1>1, StepKeeps, NextKeepsNames DEF SystemInv
<1>5. Listed' BY <1>1, <1>2 DEF SystemInv, Listed, wvars
<1> QED BY <1>1, <1>2, <1>3, <1>4, <1>5 DEF SystemInv, Writing, Unborn

LEMMA SystemInitEstablishes == SystemInit => SystemInv
<1> SUFFICES ASSUME SystemInit PROVE SystemInv OBVIOUS
<1>1. Inv BY InitEstablishes DEF SystemInit
<1>2. NamesInv
  BY DEF SystemInit, Init, NamesInv, NamesOrdered, Ahead, Present
<1>3. \A S : <<>> \in Seq(S) OBVIOUS
<1>4. SystemTypes /\ Listed BY <1>3 DEF SystemInit, R!Init, SystemTypes, Listed
<1>5. PlaceTypes BY <1>3, NoneIsOption DEF SystemInit, R!Init, PlaceTypes
<1>6. CallTypes /\ CallShape
  BY <1>3, NoneIsOption DEF SystemInit, R!Init, CallTypes, CallShape
<1>7. RestTypes BY <1>3, NoneIsOption DEF SystemInit, R!Init, RestTypes
<1>8. Anchored BY DEF SystemInit, R!Init, Anchored, R!Reading, R!AtEof
<1>9. Unborn BY DEF SystemInit, R!Init, Unborn
<1> QED BY <1>1, <1>2, <1>4, <1>5, <1>6, <1>7, <1>8, <1>9 DEF SystemInv, ReaderInv

LEMMA SystemStep == SystemInv /\ [SystemNext]_sysvars => SystemInv'
<1> SUFFICES ASSUME SystemInv, [SystemNext]_sysvars PROVE SystemInv' OBVIOUS
<1>1. CASE UNCHANGED sysvars
  <2>1. UNCHANGED wvars /\ UNCHANGED readervars /\ UNCHANGED <<disk, lens>>
        /\ UNCHANGED <<phase, known, stored, damaged, corrupted>>
    BY <1>1 DEF sysvars, rdvars
  <2>2. Writing => Inv' /\ NamesInv' BY <2>1, StepKeeps, NextKeepsNames DEF SystemInv
  <2>3. ReaderInv'
    BY <2>1 DEF readervars, SystemInv, ReaderInv, PlaceTypes, CallTypes, RestTypes,
                CallShape, Anchored, R!Reading, R!AtEof
  <2>4. SystemTypes' BY <2>1 DEF SystemInv, SystemTypes
  <2>5. Listed' BY <2>1 DEF SystemInv, Listed, wvars
  <2>6. Unborn' BY <2>1 DEF SystemInv, Unborn, readervars
  <2> QED BY <2>1, <2>2, <2>3, <2>4, <2>5, <2>6 DEF SystemInv, Writing
<1>2. CASE SystemNext
  BY <1>2, WriteKeeps, StopWritingKeeps, OpenBesideWriterKeeps, DamageKeeps,
     OpenReaderKeeps, ReadOnKeeps
    DEF SystemNext
<1> QED BY <1>1, <1>2

\* A LogRead beside a writer, and one behind any damage and any corruption, is in a
\* state that its fields and its code can be in: never outside the file it has open,
\* never within a record without one, and never short of a length it counts down.
THEOREM SystemTyped == SystemSpec => []SystemInv
BY SystemInitEstablishes, SystemStep, PTL DEF SystemSpec

-----------------------------------------------------------------------------
(* Each failing read is paid for.                                          *)

LEMMA FailedFinite ==
  ASSUME RestTypes
  PROVE  IsFiniteSet(FailedReads) /\ Cardinality(FailedReads) \in Nat
<1>1. IsFiniteSet(1 .. Len(results))
  <2>1. Len(results) \in Nat BY DEF RestTypes
  <2> QED BY <2>1, FS_Interval
<1>2. FailedReads \in SUBSET (1 .. Len(results)) BY DEF FailedReads
<1> QED BY <1>1, <1>2, FS_Subset, FS_CardinalityType

LEMMA FailedAfter ==
  ASSUME RestTypes, NEW r \in Outcome, results' = Append(results, r)
  PROVE  /\ Cardinality(FailedReads') =
              Cardinality(FailedReads) + (IF r.kind \in {"record", "overflow"} THEN 0 ELSE 1)
         /\ AtEnd' = IF r.kind = "eof" THEN 1 ELSE 0
<1> DEFINE n == Len(results) + 1
<1>1. /\ results \in Seq(Outcome) /\ Len(results) \in Nat
      /\ Len(results') = n /\ results'[n] = r
      /\ \A i \in 1 .. Len(results) : results'[i] = results[i]
  BY Adds DEF RestTypes
<1>2. FailedReads' = IF r.kind \in {"record", "overflow"} THEN FailedReads
                     ELSE FailedReads \cup {n}
  <2>1. \A i \in 1 .. n : i = n \/ i \in 1 .. Len(results) BY <1>1
  <2>2. 1 .. Len(results) \subseteq 1 .. n /\ n \in 1 .. n BY <1>1
  <2>3. FailedReads' = {i \in 1 .. n : results'[i].kind \notin {"record", "overflow"}}
    BY <1>1 DEF FailedReads
  <2> HIDE DEF n
  <2> QED BY <1>1, <2>1, <2>2, <2>3 DEF FailedReads
<1>3. n \notin FailedReads BY <1>1 DEF FailedReads
<1>4. Cardinality(FailedReads \cup {n}) = Cardinality(FailedReads) + 1
  BY <1>3, FailedFinite, FS_AddElement
<1>5. Cardinality(FailedReads) \in Nat BY FailedFinite
<1>6. AtEnd' = IF r.kind = "eof" THEN 1 ELSE 0
  <2>1. results' # <<>> BY <1>1, EmptySeq
  <2>2. R!AtEof' <=> results'[Len(results')].kind = "eof" BY <2>1 DEF R!AtEof
  <2> QED BY <1>1, <2>2 DEF AtEnd
<1> HIDE DEF n
<1> QED BY <1>2, <1>4, <1>5, <1>6

\* What a step takes from the budget, or a failure of reading, pays for its result.
Spending ==
  SystemTypes /\ ReaderInv /\ ReaderInv' /\ WithinBudget /\ ~ R!AtEof /\ disk' = disk

LEMMA Paid ==
  ASSUME Spending, NEW f \in {0, 1}, Cardinality(FailedReads') = Cardinality(FailedReads) + f,
         readFaults' >= readFaults,
         NEW p \in Nat, p = Len(pending), NEW q \in Nat, q = Len(pending'),
         3 * q + OpenFile' + WithSession' + 3 * RunsOn' + f
           <= 3 * p + OpenFile + WithSession + 3 * RunsOn + (readFaults' - readFaults) + AtEnd'
  PROVE  WithinBudget'
<1>1. PICK c \in Nat, d \in Nat, r \in Nat, t \in Nat :
        /\ c = Cardinality(FailedReads) /\ d = Len(disk)
        /\ r = readFaults /\ t = readFaults'
  <2>1. Cardinality(FailedReads) \in Nat BY FailedFinite DEF Spending, ReaderInv
  <2>2. Len(disk) \in Nat BY DEF Spending, SystemTypes
  <2>3. readFaults \in Nat /\ readFaults' \in Nat BY DEF Spending, ReaderInv, RestTypes
  <2> QED BY <2>1, <2>2, <2>3
<1>2. PICK o \in Nat, s \in Nat, i \in Nat :
        o = OpenFile /\ s = WithSession /\ i = RunsOn
  BY DEF OpenFile, WithSession, RunsOn
<1>3. PICK oo \in Nat, ss \in Nat, ii \in Nat, e \in Nat :
        oo = OpenFile' /\ ss = WithSession' /\ ii = RunsOn' /\ e = AtEnd'
  BY DEF OpenFile, WithSession, RunsOn, AtEnd
<1>4. AtEnd = 0 BY DEF AtEnd, Spending
<1>5. c + (3 * p + o + s + 3 * i) <= 3 * d + r + 0
  BY <1>1, <1>2, <1>4 DEF WithinBudget, Budget, Spending
<1>6. 3 * q + oo + ss + 3 * ii + f <= 3 * p + o + s + 3 * i + (t - r) + e
  BY <1>1, <1>2, <1>3
<1>7. c + f + (3 * q + oo + ss + 3 * ii) <= 3 * d + t + e BY <1>5, <1>6
<1> QED BY <1>1, <1>3, <1>7 DEF WithinBudget, Budget, Spending

LEMMA Untold ==
  ASSUME Spending, results' = results
  PROVE  /\ Cardinality(FailedReads') = Cardinality(FailedReads) + 0 /\ AtEnd' = 0
<1>1. FailedReads' = FailedReads BY DEF FailedReads
<1>2. Cardinality(FailedReads) \in Nat BY FailedFinite DEF Spending, ReaderInv
<1>3. AtEnd' = 0 BY DEF AtEnd, R!AtEof, Spending
<1> QED BY <1>1, <1>2, <1>3

\* A failure told, or the overflow told in its place.
LEMMA Failure ==
  ASSUME Spending, NEW r \in Outcome, R!Fails(r), r.kind \notin {"record", "overflow"}
  PROVE  \E f \in {0, 1} :
           /\ Cardinality(FailedReads') = Cardinality(FailedReads) + f
           /\ f = 1 \/ rpc = "skip"
           /\ rpc # "skip" => AtEnd' = IF r.kind = "eof" THEN 1 ELSE 0
           /\ implied' = <<>>
<1>1. PICK told \in Outcome :
        /\ results' = Append(results, told)
        /\ told.kind \in {r.kind, "overflow"}
        /\ rpc # "skip" => told = r
  BY FailedRead DEF Spending, ReaderInv
<1>2. implied' = <<>> BY FailedRead DEF Spending, ReaderInv
<1>3. /\ Cardinality(FailedReads') =
           Cardinality(FailedReads) + (IF told.kind \in {"record", "overflow"} THEN 0 ELSE 1)
      /\ AtEnd' = IF told.kind = "eof" THEN 1 ELSE 0
  BY <1>1, FailedAfter DEF Spending, ReaderInv
<1>4. CASE told.kind \in {"record", "overflow"}
  BY <1>1, <1>2, <1>3, <1>4
<1>5. CASE told.kind \notin {"record", "overflow"}
  BY <1>1, <1>2, <1>3, <1>5
<1> QED BY <1>4, <1>5

LEMMA PendingLens ==
  ASSUME Spending
  PROVE  \E p \in Nat, q \in Nat : p = Len(pending) /\ q = Len(pending')
BY DEF Spending, ReaderInv, PlaceTypes

LEMMA FailureIs ==
  ASSUME Spending, NEW lost \in Nat,
         NEW kind \in {"truncated", "eof", "end", "error"}, NEW data \in Seq(Byte)
  PROVE  /\ R!Result(kind, lost, data) \in Outcome
         /\ R!Result(kind, lost, data).kind = kind
<1>1. R!Result(kind, lost, data) \in Outcome
  BY ResultIs DEF Spending, ReaderInv, RestTypes
<1> QED BY <1>1 DEF R!Result

LEMMA EndPaid ==
  ASSUME Spending, R!ReadAtEnd \/ R!FindNone
  PROVE  WithinBudget'
<1>1. R!Result("eof", 0, <<>>) \in Outcome /\ R!Result("eof", 0, <<>>).kind = "eof"
  <2>1. <<>> \in Seq(Byte) OBVIOUS
  <2> QED BY <2>1, FailureIs
<1>2. /\ Cardinality(FailedReads') = Cardinality(FailedReads) + 1 /\ AtEnd' = 1
      /\ implied' = <<>>
  <2>1. CASE R!ReadAtEnd
    <3>1. results' = Append(results, R!Result("eof", 0, <<>>)) /\ implied' = <<>>
      BY <2>1 DEF R!ReadAtEnd, R!Return, R!EndCall
    <3> QED BY <1>1, <3>1, FailedAfter DEF Spending, ReaderInv
  <2>2. CASE R!FindNone
    <3>1. R!Fails(R!Result("eof", 0, <<>>)) /\ rpc = "find" BY <2>2 DEF R!FindNone
    <3> QED BY <1>1, <3>1, Failure
  <2> QED BY <2>1, <2>2
<1>3. pending' \in {pending, <<>>} /\ current' = R!NoFile /\ session' = session
  BY DEF R!ReadAtEnd, R!FindNone
<1>4. PICK p \in Nat, q \in Nat : p = Len(pending) /\ q = Len(pending') BY PendingLens
<1>5. q <= p
  <2>1. CASE pending' = pending BY <1>4, <2>1
  <2>2. CASE pending' = <<>>
    <3>1. q = 0 BY <1>4, <2>2
    <3> QED BY <3>1
  <2> QED BY <1>3, <2>1, <2>2
<1>6. readFaults' >= readFaults
  BY PassedOver DEF R!ReadAtEnd, R!FindNone, R!NoneLeft, Spending, ReaderInv, RestTypes,
                    PlaceTypes
<1>7. OpenFile' = 0 /\ RunsOn' = 0 /\ WithSession' = WithSession
  BY <1>2, <1>3 DEF OpenFile, RunsOn, WithSession
<1>8. PICK o \in Nat, s \in Nat, i \in Nat :
        o = OpenFile /\ s = WithSession /\ i = RunsOn
  BY DEF OpenFile, WithSession, RunsOn
<1>9. PICK r \in Nat, t \in Nat : r = readFaults /\ t = readFaults'
  BY DEF Spending, ReaderInv, RestTypes
<1>10. 3 * q + 0 + s + 3 * 0 + 1 <= 3 * p + o + s + 3 * i + (t - r) + 1
  BY <1>4, <1>5, <1>6, <1>8, <1>9
<1> QED BY <1>2, <1>4, <1>6, <1>7, <1>8, <1>9, <1>10, Paid

LEMMA FailureAfforded ==
  \A p \in Nat, q \in Nat, o \in 0 .. 1, i \in 0 .. 1, ss \in 0 .. 1, f \in 0 .. 1,
     e \in 0 .. 1, r \in Nat, t \in Nat :
    q <= p /\ (o = 1 \/ ss = 0) /\ t >= r =>
      3 * q + 0 + ss + 3 * 0 + f <= 3 * p + o + 1 + 3 * i + (t - r) + e
OBVIOUS

LEMMA FileAfforded ==
  \A p \in Nat, q \in Nat, o \in 0 .. 1, s \in 0 .. 1, i \in 0 .. 1,
     oo \in 0 .. 1, ss \in 0 .. 1, ii \in 0 .. 1, f \in 0 .. 1, e \in 0 .. 1,
     r \in Nat, t \in Nat :
    q <= p - 1 /\ (ii = 0 \/ (f = 0 /\ o = 1 /\ s = 1)) /\ t >= r =>
      3 * q + oo + ss + 3 * ii + f <= 3 * p + o + s + 3 * i + (t - r) + e
OBVIOUS

\* A failure in a file, or at the end of a session, takes it from the budget.
LEMMA FailurePaid ==
  ASSUME Spending, NEW r \in Outcome, R!Fails(r), r.kind \notin {"record", "overflow"},
         current' = R!NoFile, session # <<>>,
         current # R!NoFile \/ session' = <<>>,
         NEW p \in Nat, p = Len(pending), NEW q \in Nat, q = Len(pending'), q <= p,
         readFaults' >= readFaults
  PROVE  WithinBudget'
<1>1. PICK f \in 0 .. 1 :
        Cardinality(FailedReads') = Cardinality(FailedReads) + f /\ implied' = <<>>
  <2>1. \A f \in {0, 1} : f \in 0 .. 1 OBVIOUS
  <2> QED BY <2>1, Failure
<1>2. OpenFile' = 0 /\ RunsOn' = 0 /\ WithSession = 1
  BY <1>1 DEF OpenFile, RunsOn, WithSession
<1>3. PICK o \in 0 .. 1, i \in 0 .. 1, ss \in 0 .. 1, e \in 0 .. 1 :
        /\ o = OpenFile /\ i = RunsOn /\ ss = WithSession' /\ e = AtEnd'
        /\ o = 1 \/ ss = 0
  BY DEF OpenFile, RunsOn, WithSession, AtEnd
<1>4. PICK r1 \in Nat, t \in Nat : r1 = readFaults /\ t = readFaults' /\ t >= r1
  BY DEF Spending, ReaderInv, RestTypes
<1>5. 3 * q + 0 + ss + 3 * 0 + f <= 3 * p + o + 1 + 3 * i + (t - r1) + e
  BY <1>1, <1>3, <1>4, FailureAfforded, ZenonT(60)
<1>6. f \in {0, 1} BY <1>1
<1> QED BY <1>1, <1>2, <1>3, <1>4, <1>5, <1>6, Paid

\* A file that is opened pays for all that comes of it.
LEMMA FilePaid ==
  ASSUME Spending, NEW f \in {0, 1},
         Cardinality(FailedReads') = Cardinality(FailedReads) + f,
         NEW p \in Nat, p = Len(pending), NEW q \in Nat, q = Len(pending'), q <= p - 1,
         readFaults' >= readFaults,
         \/ implied' = <<>>
         \/ f = 0 /\ current # R!NoFile /\ session # <<>>
  PROVE  WithinBudget'
<1>1. PICK o \in 0 .. 1, s \in 0 .. 1, i \in 0 .. 1,
           oo \in 0 .. 1, ss \in 0 .. 1, ii \in 0 .. 1, e \in 0 .. 1 :
        /\ o = OpenFile /\ s = WithSession /\ i = RunsOn
        /\ oo = OpenFile' /\ ss = WithSession' /\ ii = RunsOn' /\ e = AtEnd'
        /\ ii = 0 \/ (f = 0 /\ o = 1 /\ s = 1)
  BY DEF OpenFile, RunsOn, WithSession, AtEnd
<1>2. PICK r \in Nat, t \in Nat : r = readFaults /\ t = readFaults' /\ t >= r
  BY DEF Spending, ReaderInv, RestTypes
<1>3. f \in 0 .. 1 OBVIOUS
<1>4. q <= p - 1 /\ (ii = 0 \/ (f = 0 /\ o = 1 /\ s = 1)) /\ t >= r
  BY <1>1, <1>2
<1>5. 3 * q + oo + ss + 3 * ii + f <= 3 * p + o + s + 3 * i + (t - r) + e
  BY <1>3, <1>4, FileAfforded, ZenonT(60)
<1> QED BY <1>1, <1>2, <1>5, Paid

LEMMA FreeOfCharge ==
  ASSUME Spending, Cardinality(FailedReads') = Cardinality(FailedReads) + 0,
         pending' = pending, session' = session, readFaults' = readFaults,
         current = R!NoFile => current' = R!NoFile,
         implied' \in {implied, <<>>}
  PROVE  WithinBudget'
<1>1. PICK p \in Nat, q \in Nat : p = Len(pending) /\ q = Len(pending') BY PendingLens
<1>2. PICK o \in 0 .. 1, s \in 0 .. 1, i \in 0 .. 1,
           oo \in 0 .. 1, ss \in 0 .. 1, ii \in 0 .. 1, e \in 0 .. 1 :
        /\ o = OpenFile /\ s = WithSession /\ i = RunsOn
        /\ oo = OpenFile' /\ ss = WithSession' /\ ii = RunsOn' /\ e = AtEnd'
        /\ ii <= i /\ ss = s /\ oo <= o
  BY DEF OpenFile, RunsOn, WithSession, AtEnd
<1>3. PICK r \in Nat, t \in Nat : r = readFaults /\ t = readFaults' /\ t = r
  BY DEF Spending, ReaderInv, RestTypes
<1>4. q = p BY <1>1
<1>5. 3 * q + oo + ss + 3 * ii + 0 <= 3 * p + o + s + 3 * i + (t - r) + e
  BY <1>1, <1>2, <1>3, <1>4
<1>6. readFaults' >= readFaults BY <1>3
<1> QED BY <1>1, <1>2, <1>3, <1>5, <1>6, Paid

LEMMA FindPaid ==
  ASSUME Spending, NEW k \in 0 .. Len(pending) - 1,
         R!FindDiscards(k) \/ R!FindsStart(k) \/ R!FindSeekFails(k)
  PROVE  WithinBudget'
<1>1. SystemTypes /\ PlaceTypes /\ RestTypes /\ implied = <<>> /\ rpc = "find"
      /\ CallTypes
  BY DEF R!FindDiscards, R!FindsStart, R!FindSeekFails, Spending, ReaderInv, CallShape
<1>2. \E more \in Nat : R!Opens(k, FALSE, more)
  BY DEF R!FindDiscards, R!FindsStart, R!FindSeekFails
<1>3. Len(pending') <= Len(pending) - 1 /\ readFaults' >= readFaults
  <2>1. PICK more \in Nat : R!Opens(k, FALSE, more) BY <1>2
  <2>2. /\ Len(pending') <= Len(pending) - 1
        /\ readFaults' \in Nat /\ readFaults' >= readFaults + more
    BY <1>1, <2>1, Opened
  <2>3. PICK r \in Nat : r = readFaults BY <1>1 DEF RestTypes
  <2> QED BY <2>2, <2>3
<1>4. \E f \in {0, 1} :
        Cardinality(FailedReads') = Cardinality(FailedReads) + f /\ implied' = <<>>
  <2>1. CASE R!FindDiscards(k)
    <3>1. results' = results /\ implied' = implied
      BY <2>1 DEF R!FindDiscards, R!cursor
    <3> QED BY <1>1, <3>1, Untold
  <2>2. CASE R!FindSeekFails(k)
    <3>1. R!Fails(R!Result("error", 0, <<>>)) BY <2>2 DEF R!FindSeekFails
    <3>2. <<>> \in Seq(Byte) OBVIOUS
    <3> QED BY <3>1, <3>2, FailureIs, Failure
  <2>3. CASE R!FindsStart(k) /\ R!LostAhead(k) > 0
    <3>1. R!LostAhead(k) \in Nat BY <1>1, LostAheadIs
    <3>2. R!Truncated(R!LostAhead(k)) \in Outcome
          /\ R!Truncated(R!LostAhead(k)).kind = "truncated"
      BY <1>1, <3>1, BufferIs, FailureIs DEF R!Truncated
    <3>3. R!Return(R!Truncated(R!LostAhead(k))) BY <2>3 DEF R!FindsStart
    <3>4. results' = Append(results, R!Truncated(R!LostAhead(k))) /\ implied' = <<>>
      BY <3>3 DEF R!Return, R!EndCall
    <3> QED BY <1>1, <3>2, <3>4, FailedAfter
  <2>4. CASE R!FindsStart(k) /\ ~ (R!LostAhead(k) > 0)
    <3>1. results' = results /\ implied' = <<>>
      BY <2>4 DEF R!FindsStart, R!FreshStart
    <3> QED BY <3>1, Untold
  <2> QED BY <2>1, <2>2, <2>3, <2>4
<1>5. PICK p \in Nat, q \in Nat : p = Len(pending) /\ q = Len(pending') BY PendingLens
<1>6. q <= p - 1 BY <1>3, <1>5
<1> QED BY <1>3, <1>4, <1>5, <1>6, FilePaid

LEMMA CrossFollowsPaid ==
  ASSUME Spending, NEW k \in 0 .. Len(pending) - 1, R!CrossFollows(k)
  PROVE  WithinBudget'
<1>1. R!Opens(k, FALSE, 0) /\ R!Reading /\ results' = results
  BY DEF R!CrossFollows, R!Crossing
<1>2. current # R!NoFile /\ session # <<>>
  BY <1>1 DEF Spending, ReaderInv, Anchored
<1>3. /\ Len(pending') <= Len(pending) - 1
      /\ readFaults' \in Nat /\ readFaults' >= readFaults + 0
  BY <1>1, Opened DEF Spending, ReaderInv
<1>4. readFaults' >= readFaults
  <2>1. PICK r \in Nat : r = readFaults BY DEF Spending, ReaderInv, RestTypes
  <2> QED BY <1>3, <2>1
<1>5. PICK p \in Nat, q \in Nat : p = Len(pending) /\ q = Len(pending') BY PendingLens
<1>6. q <= p - 1 BY <1>3, <1>5
<1> QED BY <1>1, <1>2, <1>4, <1>5, <1>6, Untold, FilePaid

LEMMA CrossPaid ==
  ASSUME Spending,
         \/ R!CrossNone \/ R!PieceFails
         \/ \E k \in 0 .. Len(pending) - 1 :
              R!FindSessionEnd(k) \/ R!CrossSessionEnd(k) \/ R!CrossRejects(k)
  PROVE  WithinBudget'
<1>1. /\ SystemTypes /\ PlaceTypes /\ RestTypes /\ CallTypes
      /\ Len(pending) \in Nat /\ readFaults \in Nat
  BY DEF Spending, ReaderInv, PlaceTypes, RestTypes
<1>2. <<>> \in Seq(Byte) /\ R!InBuf \in Seq(Byte) BY <1>1, BufferIs
<1>3. \A lost \in Nat : /\ R!Truncated(lost) \in Outcome
                        /\ R!Truncated(lost).kind = "truncated"
  BY <1>2, FailureIs DEF R!Truncated
<1>4. R!Reading => current # R!NoFile /\ session # <<>> /\ prevSeq # <<>>
  BY DEF Spending, ReaderInv, Anchored
<1>9. PICK p \in Nat, q \in Nat : p = Len(pending) /\ q = Len(pending') BY PendingLens
<1>5. CASE R!CrossNone
  <2>1. /\ R!Fails(R!Truncated(0)) /\ R!NoneLeft /\ R!Reading
        /\ pending' = <<>> /\ current' = R!NoFile
    BY <1>5 DEF R!CrossNone, R!Crossing
  <2>2. q <= p
    <3>1. q = 0 BY <1>9, <2>1
    <3> QED BY <1>9, <3>1
  <2>3. readFaults' >= readFaults BY <1>1, <2>1, PassedOver DEF R!NoneLeft
  <2> QED BY <1>3, <1>4, <1>9, <2>1, <2>2, <2>3, FailurePaid
<1>6. CASE R!PieceFails
  <2>1. /\ R!Fails(R!Result("error", 0, <<>>)) /\ R!Reading
        /\ pending' = pending /\ current' = R!NoFile /\ readFaults' = readFaults + 1
    BY <1>6 DEF R!PieceFails, R!ReadFault
  <2>2. readFaults' >= readFaults /\ q <= p BY <1>1, <1>9, <2>1
  <2>3. /\ R!Result("error", 0, <<>>) \in Outcome
        /\ R!Result("error", 0, <<>>).kind = "error"
    BY <1>2, FailureIs
  <2> QED BY <1>4, <1>9, <2>1, <2>2, <2>3, FailurePaid
<1>7. ASSUME NEW k \in 0 .. Len(pending) - 1, R!FindSessionEnd(k) \/ R!CrossSessionEnd(k)
      PROVE  WithinBudget'
  <2>1. R!EndsSession(k) /\ current' = R!NoFile
    BY <1>7 DEF R!FindSessionEnd, R!CrossSessionEnd
  <2>2. /\ Len(pending') <= Len(pending) /\ session # <<>> /\ readFaults' >= readFaults
    BY <1>1, <2>1, SessionEnded
  <2>3. current # R!NoFile \/ session' = <<>>
    BY <1>4, <1>7 DEF R!FindSessionEnd, R!CrossSessionEnd, R!Crossing, R!ForgetSession
  <2>4. R!Fails(R!Truncated(0)) \/ R!Fails(R!Result("end", 0, <<>>))
    BY <1>7 DEF R!FindSessionEnd, R!CrossSessionEnd
  <2>5. /\ R!Result("end", 0, <<>>) \in Outcome /\ R!Result("end", 0, <<>>).kind = "end"
    BY <1>2, FailureIs
  <2>6. q <= p BY <1>9, <2>2
  <2> QED BY <1>3, <1>9, <2>1, <2>2, <2>3, <2>4, <2>5, <2>6, FailurePaid
<1>8. ASSUME NEW k \in 0 .. Len(pending) - 1, R!CrossRejects(k)
      PROVE  WithinBudget'
  <2> SUFFICES ASSUME NEW f, f = pending[k + 1] PROVE WithinBudget' OBVIOUS
  <2>1. /\ R!Opens(k, TRUE, 0) /\ current' = R!NoFile /\ R!Reading
        /\ R!Fails(R!Truncated(R!LostBetween(f)))
    BY <1>8 DEF R!CrossRejects, R!Crossing
  <2>2. /\ Len(pending') <= Len(pending) /\ disk[f] \in Segment
        /\ readFaults' \in Nat /\ readFaults' >= readFaults + 0
    BY <1>1, <2>1, Opened
  <2>3. R!LostBetween(f) \in Nat BY <1>1, <1>4, <2>1, <2>2, LostBetweenIs
  <2>4. readFaults' >= readFaults BY <1>1, <2>2
  <2>5. q <= p BY <1>9, <2>2
  <2> QED BY <1>3, <1>4, <1>9, <2>1, <2>3, <2>4, <2>5, FailurePaid
<1> QED BY <1>5, <1>6, <1>7, <1>8
\* A header whose length is not what a crossing implied hands its file back.
LEMMA HandBackAfforded ==
  \A p \in Nat, s \in 0 .. 1, f \in 0 .. 1, e \in 0 .. 1, r \in Nat :
    3 * (p + 1) + 0 + s + 3 * 0 + f <= 3 * p + 1 + s + 3 * 1 + (r - r) + e
OBVIOUS

LEMMA HandBackPaid ==
  ASSUME Spending, current # R!NoFile, implied # <<>>,
         pending' = <<current.file>> \o pending, current' = R!NoFile,
         session' = session, readFaults' = readFaults, R!Fails(R!Truncated(0))
  PROVE  WithinBudget'
<1>1. R!InBuf \in Seq(Byte) BY BufferIs DEF Spending, ReaderInv
<1>2. R!Truncated(0) \in Outcome /\ R!Truncated(0).kind = "truncated"
  BY <1>1, FailureIs DEF R!Truncated
<1>3. PICK f \in 0 .. 1 :
        Cardinality(FailedReads') = Cardinality(FailedReads) + f /\ implied' = <<>>
  <2>1. \A f \in {0, 1} : f \in 0 .. 1 OBVIOUS
  <2> QED BY <1>2, <2>1, Failure
<1>4. OpenFile = 1 /\ RunsOn = 1 /\ OpenFile' = 0 /\ RunsOn' = 0
  BY <1>3 DEF OpenFile, RunsOn
<1>5. Len(pending') = 1 + Len(pending) BY HandedBack DEF Spending
<1>6. PICK p \in Nat : p = Len(pending) BY PendingLens
<1>7. p + 1 \in Nat /\ p + 1 = Len(pending') BY <1>5, <1>6
<1>8. PICK s \in 0 .. 1, e \in 0 .. 1 :
        s = WithSession /\ s = WithSession' /\ e = AtEnd'
  BY DEF WithSession, AtEnd
<1>9. PICK r \in Nat : r = readFaults /\ r = readFaults'
  BY DEF Spending, ReaderInv, RestTypes
<1>10. readFaults' >= readFaults BY <1>9
<1>11. 3 * (p + 1) + 0 + s + 3 * 0 + f <= 3 * p + 1 + s + 3 * 1 + (r - r) + e
  BY <1>3, <1>6, <1>8, <1>9, HandBackAfforded, Zenon
<1>12. f \in {0, 1} BY <1>3
<1> QED BY <1>3, <1>4, <1>6, <1>7, <1>8, <1>9, <1>10, <1>11, <1>12, Paid

LEMMA ReadPaid ==
  ASSUME Spending, NEW n \in Nat, R!Read(n)
  PROVE  WithinBudget'
<1>1. /\ pending' = pending /\ session' = session /\ current' = current
      /\ results' = results /\ readFaults' = readFaults
  BY DEF R!Read, R!place
<1>2. implied' \in {implied, <<>>} BY DEF R!Read, R!cursor, R!FreshStart
<1> QED BY <1>1, <1>2, Untold, FreeOfCharge

LEMMA PiecePaid ==
  ASSUME Spending, R!ReadPiece
  PROVE  WithinBudget'
<1>1. current # R!NoFile BY PieceIs DEF Spending
<1>2. /\ pending' = pending /\ session' = session /\ implied' = implied
      /\ results' = results /\ readFaults' = readFaults
  BY DEF R!ReadPiece
<1> QED BY <1>1, <1>2, Untold, FreeOfCharge

LEMMA RecordPaid ==
  ASSUME Spending, NEW kind \in {"record", "overflow"}, R!Return(R!Result(kind, 0, got)),
         UNCHANGED <<pending, session, current, readFaults>>
  PROVE  WithinBudget'
<1>1. R!Result(kind, 0, got) \in Outcome /\ R!Result(kind, 0, got).kind = kind
  <2>1. R!Result(kind, 0, got) \in Outcome
    BY ResultIs DEF Spending, ReaderInv, RestTypes, CallTypes
  <2> QED BY <2>1 DEF R!Result
<1>2. results' = Append(results, R!Result(kind, 0, got)) /\ implied' = <<>>
  BY DEF R!Return, R!EndCall
<1>3. Cardinality(FailedReads') = Cardinality(FailedReads) + 0
  BY <1>1, <1>2, FailedAfter DEF Spending, ReaderInv
<1> QED BY <1>2, <1>3, FreeOfCharge

LEMMA DonePaid ==
  ASSUME Spending, R!HeaderDone \/ R!PayloadDone \/ R!SkipDone
  PROVE  WithinBudget'
<1>1. CASE R!HeaderDone
  <2>1. current # R!NoFile
    BY <1>1 DEF R!HeaderDone, Spending, ReaderInv, Anchored, R!Reading
  <2>2. readFaults' = readFaults BY <1>1 DEF R!HeaderDone
  <2>3. CASE UNCHANGED <<implied, R!place, results>>
    <3>1. UNCHANGED <<implied, pending, session, current, results>>
      BY <2>3 DEF R!place
    <3> QED BY <2>2, <3>1, Untold, FreeOfCharge
  <2>4. CASE /\ implied # <<>> /\ pending' = <<current.file>> \o pending
             /\ current' = R!NoFile /\ session' = session /\ R!Fails(R!Truncated(0))
    BY <2>1, <2>2, <2>4, HandBackPaid
  <2> QED BY <1>1, <2>3, <2>4 DEF R!HeaderDone
<1>2. CASE R!PayloadDone
  <2>1. UNCHANGED <<pending, session, current, readFaults>>
    BY <1>2 DEF R!PayloadDone, R!place
  <2>2. CASE UNCHANGED <<implied, results>> BY <2>1, <2>2, Untold, FreeOfCharge
  <2>3. CASE R!Return(R!Result("record", 0, got)) BY <2>1, <2>3, RecordPaid
  <2> QED BY <1>2, <2>2, <2>3 DEF R!PayloadDone, R!cursor
<1>3. CASE R!SkipDone
  <2>1. UNCHANGED <<pending, session, current, readFaults>>
    BY <1>3 DEF R!SkipDone, R!place
  <2> QED BY <1>3, <2>1, RecordPaid DEF R!SkipDone
<1> QED BY <1>1, <1>2, <1>3

LEMMA ReaderPays ==
  ASSUME SystemTypes, ReaderInv, WithinBudget, R!Next
  PROVE  WithinBudget'
<1>1. ReaderInv' /\ disk' = disk BY ReaderStep
<1>2. CASE R!Call
  <2>1. Spending BY <1>1, <1>2 DEF R!Call, Spending
  <2>2. \A n \in BufLens : n \in Nat BY SystemAssumption
  <2> QED BY <1>2, <2>1, <2>2, EndPaid, ReadPaid DEF R!Call
<1>3. CASE R!Step
  <2>1. rpc # "idle"
    BY <1>3 DEF R!Step, R!FindNone, R!CrossNone, R!FindSessionEnd, R!FindDiscards,
                R!FindsStart, R!FindSeekFails, R!CrossSessionEnd, R!CrossFollows,
                R!CrossRejects, R!ReadPiece, R!PieceFails, R!HeaderDone, R!PayloadDone,
                R!SkipDone, R!Crossing, R!Reading
  <2>2. Spending BY <1>1, <2>1 DEF Spending, ReaderInv, Anchored
  <2> QED BY <1>3, <2>2, EndPaid, FindPaid, CrossFollowsPaid, CrossPaid, PiecePaid,
             DonePaid
          DEF R!Step
<1> QED BY <1>2, <1>3 DEF R!Next

-----------------------------------------------------------------------------
\* The writer takes nothing from the budget, and before there is a reader there is
\* none to take from.
LEMMA NothingSpent ==
  ASSUME SystemInv, phase \in {"writing", "damaging"}, UNCHANGED readervars,
         disk' \in Seq(Segment)
  PROVE  WithinBudget'
<1>1. /\ pending = <<>> /\ current = R!NoFile /\ session = <<>> /\ results = <<>>
      /\ implied = <<>>
  BY DEF SystemInv, Unborn, ReaderInv, CallShape
<1>2. FailedReads' = {} BY <1>1 DEF readervars, FailedReads
<1>3. Cardinality(FailedReads') = 0 BY <1>2, FS_EmptySet
<1>4. Budget' = 3 * 0 + 0 + 0 + 3 * 0 /\ AtEnd' = 0
  BY <1>1 DEF readervars, Budget, OpenFile, WithSession, RunsOn, AtEnd, R!AtEof
<1>5. PICK d \in Nat, r \in Nat : d = Len(disk') /\ r = readFaults'
  BY DEF readervars, SystemInv, ReaderInv, RestTypes
<1>6. 0 + (3 * 0 + 0 + 0 + 3 * 0) <= 3 * d + r + 0 BY <1>5
<1> QED BY <1>3, <1>4, <1>5, <1>6 DEF WithinBudget

\* A new reader has a budget of three reads for each file.
LEMMA BudgetGiven ==
  ASSUME SystemInv, phase \in {"writing", "damaging"},
         NEW listing \in Seq(Segment), NEW lengths \in Seq(Nat), R!New(listing, lengths)
  PROVE  WithinBudget'
<1>1. /\ current = R!NoFile /\ session = <<>> /\ results = <<>> /\ headers = <<>>
      /\ rpc = "idle" /\ implied = <<>>
  BY DEF SystemInv, Unborn, ReaderInv, CallShape
<1>2. /\ Len(pending') = Len(disk') /\ disk' \in Seq(Segment)
      /\ current' = R!NoFile /\ session' = <<>> /\ results' = <<>> /\ implied' = <<>>
      /\ readFaults' = readFaults
  <2>1. Len(pending') = Len(disk') /\ disk' \in Seq(Segment) BY <1>1, NewReader DEF SystemInv
  <2> QED BY <1>1, <2>1 DEF R!New, R!cursor
<1>3. FailedReads' = {} BY <1>2 DEF FailedReads
<1>4. Cardinality(FailedReads') = 0 BY <1>3, FS_EmptySet
<1>5. PICK d \in Nat, r \in Nat : d = Len(disk') /\ d = Len(pending') /\ r = readFaults'
  BY <1>2 DEF SystemInv, ReaderInv, RestTypes
<1>6. Budget' = 3 * d + 0 + 0 + 3 * 0 /\ AtEnd' = 0
  BY <1>2, <1>5 DEF Budget, OpenFile, WithSession, RunsOn, AtEnd, R!AtEof
<1>7. 0 + (3 * d + 0 + 0 + 3 * 0) <= 3 * d + r + 0 BY <1>5
<1> QED BY <1>4, <1>5, <1>6, <1>7 DEF WithinBudget

\* No step of a reader that is open, and none of its writer's, is without its budget.
LEMMA NothingMoves ==
  ASSUME WithinBudget, UNCHANGED readervars, Len(disk') = Len(disk)
  PROVE  WithinBudget'
BY DEF WithinBudget, Budget, FailedReads, OpenFile, WithSession, RunsOn, AtEnd, R!AtEof,
       readervars

LEMMA BudgetStep ==
  SystemInv /\ WithinBudget /\ [SystemNext]_sysvars => WithinBudget'
<1> SUFFICES ASSUME SystemInv, WithinBudget, [SystemNext]_sysvars PROVE WithinBudget'
  OBVIOUS
<1>1. SystemInv' BY SystemStep
<1>2. disk' \in Seq(Segment) BY <1>1 DEF SystemInv, SystemTypes
<1>3. CASE UNCHANGED sysvars
  BY <1>3, NothingMoves DEF sysvars, rdvars
<1>4. CASE Write
  <2>1. UNCHANGED readervars BY <1>4 DEF Write
  <2>2. Len(disk') = Len(disk)
    <3>1. CASE phase = "live"
      <4>1. disk' = Refreshed BY <1>4, <3>1 DEF Write
      <4>2. Len(disk) \in Nat BY DEF SystemInv, SystemTypes
      <4> QED BY <4>1, <4>2 DEF Refreshed
    <3>2. CASE phase # "live" BY <1>4, <3>2 DEF Write
    <3> QED BY <3>1, <3>2
  <2> QED BY <2>1, <2>2, NothingMoves
<1>5. CASE StopWriting
  <2>1. UNCHANGED readervars BY <1>5 DEF StopWriting
  <2>2. CASE phase = "live"
    <3>1. Len(disk') = Len(disk) BY <1>5, <2>2 DEF StopWriting
    <3> QED BY <2>1, <3>1, NothingMoves
  <2>3. CASE phase = "writing" BY <1>2, <2>1, <2>3, NothingSpent
  <2> QED BY <1>5, <2>2, <2>3 DEF StopWriting
<1>6. CASE OpenBesideWriter
  <2>1. phase = "writing" BY <1>6 DEF OpenBesideWriter
  <2>2. \E listing, lengths : R!New(listing, lengths) BY <1>6 DEF OpenBesideWriter
  <2>3. PICK listing, lengths : R!New(listing, lengths) BY <2>2
  <2>4. disk' = listing /\ lens' = lengths BY <2>3 DEF R!New
  <2>5. lens' \in Seq(Nat) BY <1>1 DEF SystemInv, SystemTypes
  <2>6. listing \in Seq(Segment) /\ lengths \in Seq(Nat) BY <1>2, <2>4, <2>5
  <2> QED BY <2>1, <2>3, <2>6, BudgetGiven
<1>7. CASE \E i \in 1 .. Len(disk) : Damage(i) \/ Corrupt(i)
  <2>1. phase = "damaging" /\ UNCHANGED readervars BY <1>7 DEF Damage, Corrupt
  <2> QED BY <1>2, <2>1, NothingSpent
<1>8. CASE OpenReader
  <2>1. phase = "damaging" /\ R!New(disk, lens) BY <1>8 DEF OpenReader
  <2>2. disk \in Seq(Segment) /\ lens \in Seq(Nat) BY DEF SystemInv, SystemTypes
  <2> QED BY <2>1, <2>2, BudgetGiven
<1>9. CASE ReadOn
  <2>1. R!Next BY <1>9 DEF ReadOn
  <2> QED BY <2>1, ReaderPays DEF SystemInv
<1> QED BY <1>3, <1>4, <1>5, <1>6, <1>7, <1>8, <1>9 DEF SystemNext

LEMMA BudgetInit == SystemInit => WithinBudget
<1> SUFFICES ASSUME SystemInit PROVE WithinBudget OBVIOUS
<1>1. /\ disk = <<>> /\ pending = <<>> /\ current = R!NoFile /\ session = <<>>
      /\ results = <<>> /\ implied = <<>> /\ readFaults = 0
  BY DEF SystemInit, R!Init
<1>2. FailedReads = {} BY <1>1 DEF FailedReads
<1>3. Cardinality(FailedReads) = 0 BY <1>2, FS_EmptySet
<1>4. Budget = 0 /\ AtEnd = 0
  BY <1>1 DEF Budget, OpenFile, WithSession, RunsOn, AtEnd, R!AtEof
<1> QED BY <1>1, <1>3, <1>4 DEF WithinBudget

\* Each read that fails is paid for: by a file no longer to be opened, by the file
\* that was open, by the session that was read, by a header that ran on into a file
\* which is then handed back, or by a failure of the file system.
THEOREM ReadsPaid == SystemSpec => []WithinBudget
BY SystemInitEstablishes, SystemStep, BudgetInit, BudgetStep, PTL DEF SystemSpec

\* However the files of a log are damaged or corrupted, and whatever reading them
\* fails, a caller of read() is told of no more faults than three for each file, the
\* failures of reading itself, and the end: no read fails for ever without advancing.
THEOREM ReadsFew == SystemSpec => []ReadsBounded
<1>1. SystemInv /\ WithinBudget => ReadsBounded
  <2> SUFFICES ASSUME SystemInv, WithinBudget PROVE ReadsBounded OBVIOUS
  <2>1. PICK c \in Nat : c = Cardinality(FailedReads)
    BY FailedFinite DEF SystemInv, ReaderInv
  <2>2. PICK d \in Nat : d = Len(disk) BY DEF SystemInv, SystemTypes
  <2>3. PICK r \in Nat : r = readFaults BY DEF SystemInv, ReaderInv, RestTypes
  <2>4. PICK p \in Nat : p = Len(pending) BY DEF SystemInv, ReaderInv, PlaceTypes
  <2>5. PICK o \in Nat : o = OpenFile BY DEF OpenFile
  <2>6. PICK s \in Nat : s = WithSession BY DEF WithSession
  <2>7. PICK i \in Nat : i = RunsOn BY DEF RunsOn
  <2>8. PICK e \in 0 .. 1 : e = AtEnd BY DEF AtEnd
  <2>9. c + (3 * p + o + s + 3 * i) <= 3 * d + r + e
    BY <2>1, <2>2, <2>3, <2>4, <2>5, <2>6, <2>7, <2>8 DEF WithinBudget, Budget
  <2>10. c <= 3 * d + r + 1 BY <2>9
  <2> QED BY <2>1, <2>2, <2>3, <2>10 DEF ReadsBounded, FailedReads
<1> QED BY <1>1, SystemTyped, ReadsPaid, PTL
=============================================================================
