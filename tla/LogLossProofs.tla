---------------------------- MODULE LogLossProofs ----------------------------
(***************************************************************************)
(* No loss is overstated: the files that a reader has told lost are        *)
(* missing or unopenable, each of them, or one that it failed to open      *)
(* itself.                                                                 *)
(***************************************************************************)
EXTENDS LogToldProofs

-----------------------------------------------------------------------------
(* The sum of the losses told.                                             *)

\* The sums over the results up to each, as the function in LostTold has them.
SumsOf(q) ==
  LET sum[i \in 0 .. Len(q)] == IF i = 0 THEN 0 ELSE sum[i - 1] + q[i].lost
  IN sum

LEMMA SumsAre ==
  ASSUME NEW q \in Seq(Outcome), NEW Y, Y = SumsOf(q)
  PROVE  /\ Y[0] = 0 /\ \A i \in 1 .. Len(q) : Y[i] = Y[i - 1] + q[i].lost
         /\ \A i \in 0 .. Len(q) : Y[i] \in Nat
<1> DEFINE last == Len(q)
           Rest(g, i) == g[i - 1] + q[i].lost
           F(g) == [i \in 0 .. last |-> IF i = 0 THEN 0 ELSE Rest(g, i)]
           Upto(n, g) == g = [i \in 0 .. n |-> IF i = 0 THEN 0 ELSE Rest(g, i)]
<1>1. last \in Nat OBVIOUS
<1>2. \A i \in 1 .. last : q[i].lost \in Nat
  <2>1. \A i \in 1 .. last : q[i] \in Outcome OBVIOUS
  <2> QED BY <2>1 DEF Outcome
<1> HIDE DEF last
<1>3. \E g : Upto(last, g)
  <2> DEFINE S == {n \in Nat : \E g : Upto(n, g)}
  <2>1. ASSUME NEW n \in Nat, \A m \in Nat : m < n => m \in S PROVE n \in S
    <3>1. CASE n = 0
      <4>1. PICK g : g = [i \in 0 .. n |-> 0] OBVIOUS
      <4>2. \A i \in 0 .. n : i = 0 BY <3>1
      <4>3. g = [i \in 0 .. n |-> IF i = 0 THEN 0 ELSE Rest(g, i)]
        <5> HIDE DEF Rest
        <5> QED BY <4>1, <4>2
      <4> QED BY <4>3
    <3>2. CASE n # 0
      <4>1. PICK m \in Nat : n = m + 1 BY <3>2
      <4>2. PICK g : Upto(m, g)
        <5>1. m < n BY <4>1
        <5>2. m \in S
          <6> HIDE DEF S
          <6> QED BY <2>1, <5>1
        <5> HIDE DEF Upto
        <5> QED BY <5>2
      <4>3. PICK h : h = [i \in 0 .. n |-> IF i = n THEN Rest(g, i) ELSE g[i]] OBVIOUS
      <4>4. \A i \in 0 .. m : g[i] = IF i = 0 THEN 0 ELSE Rest(g, i) BY <4>2
      <4>5. \A i \in 0 .. m : h[i] = g[i] BY <4>1, <4>3
      <4>6. ASSUME NEW i \in 0 .. n, i # 0 PROVE Rest(h, i) = Rest(g, i)
        <5>1. i - 1 \in 0 .. m BY <4>1, <4>6
        <5>2. h[i - 1] = g[i - 1] BY <4>5, <5>1
        <5> QED BY <5>2
      <4> HIDE DEF Rest
      <4>7. ASSUME NEW i \in 0 .. n PROVE h[i] = IF i = 0 THEN 0 ELSE Rest(h, i)
        <5>1. CASE i = n BY <3>2, <4>3, <4>6, <5>1
        <5>2. CASE i # n
          <6>1. i \in 0 .. m BY <4>1, <5>2
          <6> QED BY <4>4, <4>5, <4>6, <6>1
        <5> QED BY <5>1, <5>2
      <4>8. Upto(n, h)
        <5>1. h = [i \in 0 .. n |-> h[i]] BY <4>3
        <5> QED BY <4>7, <5>1
      <4> QED BY <4>8
    <3> QED BY <3>1, <3>2
  <2>2. \A n \in Nat : n \in S
    <3> HIDE DEF S
    <3> QED BY <2>1, NatSetInduction
  <2> QED BY <1>1, <2>2
<1>4. Y = F(Y)
  <2>1. \E g : g = F(g) BY <1>3
  <2>2. Y = CHOOSE g : g = F(g) BY DEF last, SumsOf
  <2> HIDE DEF F
  <2> QED BY <2>1, <2>2
<1>5. \A i \in 0 .. last : Y[i] = IF i = 0 THEN 0 ELSE Rest(Y, i)
  <2> HIDE DEF Rest
  <2> QED BY <1>4
<1>6. Y[0] = 0 BY <1>1, <1>5
<1>7. \A i \in 1 .. last : Y[i] = Y[i - 1] + q[i].lost
  <2> SUFFICES ASSUME NEW i \in 1 .. last PROVE Y[i] = Rest(Y, i) OBVIOUS
  <2> HIDE DEF Rest
  <2>1. i \in 0 .. last /\ i # 0 BY <1>1
  <2> QED BY <1>5, <2>1
<1> HIDE DEF F, Rest, Upto
<1>8. \A n \in Nat : n <= last => Y[n] \in Nat
  <2> DEFINE S == {n \in Nat : n <= last => Y[n] \in Nat}
  <2>1. ASSUME NEW n \in Nat, \A m \in Nat : m < n => m \in S PROVE n \in S
    <3> SUFFICES ASSUME n <= last PROVE Y[n] \in Nat OBVIOUS
    <3>1. CASE n = 0 BY <1>6, <3>1
    <3>2. CASE n # 0
      <4>1. PICK m \in Nat : m = n - 1 /\ m < n /\ m <= last BY <1>1, <3>2
      <4>2. Y[m] \in Nat BY <2>1, <4>1
      <4>3. n \in 1 .. last BY <1>1, <3>2
      <4>4. Y[n] = Y[m] + q[n].lost BY <1>7, <4>1, <4>3
      <4> QED BY <1>2, <4>2, <4>3, <4>4
    <3> QED BY <3>1, <3>2
  <2>2. \A n \in Nat : n \in S
    <3> HIDE DEF S
    <3> QED BY <2>1, NatSetInduction
  <2> QED BY <2>2
<1> QED BY <1>1, <1>6, <1>7, <1>8 DEF last

LEMMA LostTotal ==
  ASSUME results \in Seq(Outcome)
  PROVE  LostTold \in Nat
<1>1. PICK Y : Y = SumsOf(results) OBVIOUS
<1>2. LostTold = Y[Len(results)] BY <1>1 DEF LostTold, SumsOf
<1>3. \A i \in 0 .. Len(results) : Y[i] \in Nat BY <1>1, SumsAre
<1> QED BY <1>2, <1>3

LEMMA LostSame ==
  ASSUME results' = results
  PROVE  LostTold' = LostTold
BY DEF LostTold

\* One more result adds its own.
LEMMA LostMore ==
  ASSUME results \in Seq(Outcome), NEW x \in Outcome, results' = Append(results, x)
  PROVE  LostTold' = LostTold + x.lost /\ LostTold' \in Nat /\ x.lost \in Nat
<1>1. PICK Y : Y = SumsOf(results) OBVIOUS
<1>2. LostTold = Y[Len(results)] BY <1>1 DEF LostTold, SumsOf
<1>3. PICK r : r = results' OBVIOUS
<1>4. PICK Z : Z = SumsOf(r) OBVIOUS
<1>5. LostTold' = Z[Len(r)] BY <1>3, <1>4 DEF LostTold, SumsOf
<1>6. PICK n : n = Len(results) OBVIOUS
<1>7. /\ n \in Nat /\ r \in Seq(Outcome) /\ Len(r) = n + 1 /\ r[n + 1] = x
      /\ \A i \in 1 .. n : r[i] = results[i]
  BY <1>3, <1>6
<1>8. /\ Y[0] = 0 /\ \A i \in 1 .. n : Y[i] = Y[i - 1] + results[i].lost
      /\ \A i \in 0 .. n : Y[i] \in Nat
  BY <1>1, <1>6, SumsAre
<1>9. /\ Z[0] = 0 /\ \A i \in 1 .. n + 1 : Z[i] = Z[i - 1] + r[i].lost
      /\ \A i \in 0 .. n + 1 : Z[i] \in Nat
  <2>1. r \in Seq(Outcome) BY <1>7
  <2>2. /\ Z[0] = 0 /\ \A i \in 1 .. Len(r) : Z[i] = Z[i - 1] + r[i].lost
        /\ \A i \in 0 .. Len(r) : Z[i] \in Nat
    BY <1>4, <2>1, SumsAre
  <2> QED BY <1>7, <2>2
<1>10. \A m \in Nat : m <= n => Z[m] = Y[m]
  <2> DEFINE S == {m \in Nat : m <= n => Z[m] = Y[m]}
  <2>1. ASSUME NEW m \in Nat, \A l \in Nat : l < m => l \in S PROVE m \in S
    <3> SUFFICES ASSUME m <= n PROVE Z[m] = Y[m] OBVIOUS
    <3>1. CASE m = 0 BY <1>8, <1>9, <3>1
    <3>2. CASE m # 0
      <4>1. PICK l \in Nat : l = m - 1 /\ l < m /\ l <= n BY <1>7, <3>2
      <4>2. Z[l] = Y[l] BY <2>1, <4>1
      <4>3. m \in 1 .. n /\ m \in 1 .. n + 1 BY <1>7, <3>2
      <4>4. r[m] = results[m] BY <1>7, <4>3
      <4>5. Y[m] = Y[l] + results[m].lost BY <1>8, <4>1, <4>3
      <4>6. Z[m] = Z[l] + r[m].lost BY <1>9, <4>1, <4>3
      <4> QED BY <4>2, <4>4, <4>5, <4>6
    <3> QED BY <3>1, <3>2
  <2>2. \A m \in Nat : m \in S
    <3> HIDE DEF S
    <3> QED BY <2>1, NatSetInduction
  <2> QED BY <2>2
<1>11. Z[n + 1] = Y[n] + x.lost
  <2>1. n + 1 \in 1 .. n + 1 /\ (n + 1) - 1 = n BY <1>7
  <2>2. Z[n + 1] = Z[n] + r[n + 1].lost BY <1>9, <2>1
  <2>3. Z[n] = Y[n] BY <1>7, <1>10
  <2> QED BY <1>7, <2>2, <2>3
<1>12. Z[n + 1] \in Nat
  <2>1. n + 1 \in 0 .. n + 1 BY <1>7
  <2> QED BY <1>9, <2>1
<1>13. x.lost \in Nat BY DEF Outcome
<1> QED BY <1>2, <1>5, <1>6, <1>7, <1>11, <1>12, <1>13

-----------------------------------------------------------------------------
(* What pays for a loss.                                                   *)

LEMMA CountOf ==
  ASSUME NEW n \in Nat, NEW S, S \subseteq 1 .. n
  PROVE  IsFiniteSet(S) /\ Cardinality(S) \in Nat
<1>1. IsFiniteSet(1 .. n) BY FS_Interval
<1>2. IsFiniteSet(S) BY <1>1, FS_Subset
<1> QED BY <1>2, FS_CardinalityType

\* One for each: no more than there are.
LEMMA OneForEach ==
  ASSUME NEW S, NEW T, IsFiniteSet(T), NEW g, \A x \in S : g[x] \in T,
         \A x, y \in S : g[x] = g[y] => x = y
  PROVE  /\ IsFiniteSet(S) /\ Cardinality(S) <= Cardinality(T)
         /\ Cardinality(S) \in Nat /\ Cardinality(T) \in Nat
<1> DEFINE h == [x \in S |-> g[x]]
<1>1. h \in Injection(S, T) BY DEF Injection, IsInjective
<1>2. IsFiniteSet(S) /\ Cardinality(S) <= Cardinality(T)
  <2> HIDE DEF h
  <2> QED BY <1>1, FS_Injection
<1> QED BY <1>2, FS_CardinalityType

\* Those of L are counted: each that is not in W by one of U or of T.
LEMMA EachPaid ==
  ASSUME NEW L, IsFiniteSet(L), NEW V, NEW W, IsFiniteSet(W), V \subseteq W, L \cap V = {},
         NEW U, IsFiniteSet(U), NEW T, IsFiniteSet(T),
         NEW g, \A i \in L \ W : g[i] \in U \cup T,
         \A i, j \in L \ W : g[i] = g[j] => i = j
  PROVE  Cardinality(L) + Cardinality(V) <= Cardinality(U) + Cardinality(T) + Cardinality(W)
<1>1. /\ IsFiniteSet(V) /\ Cardinality(V) \in Nat /\ Cardinality(L) \in Nat
      /\ Cardinality(U) \in Nat /\ Cardinality(T) \in Nat /\ Cardinality(W) \in Nat
  <2>1. IsFiniteSet(V) BY FS_Subset
  <2> QED BY <2>1, FS_CardinalityType
<1>2. IsFiniteSet(U \cup T) /\ Cardinality(U \cup T) <= Cardinality(U) + Cardinality(T)
  <2>1. /\ IsFiniteSet(U \cup T)
        /\ Cardinality(U \cup T) = Cardinality(U) + Cardinality(T) - Cardinality(U \cap T)
    BY FS_Union
  <2>2. IsFiniteSet(U \cap T)
    <3>1. U \cap T \in SUBSET U OBVIOUS
    <3> QED BY <3>1, FS_Subset
  <2>3. Cardinality(U \cap T) \in Nat BY <2>2, FS_CardinalityType
  <2> QED BY <1>1, <2>1, <2>3
<1>3. Cardinality(L \ W) <= Cardinality(U \cup T) /\ Cardinality(L \ W) \in Nat
      /\ Cardinality(U \cup T) \in Nat
  BY <1>2, OneForEach
<1>4. Cardinality(L \ W) = Cardinality(L) - Cardinality(L \cap W) BY FS_Difference
<1>5. IsFiniteSet(L \cap W) /\ Cardinality(L \cap W) \in Nat
  <2>1. L \cap W \in SUBSET W OBVIOUS
  <2>2. IsFiniteSet(L \cap W) BY <2>1, FS_Subset
  <2> QED BY <2>2, FS_CardinalityType
<1>6. Cardinality(L \cap W) + Cardinality(V) <= Cardinality(W)
  <2>1. Cardinality((L \cap W) \cup V) =
          Cardinality(L \cap W) + Cardinality(V) - Cardinality((L \cap W) \cap V)
    BY <1>1, <1>5, FS_Union
  <2>2. (L \cap W) \cap V = {} OBVIOUS
  <2>3. Cardinality((L \cap W) \cap V) = 0 BY <2>2, FS_EmptySet
  <2>4. (L \cap W) \cup V \in SUBSET W OBVIOUS
  <2>5. Cardinality((L \cap W) \cup V) <= Cardinality(W) BY <2>4, FS_Subset
  <2> QED BY <1>1, <1>5, <2>1, <2>3, <2>5
<1>7. PICK l, v, u, t, w, a, b, c :
        /\ l = Cardinality(L) /\ v = Cardinality(V) /\ u = Cardinality(U)
        /\ t = Cardinality(T) /\ w = Cardinality(W) /\ a = Cardinality(L \ W)
        /\ b = Cardinality(L \cap W) /\ c = Cardinality(U \cup T)
  OBVIOUS
<1>8. /\ {l, v, u, t, w, a, b, c} \subseteq Nat
      /\ c <= u + t /\ a <= c /\ a = l - b /\ b + v <= w
  BY <1>1, <1>2, <1>3, <1>4, <1>5, <1>6, <1>7
<1>9. l + v <= u + t + w BY <1>8
<1> QED BY <1>7, <1>9

\* Of the first k files pending, those that should have opened.
Failing(k) == {f \in 1 .. Len(disk) : disk[f].whole /\ Reached < f /\ f <= Reached + k}

LEMMA FailuresPaid ==
  ASSUME SystemInv, PendingLast, NEW k \in 0 .. Len(pending), NEW more \in Nat,
         R!PassOver(k, more)
  PROVE  /\ IsFiniteSet(Failing(k)) /\ Cardinality(Failing(k)) \in Nat
         /\ readFaults \in Nat /\ readFaults' \in Nat
         /\ readFaults + Cardinality(Failing(k)) <= readFaults'
<1>1. PICK S : S = {i \in 1 .. k : R!Valid(pending[i])} OBVIOUS
<1>2. readFaults' = readFaults + Cardinality(S) + more
  BY <1>1, SameCardinality DEF R!PassOver
<1>3. readFaults \in Nat /\ k \in Nat /\ Len(pending) \in Nat /\ Len(disk) \in Nat
  BY DEF SystemInv, SystemTypes, ReaderInv, PlaceTypes, RestTypes
<1>4. Reached \in Int BY <1>3 DEF Reached
<1>5. PICK F : F = Failing(k) OBVIOUS
<1>6. PICK g : g = [f \in 1 .. Len(disk) |-> f - Reached] OBVIOUS
<1>7. ASSUME NEW f \in F PROVE f \in 1 .. Len(disk) /\ g[f] = f - Reached /\ g[f] \in S
  <2>1. f \in 1 .. Len(disk) /\ disk[f].whole /\ Reached < f /\ f <= Reached + k
    BY <1>5 DEF Failing
  <2>2. PICK q : q = f - Reached OBVIOUS
  <2>3. q \in 1 .. k /\ q \in 1 .. Len(pending) /\ Reached + q = f BY <1>3, <1>4, <2>1, <2>2
  <2>4. pending[q] = f BY <2>3 DEF PendingLast
  <2> QED BY <1>1, <1>6, <2>1, <2>2, <2>3, <2>4 DEF R!Valid
<1>8. \A f \in F : g[f] \in S BY <1>7
<1>9. \A f, h \in F : g[f] = g[h] => f = h
  <2> SUFFICES ASSUME NEW f \in F, NEW h \in F, g[f] = g[h] PROVE f = h OBVIOUS
  <2>1. f - Reached = h - Reached /\ f \in Int /\ h \in Int BY <1>7
  <2> QED BY <1>4, <2>1
<1>10. IsFiniteSet(S) /\ Cardinality(S) \in Nat
  <2>1. S \subseteq 1 .. k BY <1>1
  <2> QED BY <1>3, <2>1, CountOf
<1>11. IsFiniteSet(F) /\ Cardinality(F) <= Cardinality(S) /\ Cardinality(F) \in Nat
  BY <1>8, <1>9, <1>10, OneForEach
<1> QED BY <1>2, <1>3, <1>5, <1>10, <1>11

-----------------------------------------------------------------------------
(* The files before one, by its sequence number.                           *)

\* Back to the first of its session, the files before file j are one sequence number
\* apart.
LEMMA BackInSession ==
  ASSUME Known, SequencesLeft, NEW j \in 1 .. Len(Segments),
         NEW m \in Nat, m <= Segments[j].seq
  PROVE  /\ j - m \in 1 .. Len(Segments)
         /\ Segments[j - m].seq = Segments[j].seq - m
         /\ Segments[j - m].session = Segments[j].session
<1>1. PICK s, c : s = Segments[j].seq /\ c = Segments[j].session OBVIOUS
<1>2. j \in Nat /\ s \in Nat /\ Len(Segments) \in Nat BY <1>1, SegmentIs
<1> DEFINE Is(i, t) == i \in 1 .. Len(Segments) /\ Segments[i].seq = t /\ Segments[i].session = c
           S == {n \in Nat : n <= s => Is(j - n, s - n)}
<1>3. ASSUME NEW n \in Nat, \A l \in Nat : l < n => l \in S PROVE n \in S
  <2> SUFFICES ASSUME n <= s PROVE Is(j - n, s - n) OBVIOUS
  <2>1. CASE n = 0
    <3>1. j - n = j /\ s - n = s BY <1>2, <2>1
    <3> QED BY <1>1, <3>1
  <2>2. CASE n # 0
    <3>1. PICK l \in Nat : l = n - 1 /\ l < n /\ l <= s BY <1>2, <2>2
    <3>2. PICK i, t : i = j - l /\ t = s - l OBVIOUS
    <3>3. Is(i, t)
      <4> HIDE DEF Is
      <4>1. Is(j - l, s - l) BY <1>3, <3>1
      <4> QED BY <3>2, <4>1
    <3>4. i \in Nat /\ t \in Nat /\ t # 0 /\ j - n = i - 1 /\ s - n = t - 1
      <4>1. i \in 1 .. Len(Segments) BY <3>3
      <4> QED BY <1>2, <3>1, <3>2, <4>1
    <3>5. /\ i > 1 /\ Segments[i - 1].session = c
          /\ t = SeqNext(Segments[i - 1].seq)
      <4>1. Segments[i].seq # 0 BY <3>3, <3>4
      <4>2. /\ i > 1 /\ Segments[i - 1].session = Segments[i].session
            /\ Segments[i].seq = SeqNext(Segments[i - 1].seq)
        BY <3>3, <4>1 DEF Known, Truth, SegmentsFollow
      <4> QED BY <3>3, <4>2
    <3>6. i - 1 \in 1 .. Len(Segments) BY <1>2, <3>3, <3>4, <3>5
    <3>7. Segments[i - 1].seq \in Nat /\ Segments[i - 1].seq < SeqMax
      BY <3>6, SegmentIs DEF SequencesLeft
    <3>8. Segments[i - 1].seq = t - 1 BY <3>4, <3>5, <3>7, FormatAssumption DEF SeqNext
    <3> QED BY <3>4, <3>5, <3>6, <3>8
  <2> QED BY <2>1, <2>2
<1>4. \A n \in Nat : n \in S
  <2> HIDE DEF S
  <2> QED BY <1>3, NatSetInduction
<1>5. Is(j - m, s - m)
  <2> HIDE DEF Is
  <2> QED BY <1>1, <1>4
<1> QED BY <1>1, <1>5

\* Between file i and a later one with no more before it in its session than that, the
\* sequence numbers are those of the files between.
LEMMA FarInSession ==
  ASSUME Known, SequencesLeft, NEW i \in 1 .. Len(Segments), NEW j \in 1 .. Len(Segments), i < j
  PROVE  \/ /\ j - i <= Segments[j].seq
            /\ Segments[j].seq = Segments[i].seq + (j - i)
            /\ Segments[i].session = Segments[j].session
         \/ \E o \in i + 1 .. j :
              o \in 1 .. Len(Segments) /\ Segments[o].seq = 0 /\ o = j - Segments[j].seq
<1>1. PICK s : s = Segments[j].seq OBVIOUS
<1>2. i \in Nat /\ j \in Nat /\ s \in Nat /\ Segments[i].seq \in Nat BY <1>1, SegmentIs
<1>3. CASE j - i <= s
  <2>1. PICK m \in Nat : m = j - i /\ j - m = i BY <1>2
  <2>2. Segments[i].seq = s - m /\ Segments[i].session = Segments[j].session
    BY <1>1, <1>3, <2>1, BackInSession
  <2>3. PICK r : r = Segments[i].seq OBVIOUS
  <2>4. r \in Nat /\ r = s - m BY <1>2, <2>2, <2>3
  <2>5. s = r + m BY <1>2, <2>1, <2>4
  <2> QED BY <1>1, <1>3, <2>1, <2>2, <2>3, <2>5
<1>4. CASE ~ (j - i <= s)
  <2>1. PICK o : o = j - s OBVIOUS
  <2>2. o \in 1 .. Len(Segments) /\ Segments[o].seq = s - s BY <1>1, <1>2, <2>1, BackInSession
  <2>3. o \in i + 1 .. j /\ s - s = 0 BY <1>2, <1>4, <2>1, <2>2
  <2> QED BY <1>1, <2>1, <2>2, <2>3
<1> QED BY <1>3, <1>4

-----------------------------------------------------------------------------
(* What is missing before a file that opens.                               *)

\* The files behind all those of which a header has been told.
Above(i) == \A a \in 1 .. Len(headers) : No(headers[a].file) < i

LEMMA HeaderFiles ==
  ASSUME PlaceTypes
  PROVE  \A a \in 1 .. Len(headers) : headers[a].file \in 1 .. Len(disk)
<1>1. PICK T : T = [file : 1 .. Len(disk), read : Nat] OBVIOUS
<1>2. ASSUME NEW a \in 1 .. Len(headers) PROVE headers[a].file \in 1 .. Len(disk)
  <2>1. headers \in Seq(T) BY <1>1 DEF PlaceTypes
  <2>2. headers[a] \in T BY <2>1
  <2>3. PICK h : h = headers[a] OBVIOUS
  <2>4. h.file \in 1 .. Len(disk) BY <1>1, <2>2, <2>3
  <2> QED BY <2>3, <2>4
<1> QED BY <1>2

LEMMA FilesInOrder ==
  ASSUME SystemTypes, DiskInv, NEW g \in 1 .. Len(disk), NEW h \in 1 .. Len(disk)
  PROVE  No(g) \in Nat /\ (No(g) < No(h) => g < h) /\ (g < h => No(g) < No(h))
<1>1. No(g) \in Nat /\ No(h) \in Nat
  <2>1. disk[g] \in Segment /\ disk[h] \in Segment BY DEF SystemTypes
  <2> QED BY <2>1 DEF Segment, No
<1>2. g < h => No(g) < No(h) BY DEF DiskInv, DiskOrdered
<1>3. h < g => No(h) < No(g) BY DEF DiskInv, DiskOrdered
<1>4. g < h \/ h < g \/ g = h OBVIOUS
<1>5. No(g) < No(h) => ~ (No(h) < No(g)) /\ No(g) # No(h) BY <1>1
<1> QED BY <1>1, <1>2, <1>3, <1>4, <1>5

\* A file that opens is the last of which a header is told.
LEMMA HeaderLast ==
  ASSUME SystemInv, HeadersSound, NEW k \in 0 .. Len(pending) - 1, NEW handBack, NEW more,
         R!Opens(k, handBack, more), NEW f, f = pending[k + 1]
  PROVE  /\ f \in 1 .. Len(disk) /\ Len(headers) \in Nat
         /\ \A a \in 1 .. Len(headers) :
              /\ headers[a].file \in 1 .. Len(disk) /\ headers[a].file <= f
              /\ a \in 1 .. Len(headers') /\ headers'[a] = headers[a]
         /\ Len(headers') \in 1 .. Len(headers) + 1
         /\ headers'[Len(headers')].file = f
         /\ headers' = headers \/ \A a \in 1 .. Len(headers) : headers[a].file < f
<1>1. /\ PlaceTypes /\ Len(pending) \in Nat /\ Len(results) \in Nat /\ Len(headers) \in Nat
  BY DEF SystemInv, ReaderInv, PlaceTypes, RestTypes
<1>2. k + 1 \in 1 .. Len(pending) BY <1>1
<1>3. f \in 1 .. Len(disk) BY <1>1, <1>2 DEF PlaceTypes
<1>4. \A a \in 1 .. Len(headers) :
        headers[a].file <= f /\ (headers[a].file = f => reopened = <<f>>)
  BY <1>2 DEF HeadersSound, HeadersBefore
<1>5. HeadersGrow
  <2>1. headers' = headers \/ headers' = Append(headers, [file |-> f, read |-> Len(results) + 1])
    BY DEF R!Opens
  <2>2. Len(results) + 1 \in Nat BY <1>1
  <2> QED BY <1>3, <2>1, <2>2 DEF HeadersGrow
<1>6. \A a \in 1 .. Len(headers) :
        /\ headers[a].file \in 1 .. Len(disk)
        /\ a \in 1 .. Len(headers') /\ headers'[a] = headers[a]
  BY <1>1, <1>5, HeadersStay
<1>7. CASE reopened = <<f>>
  <2>1. headers' = headers BY <1>7 DEF R!Opens, R!Again
  <2>2. HeaderOf(f, Len(results) + 1)
    <3>1. reopened # <<>> /\ reopened[1] = f BY <1>7
    <3> QED BY <3>1 DEF HeadersSound, HeadersOpen
  <2>3. PICK a \in 1 .. Len(headers) : headers[a].file = f BY <2>2 DEF HeaderOf
  <2>4. PICK n : n = Len(headers) OBVIOUS
  <2>5. n \in 1 .. Len(headers) /\ n \in Nat /\ (a = n \/ a < n) BY <1>1, <2>3, <2>4
  <2>6. a < n => headers[a].file < headers[n].file
    BY <2>5 DEF HeadersSound, HeadersListed
  <2>7. headers[n].file <= f /\ headers[n].file \in 1 .. Len(disk) BY <1>4, <1>6, <2>5
  <2>8. headers[n].file = f BY <1>3, <2>3, <2>5, <2>6, <2>7
  <2>9. n \in 1 .. Len(headers) + 1 BY <1>1, <2>5
  <2> QED BY <1>1, <1>3, <1>4, <1>6, <2>1, <2>4, <2>8, <2>9
<1>8. CASE reopened # <<f>>
  <2>1. PICK h : h = [file |-> f, read |-> Len(results) + 1] OBVIOUS
  <2>2. headers' = Append(headers, h) BY <1>8, <2>1 DEF R!Opens, R!Again
  <2>3. headers \in Seq([file : 1 .. Len(disk), read : Nat]) BY <1>1 DEF PlaceTypes
  <2>4. Len(headers') = Len(headers) + 1 /\ headers'[Len(headers) + 1] = h BY <2>2, <2>3
  <2>5. \A a \in 1 .. Len(headers) : headers[a].file < f
    <3> TAKE a \in 1 .. Len(headers)
    <3>1. headers[a].file \in Int /\ headers[a].file <= f /\ headers[a].file # f
      BY <1>4, <1>6, <1>8
    <3> QED BY <1>3, <3>1
  <2>6. headers'[Len(headers')].file = f BY <2>1, <2>4
  <2>7. Len(headers') \in 1 .. Len(headers) + 1 BY <1>1, <2>4
  <2> QED BY <1>1, <1>3, <1>4, <1>6, <2>5, <2>6, <2>7
<1> QED BY <1>7, <1>8

\* The n files before the one that opens, all behind those of which a header is told, are
\* lost: of each there is none that opens, or the reader has just failed to open it, or
\* had before.
LEMMA LossPaid ==
  ASSUME Found, PendingLast, HeadersSound, NEW k \in 0 .. Len(pending) - 1,
         NEW handBack, NEW more \in Nat, R!Opens(k, handBack, more),
         NEW f, f = pending[k + 1], NEW j, j = No(f), NEW n \in Nat,
         \A i \in j - n .. j - 1 : i \in 1 .. Len(Segments) /\ Above(i)
  PROVE  /\ n + readFaults + Cardinality(Vanished)
              <= Cardinality(Unopened) + readFaults' + Cardinality(Vanished')
         /\ Unopened' = {}
         /\ {readFaults, readFaults', Cardinality(Vanished), Cardinality(Vanished'),
             Cardinality(Unopened)} \subseteq Nat
<1>1. /\ SystemInv /\ SystemTypes /\ PlaceTypes /\ Known /\ DiskInv /\ Len(pending) \in Nat
      /\ disk' = disk /\ Segments' = Segments
  BY FoundIs DEF DirStays
<1>2. /\ f \in 1 .. Len(disk) /\ j \in 1 .. Len(Segments) /\ f \in Nat /\ j \in Nat
  <2>1. f \in 1 .. Len(disk) /\ j \in 1 .. Len(Segments) BY NextFile
  <2> QED BY <1>1, <2>1, SegmentIs
<1>3. /\ \A a \in 1 .. Len(headers) :
           /\ headers[a].file \in 1 .. Len(disk) /\ headers[a].file <= f
           /\ a \in 1 .. Len(headers') /\ headers'[a] = headers[a]
      /\ Len(headers') \in 1 .. Len(headers')
      /\ headers'[Len(headers')].file = f
  <2>1. Len(headers') \in 1 .. Len(headers) + 1 /\ Len(headers) \in Nat BY <1>1, HeaderLast
  <2>2. Len(headers') \in 1 .. Len(headers') BY <2>1
  <2> QED BY <1>1, <2>2, HeaderLast
<1>4. \A i : i \in Vanished' <=>
         /\ i \in 1 .. Len(Segments)
         /\ \E a \in 1 .. Len(headers') : i <= disk[headers'[a].file].no
         /\ ~ \E g \in 1 .. Len(disk) : No(g) = i /\ disk[g].whole
  BY <1>1 DEF Vanished, No
<1>5. /\ k \in Nat /\ Reached \in Int /\ f = Reached + k + 1
      /\ Reached' <= f /\ Reached' \in Int
  <2>1. k \in Nat /\ Reached \in Int /\ pending[k + 1] = Reached + k + 1 BY <1>1, FilesTaken
  <2>2. pending' = R!Behind(k) \/ pending' = R!Behind(k + 1) BY DEF R!Opens
  <2>3. Reached' = Reached + k \/ Reached' = Reached + k + 1 BY <1>1, <2>2, FilesTaken
  <2> QED BY <2>1, <2>3
<1>6. Vanished \subseteq Vanished'
  <2> SUFFICES ASSUME NEW i \in Vanished PROVE i \in Vanished' OBVIOUS
  <2>1. /\ i \in 1 .. Len(Segments)
        /\ ~ \E g \in 1 .. Len(disk) : No(g) = i /\ disk[g].whole
    BY DEF Vanished
  <2>2. PICK a \in 1 .. Len(headers) : i <= disk[headers[a].file].no BY DEF Vanished, No
  <2>3. a \in 1 .. Len(headers') /\ i <= disk[headers'[a].file].no BY <1>3, <2>2
  <2> QED BY <1>4, <2>1, <2>3
<1>7. PICK L : L = j - n .. j - 1 OBVIOUS
<1>8. IsFiniteSet(L) /\ Cardinality(L) = n
  <2>1. j - n \in Int /\ j - 1 \in Int BY <1>2
  <2>2. /\ IsFiniteSet(j - n .. j - 1)
        /\ Cardinality(j - n .. j - 1) = IF j - n > j - 1 THEN 0 ELSE (j - 1) - (j - n) + 1
    BY <2>1, FS_Interval
  <2>3. (IF j - n > j - 1 THEN 0 ELSE (j - 1) - (j - n) + 1) = n BY <1>2
  <2> QED BY <1>7, <2>2, <2>3
<1>9. \A i \in L : i \in 1 .. Len(Segments) /\ Above(i) /\ i < j /\ i \in Int
  BY <1>2, <1>7
<1>10. L \cap Vanished = {}
  <2> SUFFICES ASSUME NEW i \in L, i \in Vanished PROVE FALSE OBVIOUS
  <2>1. PICK a \in 1 .. Len(headers) : i <= No(headers[a].file) BY DEF Vanished
  <2>2. No(headers[a].file) < i BY <1>9 DEF Above
  <2>3. No(headers[a].file) \in Nat BY <1>1, <1>3, FilesInOrder
  <2> QED BY <1>9, <2>1, <2>2, <2>3
<1> DEFINE At1(i) == CHOOSE g \in 1 .. Len(disk) : No(g) = i /\ disk[g].whole
           file == [i \in L |-> At1(i)]
<1>11. ASSUME NEW i \in L \ Vanished'
       PROVE  No(file[i]) = i /\ file[i] \in Unopened \cup Failing(k)
  <2>1. \E g \in 1 .. Len(disk) : No(g) = i /\ disk[g].whole
    <3>1. i \in 1 .. Len(Segments) /\ i <= j BY <1>2, <1>9
    <3>2. PICK a \in 1 .. Len(headers') : headers'[a].file = f BY <1>3
    <3>3. i <= disk[headers'[a].file].no BY <3>1, <3>2 DEF No
    <3> QED BY <1>4, <3>1, <3>3
  <2>2. PICK g : g = file[i] OBVIOUS
  <2>3. g \in 1 .. Len(disk) /\ No(g) = i /\ disk[g].whole BY <2>1, <2>2
  <2> HIDE DEF file
  <2>4. g < f BY <1>1, <1>2, <1>9, <2>3, FilesInOrder
  <2>5. \A a \in 1 .. Len(headers) : headers[a].file < g
    <3> TAKE a \in 1 .. Len(headers)
    <3>1. No(headers[a].file) < No(g) BY <1>9, <2>3 DEF Above
    <3> QED BY <1>1, <1>3, <2>3, <3>1, FilesInOrder
  <2>6. pending # <<>> BY <1>1
  <2>7. CASE g <= Reached BY <2>2, <2>3, <2>5, <2>6, <2>7 DEF Unopened
  <2>8. CASE ~ (g <= Reached)
    <3>1. Reached < g /\ g <= Reached + k BY <1>2, <1>5, <2>3, <2>4, <2>8
    <3> QED BY <2>2, <2>3, <3>1 DEF Failing
  <2> QED BY <2>2, <2>3, <2>7, <2>8
<1> HIDE DEF file
<1>12. \A h, i \in L \ Vanished' : file[h] = file[i] => h = i BY <1>11
<1>13. \A i \in L \ Vanished' : file[i] \in Unopened \cup Failing(k) BY <1>11
<1>14. /\ IsFiniteSet(Vanished) /\ Cardinality(Vanished) \in Nat
       /\ IsFiniteSet(Vanished') /\ Cardinality(Vanished') \in Nat
       /\ IsFiniteSet(Unopened) /\ Cardinality(Unopened) \in Nat
  <2>1. Len(Segments) \in Nat /\ Len(disk) \in Nat BY <1>1, <1>2, SegmentIs DEF SystemTypes
  <2>2. Vanished \subseteq 1 .. Len(Segments) BY DEF Vanished
  <2>3. Vanished' \subseteq 1 .. Len(Segments) BY <1>1 DEF Vanished
  <2>4. Unopened \subseteq 1 .. Len(disk) BY DEF Unopened
  <2> QED BY <2>1, <2>2, <2>3, <2>4, CountOf
<1>15. /\ IsFiniteSet(Failing(k)) /\ Cardinality(Failing(k)) \in Nat
       /\ readFaults \in Nat /\ readFaults' \in Nat
       /\ readFaults + Cardinality(Failing(k)) <= readFaults'
  <2>1. R!PassOver(k, more) BY DEF R!Opens
  <2>2. k \in 0 .. Len(pending) BY <1>1
  <2> QED BY <1>1, <2>1, <2>2, FailuresPaid
<1>16. Cardinality(L) + Cardinality(Vanished)
         <= Cardinality(Unopened) + Cardinality(Failing(k)) + Cardinality(Vanished')
  BY <1>6, <1>8, <1>10, <1>12, <1>13, <1>14, <1>15, EachPaid
<1>17. Unopened' = {}
  <2> SUFFICES ASSUME NEW g \in Unopened' PROVE FALSE OBVIOUS
  <2>1. /\ g \in 1 .. Len(disk') /\ g <= Reached'
        /\ \A a \in 1 .. Len(headers') : headers'[a].file < g
    BY DEF Unopened
  <2>2. PICK a \in 1 .. Len(headers') : headers'[a].file = f BY <1>3
  <2>3. f < g BY <2>1, <2>2
  <2> QED BY <1>2, <1>5, <2>1, <2>3
<1>18. PICK v, w, u, t : /\ v = Cardinality(Vanished) /\ w = Cardinality(Vanished')
                         /\ u = Cardinality(Unopened) /\ t = Cardinality(Failing(k))
  OBVIOUS
<1>19. n + readFaults + v <= u + readFaults' + w
  <2>1. v \in Nat /\ w \in Nat /\ u \in Nat /\ t \in Nat BY <1>14, <1>15, <1>18
  <2>2. n + v <= u + t + w /\ readFaults + t <= readFaults' BY <1>8, <1>15, <1>16, <1>18
  <2>3. PICK a, b : a = readFaults /\ b = readFaults' OBVIOUS
  <2>4. a \in Nat /\ b \in Nat /\ a + t <= b BY <1>15, <2>2, <2>3
  <2>5. n + a + v <= u + b + w BY <2>1, <2>2, <2>4
  <2> QED BY <2>3, <2>5
<1> QED BY <1>14, <1>15, <1>17, <1>18, <1>19

-----------------------------------------------------------------------------
(* What a step tells of losses.                                            *)

\* A read that fails tells no more than it was to.
LEMMA ToldLost ==
  ASSUME SystemInv, NEW lost \in Nat, NEW kind \in {"truncated", "eof", "end", "error"},
         \/ R!Fails(R!Result(kind, lost, <<>>)) \/ R!Return(R!Result(kind, lost, <<>>))
         \/ R!Fails(R!Truncated(lost)) \/ R!Return(R!Truncated(lost))
  PROVE  LostTold \in Nat /\ LostTold' \in Nat /\ LostTold' <= LostTold + lost
<1>1. results \in Seq(Outcome) BY DEF SystemInv, ReaderInv, RestTypes
<1>2. PICK x : x \in Outcome /\ results' = Append(results, x)
  BY FailureTells DEF Tells
<1>3. PICK y : results' = Append(results, y) /\ y.lost \in {0, lost}
  BY DEF R!Fails, R!Return, R!Truncated, R!Result
<1>4. x = y
  <2>1. Append(results, x)[Len(results) + 1] = x BY <1>1
  <2>2. Append(results, y)[Len(results) + 1] = y BY <1>1
  <2> QED BY <1>2, <1>3, <2>1, <2>2
<1>5. LostTold' = LostTold + x.lost /\ LostTold' \in Nat BY <1>1, <1>2, LostMore
<1>6. LostTold \in Nat BY <1>1, LostTotal
<1>7. x.lost <= lost /\ x.lost \in Nat BY <1>3, <1>4
<1> QED BY <1>5, <1>6, <1>7

LEMMA CountsAre ==
  ASSUME SystemInv, Known
  PROVE  /\ IsFiniteSet(Vanished) /\ Cardinality(Vanished) \in Nat
         /\ IsFiniteSet(Unopened) /\ Cardinality(Unopened) \in Nat
         /\ LostTold \in Nat /\ startLost \in Nat /\ readFaults \in Nat
<1>1. Len(Segments) \in Nat /\ Len(disk) \in Nat BY DEF Known, SystemInv, SystemTypes
<1>2. Vanished \subseteq 1 .. Len(Segments) BY DEF Vanished
<1>3. Unopened \subseteq 1 .. Len(disk) BY DEF Unopened
<1>4. results \in Seq(Outcome) /\ startLost \in Nat /\ readFaults \in Nat
  BY DEF SystemInv, ReaderInv, PlaceTypes, RestTypes
<1> QED BY <1>1, <1>2, <1>3, <1>4, CountOf, LostTotal

\* A step that opens no file and passes none over.
LEMMA LossSame ==
  ASSUME SystemInv, Known, LossesPaid, DirStays, UNCHANGED <<pending, headers, startLost>>,
         LostTold' <= LostTold, LostTold' \in Nat, readFaults' \in Nat, readFaults <= readFaults'
  PROVE  LossesPaid'
<1>1. Vanished' = Vanished BY DEF Vanished, DirStays, No
<1>2. Unopened' = Unopened BY DEF Unopened, Reached, DirStays
<1>3. /\ Cardinality(Vanished) \in Nat /\ Cardinality(Unopened) \in Nat
      /\ LostTold \in Nat /\ startLost \in Nat /\ readFaults \in Nat
  BY CountsAre
<1>4. LostTold + startLost + Cardinality(Unopened) <= readFaults + Cardinality(Vanished)
  BY DEF LossesPaid
<1>5. LostTold' + startLost' + Cardinality(Unopened) <= readFaults' + Cardinality(Vanished)
  BY <1>3, <1>4
<1> QED BY <1>1, <1>2, <1>5 DEF LossesPaid

\* A step that passes files over, and opens none.
LEMMA LossPassed ==
  ASSUME Found, PendingLast, LossesPaid, NEW k \in 0 .. Len(pending), R!PassOver(k, 0),
         pending' = R!Behind(k) \/ pending' = <<>>, UNCHANGED <<headers, startLost>>,
         LostTold' <= LostTold, LostTold' \in Nat
  PROVE  LossesPaid'
<1>1. /\ SystemInv /\ SystemTypes /\ PlaceTypes /\ Known /\ disk' = disk
      /\ Segments' = Segments
  BY FoundIs DEF DirStays
<1>2. Vanished' = Vanished BY <1>1 DEF Vanished, No
<1>3. Unopened' \subseteq Unopened \cup Failing(k)
  <2> SUFFICES ASSUME NEW f \in Unopened', f \notin Unopened PROVE f \in Failing(k) OBVIOUS
  <2>1. /\ f \in 1 .. Len(disk) /\ disk[f].whole /\ f <= Reached' /\ pending' # <<>>
        /\ \A a \in 1 .. Len(headers) : headers[a].file < f
    BY <1>1 DEF Unopened
  <2>2. Reached' = Reached + k /\ Reached \in Int BY <1>1, <2>1, FilesReached
  <2>3. pending # <<>>
    <3>1. Len(pending') = Len(pending) - k /\ Len(pending') \in Nat /\ Len(pending') # 0
      <4>1. PlaceTypes' BY DEF Found
      <4>2. pending' \in Seq(1 .. Len(disk')) BY <4>1 DEF PlaceTypes
      <4>3. Len(pending') \in Nat /\ Len(pending') # 0 BY <2>1, <4>2
      <4> QED BY <1>1, <2>1, <4>3, FilesReached
    <3>2. k \in Nat /\ Len(pending) \in Nat BY <1>1 DEF PlaceTypes
    <3> QED BY <3>1, <3>2
  <2>4. ~ (f <= Reached) BY <2>1, <2>3 DEF Unopened
  <2>5. Reached < f BY <2>1, <2>2, <2>4
  <2> QED BY <2>1, <2>2, <2>5 DEF Failing
<1>4. /\ IsFiniteSet(Failing(k)) /\ Cardinality(Failing(k)) \in Nat
      /\ readFaults \in Nat /\ readFaults' \in Nat
      /\ readFaults + Cardinality(Failing(k)) <= readFaults'
  BY <1>1, FailuresPaid
<1>5. /\ Cardinality(Vanished) \in Nat /\ Cardinality(Unopened) \in Nat
      /\ LostTold \in Nat /\ startLost \in Nat /\ IsFiniteSet(Unopened)
  BY <1>1, CountsAre
<1>6. Cardinality(Unopened') <= Cardinality(Unopened) + Cardinality(Failing(k))
      /\ Cardinality(Unopened') \in Nat
  <2>1. PICK L : L = Unopened' OBVIOUS
  <2>2. PICK U : U = Unopened OBVIOUS
  <2>3. PICK T : T = Failing(k) OBVIOUS
  <2>4. IsFiniteSet(L)
    <3>1. L \subseteq 1 .. Len(disk) /\ Len(disk) \in Nat
      BY <1>1, <2>1 DEF Unopened, SystemTypes
    <3> QED BY <3>1, CountOf
  <2>5. PICK g : g = [i \in L |-> i] OBVIOUS
  <2>6. \A i \in L \ {} : g[i] \in U \cup T BY <1>3, <2>1, <2>2, <2>3, <2>5
  <2>7. \A i, j \in L \ {} : g[i] = g[j] => i = j BY <2>5
  <2>8. IsFiniteSet({}) /\ Cardinality({}) = 0 BY FS_EmptySet
  <2>9. IsFiniteSet(U) /\ IsFiniteSet(T) /\ L \cap {} = {} /\ {} \subseteq {}
    BY <1>4, <1>5, <2>2, <2>3
  <2>10. Cardinality(L) + Cardinality({}) <= Cardinality(U) + Cardinality(T) + Cardinality({})
    BY <2>4, <2>6, <2>7, <2>8, <2>9, EachPaid
  <2>11. Cardinality(L) \in Nat BY <2>4, FS_CardinalityType
  <2> QED BY <1>4, <1>5, <2>1, <2>2, <2>3, <2>8, <2>10, <2>11
<1>7. PICK u, v, w, t : /\ u = Cardinality(Unopened) /\ v = Cardinality(Unopened')
                        /\ w = Cardinality(Vanished) /\ t = Cardinality(Failing(k))
  OBVIOUS
<1>8. LostTold + startLost + u <= readFaults + w BY <1>7 DEF LossesPaid
<1>9. LostTold' + startLost + v <= readFaults' + w
  <2>1. PICK a, b, c, d, e : /\ a = readFaults /\ b = readFaults' /\ c = LostTold
                             /\ d = startLost /\ e = LostTold'
    OBVIOUS
  <2>2. /\ u \in Nat /\ v \in Nat /\ w \in Nat /\ t \in Nat /\ a \in Nat /\ b \in Nat
        /\ c \in Nat /\ d \in Nat
    BY <1>4, <1>5, <1>6, <1>7, <2>1
  <2>3. c + d + u <= a + w /\ a + t <= b /\ v <= u + t BY <1>4, <1>6, <1>7, <1>8, <2>1
  <2>4. c + d + v <= b + w BY <2>2, <2>3
  <2>5. e <= c /\ e \in Nat BY <2>1
  <2>6. e + d + v <= b + w BY <2>2, <2>4, <2>5
  <2> QED BY <2>1, <2>6
<1> QED BY <1>2, <1>7, <1>9 DEF LossesPaid

\* A step that opens a file, and tells of no more than the n before it.
LEMMA LossOpened ==
  ASSUME Found, PendingLast, HeadersSound, LossesPaid, NEW k \in 0 .. Len(pending) - 1,
         NEW handBack, NEW more \in Nat, R!Opens(k, handBack, more),
         NEW j, j = No(pending[k + 1]), NEW n \in Nat,
         \A i \in j - n .. j - 1 : i \in 1 .. Len(Segments) /\ Above(i),
         LostTold' \in Nat, startLost' \in Nat,
         LostTold' + startLost' <= LostTold + startLost + n
  PROVE  LossesPaid'
<1>1. PICK f : f = pending[k + 1] OBVIOUS
<1>2. PICK u, v, w : /\ u = Cardinality(Unopened) /\ v = Cardinality(Vanished)
                     /\ w = Cardinality(Vanished')
  OBVIOUS
<1>3. /\ n + readFaults + v <= u + readFaults' + w /\ Unopened' = {}
      /\ {readFaults, readFaults', u, v, w} \subseteq Nat
  BY <1>1, <1>2, LossPaid
<1>4. Cardinality(Unopened') = 0 BY <1>3, FS_EmptySet
<1>5. LostTold + startLost + u <= readFaults + v BY <1>2 DEF LossesPaid
<1>6. LostTold \in Nat /\ startLost \in Nat BY FoundIs, CountsAre
<1>7. LostTold' + startLost' + 0 <= readFaults' + w
  <2>1. PICK a, b, c, d, r, s : /\ a = LostTold /\ b = LostTold' /\ c = startLost
                                /\ d = startLost' /\ r = readFaults /\ s = readFaults'
    OBVIOUS
  <2>2. b + d <= a + c + n BY <2>1
  <2>3. /\ a \in Nat /\ b \in Nat /\ c \in Nat /\ d \in Nat /\ r \in Nat
        /\ s \in Nat /\ u \in Nat /\ v \in Nat /\ w \in Nat
    BY <1>3, <1>6, <2>1
  <2>4. a + c + u <= r + v BY <1>5, <2>1
  <2>5. n + r + v <= u + s + w BY <1>3, <2>1
  <2>6. b + d + 0 <= s + w BY <2>2, <2>3, <2>4, <2>5
  <2> QED BY <2>1, <2>6
<1> QED BY <1>2, <1>4, <1>7 DEF LossesPaid

LEMMA LessBack ==
  ASSUME NEW j \in Nat, NEW o \in Nat, NEW n \in Nat, NEW i \in Int, i < o, o <= j, j - i <= n
  PROVE  \E l \in Nat : l < n /\ j - l = o
<1>1. j - o \in Nat /\ j - o < n /\ j - (j - o) = o OBVIOUS
<1> QED BY <1>1

LEMMA SomeLeft ==
  ASSUME NEW n \in Nat, NEW l \in Nat, l < n
  PROVE  n - l # 0
OBVIOUS

\* The files before one of its session are as many as its sequence number says, and so
\* lie behind any that a session began after.
LEMMA BackOf ==
  ASSUME Known, SequencesLeft, NEW j \in 1 .. Len(Segments),
         NEW n, n = Segments[j].seq, NEW i \in j - n .. j - 1
  PROVE  /\ i \in 1 .. Len(Segments)
         /\ \E m \in Nat : m <= n /\ j - m = i
<1>1. n \in Nat /\ j \in Nat BY SegmentIs
<1>2. i \in Int /\ j - n <= i /\ i <= j - 1 BY <1>1
<1>3. PICK m \in Nat : m <= n /\ j - m = i
  <2>1. j - i \in Nat /\ j - i <= n /\ j - (j - i) = i BY <1>1, <1>2
  <2> QED BY <2>1
<1>4. j - m \in 1 .. Len(Segments) BY <1>3, BackInSession
<1> QED BY <1>3, <1>4

LEMMA BackAhead ==
  ASSUME Known, SequencesLeft, NEW j \in 1 .. Len(Segments),
         NEW n, n = Segments[j].seq, NEW i \in j - n .. j - 1,
         NEW h \in Nat, \E o \in 1 .. Len(Segments) : Segments[o].seq = 0 /\ h < o /\ o <= j
  PROVE  h < i
<1>1. n \in Nat /\ j \in Nat /\ i \in Nat BY BackOf, SegmentIs
<1>2. PICK o \in 1 .. Len(Segments) : Segments[o].seq = 0 /\ h < o /\ o <= j OBVIOUS
<1>3. PICK m \in Nat : m <= n /\ j - m = i BY BackOf
<1>4. CASE i < o
  <2>1. j - i <= n BY <1>1, <1>3
  <2>2. o \in Nat BY <1>2
  <2>3. PICK l \in Nat : l < n /\ j - l = o BY <1>1, <1>2, <1>4, <2>1, <2>2, LessBack
  <2>4. Segments[j - l].seq = n - l
    <3>1. l <= n BY <1>1, <2>3
    <3> QED BY <3>1, BackInSession
  <2>5. 0 = n - l BY <1>2, <2>3, <2>4
  <2> QED BY <1>1, <2>3, <2>5, SomeLeft
<1>5. CASE ~ (i < o) BY <1>1, <1>2, <1>5
<1> QED BY <1>4, <1>5

\* Ahead of the first file of a session that opens there are as many as its sequence
\* number says.
LEMMA LostBefore ==
  ASSUME Found, SessionOver, session = <<>>, NEW k \in 0 .. Len(pending) - 1,
         NEW handBack, NEW more, R!Opens(k, handBack, more),
         NEW f, f = pending[k + 1], NEW j, j = No(f), NEW n, n = Segments[j].seq
  PROVE  n \in Nat /\ \A i \in j - n .. j - 1 : i \in 1 .. Len(Segments) /\ Above(i)
<1>1. Known /\ SystemTypes /\ DiskInv /\ PlaceTypes /\ SequencesLeft /\ Len(pending) \in Nat
  BY FoundIs
<1>2. j \in 1 .. Len(Segments) BY NextFile
<1>3. n \in Nat /\ j \in Nat BY <1>1, <1>2, SegmentIs
<1>4. k + 1 \in 1 .. Len(pending) BY <1>1
<1>5. \A a \in 1 .. Len(headers) : headers[a].file \in 1 .. Len(disk)
  BY <1>1, HeaderFiles
<1>6. ASSUME NEW i \in j - n .. j - 1 PROVE i \in 1 .. Len(Segments) /\ Above(i)
  <2>1. i \in 1 .. Len(Segments) BY <1>1, <1>2, BackOf
  <2>2. ASSUME NEW a \in 1 .. Len(headers) PROVE No(headers[a].file) < i
    <3>1. PICK h : h = No(headers[a].file) OBVIOUS
    <3>2. \E o \in 1 .. Len(Segments) : Segments[o].seq = 0 /\ h < o /\ o <= j
      BY <1>4, <3>1 DEF SessionOver
    <3>3. h \in Nat
      <4>1. headers[a].file \in 1 .. Len(disk) BY <1>5
      <4> QED BY <1>1, <3>1, <4>1, FilesInOrder
    <3>4. h < i BY <1>1, <1>2, <3>2, <3>3, BackAhead
    <3> QED BY <3>1, <3>4
  <2> QED BY <2>1, <2>2 DEF Above
<1> QED BY <1>3, <1>6

LEMMA BetweenIs ==
  ASSUME NEW m \in Nat, NEW s \in Nat, NEW t \in Nat, s < m, t < m, t > s + 1
  PROVE  (t + m - s) % (m + 1) = (t - s) - 1
<1>1. PICK x : x = (t - s) - 1 OBVIOUS
<1>2. PICK y : y = t + m - s OBVIOUS
<1>3. x \in Nat /\ x < m + 1 /\ m + 1 \in Nat /\ y = x + (m + 1) BY <1>1, <1>2
<1>4. y % (m + 1) = x BY <1>3, ModuloOnce
<1> QED BY <1>1, <1>2, <1>4

\* Between the open file and one that does not follow it there are no fewer than are
\* told lost.
LEMMA LostWithin ==
  ASSUME Found, HeadersSound, R!Crossing, NEW k \in 0 .. Len(pending) - 1,
         NEW handBack, NEW more, R!Opens(k, handBack, more),
         NEW f, f = pending[k + 1], NEW j, j = No(f), NEW n, n = R!LostBetween(f)
  PROVE  n \in Nat /\ \A i \in j - n .. j - 1 : i \in 1 .. Len(Segments) /\ Above(i)
<1>1. Known /\ SystemTypes /\ DiskInv /\ PlaceTypes /\ SequencesLeft /\ SeqMax \in Nat
  BY FoundIs, FormatAssumption
<1>2. PICK h : h = Here OBVIOUS
<1>3. /\ h \in 1 .. Len(Segments) /\ current # R!NoFile /\ prevSeq[1] = Segments[h].seq
      /\ Segments[j].seq # 0 => Run(h, j)
  BY <1>2, Crosses
<1>4. j \in 1 .. Len(Segments) /\ disk[f].seq = Segments[j].seq BY NextFile
<1>5. PICK s, t : s = Segments[h].seq /\ t = Segments[j].seq OBVIOUS
<1>6. /\ s \in Nat /\ t \in Nat /\ h \in Nat /\ j \in Nat /\ s < SeqMax /\ t < SeqMax
  BY <1>1, <1>3, <1>4, <1>5, SegmentIs DEF SequencesLeft
<1>7. R!Successor(prevSeq[1]) = s + 1
  BY <1>1, <1>3, <1>5, <1>6, OneMissing DEF R!Successor
<1>8. n = IF t > s + 1 THEN (t + SeqMax - s) % (SeqMax + 1) ELSE 0
  BY <1>3, <1>4, <1>5, <1>7 DEF R!LostBetween
<1>9. CASE ~ (t > s + 1)
  <2>1. n = 0 BY <1>8, <1>9
  <2> QED BY <1>6, <2>1
<1>10. CASE t > s + 1
  <2>1. n = (t - s) - 1 BY <1>1, <1>6, <1>8, <1>10, BetweenIs
  <2>2. Run(h, j) BY <1>3, <1>5, <1>6, <1>10
  <2>3. h < j /\ \A o \in h + 1 .. j : Segments[o].seq # 0 BY <2>2 DEF Run
  <2>4. t = s + (j - h) BY <1>1, <1>3, <1>4, <1>5, <2>3, FarInSession
  <2>5. n \in Nat /\ j - n = h + 1
    <3>1. n = (j - h) - 1
      <4>1. t - s = j - h BY <1>6, <2>4
      <4> QED BY <2>1, <4>1
    <3>2. h \in Nat /\ j \in Nat /\ h < j BY <1>6, <2>3
    <3> QED BY <3>1, <3>2
  <2>6. ASSUME NEW i \in h + 1 .. j - 1 PROVE i \in 1 .. Len(Segments) /\ Above(i)
    <3>1. i \in 1 .. Len(Segments)
      <4>1. Len(Segments) \in Nat BY <1>1, <1>3, SegmentIs
      <4> QED BY <1>3, <1>4, <4>1
    <3>2. ASSUME NEW a \in 1 .. Len(headers) PROVE No(headers[a].file) < i
      <4>1. PICK g, c : g = headers[a].file /\ c = current.file OBVIOUS
      <4>2. g <= c BY <1>3, <4>1 DEF HeadersSound, HeadersOpen
      <4>3. g \in 1 .. Len(disk) /\ c \in 1 .. Len(disk)
        <5>1. g \in 1 .. Len(disk) BY <1>1, <4>1, HeaderFiles
        <5>2. c \in 1 .. Len(disk) BY <1>1, <1>3, <4>1 DEF PlaceTypes
        <5> QED BY <5>1, <5>2
      <4>4. No(g) <= No(c) /\ No(g) \in Nat /\ No(c) \in Nat
        <5>1. g < c \/ g = c BY <4>2, <4>3
        <5>2. No(g) \in Nat /\ No(c) \in Nat /\ (g < c => No(g) < No(c))
          BY <1>1, <4>3, FilesInOrder
        <5> QED BY <5>1, <5>2
      <4>5. No(c) = h BY <1>2, <4>1 DEF Here
      <4>6. i \in Int /\ h < i BY <1>6
      <4> QED BY <1>6, <4>1, <4>4, <4>5, <4>6
    <3> QED BY <3>1, <3>2 DEF Above
  <2> QED BY <2>5, <2>6
<1> QED BY <1>9, <1>10

-----------------------------------------------------------------------------
(* The session being read.                                                 *)

LEMMA SessionOpened ==
  ASSUME Found, HeadersSound, NEW k \in 0 .. Len(pending) - 1,
         NEW handBack, NEW more, R!Opens(k, handBack, more)
  PROVE  SessionTold' /\ SessionOver'
<1>1. PICK f : f = pending[k + 1] OBVIOUS
<1>2. PICK j : j = No(f) OBVIOUS
<1>3. /\ j \in 1 .. Len(Segments) /\ session' = <<Segments[j].session>>
  BY <1>1, <1>2, NextFile
<1>4. PICK n : n = Len(headers') OBVIOUS
<1>5. headers'[n].file = f /\ n # 0
  <2>1. Len(headers') \in 1 .. Len(headers) + 1 /\ headers'[Len(headers')].file = f
    BY <1>1, FoundIs, HeaderLast
  <2> QED BY <1>4, <2>1
<1>6. disk' = disk /\ Segments' = Segments BY FoundIs DEF DirStays
<1>7. headers' # <<>> BY <1>4, <1>5
<1>8. Len(Segments) \in Nat /\ j <= Len(Segments) BY <1>3, FoundIs, SegmentIs
<1>9. disk'[headers'[n].file].no = j BY <1>2, <1>5, <1>6 DEF No
<1>10. SessionTold'
  <2>1. /\ disk'[headers'[n].file].no <= Len(Segments')
        /\ session' = <<Segments'[disk'[headers'[n].file].no].session>>
    BY <1>3, <1>6, <1>8, <1>9
  <2> QED BY <1>4, <1>7, <2>1 DEF SessionTold, No
<1>11. SessionOver' BY <1>3 DEF SessionOver
<1> QED BY <1>10, <1>11

LEMMA SessionKept ==
  ASSUME SessionTold, SessionOver, DirStays, FromPending, UNCHANGED <<headers, session>>
  PROVE  SessionTold' /\ SessionOver'
<1>1. disk' = disk /\ Segments' = Segments /\ headers' = headers /\ session' = session
  BY DEF DirStays
<1>2. SessionTold' BY <1>1 DEF SessionTold, No
<1>3. ASSUME session = <<>>, NEW a \in 1 .. Len(headers), NEW p \in 1 .. Len(pending')
      PROVE  \E o \in 1 .. Len(Segments) :
               /\ Segments[o].seq = 0 /\ No(headers[a].file) < o /\ o <= disk[pending'[p]].no
  <2>1. PICK q \in 1 .. Len(pending) : pending'[p] = pending[q] BY DEF FromPending
  <2> QED BY <1>3, <2>1 DEF SessionOver, No
<1>4. SessionOver' BY <1>1, <1>3 DEF SessionOver, No
<1> QED BY <1>2, <1>4

LEMMA SessionForgotten ==
  ASSUME Found, HeadersSound, SessionTold, NEW k \in 0 .. Len(pending) - 1, R!EndsSession(k),
         R!ForgetSession, headers' = headers
  PROVE  SessionTold' /\ SessionOver'
<1>1. /\ Known /\ SystemTypes /\ DiskInv /\ PlaceTypes /\ SequencesLeft /\ PendingRises
      /\ Len(pending) \in Nat /\ disk' = disk /\ Segments' = Segments
  BY FoundIs DEF DirStays
<1>2. session' = <<>> BY DEF R!ForgetSession
<1>3. PICK f : f = pending[k + 1] OBVIOUS
<1>4. PICK j : j = No(f) OBVIOUS
<1>5. PICK g : g = headers[Len(headers)].file OBVIOUS
<1>6. PICK h : h = No(g) OBVIOUS
<1>7. k + 1 \in 1 .. Len(pending) /\ f \in 1 .. Len(disk) BY <1>1, <1>3 DEF PlaceTypes
<1>8. /\ disk[f].whole /\ session # <<>> /\ session[1] # disk[f].session
      /\ pending' = R!Behind(k)
  BY <1>3 DEF R!EndsSession, R!Valid
<1>9. /\ j \in 1 .. Len(Segments) /\ disk[f].session = Segments[j].session
  BY <1>1, <1>4, <1>7, <1>8, FileIs
<1>10. headers # <<>> /\ h <= Len(Segments) /\ session = <<Segments[h].session>>
  BY <1>5, <1>6, <1>8 DEF SessionTold
<1>11. Len(headers) \in 1 .. Len(headers) /\ Len(headers) \in Nat BY <1>1, <1>10 DEF PlaceTypes
<1>12. g \in 1 .. Len(disk) BY <1>1, <1>5, <1>11, HeaderFiles
<1>13. Segments[h].session # Segments[j].session BY <1>8, <1>9, <1>10
<1>14. g < f
  <2>1. g <= f BY <1>3, <1>5, <1>7, <1>11 DEF HeadersSound, HeadersBefore
  <2>2. g # f BY <1>4, <1>6, <1>13
  <2> QED BY <1>7, <1>12, <2>1, <2>2
<1>15. h \in Nat /\ j \in Nat /\ h < j
  BY <1>1, <1>4, <1>6, <1>7, <1>12, <1>14, FilesInOrder
<1>16. h \in 1 .. Len(Segments)
  <2>1. h <= Len(Segments) => h \in 1 .. Len(Segments) BY <1>1, <1>6, <1>12, FileIs
  <2> QED BY <1>10, <2>1
<1>17. PICK o \in h + 1 .. j : o \in 1 .. Len(Segments) /\ Segments[o].seq = 0
  BY <1>1, <1>9, <1>13, <1>15, <1>16, FarInSession
<1>18. ASSUME NEW a \in 1 .. Len(headers), NEW p \in 1 .. Len(pending')
       PROVE  No(headers[a].file) < o /\ o <= disk[pending'[p]].no
  <2>1. PICK b, c : b = headers[a].file /\ c = pending'[p] OBVIOUS
  <2>2. b \in 1 .. Len(disk) BY <1>1, <2>1, HeaderFiles
  <2>3. b = g \/ b < g
    <3>1. a = Len(headers) \/ a < Len(headers) BY <1>11
    <3>2. a < Len(headers) => b < g
      BY <1>5, <1>11, <2>1 DEF HeadersSound, HeadersListed
    <3> QED BY <1>5, <2>1, <3>1, <3>2
  <2>4. No(b) \in Nat /\ No(b) <= h
    <3>1. No(b) \in Nat /\ (b < g => No(b) < No(g)) BY <1>1, <1>12, <2>2, FilesInOrder
    <3> QED BY <1>6, <1>15, <2>3, <3>1
  <2>5. k \in Nat /\ k + p \in 1 .. Len(pending) /\ c = pending[k + p] /\ p \in Nat \ {0}
    <3>1. k \in 0 .. Len(pending) /\ k \in Nat BY <1>1
    <3>2. k + p \in 1 .. Len(pending) /\ pending'[p] = pending[k + p]
      BY <1>1, <1>8, <3>1, FilesReached
    <3> QED BY <2>1, <3>1, <3>2
  <2>6. c \in 1 .. Len(disk)
    <3>1. PICK l : l = k + p OBVIOUS
    <3>2. pending \in Seq(1 .. Len(disk)) BY <1>1 DEF PlaceTypes
    <3>3. l \in 1 .. Len(pending) /\ c = pending[l] BY <2>5, <3>1
    <3> QED BY <3>2, <3>3
  <2>7. f = c \/ f < c
    <3>1. k + 1 = k + p \/ k + 1 < k + p BY <2>5
    <3>2. k + 1 < k + p => pending[k + 1] < pending[k + p] BY <1>1, <1>7, <2>5 DEF PendingRises
    <3>3. k + 1 = k + p => f = c BY <1>3, <2>5
    <3> QED BY <1>3, <2>5, <3>1, <3>2, <3>3
  <2>8. No(c) \in Nat /\ j <= No(c)
    <3>1. No(c) \in Nat /\ (f < c => No(f) < No(c)) BY <1>1, <1>7, <2>6, FilesInOrder
    <3> QED BY <1>4, <1>15, <2>7, <3>1
  <2>9. o \in Nat /\ h < o /\ o <= j BY <1>15, <1>17
  <2>10. No(b) < o /\ o <= No(c) BY <1>15, <2>4, <2>8, <2>9
  <2> QED BY <2>1, <2>10 DEF No
<1>19. \A a \in 1 .. Len(headers), p \in 1 .. Len(pending') :
         \E q \in 1 .. Len(Segments) :
           /\ Segments[q].seq = 0 /\ No(headers[a].file) < q /\ q <= disk[pending'[p]].no
  BY <1>17, <1>18
<1>20. SessionOver' BY <1>1, <1>19 DEF SessionOver, No
<1>21. SessionTold' BY <1>2 DEF SessionTold
<1> QED BY <1>20, <1>21

-----------------------------------------------------------------------------
(* The steps of a reader.                                                  *)

\* A read that tells no loss, or goes on.
LEMMA ToldNone ==
  ASSUME SystemInv, R!Next,
         results' = results \/ \E y : results' = Append(results, y) /\ y.lost = 0
  PROVE  LostTold \in Nat /\ LostTold' \in Nat /\ LostTold' <= LostTold
<1>1. results \in Seq(Outcome) BY DEF SystemInv, ReaderInv, RestTypes
<1>2. LostTold \in Nat BY <1>1, LostTotal
<1>3. CASE results' = results
  <2>1. LostTold' = LostTold BY <1>3, LostSame
  <2> QED BY <1>2, <2>1
<1>4. CASE results' # results
  <2>1. PICK x : x \in Outcome /\ results' = Append(results, x)
    BY <1>4, ResultsTell DEF Tells
  <2>2. PICK y : results' = Append(results, y) /\ y.lost = 0 BY <1>4
  <2>3. x = y
    <3>1. Append(results, x)[Len(results) + 1] = x BY <1>1
    <3>2. Append(results, y)[Len(results) + 1] = y BY <1>1
    <3> QED BY <2>1, <2>2, <3>1, <3>2
  <2>4. LostTold' = LostTold + x.lost /\ LostTold' \in Nat BY <1>1, <2>1, LostMore
  <2> QED BY <1>2, <2>2, <2>3, <2>4
<1> QED BY <1>3, <1>4

\* What failing without a loss adds.
LEMMA FailsNone ==
  ASSUME NEW kind,
         \/ R!Fails(R!Result(kind, 0, <<>>)) \/ R!Return(R!Result(kind, 0, <<>>))
         \/ R!Fails(R!Truncated(0))
         \/ R!Return(R!Result(kind, 0, got))
  PROVE  \E y : results' = Append(results, y) /\ y.lost = 0
BY DEF R!Fails, R!Return, R!Truncated, R!Result

\* A step that leaves the files as they are, and tells of no loss.
LEMMA LossInPlace ==
  ASSUME Found, SessionTold, SessionOver, LossesPaid,
         UNCHANGED <<pending, session, headers, startLost>>,
         readFaults' \in Nat, readFaults <= readFaults',
         LostTold' \in Nat, LostTold' <= LostTold
  PROVE  SessionTold' /\ SessionOver' /\ LossesPaid'
<1>1. SystemInv /\ Known /\ DirStays BY FoundIs
<1>2. FromPending BY DEF FromPending
<1>3. SessionTold' /\ SessionOver' BY <1>1, <1>2, SessionKept
<1>4. LossesPaid' BY <1>1, LossSame
<1> QED BY <1>3, <1>4

\* A file opens: what is told, or is to be, of those lost is what the session says.
LEMMA LossAhead ==
  ASSUME Found, PendingLast, HeadersSound, SessionOver, LossesPaid,
         NEW k \in 0 .. Len(pending) - 1,
         NEW more \in Nat, R!Opens(k, FALSE, more),
         LostTold' \in Nat, startLost' \in Nat,
         LostTold' + startLost' <= LostTold + R!LostAhead(k)
  PROVE  LossesPaid'
<1>1. PICK f : f = pending[k + 1] OBVIOUS
<1>2. PICK j : j = No(f) OBVIOUS
<1>3. j \in 1 .. Len(Segments) /\ disk[f].seq = Segments[j].seq
  <2>1. PICK handBack : R!Opens(k, handBack, more) OBVIOUS
  <2> QED BY <1>1, <1>2, <2>1, NextFile
<1>4. PICK n : n = IF session = <<>> THEN Segments[j].seq ELSE 0 OBVIOUS
<1>5. n \in Nat /\ \A i \in j - n .. j - 1 : i \in 1 .. Len(Segments) /\ Above(i)
  <2>1. CASE session = <<>>
    <3>1. n = Segments[j].seq BY <1>4, <2>1
    <3> QED BY <1>1, <1>2, <2>1, <3>1, LostBefore
  <2>2. CASE session # <<>>
    <3>1. n = 0 BY <1>4, <2>2
    <3>2. j \in Nat BY <1>3, FoundIs, SegmentIs
    <3> QED BY <3>1, <3>2
  <2> QED BY <2>1, <2>2
<1>6. LostTold \in Nat /\ startLost \in Nat BY FoundIs, CountsAre
<1>7. PICK l : l = R!LostAhead(k) OBVIOUS
<1>8. l \in Nat /\ l <= startLost + n
  <2>1. l = IF session = <<>> THEN Segments[j].seq ELSE startLost
    BY <1>1, <1>3, <1>7 DEF R!LostAhead
  <2> QED BY <1>4, <1>5, <1>6, <2>1
<1>9. LostTold' + startLost' <= LostTold + startLost + n
  <2>1. PICK a, b, c, d : a = LostTold /\ b = LostTold' /\ c = startLost /\ d = startLost'
    OBVIOUS
  <2>2. a \in Nat /\ b \in Nat /\ c \in Nat /\ d \in Nat BY <1>6, <2>1
  <2>3. b + d <= a + l BY <1>7, <2>1
  <2>4. l <= c + n BY <1>8, <2>1
  <2>5. b + d <= a + c + n BY <1>5, <1>8, <2>2, <2>3, <2>4
  <2> QED BY <2>1, <2>5
<1>10. j = No(pending[k + 1]) BY <1>1, <1>2
<1> QED BY <1>5, <1>9, <1>10, LossOpened

LEMMA LossFinding ==
  ASSUME Found, PendingLast, HeadersSound, SessionTold, SessionOver, LossesPaid, R!Next,
         \/ R!FindNone
         \/ \E k \in 0 .. Len(pending) - 1 :
              R!FindSessionEnd(k) \/ R!FindDiscards(k) \/ R!FindsStart(k) \/ R!FindSeekFails(k)
  PROVE  SessionTold' /\ SessionOver' /\ LossesPaid'
<1>1. /\ SystemInv /\ PlaceTypes /\ DirStays /\ PendingRises /\ Len(pending) \in Nat
      /\ startLost' \in Nat /\ 0 \in Nat
  <2>1. PlaceTypes' BY FoundIs
  <2>2. startLost' \in Nat BY <2>1 DEF PlaceTypes
  <2> QED BY <2>2, FoundIs
<1>2. LostTold \in Nat /\ startLost \in Nat BY FoundIs, CountsAre
<1>3. CASE R!FindNone
  <2>1. /\ R!PassOver(Len(pending), 0) /\ pending' = <<>> /\ UNCHANGED <<session, headers, startLost>>
        /\ R!Fails(R!Result("eof", 0, <<>>))
    BY <1>3 DEF R!FindNone, R!NoneLeft
  <2>2. LostTold' \in Nat /\ LostTold' <= LostTold BY <1>1, <2>1, FailsNone, ToldNone
  <2>3. Len(pending) \in 0 .. Len(pending) BY <1>1
  <2>4. LossesPaid' BY <2>1, <2>2, <2>3, LossPassed
  <2>5. FromPending BY <2>1 DEF FromPending
  <2> QED BY <1>1, <2>1, <2>4, <2>5, SessionKept
<1>4. ASSUME NEW k \in 0 .. Len(pending) - 1, R!FindSessionEnd(k)
      PROVE  SessionTold' /\ SessionOver' /\ LossesPaid'
  <2>1. /\ R!EndsSession(k) /\ R!ForgetSession /\ UNCHANGED <<headers, startLost>>
        /\ R!Fails(R!Result("end", 0, <<>>))
    BY <1>4 DEF R!FindSessionEnd
  <2>2. LostTold' \in Nat /\ LostTold' <= LostTold BY <1>1, <2>1, FailsNone, ToldNone
  <2>3. k \in 0 .. Len(pending) /\ R!PassOver(k, 0) /\ pending' = R!Behind(k)
    BY <1>1, <2>1 DEF R!EndsSession
  <2>4. LossesPaid' BY <2>1, <2>2, <2>3, LossPassed
  <2> QED BY <2>1, <2>4, SessionForgotten
<1>5. ASSUME NEW k \in 0 .. Len(pending) - 1, R!FindDiscards(k)
      PROVE  SessionTold' /\ SessionOver' /\ LossesPaid'
  <2>1. R!Opens(k, FALSE, 0) /\ startLost' = R!LostAhead(k) /\ results' = results
    BY <1>5 DEF R!FindDiscards
  <2>2. LostTold' = LostTold BY <2>1, LostSame
  <2>3. LostTold' + startLost' <= LostTold + R!LostAhead(k) /\ LostTold' \in Nat
    BY <1>1, <1>2, <2>1, <2>2
  <2> QED BY <1>1, <2>1, <2>3, LossAhead, SessionOpened
<1>6. ASSUME NEW k \in 0 .. Len(pending) - 1, R!FindsStart(k)
      PROVE  SessionTold' /\ SessionOver' /\ LossesPaid'
  <2>1. /\ R!Opens(k, FALSE, 0) /\ startLost' = 0
        /\ R!Return(R!Truncated(R!LostAhead(k))) \/ results' = results
    BY <1>6 DEF R!FindsStart
  <2>2. R!LostAhead(k) \in Nat
    <3>1. PICK f : f = pending[k + 1] OBVIOUS
    <3>2. disk[f] \in Segment BY <2>1, <3>1, NextFile
    <3>3. disk[f].seq \in Nat BY <3>2 DEF Segment
    <3> QED BY <1>2, <3>1, <3>3 DEF R!LostAhead
  <2>3. LostTold' \in Nat /\ LostTold' <= LostTold + R!LostAhead(k)
    <3>1. CASE results' = results
      <4>1. LostTold' = LostTold BY <3>1, LostSame
      <4> QED BY <1>2, <2>2, <4>1
    <3>2. CASE R!Return(R!Truncated(R!LostAhead(k))) BY <1>1, <2>2, <3>2, ToldLost
    <3> QED BY <2>1, <3>1, <3>2
  <2>4. LostTold' + startLost' <= LostTold + R!LostAhead(k) BY <2>1, <2>3
  <2> QED BY <1>1, <2>1, <2>3, <2>4, LossAhead, SessionOpened
<1>7. ASSUME NEW k \in 0 .. Len(pending) - 1, R!FindSeekFails(k)
      PROVE  SessionTold' /\ SessionOver' /\ LossesPaid'
  <2>1. /\ R!Opens(k, FALSE, 1) /\ startLost' = R!LostAhead(k)
        /\ R!Fails(R!Result("error", 0, <<>>))
    BY <1>7 DEF R!FindSeekFails
  <2>2. LostTold' \in Nat /\ LostTold' <= LostTold BY <1>1, <2>1, FailsNone, ToldNone
  <2>3. LostTold' + startLost' <= LostTold + R!LostAhead(k) BY <1>1, <1>2, <2>1, <2>2
  <2>4. 1 \in Nat OBVIOUS
  <2> QED BY <1>1, <2>1, <2>2, <2>3, <2>4, LossAhead, SessionOpened
<1> QED BY <1>3, <1>4, <1>5, <1>6, <1>7

LEMMA LossCrossing ==
  ASSUME Found, PendingLast, HeadersSound, SessionTold, SessionOver, LossesPaid, R!Next,
         \/ R!CrossNone
         \/ \E k \in 0 .. Len(pending) - 1 :
              R!CrossSessionEnd(k) \/ R!CrossFollows(k) \/ R!CrossRejects(k)
  PROVE  SessionTold' /\ SessionOver' /\ LossesPaid'
<1>1. /\ SystemInv /\ PlaceTypes /\ DirStays /\ PendingRises /\ Len(pending) \in Nat
      /\ startLost' \in Nat /\ 0 \in Nat
  <2>1. PlaceTypes' BY FoundIs
  <2>2. startLost' \in Nat BY <2>1 DEF PlaceTypes
  <2> QED BY <2>2, FoundIs
<1>2. LostTold \in Nat /\ startLost \in Nat BY FoundIs, CountsAre
<1>3. CASE R!CrossNone
  <2>1. /\ R!PassOver(Len(pending), 0) /\ pending' = <<>> /\ UNCHANGED <<session, headers, startLost>>
        /\ R!Fails(R!Truncated(0))
    BY <1>3 DEF R!CrossNone, R!NoneLeft
  <2>2. LostTold' \in Nat /\ LostTold' <= LostTold BY <1>1, <2>1, FailsNone, ToldNone
  <2>3. Len(pending) \in 0 .. Len(pending) BY <1>1
  <2>4. LossesPaid' BY <2>1, <2>2, <2>3, LossPassed
  <2>5. FromPending BY <2>1 DEF FromPending
  <2> QED BY <1>1, <2>1, <2>4, <2>5, SessionKept
<1>4. ASSUME NEW k \in 0 .. Len(pending) - 1, R!CrossSessionEnd(k)
      PROVE  SessionTold' /\ SessionOver' /\ LossesPaid'
  <2>1. /\ R!EndsSession(k) /\ UNCHANGED <<headers, startLost>>
        /\ \/ R!Fails(R!Truncated(0)) /\ UNCHANGED session
           \/ R!Fails(R!Result("end", 0, <<>>)) /\ R!ForgetSession
    BY <1>4 DEF R!CrossSessionEnd
  <2>2. LostTold' \in Nat /\ LostTold' <= LostTold BY <1>1, <2>1, FailsNone, ToldNone
  <2>3. k \in 0 .. Len(pending) /\ R!PassOver(k, 0) /\ pending' = R!Behind(k)
    BY <1>1, <2>1 DEF R!EndsSession
  <2>4. LossesPaid' BY <2>1, <2>2, <2>3, LossPassed
  <2>5. FromPending BY <1>1, <2>1, PendingOpened
  <2>6. CASE UNCHANGED session BY <1>1, <2>1, <2>4, <2>5, <2>6, SessionKept
  <2>7. CASE R!ForgetSession BY <2>1, <2>4, <2>7, SessionForgotten
  <2> QED BY <2>1, <2>6, <2>7
<1>5. ASSUME NEW k \in 0 .. Len(pending) - 1, R!CrossFollows(k)
      PROVE  SessionTold' /\ SessionOver' /\ LossesPaid'
  <2>1. R!Opens(k, FALSE, 0) /\ startLost' = startLost /\ results' = results
    BY <1>5 DEF R!CrossFollows
  <2>2. LostTold' = LostTold BY <2>1, LostSame
  <2>3. PICK j : j = No(pending[k + 1]) OBVIOUS
  <2>4. j \in Nat
    <3>1. PICK f : f = pending[k + 1] OBVIOUS
    <3>2. j \in 1 .. Len(Segments) BY <2>1, <2>3, <3>1, NextFile
    <3> QED BY <3>2, FoundIs, SegmentIs
  <2>5. \A i \in j - 0 .. j - 1 : i \in 1 .. Len(Segments) /\ Above(i) BY <2>4
  <2>6. LostTold' \in Nat /\ LostTold' + startLost' <= LostTold + startLost + 0
    BY <1>2, <2>1, <2>2
  <2> QED BY <1>1, <2>1, <2>3, <2>5, <2>6, LossOpened, SessionOpened
<1>6. ASSUME NEW k \in 0 .. Len(pending) - 1, R!CrossRejects(k)
      PROVE  SessionTold' /\ SessionOver' /\ LossesPaid'
  <2>1. PICK f : f = pending[k + 1] OBVIOUS
  <2>2. PICK n : n = R!LostBetween(f) OBVIOUS
  <2>3. /\ R!Crossing /\ R!Opens(k, TRUE, 0) /\ R!Fails(R!Truncated(n))
        /\ startLost' = startLost
    BY <1>6, <2>1, <2>2 DEF R!CrossRejects
  <2>4. PICK j : j = No(f) OBVIOUS
  <2>5. n \in Nat /\ \A i \in j - n .. j - 1 : i \in 1 .. Len(Segments) /\ Above(i)
    BY <2>1, <2>2, <2>3, <2>4, LostWithin
  <2>6. LostTold' \in Nat /\ LostTold' <= LostTold + n BY <1>1, <2>3, <2>5, ToldLost
  <2>7. LostTold' + startLost' <= LostTold + startLost + n
    <3>1. PICK a, b, c : a = LostTold /\ b = LostTold' /\ c = startLost OBVIOUS
    <3>2. a \in Nat /\ b \in Nat /\ c \in Nat /\ b <= a + n BY <1>2, <2>6, <3>1
    <3>3. b + c <= a + c + n BY <2>5, <3>2
    <3> QED BY <2>3, <3>1, <3>3
  <2>8. j = No(pending[k + 1]) BY <2>1, <2>4
  <2> QED BY <1>1, <2>3, <2>5, <2>6, <2>7, <2>8, LossOpened, SessionOpened
<1> QED BY <1>3, <1>4, <1>5, <1>6

LEMMA LossReading ==
  ASSUME Found, PendingLast, HeadersSound, SessionTold, SessionOver, LossesPaid, R!Next
  PROVE  SessionTold' /\ SessionOver' /\ LossesPaid'
<1>1. SystemInv /\ readFaults \in Nat BY FoundIs, CountsAre
<1>2. ASSUME UNCHANGED <<R!place, readFaults>>,
             results' = results \/ \E y : results' = Append(results, y) /\ y.lost = 0
      PROVE  SessionTold' /\ SessionOver' /\ LossesPaid'
  <2>1. UNCHANGED <<pending, session, headers, startLost>> BY <1>2 DEF R!place
  <2>2. LostTold' \in Nat /\ LostTold' <= LostTold BY <1>1, <1>2, ToldNone
  <2> QED BY <1>1, <1>2, <2>1, <2>2, LossInPlace
<1>3. CASE R!ReadAtEnd
  <2>1. /\ UNCHANGED <<pending, session, headers, startLost, readFaults>>
        /\ R!Return(R!Result("eof", 0, <<>>))
    BY <1>3 DEF R!ReadAtEnd
  <2>2. LostTold' \in Nat /\ LostTold' <= LostTold BY <1>1, <2>1, FailsNone, ToldNone
  <2> QED BY <1>1, <2>1, <2>2, LossInPlace
<1>4. ASSUME NEW n, R!Read(n) PROVE SessionTold' /\ SessionOver' /\ LossesPaid'
  <2>1. UNCHANGED <<R!place, readFaults, results>> BY <1>4 DEF R!Read
  <2> QED BY <1>2, <2>1
<1>5. CASE R!ReadPiece
  <2>1. UNCHANGED <<pending, session, headers, startLost, readFaults, results>>
    BY <1>5 DEF R!ReadPiece
  <2>2. LostTold' \in Nat /\ LostTold' <= LostTold BY <1>1, <2>1, ToldNone
  <2> QED BY <1>1, <2>1, <2>2, LossInPlace
<1>6. CASE R!PieceFails
  <2>1. /\ UNCHANGED <<pending, session, headers, startLost>> /\ readFaults' = readFaults + 1
        /\ R!Fails(R!Result("error", 0, <<>>))
    BY <1>6 DEF R!PieceFails, R!ReadFault
  <2>2. LostTold' \in Nat /\ LostTold' <= LostTold BY <1>1, <2>1, FailsNone, ToldNone
  <2>3. readFaults' \in Nat /\ readFaults <= readFaults' BY <1>1, <2>1
  <2> QED BY <2>1, <2>2, <2>3, LossInPlace
<1>7. CASE R!HeaderDone
  <2>1. rpc = "header" /\ need = 0 BY <1>7 DEF R!HeaderDone
  <2>2. PICK r \in 1 .. Len(lens) : R!Decoded = {lens[r]} /\ implied \in {<<>>, <<lens[r]>>}
    BY <2>1, HeaderOfOne
  <2>3. UNCHANGED <<R!place, readFaults, results>>
    <3>1. PICK m \in R!Decoded :
            implied \in {<<>>, <<m>>} => UNCHANGED R!place /\ UNCHANGED results
      BY <1>7 DEF R!HeaderDone
    <3>2. m = lens[r] BY <2>2, <3>1
    <3>3. readFaults' = readFaults BY <1>7 DEF R!HeaderDone
    <3> QED BY <2>2, <3>1, <3>2, <3>3
  <2> QED BY <1>2, <2>3
<1>8. CASE R!PayloadDone
  <2>1. /\ UNCHANGED <<R!place, readFaults>>
        /\ results' = results \/ R!Return(R!Result("record", 0, got))
    BY <1>8 DEF R!PayloadDone
  <2> QED BY <1>2, <2>1, FailsNone
<1>9. CASE R!SkipDone
  <2>1. UNCHANGED <<R!place, readFaults>> /\ R!Return(R!Result("overflow", 0, got))
    BY <1>9 DEF R!SkipDone
  <2> QED BY <1>2, <2>1, FailsNone
<1>10. CASE \/ R!FindNone
            \/ \E k \in 0 .. Len(pending) - 1 :
                 R!FindSessionEnd(k) \/ R!FindDiscards(k) \/ R!FindsStart(k) \/ R!FindSeekFails(k)
  BY <1>10, LossFinding
<1>11. CASE \/ R!CrossNone
            \/ \E k \in 0 .. Len(pending) - 1 :
                 R!CrossSessionEnd(k) \/ R!CrossFollows(k) \/ R!CrossRejects(k)
  BY <1>11, LossCrossing
<1> QED BY <1>3, <1>4, <1>5, <1>6, <1>7, <1>8, <1>9, <1>10, <1>11 DEF R!Next, R!Call, R!Step

-----------------------------------------------------------------------------
(* Beside a writer, and before there is a reader.                          *)

\* A file that has been listed and made opens no more than it did.
LEMMA OpensNoMore ==
  ASSUME SystemInv, Sources, KnownDone, Write, phase = "live", NEW f \in 1 .. Len(disk),
         NEW m, m = No(f), m \in 1 .. Len(Segments), disk'[f].whole
  PROVE  disk[f].whole
<1>1. Inv /\ Writing /\ Next BY KnownIs DEF Write
<1>2. m \in 1 .. Len(files) /\ m = disk[f].no BY <1>1, SourceIs DEF No
<1>3. disk'[f] = IF m \in Present' THEN Stored(m, files'[m])
                 ELSE [disk[f] EXCEPT !.whole = FALSE]
  BY <1>2, FileNow
<1>4. m \in Present'
  <2> SUFFICES ASSUME m \notin Present' PROVE FALSE OBVIOUS
  <2>1. disk[f] \in Segment BY DEF SystemInv, SystemTypes
  <2>2. disk'[f] = [disk[f] EXCEPT !.whole = FALSE] BY <1>3
  <2>3. ~ disk'[f].whole BY <2>1, <2>2 DEF Segment
  <2> QED BY <2>3
<1>5. disk'[f].whole = files'[m].whole
  <2>1. PICK g : g = files'[m] OBVIOUS
  <2>2. PICK x : x = disk'[f] OBVIOUS
  <2>3. x = Stored(m, g) BY <1>3, <1>4, <2>1, <2>2
  <2>4. x.whole = g.whole BY <2>3 DEF Stored
  <2> QED BY <2>1, <2>2, <2>4
<1>6. files'[m].whole = files[m].whole BY <1>2, WriteGrows DEF FilesGrow, SameHeader
<1>7. m \in Present BY <1>1, <1>2, <1>4, NamesStay
<1>8. disk[f] = Stored(m, files[m]) BY <1>2, <1>7 DEF KnownDone, No
<1>9. disk[f].whole = files[m].whole BY <1>8 DEF Stored
<1> QED BY <1>5, <1>6, <1>9

LEMMA LossBesideWriter ==
  ASSUME SystemInv, Sources, Known, DiskInv, KnownDone, PendingLast,
         SessionTold, SessionOver, LossesPaid,
         Write, phase = "live", SystemInv', Sources'
  PROVE  SessionTold' /\ SessionOver' /\ LossesPaid'
<1>1. /\ UNCHANGED <<pending, session, headers, startLost, results, readFaults>>
      /\ SystemTypes /\ PlaceTypes
  BY DEF Write, readervars, SystemInv, ReaderInv
<1>2. /\ Grow /\ Len(Segments) \in Nat /\ Len(Segments') \in Nat
      /\ Len(Segments) <= Len(Segments')
      /\ \A i \in 1 .. Len(Segments) :
           i \in 1 .. Len(Segments') /\ Segments'[i].session = Segments[i].session
           /\ Segments'[i].seq = Segments[i].seq
  <2>1. Grow BY WriteGrows
  <2>2. Len(Segments) \in Nat /\ Len(Segments') \in {Len(Segments), Len(Segments) + 1}
    BY <2>1 DEF Known, Grow
  <2>3. Len(Segments') \in Nat /\ Len(Segments) <= Len(Segments') BY <2>2
  <2>4. \A i \in 1 .. Len(Segments) : i \in 1 .. Len(Segments') BY <2>2, <2>3
  <2>5. \A i \in 1 .. Len(Segments) :
          Segments'[i].session = Segments[i].session /\ Segments'[i].seq = Segments[i].seq
    BY <2>1 DEF Grow
  <2> QED BY <2>1, <2>2, <2>3, <2>4, <2>5
<1>3. /\ Len(disk) \in Nat /\ Len(disk') = Len(disk) /\ Len(pending) \in Nat
      /\ \A k \in 1 .. Len(disk) : disk'[k].no = No(k)
  <2>1. Len(disk) \in Nat /\ Len(pending) \in Nat BY <1>1 DEF SystemTypes, PlaceTypes
  <2>2. Len(disk') = Len(disk)
    <3>1. disk' = Refreshed BY DEF Write
    <3> QED BY <2>1, <3>1 DEF Refreshed
  <2>3. \A k \in 1 .. Len(disk) : disk'[k].no = No(k) BY FilesKeepNumbers DEF No
  <2> QED BY <2>1, <2>2, <2>3
<1>4. /\ \A a \in 1 .. Len(headers) : headers[a].file \in 1 .. Len(disk)
      /\ \A p \in 1 .. Len(pending) : pending[p] \in 1 .. Len(disk)
  BY <1>1, HeaderFiles DEF PlaceTypes
<1>5. \A a \in 1 .. Len(headers) : disk'[headers[a].file].no = No(headers[a].file)
  BY <1>3, <1>4
<1>6. SessionTold'
  <2> SUFFICES ASSUME session # <<>>
               PROVE  /\ headers # <<>>
                      /\ disk'[headers[Len(headers)].file].no <= Len(Segments')
                      /\ session = <<Segments'[disk'[headers[Len(headers)].file].no].session>>
    BY <1>1 DEF SessionTold, No
  <2>1. PICK g : g = headers[Len(headers)].file OBVIOUS
  <2>2. PICK h : h = No(g) OBVIOUS
  <2>3. headers # <<>> /\ h <= Len(Segments) /\ session = <<Segments[h].session>>
    BY <2>1, <2>2 DEF SessionTold
  <2>4. Len(headers) \in 1 .. Len(headers) BY <1>1, <2>3 DEF PlaceTypes
  <2>5. g \in 1 .. Len(disk) BY <1>4, <2>1, <2>4
  <2>6. disk'[g].no = h BY <1>3, <2>2, <2>5
  <2>7. h \in 1 .. Len(Segments)
    <3>1. h <= Len(Segments) => h \in 1 .. Len(Segments) BY <1>1, <2>2, <2>5, FileIs
    <3> QED BY <2>3, <3>1
  <2>8. h <= Len(Segments') BY <1>2, <2>7
  <2>9. session = <<Segments'[h].session>> BY <1>2, <2>3, <2>7
  <2> QED BY <2>1, <2>3, <2>6, <2>8, <2>9
<1>7. SessionOver'
  <2> SUFFICES ASSUME session = <<>>, NEW a \in 1 .. Len(headers), NEW p \in 1 .. Len(pending)
               PROVE  \E o \in 1 .. Len(Segments') :
                        /\ Segments'[o].seq = 0
                        /\ disk'[headers[a].file].no < o /\ o <= disk'[pending[p]].no
    BY <1>1 DEF SessionOver, No
  <2>1. PICK o \in 1 .. Len(Segments) :
          Segments[o].seq = 0 /\ No(headers[a].file) < o /\ o <= No(pending[p])
    BY DEF SessionOver
  <2>2. o \in 1 .. Len(Segments') /\ Segments'[o].seq = 0 BY <1>2, <2>1
  <2>3. disk'[headers[a].file].no = No(headers[a].file) BY <1>5
  <2>4. disk'[pending[p]].no = No(pending[p]) BY <1>3, <1>4
  <2> QED BY <2>1, <2>2, <2>3, <2>4
<1>8. Vanished \subseteq Vanished'
  <2> SUFFICES ASSUME NEW i \in Vanished PROVE i \in Vanished' OBVIOUS
  <2>1. /\ i \in 1 .. Len(Segments)
        /\ ~ \E f \in 1 .. Len(disk) : No(f) = i /\ disk[f].whole
    BY DEF Vanished
  <2>2. PICK a \in 1 .. Len(headers) : i <= No(headers[a].file) BY DEF Vanished
  <2>3. a \in 1 .. Len(headers') /\ i <= disk'[headers'[a].file].no
    <3>1. headers' = headers BY <1>1
    <3> QED BY <1>5, <2>2, <3>1
  <2>4. i \in 1 .. Len(Segments') BY <1>2, <2>1
  <2>5. ~ \E f \in 1 .. Len(disk') : disk'[f].no = i /\ disk'[f].whole
    <3> SUFFICES ASSUME NEW f \in 1 .. Len(disk), disk'[f].no = i, disk'[f].whole PROVE FALSE
      BY <1>3
    <3>1. No(f) = i BY <1>3
    <3>2. disk[f].whole BY <2>1, <3>1, OpensNoMore
    <3> QED BY <2>1, <3>1, <3>2
  <2> QED BY <2>3, <2>4, <2>5 DEF Vanished, No
<1>9. Unopened' \subseteq Unopened
  <2> SUFFICES ASSUME NEW f \in Unopened' PROVE f \in Unopened OBVIOUS
  <2>1. /\ f \in 1 .. Len(disk) /\ disk'[f].whole /\ f <= Reached /\ pending # <<>>
        /\ \A a \in 1 .. Len(headers) : headers[a].file < f
    BY <1>1, <1>3 DEF Unopened, Reached
  <2>2. PICK n : n = Len(disk) OBVIOUS
  <2>3. f < n /\ f \in Nat /\ n \in 1 .. Len(disk)
    <3>1. Len(pending) # 0 BY <1>1, <2>1 DEF PlaceTypes
    <3>2. f <= n - Len(pending) BY <2>1, <2>2 DEF Reached
    <3> QED BY <1>3, <2>1, <2>2, <3>1, <3>2
  <2>4. No(f) < No(n) BY <2>1, <2>3 DEF DiskInv, DiskOrdered
  <2>5. No(f) \in 1 .. Len(Segments) + 1 /\ No(n) \in 1 .. Len(Segments) + 1
    BY <2>1, <2>3 DEF DiskInv, DiskTrue
  <2>6. No(f) \in 1 .. Len(Segments) BY <1>2, <2>4, <2>5
  <2>7. disk[f].whole BY <2>1, <2>6, OpensNoMore
  <2> QED BY <2>1, <2>7 DEF Unopened
<1>10. LostTold' = LostTold BY <1>1, LostSame
<1>11. /\ IsFiniteSet(Vanished) /\ IsFiniteSet(Unopened) /\ LostTold \in Nat
       /\ startLost \in Nat /\ readFaults \in Nat
       /\ Cardinality(Vanished) \in Nat /\ Cardinality(Unopened) \in Nat
  BY CountsAre
<1>12. IsFiniteSet(Vanished') /\ Cardinality(Vanished') \in Nat
  <2>1. Vanished' \subseteq 1 .. Len(Segments') BY DEF Vanished
  <2> QED BY <1>2, <2>1, CountOf
<1>13. Cardinality(Vanished) <= Cardinality(Vanished')
  <2>1. PICK S, T : S = Vanished /\ T = Vanished' OBVIOUS
  <2>2. S \in SUBSET T /\ IsFiniteSet(T) BY <1>8, <1>12, <2>1
  <2>3. Cardinality(S) <= Cardinality(T) BY <2>2, FS_Subset
  <2> QED BY <2>1, <2>3
<1>14. Cardinality(Unopened') <= Cardinality(Unopened) /\ Cardinality(Unopened') \in Nat
  <2>1. PICK S, T : S = Unopened' /\ T = Unopened OBVIOUS
  <2>2. S \in SUBSET T /\ IsFiniteSet(T) BY <1>9, <1>11, <2>1
  <2>3. IsFiniteSet(S) /\ Cardinality(S) <= Cardinality(T) BY <2>2, FS_Subset
  <2>4. Cardinality(S) \in Nat BY <2>3, FS_CardinalityType
  <2> QED BY <2>1, <2>3, <2>4
<1>15. LossesPaid'
  <2>1. PICK u, v, w, x, a, b, c :
          /\ u = Cardinality(Unopened) /\ v = Cardinality(Vanished)
          /\ w = Cardinality(Vanished') /\ x = Cardinality(Unopened')
          /\ a = LostTold /\ b = startLost /\ c = readFaults
    OBVIOUS
  <2>2. /\ u \in Nat /\ v \in Nat /\ w \in Nat /\ x \in Nat
        /\ a \in Nat /\ b \in Nat /\ c \in Nat
    BY <1>11, <1>12, <1>14, <2>1
  <2>3. x <= u /\ v <= w BY <1>13, <1>14, <2>1
  <2>4. a + b + u <= c + v BY <2>1 DEF LossesPaid
  <2>5. a + b + x <= c + w BY <2>2, <2>3, <2>4
  <2> QED BY <1>1, <1>10, <2>1, <2>5 DEF LossesPaid
<1> QED BY <1>6, <1>7, <1>15

\* No header has been told.
LEMMA LossUntold ==
  ASSUME SystemInv, Known, LossesPaid, headers = <<>>, headers' = <<>>, session' = <<>>,
         UNCHANGED <<startLost, results, readFaults>>,
         pending' = <<>> \/ Reached' = 0
  PROVE  SessionTold' /\ SessionOver' /\ LossesPaid'
<1>1. SessionTold' BY DEF SessionTold
<1>2. SessionOver' BY DEF SessionOver
<1>3. Vanished = {} BY DEF Vanished
<1>4. Vanished' = {} BY DEF Vanished
<1>5. Unopened' = {}
  <2> SUFFICES ASSUME NEW f \in Unopened' PROVE FALSE OBVIOUS
  <2>1. f \in 1 .. Len(disk') /\ f <= Reached' /\ pending' # <<>> BY DEF Unopened
  <2> QED BY <2>1
<1>6. LostTold' = LostTold BY LostSame
<1>7. LostTold \in Nat /\ startLost \in Nat /\ readFaults \in Nat /\ Cardinality(Unopened) \in Nat
  BY CountsAre
<1>8. Cardinality(Vanished) = 0 /\ Cardinality(Vanished') = 0 /\ Cardinality(Unopened') = 0
  BY <1>3, <1>4, <1>5, FS_EmptySet
<1>9. LossesPaid'
  <2>1. PICK u, a, b, c :
          u = Cardinality(Unopened) /\ a = LostTold /\ b = startLost /\ c = readFaults
    OBVIOUS
  <2>2. a + b + u <= c + 0 BY <1>8, <2>1 DEF LossesPaid
  <2>3. u \in Nat /\ a \in Nat /\ b \in Nat /\ c \in Nat BY <1>7, <2>1
  <2>4. a + b + 0 <= c + 0 BY <2>2, <2>3
  <2> QED BY <1>6, <1>8, <2>1, <2>4 DEF LossesPaid
<1> QED BY <1>1, <1>2, <1>9

-----------------------------------------------------------------------------
(* The steps of the system.                                                *)

LEMMA LossStep ==
  ASSUME SystemInv, Sources, DiskInv, ReaderSound, SequencesLeft, PendingLast, KnownDone,
         HeadersSound, SessionTold, SessionOver, LossesPaid,
         [SystemNext]_sysvars, SystemInv', Sources'
  PROVE  SessionTold' /\ SessionOver' /\ LossesPaid'
<1>1. Known BY SourcesKnown
<1>2. ASSUME phase \in {"writing", "damaging"}, UNCHANGED readervars
      PROVE  SessionTold' /\ SessionOver' /\ LossesPaid'
  <2>1. headers = <<>> /\ session = <<>> /\ pending = <<>> BY <1>2 DEF SystemInv, Unborn
  <2>2. UNCHANGED <<headers, session, pending, startLost, results, readFaults>>
    BY <1>2 DEF readervars
  <2> QED BY <1>1, <2>1, <2>2, LossUntold
<1>3. ASSUME NEW listing \in Seq(Segment), NEW lengths, R!New(listing, lengths),
             phase \in {"writing", "damaging"}
      PROVE  SessionTold' /\ SessionOver' /\ LossesPaid'
  <2>1. /\ headers = <<>> /\ session = <<>> /\ pending = <<>>
        /\ current = R!NoFile /\ results = <<>>
    BY <1>3 DEF SystemInv, Unborn
  <2>2. UNCHANGED <<headers, session, startLost, results, readFaults>> BY <1>3 DEF R!New
  <2>3. Reached' = 0 BY <1>3, <2>1, AllPending
  <2> QED BY <1>1, <2>1, <2>2, <2>3, LossUntold
<1>4. ASSUME UNCHANGED <<disk, readervars>>, Segments' = Segments
      PROVE  SessionTold' /\ SessionOver' /\ LossesPaid'
  <2>1. /\ UNCHANGED <<pending, headers, session, startLost, results, readFaults>>
        /\ disk' = disk
    BY <1>4 DEF readervars
  <2>2. Vanished' = Vanished BY <1>4, <2>1 DEF Vanished, No
  <2>3. Unopened' = Unopened BY <2>1 DEF Unopened, Reached
  <2>4. LostTold' = LostTold BY <2>1, LostSame
  <2>5. LossesPaid' BY <2>1, <2>2, <2>3, <2>4 DEF LossesPaid
  <2>6. SessionTold' BY <1>4, <2>1 DEF SessionTold, No
  <2>7. SessionOver' BY <1>4, <2>1 DEF SessionOver, No
  <2> QED BY <2>5, <2>6, <2>7
<1>5. CASE Write
  <2>1. CASE phase = "live" BY <1>1, <1>5, <2>1, LossBesideWriter
  <2>2. CASE phase = "writing"
    <3>1. UNCHANGED readervars BY <1>5 DEF Write
    <3> QED BY <1>2, <2>2, <3>1
  <2> QED BY <1>5, <2>1, <2>2 DEF Write
<1>6. CASE StopWriting
  <2>1. UNCHANGED readervars /\ phase \in {"writing", "live"} BY <1>6 DEF StopWriting
  <2>2. CASE phase = "live"
    <3>1. disk' = disk BY <1>6, <2>2 DEF StopWriting
    <3>2. Segments' = Segments BY <1>6, SourceKept
    <3> QED BY <1>4, <2>1, <3>1, <3>2
  <2>3. CASE phase = "writing" BY <1>2, <2>1, <2>3
  <2> QED BY <2>1, <2>2, <2>3
<1>7. CASE OpenBesideWriter
  <2>1. phase = "writing" BY <1>7 DEF OpenBesideWriter
  <2>2. PICK listing, lengths : R!New(listing, lengths) BY <1>7 DEF OpenBesideWriter
  <2>3. disk' = listing BY <2>2 DEF R!New
  <2>4. listing \in Seq(Segment) BY <2>3 DEF SystemInv, SystemTypes
  <2> QED BY <1>3, <2>1, <2>2, <2>4
<1>8. CASE OpenReader
  <2>1. R!New(disk, lens) /\ phase = "damaging" /\ disk \in Seq(Segment)
    BY <1>8 DEF OpenReader, SystemInv, SystemTypes
  <2> QED BY <1>3, <2>1
<1>9. ASSUME NEW i \in 1 .. Len(disk), Damage(i) \/ Corrupt(i)
      PROVE  SessionTold' /\ SessionOver' /\ LossesPaid'
  <2>1. phase = "damaging" /\ UNCHANGED readervars BY <1>9 DEF Damage, Corrupt
  <2> QED BY <1>2, <2>1
<1>10. CASE ReadOn
  <2>1. R!Next /\ phase # "writing" BY <1>10 DEF ReadOn
  <2>2. lens = Written BY <2>1 DEF Sources
  <2>3. DirStays BY <1>10, ReaderStays
  <2>4. PlaceTypes' BY DEF SystemInv, ReaderInv
  <2>5. Found BY <1>1, <2>2, <2>3, <2>4 DEF Found
  <2> QED BY <2>1, <2>5, LossReading
<1>11. CASE UNCHANGED sysvars
  <2>1. UNCHANGED <<disk, readervars>> BY <1>11 DEF sysvars, rdvars
  <2>2. Segments' = Segments BY <1>11, SourceKept
  <2> QED BY <1>4, <2>1, <2>2
<1> QED BY <1>5, <1>6, <1>7, <1>8, <1>9, <1>10, <1>11 DEF SystemNext

LEMMA LossKept ==
  LossInv /\ ContainInv /\ HeadersInv /\ SoundInv /\ SystemInv /\ [SystemNext]_sysvars
    /\ (SystemInv /\ SoundInv)' => LossInv'
<1> SUFFICES ASSUME LossInv, ContainInv, HeadersInv, SoundInv, SystemInv, [SystemNext]_sysvars,
                    SystemInv', Sources'
             PROVE  LossInv'
  BY DEF SoundInv
<1>1. PendingLast /\ Sources /\ HeadersSound BY DEF ContainInv, SoundInv, HeadersInv
<1>2. ASSUME MaxCorrupted = 0, SequencesLeft'
      PROVE  SessionTold' /\ SessionOver' /\ LossesPaid'
  <2>1. SequencesLeft BY <1>1, <1>2, SequencesBefore
  <2>2. DiskInv /\ ReaderSound BY <1>2, <2>1 DEF SoundInv
  <2>3. KnownDone BY <1>2, <2>1 DEF ContainInv
  <2>4. SessionTold /\ SessionOver /\ LossesPaid BY <1>2, <2>1 DEF LossInv
  <2> QED BY <1>1, <2>1, <2>2, <2>3, <2>4, LossStep
<1> QED BY <1>2 DEF LossInv

LEMMA LossInit == SystemInit /\ SystemInv /\ SoundInv => LossInv
<1> SUFFICES ASSUME SystemInit, SystemInv, SoundInv PROVE LossInv OBVIOUS
<1>1. /\ pending = <<>> /\ headers = <<>> /\ session = <<>> /\ results = <<>>
      /\ startLost = 0 /\ readFaults = 0
  BY DEF SystemInit, R!Init
<1>2. Known BY SourcesKnown DEF SoundInv
<1>3. SessionTold /\ SessionOver BY <1>1 DEF SessionTold, SessionOver
<1>4. Vanished = {} /\ Unopened = {} BY <1>1 DEF Vanished, Unopened
<1>5. LostTold = 0
  <2>1. PICK Y : Y = SumsOf(results) OBVIOUS
  <2>2. results \in Seq(Outcome) BY DEF SystemInv, ReaderInv, RestTypes
  <2>3. Y[0] = 0 BY <2>1, <2>2, SumsAre
  <2>4. LostTold = Y[Len(results)] BY <2>1 DEF LostTold, SumsOf
  <2>5. Len(results) = 0 BY <1>1
  <2> QED BY <2>3, <2>4, <2>5
<1>6. Cardinality(Vanished) = 0 /\ Cardinality(Unopened) = 0 BY <1>4, FS_EmptySet
<1>7. LossesPaid BY <1>1, <1>5, <1>6 DEF LossesPaid
<1> QED BY <1>3, <1>7 DEF LossInv

LEMMA LossIsPaid ==
  ASSUME SystemInv, SoundInv, LossInv, MaxCorrupted = 0, SequencesLeft
  PROVE  LossNotOverstated
<1> SUFFICES ASSUME phase = "reading"
             PROVE  LostTold <= readFaults + Cardinality({i \in 1 .. Len(stored) :
                                  ~ \E f \in 1 .. Len(disk) :
                                      disk[f].no = i /\ disk[f].whole})
  BY DEF LossNotOverstated
<1>1. PICK W : W = {i \in 1 .. Len(stored) :
                      ~ \E f \in 1 .. Len(disk) : disk[f].no = i /\ disk[f].whole}
  OBVIOUS
<1>2. Known /\ LossesPaid BY SourcesKnown DEF SoundInv, LossInv
<1>3. Segments = stored BY DEF Segments, Writing
<1>4. IsFiniteSet(W) /\ Cardinality(W) \in Nat
  <2>1. W \subseteq 1 .. Len(stored) BY <1>1
  <2>2. Len(stored) \in Nat BY <1>2, <1>3 DEF Known
  <2> QED BY <2>1, <2>2, CountOf
<1>5. Vanished \in SUBSET W BY <1>1, <1>3 DEF Vanished, No
<1>6. Cardinality(Vanished) <= Cardinality(W) BY <1>4, <1>5, FS_Subset
<1>7. /\ LostTold \in Nat /\ startLost \in Nat /\ readFaults \in Nat
      /\ Cardinality(Vanished) \in Nat /\ Cardinality(Unopened) \in Nat
  BY <1>2, CountsAre
<1>8. LostTold + startLost + Cardinality(Unopened) <= readFaults + Cardinality(Vanished)
  BY <1>2 DEF LossesPaid
<1>9. LostTold <= readFaults + Cardinality(W)
  <2>1. PICK u, v, w, a, b, c :
          /\ u = Cardinality(Unopened) /\ v = Cardinality(Vanished) /\ w = Cardinality(W)
          /\ a = LostTold /\ b = startLost /\ c = readFaults
    OBVIOUS
  <2>2. /\ u \in Nat /\ v \in Nat /\ w \in Nat /\ a \in Nat /\ b \in Nat /\ c \in Nat
    BY <1>4, <1>7, <2>1
  <2>3. v <= w /\ a + b + u <= c + v BY <1>6, <1>8, <2>1
  <2>4. a <= c + w BY <2>2, <2>3
  <2> QED BY <2>1, <2>4
<1> QED BY <1>1, <1>9

\* A loss is never overstated: of a log whose damage only took things away, the files
\* that the reads have told lost are no more than those that are gone or no longer open
\* and the failures to open one, counted each file once, however the losses ahead of a
\* session and between its files come about, and beside a writer too.
THEOREM LossesNotOverstated ==
  SystemSpec => [](MaxCorrupted = 0 /\ SequencesLeft => LossNotOverstated)
<1>1. SystemInv /\ SoundInv /\ LossInv =>
        (MaxCorrupted = 0 /\ SequencesLeft => LossNotOverstated)
  BY LossIsPaid
<1>2. SystemInit => HeadersInv BY HeadersInit
<1> QED BY <1>1, <1>2, SystemTyped, SystemSound, HeadersStep, ContainInit, ContainKept,
           LossInit, LossKept, PTL DEF SystemSpec
=============================================================================
