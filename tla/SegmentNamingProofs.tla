------------------------- MODULE SegmentNamingProofs -------------------------
(***************************************************************************)
(* What holds of SegmentNaming for every step of the machine's clock,      *)
(* every resolution, and any number of files, writers and collisions.      *)
(***************************************************************************)
EXTENDS SegmentNaming, WellFoundedInduction, TLAPS

-----------------------------------------------------------------------------
(* Arithmetic.                                                             *)

\* A set of numbers with an upper bound has a highest: the least upper bound.
LEMMA HighestExists ==
  ASSUME NEW S, S \subseteq Nat, S # {}, NEW b \in Nat, \A x \in S : x <= b
  PROVE  Highest(S) \in S /\ \A x \in S : x <= Highest(S)
<1> DEFINE Bounds == {n \in Nat : \A x \in S : x <= n}
           R == OpToRel(<, Nat)
<1>1. Bounds \subseteq Nat /\ Bounds # {} OBVIOUS
<1>2. IsWellFoundedOn(R, Nat) BY NatLessThanWellFounded
<1>3. PICK m \in Bounds : \A n \in Bounds : <<n, m>> \notin R
  <2> HIDE DEF Bounds, R
  <2> QED BY <1>1, <1>2, WFMin
<1>4. \A n \in Bounds : ~ (n < m) BY <1>3 DEF OpToRel
<1>5. m \in S
  <2> SUFFICES ASSUME m \notin S PROVE FALSE OBVIOUS
  <2>1. \A x \in S : x < m OBVIOUS
  <2>2. PICK x \in S : x < m BY <2>1
  <2>3. m - 1 \in Nat /\ \A y \in S : y <= m - 1 BY <2>1, <2>2
  <2> QED BY <1>4, <2>2, <2>3
<1>6. \E x \in S : \A y \in S : y <= x BY <1>5
<1> QED BY <1>6 DEF Highest

\* The monotonic clock does not go back, and shows a sleep of a step or more.
LEMMA InstantMoves ==
  ASSUME NEW G \in Nat \ {0}, NEW a \in Nat, NEW b \in Nat, a <= b
  PROVE  /\ a - (a % G) \in Nat /\ b - (b % G) \in Nat
         /\ a - (a % G) <= b - (b % G)
         /\ b >= a + G => b - (b % G) > a - (a % G)
<1> DEFINE p == a \div G
           q == b \div G
<1>1. /\ p \in Nat /\ a % G \in 0 .. G - 1 /\ a = G * p + (a % G)
      /\ q \in Nat /\ b % G \in 0 .. G - 1 /\ b = G * q + (b % G)
  OBVIOUS
<1> HIDE DEF p, q
<1>2. G * p \in Nat /\ G * q \in Nat BY <1>1
<1>3. p <= q
  <2> SUFFICES ASSUME q + 1 <= p PROVE FALSE BY <1>1
  <2>1. G * (q + 1) <= G * p BY <1>1
  <2>2. G * (q + 1) = G * q + G BY <1>1
  <2> QED BY <1>1, <1>2, <2>1, <2>2
<1>4. G * p <= G * q BY <1>1, <1>3
<1>5. b >= a + G => G * q > G * p BY <1>1, <1>2
<1> QED BY <1>1, <1>2, <1>4, <1>5

\* The value a widened resolution takes is a resolution, and is no smaller.
LEMMA DoubledRange ==
  ASSUME NEW n \in Resolution .. Largest
  PROVE  Doubled(n) \in n .. Largest
BY NamingAssumption DEF Doubled

-----------------------------------------------------------------------------
(* The inductive invariant.                                                *)

\* The clock is anchored in the past, at a time after the epoch.
Anchored == mono <= Instant /\ (pc # "down" => delta > 0)

\* Once the clock has been moved past the newest name, no name is ahead of it.
Behind ==
  pc \in {"idle", "attempt", "collision", "nap"} => \A id \in names : id <= Now

\* After a sleep that covers a step of the clock every name is behind it, so that
\* a second collision shows the sleep to have been shorter.
Slept ==
  /\ pc = "attempt" /\ collided /\ Doubled(timerResolution) >= Granule =>
       \A id \in names : id < Now
  /\ pc = "collision" /\ collided => Doubled(timerResolution) < Granule

NamingInv ==
  TypeOK /\ Anchored /\ Behind /\ Slept /\ ResolutionFits /\ AdjustmentsTold

-----------------------------------------------------------------------------
(* The steps.                                                              *)

\* The clock's readings are times, and none is zero.
LEMMA Readings ==
  ASSUME TypeOK, Anchored
  PROVE  /\ Instant \in Nat /\ Now \in Nat /\ Now >= delta
         /\ pc # "down" => Now > 0
         /\ \A id \in names : id \in Nat /\ id > 0 /\ id < Largest
<1>1. /\ time \in Nat /\ delta \in Nat /\ mono \in Nat /\ names \subseteq 1 .. Largest - 1
      /\ Granule \in Nat \ {0} /\ Largest \in Nat \ {0}
  BY NamingAssumption DEF TypeOK
<1>2. Instant \in Nat BY <1>1, InstantMoves DEF Instant
<1>3. mono <= Instant /\ (pc # "down" => delta > 0) BY DEF Anchored
<1> QED BY <1>1, <1>2, <1>3 DEF Now

\* Time that passes moves no reading back; a step of the clock moves it on.
LEMMA TimePasses ==
  ASSUME TypeOK, Anchored, time' \in Nat, time' >= time, UNCHANGED clockvars
  PROVE  /\ Instant' \in Nat /\ mono' <= Instant' /\ Now' >= Now
         /\ time' >= time + Granule => Now' > Now
<1>1. /\ time \in Nat /\ delta \in Nat /\ mono \in Nat /\ Granule \in Nat \ {0}
      /\ delta' = delta /\ mono' = mono /\ mono <= Instant
  BY NamingAssumption DEF TypeOK, clockvars, Anchored
<1>2. /\ Instant \in Nat /\ Instant' \in Nat /\ Instant <= Instant'
      /\ time' >= time + Granule => Instant' > Instant
  BY <1>1, InstantMoves DEF Instant
<1>3. /\ Now = delta + (Instant - mono)
      /\ Now' = delta + (Instant' - mono)
  BY <1>1 DEF Now
<1>4. \A i, j \in Nat :
        /\ i <= j => delta + (i - mono) <= delta + (j - mono)
        /\ i < j => delta + (i - mono) < delta + (j - mono)
  BY <1>1
<1>5. Now' >= Now BY <1>2, <1>3, <1>4
<1>6. time' >= time + Granule => Now' > Now BY <1>2, <1>3, <1>4
<1> QED BY <1>1, <1>2, <1>5, <1>6

LEMMA InitEstablishes == Init => NamingInv
<1> SUFFICES ASSUME Init PROVE NamingInv OBVIOUS
<1> USE NamingAssumption DEF Init
<1>1. TypeOK
  <2>1. adjusted \in Seq(1 .. Largest) OBVIOUS
  <2>2. timerResolution \in Resolution .. Largest OBVIOUS
  <2>3. {time, delta, mono, made, lives} \subseteq Nat OBVIOUS
  <2>4. names \subseteq 1 .. Largest - 1 OBVIOUS
  <2>5. collided \in BOOLEAN /\ pc = "down" OBVIOUS
  <2> HIDE DEF Init
  <2> QED BY <2>1, <2>2, <2>3, <2>4, <2>5 DEF TypeOK
<1>2. Anchored
  <2>1. Instant = 0 - (0 % Granule) BY DEF Instant
  <2>2. Instant >= 0 BY <2>1
  <2> QED BY <2>2 DEF Anchored
<1>3. Behind /\ Slept /\ ResolutionFits BY DEF Behind, Slept, ResolutionFits
<1>4. AdjustmentsTold BY DEF AdjustmentsTold
<1> QED BY <1>1, <1>2, <1>3, <1>4 DEF NamingInv

\* Where neither the machine's clock nor the writer's is moved, they read the same.
LEMMA SameReadings ==
  ASSUME UNCHANGED <<time, clockvars>>
  PROVE  Instant' = Instant /\ Now' = Now
BY DEF Instant, Now, clockvars

\* Where the resolution stays, so does what the handler was told of it.
LEMMA ResolutionKept ==
  ASSUME NamingInv, UNCHANGED <<timerResolution, adjusted>>
  PROVE  ResolutionFits' /\ AdjustmentsTold'
BY DEF NamingInv, ResolutionFits, AdjustmentsTold

LEMMA NewKeeps ==
  ASSUME NamingInv, NEW real \in 0 .. Largest, New(real)
  PROVE  NamingInv'
<1>1. /\ time \in Nat /\ Granule \in Nat \ {0} /\ Resolution \in 1 .. Largest
      /\ Largest \in Nat \ {0}
  BY NamingAssumption DEF NamingInv, TypeOK
<1>2. CASE real = 0 \/ ~ Stamps(real)
  <2>1. UNCHANGED <<time, clockvars, timerResolution, adjusted, names, made, collided, pc>>
    BY <1>2 DEF New, clockvars
  <2>2. TypeOK' BY <2>1 DEF NamingInv, TypeOK, New, clockvars
  <2>3. ResolutionFits' /\ AdjustmentsTold' BY <2>1, ResolutionKept
  <2>4. Instant' = Instant /\ Now' = Now BY <2>1, SameReadings
  <2>5. (Anchored /\ Behind /\ Slept)'
    BY <2>1, <2>4 DEF NamingInv, Anchored, Behind, Slept, Doubled, clockvars
  <2> QED BY <2>2, <2>3, <2>5 DEF NamingInv
<1>3. CASE ~ (real = 0 \/ ~ Stamps(real))
  <2>1. /\ delta' = real /\ mono' = Instant /\ pc' = "scan"
        /\ timerResolution' = Resolution /\ adjusted' = <<>>
        /\ UNCHANGED <<time, names, made, collided>>
        /\ lives' = lives + 1 /\ real \in Nat /\ real > 0
    BY <1>1, <1>3 DEF New
  <2>2. Instant \in Nat /\ Instant' = Instant
    BY <1>1, <2>1, InstantMoves DEF Instant
  <2>3. TypeOK'
    <3>1. {time, delta, mono, made, lives}' \subseteq Nat
      BY <2>1, <2>2 DEF NamingInv, TypeOK
    <3>2. adjusted' \in Seq(1 .. Largest) BY <2>1
    <3> QED BY <1>1, <2>1, <3>1, <3>2 DEF NamingInv, TypeOK
  <2>4. Anchored' BY <2>1, <2>2 DEF Anchored
  <2>5. (Behind /\ Slept /\ ResolutionFits)'
    BY <2>1 DEF Behind, Slept, ResolutionFits
  <2>6. AdjustmentsTold' BY <2>1 DEF AdjustmentsTold
  <2> QED BY <2>3, <2>4, <2>5, <2>6 DEF NamingInv
<1> QED BY <1>2, <1>3

\* Clock::advance_past leaves no name of the directory ahead of the clock.
LEMMA AdvancePastKeeps ==
  ASSUME NamingInv, AdvancePast
  PROVE  NamingInv'
<1>1. /\ time \in Nat /\ delta \in Nat /\ mono \in Nat /\ Largest \in Nat \ {0}
      /\ names \subseteq 1 .. Largest - 1 /\ pc = "scan" /\ delta > 0
  BY NamingAssumption DEF NamingInv, TypeOK, Anchored, AdvancePast
<1>2. Instant \in Nat /\ Now \in Nat /\ mono <= Instant
  BY Readings DEF NamingInv, Anchored
<1>3. /\ UNCHANGED <<time, mono, timerResolution, names, made, adjusted, collided, lives>>
      /\ pc' \in {"idle", "down"} /\ Instant' = Instant
  BY DEF AdvancePast, Instant
<1>4. names # {} => Highest(names) \in Nat /\ \A id \in names : id <= Highest(names)
  <2>1. names \subseteq Nat /\ Largest \in Nat /\ \A x \in names : x <= Largest
    BY <1>1
  <2>2. names # {} =>
          Highest(names) \in names /\ \A id \in names : id <= Highest(names)
    BY <2>1, HighestExists
  <2> QED BY <2>1, <2>2
<1>5. /\ delta' \in Nat /\ delta' >= delta
      /\ pc' = "idle" => \A id \in names : id <= delta' + (Instant - mono)
  <2> DEFINE id == Highest(names)
  <2>1. CASE pc' = "down" \/ names = {}
    BY <1>1, <2>1 DEF AdvancePast
  <2>2. CASE names # {} /\ pc' = "idle" /\ id < Now
    <3>1. delta' = delta BY <2>2 DEF AdvancePast
    <3>2. \A x \in names : x \in Nat /\ x <= id BY <1>1, <1>4, <2>2
    <3>3. \A x \in names : x <= Now BY <1>2, <1>4, <2>2, <3>2
    <3> QED BY <1>1, <3>1, <3>3 DEF Now
  <2>3. CASE names # {} /\ pc' = "idle" /\ ~ (id < Now)
    <3>1. delta' = delta + (id - Now) + 1 BY <2>3 DEF AdvancePast
    <3>2. id \in Nat /\ \A x \in names : x \in Nat /\ x <= id BY <1>1, <1>4, <2>3
    <3>3. id >= Now BY <1>2, <2>3, <3>2
    <3>4. delta' + (Instant - mono) = id + 1
      BY <1>1, <1>2, <3>1, <3>2 DEF Now
    <3> HIDE DEF id
    <3> QED BY <1>1, <1>2, <3>1, <3>2, <3>3, <3>4
  <2>4. pc' \in {"idle", "down"} BY <1>3
  <2> QED BY <2>1, <2>2, <2>3, <2>4
<1>6. TypeOK'
  <2>1. {time, delta, mono, made, lives}' \subseteq Nat
    BY <1>3, <1>5 DEF NamingInv, TypeOK
  <2> QED BY <1>3, <2>1 DEF NamingInv, TypeOK
<1>7. Anchored' BY <1>1, <1>2, <1>3, <1>5 DEF Anchored
<1>8. Behind'
  <2>1. Now' = delta' + (Instant - mono) BY <1>3 DEF Now
  <2> QED BY <1>3, <1>5, <2>1 DEF Behind
<1>9. Slept' BY <1>3 DEF Slept
<1>10. ResolutionFits' /\ AdjustmentsTold' BY <1>3, ResolutionKept
<1> QED BY <1>6, <1>7, <1>8, <1>9, <1>10 DEF NamingInv

LEMMA BeginKeeps ==
  ASSUME NamingInv, Begin
  PROVE  NamingInv'
<1>1. /\ UNCHANGED <<time, clockvars, timerResolution, names, made, adjusted, lives>>
      /\ pc = "idle" /\ pc' = "attempt" /\ collided' = FALSE
  BY DEF Begin
<1>2. Instant' = Instant /\ Now' = Now BY <1>1, SameReadings
<1>3. TypeOK' BY <1>1 DEF NamingInv, TypeOK, clockvars
<1>4. (Anchored /\ Behind /\ Slept)'
  BY <1>1, <1>2 DEF NamingInv, Anchored, Behind, Slept, clockvars
<1>5. ResolutionFits' /\ AdjustmentsTold' BY <1>1, ResolutionKept
<1> QED BY <1>3, <1>4, <1>5 DEF NamingInv

\* A name that is free is ahead of all others; one that is taken after a sleep
\* shows that the sleep was shorter than a step of the clock.
LEMMA AttemptKeeps ==
  ASSUME NamingInv, Attempt
  PROVE  /\ NamingInv'
         /\ \A id \in names, new \in names' \ names : id < new
<1>1. /\ UNCHANGED <<time, clockvars, timerResolution, adjusted, collided, lives>>
      /\ pc = "attempt" /\ pc' \in {"idle", "collision"}
  BY DEF Attempt
<1>2. Instant' = Instant /\ Now' = Now BY <1>1, SameReadings
<1>3. /\ Now \in Nat /\ Now > 0 /\ Largest \in Nat
      /\ \A id \in names : id \in Nat /\ id <= Now
  BY <1>1, Readings, NamingAssumption DEF NamingInv, Behind
<1>4. CASE names' = names /\ made' = made
  <2>1. TypeOK' BY <1>1, <1>4 DEF NamingInv, TypeOK, clockvars
  <2>2. (Anchored /\ Behind)'
    BY <1>1, <1>2, <1>4 DEF NamingInv, Anchored, Behind, clockvars
  <2>3. Slept'
    <3> SUFFICES ASSUME pc' = "collision", collided, Doubled(timerResolution) >= Granule
                 PROVE  FALSE
      <4>1. Doubled(timerResolution) \in Nat /\ Granule \in Nat
        BY DoubledRange, NamingAssumption DEF NamingInv, TypeOK
      <4> QED BY <1>1, <4>1 DEF Slept, Doubled
    <3>1. Now \in names BY DEF Attempt
    <3>2. Now < Now BY <1>1, <3>1 DEF NamingInv, Slept
    <3> QED BY <1>3, <3>2
  <2>4. ResolutionFits' /\ AdjustmentsTold' BY <1>1, ResolutionKept
  <2> QED BY <1>4, <2>1, <2>2, <2>3, <2>4 DEF NamingInv
<1>5. CASE /\ names' = names \cup {Now} /\ made' = made + 1 /\ pc' = "idle"
           /\ Stamps(Now) /\ Now \notin names
  <2>1. Now \in 1 .. Largest - 1 BY <1>3, <1>5 DEF Stamps
  <2>2. TypeOK'
    <3>1. names' \subseteq 1 .. Largest - 1 BY <1>5, <2>1 DEF NamingInv, TypeOK
    <3>2. {time, delta, mono, made, lives}' \subseteq Nat
      BY <1>1, <1>5 DEF NamingInv, TypeOK, clockvars
    <3> QED BY <1>1, <3>1, <3>2 DEF NamingInv, TypeOK, clockvars
  <2>3. (Anchored /\ Slept)'
    BY <1>1, <1>2, <1>5 DEF NamingInv, Anchored, Slept, clockvars
  <2>4. Behind' BY <1>2, <1>3, <1>5 DEF Behind
  <2>5. ResolutionFits' /\ AdjustmentsTold' BY <1>1, ResolutionKept
  <2>6. \A id \in names : id < Now BY <1>3, <1>5
  <2> QED BY <1>5, <2>2, <2>3, <2>4, <2>5, <2>6 DEF NamingInv
<1> QED BY <1>4, <1>5 DEF Attempt

\* A resolution is widened only after a sleep shorter than a step of the clock,
\* and then the handler is told.
LEMMA NoteCollisionKeeps ==
  ASSUME NamingInv, NoteCollision
  PROVE  NamingInv'
<1> DEFINE wider == IF collided THEN Doubled(timerResolution) ELSE timerResolution
<1>1. /\ UNCHANGED <<time, clockvars, names, made, lives>>
      /\ pc = "collision" /\ pc' = "nap" /\ collided' = TRUE
      /\ timerResolution' = wider
      /\ adjusted' = IF wider # timerResolution THEN Append(adjusted, wider) ELSE adjusted
  BY DEF NoteCollision
<1>2. Instant' = Instant /\ Now' = Now BY <1>1, SameReadings
<1>3. /\ timerResolution \in Resolution .. Largest /\ Resolution \in 1 .. Largest
      /\ Largest \in Nat /\ adjusted \in Seq(1 .. Largest)
  BY NamingAssumption DEF NamingInv, TypeOK
<1>4. wider \in timerResolution .. Largest
  BY <1>3, DoubledRange
<1>5. collided => wider < Granule BY <1>1 DEF NamingInv, Slept
<1> HIDE DEF wider
<1>6. TypeOK'
  <2>1. wider \in Resolution .. Largest /\ wider \in 1 .. Largest BY <1>3, <1>4
  <2>2. Append(adjusted, wider) \in Seq(1 .. Largest) BY <1>3, <2>1
  <2> QED BY <1>1, <1>3, <2>1, <2>2 DEF NamingInv, TypeOK, clockvars
<1>7. (Anchored /\ Behind /\ Slept)'
  BY <1>1, <1>2 DEF NamingInv, Anchored, Behind, Slept, clockvars
<1>8. ResolutionFits'
  <2>1. CASE collided BY <1>1, <1>5, <2>1 DEF ResolutionFits
  <2>2. CASE ~ collided
    <3>1. timerResolution' = timerResolution BY <1>1, <2>2 DEF wider
    <3> QED BY <3>1 DEF NamingInv, ResolutionFits
  <2> QED BY <2>1, <2>2
<1>9. AdjustmentsTold'
  <2>1. CASE wider = timerResolution
    BY <1>1, <2>1 DEF NamingInv, AdjustmentsTold
  <2>2. CASE wider # timerResolution
    <3> DEFINE told == <<Resolution>> \o adjusted
               n == Len(adjusted)
    <3>1. n \in Nat /\ \A i \in 1 .. n : adjusted[i] \in Nat BY <1>3
    <3>2. /\ \A i \in 1 .. n : told[i] < told[i + 1]
          /\ timerResolution = told[n + 1]
      BY <1>3 DEF NamingInv, AdjustmentsTold
    <3>3. /\ Len(told) = n + 1 /\ told \in Seq(Nat) BY <1>3
    <3>4. <<Resolution>> \o adjusted' = Append(told, wider)
      BY <1>1, <1>3, <2>2
    <3>5. Len(adjusted') = n + 1 BY <1>1, <1>3, <2>2
    <3>6. timerResolution < wider BY <1>3, <1>4, <2>2
    <3> HIDE DEF told, n
    <3>7. wider \in Nat BY <1>3, <1>4
    <3>8. /\ Len(Append(told, wider)) = n + 2 /\ Append(told, wider)[n + 2] = wider
          /\ \A i \in 1 .. n + 1 : Append(told, wider)[i] = told[i]
      BY <3>1, <3>3, <3>7
    <3>9. \A i \in 1 .. n + 1 : Append(told, wider)[i] < Append(told, wider)[i + 1]
      <4> SUFFICES ASSUME NEW i \in 1 .. n + 1
                   PROVE  Append(told, wider)[i] < Append(told, wider)[i + 1]
        OBVIOUS
      <4>1. CASE i \in 1 .. n
        <5>1. i + 1 \in 1 .. n + 1 BY <3>1, <4>1
        <5> QED BY <3>1, <3>2, <3>8, <4>1, <5>1
      <4>2. CASE i = n + 1 BY <3>1, <3>2, <3>6, <3>8, <4>2
      <4>3. i \in 1 .. n \/ i = n + 1 BY <3>1
      <4> QED BY <4>1, <4>2, <4>3
    <3> QED BY <1>1, <3>4, <3>5, <3>8, <3>9 DEF AdjustmentsTold
  <2> QED BY <2>1, <2>2
<1> QED BY <1>6, <1>7, <1>8, <1>9 DEF NamingInv

LEMMA NapKeeps ==
  ASSUME NamingInv, NEW slack \in 0 .. Slack, Nap(slack)
  PROVE  NamingInv'
<1>1. /\ UNCHANGED <<clockvars, timerResolution, names, made, adjusted, collided, lives>>
      /\ pc = "nap" /\ pc' = "attempt"
      /\ time' = time + Doubled(timerResolution) + slack
  BY DEF Nap
<1>2. /\ time \in Nat /\ slack \in Nat /\ Granule \in Nat \ {0}
      /\ timerResolution \in Resolution .. Largest /\ Resolution \in 1 .. Largest
      /\ Largest \in Nat
  BY NamingAssumption DEF NamingInv, TypeOK
<1>3. Doubled(timerResolution) \in Nat BY <1>2, DoubledRange
<1>4. /\ time' \in Nat /\ time' >= time
      /\ Doubled(timerResolution) >= Granule => time' >= time + Granule
  BY <1>1, <1>2, <1>3
<1>5. /\ Instant' \in Nat /\ mono' <= Instant' /\ Now' >= Now
      /\ time' >= time + Granule => Now' > Now
  BY <1>1, <1>4, TimePasses DEF NamingInv
<1>6. /\ Now \in Nat /\ Now' \in Int
      /\ \A id \in names : id \in Nat /\ id <= Now
  <2>1. Now \in Nat /\ \A id \in names : id \in Nat /\ id <= Now
    BY <1>1, Readings DEF NamingInv, Behind
  <2>2. delta' \in Nat /\ mono' \in Nat
    BY <1>1 DEF NamingInv, TypeOK, clockvars
  <2> QED BY <1>5, <2>1, <2>2 DEF Now
<1>7. TypeOK'
  <2>1. {time, delta, mono, made, lives}' \subseteq Nat
    BY <1>1, <1>4 DEF NamingInv, TypeOK, clockvars
  <2> QED BY <1>1, <2>1 DEF NamingInv, TypeOK, clockvars
<1>8. Anchored' BY <1>1, <1>5 DEF NamingInv, Anchored, clockvars
<1>9. \A id \in names : id <= Now' /\ (time' >= time + Granule => id < Now')
  BY <1>5, <1>6
<1>10. Behind' BY <1>1, <1>9 DEF Behind
<1>11. Slept'
  <2>1. Doubled(timerResolution)' = Doubled(timerResolution) BY <1>1 DEF Doubled
  <2> QED BY <1>1, <1>4, <1>9, <2>1 DEF Slept
<1>12. ResolutionFits' /\ AdjustmentsTold' BY <1>1, ResolutionKept
<1> QED BY <1>7, <1>8, <1>10, <1>11, <1>12 DEF NamingInv

\* Time passes, or files leave: no name comes nearer to the clock.
LEMMA SurroundingsKeep ==
  ASSUME NamingInv, Pass \/ \E id \in names : Leave(id)
  PROVE  NamingInv' /\ names' \subseteq names
<1>1. /\ UNCHANGED <<clockvars, timerResolution, made, adjusted, collided, pc, lives>>
      /\ names' \subseteq names /\ time' \in {time, time + 1}
  BY DEF Pass, Leave
<1>2. /\ time \in Nat /\ Granule \in Nat \ {0} BY NamingAssumption DEF NamingInv, TypeOK
<1>3. time' \in Nat /\ time' >= time BY <1>1, <1>2
<1>4. /\ Instant' \in Nat /\ mono' <= Instant' /\ Now' >= Now
  BY <1>1, <1>3, TimePasses DEF NamingInv
<1>5. /\ Now \in Nat /\ Now' \in Int /\ \A id \in names : id \in Nat
  <2>1. Now \in Nat /\ \A id \in names : id \in Nat BY Readings DEF NamingInv
  <2>2. delta' \in Nat /\ mono' \in Nat
    BY <1>1 DEF NamingInv, TypeOK, clockvars
  <2> QED BY <1>4, <2>1, <2>2 DEF Now
<1>6. \A id \in names : (id <= Now => id <= Now') /\ (id < Now => id < Now')
  BY <1>4, <1>5
<1>7. TypeOK'
  <2>1. {time, delta, mono, made, lives}' \subseteq Nat
    BY <1>1, <1>3 DEF NamingInv, TypeOK, clockvars
  <2> QED BY <1>1, <2>1 DEF NamingInv, TypeOK, clockvars
<1>8. Anchored' BY <1>1, <1>4 DEF NamingInv, Anchored, clockvars
<1>9. Behind' BY <1>1, <1>6 DEF NamingInv, Behind
<1>10. Slept'
  <2>1. Doubled(timerResolution)' = Doubled(timerResolution) BY <1>1 DEF Doubled
  <2> QED BY <1>1, <1>6, <2>1 DEF NamingInv, Slept
<1>11. ResolutionFits' /\ AdjustmentsTold' BY <1>1, ResolutionKept
<1> QED BY <1>1, <1>7, <1>8, <1>9, <1>10, <1>11 DEF NamingInv

LEMMA StopKeeps ==
  ASSUME NamingInv, Stop \/ UNCHANGED nvars
  PROVE  NamingInv' /\ names' = names
<1>1. /\ UNCHANGED <<time, clockvars, timerResolution, names, made, adjusted, collided,
                     lives>>
      /\ pc' \in {"down", pc}
  BY DEF Stop, nvars
<1>2. Instant' = Instant /\ Now' = Now BY <1>1, SameReadings
<1>3. TypeOK' BY <1>1 DEF NamingInv, TypeOK, clockvars
<1>4. (Anchored /\ Behind)'
  BY <1>1, <1>2 DEF NamingInv, Anchored, Behind, clockvars
<1>5. Slept'
  <2>1. Doubled(timerResolution)' = Doubled(timerResolution) BY <1>1 DEF Doubled
  <2> QED BY <1>1, <1>2, <2>1 DEF NamingInv, Slept
<1>6. ResolutionFits' /\ AdjustmentsTold' BY <1>1, ResolutionKept
<1> QED BY <1>1, <1>3, <1>4, <1>5, <1>6 DEF NamingInv

\* What a step may do to the names: add one, behind all others.
NewLast == \A id \in names, new \in names' \ names : id < new

LEMMA StepKeeps ==
  ASSUME NamingInv, [Next]_nvars
  PROVE  NamingInv' /\ NewLast
<1>1. ASSUME NEW real \in 0 .. Largest, New(real) PROVE NamingInv' /\ NewLast
  <2>1. names' = names BY <1>1 DEF New
  <2> QED BY <1>1, <2>1, NewKeeps DEF NewLast
<1>2. CASE AdvancePast
  <2>1. names' = names BY <1>2 DEF AdvancePast
  <2> QED BY <1>2, <2>1, AdvancePastKeeps DEF NewLast
<1>3. CASE Begin
  <2>1. names' = names BY <1>3 DEF Begin
  <2> QED BY <1>3, <2>1, BeginKeeps DEF NewLast
<1>4. CASE Attempt BY <1>4, AttemptKeeps DEF NewLast
<1>5. CASE NoteCollision
  <2>1. names' = names BY <1>5 DEF NoteCollision
  <2> QED BY <1>5, <2>1, NoteCollisionKeeps DEF NewLast
<1>6. ASSUME NEW slack \in 0 .. Slack, Nap(slack) PROVE NamingInv' /\ NewLast
  <2>1. names' = names BY <1>6 DEF Nap
  <2> QED BY <1>6, <2>1, NapKeeps DEF NewLast
<1>7. CASE Pass \/ \E id \in names : Leave(id) BY <1>7, SurroundingsKeep DEF NewLast
<1>8. CASE Stop \/ UNCHANGED nvars BY <1>8, StopKeeps DEF NewLast
<1> QED BY <1>1, <1>2, <1>3, <1>4, <1>5, <1>6, <1>7, <1>8 DEF Next, Naming

-----------------------------------------------------------------------------
(* The theorems.                                                           *)

\* The clock of a writer, once it is past the newest name, stays past every name.
THEOREM Invariance == Spec => []NamingInv
<1>1. Init => NamingInv BY InitEstablishes
<1>2. NamingInv /\ [Next]_nvars => NamingInv' BY StepKeeps
<1> QED BY <1>1, <1>2, PTL DEF Spec

\* No identifier is zero or all ones, which Clock::stamp holds back, so that there
\* is always a time one past a file's.
THEOREM TypeCorrect == Spec => []TypeOK
<1>1. NamingInv => TypeOK BY DEF NamingInv
<1> QED BY <1>1, Invariance, PTL

\* A new file's name sorts behind every name in the directory (create_unique_file),
\* whatever the real-time clock reads when a writer starts (Clock::advance_past).
THEOREM NewNamesSortLast == Spec => SortsLast
<1>1. NamingInv /\ [Next]_nvars =>
        [\A id \in names, new \in names' \ names : id < new]_nvars
  BY StepKeeps DEF NewLast
<1> QED BY <1>1, Invariance, PTL DEF Spec, SortsLast

\* note_collision widens the resolution to no step of the clock or more, on a
\* machine with any clock.
THEOREM NeverTooWide == Spec => []ResolutionFits
<1>1. NamingInv => ResolutionFits BY DEF NamingInv
<1> QED BY <1>1, Invariance, PTL

\* timer_resolution_adjusted is told of each resolution that comes into force,
\* once and in order, and of nothing else.
THEOREM EachChangeTold == Spec => []AdjustmentsTold
<1>1. NamingInv => AdjustmentsTold BY DEF NamingInv
<1> QED BY <1>1, Invariance, PTL
=============================================================================
