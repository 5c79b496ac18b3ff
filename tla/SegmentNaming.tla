---------------------------- MODULE SegmentNaming ----------------------------
(***************************************************************************)
(* How LogWrite names a segment file (tcslog/src/write.rs): Clock, and the *)
(* retry loop of create_unique_file.                                       *)
(*                                                                         *)
(* A name is a reading of the writer's clock: the real-time clock as it    *)
(* read when the writer started, advanced by the monotonic clock, which    *)
(* moves in steps of Granule.  LogWriter takes from this module that a new *)
(* name is one no file has, at or after the clock's last reading.          *)
(***************************************************************************)
EXTENDS Naturals, Sequences, FiniteSets

CONSTANTS
  Granule,    \* the step of the machine's monotonic clock, in nanoseconds
  Resolution, \* the timer resolution the caller gives LogWrite::new
  Largest,    \* u64::MAX: the largest number of nanoseconds
  Slack,      \* how much longer than asked for a sleep may last
  MaxTime, MaxFiles, MaxLives  \* bounds of an instance

\* A resolution of zero is refused by LogWrite::new.
ASSUME NamingAssumption ==
  /\ Granule \in Nat \ {0} /\ Largest \in Nat \ {0}
  /\ Resolution \in 1 .. Largest
  /\ {Slack, MaxTime, MaxFiles, MaxLives} \subseteq Nat

VARIABLES
  time,            \* how long the machine has run
  delta, mono,     \* Clock
  timerResolution, \* timer_resolution
  names,           \* identifiers of the files in the directory
  made,            \* how many files have been created
  adjusted,        \* what timer_resolution_adjusted was told, oldest first
  collided,        \* collided_before
  pc,              \* "down", "scan", "idle", "attempt", "collision", "nap"
  lives

clockvars == <<delta, mono>>
nvars == <<time, clockvars, timerResolution, names, made, adjusted, collided,
           pc, lives>>

Init ==
  /\ time = 0 /\ delta = 0 /\ mono = 0 /\ timerResolution = Resolution
  /\ names = {} /\ made = 0 /\ adjusted = <<>>
  /\ collided = FALSE /\ pc = "down" /\ lives = 0

\* What Instant::now() reads.
Instant == time - (time % Granule)

\* A mistake: all ones is given out.
StampsAll(ns) == ns <= Largest

\* Clock::stamp: all ones is kept back.
Stamps(ns) == ns < Largest

\* Clock::now, when it stamps.
Now == delta + (Instant - mono)

Highest(S) == CHOOSE x \in S : \A y \in S : y <= x

Doubled(n) == IF 2 * n <= Largest THEN 2 * n ELSE Largest

-----------------------------------------------------------------------------
\* Clock::new: the real-time clock reads anything, but the epoch itself and a
\* time that cannot be stamped are refused.
New(real) ==
  /\ pc = "down" /\ lives < MaxLives /\ lives' = lives + 1
  /\ IF real = 0 \/ ~ Stamps(real)
     THEN UNCHANGED <<delta, mono, pc, timerResolution, adjusted>>
     ELSE /\ delta' = real /\ mono' = Instant /\ pc' = "scan"
          /\ timerResolution' = Resolution /\ adjusted' = <<>>
  /\ UNCHANGED <<time, names, made, collided>>

\* A mistake: the clock is left at the real-time clock's reading.
AdvanceNothing ==
  /\ pc = "scan" /\ pc' = "idle"
  /\ UNCHANGED <<time, clockvars, timerResolution, names, made, adjusted, collided,
                 lives>>

\* Clock::advance_past the highest identifier in the directory, if there is one.
AdvancePast ==
  /\ pc = "scan"
  /\ LET id == Highest(names) IN
     IF names = {}
     THEN pc' = "idle" /\ UNCHANGED delta
     ELSE IF ~ Stamps(id + 1) \/ ~ Stamps(Now)
     THEN pc' = "down" /\ UNCHANGED delta
     ELSE IF id < Now
     THEN pc' = "idle" /\ UNCHANGED delta
     ELSE IF Stamps(delta + (id - Now) + 1)
     THEN pc' = "idle" /\ delta' = delta + (id - Now) + 1
     ELSE pc' = "down" /\ UNCHANGED delta
  /\ UNCHANGED <<time, mono, timerResolution, names, made, adjusted, collided,
                 lives>>

\* A mistake: the collision of an earlier file counts.
BeginAgain ==
  /\ pc = "idle" /\ made < MaxFiles /\ pc' = "attempt"
  /\ UNCHANGED <<time, clockvars, timerResolution, names, made, adjusted, collided,
                 lives>>

Begin ==
  /\ pc = "idle" /\ made < MaxFiles
  /\ pc' = "attempt" /\ collided' = FALSE
  /\ UNCHANGED <<time, clockvars, timerResolution, names, made, adjusted, lives>>

\* One attempt: the clock may have nothing more to give, the name may be taken,
\* creating the file may fail for another reason, or there is a new file.
Attempt ==
  /\ pc = "attempt"
  /\ \/ /\ ~ Stamps(Now) \/ Now \notin names
        /\ pc' = "idle" /\ UNCHANGED <<names, made>>
     \/ /\ Stamps(Now) /\ Now \in names
        /\ pc' = "collision" /\ UNCHANGED <<names, made>>
     \/ /\ Stamps(Now) /\ Now \notin names
        /\ names' = names \cup {Now} /\ made' = made + 1
        /\ pc' = "idle"
  /\ UNCHANGED <<time, clockvars, timerResolution, adjusted, collided, lives>>

\* A mistake: the handler is told whether or not anything changed.
NoteEveryCollision ==
  LET wider == IF collided THEN Doubled(timerResolution) ELSE timerResolution IN
  /\ pc = "collision" /\ pc' = "nap" /\ collided' = TRUE
  /\ timerResolution' = wider
  /\ adjusted' = Append(adjusted, wider)
  /\ UNCHANGED <<time, clockvars, names, made, lives>>

\* note_collision: a second collision says the resolution is too small.  The
\* handler is told only when that changes it.
NoteCollision ==
  LET wider == IF collided THEN Doubled(timerResolution) ELSE timerResolution IN
  /\ pc = "collision"
  /\ timerResolution' = wider
  /\ adjusted' = IF wider # timerResolution THEN Append(adjusted, wider) ELSE adjusted
  /\ collided' = TRUE
  /\ pc' = "nap"
  /\ UNCHANGED <<time, clockvars, names, made, lives>>

\* A mistake: the retry comes at once.
NapNot(slack) ==
  /\ pc = "nap" /\ pc' = "attempt"
  /\ UNCHANGED <<time, clockvars, timerResolution, names, made, adjusted, collided,
                 lives>>

\* thread::sleep(nap_for(timer_resolution)).
Nap(slack) ==
  /\ pc = "nap" /\ pc' = "attempt"
  /\ time' = time + Doubled(timerResolution) + slack
  /\ UNCHANGED <<clockvars, timerResolution, names, made, adjusted, collided,
                 lives>>

\* A file leaves the directory: sent, cleared away, or deleted by anybody.
Leave(id) ==
  /\ id \in names /\ names' = names \ {id}
  /\ UNCHANGED <<time, clockvars, timerResolution, made, adjusted, collided, pc,
                 lives>>

Stop ==
  /\ pc = "idle" /\ pc' = "down"
  /\ UNCHANGED <<time, clockvars, timerResolution, names, made, adjusted,
                 collided, lives>>

\* Time passes between any two steps.
Pass ==
  /\ time < MaxTime /\ time' = time + 1
  /\ UNCHANGED <<clockvars, timerResolution, names, made, adjusted, collided, pc,
                 lives>>

Naming == Attempt \/ NoteCollision \/ \E slack \in 0 .. Slack : Nap(slack)

Next ==
  \/ \E real \in 0 .. Largest : New(real)
  \/ AdvancePast \/ Begin \/ Naming \/ Stop \/ Pass
  \/ \E id \in names : Leave(id)

Spec == Init /\ [][Next]_nvars

\* A call of create_unique_file goes on until it returns.
FairSpec == Spec /\ WF_nvars(Naming)

-----------------------------------------------------------------------------
\* The clock, the resolution and the names keep their ranges: none is zero, and
\* none is all ones, which Clock::stamp holds back.
TypeOK ==
  /\ {time, delta, mono, made, lives} \subseteq Nat
  /\ timerResolution \in Resolution .. Largest
  /\ names \subseteq 1 .. Largest - 1
  /\ adjusted \in Seq(1 .. Largest)
  /\ collided \in BOOLEAN
  /\ pc \in {"down", "scan", "idle", "attempt", "collision", "nap"}

\* A new file sorts behind every file in the directory, through every backward
\* step of the real-time clock between two writers.
SortsLast ==
  [][\A id \in names, new \in names' \ names : id < new]_nvars

\* The resolution is never widened past what the machine needs: a sleep that
\* covers a step of the clock ends the collisions, so a resolution that is
\* found wanting is less than half the step.
ResolutionFits == timerResolution < Granule \/ timerResolution = Resolution

\* The handler is told each new resolution once, and the last is in force.
AdjustmentsTold ==
  LET told == <<Resolution>> \o adjusted IN
  /\ \A i \in 1 .. Len(adjusted) : told[i] < told[i + 1]
  /\ timerResolution = told[Len(told)]

\* However coarse the clock, the retries end.
NamingEnds == pc = "attempt" ~> pc \in {"idle", "down"}
=============================================================================
