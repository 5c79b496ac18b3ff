----------------------------- MODULE TelemetryLog -----------------------------
(***************************************************************************)
(* What a log promises the program that writes it, with no mention of      *)
(* files: records are offered one at a time, and a record is stored whole  *)
(* before its write returns, or never.  A write that is acknowledged has   *)
(* stored its record; one that fails may have stored it or not.            *)
(***************************************************************************)
EXTENDS Naturals

VARIABLES
  offered, \* how many records have been offered
  busy,    \* is the last of them still being written
  stored,  \* the records stored whole
  acked    \* the records whose write returned Ok

tvars == <<offered, busy, stored, acked>>

Init == offered = 0 /\ busy = FALSE /\ stored = {} /\ acked = {}

Offer ==
  /\ ~ busy
  /\ busy' = TRUE /\ offered' = offered + 1
  /\ UNCHANGED <<stored, acked>>

Store ==
  /\ busy /\ offered \notin stored
  /\ stored' = stored \cup {offered}
  /\ UNCHANGED <<offered, busy, acked>>

Acknowledge ==
  /\ busy /\ offered \in stored
  /\ busy' = FALSE /\ acked' = acked \cup {offered}
  /\ UNCHANGED <<offered, stored>>

\* The write fails, or the writer dies in it; its last bytes may just have
\* been stored.
Fail ==
  /\ busy /\ busy' = FALSE
  /\ stored' \in {stored, stored \cup {offered}}
  /\ UNCHANGED <<offered, acked>>

Next == Offer \/ Store \/ Acknowledge \/ Fail

Spec == Init /\ [][Next]_tvars
=============================================================================
