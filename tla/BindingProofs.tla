----------------------------- MODULE BindingProofs -----------------------------
(***************************************************************************)
(* What C and Python programs see of the library, for any number of        *)
(* writers and threads and callbacks that fail any number of times.        *)
(***************************************************************************)
EXTENDS Binding, TLAPS

-----------------------------------------------------------------------------
(* Statuses and exceptions.                                                *)

Errors == OpenErrors \cup CreateErrors \cup WriteErrors

\* The number of an error is its own in C's table, and means it in Python's.
LEMMA StatusNames ==
  ASSUME NEW e \in Errors
  PROVE  /\ StatusOf(e) # 0 /\ e # "none"
         /\ CStatus[StatusOf(e)] = e /\ PyStatus[StatusOf(e)] = e
<1>1. e # "none" BY DEF Errors, OpenErrors, CreateErrors, WriteErrors
<1>2. DOMAIN CStatus = 1 .. 22 BY DEF CStatus
<1>3. \E i \in 1 .. 22 : CStatus[i] = e
  <2>1. /\ CStatus[5] = "ClockError" /\ CStatus[6] = "FixedLenMismatch"
        /\ CStatus[8] = "InvalidPathname" /\ CStatus[9] = "IoError"
        /\ CStatus[11] = "PathDelimiterNotAllowed" /\ CStatus[12] = "PayloadTooLarge"
        /\ CStatus[13] = "SegSizeTooSmall" /\ CStatus[14] = "TimerResolutionZero"
        /\ CStatus[16] = "NullArgument" /\ CStatus[17] = "NotUtf8"
        /\ CStatus[19] = "InvalidFormat" /\ CStatus[21] = "NameTooLong"
        /\ CStatus[22] = "TimestampOverflow"
    BY DEF CStatus
  <2>2. e \in {"ClockError", "FixedLenMismatch", "InvalidPathname", "IoError",
               "PathDelimiterNotAllowed", "PayloadTooLarge", "SegSizeTooSmall",
               "TimerResolutionZero", "NullArgument", "NotUtf8", "InvalidFormat",
               "NameTooLong", "TimestampOverflow"}
    BY DEF Errors, OpenErrors, CreateErrors, WriteErrors
  <2> QED BY <2>1, <2>2
<1>4. StatusOf(e) = CHOOSE i \in 1 .. 22 : CStatus[i] = e
  BY <1>1, <1>2 DEF StatusOf
<1>5. StatusOf(e) \in 1 .. 22 /\ CStatus[StatusOf(e)] = e BY <1>3, <1>4
<1>6. CStatus = PyStatus BY DEF CStatus, PyStatus
<1> QED BY <1>1, <1>5, <1>6

Exception == [no : Nat \ {0}, kind : Kinds]

\* What Python has kept of the callbacks of a call that failed with rs.
LastOf(rs) == IF rs = <<>> THEN NoException ELSE Last(rs)

LEMMA LastRaised ==
  ASSUME NEW rs \in Seq(Exception)
  PROVE  /\ rs # <<>> => Last(rs) \in Exception /\ Last(rs) # NoException
         /\ \A e \in Exception :
              /\ Append(rs, e) \in Seq(Exception) /\ Append(rs, e) # <<>>
              /\ Last(Append(rs, e)) = e
<1>1. \A e \in Exception : e # NoException BY DEF Exception, NoException
<1>2. rs # <<>> => Last(rs) \in Exception BY DEF Last
<1>3. \A e \in Exception :
        /\ Append(rs, e) \in Seq(Exception) /\ Append(rs, e) # <<>>
        /\ Last(Append(rs, e)) = e
  BY DEF Last
<1> QED BY <1>1, <1>2, <1>3

-----------------------------------------------------------------------------
(* The inductive invariant, client by client.                              *)

Ops == {"none", "open", "write", "flush", "clear", "close", "null"}
Places == {"idle", "existing", "creating", "filling", "sending", "leaving", "abandoning",
           "failed", "closing", "flushing", "clearing"}

BTypeOK ==
  /\ handle \in [Clients -> {"none", "live", "freed", "freed twice"}]
  /\ held \in [Clients -> BOOLEAN]
  /\ pending \in [Clients -> Exception \cup {NoException}]
  /\ call \in [Clients -> [op : Ops, at : Places]]
  /\ raised \in [Clients -> Seq(Exception)]
  /\ DOMAIN outcome = Clients
  /\ failed \in Nat

\* Where the handle is in the life of a client.
HandleOf(c) ==
  /\ handle[c] # "freed twice"
  /\ call[c].op = "none" => call[c].at = "idle" /\ handle[c] = "none" /\ ~ held[c]
  /\ call[c].op = "open" /\ call[c].at # "idle" => handle[c] = "none"
  /\ held[c] => handle[c] = "live"
  /\ At(c, "close", "closing") => handle[c] = "live" /\ ~ held[c]
  /\ handle[c] = "live" => held[c] \/ At(c, "close", "closing")

\* What is kept for the call in progress: the writer's pending
\* exception is the last of its own callbacks; between calls there is none.
KeptOf(c) ==
  /\ call[c].at = "idle" => pending[c] = NoException
  /\ call[c].at # "idle" /\ c \in PythonClients => pending[c] = LastOf(raised[c])
  /\ c \notin PythonClients => pending[c] = NoException

\* A C program's library is on its way to an error once a callback has failed;
\* and nothing interrupts it.
HeededOf(c) ==
  c \notin PythonClients =>
    /\ call[c].at # "idle" /\ raised[c] # <<>> =>
         call[c].at \in {"failed", "abandoning", "closing"}
    /\ raised[c] # <<>> => Last(raised[c]).kind # "interrupt"

\* What the last call told.
AnswerOf(c) ==
  c \in Answered =>
    LET seen == outcome[c].seen IN
    /\ raised[c] # <<>> => seen.error # "none" \/ seen.raises # NoException
    /\ c \in PythonClients =>
         {seen.raises, seen.cause} \ {NoException}
           = IF raised[c] = <<>> THEN {} ELSE {Last(raised[c])}
    /\ IF raised[c] # <<>> /\ Last(raised[c]).kind = "interrupt"
       THEN seen.raises = Last(raised[c])
       ELSE seen.error = outcome[c].library

Client(c) == HandleOf(c) /\ KeptOf(c) /\ HeededOf(c) /\ AnswerOf(c)

BindingInv == BTypeOK /\ \A c \in Clients : Client(c)

LEMMA InitEstablishes == Init => BindingInv
<1> SUFFICES ASSUME Init, NEW c \in Clients PROVE BTypeOK /\ Client(c)
  <2> SUFFICES ASSUME Init, Clients = {} PROVE BTypeOK BY DEF BindingInv
  <2> QED BY DEF Init, BTypeOK, NoException
<1>2. BTypeOK
  <2>1. raised \in [Clients -> Seq(Exception)] BY DEF Init
  <2>2. call \in [Clients -> [op : Ops, at : Places]] BY DEF Init, Ops, Places
  <2>5. handle \in [Clients -> {"none", "live", "freed", "freed twice"}] BY DEF Init
  <2>4. /\ held \in [Clients -> BOOLEAN] /\ DOMAIN outcome = Clients /\ failed \in Nat
        /\ pending \in [Clients -> Exception \cup {NoException}]
    BY DEF Init
  <2> QED BY <2>1, <2>2, <2>4, <2>5 DEF BTypeOK
<1>3. HandleOf(c) BY DEF Init, HandleOf, At
<1>4. KeptOf(c) BY DEF Init, KeptOf
<1>5. HeededOf(c) BY DEF Init, HeededOf
<1>6. AnswerOf(c) BY DEF Init, AnswerOf, Answered
<1> QED BY <1>2, <1>3, <1>4, <1>5, <1>6 DEF Client

-----------------------------------------------------------------------------
(* Steps within the library.                                               *)

\* The library moves on, when no callback has failed that it heeds.
MovesOn(c) ==
  /\ call[c].at \notin {"idle", "closing", "failed", "abandoning"}
  /\ \E place \in Places \ {"idle", "closing"} : Moves(c, place)

\* A callback fails, and an answer that is heeded leads to an error.
FailsOn(c) ==
  /\ call[c].at # "idle"
  /\ \E kind \in Kinds, place \in Places \ {"idle"} :
       /\ Fails(c, kind, place)
       /\ place = "closing" <=> At(c, "close", "closing")
       /\ c \in PythonClients \/ place \in {"failed", "abandoning", "closing"}

\* The call returns, and with an error if a callback's failure was heeded.
ReturnsOn(c) ==
  /\ call[c].at \notin {"idle", "closing"}
  /\ \E e \in Errors \cup {"none"} :
       /\ Returns(c, e)
       /\ e = "none" => call[c].at \notin {"failed", "abandoning"}

\* Whatever the library does, it does one of these three.
LEMMA WithinLibrary ==
  ASSUME BindingInv, NEW c \in Clients,
         Opening(c) \/ Creating(c) \/ Writing(c) \/ Abandoning(c) \/ Dropping(c)
           \/ Heeded(c) \/ Flushing(c) \/ Clearing(c)
  PROVE  MovesOn(c) \/ FailsOn(c) \/ ReturnsOn(c)
<1>0. call[c] \in [op : Ops, at : Places] BY DEF BindingInv, BTypeOK
<1> USE <1>0 DEF MovesOn, FailsOn, ReturnsOn, At, Places
<1>1. /\ OpenErrors \subseteq Errors /\ CreateErrors \subseteq Errors
      /\ WriteErrors \subseteq Errors /\ "IoError" \in Errors
  BY DEF Errors, CreateErrors
<1>2. CASE Opening(c)
  <2>1. CASE At(c, "open", "existing")
    <3>1. call[c].at = "existing" BY <2>1
    <3>2. CASE \E kind \in Kinds : Fails(c, kind, "failed") BY <3>1, <3>2
    <3>3. CASE Moves(c, "creating") BY <3>1, <3>3
    <3>4. CASE \E e \in OpenErrors : Returns(c, e) BY <1>1, <3>1, <3>4
    <3> QED BY <1>2, <2>1, <3>2, <3>3, <3>4 DEF Opening
  <2>2. CASE At(c, "open", "creating")
    BY <1>1, <1>2, <2>2 DEF Opening
  <2> QED BY <1>2, <2>1, <2>2 DEF Opening
<1>3. CASE Creating(c) BY <1>3 DEF Creating
<1>4. CASE Writing(c)
  <2>1. CASE At(c, "write", "filling")
    <3>1. call[c].at = "filling" BY <2>1
    <3>2. CASE Moves(c, "sending") \/ Moves(c, "creating") \/ Moves(c, "leaving")
      BY <3>1, <3>2
    <3>3. CASE \E kind \in Kinds : Fails(c, kind, "failed") BY <3>1, <3>3
    <3>4. CASE Returns(c, "none") \/ \E e \in WriteErrors : Returns(c, e)
      BY <1>1, <3>1, <3>4
    <3> QED BY <1>4, <2>1, <3>2, <3>3, <3>4 DEF Writing
  <2>2. CASE At(c, "write", "sending")
    <3>1. call[c].at = "sending" BY <2>2
    <3>2. CASE \E kind \in Kinds : Fails(c, kind, "failed") BY <3>1, <3>2
    <3>3. CASE Moves(c, "creating") BY <3>1, <3>3
    <3>4. CASE Returns(c, "IoError") BY <1>1, <3>1, <3>4
    <3> QED BY <1>4, <2>2, <3>2, <3>3, <3>4 DEF Writing
  <2>3. CASE At(c, "write", "creating")
    <3>1. call[c].at = "creating" BY <2>3
    <3>2. CASE Moves(c, "filling") BY <3>1, <3>2
    <3>3. CASE \E e \in CreateErrors : Returns(c, e) BY <1>1, <3>1, <3>3
    <3> QED BY <1>4, <2>3, <3>2, <3>3 DEF Writing
  <2> QED BY <1>4, <2>1, <2>2, <2>3 DEF Writing
<1>5. CASE Abandoning(c)
  <2>1. CASE At(c, "write", "leaving")
    <3>1. call[c].at = "leaving" BY <2>1
    <3>2. CASE \E kind \in Kinds : Fails(c, kind, "abandoning") BY <3>1, <3>2
    <3>3. CASE Moves(c, "abandoning") BY <3>1, <3>3
    <3> QED BY <1>5, <2>1, <3>2, <3>3 DEF Abandoning
  <2>2. CASE At(c, "write", "abandoning") /\ \E e \in CreateErrors : Returns(c, e)
    <3>1. call[c].at = "abandoning" BY <2>2
    <3>2. \A e \in CreateErrors : e # "none" BY DEF CreateErrors
    <3> QED BY <1>1, <2>2, <3>1, <3>2
  <2> QED BY <1>5, <2>1, <2>2 DEF Abandoning
<1>6. CASE Dropping(c) BY <1>6 DEF Dropping
<1>7. CASE Heeded(c) BY <1>1, <1>7 DEF Heeded
<1>8. CASE Flushing(c) BY <1>1, <1>8 DEF Flushing
<1>9. CASE Clearing(c) BY <1>1, <1>9 DEF Clearing
<1> QED BY <1>2, <1>3, <1>4, <1>5, <1>6, <1>7, <1>8, <1>9

-----------------------------------------------------------------------------
(* The steps.                                                              *)

\* A step of one client changes nothing of another.
Others(c) ==
  \A d \in Clients \ {c} :
    /\ handle'[d] = handle[d] /\ held'[d] = held[d]
    /\ pending'[d] = pending[d] /\ call'[d] = call[d] /\ raised'[d] = raised[d]
    /\ outcome'[d] = outcome[d]

LEMMA Together ==
  ASSUME BindingInv, NEW c \in Clients, BTypeOK', Client(c)', Others(c)
  PROVE  BindingInv'
<1> SUFFICES ASSUME NEW d \in Clients PROVE Client(d)'
  BY DEF BindingInv
<1>1. CASE d = c BY <1>1
<1>2. CASE d # c
  <2>1. /\ handle'[d] = handle[d] /\ held'[d] = held[d]
        /\ pending'[d] = pending[d] /\ call'[d] = call[d] /\ raised'[d] = raised[d]
        /\ outcome'[d] = outcome[d]
    BY <1>2 DEF Others
  <2>2. Client(d) BY DEF BindingInv
  <2>3. HandleOf(d)' BY <2>1, <2>2 DEF Client, HandleOf, At
  <2>4. KeptOf(d)' BY <2>1, <2>2 DEF Client, KeptOf
  <2>5. HeededOf(d)' BY <2>1, <2>2 DEF Client, HeededOf
  <2>6. AnswerOf(d)' BY <2>1, <2>2 DEF Client, AnswerOf, Answered
  <2> QED BY <2>3, <2>4, <2>5, <2>6 DEF Client
<1> QED BY <1>1, <1>2

LEMMA MovesOnKeeps ==
  ASSUME BindingInv, NEW c \in Clients, MovesOn(c)
  PROVE  BindingInv'
<1>1. PICK place \in Places \ {"idle", "closing"} : Moves(c, place) BY DEF MovesOn
<1>2. /\ UNCHANGED <<handle, held, pending, raised, outcome, calls, failed>>
      /\ call' = [call EXCEPT ![c].at = place]
  BY <1>1 DEF Moves, Go
<1>3. /\ call \in [Clients -> [op : Ops, at : Places]] /\ BTypeOK /\ Client(c)
  BY DEF BindingInv, BTypeOK
<1>4. /\ call'[c].op = call[c].op /\ call'[c].at = place
      /\ \A d \in Clients \ {c} : call'[d] = call[d]
      /\ call' \in [Clients -> [op : Ops, at : Places]]
  BY <1>2, <1>3
<1>5. BTypeOK' BY <1>2, <1>3, <1>4 DEF BTypeOK
<1>6. Others(c) BY <1>2, <1>4 DEF Others
<1>7. call[c].at \notin {"idle", "closing", "failed", "abandoning"}
  BY DEF MovesOn
<1>8. HandleOf(c)'
  <2>1. ~ At(c, "close", "closing") /\ ~ At(c, "close", "closing")'
    BY <1>1, <1>4, <1>7 DEF At
  <2> QED BY <1>2, <1>3, <1>4, <1>7, <2>1 DEF Client, HandleOf
<1>9. KeptOf(c)' BY <1>1, <1>2, <1>3, <1>4, <1>7 DEF Client, KeptOf
<1>10. HeededOf(c)' BY <1>1, <1>2, <1>3, <1>4, <1>7 DEF Client, HeededOf
<1>11. AnswerOf(c)' BY <1>1, <1>4 DEF AnswerOf, Answered
<1> QED BY <1>5, <1>6, <1>8, <1>9, <1>10, <1>11, Together DEF Client

\* The exception reaches the writer whose call it is, and no other.
LEMMA FailsOnKeeps ==
  ASSUME BindingInv, NEW c \in Clients, FailsOn(c)
  PROVE  BindingInv'
<1>1. PICK kind \in Kinds, place \in Places \ {"idle"} :
        /\ Fails(c, kind, place)
        /\ place = "closing" <=> At(c, "close", "closing")
        /\ c \in PythonClients \/ place \in {"failed", "abandoning", "closing"}
  BY DEF FailsOn
<1> DEFINE e == [no |-> failed + 1, kind |-> kind]
<1>2. BTypeOK /\ Client(c) /\ call[c].at # "idle" BY DEF BindingInv, FailsOn
<1>3. call[c].op # "none" BY <1>2 DEF Client, HandleOf
<1>4. failed + 1 \in Nat /\ e \in Exception
  <2>1. failed \in Nat BY <1>2 DEF BTypeOK
  <2> QED BY <2>1 DEF Exception
<1>5. /\ UNCHANGED <<handle, held, outcome, calls>>
      /\ call' = [call EXCEPT ![c].at = place]
      /\ raised' = [raised EXCEPT ![c] = Append(@, e)]
      /\ pending' = IF c \in PythonClients THEN [pending EXCEPT ![c] = e] ELSE pending
      /\ failed' = failed + 1
      /\ kind = "interrupt" => c \in PythonClients
  BY <1>1 DEF Fails, Raise, Keeper, Go
<1> HIDE DEF e
<1>6. /\ call'[c].op = call[c].op /\ call'[c].at = place
      /\ \A d \in Clients \ {c} : call'[d] = call[d]
      /\ call' \in [Clients -> [op : Ops, at : Places]]
  BY <1>2, <1>5 DEF BTypeOK
<1>7. /\ raised[c] \in Seq(Exception)
      /\ raised'[c] = Append(raised[c], e)
      /\ \A d \in Clients \ {c} : raised'[d] = raised[d]
  BY <1>2, <1>5 DEF BTypeOK
<1>8. raised'[c] \in Seq(Exception) /\ raised'[c] # <<>> /\ Last(raised'[c]) = e
  BY <1>4, <1>7, LastRaised
<1>9. /\ pending'[c] = IF c \in PythonClients THEN e ELSE pending[c]
      /\ \A d \in Clients \ {c} : pending'[d] = pending[d]
  BY <1>2, <1>5 DEF BTypeOK
<1>10. BTypeOK'
  <2>1. raised' \in [Clients -> Seq(Exception)]
    BY <1>2, <1>5, <1>7, <1>8 DEF BTypeOK
  <2>2. pending' \in [Clients -> Exception \cup {NoException}]
    BY <1>2, <1>4, <1>5 DEF BTypeOK
  <2>3. failed' \in Nat /\ UNCHANGED <<handle, held, outcome>> BY <1>4, <1>5
  <2> QED BY <1>2, <1>6, <2>1, <2>2, <2>3 DEF BTypeOK
<1>11. Others(c) BY <1>5, <1>6, <1>7, <1>9 DEF Others
<1>12. HandleOf(c)'
  <2>1. call[c] \in [op : Ops, at : Places] /\ call'[c] \in [op : Ops, at : Places]
    BY <1>2, <1>6 DEF BTypeOK
  <2>2. At(c, "close", "closing")' <=> At(c, "close", "closing")
    BY <1>1, <1>6, <2>1 DEF At
  <2> QED BY <1>2, <1>3, <1>5, <1>6, <2>2 DEF Client, HandleOf
<1>13. KeptOf(c)'
  BY <1>1, <1>2, <1>3, <1>5, <1>6, <1>8, <1>9 DEF Client, KeptOf, LastOf
<1>14. HeededOf(c)'
  <2>1. e.kind = kind BY DEF e
  <2> QED BY <1>1, <1>5, <1>6, <1>8, <2>1 DEF HeededOf
<1>15. AnswerOf(c)' BY <1>1, <1>6 DEF AnswerOf, Answered
<1> QED BY <1>10, <1>11, <1>12, <1>13, <1>14, <1>15, Together DEF Client

\* What Python raises, and what C is told, of a call that returns.
LEMMA Tells ==
  ASSUME NEW e \in Errors \cup {"none"}, NEW rs \in Seq(Exception)
  PROVE  /\ LET seen == Check(StatusOf(e), LastOf(rs)) IN
            /\ rs # <<>> => seen.error # "none" \/ seen.raises # NoException
            /\ {seen.raises, seen.cause} \ {NoException}
                 = IF rs = <<>> THEN {} ELSE {Last(rs)}
            /\ IF rs # <<>> /\ Last(rs).kind = "interrupt"
               THEN seen.raises = Last(rs) ELSE seen.error = e
         /\ CProgram(StatusOf(e)).error = e
<1>1. rs # <<>> => Last(rs) \in Exception /\ Last(rs) # NoException BY LastRaised
<1>2. CASE e = "none"
  <2>1. StatusOf(e) = 0 BY <1>2 DEF StatusOf
  <2>2. CProgram(StatusOf(e)).error = e BY <1>2, <2>1 DEF CProgram
  <2>3. Check(StatusOf(e), LastOf(rs))
          = [error |-> "none", raises |-> LastOf(rs), cause |-> NoException]
    BY <2>1 DEF Check
  <2> QED BY <1>1, <1>2, <2>2, <2>3 DEF LastOf
<1>3. CASE e \in Errors
  <2>1. /\ StatusOf(e) # 0 /\ e # "none"
        /\ CStatus[StatusOf(e)] = e /\ PyStatus[StatusOf(e)] = e
    BY <1>3, StatusNames
  <2>2. CProgram(StatusOf(e)).error = e BY <2>1 DEF CProgram
  <2>3. CASE rs # <<>> /\ Last(rs).kind = "interrupt"
    <3>1. Check(StatusOf(e), LastOf(rs))
            = [error |-> "none", raises |-> Last(rs), cause |-> NoException]
      BY <2>3 DEF Check, LastOf
    <3> QED BY <1>1, <2>2, <2>3, <3>1
  <2>4. CASE ~ (rs # <<>> /\ Last(rs).kind = "interrupt")
    <3>1. LastOf(rs).kind # "interrupt" BY <2>4 DEF LastOf, NoException
    <3>2. Check(StatusOf(e), LastOf(rs))
            = [error |-> e, raises |-> NoException, cause |-> LastOf(rs)]
      BY <2>1, <3>1 DEF Check
    <3> QED BY <1>1, <2>1, <2>2, <2>4, <3>2 DEF LastOf
  <2> QED BY <2>3, <2>4
<1> QED BY <1>2, <1>3

LEMMA ReturnsOnKeeps ==
  ASSUME BindingInv, NEW c \in Clients, ReturnsOn(c)
  PROVE  BindingInv'
<1>1. PICK e \in Errors \cup {"none"} :
        /\ Returns(c, e)
        /\ e = "none" => call[c].at \notin {"failed", "abandoning"}
  BY DEF ReturnsOn
<1>2. /\ BTypeOK /\ Client(c) /\ call[c].at \notin {"idle", "closing"}
      /\ call[c] \in [op : Ops, at : Places] /\ raised[c] \in Seq(Exception)
  BY DEF BindingInv, BTypeOK, ReturnsOn
<1> DEFINE opens == call[c].op = "open" /\ e = "none"
           seen == IF c \in PythonClients THEN Check(StatusOf(e), pending[c])
                   ELSE CProgram(StatusOf(e))
<1>3. /\ UNCHANGED <<raised, calls, failed>>
      /\ call' = [call EXCEPT ![c].at = "idle"]
      /\ outcome' = [outcome EXCEPT ![c] = [library |-> e, seen |-> seen]]
      /\ pending' = [pending EXCEPT ![c] = NoException]
      /\ handle' = IF opens THEN [handle EXCEPT ![c] = "live"] ELSE handle
      /\ held' = IF opens THEN [held EXCEPT ![c] = TRUE] ELSE held
  BY <1>1 DEF Returns, Keeper, Go
<1> HIDE DEF seen
<1>4. /\ call'[c].op = call[c].op /\ call'[c].at = "idle"
      /\ \A d \in Clients \ {c} : call'[d] = call[d]
      /\ call' \in [Clients -> [op : Ops, at : Places]]
  BY <1>2, <1>3 DEF BTypeOK, Places
<1>5. /\ outcome'[c] = [library |-> e, seen |-> seen]
      /\ \A d \in Clients \ {c} : outcome'[d] = outcome[d]
      /\ DOMAIN outcome' = Clients
  BY <1>2, <1>3 DEF BTypeOK
<1>6. /\ pending'[c] = NoException
      /\ \A d \in Clients \ {c} : pending'[d] = pending[d]
      /\ pending' \in [Clients -> Exception \cup {NoException}]
  BY <1>2, <1>3 DEF BTypeOK
<1>7. /\ handle'[c] = IF opens THEN "live" ELSE handle[c]
      /\ \A d \in Clients \ {c} : handle'[d] = handle[d]
      /\ handle' \in [Clients -> {"none", "live", "freed", "freed twice"}]
  BY <1>2, <1>3 DEF BTypeOK
<1>8. /\ held'[c] = IF opens THEN TRUE ELSE held[c]
      /\ \A d \in Clients \ {c} : held'[d] = held[d]
      /\ held' \in [Clients -> BOOLEAN]
  BY <1>2, <1>3 DEF BTypeOK
<1>9. BTypeOK' BY <1>2, <1>3, <1>4, <1>5, <1>6, <1>7, <1>8 DEF BTypeOK
<1>10. Others(c) BY <1>3, <1>4, <1>5, <1>6, <1>7, <1>8 DEF Others
<1>11. HandleOf(c)'
  <2>1. ~ At(c, "close", "closing") /\ ~ At(c, "close", "closing")'
    BY <1>2, <1>4 DEF At
  <2> QED BY <1>2, <1>4, <1>7, <1>8, <2>1 DEF Client, HandleOf
<1>12. KeptOf(c)' BY <1>2, <1>3, <1>4, <1>6 DEF Client, KeptOf
<1>13. HeededOf(c)' BY <1>2, <1>3, <1>4 DEF Client, HeededOf
<1>14. AnswerOf(c)'
  <2>1. raised'[c] = raised[c] BY <1>3
  <2>2. CASE c \in PythonClients
    <3>1. pending[c] = LastOf(raised[c]) BY <1>2, <2>2 DEF Client, KeptOf
    <3>2. seen = Check(StatusOf(e), LastOf(raised[c])) BY <2>2, <3>1 DEF seen
    <3>3. /\ raised[c] # <<>> => seen.error # "none" \/ seen.raises # NoException
          /\ {seen.raises, seen.cause} \ {NoException}
               = IF raised[c] = <<>> THEN {} ELSE {Last(raised[c])}
          /\ IF raised[c] # <<>> /\ Last(raised[c]).kind = "interrupt"
             THEN seen.raises = Last(raised[c]) ELSE seen.error = e
      <4>1. PICK rs : rs = raised[c] OBVIOUS
      <4>2. rs \in Seq(Exception) /\ e \in Errors \cup {"none"} BY <1>2, <4>1
      <4>3. seen = Check(StatusOf(e), LastOf(rs)) BY <3>2, <4>1
      <4> HIDE DEF seen
      <4>4. /\ rs # <<>> => seen.error # "none" \/ seen.raises # NoException
            /\ {seen.raises, seen.cause} \ {NoException}
                 = IF rs = <<>> THEN {} ELSE {Last(rs)}
            /\ IF rs # <<>> /\ Last(rs).kind = "interrupt"
               THEN seen.raises = Last(rs) ELSE seen.error = e
        BY <4>2, <4>3, Tells
      <4> QED BY <4>1, <4>4
    <3>4. outcome'[c].seen = seen /\ outcome'[c].library = e BY <1>5
    <3> QED BY <2>1, <3>3, <3>4 DEF AnswerOf
  <2>3. CASE c \notin PythonClients
    <3>1. seen.error = e BY <1>2, <2>3, Tells DEF seen
    <3>2. raised[c] # <<>> => e # "none" /\ Last(raised[c]).kind # "interrupt"
      BY <1>1, <1>2, <2>3 DEF Client, HeededOf
    <3> QED BY <1>5, <2>1, <2>3, <3>1, <3>2 DEF AnswerOf
  <2> QED BY <2>2, <2>3
<1> QED BY <1>9, <1>10, <1>11, <1>12, <1>13, <1>14, Together DEF Client

\* A call begins: nothing has failed in it yet, and the answer to the last is past.
LEMMA BeginsOf ==
  ASSUME BindingInv, NEW c \in Clients, NEW op \in Ops, NEW place \in Places,
         Begins(c, op, place)
  PROVE  /\ call[c].at = "idle" /\ call'[c] = [op |-> op, at |-> place]
         /\ raised'[c] = <<>>
         /\ \A d \in Clients \ {c} : call'[d] = call[d] /\ raised'[d] = raised[d]
         /\ call' \in [Clients -> [op : Ops, at : Places]]
         /\ raised' \in [Clients -> Seq(Exception)]
<1>1. /\ call \in [Clients -> [op : Ops, at : Places]]
      /\ raised \in [Clients -> Seq(Exception)]
  BY DEF BindingInv, BTypeOK
<1>2. /\ call' = [call EXCEPT ![c] = [op |-> op, at |-> place]]
      /\ raised' = [raised EXCEPT ![c] = <<>>] /\ call[c].at = "idle"
  BY DEF Begins
<1>3. <<>> \in Seq(Exception) /\ [op |-> op, at |-> place] \in [op : Ops, at : Places]
  OBVIOUS
<1> QED BY <1>1, <1>2, <1>3

\* A call other than a close does not have its handle in the hands of the library.
LEMMA NotClosing ==
  ASSUME NEW c \in Clients, NEW op \in Ops, NEW place \in Places,
         call[c].at = "idle", call'[c] = [op |-> op, at |-> place], op # "close"
  PROVE  /\ ~ At(c, "close", "closing") /\ ~ At(c, "close", "closing")'
         /\ call'[c].op = op /\ call'[c].at = place
<1>1. call'[c].op = op /\ call'[c].at = place OBVIOUS
<1> QED BY <1>1 DEF At

LEMMA OpenKeeps ==
  ASSUME BindingInv, NEW c \in Clients, Open(c)
  PROVE  BindingInv'
<1>1. /\ BTypeOK /\ Client(c) /\ handle[c] = "none" /\ call[c].op = "none"
      /\ Begins(c, "open", "existing")
      /\ UNCHANGED <<handle, held, pending, outcome, failed>>
  BY DEF BindingInv, Open
<1>2. /\ call[c].at = "idle" /\ call'[c] = [op |-> "open", at |-> "existing"]
      /\ raised'[c] = <<>>
      /\ \A d \in Clients \ {c} : call'[d] = call[d] /\ raised'[d] = raised[d]
      /\ call' \in [Clients -> [op : Ops, at : Places]]
      /\ raised' \in [Clients -> Seq(Exception)]
  BY <1>1, BeginsOf DEF Ops, Places
<1>4. BTypeOK' BY <1>1, <1>2 DEF BTypeOK
<1>5. Others(c) BY <1>1, <1>2 DEF Others
<1>6. HandleOf(c)'
  <2>1. /\ ~ At(c, "close", "closing") /\ ~ At(c, "close", "closing")'
        /\ call'[c].op = "open" /\ call'[c].at = "existing"
    BY <1>2, NotClosing DEF Ops, Places
  <2> QED BY <1>1, <2>1 DEF Client, HandleOf
<1>7. KeptOf(c)' BY <1>1, <1>2 DEF Client, KeptOf, LastOf
<1>8. HeededOf(c)' /\ AnswerOf(c)' BY <1>2 DEF HeededOf, AnswerOf, Answered
<1> QED BY <1>4, <1>5, <1>6, <1>7, <1>8, Together DEF Client

LEMMA UseKeeps ==
  ASSUME BindingInv, NEW c \in Clients, NEW op \in {"write", "flush", "clear"},
         NEW place \in {"filling", "sending", "creating", "flushing", "clearing"},
         Use(c, op, place)
  PROVE  BindingInv'
<1>1. /\ BTypeOK /\ Client(c) /\ held[c] /\ Begins(c, op, place)
      /\ UNCHANGED <<handle, held, pending, outcome, failed>>
  BY DEF BindingInv, Use
<1>2. /\ call[c].at = "idle" /\ call'[c] = [op |-> op, at |-> place]
      /\ raised'[c] = <<>>
      /\ \A d \in Clients \ {c} : call'[d] = call[d] /\ raised'[d] = raised[d]
      /\ call' \in [Clients -> [op : Ops, at : Places]]
      /\ raised' \in [Clients -> Seq(Exception)]
  <2>1. op \in Ops /\ place \in Places BY DEF Ops, Places
  <2> QED BY <1>1, <2>1, BeginsOf
<1>3. BTypeOK' BY <1>1, <1>2 DEF BTypeOK
<1>4. Others(c) BY <1>1, <1>2 DEF Others
<1>5. call[c].op # "none" BY <1>1 DEF Client, HandleOf
<1>6. HandleOf(c)'
  <2>1. /\ ~ At(c, "close", "closing") /\ ~ At(c, "close", "closing")'
        /\ call'[c].op = op /\ call'[c].at = place
    BY <1>2, NotClosing DEF Ops, Places
  <2> QED BY <1>1, <1>5, <2>1 DEF Client, HandleOf
<1>7. KeptOf(c)' BY <1>1, <1>2, <1>5 DEF Client, KeptOf, LastOf
<1>8. HeededOf(c)' /\ AnswerOf(c)' BY <1>2 DEF HeededOf, AnswerOf, Answered
<1> QED BY <1>3, <1>4, <1>6, <1>7, <1>8, Together DEF Client

LEMMA UseNullKeeps ==
  ASSUME BindingInv, NEW c \in Clients, UseNull(c)
  PROVE  BindingInv'
<1> DEFINE answer == [library |-> "NullArgument",
                      seen |-> [error |-> "NullArgument", raises |-> NoException,
                                cause |-> NoException]]
<1>1. /\ BTypeOK /\ Client(c) /\ call[c].op # "none" /\ ~ held[c]
      /\ Begins(c, "null", "idle") /\ outcome' = [outcome EXCEPT ![c] = answer]
      /\ UNCHANGED <<handle, held, pending, failed>>
  BY DEF BindingInv, UseNull
<1> HIDE DEF answer
<1>2. /\ call[c].at = "idle" /\ call'[c] = [op |-> "null", at |-> "idle"]
      /\ raised'[c] = <<>>
      /\ \A d \in Clients \ {c} : call'[d] = call[d] /\ raised'[d] = raised[d]
      /\ call' \in [Clients -> [op : Ops, at : Places]]
      /\ raised' \in [Clients -> Seq(Exception)]
  BY <1>1, BeginsOf DEF Ops, Places
<1>3. /\ DOMAIN outcome' = Clients
      /\ \A d \in Clients \ {c} : outcome'[d] = outcome[d]
  BY <1>1 DEF BTypeOK
<1>4. BTypeOK' BY <1>1, <1>2, <1>3 DEF BTypeOK
<1>5. Others(c) BY <1>1, <1>2, <1>3 DEF Others
<1>6. HandleOf(c)'
  <2>1. /\ ~ At(c, "close", "closing") /\ ~ At(c, "close", "closing")'
        /\ call'[c].op = "null" /\ call'[c].at = "idle"
    BY <1>2, NotClosing DEF Ops, Places
  <2> QED BY <1>1, <1>2, <2>1 DEF Client, HandleOf
<1>7. KeptOf(c)' BY <1>1, <1>2 DEF Client, KeptOf
<1>8. HeededOf(c)' /\ AnswerOf(c)' BY <1>2 DEF HeededOf, AnswerOf, Answered
<1> QED BY <1>4, <1>5, <1>6, <1>7, <1>8, Together DEF Client

LEMMA CloseKeeps ==
  ASSUME BindingInv, NEW c \in Clients, Close(c)
  PROVE  BindingInv'
<1>1. /\ BTypeOK /\ Client(c) /\ held[c] /\ Begins(c, "close", "closing")
      /\ held' = [held EXCEPT ![c] = FALSE]
      /\ UNCHANGED <<handle, pending, outcome, failed>>
  BY DEF BindingInv, Close
<1>2. /\ call[c].at = "idle" /\ call'[c] = [op |-> "close", at |-> "closing"]
      /\ raised'[c] = <<>>
      /\ \A d \in Clients \ {c} : call'[d] = call[d] /\ raised'[d] = raised[d]
      /\ call' \in [Clients -> [op : Ops, at : Places]]
      /\ raised' \in [Clients -> Seq(Exception)]
  BY <1>1, BeginsOf DEF Ops, Places
<1>3. /\ ~ held'[c] /\ held' \in [Clients -> BOOLEAN]
      /\ \A d \in Clients \ {c} : held'[d] = held[d]
  BY <1>1 DEF BTypeOK
<1>4. BTypeOK' BY <1>1, <1>2, <1>3 DEF BTypeOK
<1>5. Others(c) BY <1>1, <1>2, <1>3 DEF Others
<1>6. call[c].op # "none" /\ handle[c] = "live" BY <1>1 DEF Client, HandleOf
<1>7. HandleOf(c)' BY <1>1, <1>2, <1>3, <1>6 DEF Client, HandleOf, At
<1>8. KeptOf(c)' BY <1>1, <1>2, <1>6 DEF Client, KeptOf, LastOf
<1>9. HeededOf(c)' /\ AnswerOf(c)' BY <1>2 DEF HeededOf, AnswerOf, Answered
<1> QED BY <1>4, <1>5, <1>7, <1>8, <1>9, Together DEF Client

LEMMA ClosedKeeps ==
  ASSUME BindingInv, NEW c \in Clients, Closed(c)
  PROVE  BindingInv'
<1>1. /\ BTypeOK /\ Client(c) /\ At(c, "close", "closing")
      /\ handle' = [handle EXCEPT ![c] = IF @ = "live" THEN "freed" ELSE "freed twice"]
      /\ pending' = [pending EXCEPT ![c] = NoException]
      /\ call' = [call EXCEPT ![c].at = "idle"]
      /\ UNCHANGED <<held, raised, outcome, failed>>
  BY DEF BindingInv, Closed, Keeper, Go
<1>2. handle[c] = "live" /\ ~ held[c] BY <1>1 DEF Client, HandleOf
<1>3. /\ handle'[c] = "freed" /\ \A d \in Clients \ {c} : handle'[d] = handle[d]
      /\ handle' \in [Clients -> {"none", "live", "freed", "freed twice"}]
  BY <1>1, <1>2 DEF BTypeOK
<1>4. /\ pending'[c] = NoException /\ \A d \in Clients \ {c} : pending'[d] = pending[d]
      /\ pending' \in [Clients -> Exception \cup {NoException}]
  BY <1>1 DEF BTypeOK
<1>5. /\ call'[c].op = "close" /\ call'[c].at = "idle"
      /\ \A d \in Clients \ {c} : call'[d] = call[d]
      /\ call' \in [Clients -> [op : Ops, at : Places]]
  <2>1. /\ call \in [Clients -> [op : Ops, at : Places]] /\ "idle" \in Places
    BY <1>1 DEF BTypeOK, Places
  <2>2. call[c] = [op |-> "close", at |-> "closing"] BY <1>1 DEF At
  <2>3. call[c].op = "close" BY <2>2
  <2> QED BY <1>1, <2>1, <2>3
<1>6. BTypeOK' BY <1>1, <1>3, <1>4, <1>5 DEF BTypeOK
<1>7. Others(c) BY <1>1, <1>3, <1>4, <1>5 DEF Others
<1>8. HandleOf(c)'
  <2>1. held'[c] = FALSE /\ call'[c].op # "none" /\ call'[c].op # "open" BY <1>1, <1>2, <1>5
  <2>2. ~ At(c, "close", "closing")' BY <1>5 DEF At
  <2> QED BY <1>3, <2>1, <2>2 DEF HandleOf
<1>9. KeptOf(c)'
  <2>1. call[c] = [op |-> "close", at |-> "closing"] BY <1>1 DEF At
  <2>2. call[c].op = "close" BY <2>1
  <2> QED BY <1>1, <1>4, <1>5, <2>2 DEF Client, KeptOf
<1>10. HeededOf(c)' BY <1>1, <1>5 DEF Client, HeededOf
<1>11. AnswerOf(c)' BY <1>5 DEF AnswerOf, Answered
<1> QED BY <1>6, <1>7, <1>8, <1>9, <1>10, <1>11, Together DEF Client

LEMMA StepKeeps ==
  ASSUME BindingInv, [Next]_bvars
  PROVE  BindingInv'
<1>1. ASSUME NEW c \in Clients, Writer(c) PROVE BindingInv'
  <2>1. CASE Open(c) BY <2>1, OpenKeeps
  <2>2. CASE UseNull(c) BY <2>2, UseNullKeeps
  <2>3. CASE Close(c) BY <2>3, CloseKeeps
  <2>4. CASE Closed(c) BY <2>4, ClosedKeeps
  <2>5. CASE \/ \E place \in {"filling", "sending", "creating"} : Use(c, "write", place)
             \/ Use(c, "flush", "flushing") \/ Use(c, "clear", "clearing")
    BY <2>5, UseKeeps
  <2>6. CASE Opening(c) \/ Creating(c) \/ Writing(c) \/ Abandoning(c) \/ Dropping(c)
               \/ Heeded(c) \/ Flushing(c) \/ Clearing(c)
    BY <2>6, WithinLibrary, MovesOnKeeps, FailsOnKeeps, ReturnsOnKeeps
  <2> QED BY <1>1, <2>1, <2>2, <2>3, <2>4, <2>5, <2>6 DEF Writer
<1>2. CASE UNCHANGED bvars
  <2>1. BTypeOK' BY <1>2 DEF BindingInv, BTypeOK, bvars
  <2>2. ASSUME NEW c \in Clients PROVE Client(c)'
    <3>1. Client(c) BY DEF BindingInv
    <3> QED BY <1>2, <3>1 DEF Client, HandleOf, KeptOf, HeededOf, AnswerOf, Answered, At, bvars
  <2> QED BY <2>1, <2>2 DEF BindingInv
<1> QED BY <1>1, <1>2 DEF Next

-----------------------------------------------------------------------------
(* The theorems.                                                           *)

\* In whatever order calls begin, call back, fail and return, a writer's pending
\* exception and its handle are those of its own call.
THEOREM Invariance == Spec => []BindingInv
<1>1. Init => BindingInv BY InitEstablishes
<1>2. BindingInv /\ [Next]_bvars => BindingInv' BY StepKeeps
<1> QED BY <1>1, <1>2, PTL DEF Spec

\* A handle is released once (tcslog_write_close), also after a constructor that
\* raised (LogWrite.__init__) and by a destructor.
THEOREM HandlesClosedOnce == Spec => []ClosedOnce
<1>1. BindingInv => ClosedOnce
  BY DEF BindingInv, BTypeOK, ClosedOnce, Client, HandleOf, At
<1> QED BY <1>1, Invariance, PTL

\* No write and no constructor succeeds when a callback has failed
\* in it, unless Python raises the exception itself (CHandler, LogWrite._check).
THEOREM NoFailureSwallowed == Spec => []FailureTold
<1>1. BindingInv => FailureTold
  BY DEF BindingInv, Client, AnswerOf, FailureTold, Answered
<1> QED BY <1>1, Invariance, PTL

\* The exception that Python raises or gives as the cause is the last of the call's
\* own callbacks (LogWrite._pending), with any number of writers in threads.
THEOREM ExceptionsKeptApart == Spec => []ExceptionOfThisCall
<1>1. BindingInv => ExceptionOfThisCall
  <2> SUFFICES ASSUME BindingInv, NEW c \in Answered \cap PythonClients
               PROVE  LET seen == outcome[c].seen
                      IN {seen.raises, seen.cause} \ {NoException}
                           = IF raised[c] = <<>> THEN {} ELSE {Last(raised[c])}
    BY DEF ExceptionOfThisCall
  <2>1. AnswerOf(c) BY DEF BindingInv, Client, Answered
  <2> QED BY <2>1 DEF AnswerOf
<1> QED BY <1>1, Invariance, PTL

\* A status means to C and to Python the error the library returned, and only an
\* interrupt takes an error's place.
THEOREM ErrorsKept == Spec => []ErrorKept
<1>1. BindingInv => ErrorKept
  BY DEF BindingInv, Client, AnswerOf, ErrorKept, Answered
<1> QED BY <1>1, Invariance, PTL
=============================================================================
