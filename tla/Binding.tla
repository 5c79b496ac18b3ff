------------------------------- MODULE Binding -------------------------------
(***************************************************************************)
(* What C and Python programs that write see of the library, through       *)
(* tcslog-c/src/lib.rs and the package over it (tcslog-py/tcslog/).        *)
(*                                                                         *)
(* Each client is one writer, used by one thread; the threads of the       *)
(* clients interleave, also while a call is within the library.  Of the    *)
(* library a call keeps what a binding can see: where it calls back, which *)
(* of the answers it heeds, and the error it returns (write.rs).           *)
(***************************************************************************)
EXTENDS Naturals, Sequences, SequencesExt

CONSTANTS
  Clients,         \* writers
  PythonClients,   \* those of Python programs; the others are C programs
  MaxCalls,        \* bound on the calls of all clients
  MaxRaised        \* bound on the callbacks that fail

ASSUME BindingAssumption ==
  /\ PythonClients \subseteq Clients
  /\ {MaxCalls, MaxRaised} \subseteq Nat

VARIABLES
  handle,    \* the box behind each writer's handle: none, live, freed, freed twice
  held,      \* whether the client's variable still holds the handle
  pending,   \* the exception kept in each Python writer
  call,      \* the call each client is in, and where the library is in it
  raised,    \* for the properties: what callbacks failed with in that call
  outcome,   \* how the last call ended
  calls, failed

bvars == <<handle, held, pending, call, raised, outcome, calls, failed>>

-----------------------------------------------------------------------------
(* Statuses.                                                               *)

\* TcslogStatus by number, from 1; Ok is 0.
CStatus ==
  <<"Eof", "SessionEnd", "ReadTruncated", "ReadOverflow", "ClockError",
    "FixedLenMismatch", "InvalidHeader", "InvalidPathname", "IoError",
    "NoSegmentFiles", "PathDelimiterNotAllowed", "PayloadTooLarge",
    "SegSizeTooSmall", "TimerResolutionZero", "VersionMismatch", "NullArgument",
    "NotUtf8", "Panic", "InvalidFormat", "BufferTooSmall", "NameTooLong",
    "TimestampOverflow">>

\* _ERRORS: the exception class Python raises for each number.
PyStatus ==
  <<"Eof", "SessionEnd", "ReadTruncated", "ReadOverflow", "ClockError",
    "FixedLenMismatch", "InvalidHeader", "InvalidPathname", "IoError",
    "NoSegmentFiles", "PathDelimiterNotAllowed", "PayloadTooLarge",
    "SegSizeTooSmall", "TimerResolutionZero", "VersionMismatch", "NullArgument",
    "NotUtf8", "Panic", "InvalidFormat", "BufferTooSmall", "NameTooLong",
    "TimestampOverflow">>

StatusOf(error) ==
  IF error = "none" THEN 0 ELSE CHOOSE i \in DOMAIN CStatus : CStatus[i] = error

\* What each call refuses before or without calling back (write.rs).
OpenErrors ==
  {"ClockError", "FixedLenMismatch", "InvalidPathname", "IoError", "NameTooLong",
   "NotUtf8", "NullArgument", "InvalidFormat", "PathDelimiterNotAllowed",
   "SegSizeTooSmall", "TimerResolutionZero", "TimestampOverflow"}
CreateErrors == {"IoError", "TimestampOverflow"}
WriteErrors == {"FixedLenMismatch", "PayloadTooLarge", "IoError", "TimestampOverflow"}

-----------------------------------------------------------------------------
(* Callbacks.                                                              *)

NoException == [no |-> 0, kind |-> "none"]
Kinds == {"error", "interrupt"}   \* an Exception, and a KeyboardInterrupt

\* A mistake: one place for the exceptions of all writers, as an attribute of the
\* class would be.
KeeperShared(c) == IF c \in PythonClients THEN CHOOSE p \in PythonClients : TRUE ELSE c

\* The writer that keeps the exceptions of the callbacks c makes: the functions C
\* calls are methods bound to the writer that gave them.
Keeper(c) == c

\* A callback fails: Python keeps the exception and answers 1; C's callbacks answer
\* with a number other than 0.
Raise(c, kind) ==
  LET e == [no |-> failed + 1, kind |-> kind]
  IN /\ failed < MaxRaised /\ failed' = failed + 1
     /\ kind = "interrupt" => c \in PythonClients
     /\ raised' = [raised EXCEPT ![c] = Append(@, e)]
     /\ pending' = IF c \in PythonClients
                   THEN [pending EXCEPT ![Keeper(c)] = e] ELSE pending

\* A mistake: a call that succeeded raises nothing.
CheckFailures(status, kept) ==
  IF status = 0 THEN [error |-> "none", raises |-> NoException, cause |-> NoException]
  ELSE [error |-> PyStatus[status], raises |-> NoException, cause |-> kept]

\* A mistake: an interrupt only becomes the cause of the library's error.
CheckWrapping(status, kept) ==
  IF status = 0 THEN [error |-> "none", raises |-> kept, cause |-> NoException]
  ELSE [error |-> PyStatus[status], raises |-> NoException, cause |-> kept]

\* LogWrite._check: what Python raises for a status and an exception kept.
Check(status, kept) ==
  IF status = 0 \/ kept.kind = "interrupt"
  THEN [error |-> "none", raises |-> kept, cause |-> NoException]
  ELSE [error |-> PyStatus[status], raises |-> NoException, cause |-> kept]

\* A C program has the status alone.
CProgram(status) ==
  [error |-> IF status = 0 THEN "none" ELSE CStatus[status],
   raises |-> NoException, cause |-> NoException]

At(c, op, place) == call[c] = [op |-> op, at |-> place]
Go(c, place) == call' = [call EXCEPT ![c].at = place]

\* The library moves on without a callback failing.
Moves(c, place) ==
  Go(c, place) /\ UNCHANGED <<handle, held, pending, raised, outcome, calls, failed>>

\* A callback fails, and the library moves on as the answer has it.
Fails(c, kind, place) ==
  Raise(c, kind) /\ Go(c, place) /\ UNCHANGED <<handle, held, outcome, calls>>

\* The library returns to C, and C to the client: error is "none" for Ok.
Returns(c, error) ==
  LET opens == call[c].op = "open" /\ error = "none" IN
  /\ Go(c, "idle")
  /\ outcome' = [outcome EXCEPT ![c] =
       [library |-> error,
        seen |-> IF c \in PythonClients THEN Check(StatusOf(error), pending[Keeper(c)])
                 ELSE CProgram(StatusOf(error))]]
  /\ pending' = [pending EXCEPT ![Keeper(c)] = NoException]
  /\ handle' = IF opens THEN [handle EXCEPT ![c] = "live"] ELSE handle
  /\ held' = IF opens THEN [held EXCEPT ![c] = TRUE] ELSE held
  /\ UNCHANGED <<raised, calls, failed>>

-----------------------------------------------------------------------------
(* Calls.                                                                  *)

Begins(c, op, place) ==
  /\ call[c].at = "idle" /\ calls < MaxCalls
  /\ calls' = calls + 1
  /\ call' = [call EXCEPT ![c] = [op |-> op, at |-> place]]
  /\ raised' = [raised EXCEPT ![c] = <<>>]

\* tcslog_write_open: the program's callbacks are copied, and called from now on.
Open(c) ==
  /\ handle[c] = "none" /\ call[c].op = "none"
  /\ Begins(c, "open", "existing")
  /\ UNCHANGED <<handle, held, pending, outcome, failed>>

\* tcslog_write_record, _flush and _clear, with a handle that is not null.
Use(c, op, place) ==
  /\ held[c] /\ Begins(c, op, place)
  /\ UNCHANGED <<handle, held, pending, outcome, failed>>

\* A call with no handle goes no further: C is answered NullArgument, and in
\* Python _handle raises.
UseNull(c) ==
  /\ call[c].op # "none" /\ ~ held[c] /\ (c \in PythonClients \/ handle[c] = "none")
  /\ Begins(c, "null", "idle")
  /\ outcome' = [outcome EXCEPT ![c] =
       [library |-> "NullArgument",
        seen |-> [error |-> "NullArgument", raises |-> NoException, cause |-> NoException]]]
  /\ UNCHANGED <<handle, held, pending, failed>>

\* A mistake: a closed writer keeps its handle, which the next close or __del__
\* closes again.
CloseHolding(c) ==
  /\ held[c] /\ Begins(c, "close", "closing")
  /\ UNCHANGED <<handle, held, pending, outcome, failed>>

\* close, a destructor, or __del__: the handle is let go of first.
Close(c) ==
  /\ held[c] /\ Begins(c, "close", "closing")
  /\ held' = [held EXCEPT ![c] = FALSE]
  /\ UNCHANGED <<handle, pending, outcome, failed>>

\* tcslog_write_close: the box is dropped, and nothing is told.
Closed(c) ==
  /\ At(c, "close", "closing")
  /\ handle' = [handle EXCEPT ![c] = IF @ = "live" THEN "freed" ELSE "freed twice"]
  /\ pending' = [pending EXCEPT ![Keeper(c)] = NoException]
  /\ Go(c, "idle")
  /\ UNCHANGED <<held, raised, outcome, calls, failed>>

-----------------------------------------------------------------------------
(* The library within a call.                                              *)

\* new: files left by an earlier writer are sent, and the first one is made.
Opening(c) ==
  \/ /\ At(c, "open", "existing")
     /\ \/ \E kind \in Kinds : Fails(c, kind, "failed")
        \/ Moves(c, "creating")
        \/ \E e \in OpenErrors : Returns(c, e)
  \/ /\ At(c, "open", "creating")
     /\ Returns(c, "none") \/ \E e \in CreateErrors : Returns(c, e)

\* create_segment, within any call: only a widened resolution is told, to no
\* effect; C's callback for it returns nothing.
Creating(c) ==
  /\ call[c].at \in {"creating", "abandoning"} /\ c \in PythonClients
  /\ \E kind \in Kinds : Fails(c, kind, call[c].at)

\* write: a session starts or a file rolls, each file is sent when it is full,
\* pieces are written, and record_complete is called at the end.
Writing(c) ==
  \/ /\ At(c, "write", "filling")
     /\ \/ Moves(c, "sending")
        \/ Moves(c, "creating")
        \/ Moves(c, "leaving")
        \/ \E kind \in Kinds : Fails(c, kind, "failed")
        \/ Returns(c, "none")
        \/ \E e \in WriteErrors : Returns(c, e)
  \/ /\ At(c, "write", "sending")
     /\ \/ \E kind \in Kinds : Fails(c, kind, "failed")
        \/ Moves(c, "creating")
        \/ Returns(c, "IoError")
  \/ /\ At(c, "write", "creating")
     /\ Moves(c, "filling") \/ \E e \in CreateErrors : Returns(c, e)

\* abandon_after_error: the file is sent whatever send says, another is made,
\* and the call fails with the error that began it.
Abandoning(c) ==
  \/ /\ At(c, "write", "leaving")
     /\ \/ \E kind \in Kinds : Fails(c, kind, "abandoning")
        \/ Moves(c, "abandoning")
  \/ At(c, "write", "abandoning") /\ \E e \in CreateErrors : Returns(c, e)

\* drop: the last file is sent, whatever send says.
Dropping(c) ==
  At(c, "close", "closing") /\ \E kind \in Kinds : Fails(c, kind, "closing")

Heeded(c) == call[c].at = "failed" /\ Returns(c, "IoError")

\* flush, and clear, which removes files and hands none over: neither calls back.
Flushing(c) ==
  At(c, "flush", "flushing") /\ (Returns(c, "none") \/ Returns(c, "IoError"))

Clearing(c) ==
  At(c, "clear", "clearing") /\ (Returns(c, "none") \/ Returns(c, "IoError"))

-----------------------------------------------------------------------------
Init ==
  /\ handle = [c \in Clients |-> "none"]
  /\ held = [c \in Clients |-> FALSE]
  /\ pending = [c \in Clients |-> NoException]
  /\ call = [c \in Clients |-> [op |-> "none", at |-> "idle"]]
  /\ raised = [c \in Clients |-> <<>>]
  /\ outcome = [c \in Clients |-> [library |-> "none", seen |-> CProgram(0)]]
  /\ calls = 0 /\ failed = 0

Writer(c) ==
  \/ Open(c) \/ UseNull(c) \/ Close(c) \/ Closed(c)
  \/ \E place \in {"filling", "sending", "creating"} : Use(c, "write", place)
  \/ Use(c, "flush", "flushing") \/ Use(c, "clear", "clearing")
  \/ Opening(c) \/ Creating(c) \/ Writing(c) \/ Abandoning(c) \/ Dropping(c)
  \/ Heeded(c) \/ Flushing(c) \/ Clearing(c)

Next == \E c \in Clients : Writer(c)

Spec == Init /\ [][Next]_bvars

-----------------------------------------------------------------------------
(* Properties.                                                             *)

\* A client whose last call has come back, and was not a close.
Answered == {c \in Clients : call[c].at = "idle" /\ call[c].op \notin {"none", "null", "close"}}

\* "Anything else makes the write that triggered the callback report
\* IO_ERROR" (manual.rst): a call never ends quietly when a callback failed in it.
FailureTold ==
  \A c \in Answered : raised[c] # <<>> =>
    outcome[c].seen.error # "none" \/ outcome[c].seen.raises # NoException

\* Python raises the last exception of the callbacks of this very call, or gives
\* it as the cause: never one of an earlier call or of another writer's.
ExceptionOfThisCall ==
  \A c \in Answered \cap PythonClients :
    LET seen == outcome[c].seen
    IN {seen.raises, seen.cause} \ {NoException}
         = IF raised[c] = <<>> THEN {} ELSE {Last(raised[c])}

\* The library's error reaches the program as itself, by number through C and by
\* class in Python; but a KeyboardInterrupt that comes within the last failing
\* callback is raised in its place, whatever the library makes of the callback.
ErrorKept ==
  \A c \in Answered :
    IF raised[c] # <<>> /\ Last(raised[c]).kind = "interrupt"
    THEN outcome[c].seen.raises = Last(raised[c])
    ELSE outcome[c].seen.error = outcome[c].library

\* A handle is closed once, and only a handle in nobody's variable is closed;
\* until then it is in one, so that the writer can be closed, also when the
\* constructor that opened it has raised.
ClosedOnce ==
  \A c \in Clients :
    /\ handle[c] # "freed twice"
    /\ held[c] => handle[c] = "live"
    /\ handle[c] = "live" => held[c] \/ call[c] = [op |-> "close", at |-> "closing"]
=============================================================================
