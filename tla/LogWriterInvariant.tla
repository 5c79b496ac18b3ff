-------------------------- MODULE LogWriterInvariant --------------------------
(***************************************************************************)
(* The inductive invariant of LogWriter: what holds at every place in a    *)
(* call, from which the invariants of the files follow.                    *)
(***************************************************************************)
EXTENDS LogWriter

Newest == files[Len(files)]

\* Where a call is, and what it is about.
Control ==
  /\ pc = "close" <=> why # "none"
  /\ back = "none" <=> pc \in {"down", "idle", "resend", "clear"}
  /\ pc = "build" => back = "build"
  /\ pc = "bytes" => back = "bytes"
  /\ back = "ready" => pc = "open"
  /\ back = "bytes" => pc \in {"bytes", "close", "extend"}
  /\ back = "error" => pc \in {"close", "extend"}
  /\ why = "session" => back = "build"
  /\ why = "abandon" => back = "error"

\* The open segment file is the newest.
CurrentFile ==
  /\ cur \in {0, Len(files)}
  /\ pc \in {"close", "build", "bytes"} => cur # 0
  /\ pc \in {"down", "resend", "open", "extend", "clear"} => cur = 0
  /\ \A i \in 1 .. Len(files) : files[i].state = "open" => i = cur

\* What the record in progress still owes, when a file is or may be open.
Owing ==
  /\ back \in {"build", "bytes", "error"} => records # <<>>
  /\ back = "bytes" => off <= Total /\ left = Total - off
  /\ back # "bytes" /\ (cur # 0 \/ pc \in {"open", "extend"}) => left = 0
  /\ back \notin {"bytes", "error"} => off = 0

\* The session and sequence that the next file of the session carries on.
Position ==
  /\ cur # 0 =>
       Newest.whole /\ Newest.session = sessionId /\ Newest.seq = sequence
  /\ pc = "open" => sequence = 0
  /\ pc = "extend" =>
       /\ files # <<>> /\ Newest.whole /\ Newest.session = sessionId
       /\ sequence = SeqNext(Newest.seq)

\* No file holds more than its data section, or a byte of no record.
Contents ==
  \A i \in 1 .. Len(files) :
    /\ Len(files[i].data) <= DataLen
    /\ \A o \in 1 .. Len(files[i].data) : files[i].data[o][1] \in 1 .. Len(records)

\* Between two records an empty file owes nothing, and a record is begun only
\* where there is room for some of it.
BetweenRecords ==
  /\ pc \in {"idle", "build"} /\ cur # 0 /\ Newest.data = <<>> => Newest.remaining = 0
  /\ pc = "build" => Len(Newest.data) < DataLen

\* A record goes on behind its byte off, in the file or from the one before.
WithinRecord ==
  pc = "bytes" =>
    IF off = 0
    THEN Len(Newest.data) < DataLen /\ (Newest.data = <<>> => Newest.remaining = 0)
    ELSE IF Newest.data = <<>>
    THEN /\ off < Total /\ Newest.remaining # 0
         /\ Len(files) > 1 /\ files[Len(files) - 1].data[DataLen] = <<Rec, off>>
    ELSE Newest.data[Len(Newest.data)] = <<Rec, off>>

\* A file that is rolled out of within a record is full, and ends at byte off.
Rolling ==
  back = "bytes" /\ pc \in {"close", "extend"} =>
    /\ files # <<>> /\ 0 < off /\ off < Total
    /\ Len(Newest.data) = DataLen /\ Newest.data[DataLen] = <<Rec, off>>

\* The place in a call, and what has been stored at it.
Place ==
  /\ Control /\ CurrentFile /\ Owing /\ Position
  /\ BetweenRecords /\ WithinRecord /\ Rolling

FileInv == SequenceDense /\ Contents /\ RemainingTold

Inv == TypeOK /\ Place /\ FileInv

-----------------------------------------------------------------------------
(* What the record in progress and the bytes on storage have to do with    *)
(* one another, from which it follows that records are stored.             *)

\* Every record is one the log accepts.
LensAccepted == \A r \in 1 .. Len(records) : Accepts(records[r].len)

\* A record is being written exactly while a call is about it, and only the last.
Alone ==
  \A r \in 1 .. Len(records) :
    records[r].status = "writing" <=> r = Rec /\ back \in {"build", "bytes", "error"}

\* Nothing is on storage of a record yet to be built, and nothing beyond the byte
\* that one being stored has reached.
Frontier ==
  \A i \in 1 .. Len(files) : \A a \in 1 .. Len(files[i].data) :
    /\ back = "build" => files[i].data[a][1] # Rec
    /\ back = "bytes" => ~ Before(<<Rec, off>>, files[i].data[a])

StorageInv == LensAccepted /\ Alone /\ Frontier /\ RecordsStored

\* Byte b is the last of its record.
Completes(b) == b[2] = TotalLen(records[b[1]].len)

\* Within a file a record goes on byte by byte, and behind its last byte another
\* begins.
Runs ==
  \A i \in 1 .. Len(files) : \A a, c \in 1 .. Len(files[i].data) :
    LET b == files[i].data[a] IN
    a < c =>
      /\ b[2] + (c - a) <= TotalLen(records[b[1]].len) =>
           files[i].data[c] = <<b[1], b[2] + (c - a)>>
      /\ c = a + 1 /\ Completes(b) => files[i].data[c][2] = 1

\* The newest file ends with a whole record while none of its bytes is owed.
Settled ==
  \/ cur # 0 /\ (back \in {"none", "build"} \/ (back = "bytes" /\ off = 0))
  \/ pc = "extend" /\ back = "build"
  => (Newest.data # <<>> => Completes(Newest.data[Len(Newest.data)]))

\* A file in which a write has failed is not full.
Abandoned == back = "error" => files # <<>> /\ Len(Newest.data) < DataLen

\* What a full file lacks of its last record is owed by the next of its session.
TailOwed ==
  \A i \in 1 .. Len(files) - 1 :
    files[i + 1].seq # 0 /\ Len(files[i].data) = DataLen =>
      LET b == files[i].data[DataLen] IN
      files[i + 1].remaining = TotalLen(records[b[1]].len) - b[2]

\* Within a session sequences rise, until the limit is reached.
SequencesRise ==
  \A i, j \in 1 .. Len(files) :
    i < j /\ OneSession(i, j) =>
      files[i].seq < files[j].seq \/ files[j].seq >= SeqMax

FlowInv == Runs /\ Settled /\ Abandoned /\ TailOwed /\ SequencesRise

\* No name in the directory is ahead of the clock of a writer at work.
Ahead == pc # "down" => \A i \in Present : files[i].id <= clock

NamesInv == NamesOrdered /\ Ahead

\* A session that begins while a file is in the directory is a greater one than that
\* of the file, and so are those that follow.
SessionsRise ==
  \A i, j \in 1 .. Len(files) :
    i < j /\ files[i].present /\ ~ OneSession(i, j) =>
      files[i].session < files[j].session

SessionInv ==
  /\ \A i \in 1 .. Len(files) : files[i].session <= files[i].id
  /\ cur # 0 \/ pc = "extend" => sessionId <= clock
  /\ SessionsRise

\* All of it, which one run checks before the proofs rely on it: every place in
\* every call tells the truth about the files and about the record in progress.
WriterInv == Inv /\ StorageInv /\ FlowInv /\ NamesInv /\ SessionInv
=============================================================================
