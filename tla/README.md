# A TLA+ verification of tcslog

Tcslog writes a telemetry log as a series of *segment files* in one directory
and reads it back, whatever has happened to those files in between. This
directory holds a TLA+ model of its core, the crate `tcslog` (`tcslog/src/`),
and of the C and Python interfaces over it; TLC configurations that check the
model on small instances; and TLAPS proofs of the main facts about the writer
and what it promises, the naming of its files, the reader and the bindings for
every value of the constants. Every
definition is translated from the code; `PROJECT.json` maps each one to
its lines. Paths below are relative to the repository.

## The system and its parts

| Part | State it keeps | Operations |
|---|---|---|
| **Writer**, `LogWrite` (`tcslog/src/write.rs`) | `session_id`, `sequence`, `record_count`, `record_bytes_left`, the open segment file with its length, the clock, the timer resolution | `new` (hands over the files an earlier writer left), `write`, `flush`, `clear`, drop |
| **Clock and naming**, `Clock`, `create_unique_file` (`write.rs`) | the anchor of the real-time clock on the monotonic one, the timer resolution, "collided before" | stamp, advance past the newest name, the retry loop with its sleep |
| **Reader**, `LogRead` (`tcslog/src/read.rs`) | files still pending, the open file and position, `resync`, session, last sequence, files lost ahead of the session, the file handed back, a recovery hint | `new`, `read` |
| **Header list and iterator** (`read.rs`) | headers not yet taken, what is known of the last record, whether the iterator is done | `collect_opened_headers`, `take_opened_headers`, `take_up_to`, `LogReadIter::next` |
| **File layout** (`format.rs`, `header.rs`, `lib.rs`) | none: what writer and reader agree on | lengths, codec, version rules |
| **Identifiers, sequences** (`segid.rs`, `seq_id.rs`) | none | text form, saturating successor |
| **Directory scan, names** (`util.rs`) | none | `scan_segment_ids`, location checks, timestamps |
| **C ABI** (`tcslog-c`), **Python** (`tcslog-py`) | the box behind a handle, the callbacks, the exception a Python callback has left | open, write, flush, clear, close; statuses and exceptions |
| `tcslog-gen`, `bin/`, `examples/`, packaging | none that the log depends on | sample generation, dumping, merging |

**How they interact.** The writer calls the file system (create, write, flush,
remove, scan) and three callbacks of the user's: `send`, which is handed a
finished segment file and may move it away; `record_complete`, after each
record; `timer_resolution_adjusted`, when the clock turns out too coarse. The
reader shares nothing with the writer but the directory, which it may list
while the writer is still filling or clearing it. It is the writer's
counterpart through three fields of a segment file's header: the *session
identifier*, the *sequence* of the file in its session, and *remaining*, the
bytes which the file owes to a record begun in an earlier file. From these
alone the reader decides whether one file follows another, where the next
record starts, and how much has been lost.

A C program hands `tcslog_write_open` a structure of callbacks with a context;
the structure is copied, the library's callbacks go through the copy, and the
context is passed back to them untouched. Python has no use for the context:
the functions it gives are methods bound to the writer, which keeps what a
callback raised, and raises it, or gives it as a cause, when the call returns.

**What is hard here.** Little runs concurrently: a writer and a reader of one
directory, and writers in several threads. The difficulty is in failure and in
what the other side makes of its traces.

- Any write, flush, creation, removal or callback may fail, in any piece of a
  record that may span any number of files, and the process may end there. What
  is in the files then must never be taken for a record.
- Two writers of one directory, one after the other, agree on the order of
  their files only through the names, that is through clocks that step back.
- A writer that is between two files has no current file but still has a
  session, a sequence and bytes it owes.
- The reader meets files missing, cut short, without a readable header, and
  sessions that just end. Two files on either side of a gap can agree by
  coincidence.
- The reader hands a file back when it does not fit, and searches it again:
  state from before (sequence, hint, count of lost files) meets state from
  after, and the search must end.
- A directory holds the files of several logs and builds, copied, renamed or
  damaged by hand; each must be read by its own log, once, or not at all.
- A callback's failure passes through a call that still closes files, starts
  others or drops the writer, and through two languages, before it is told.

**What makes each part correct.** The *writer*: an acknowledged record is
stored whole, once, in its turn; headers tell the truth; a closed file is never
touched again; every call returns; few files are never handed over. *Naming*: a
new name sorts behind all others; the retries end; the resolution is not
widened needlessly and the user is told of each change. The *reader*: it hands
over only what was written; each record that survives, once, in order; no loss
silent or overstated; it gets to the end of any directory; the headers it lists
and the items of its iterator agree with what it read. The *codec*: what this
build opens of a file is what its maker meant, whatever the version. The
*bindings*: no failure swallowed, none told to the wrong call, each handle
closed once. What is asked of the reader is the sections "Damage is contained"
and "Nothing is invented" of `docs/manual.rst` in a form that can be checked.
`PROJECT.json` lists the hazards line by line and the properties that guard
against each.

## The modules

```
SegmentFormat          what writer and reader share: lengths, bytes, sequences
  LogWriter            LogWrite, storage, callbacks, crashes, restarts
    TelemetryLog       abstract: what a log promises the program that writes it
    LogWriterInvariant the inductive invariant       - MCLogWriter
      LogWriterProofs  the proofs: the invariant, headers, names, short files, counts
        LogStorageProofs  records on storage, and the refinement of TelemetryLog
    LogSystem          writers, damage, and a reader - MCLogSystem
      LogReader        LogRead (an INSTANCE of LogSystem)
      LogSystemInvariant  the reader's invariants
        LogSystemProofs   the proofs: a reader's state, and how long it reads
          LogReadProofs   the proofs: what it reads is what was written
            LogToldProofs   the proofs: no gap is silent, headers come first
              LogLossProofs   the proofs: no loss is overstated
SegmentNaming          Clock and create_unique_file  - MCSegmentNaming
  SegmentNamingProofs  its inductive invariant and the proofs
SegmentHeader          the header's bytes and the file's name: encode, decode
  SegmentFile          files of several logs and builds - MCSegmentFile
Binding                C and Python writers over the library
  BindingProofs        its inductive invariant and the proofs
```

**SegmentFormat.** A byte of data is the pair `<<r, o>>`, byte `o` of the `r`-th
record, so that "the wrong bytes" is something a property can see. Lengths are
scaled down (a data section of 2 or 3 bytes, a data header of 2): behaviour
depends only on where boundaries fall, and every relation the code computes
(`Room`, `Take`, `remaining`, the recovery arithmetic) is kept. Sequence numbers
saturate at `SeqMax` as in the code (`SeqNext`), where small instances meet it.

**LogWriter.** The variables carry the fields' names. Each call on the file
system or on a callback is one action, with its failure as an alternative or
as an action of its own (`ChunkFails`, `HeaderFails`, `CloseFails`, `TimestampFails`, ...); `pc`
is the place in the call between two of them, `why` the purpose of a close,
`back` where a created file returns to. `New` .. `FirstSession` are
`LogWrite::new`; `BeginWrite` .. `RecordComplete` are `write`; `BeginClear` ..
`ClearDone` are `clear`; `Drop` is the destructor. `Crash` ends the process at
any place, with any part of a piece on storage; `TakeAway` is a person
deleting a file. The name of a file is taken from any free reading of a clock
that does not go back (`FreeIds`); that the code arrives at such a name is the
subject of SegmentNaming. `flush` has no action of its own: it changes none of
this state. Files that are gone stay in `files`, marked, so that properties
can speak of all that was ever written.

**TelemetryLog** is the abstract log: `Offer`, `Store`, `Acknowledge`, `Fail`.
`LogWriter!Abs` maps the writer onto it: a record is stored when its last byte
is on storage, in whatever files. A write that fails may have stored its
record; one that is acknowledged has.

**SegmentNaming.** Real time, a monotonic clock that moves in steps of
`Granule`, `Clock`'s anchor, and the retry loop with its sleep. `u64` is kept
as `Largest`: stamps hold back all ones and doubling saturates, as in the code.
Files leave the directory and time passes at any moment.

**LogReader.** One `read` is a sequence of steps: search for a record start
(`Find...`), read the data header, fill the buffer, skip the rest
(`ReadPiece`), crossing from file to file (`Cross...`). `k` in an action is the
number of pending files it passes over because they do not open. A data header
whose bytes come from several headers decodes to any length of `GarbageLens`.
The cursor (`consumed`, `total`, `implied`) is the code's, `prev + 1` included,
which wraps in a build without overflow checks. `headers` is the list of files
whose headers a caller has been told, in the order opened and with the read
that told it; `Drained` is a caller that fetches them from C into an array of a
given room, chunk by chunk; `Items` is what `LogReadIter` makes of the results.
`lastMeta` outlives a read, as the field does, and is told with the bytes.

**LogSystem** composes them. Writers run until the last has gone; storage loses
something (`Damage`: a file gone, cut short at any byte, header unreadable) or
changes something (`Corrupt`: the sequence, session or remaining of a header, a
byte of data; the record sizes, format and version stay as written); then a reader
reads to the end. Or, with `Live`, a reader lists the directory between any two
steps of a writer (`OpenBesideWriter`), the file just being created with its
header or without, and from then on both take steps: files it has pending or
open grow, are moved away by `send`, or are cleared. The properties of reading
that compare with what was written are stated for damage that only takes away:
no checksum protects a log, so changed bytes can become anything. What holds
even for changed files is that reading ends.

**SegmentHeader, SegmentFile.** `ToBytes` and `FromBytes` place and check the
bytes of the 53-byte header at the code's offsets and widths, with the decimal
version field, the tags, and the data header length of each version; `Text` and
`IdFromName` are an identifier's text and its parsing. Only the base of a byte,
the number of groups of an identifier and the digits are smaller. SegmentFile
is a directory shared by several logs and several builds: files are made, and
one is damaged at a byte, cut or extended, copied or renamed; `Scan` and
`Readable` are `scan_segment_ids` and `open_validated`.

**Binding.** Each client is one writer in one thread; a client of C has the
status alone, one of Python the exceptions. `call[c]` is the place the library
has reached within a call, as far as a binding can see: where it calls back and
whether it heeds the answer. `New`'s hand-over heeds `send`; so does a roll;
`abandon_after_error` and drop do not; `timer_resolution_adjusted` has no answer
that C heeds. `flush` and `clear` call nothing back. `Keeper` says where an
exception is kept, and `Check` is `LogWrite._check`; an interrupt that a later
callback of the same call overwrites is lost, as in the code.

Operators whose comment begins "A mistake" are not part of any specification.
Each is a definition as a plausible slip would have left it, put beside the
right one, and is used to see that a property notices (`PROJECT.json`,
"mutants").

## What is checked

Sizes are distinct states with the bounds of the `.cfg` files.

| Run | Instance | Shows |
|---|---|---|
| `writer` (745 000) | tsrc, three records of 0, 1 or 5 bytes in files of 3, record count and sequence up to 2, two writers, one failure or crash | `SequenceDense`, `RemainingTold`: headers tell the truth. `OnlyFailureLeavesShort`: no file is left early. `RecordsStored`: each record on storage is a prefix of itself, once, in order, and all of it if acknowledged. `CountsUnique`. `ImplementsLog`: LogWriter implements TelemetryLog |
| `writer_files` (554 000) | fixed records of 3 bytes in files of 2, sequence up to 1, two writers, two failures, a real-time clock that steps back, a file taken away, `clear`, a `send` that leaves the file in place | `WriterInv`, the invariant of the proofs; `NamesOrdered`; `StorageBounded`: a failure keeps one file at most from having been handed over; `ClosedForGood`; `CallsReturn` |
| `naming` (394 000) | steps of 7 ns, resolution 1, `Largest` 24, two writers, three files | `SortsLast`, `NamingEnds`, `ResolutionFits`, `AdjustmentsTold`, `TypeOK` |
| `system_simple` (1.58 M) | three records of 0 or 5 bytes, two damages, one failing open, read or seek, buffers of 1 or 9 | `InOrder`, `DamageContained`, `LossNotOverstated`, `NoSilentGap`, `PositionSound`; `HeadersTold`: each header once, before the first byte from its file, in arrays of any room; `ItemsMarked`: the iterator tells a front of a record from a whole one |
| `system_fixed` (1.79 M) | seven fixed records of 2 bytes in files of 3, sequence up to 3, three damages, or a reader beside the writer with `send` keeping files or moving them, and `clear` | `NothingInvented`, `NoSilentGap`, `DamageContained` with no data header to check a crossing by, with sequences that run out, and beside a writer |
| `system_sessions` (4.26 M) | tsrc, records of 0 or 2 bytes, several sessions, a failing or crashing writer, one damage | `DamageContained`, `LossNotOverstated` across session ends; `MetaTold`: the time and count told of a record are its own, and told of one without payload too |
| `system_eof` (360 000) | one damage and one changed byte of data or sequence, session or remaining, a sequence that saturates, one read fault | `EofReached`; `ReadsBounded`: at most three faults for each file |
| `codec` (110 000) | a file of one of six logs (prefixes and suffixes that are part of one another), five versions, three formats; one byte, its length or one character of its name changed, or a copy under another name | `VersionsAgree`, `DamageStaysInField`, `ReadOnce`, `TextOrder`, `OwnFilesOnly` |
| `binding` (1.65 M) | a C and two Python writers, five calls, two failing callbacks | `FailureTold`, `ExceptionOfThisCall`, `ErrorKept`, `ClosedOnce` |
| `writer_clear`, `system_deleted`, `system_overflow` | | the disagreements below |

**Why the bounds are enough.** A data section of 3 bytes and payloads of 0, 1
and 5 bytes with headers of 2 make records that fit, that fill a file exactly,
whose data header is split over two files, and that span three files and so
have one with nothing but their middle. Three records give one before, one
across and one after each boundary. Two damages make a gap next to a gap, and
three a gap on either side of a survivor. One failure puts an abandoned file
into every position; a second makes the failure within the handling of the
first (a close that fails after a write that failed). Two writers are the least
for `send_existing`, for one that fails in it, and for a clock that steps back.
A record count of 2 ends a session within three records. A granule of 7 against
a resolution of 1 takes several doublings; 24 is close enough for times to run
out. Ids advance by one in the larger runs (`Ticks = {1}`), as only their order
matters there. A `SeqMax` of 3 under seven records in five files has two files
with the last number, and before them three that order; of 2 or 1 under the
writer's runs, sessions that reach it with a failure still to come. `Chunk`,
which is 16 in the code, is 2 against three or more files,
and rooms from 1 to `Chunk + 1` put the end of the list before, at and after a
chunk's. One file suffices for `codec`: a header is decoded by itself, and the
copy is the second; a base of 12 leaves ten digits and two bytes that are none,
and every offset is the code's. Two Python writers are the least for `binding`,
since an exception can only go astray to another that keeps one; five calls are
an open, a use and a close for one, with two for the others, and two failures
let one call have both.

**Fairness.** `LogWriter!FairSpec` is weak fairness of the steps of a call in
progress: between two calls on the operating system the writer waits for
nothing but its own thread. Starting a call, crashing and taking files away are
never fair. `SegmentNaming!FairSpec` likewise, the sleep being one that ends.
`FairSystemSpec` adds that the caller goes on reading until it is told the log
has ended, as `damaged_log` and every example does. Deadlock is not checked:
a log may be finished, a writer gone for good, a reader at the end. Beside a
writer no liveness is claimed: a reader's list is finite, but the writer decides
when a file ends. `codec` and `binding` state safety alone.

**What the code and its documents disagree about.** Three statements fail, each
in a run of its own:

- `writer_clear`. `docs/design.rst:2431` has the first write after `clear` start
  a session with a new identifier, and `tests/api.rs:1083` asserts it. `clear`
  empties the directory and moves no clock; the next name is only compared with
  the directory. `Clock::now` promises a later reading for calls a tick of the
  monotonic clock apart, no more, so where a session is named, cleared and
  followed by a write within one tick, the new one is named as the one cleared. With a clock of nanoseconds
  that is unlikely, and a reader that starts afterwards cannot confuse the two, the files
  of the first being gone; a program that knows sessions by their identifier can.
- `system_deleted`. `docs/manual.rst:79` has files deleted from before or
  between a session's survivors counted. `open_next` notes those before, but
  they are reported only when a record start is found; a session whose survivor
  is all tail ends, and the count is dropped. The search compares no sequences
  either, so files missing between those it passes over are not counted.
- `system_overflow`. `docs/manual.rst:154` has every loss that is found
  reported. While skipping what does not fit the caller's buffer, `read` drops
  a loss met there and returns the overflow it would have returned for an
  intact record; the records behind are gone without a word.

Smaller points met while modelling, which no run states:

- `read.rs:959` adds 1 to a sequence from a header. For 2^64 - 1, which only a
  damaged header or a saturated session has, a build with overflow checks
  panics, where `docs/manual.rst:1180` says that nothing in the library does. A
  release build wraps; that is what is modelled, and `ReadsBounded`,
  `EofReached` and `NoSilentGap` hold of it, but the count of lost files then
  means nothing.
- When sequence numbers have run out, two files of a session have the same, and
  each crossing between them is reported as a loss. `DamageContained` is stated
  for directories where they have not.
- `current_header` is documented to be none after `ReadTruncated` and still
  there after `ReadOverflow`. The path of a session start lost leaves the file
  open with the first, and a skip that fails closes it with the second.
- Of several callbacks that raise in one Python call only the last exception is
  kept. One raised in `timer_resolution_adjusted` makes `write` raise although
  the record is stored, and as itself, where `docs/design.rst` speaks of an
  `IoError` with a cause. `ExceptionOfThisCall` and `ErrorKept` say what the
  code does.
- Two logs of one directory whose prefixes *and* suffixes differ may share a
  name, if the prefixes differ by whole groups of an identifier's text;
  `OwnFilesOnly` leaves that pair out and no other.

## What is proved

| Module | Theorem | |
|---|---|---|
| `LogWriterProofs` | `Invariance` | `Spec => []Inv` |
| | `TypeCorrect` | `Spec => []TypeOK` |
| | `DenseSequences` | `Spec => []SequenceDense`: the sequence of a file is the successor of that of the file before it, in the same session, or 0 |
| | `RemainingTrue` | `Spec => []RemainingTold`: a file owes exactly the rest of the record that fills the file before it, or nothing and starts a record |
| | `ClosedStaysClosed` | `Spec => ClosedForGood`: a file closed is never touched again |
| | `NamesSortByAge` | `Spec => []NamesOrdered`: names sort in the order files were made, across writers |
| | `FewStranded` | `Spec => []StorageBounded`: one file not handed over at most for each failure and each file taken away, and one more |
| | `ShortOnlyByFailure` | `Spec => []OnlyFailureLeavesShort`: a file followed in its session is full, or a write that ended in it failed |
| | `CountsTellApart` | `Spec => []CountsUnique`: counts grow with the records of a session and fit a data header |
| `LogStorageProofs` | `StorageHolds` | `Spec => []WriterInv` |
| | `WholeRecords` | `Spec => []RecordsStored`: what the files hold is prefixes of the records, each once and in order, the acknowledged whole |
| | `WriterImplementsLog` | `Spec => ImplementsLog`: every step of LogWriter is one of TelemetryLog or a stutter |
| `LogSystemProofs` | `SystemTyped` | `SystemSpec => []SystemInv` |
| | `ReadsPaid` | `SystemSpec => []WithinBudget` |
| | `ReadsFew` | `SystemSpec => []ReadsBounded`: no more faults than three for each file, the failures of reading, and the end |
| `LogReadProofs` | `SystemSound` | `SystemSpec => []SoundInv` |
| | `PositionHolds` | `SystemSpec => [](MaxCorrupted = 0 /\ SequencesLeft => PositionSound)`: between reads, a record begins where the reader stands |
| | `PayloadsTrue` | the same of `NothingInvented`: what is handed over is the payload of a record, or with an error the front of one |
| | `RecordsInOrder` | the same of `InOrder`: in the order written, none twice |
| | `MetaIsOwn` | the same of `MetaTold`: the time and count told are the record's own |
| `LogToldProofs` | `GapsTold` | the same of `NoSilentGap`: where what is handed over of a session skips a record, some read between has not returned Ok |
| | `HeadersTaken` | `SystemSpec => []HeadersTold`: a caller who takes the headers has each file's once, in order, all of them, none later than a byte of its file |
| | `DamageIsContained` | `SystemSpec => [](MaxCorrupted = 0 /\ SequencesLeft /\ 0 \notin BufLens => DamageContained)`: at the end of the log, each record known that survives has been returned |
| | `ItemsAreMarked` | the first of these for `ItemsMarked`: an item without a mark is a whole record, one with it is less than one |
| `LogLossProofs` | `LossesNotOverstated` | the same for `LossNotOverstated`: no more files are told lost than are gone, do not open, or failed to |
| `SegmentNamingProofs` | `TypeCorrect` | `Spec => []TypeOK` |
| | `NewNamesSortLast` | `Spec => SortsLast`: a new name sorts behind all in the directory |
| | `NeverTooWide` | `Spec => []ResolutionFits` |
| | `EachChangeTold` | `Spec => []AdjustmentsTold` |
| `BindingProofs` | `NoFailureSwallowed` | `Spec => []FailureTold` |
| | `ExceptionsKeptApart` | `Spec => []ExceptionOfThisCall` |
| | `ErrorsKept` | `Spec => []ErrorKept` |
| | `HandlesClosedOnce` | `Spec => []ClosedOnce` |

The writer's hold for all record, data and header lengths, record counts,
sequence limits, failures, crashes, restarts and numbers of files; those of
`LogSystemProofs` for any such log, any number of damages and of changed bytes and
fields, any buffer, failing reads, and a reader beside a writer; those of
`LogReadProofs`, `GapsTold`, `DamageIsContained` and `ItemsAreMarked` for the same without
changed bytes; naming's for
every step of the clock, every resolution and any number of writers and
collisions; the bindings' for any number of writers, calls and failing callbacks.
The assumptions are those of the modules: `FormatAssumption` (what
`LogWrite::new` demands of the format and `seg_size_max`), `WriterAssumption`,
`SystemAssumption`, `NamingAssumption` and `BindingAssumption` (the constants' types; bounds are
any naturals, so the theorems bound nothing, and a chunk of headers has at least one).

**The writer.** `SequenceDense` and `RemainingTold` speak of files, but what
goes into the next header is in the writer's fields, so neither is inductive.
`Inv` adds what those fields mean at each place in a call: `Control` (which
`pc`, `why`, `back` go together), `CurrentFile` (the open file is the newest),
`Owing` (`left` is what the record lacks, and 0 when no record owes),
`Position` (`sessionId` and `sequence` continue the newest file),
`BetweenRecords` (an empty file owes nothing when a record begins),
`WithinRecord` (the file ends at the byte before the next, or is empty behind
one that does), `Rolling` (a file left within a record is full and ends at byte
`off`) and `Contents` (no file exceeds its data section). The critical step is
`CreateSegmentKeeps`: the new header's `remaining` and `seq` are true because
of `Rolling` and `Position`. `RollWithin` and `BeginWrite` establish `Rolling`
or, between records, that nothing is owed; that is why a full file must be left
*before* the record is owed. There is one lemma per action (`...Keeps`),
resting on lemmas on what happens to the files as a whole (`KeptFileInv`,
`PieceFileInv`, `AddedFileInv`). `Inv` is part of `WriterInv`, an
invariant of the run `writer_files`. `ClosedForGood` is a statement of steps: `CurrentOpen`, that
the current file is not closed, follows from `CurrentFile`, and each action
then changes at most the current file (`OneTouched`) or adds one
(`FileBehind`).

**The directory.** `NamesOrdered` needs `Ahead`: while a writer works, no name in
the directory is ahead of its clock, which `New` establishes by `AdvancePast`
and every file made keeps, its name being a free one not before the clock
(`NewName`). For `StorageBounded`, `Unsent` is the files not handed over and
`Causes` what may keep one so. Outside `send_existing` and `clear` the bound is
`Causes`, without the one more; in them `Unsent` is within the files still to be
visited; and a file that has gone before `clear` comes to it, which ends the
removals without a failure, is itself a cause (`ClearStepStorage`).

**Records.** All steps move the files in one of three ways (`FilesMoved`:
headers and data kept, a file made behind the others, the current file grown)
and the records in one of two (`CountMoves`, or `build_data_header`).
`OnlyFailureLeavesShort` follows from `FillInv`: a record in progress has no
verdict (`Begun`), so that a failure is final; a file rolled out of is full
(`FullBehind`); and who makes the file behind a failed write fails the record in
that step (`FailedBehind`). `CountsUnique` follows from `CountInv`: a record is
counted before any of its bytes is stored (`CountFirst`), and while a session
goes on none of its records has a count above the last one given (`CountLast`),
so that the first byte of the record in progress arrives with the greatest.

**Storage.** `RecordsStored` says of the bytes in the files that each record is there as
a prefix of itself, once, and in order. What the record in progress has
to do with them is `StorageInv`: `Frontier`, that nothing is on storage of a record
yet to be built and nothing beyond byte `off` of one being written; `Alone`, that a record is
being written exactly while a call is about it, and only the last; and `LensAccepted`,
that `write` accepted every length. Every step is classified twice, by what it does to storage
(`Stores(n)`: n bytes more of the record in progress, none, or a new file) and by
what it means to the caller (`Writes(n)`: a record begun, going on, or ended);
`NextWrites` has one lemma for each group of actions, and what follows argues from the
two classes alone. `FlowInv` and `SessionInv` are what a reader relies on: a record goes on byte by
byte within a file (`Runs`); what a full file lacks of its last record is owed by
the next of its session (`TailOwed`); sequences rise (`SequencesRise`), and so do the
sessions of files still in the directory (`SessionsRise`). `Settled` and `Abandoned` are what makes these
inductive. `WriterInv` is all of it, an invariant of the run
`writer_files`. The refinement rests on the same classes: under `Abs` a step that brings the last
byte of its record is a `Store`, others are an `Offer`, `Acknowledge`, `Fail` or a
stutter, and a process that dies with the last piece stored is a `Fail` that stores. What
is stored is a set of whole records, so that no stream of files has to be summed up.

**The reader's state.** `SystemInv` is a type invariant with what the types hang on:
`CallShape` (the cursor: bytes read, bytes needed and total agree at each place in
`read`), `Anchored` (an open file has a session and a sequence; one within a record has an
open file; one that has lost its position has none), `Listed` (beside a writer, a listed file
has no byte that was not written) and `Unborn`. It needs the writer's `Inv` for as long as a writer works,
and nothing else: it holds whatever `Damage` and `Corrupt` did. That reading comes to an
end is `WithinBudget`. A caller's faults are paid from `Budget`, three for
each pending file, one for the open one, one for the session, and three for a header
that ran on into the next file (`RunsOn`): `reject_current` puts a file back among the
pending, which seems to refill the purse, and it is the implied length, which
has then been given up, that pays for it.

**What is read.** `SoundInv` has three parts, in the order in which a log lives.
`Sources` is what the writer's invariant says of the files as they were written
(`Segments`), and what remains of it when no writer is left: `SegmentsFlow` (each byte is
followed by the next of its record), `SegmentsOrdered`, `SegmentsFollow` (a file
that is not the first of its session follows another, and owes what that one
lacks) and `SegmentsRise` (sequences rise within a session up to `SeqMax`). `DiskInv` is the directory:
each file in it is what was written, or the front of it, and they are in order
(`DiskTrue`, `DiskOrdered`). Each damage and, beside a writer, each of its steps keep it.
`ReaderSound` is the reader by these two: `PlaceSound`, the session and sequence it
compares the next file with are those of the file it has open, and a record begins
at its position (`Starts`); `CallSound`, within a read it stands behind the byte
`consumed` of one record (`Within`), has read of it what was written
(`Reads`), and the first byte of what it has is behind it (`Passed`); `TellSound`, results give a record
or the front of one (`Gives`), and in order. The critical steps
are those that cross from one file into another: `cross()` looks only at session,
sequence and `remaining`, and that these suffice to know the bytes that follow is
`SegmentsFollow` with `SegmentsRise`: with sequences that rise, a file whose sequence is the
next one is the next file, so that no file is missing between. The search
for a record start, which skips what a file owes, rests on the same two.

Two hypotheses are needed. `MaxCorrupted = 0`: damage takes away and changes nothing, for
a changed byte of a payload cannot be told from a true one. `SequencesLeft`: no
session has made so many files that one has the last sequence number, 2^64 - 1 in the code;
from then on the number does not say which file follows, so that
`SegmentsRise` cannot exclude a missing file. `SoundInv` was checked by TLC
on the instances of `system_simple`, `system_fixed` and `system_sessions` and
beside a writer before it was proved; it is not an invariant of a run, since what it adds
to the properties is in the proof.

**What is not passed over.** `NoSilentGap` compares two results; what a reader
has passed over since the last one is `OnTrack`: for as long as each read has
returned Ok with an empty payload (`UnbrokenFrom`), a file is open, and the bytes
behind the reader's place (`PlaceBehind`) that are of later records than the last one
told (`Told`) are of records without payload, or of the record being read. What is told
next then closes the gap: `NonePassedOver`, which no later step can open again, as what
a live writer adds lies behind all that was told. The critical step is once more the
crossing: `cross()` goes into the next file of the session or returns a loss, so that a
read which returns Ok has passed over no file; and the search for a record start,
which passes over a tail, begins only behind a fault, which breaks `UnbrokenFrom`
off. `TrackInv` is both, by the results and places that `ReaderSound` gives. It is
`SoundInv` that makes the bytes of two files comparable, so that the two hypotheses are
the same.

**What is left is told.** `DamageContained` speaks of the end of the log; that nothing
survives and is lost on the way there is `ContainInv`: `BufferGiven`; `PendingLast`, the files pending are the
last of the directory, behind the open one, and none at the end; `KnownDone`, a writer
beside is done with the records known, and the files still there are as that writer left them; `OpenedWhole`, what
the open file has gained since it was opened is of no known record; and `NoneLost`, a record that
is `Due` (known, surviving, with a payload) and whose first byte the reader has come past
(`ComePast`) is told (`Recorded`) or being read (`Underway`). That every step of the
reader keeps it (`ReaderKeeps`) rests on two facts. A crossing or a rejected file
cannot lose a record underway that survives, because its next byte is then the first of the
next file, which opens and continues it (`NextHolds`); and a search for a record start passes over
tails alone, with no first byte among them (`NoneBegins`). Beside a writer both hold
because no byte of a known record is still to come (`KnownByte`, `DoneBytes`). At the end nothing is pending, so
all has been come past, and nothing is underway. To the two hypotheses comes
`0 \notin BufLens`: a caller who gives no room is told that there is a record, but not which.
TLC checked `ContainInv` on the instance of `system_simple` and beside a writer before it
was proved.

**Headers.** `HeadersTold` is `HeadersListed`, of the list kept, and that a caller gets
all of the list, chunk by chunk, whatever the room for it (`HeadersTaken` rests on
`DrainedIs`: the loops are functions on what has been moved so far, equal by
`NatSetInduction` to what they should give; a chunk of no headers would move none,
which is why `SystemAssumption` excludes it). `HeadersListed` (theorem `HeadersOnce`) needs to know that a file whose header has been kept does not
come back as a new one: `HeadersBefore`, the headers kept are of files before those
pending, but for the one that `reject_current` has handed back, which is what
`reopened` says; and `HeadersOpen`, the header of the open file, of that one, and
of the file that the bytes at hand are from (`From`) is among those kept, with the number
of this read at the latest. `HeadersInv` adds `LiveTrue`, that what a live reader has listed is a
front of what is written, so that a byte read stays in its file. Neither hypothesis is
needed: it holds whatever `Damage` and `Corrupt` do, as headers are kept before
anything is read that could be wrong. TLC checked `TrackInv` and `HeadersInv` on
the instances named above before they were proved.

**Items.** `ItemsMarked` is `ItemsAre` and one fact of each result. The iterator's list is
a function on how many results have been gone through; it is there (the same induction), and
so every item is made of a result that has something to tell. Of such a
result `Gives`, part of `SoundInv`, says that a record has all of its payload and that anything else has
strictly less: a front that happened to be whole would be marked for nothing. That needs what
a read knows when it fails, that the fill of the buffer was not done (`FrontTells`).

**Losses.** `LossNotOverstated` compares a sum over results with a number of files, so
that it has to say what pays for each loss told. `LossesPaid` counts, on one side, what
has been told (`LostTold`), what is noted and not yet told (`startLost`) and the files passed
over that may yet be counted (`Unopened`); on the other the failures to open a file
and the files, up to the last whose header was kept, of which none opens
any more (`Vanished`). It moves with the reader's place: a file that opens raises the place, and
the files between, which `R!LostAhead` counts, become each `Vanished`, or were `Unopened`,
or fail now; the map from files to what pays for them is one to one (`EachPaid`), so that none pays twice. That
the count is of files between, and no more, is `SegmentsRise` once more: within a session the
sequences say how many lie between (`LostWithin`), and ahead of its first file that opens
as many as its sequence says (`LostBefore`), all of them behind what was open
before, since a session that is forgotten has ended (`SessionOver`). `SessionTold` is that the session
compared with is that of the last header. A live reader's files only grow, and no file `Vanished`
comes back (`LossBesideWriter`). TLC checked `LossInv` on the instances of `system_simple`,
`system_sessions` and `system_fixed` and beside a writer before it was proved.

**Naming.** That a name sorts last needs `Behind`: once `advance_past` has been
called, no name is ahead of the clock. The subtle one is `ResolutionFits`. The
code widens the resolution at a *second* collision, and that a second one shows
the sleep to have been shorter than a step of the clock is `Slept`: after a
sleep of a step or more every name is strictly behind the clock (lemmas
`InstantMoves`, `TimePasses`), so the attempt after it cannot collide. The
highest name is a `CHOOSE`; that it exists is proved from the well-foundedness
of the naturals (`HighestExists`).

**Bindings.** `BindingInv` is a statement about each client by itself:
`HandleOf` (where the handle is in the client's life), `KeptOf` (what is
pending in it is the last that a callback of its own call raised, and nothing between calls), `HeededOf` (a C
program's call in which a callback failed is on its way to an error) and
`AnswerOf` (what the last call told). A step of one client leaves those of the
others: that is what keeping the exception in the writer buys, and what
`KeeperShared`, a mistake, breaks. `StatusNames` is the agreement of C's
table of statuses with Python's.

**Only model-checked.** Liveness (`CallsReturn`, `NamingEnds`, `EofReached`),
which is beyond the prover. Of the codec all five properties: the placing of fields and the
text of an identifier are built byte by byte.

## What is not modelled

- The rendering of a timestamp as a calendar date (`util.rs`), on which nothing
  else rests; the wording of errors.
- The directory scan failing within `new` and `clear`; memory running out.
- In the bindings: the reader's handle, null arguments of queries, the `Panic`
  status, a callback that calls the log it is called by, Python's pinned
  buffers and argument conversions.
- A name given again while a live reader waits for the file that had it: that
  file is treated as gone.
- `tcslog-gen`, scripts, examples and packaging, which keep no state of the
  protocol; tests and fuzz targets, which served as a statement of what is
  expected.

## Plan

Done: all modules above, and the theorems of the table. What is left is proof, for
the codec: that `FromBytes` undoes `ToBytes`.
