# TLA+ specifications of the DBN ingest engine

This directory specifies the C++ core of the trading simulator as it is in the
repository: the ingest stack that turns a Databento DBN file into a stream of
validated market-by-order Events. The modules are translated from
`core/include/trading_sim/`, `core/src/`, `examples/`, `bench/` and `fuzz/`; TLC checks them on small
instances, and TLAPS proves for every file, chunk size and record layout what matters most:
the buffer never loses or garbles a byte, both readers decode a file exactly as a reference
definition says and implement one contract, what a file that shrinks under its mapping can cost
is bounded, views of a file have one owner, and the programs around the readers report truly.

## 1. Inventory

| Component | State | Operations | Interacts with |
|---|---|---|---|
| Wire and event types (`event.hpp`, `dbn.hpp`) | none | `is_valid_action`, `is_valid_side`, `to_event` | called by `route_record` |
| Framer and router (`dbn_reader.hpp`) | none (`tally` updates its caller's counters) | `frame_one`, `route_record`, `tally` | shared by both readers, the assembler and the benchmark |
| `RecordAssembler` | `buf_`, `read_pos_` | `append`, `next`, `buffered` | hands out spans into `buf_` that die at the next `append` |
| `FileByteSource` | an `std::ifstream` | constructor, `read` | fills its caller's buffer |
| `DbnReader` | source, assembler, `scratch_`, `version_`, `failed_`, `stats_` | constructor (`skip_prologue_`, `read_fully_`), `next`, getters | pulls chunks from the source into the assembler when it runs dry |
| `MemoryMappedFile` | `data_`, `size_`, and a view held by the system | constructor, `release_`, destructor, moves | one owner per view |
| `MmapDbnReader` | mapping, `cursor_`, `version_`, `failed_`, `stats_` | constructor, `next`, getters | `frame_one` over the mapped bytes |
| `replay_dbn` | event count | `main` | drives a `DbnReader`, reports by exit status |
| `bench_dbn` | the slurped file, counters of each mode, timings | `main`, `slurp`, `record_start`, three modes, a parity gate | drives both readers and an assembler over one file |
| Fuzz harness | none beyond its assembler | `LLVMFuzzerTestOneInput` | drains a `RecordAssembler` fed with arbitrary bytes |
| Bindings, version, research packages | none | | |
| Order book, matching, fills | only decision records, no code | | |

The program has one thread and writes nothing. What makes it hard is elsewhere:

* **Chunk boundaries.** A record may be cut anywhere by a read, and the assembler has
  to stitch it while it compacts the buffer that earlier spans point into.
* **Everything that ends a stream.** End of file, a partial record, a short read, a read
  error, a corrupt length and an exception from the constructor have to lead to the right
  one of four observable outcomes, and stay there when the consumer calls again.
* **Two implementations of one contract.** The streaming and the mapped reader share
  pure functions, but not their control, and must agree on every file.
* **Unsigned arithmetic** on cursors and lengths, where one byte too far wraps.
* **Ownership of a system resource** through failing calls, moves, and a constructor that
  throws after it has taken the resource.
* **A file that changes.** The size of a mapping is fixed when it is made; another process
  may shrink the file under it.
* **Checks made elsewhere.** Mode B of `bench_dbn` checks less than the readers do and is
  safe only because of what `main` ran before it.

What makes each component correct:

* assembler: no byte lost, repeated or reordered; spans intact until the next `append`;
  statuses honest; memory bounded;
* readers: exactly the Events of the file's well-formed records, in order, with counters
  that account for every record; always an answer; an end that is final and says truly
  whether it was clean; never outside the buffer or the mapping;
* mapping: every view unmapped once, every handle closed on every path;
* `replay_dbn`: an exit status that tells whether the whole file was replayed;
* `bench_dbn`: three modes that count the same records, and a gate that notices when the
  readers did not.

`PROJECT.json` lists the hazards behind these at their source lines.

## 2. Modules

| Module | What it models |
|---|---|
| `Dbn` | the pure operators: layout, `to_event`, `frame_one`, `route_record`, `tally`, the prologue checks |
| `RecordAssembler` | `append` and `next` as actions on `buf`, `read_pos` |
| `FileByteSource` | `read` over a file; the `ifstream` (external) as position and `good()` |
| `DbnReader` | the streaming reader; EXTENDS the two above |
| `MmapDbnReader` | the mapped reader |
| `MemoryMappedFile` | ownership of views and handles, both platforms |
| `ReaderObjects` | several `MmapDbnReader` objects, each with its `MemoryMappedFile`: constructors, moves, destructors in any order; EXTENDS `MemoryMappedFile` |
| `TruncatedMapping` | `MmapDbnReader` and another process that truncates the file |
| `ReplayDbn` | `main` of replay_dbn composed with `DbnReader` |
| `BenchDbn` | `main` of bench_dbn: EXTENDS `DbnReader` for Mode A, INSTANCEs `MmapDbnReader` for Mode C, calls `RecordAssembler` for Mode B |
| `AssemblerClient` | a `RecordAssembler` called in any order by any client; the fuzz harness is the one that appends once and drains |
| `IngestContract` | the abstract reader: a file and a position, no chunks, no buffer, no mapping |
| `Reference` | what a file decodes to, defined on the whole file without the framer or the router |
| `Samples` | the small record layout and the files of the runs |
| `DbnLemmas` | lemmas about slices, the pure operators and the reference; every proof module rests on it |
| `DbnReaderProofs`, `DbnReaderContract` | theorems about `DbnReader`: the buffer; the counters, the end and the contract |
| `MmapDbnReaderProofs` | theorems about `MmapDbnReader` and `TruncatedMapping` |
| `AssemblerClientProofs` | theorems about `RecordAssembler` under any client |
| `ReaderObjectsProofs` | theorems about `MemoryMappedFile` and `ReaderObjects` |
| `ReplayDbnProofs`, `BenchDbnProofs` | theorems about the two programs |
| `MC...` | instances for TLC |

**Bytes and spans.** A byte is a number in `0..255`, a span a sequence of bytes, and a
C++ index `i` is the TLA+ index `i + 1`. A field of a record is the sequence of its wire
bytes (the host is little-endian, so the in-memory value is those bytes); `Offset` and
`Width` are constants, and only `LayoutAssumption` is used of them. A span returned by the
assembler is not copied: it is a place and a length in `buf`, and `Bytes(span)` is what it
shows when it is read. That is what lets a dangling span be seen.

**DbnReader.** `pc` names the step that comes next. One action is one turn of a loop or
one branch of the code:

| Action | Code (`dbn_reader.hpp`) |
|---|---|
| `OpenFails`, `Open` | `FileByteSource` constructor, `DbnReader` constructor (180-185, 305-309) |
| `ReadFully`, `ReadFullyEof` | one turn of `read_fully_` (371-381) and the throws after it |
| `RejectMagic`, `RejectVersion`, `AcceptHeader` | the header checks (393-410) |
| `NextMetadataPiece`, `MetadataPieceRead`, `Constructed` | the metadata loop (412-421) |
| `Call` | the consumer calls `next()` |
| `PullRecord`, `PullNeedMore`, `PullCorrupt` | `assembler_.next()` and its three cases (323-350) |
| `Route` | `route_record`, `tally`, return or continue (329-333) |
| `Refill` | `source_.read`, end of file or `append` (338-344) |

The variable `out` is a history of the Events returned; `ret` is what the last `next()`
returned; `err` says why the constructor threw. `view` is written when a record is pulled
and read when it is routed.

**FileByteSource.** A read delivers what is left, up to what was asked, and clears `good`
when it came up short; a stream that is not good delivers nothing. `ShortReads` adds
sources that deliver any nonzero part (the comments name zstd and sockets as later
sources of the same shape), `ReadErrors` adds an I/O error after any part.

**MemoryMappedFile.** The constructor runs one system call per action, and each may fail.
`platform` chooses the branch of the `#ifdef`; the Windows branch has one more handle and
one more call. A `munmap` of something that is not mapped raises `fault`.

**MmapDbnReader** takes the mapping as given: the constructor of `MemoryMappedFile` throws
(`MapFails`) or `bytes()` is the file.

**ReaderObjects** drops that assumption: a reader is a `MemoryMappedFile` and the plain
members `cursor_`, `failed_`, `stats_`. `MapMember` is `map_(path)` system call by system
call, `skip_prologue` and `PrologueThrows` are the body of the constructor (an exception
there destroys the member and nothing else), `MoveReader` is the implicit member-by-member
move: the view goes over, the plain members are copied. `usable` is what the client knows:
it does not call `next()` on a reader it moved from, and the class does not check that.
One turn of the loop of `next()` is one step.

**TruncatedMapping** adds a process that shortens the file at any moment after it was
mapped, once or several times. The operating system (external, as POSIX and the comment in
`memory_mapped_file.hpp` describe it) zeroes the rest of the page the file now ends in and
raises SIGBUS for pages beyond it. `Touched` says how far the next step of the reader
looks, which follows the early returns of `frame_one` and `route_record`.

**BenchDbn.** `Calls` is the sequence of the six calls in `main`; `call` and `pass` say where
the program is in it. A pass begins with a fresh object (`StartPass`). The steps of modes A
and C are those of the two reader modules, unchanged; `CallNext` is the counting loop around
them. `slurp` asks for the whole file in one read and ignores the count, so that after an
error the vector ends in zeros.

**Mutants.** An operator whose comment starts with "Mutant:" is the definition after it
with one plausible bug. `PROJECT.json` says which property each one breaks; nothing else
uses them.

## 3. Runs

| Run | Instance | Result |
|---|---|---|
| `stream_reader` | 570 files, any short read, chunks of 1, 3, 8 and 20 bytes | all properties hold |
| `faulty_source` | the 56-byte layout, three files, any short read and any read error, chunks 0, 1, 55, 56, 57, 128 | what was handed out is right, and the end is final |
| `mmap_reader` | the files of `stream_reader` | all properties hold |
| `assembler` | seven chunks in any order, until 8 bytes or more were fed | all properties hold |
| `replay` | the files of `stream_reader`, chunk 5 | all properties hold |
| `bench` | ten files, a read error in slurp or any pass, chunks 3 and 20, passes 0, 1 and 2 | the modes agree, the gate catches lost Events, Mode B stays inside the slurped bytes, the program ends |
| `reader_objects` | four files, three readers, two addresses, both platforms | nothing leaks, moved streams go on |
| `truncated` | six files of one to three pages, any truncations | a clean end hides the last record at most, and every call returns or is killed |
| `read_error`, `frame_order`, `wire_concerns`, `bench_zero_chunk` | | violated; see section 6 |

**What the properties say.** `DecodedExactly` compares Events and counters with
`Reference!IsDecoding`, which finds record boundaries by walking the whole file and does
not use `frame_one`, `route_record`, `to_event` or `tally`. `ImplementsContract` is the
refinement of `IngestContract` by both readers; under it a chunk boundary, a refill and a
short read are stuttering steps, so two readers that both implement it cannot be told
apart by a consumer. `Stitched`, `ViewFresh` and `BufferBound` are the invariants of the
buffer; `NothingSkipped` is the action property that completes them: the window of
`Stitched` would still be a stretch of the file if its front were dropped, but its
position would move. `NulloptMeansExhausted` gives `nullopt` without `failed()` its meaning
(`failed()` has its own in the contract), `EndIsFinal` says that the end stays the end also
after read errors, where the contract does not hold, and `StatsBalance` ties the
counters to each other, to the Events and to the bytes consumed (four per record at least,
so a 64-bit counter cannot wrap). `InsideMapping` bounds `cursor_`. The assembler's own
properties hold for any client, not only for `DbnReader`.

`ModesAgree` holds the report of bench_dbn against the reference: the Events of each mode,
and the bytes Mode B lends to the others. `SubspanInside` is about what `record_start` does
not check; it depends on the order of the calls in `main`. `GateCatchesLoss` says that a
read error in the last streaming pass, which ends it like an end of file, shows up at the
parity gate (the mapped pass does not read). `CursorInsideView` and `MoveKeepsStream` say
that view, cursor and counters travel together. `SoleOwner` also covers the view a reader's
constructor holds when it throws. `DrainBounded` is why the fuzz harness, which has no step
cap, ends: every record takes at least four bytes of what was fed.
`CleanEndHidesOnlyTheLast` says what `nullopt` without `failed()` is worth when the file may
have shrunk. It rests on the zero-size guard of `frame_one`: wherever another record would
begin, the zeros a truncation leaves are a corrupt length and the stream ends with `failed()`.
So at a clean end every whole record of the file as it was mapped has been framed, and every
Event before the last record has been returned unharmed. The last record is not protected: cut
after its length byte it still frames, since the span keeps its length; it is then skipped as
malformed or returned with zeros in its last fields, and as the cursor is at the end of the
mapping the stream ends cleanly. (`Add Clear Add`, 32 bytes, cut to 26 before the last record is
routed, loses its Event without a sign.) The code does not promise more: `dbn_reader.hpp` calls
the mapping valid only for a stable, untruncated file. `OnlyTheLastIsTouched` is the same for
the stream at any moment: a cut through a record that had been framed, or whose action and side
are still there, gives one Event with zeros in its last fields. All Events before it are those
of the original, in order and none left out, and the last one is its record as the file was
when it was decoded (the history variable `shown`), so later truncations do not reach it.

**Bounds.** The small layout is an 8-byte record with one byte for each kind of field that
matters to the code (length, rtype, action, side, a field that is dropped, three that are
kept). The files are all bodies of two records out of nine kinds (two valid ones, a bad
action, a bad side, another rtype, a record too long and one too short to be a
market-by-order record, a zero length, the beginning of a record of the greatest length)
and four of three or four records, each cut at every byte, plus prologues that are cut, of
another version, with another magic, or with more metadata than file. Chunks of 1 and 3
put a boundary at every byte of a record, between length and rtype too; 8 is the record
size, so boundaries and records coincide; 20 holds several records. Two records suffice
for a tail carried from one record into the next, and the proofs of section 5 do not
depend on any bound. `MaxFed` bounds only how much is appended. Three objects and two
addresses let a view move while another object holds one, and let an address be reused.
bench_dbn always warms up with two passes, so a count that survives a pass is seen with any
`PassArgs`; 2 also repeats the measured passes, 0 is refused. The pages of `truncated` have
12 bytes, so that pages end at the end of a record, inside one, and inside the metadata.
The files of `reader_objects` have different sizes, so that a view released with another
object's size would be noticed.

**Fairness.** The reader is sequential code in one thread: once in the constructor or in
`next()`, it runs on. `FairSpec` therefore has weak fairness on the steps of the
constructor (`Construct`) and of `next()` (`Step`), and none on `Call`, which is the
consumer's, nor on failing to open. A read that blocks for ever is not considered: the
source is a local file. `ReplaySpec` and `BenchSpec` have weak fairness on `main` as
a whole. In `TruncatedSpec` the reader runs on or takes the fault that is due;
the truncating process owes nothing.

**Deadlock** is checked in every run. The states in which nothing happens any more
(a constructor that threw, a program that exited) have explicit stuttering actions.

## 4. From code to model: abstractions

* Exceptions are the state `threw` with the reason in `err`; messages are left out.
* Memory allocation does not fail.
* `IngestStats` counters are natural numbers; `StatsBalance` shows why 64 bits suffice.
* Sizes are natural numbers; the type invariants say that no subtraction goes below zero,
  which is what unsigned wrap-around would be. TLC's integers are 32 bits wide, so no file
  has a metadata length of 2^31 or more in a run; the proofs cover all.
* A file does not change while the streaming reader reads it (what it could see of a file
  that shrinks, an early end, is among the outcomes of `ReadErrors`). Under a mapping it may
  be truncated (`TruncatedMapping`); it is not rewritten and does not grow again.
* A step of the mapped reader sees the pages of one moment: header, length and rtype, and
  record are each looked at at once.
* The arguments of bench_dbn are numbers; with fewer arguments than four the defaults are
  one more choice of them.
* In a read error the position moves by the bytes delivered.

## 5. Proofs

`DbnLemmas` has the facts about slices of sequences (a slice of a slice, two slices that
meet, splitting a slice) and about the pure operators: `FrameOne` says what `frame_one`
returns for any bytes (a framed record is inside the buffer and at least four bytes long),
`FramePrefix` that more bytes do not change what was framed, `RouteRecord` and `Tally`
what the router and the counters do.

Its second half is about `Reference`. The boundaries of a file are the values of a recursive
function, so the proofs are inductions; the induction theorems of the library take an
operator, which the provers here cannot instantiate, but `SetInduction`, derived from the
least-element theorem, takes the property as a set. `WalkExists` shows that the recursion
defines a function, `WalkBounds` that its length is enough (four bytes for each record),
`WalkGrows` that it never turns back; `BoundaryStep` sums up: the boundary after a whole
record is its end, with none between. `FrameWhole`, `FieldsAgree` and `RouteAgrees` hold the
framer, the converter and the router against the reference at one position, and
`DecodingStep` puts all together: a decoding up to `p`, and the record at `p` framed, routed
and tallied, are a decoding up to the end of that record. `DecodedStart` and `DecodedStep`
are the form in which the proofs of the readers use this, `CountedStart` and `CountedStep`
the form for Mode B of bench_dbn, which only counts. The other end of a file is
`LastBoundary`: at a boundary without a whole record there is nothing more to come, so a
decoding up to it is one of the whole file (`DecodedEnd`, `CountedEnd`).

`DbnReaderProofs` proves, from `LayoutAssumption`, `SourceAssumption` and
`ChunkAssumption` only (chunk sizes may be 0, reads short or failing):

| Theorem | Statement |
|---|---|
| `TypeCorrect` | `Spec => []TypeOK` |
| `Stitching` | `Spec => []Stitched` |
| `BackToBack` | `Spec => NothingSkipped` |
| `SpanNeverDangles` | `Spec => []ViewFresh` |
| `MemoryBounded` | `Spec => []BufferBound` |

`TypeOK` is not inductive: the metadata count stays natural only because a piece is never
larger than what remains, and `header[4]` exists only because a full header is eight
bytes. `TypeInv` adds those relations between `header`, `want`, `got` and `remaining`.
`Stitched`, `ViewFresh` and `BufferBound` need each other and two more facts, in `StreamInv`: while the prologue is
read the buffer is empty (`EmptyUntilReady`: the source moves and the assembler does not),
and a chunk is read only when no whole record is held (`RefillWhenDry`: that is what
bounds the tail). The step proof has one case per action; all but `PullRecord`, `Refill`
and the prologue's reads leave the window alone (`SameWindow`). For `PullRecord` the
window in `buf` and the window in the file lose the same prefix; for `Refill` two slices
of the file that meet become one. `NothingSkipped` also needs `PrologueInv`, the account of
`read_fully_` and the metadata loop: the header read so far is a prefix of the file, and the
position and the metadata that remain add up to the place the header names.

`DbnReaderContract` goes on from there. `ReaderInv` is the conjunction of the invariants
above.

| Theorem | Statement | Beyond the module assumptions |
|---|---|---|
| `CountersBalance` | `Spec => []StatsBalance` | |
| `NulloptIsFinal` | `Spec => EndIsFinal` | |
| `CleanEnd` | `Spec => []NulloptMeansExhausted` | no I/O error, no chunk of 0 |
| `DbnReaderImplementsContract` | `Spec => ImplementsContract` | no I/O error, no chunk of 0 |
| `DbnReaderDecodesExactly` | `Spec => []DecodedExactly` | |

`StatsBalance` is not inductive: a record is counted one step after the cursor passed it, so
`CountInv` leaves the record in flight out of the bound and knows that it has four bytes at
least. No flag makes `nullopt` final: the next call starts over, and `EndInv` says what it
finds: a corrupt frame at the front, or less than a record and a source that has dried up.
For the contract the header, which was read in pieces, has to be the header of the file, and
the record framed from the bytes read so far has to be the one the contract frames from the
whole file (`RefInv`, by `FramePrefix`); every step is then a step of `IngestContract` or a
stutter. The two extra assumptions are needed: run `read_error` violates
`NulloptMeansExhausted` with an I/O error (section 6), and a chunk of 0 ends a nonempty file
at once. Both hold of every program here except bench_dbn run with a chunk of 0, as long as
the disk does its work. `DecodedExactly` needs neither: what was handed out before an error
is right. Its invariant `DecodeInv` adds that the reader's position is a boundary.

`MmapDbnReaderProofs` proves `CursorStaysInside`, `Spec => []InsideMapping`,
`MmapTypeCorrect`, `Spec => []TypeOK`,
`MmapImplementsContract`, `Spec => ImplementsContract`, and `MmapDecodesExactly`,
`Spec => []DecodedExactly`, from `FilesAssumption` alone.
`MapInv` adds that the cursor is past the header when the end of the
metadata is checked; `RestInside` is the step that frames a record: by `FrameOne` it is no
longer than what is left of the mapping. `RefInv` adds what the checks of the prologue have
established so far (`PrologueCases` and `PrologueGood` put them together) and that the
framed record is the contract's. With the theorem before it this is the agreement of the two
readers: what a consumer sees of either is a behaviour of one specification.

The same module proves the safety properties of the truncated mapping, for every file, every
page size and every sequence of truncations:

| Theorem | Statement |
|---|---|
| `CleanEndAfterTruncation` | `TruncatedSpec => []CleanEndHidesOnlyTheLast` |
| `TruncationTouchesOnlyTheLast` | `TruncatedSpec => []OnlyTheLastIsTouched` |

Here the bytes change under a decoding, so it is held against the original and not against
the bytes that are there. The invariant `ShrinkInv` says that the mapping is the original with
zeros from `length` on, and that the reader is in one of three situations: it has decoded the
original so far (`Intact`); or a cut left magic and version but not all of the metadata
length, and the cursor is no further than the real start of the records (`ShortHeader`, by
`ZerosShorten`); or the cut went through the record it routed last, and from the cursor on
there are only zeros (`CutRecord`). `ZeroedFrame` is why only the first leads on: a length byte
that is not zero is the original's, so what is framed is a record of the original, and in the
other two the next length is a zero, hence corrupt, or there are fewer than two bytes. In that
last case the end is clean, and `NothingLeft` shows that the cursor is past every whole record
(`Finished`); it stays so because no truncation makes a record whole (`Ended`). `ZeroedRoute`
says that what the router still emits was well-formed in the original; with `RankOfNext` it
gives `LastShown`, the invariant about the last Event. Page faults need no case of their own: a
process that is killed returns nothing.

`AssemblerClientProofs` proves `NothingLost`, `SpansIntact`, `DrainBounded`
(`AssemblerLosesNothing`, `SpansStayIntact`, `DrainEnds`) and the action property
`CorruptIsFinal` (`CorruptStays`) for every set of chunks and every order of calls. The
properties are inductive only together, with `StartInside`: the position of the front is
computed from a byte of `fed`, so that byte has to exist.

`ReaderObjectsProofs` has two layers, for any number of objects, addresses and files.

| Theorem | Statement |
|---|---|
| `ViewHasOneOwner`, `HandlesAreClosed` | `Spec => []SoleOwner`, `Spec => []NoHandleLeak` (`MemoryMappedFile`) |
| `OwnerUnmaps` | `Spec => UnmappedOnlyByOwner` |
| `ReadersUseTheMap` | `ObjectsSpec => Spec` |
| `CursorFollowsView` | `ObjectsSpec => []CursorInsideView` |
| `StreamsSurviveMoves` | `ObjectsSpec => []MoveKeepsStream` |

`MapInv` adds `Constructing`: which handles are open at each system call, that the object
under construction holds nothing yet, and that a zero size never reaches the mapping call.
`ReadersUseTheMap` is the refinement by identity that carries the first three theorems over
to readers that are moved, destroyed or abandoned by their own constructor. `ObjectsInv`
adds that a view shows a file of its length (`PagesFit`) and that nobody uses a reader
before its constructor returned (`BuildingUnused`). `StreamsDecoded` is about streams rather
than objects: a step carries each one over, begins one, or takes one a record further.

`ReplayDbnProofs` proves `ReplayUsesReader`, `ReplaySpec => Spec`, which brings in all
invariants of the reader, and with `MainInv` (the count lags by one only between the return
of an Event and the head of the loop; the status is chosen in the state the reader is left
in) both meanings of the exit status: `SuccessIsWhole`, `ReplaySpec =>
[]SuccessMeansWholeFile`, for a source without errors and a chunk that is not 0, and
`FailureIsJustified`, `ReplaySpec => []FailureHasCause`, for a source without errors.

`BenchDbnProofs` proves, with I/O errors, any chunk (0 too) and any number of passes:

| Theorem | Statement |
|---|---|
| `InMemoryIsCovered` | `BenchSpec => []SubspanInside` |
| `ParityGateIsSound` | `BenchSpec => []GateCatchesLoss` |
| `ThreeModesAgree` | `BenchSpec => []ModesAgree` |

The first is about the order of the calls: a finished pass of Mode A, and so anything after
the first call, means that the prologue of the file is good (`CheckedFirst`); slurped bytes
are those of the file or zeros (`SlurpedFile`), and a zero in the metadata length only makes
it smaller. The other two need the pass that is running (`PassInv`) and what the finished ones
left (`TotalInv`). A pass of Mode A is a `DbnReader`, so all its invariants hold inside it;
`MappedReader` is the same for Mode C; `MemoryCount` says where the front of Mode B's assembler
is in the file, and that it has counted up to there; `LoopCount` that the counting loop lags by
one between the return of an Event and the next call. A pass ends where no whole record
begins (`StreamPassEnds`, `MemoryPassEnds`, `MappedPassEnds`), which for Mode A is true only
without a read error; Mode C reads nothing, so its total is right in any case, and that is why
comparing A with C is a sound gate. With a chunk of 0 Mode A counts nothing, but then Mode B
comes to an end only if there are no records (`MemoryTotal`), so a report is right also then.

Each inductive invariant was checked with TLC on the instances of section 3 before it was
proved.

Only model-checked:

* liveness and termination (`ConstructorReturns`, `CallReturns`, `AlwaysReturns`,
  `Terminates`, `BenchTerminates`, `ReturnsOrKilled`), which need fairness and are out of the
  prover's reach.

Every invariant and action property of a passing run is the statement of a theorem. `TypeOK` of
`AssemblerClient` and of `MemoryMappedFile` are conjuncts of their inductive invariants
(`ClientInv`, `MapInv`) and proved with them.

## 6. Disagreements between comments and code

* `frame_order`: the comment on `frame_one` calls its three checks mutually exclusive and
  their order immaterial. A single zero byte meets the first and the second. The code's
  order is the right one: with the other, a chunk that ends in a zero byte would end the
  stream as corrupt.
* `wire_concerns`: `event.hpp` and `dbn.hpp` say that publisher_id, instrument_id,
  channel_id and ts_in_delta are validated. Nothing looks at them.
* `read_error`: the comment in `next()` takes a zero-byte read for a cleanly exhausted
  stream. After an I/O error it is not: the consumer sees `nullopt` with `failed()` false.
* `bench_zero_chunk`: the comment in Mode B says that the loop feeds the next slice or stops
  when the buffer is drained. With a chunk of 0, which nothing rejects, it does neither.
  (A `DbnReader` with `chunk_size` 0 reports a clean end at the first `next()`, or, over a
  file with metadata, does not leave its constructor.)

## 7. Not modelled

* Clocks, rates and the printed report of `bench_dbn`, the division by zero events among
  them; the text `replay_dbn` prints.
* `next()` on a reader that was moved from: undefined for the mapped reader (`cursor_` is
  past the end of an empty span), and excluded by `usable`. Moves of a `DbnReader`: its
  members own no system view, and a moved reader is the same state in another place.
* A shrinking file on Windows (EXCEPTION_IN_PAGE_ERROR): `TruncatedMapping` has the page
  rules of POSIX only.
* Bindings, version string, research packages: no state.
* The order book, matching and fills: decision records without code.

## 8. Plan

1. Done: the streaming reader, its parts, the mapped reader, the mapping, replay_dbn, the
   contract, the reference, and the first theorems.
2. Done: bench_dbn, the fuzz harness, readers that are moved, a file that is truncated under
   the mapping. What is left of the repository has no state.
3. Done: the theorems of section 5.
4. Left: liveness, which stays with TLC.
