----------------------------- MODULE DbnReader -----------------------------
(***************************************************************************)
(* DbnReader (dbn_reader.hpp): the streaming reader.  It owns a            *)
(* FileByteSource, a RecordAssembler and a scratch buffer of chunk bytes.  *)
(* Each action is one step of the constructor or of next(); pc names the   *)
(* step that comes next:                                                   *)
(*                                                                         *)
(*   open     the constructor is about to open the file                    *)
(*   header   read_fully_ is filling the 8-byte header                     *)
(*   skip     head of the loop that discards the metadata                  *)
(*   metadata read_fully_ is filling a piece of scratch_ with metadata     *)
(*   ready    between two calls of next()                                  *)
(*   pull     head of the loop of next()                                   *)
(*   route    a record was pulled and is about to be routed                *)
(*   refill   the assembler ran dry and a chunk is about to be read        *)
(*   threw    the constructor threw                                        *)
(***************************************************************************)
EXTENDS FileByteSource, RecordAssembler, Reference

CONSTANT ChunkSizes     \* the chunk_size arguments considered

ASSUME ChunkAssumption == ChunkSizes \subseteq Nat

VARIABLES
    pc,
    chunk,       \* scratch_.size()
    header,      \* the part of the header read so far
    want, got,   \* dst.size() and total of the read_fully_ in progress
    remaining,   \* metadata bytes still to be discarded
    version,     \* version_
    view,        \* the span of the pulled record
    failed,      \* failed_
    stats,       \* stats_
    err,         \* why the constructor threw
    ret,         \* what the last next() returned
    out          \* history: every Event returned, in order

prologue == <<chunk, header, want, got, remaining, version>>
result == <<failed, stats, err, ret, out>>
vars == <<source, assembler, prologue, result, pc, view>>

Init ==
    /\ SourceInit /\ AssemblerInit
    /\ chunk \in ChunkSizes
    /\ pc = "open"
    /\ header = <<>> /\ want = 0 /\ got = 0 /\ remaining = 0 /\ version = 0
    /\ view = [at |-> 0, len |-> 0]
    /\ failed = FALSE /\ stats = NoStats
    /\ err = "none" /\ ret = "none" /\ out = <<>>

-----------------------------------------------------------------------------
(* The constructor. *)

Throw(e) ==
    /\ pc' = "threw" /\ err' = e
    /\ UNCHANGED <<failed, stats, ret, out>>

(* Enter read_fully_ with a destination of n bytes. *)
StartReadFully(n) == want' = n /\ got' = 0

OpenFails ==
    /\ pc = "open"
    /\ Throw("cannot open")
    /\ UNCHANGED <<source, assembler, prologue, view>>

Open ==
    /\ pc = "open"
    /\ pc' = "header"
    /\ StartReadFully(HeaderSize)
    /\ UNCHANGED <<source, assembler, chunk, header, remaining, version,
                   result, view>>

(* One turn of the loop of read_fully_ that obtains bytes.  The metadata   *)
(* lands in scratch_ and is never looked at.                               *)
ReadFully ==
    /\ pc \in {"header", "metadata"} /\ got < want
    /\ \E o \in ReadOutcomes(want - got) :
          /\ o.n > 0
          /\ read(want - got, o)
          /\ got' = got + o.n
          /\ header' = IF pc = "header" THEN header \o Delivered(o) ELSE header
    /\ UNCHANGED <<assembler, chunk, want, remaining, version, result, pc, view>>

(* Mutant: the loop of read_fully_ has no way out at the end of the file. *)
ReadFullyEof_retries ==
    /\ pc \in {"header", "metadata"} /\ got < want
    /\ \E o \in ReadOutcomes(want - got) : o.n = 0 /\ read(want - got, o)
    /\ UNCHANGED <<assembler, prologue, result, pc, view>>

(* A zero-byte read breaks the loop early, and skip_prologue_ throws. *)
ReadFullyEof ==
    /\ pc \in {"header", "metadata"} /\ got < want
    /\ \E o \in ReadOutcomes(want - got) : o.n = 0 /\ read(want - got, o)
    /\ Throw(IF pc = "header" THEN "truncated header" ELSE "truncated metadata")
    /\ UNCHANGED <<assembler, prologue, view>>

RejectMagic ==
    /\ pc = "header" /\ got = want
    /\ ~HasMagic(header)
    /\ Throw("bad magic")
    /\ UNCHANGED <<source, assembler, prologue, view>>

RejectVersion ==
    /\ pc = "header" /\ got = want
    /\ HasMagic(header) /\ header[4] # kSupportedDbnVersion
    /\ version' = header[4]
    /\ Throw("unsupported version")
    /\ UNCHANGED <<source, assembler, chunk, header, want, got, remaining, view>>

AcceptHeader ==
    /\ pc = "header" /\ got = want
    /\ HasMagic(header) /\ header[4] = kSupportedDbnVersion
    /\ version' = header[4]
    /\ remaining' = MetadataLen(header)
    /\ pc' = "skip"
    /\ UNCHANGED <<source, assembler, chunk, header, want, got, result, view>>

(* Mutant: scratch_ is filled whole even when less metadata is left. *)
NextMetadataPiece_fills_scratch ==
    /\ pc = "skip" /\ remaining > 0
    /\ StartReadFully(chunk)
    /\ pc' = "metadata"
    /\ UNCHANGED <<source, assembler, chunk, header, remaining, version,
                   result, view>>

(* want = min(remaining, scratch_.size()): zero when scratch_ is empty. *)
NextMetadataPiece ==
    /\ pc = "skip" /\ remaining > 0
    /\ StartReadFully(IF remaining < chunk THEN remaining ELSE chunk)
    /\ pc' = "metadata"
    /\ UNCHANGED <<source, assembler, chunk, header, remaining, version,
                   result, view>>

(* Mutant: the piece that was read is not taken off remaining. *)
MetadataPieceRead_forgets ==
    /\ pc = "metadata" /\ got = want
    /\ pc' = "skip"
    /\ UNCHANGED <<source, assembler, prologue, result, view>>

MetadataPieceRead ==
    /\ pc = "metadata" /\ got = want
    /\ remaining' = remaining - got
    /\ pc' = "skip"
    /\ UNCHANGED <<source, assembler, chunk, header, want, got, version,
                   result, view>>

Constructed ==
    /\ pc = "skip" /\ remaining = 0
    /\ pc' = "ready"
    /\ UNCHANGED <<source, assembler, prologue, result, view>>

-----------------------------------------------------------------------------
(* next(). *)

Return(r) == pc' = "ready" /\ ret' = r

Call ==
    /\ pc = "ready"
    /\ pc' = "pull"
    /\ UNCHANGED <<source, assembler, prologue, result, view>>

PullRecord ==
    /\ pc = "pull" /\ pull.status = "Record"
    /\ next
    /\ view' = [at |-> pull.at, len |-> pull.len]
    /\ pc' = "route"
    /\ UNCHANGED <<source, prologue, result>>

PullNeedMore ==
    /\ pc = "pull" /\ pull.status = "NeedMore"
    /\ next
    /\ pc' = "refill"
    /\ UNCHANGED <<source, prologue, result, view>>

PullCorrupt ==
    /\ pc = "pull" /\ pull.status = "Corrupt"
    /\ next
    /\ failed' = TRUE
    /\ Return("nullopt")
    /\ UNCHANGED <<source, prologue, stats, err, out, view>>

(* Mutant: a skipped record ends the call instead of continuing the loop. *)
Route_returns_on_skip ==
    /\ pc = "route"
    /\ LET routed == route_record(Bytes(view)) IN
          /\ stats' = tally(stats, routed)
          /\ IF routed.outcome = "Emit"
             THEN Return("event") /\ out' = Append(out, routed.event)
             ELSE Return("nullopt") /\ UNCHANGED out
    /\ UNCHANGED <<source, assembler, prologue, failed, err, view>>

(* Route, decode and tally the record, read through its span.  An Event is *)
(* returned at once; a skip goes round the loop.                           *)
Route ==
    /\ pc = "route"
    /\ LET routed == route_record(Bytes(view)) IN
          /\ stats' = tally(stats, routed)
          /\ IF routed.outcome = "Emit"
             THEN Return("event") /\ out' = Append(out, routed.event)
             ELSE pc' = "pull" /\ UNCHANGED <<ret, out>>
    /\ UNCHANGED <<source, assembler, prologue, failed, err, view>>

(* Mutant: a chunk that is not full is taken for the end and dropped. *)
Refill_drops_short_chunk ==
    /\ pc = "refill"
    /\ \E o \in ReadOutcomes(chunk) :
          /\ read(chunk, o)
          /\ IF o.n < chunk
             THEN Return("nullopt") /\ UNCHANGED assembler
             ELSE append(Delivered(o)) /\ pc' = "pull" /\ UNCHANGED ret
    /\ UNCHANGED <<prologue, failed, stats, err, out, view>>

(* Mutant: the whole of scratch_ is appended, stale bytes after n too. *)
Refill_appends_all_of_scratch ==
    /\ pc = "refill"
    /\ \E o \in ReadOutcomes(chunk) :
          /\ read(chunk, o)
          /\ IF o.n = 0
             THEN Return("nullopt") /\ UNCHANGED assembler
             ELSE /\ append(Delivered(o) \o [i \in 1..(chunk - o.n) |-> 0])
                  /\ pc' = "pull" /\ UNCHANGED ret
    /\ UNCHANGED <<prologue, failed, stats, err, out, view>>

(* Mutant: the loop retries after a zero-byte read. *)
Refill_retries_at_eof ==
    /\ pc = "refill"
    /\ \E o \in ReadOutcomes(chunk) :
          /\ read(chunk, o)
          /\ append(Delivered(o)) /\ pc' = "pull" /\ UNCHANGED ret
    /\ UNCHANGED <<prologue, failed, stats, err, out, view>>

(* Read a chunk.  Zero bytes are taken for the end of the file. *)
Refill ==
    /\ pc = "refill"
    /\ \E o \in ReadOutcomes(chunk) :
          /\ read(chunk, o)
          /\ IF o.n = 0
             THEN Return("nullopt") /\ UNCHANGED assembler
             ELSE append(Delivered(o)) /\ pc' = "pull" /\ UNCHANGED ret
    /\ UNCHANGED <<prologue, failed, stats, err, out, view>>

-----------------------------------------------------------------------------
(* There is no object to call once the constructor has thrown. *)
Gone == pc = "threw" /\ UNCHANGED vars

(* The steps the reader takes by itself; Call is the consumer's. *)
Construct ==
    \/ Open \/ ReadFully \/ ReadFullyEof \/ RejectMagic \/ RejectVersion
    \/ AcceptHeader \/ NextMetadataPiece \/ MetadataPieceRead \/ Constructed

Step == PullRecord \/ PullNeedMore \/ PullCorrupt \/ Route \/ Refill

Next == OpenFails \/ Construct \/ Call \/ Step \/ Gone

Spec == Init /\ [][Next]_vars

(* A single thread runs the constructor and then each call to its end. *)
FairSpec == Spec /\ WF_vars(Construct) /\ WF_vars(Step)

-----------------------------------------------------------------------------
(* Properties. *)

Constructing == {"open", "header", "skip", "metadata"}
Returned == {"ready", "pull", "route", "refill"}

(* Every variable holds a value of its C++ type. *)
TypeOK ==
    /\ SourceTypeOK /\ AssemblerTypeOK
    /\ pc \in Constructing \cup Returned \cup {"threw"}
    /\ chunk \in ChunkSizes
    /\ header \in Seq(Byte)
    /\ want \in Nat /\ got \in Nat /\ got <= want /\ remaining \in Nat
    /\ version \in Byte
    /\ view \in [at : Nat, len : 0..MaxRecordSize]
    /\ failed \in BOOLEAN /\ stats \in IngestStats
    /\ err \in PrologueErrors \cup {"cannot open"}
    /\ ret \in {"none", "event", "nullopt"}
    /\ out \in Seq(Event)

(* The file position of the first byte no record has been pulled from. *)
Consumed == fpos - buffered

(* The unconsumed bytes of the assembler are exactly the stretch of the    *)
(* file that ends at the source's position: no chunk boundary, compaction  *)
(* or short read repeats, reorders or makes up a byte (append, next,       *)
(* Refill).  NothingSkipped says that none is left out either.             *)
Stitched ==
    /\ buffered <= fpos
    /\ Front = SubSeq(file, Consumed + 1, fpos)

(* Records are framed back to back: the first one where the prologue ends, *)
(* and the position in the file moves only when a record is pulled, by the *)
(* size of that record.  A compaction or a refill that dropped a byte      *)
(* would move it too.                                                      *)
NothingSkipped ==
    [][/\ (pc \notin Returned /\ pc' \in Returned) => Consumed' = RecordStart(file)
       /\ pc \in Returned =>
             Consumed' = Consumed + (IF pc' = "route" THEN view'.len ELSE 0)]_vars

(* When a record is routed, its span still shows the bytes that were       *)
(* framed, at their place in the file: nothing moved the buffer between    *)
(* RecordAssembler::next and route_record.                                 *)
ViewFresh ==
    pc = "route" =>
        /\ view.at + view.len = read_pos
        /\ view.len = RecordSize(file[Consumed - view.len + 1])
        /\ Bytes(view) = SubSeq(file, Consumed - view.len + 1, Consumed)

(* append() reclaims what was consumed: the buffer never holds more than   *)
(* one chunk after a tail shorter than the record the tail begins.         *)
BufferBound ==
    buf # <<>> =>
        Len(buf) <= chunk + (IF buf[1] = 0 THEN 1 ELSE RecordSize(buf[1]) - 1)

(* nullopt with failed() == false is a clean end of file: every byte was   *)
(* read, and what is left after the last record that was consumed is less  *)
(* than a record.  (That the records consumed before it begin at the end   *)
(* of the prologue and follow each other is NothingSkipped.)               *)
NulloptMeansExhausted ==
    (ret = "nullopt" /\ ~failed) =>
        /\ fpos = Len(file)
        /\ \/ fpos - Consumed < 2
           \/ /\ file[Consumed + 1] # 0
              /\ fpos - Consumed < RecordSize(file[Consumed + 1])

(* The counters account for every record once, and an Event was returned   *)
(* for each one counted in events.  A record is at least four bytes of the *)
(* file, so the counters cannot outgrow it: they never wrap at 64 bits.    *)
StatsBalance ==
    /\ stats.records =
          stats.events + stats.skipped_non_mbo + stats.skipped_malformed
    /\ stats.events = Len(out)
    /\ 4 * stats.records <= Consumed

(* Once next() has returned nullopt, later calls never return an Event,    *)
(* count a record, raise failed() or read on.                              *)
EndIsFinal ==
    [][ret = "nullopt" => UNCHANGED <<ret, out, stats, failed, file, fpos>>]_vars

(* What a consumer sees of the reader. *)
Phase ==
    IF pc \in Constructing THEN "new"
    ELSE IF pc \in {"threw", "ready"} THEN pc
    ELSE "pulling"

Position ==
    IF pc \in Constructing \cup {"threw"} THEN 0
    ELSE IF pc = "route" THEN Consumed - view.len
    ELSE Consumed

(* Whatever chunks the file arrived in, the Events returned and the        *)
(* counters are the decoding of the file's records up to the reader's      *)
(* position: none lost, forged, repeated or out of order (next, tally,     *)
(* route_record, to_event).                                                *)
DecodedExactly ==
    pc \in Returned => IsDecoding(file, Position, out, stats)

Contract == INSTANCE IngestContract WITH phase <- Phase, pos <- Position

(* The streaming reader implements the contract that has no chunks.  The   *)
(* property is Contract!Spec.                                              *)
ImplementsContract == Contract!Spec

(* The constructor returns or throws, whatever the file. *)
ConstructorReturns == <>(pc \notin Constructing)

(* Every call of next() returns. *)
CallReturns == (pc = "pull") ~> (pc = "ready")

=============================================================================
