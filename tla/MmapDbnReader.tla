--------------------------- MODULE MmapDbnReader ---------------------------
(***************************************************************************)
(* MmapDbnReader (dbn_reader.hpp): the reader over a whole-file mapping.   *)
(* A cursor walks frame_one across the mapped bytes; there is no buffer.   *)
(* The mapping is a MemoryMappedFile: its constructor throws, or bytes()   *)
(* is the whole file (an empty span for an empty file).  pc names the step *)
(* that comes next:                                                        *)
(*                                                                         *)
(*   open      the constructor is about to map the file                    *)
(*   prologue  skip_prologue_ checks the mapped header                     *)
(*   metadata  cursor_ was set past the metadata and is to be checked      *)
(*   ready     between two calls of next()                                 *)
(*   frame     head of the loop of next()                                  *)
(*   route     a record was framed and is about to be routed               *)
(*   threw     the constructor threw                                       *)
(***************************************************************************)
EXTENDS Reference

CONSTANT Files

ASSUME FilesAssumption == Files \subseteq Seq(Byte)

VARIABLES
    file,     \* the file, and once mapped map_.bytes()
    pc,
    cursor,   \* cursor_
    version,  \* version_
    rec,      \* place and length of the framed record in the mapping
    failed,   \* failed_
    stats,    \* stats_
    err,      \* why the constructor threw
    ret,      \* what the last next() returned
    out       \* history: every Event returned, in order

result == <<failed, stats, err, ret, out>>
vars == <<file, pc, cursor, version, rec, result>>

Init ==
    /\ file \in Files
    /\ pc = "open" /\ cursor = 0 /\ version = 0
    /\ rec = [at |-> 0, len |-> 0]
    /\ failed = FALSE /\ stats = NoStats
    /\ err = "none" /\ ret = "none" /\ out = <<>>

-----------------------------------------------------------------------------
(* The constructor. *)

Throw(e) ==
    /\ pc' = "threw" /\ err' = e
    /\ UNCHANGED <<file, rec, failed, stats, ret, out>>

MapFails ==
    /\ pc = "open"
    /\ Throw("cannot open")
    /\ UNCHANGED <<cursor, version>>

Map ==
    /\ pc = "open"
    /\ pc' = "prologue"
    /\ UNCHANGED <<file, cursor, version, rec, result>>

RejectHeader ==
    /\ pc = "prologue" /\ Len(file) < HeaderSize
    /\ Throw("truncated header")
    /\ UNCHANGED <<cursor, version>>

RejectMagic ==
    /\ pc = "prologue" /\ Len(file) >= HeaderSize
    /\ ~HasMagic(file)
    /\ Throw("bad magic")
    /\ UNCHANGED <<cursor, version>>

RejectVersion ==
    /\ pc = "prologue" /\ Len(file) >= HeaderSize
    /\ HasMagic(file) /\ file[4] # kSupportedDbnVersion
    /\ version' = file[4]
    /\ Throw("unsupported version")
    /\ UNCHANGED cursor

(* Mutant: the cursor is set to the metadata, not past it. *)
AcceptHeader_ignores_metadata ==
    /\ pc = "prologue" /\ Len(file) >= HeaderSize
    /\ HasMagic(file) /\ file[4] = kSupportedDbnVersion
    /\ version' = file[4]
    /\ cursor' = HeaderSize
    /\ pc' = "metadata"
    /\ UNCHANGED <<file, rec, result>>

AcceptHeader ==
    /\ pc = "prologue" /\ Len(file) >= HeaderSize
    /\ HasMagic(file) /\ file[4] = kSupportedDbnVersion
    /\ version' = file[4]
    /\ cursor' = HeaderSize + MetadataLen(file)
    /\ pc' = "metadata"
    /\ UNCHANGED <<file, rec, result>>

(* Mutant: metadata that ends with the file counts as truncated. *)
RejectMetadata_at_end ==
    /\ pc = "metadata" /\ cursor >= Len(file)
    /\ Throw("truncated metadata")
    /\ UNCHANGED <<cursor, version>>

RejectMetadata ==
    /\ pc = "metadata" /\ cursor > Len(file)
    /\ Throw("truncated metadata")
    /\ UNCHANGED <<cursor, version>>

(* Mutant: cursor_ is not checked against the end of the mapping. *)
Constructed_unchecked ==
    /\ pc = "metadata"
    /\ pc' = "ready"
    /\ UNCHANGED <<file, cursor, version, rec, result>>

Constructed ==
    /\ pc = "metadata" /\ cursor <= Len(file)
    /\ pc' = "ready"
    /\ UNCHANGED <<file, cursor, version, rec, result>>

-----------------------------------------------------------------------------
(* next(). *)

rest == SubSeq(file, cursor + 1, Len(file))

Return(r) == pc' = "ready" /\ ret' = r

Call ==
    /\ pc = "ready"
    /\ pc' = "frame"
    /\ UNCHANGED <<file, cursor, version, rec, result>>

FrameOk ==
    /\ pc = "frame" /\ frame_one(rest).status = "Ok"
    /\ rec' = [at |-> cursor, len |-> frame_one(rest).record_size]
    /\ cursor' = cursor + frame_one(rest).record_size
    /\ pc' = "route"
    /\ UNCHANGED <<file, version, result>>

Route ==
    /\ pc = "route"
    /\ LET routed == route_record(SubSeq(file, rec.at + 1, rec.at + rec.len)) IN
          /\ stats' = tally(stats, routed)
          /\ IF routed.outcome = "Emit"
             THEN Return("event") /\ out' = Append(out, routed.event)
             ELSE pc' = "frame" /\ UNCHANGED <<ret, out>>
    /\ UNCHANGED <<file, cursor, version, rec, failed, err>>

(* Mutant: the loop waits for more bytes, as the streaming reader does. *)
FrameNeedMore_waits ==
    /\ pc = "frame" /\ frame_one(rest).status = "NeedMore"
    /\ UNCHANGED vars

(* Nothing more can come: less than a record left is a clean end of file. *)
FrameNeedMore ==
    /\ pc = "frame" /\ frame_one(rest).status = "NeedMore"
    /\ Return("nullopt")
    /\ UNCHANGED <<file, cursor, version, rec, failed, stats, err, out>>

(* Mutant: a corrupt length is tried again. *)
FrameCorrupt_retries ==
    /\ pc = "frame" /\ frame_one(rest).status = "Corrupt"
    /\ UNCHANGED vars

FrameCorrupt ==
    /\ pc = "frame" /\ frame_one(rest).status = "Corrupt"
    /\ failed' = TRUE
    /\ Return("nullopt")
    /\ UNCHANGED <<file, cursor, version, rec, stats, err, out>>

(* There is no object to call once the constructor has thrown. *)
Gone == pc = "threw" /\ UNCHANGED vars

Construct ==
    \/ Map \/ RejectHeader \/ RejectMagic \/ RejectVersion \/ AcceptHeader
    \/ RejectMetadata \/ Constructed

Step == FrameOk \/ Route \/ FrameNeedMore \/ FrameCorrupt

Next == MapFails \/ Construct \/ Call \/ Step \/ Gone

Spec == Init /\ [][Next]_vars

(* A single thread runs the constructor and then each call to its end. *)
FairSpec == Spec /\ WF_vars(Construct) /\ WF_vars(Step)

-----------------------------------------------------------------------------
(* Properties. *)

Constructing == {"open", "prologue", "metadata"}
Returned == {"ready", "frame", "route"}

(* Every variable holds a value of its C++ type. *)
TypeOK ==
    /\ file \in Seq(Byte)
    /\ pc \in Constructing \cup Returned \cup {"threw"}
    /\ cursor \in Nat /\ version \in Byte
    /\ rec \in [at : Nat, len : 0..MaxRecordSize]
    /\ failed \in BOOLEAN /\ stats \in IngestStats
    /\ err \in PrologueErrors \cup {"cannot open"}
    /\ ret \in {"none", "event", "nullopt"}
    /\ out \in Seq(Event)

(* Once the constructor returned, cursor_ is inside the mapping, so the    *)
(* unchecked subspan(cursor_) of next() and the record it frames never     *)
(* leave it.                                                               *)
InsideMapping ==
    /\ pc \in Returned => cursor \in (HeaderSize)..Len(file)
    /\ pc = "route" => rec.at + rec.len = cursor

Phase ==
    IF pc \in Constructing THEN "new"
    ELSE IF pc \in {"threw", "ready"} THEN pc
    ELSE "pulling"

Position ==
    IF pc \in Constructing \cup {"threw"} THEN 0
    ELSE IF pc = "route" THEN rec.at
    ELSE cursor

(* The Events returned and the counters are the decoding of the file's     *)
(* records up to the cursor, the same reference the streaming reader is    *)
(* held to.                                                                *)
DecodedExactly ==
    pc \in Returned => IsDecoding(file, Position, out, stats)

Contract == INSTANCE IngestContract WITH phase <- Phase, pos <- Position

(* The mapped reader implements the same contract as the streaming one.    *)
(* The property is Contract!Spec.                                          *)
ImplementsContract == Contract!Spec

(* The constructor returns or throws, and so does every call of next():    *)
(* the zero-size guard keeps the cursor moving.                            *)
AlwaysReturns ==
    /\ <>(pc \notin Constructing)
    /\ (pc = "frame") ~> (pc = "ready")

=============================================================================
