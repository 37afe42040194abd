--------------------------- MODULE BenchDbnProofs ---------------------------
(***************************************************************************)
(* Theorems about bench_dbn for every file, every chunk size, every number *)
(* of passes, and any read errors: Mode B, which hardly checks the         *)
(* prologue, is covered by the DbnReader that ran over the file before it; *)
(* when it reports and no read failed, its three modes have counted the    *)
(* file; and when reads did fail, the parity gate says OK only if the last *)
(* pass of Mode A lost nothing.                                            *)
(***************************************************************************)
EXTENDS BenchDbn, DbnReaderContract

-----------------------------------------------------------------------------
(* The inductive invariant.  The streaming reader of a pass of Mode A is   *)
(* in a state of DbnReader; a pass that ended, and so every call after the *)
(* first, means that the prologue of the file is good; and slurp() wrote   *)
(* the bytes of the file or left zeros.                                    *)
StreamReader == ReaderInv /\ CountInv /\ EndInv /\ RefInv /\ ReadyFile /\ DecodeInv

CheckedFirst == call > 1 \/ pass > 0 => PrologueError(file) = "none"

SlurpedFile ==
    at # "main" =>
        /\ slurped \in Seq(Byte) /\ Len(slurped) = Len(file)
        /\ \A i \in 1..Len(file) : slurped[i] \in {file[i], 0}

BenchInv ==
    /\ file \in Files /\ chunk \in ChunkSizes
    /\ call \in Nat \ {0} /\ pass \in Nat
    /\ InPass("A") => StreamReader
    /\ CheckedFirst
    /\ SlurpedFile

(* Only Mode A runs in the first call. *)
LEMMA FirstCallStreams ==
    ASSUME call \in Nat \ {0}, mode \in {"B", "C"}
    PROVE  call > 1
<1>1. ASSUME call = 1 PROVE mode = "A"
    BY <1>1 DEF mode, Calls
<1>2. QED
    BY <1>1

LEMMA BenchFile ==
    ASSUME BenchInv
    PROVE  file \in Seq(Byte) /\ Len(file) \in Nat
<1>1. file \in Seq(Byte)
    BY SourceAssumption DEF BenchInv
<1>2. QED
    BY <1>1, LenProperties

(* A reader that was just made, in whichever mode, is in a first state of  *)
(* DbnReader.                                                              *)
LEMMA FreshReader == Init => StreamReader
<1>1. Init => ReaderInv
    BY TypeInit, StreamInit, PrologueInit DEF ReaderInv
<1>2. Init => EndInv /\ RefInv /\ ReadyFile /\ DecodeInv
    BY DEF Init, EndInv, RefInv, ReadyFile, DecodeInv, Returned
<1>3. QED
    BY <1>1, <1>2, CountInit DEF StreamReader

LEMMA StreamReaderNext == StreamReader /\ [Next]_vars => StreamReader'
BY ReaderInvNext, CountNext, EndNext, RefNext, ReadyNext, DecodeNext
DEF StreamReader

(* No step writes the file. *)
LEMMA BenchFileStays == [BenchNext]_bvars => file' = file /\ chunk' = chunk
<1> SUFFICES ASSUME [BenchNext]_bvars PROVE file' = file /\ chunk' = chunk
    OBVIOUS
<1>1. CASE \/ Usage \/ SlurpFails \/ slurp \/ RejectStream \/ EndCall
           \/ EndReaderPass \/ Catch \/ EndInMemoryPass \/ Report
    BY <1>1
    DEF Usage, SlurpFails, slurp, RejectStream, EndCall, EndReaderPass, Catch,
        EndInMemoryPass, Report, Exit, EndPass, object, source, prologue
<1>2. CASE StartPass \/ CallNext \/ CountRecord \/ FeedSlice
    BY <1>2 DEF StartPass, CallNext, CountRecord, FeedSlice, source, prologue
<1>3. CASE RunStream
    <2>1. [Next]_vars
        BY <1>3 DEF RunStream, Next
    <2>2. chunk' = chunk
        BY <1>3
        DEF RunStream, OpenFails, Construct, Step, Open, ReadFully, ReadFullyEof,
            RejectMagic, RejectVersion, AcceptHeader, NextMetadataPiece,
            MetadataPieceRead, Constructed, PullRecord, PullNeedMore, PullCorrupt,
            Route, Refill, prologue
    <2>3. QED
        BY <2>1, <2>2, FileStays
<1>4. CASE RunMapped
    BY <1>4
    DEF RunMapped, Mapped!MapFails, Mapped!Construct, Mapped!Step, Mapped!Map,
        Mapped!RejectHeader, Mapped!RejectMagic, Mapped!RejectVersion,
        Mapped!AcceptHeader, Mapped!RejectMetadata, Mapped!Constructed,
        Mapped!FrameOk, Mapped!Route, Mapped!FrameNeedMore, Mapped!FrameCorrupt,
        Mapped!Throw
<1>5. CASE UNCHANGED bvars
    BY <1>5 DEF bvars, object, source, prologue
<1>6. QED
    BY <1>1, <1>2, <1>3, <1>4, <1>5 DEF BenchNext, Main, Exited

-----------------------------------------------------------------------------
(* The parts of the invariant, step by step. *)

(* A pass of Mode A is entered with a fresh reader and left in one step;   *)
(* in between only the reader itself moves.                                *)
LEMMA StreamPass ==
    ASSUME BenchInv, [BenchNext]_bvars, InPass("A")'
    PROVE  StreamReader'
<1>a. /\ file \in Files /\ chunk \in ChunkSizes /\ file' = file /\ chunk' = chunk
    BY BenchFileStays DEF BenchInv
<1>b. exit' = Running /\ at' = "pass" /\ mode' = "A"
    BY DEF InPass
<1>1. CASE StartPass
    <2>1. Init'
        BY <1>a, <1>1 DEF StartPass, Init, SourceInit, AssemblerInit
    <2>2. QED
        BY <2>1, FreshReader, PTL
<1>2. CASE RunStream
    <2>1. InPass("A") /\ [Next]_vars
        BY <1>2 DEF RunStream, Next
    <2>2. StreamReader
        BY <2>1 DEF BenchInv
    <2>3. QED
        BY <2>1, <2>2, StreamReaderNext
<1>3. CASE CallNext
    <2>1. mode = "A"
        BY <1>b, <1>3 DEF CallNext, args, mode, Calls
    <2>2. InPass("A")
        BY <1>3, <2>1 DEF CallNext, InPass
    <2>3. Call
        BY <1>3, <2>1 DEF CallNext, Call
    <2>4. StreamReader /\ [Next]_vars
        BY <2>2, <2>3 DEF BenchInv, Next
    <2>5. QED
        BY <2>4, StreamReaderNext
<1>4. CASE UNCHANGED bvars
    <2>1. UNCHANGED <<exit, at, call, passes, vars>>
        BY <1>4 DEF bvars, object, vars, args
    <2>2. InPass("A") /\ [Next]_vars
        BY <1>b, <2>1 DEF InPass, mode, Calls
    <2>3. StreamReader
        BY <2>2 DEF BenchInv
    <2>4. QED
        BY <2>2, <2>3, StreamReaderNext
<1>5. ~(Usage \/ SlurpFails \/ RejectStream \/ Catch \/ Report)
    BY <1>b DEF Usage, SlurpFails, RejectStream, Catch, Report, Exit, Running
<1>6. ~(slurp \/ EndCall \/ EndReaderPass \/ EndInMemoryPass)
    BY <1>b DEF slurp, EndCall, EndReaderPass, EndInMemoryPass, EndPass
<1>7. ~(RunMapped \/ CountRecord \/ FeedSlice)
    <2>1. ASSUME RunMapped \/ CountRecord \/ FeedSlice
          PROVE  mode \in {"B", "C"} /\ UNCHANGED <<call, passes>>
        BY <2>1 DEF RunMapped, CountRecord, FeedSlice, InPass, args
    <2>2. ASSUME UNCHANGED <<call, passes>> PROVE mode' = mode
        BY <2>2 DEF mode, Calls
    <2>3. QED
        BY <1>b, <2>1, <2>2
<1>8. QED
    BY <1>1, <1>2, <1>3, <1>4, <1>5, <1>6, <1>7 DEF BenchNext, Main, Exited

(* The first pass that ends is one of Mode A over a good prologue. *)
LEMMA FirstPassChecks ==
    ASSUME BenchInv, [BenchNext]_bvars
    PROVE  call' \in Nat \ {0} /\ pass' \in Nat /\ CheckedFirst'
<1>a. call \in Nat \ {0} /\ pass \in Nat /\ CheckedFirst /\ file' = file
    BY BenchFileStays DEF BenchInv
<1>1. CASE EndReaderPass \/ EndInMemoryPass
    <2>1. call' = call /\ pass' = pass + 1
        BY <1>1 DEF EndReaderPass, EndInMemoryPass, EndPass
    <2>2. PrologueError(file) = "none"
        <3>1. CASE InPass("A")
            <4>1. EndReaderPass
                BY <1>1, <3>1 DEF EndInMemoryPass, InPass
            <4>2. pc \in Returned
                BY <4>1 DEF EndReaderPass, Returned
            <4>3. QED
                BY <3>1, <4>2 DEF BenchInv, StreamReader, ReadyFile
        <3>2. CASE ~InPass("A")
            <4>1. mode \in {"B", "C"}
                BY <1>1, <3>2 DEF EndReaderPass, EndInMemoryPass, InPass
            <4>2. call > 1
                BY <1>a, <4>1, FirstCallStreams
            <4>3. QED
                BY <1>a, <4>2 DEF CheckedFirst
        <3>3. QED
            BY <3>1, <3>2
    <2>3. QED
        BY <1>a, <2>1, <2>2 DEF CheckedFirst
<1>2. CASE EndCall
    <2>1. /\ call' = call + 1 /\ pass' = 0 /\ pass = Calls[call][2]
        BY <1>2 DEF EndCall
    <2>2. call > 1 \/ pass > 0
        <3>1. CASE call = 1
            BY <2>1, <3>1 DEF Calls
        <3>2. CASE call # 1
            BY <1>a, <3>2
        <3>3. QED
            BY <3>1, <3>2
    <2>3. PrologueError(file) = "none"
        BY <1>a, <2>2 DEF CheckedFirst
    <2>4. QED
        BY <1>a, <2>1, <2>3 DEF CheckedFirst
<1>3. CASE ~(EndReaderPass \/ EndInMemoryPass \/ EndCall)
    <2>1. UNCHANGED <<call, pass>>
        BY <1>3
        DEF BenchNext, Main, Exited, bvars, Usage, SlurpFails, slurp, RejectStream,
            StartPass, RunStream, RunMapped, CallNext, Catch, CountRecord,
            FeedSlice, Report, Exit
    <2>2. QED
        BY <1>a, <2>1 DEF CheckedFirst
<1>4. QED
    BY <1>1, <1>2, <1>3

(* slurp() fills a vector of the size of the file. *)
LEMMA SlurpStep ==
    ASSUME BenchInv, [BenchNext]_bvars
    PROVE  SlurpedFile'
<1>a. file \in Seq(Byte) /\ Len(file) \in Nat /\ file' = file /\ SlurpedFile
    BY BenchFile, BenchFileStays DEF BenchInv
<1>1. CASE slurp
    <2>1. PICK n : slurped' = [i \in 1..Len(file) |-> IF i <= n THEN file[i] ELSE 0]
        BY <1>1 DEF slurp
    <2>2. \A i \in 1..Len(file) : file[i] \in Byte /\ 0 \in Byte
        BY <1>a, ElementOfSeq DEF Byte
    <2>3. slurped' \in [1..Len(file) -> Byte]
        BY <2>1, <2>2
    <2>4. slurped' \in Seq(Byte) /\ Len(slurped') = Len(file)
        BY <1>a, <2>3, IsASeq, LenProperties
    <2>5. \A i \in 1..Len(file) : slurped'[i] \in {file[i], 0}
        BY <2>1
    <2>6. QED
        BY <1>a, <2>4, <2>5 DEF SlurpedFile
<1>2. CASE ~slurp
    <2>1. slurped' = slurped /\ (at' # "main" => at # "main")
        BY <1>2
        DEF BenchNext, Main, Exited, bvars, Usage, SlurpFails, RejectStream,
            StartPass, RunStream, RunMapped, CallNext, Catch, CountRecord,
            FeedSlice, Report, Exit, EndCall, EndReaderPass, EndInMemoryPass,
            EndPass, InPass
    <2>2. QED
        BY <1>a, <2>1 DEF SlurpedFile
<1>3. QED
    BY <1>1, <1>2

LEMMA BenchInitially == BenchInit => BenchInv
<1> SUFFICES ASSUME BenchInit PROVE BenchInv
    OBVIOUS
<1>1. file \in Files /\ chunk \in ChunkSizes /\ call = 1 /\ pass = 0 /\ at = "main"
    BY DEF BenchInit, Init, SourceInit
<1>2. QED
    BY <1>1 DEF BenchInv, InPass, CheckedFirst, SlurpedFile

LEMMA BenchNextStep == BenchInv /\ [BenchNext]_bvars => BenchInv'
<1> SUFFICES ASSUME BenchInv, [BenchNext]_bvars PROVE BenchInv'
    OBVIOUS
<1>1. file' \in Files /\ chunk' \in ChunkSizes
    BY BenchFileStays DEF BenchInv
<1>2. (InPass("A") => StreamReader)'
    BY StreamPass
<1>3. QED
    BY <1>1, <1>2, FirstPassChecks, SlurpStep DEF BenchInv

-----------------------------------------------------------------------------
(* The subspan of Mode B, which record_start() does not check, lies inside *)
(* the slurped bytes in every pass, because the calls of main() start with *)
(* Mode A and a DbnReader refuses the files for which it would not.        *)
THEOREM InMemoryIsCovered == BenchSpec => []SubspanInside
<1>1. ASSUME BenchInv, InPass("B")
      PROVE  /\ RecordStart(slurped) <= Len(slurped)
             /\ slurped = file => slurped[4] = kSupportedDbnVersion
    <2>1. call > 1
        BY <1>1, FirstCallStreams DEF BenchInv, InPass
    <2>2. PrologueError(file) = "none" /\ file \in Seq(Byte)
        BY <1>1, <2>1, BenchFile DEF BenchInv, CheckedFirst
    <2>3. /\ Len(file) \in Nat /\ Len(file) >= 8
          /\ RecordStart(file) \in Nat /\ RecordStart(file) <= Len(file)
        BY <2>2, PrologueGood
    <2>4. file[4] = kSupportedDbnVersion
        BY <2>2, <2>3, PrologueCases
    <2>5. /\ slurped \in Seq(Byte) /\ Len(slurped) = Len(file)
          /\ \A i \in 1..Len(file) : slurped[i] \in {file[i], 0}
        BY <1>1 DEF BenchInv, SlurpedFile, InPass
    <2>6. RecordStart(slurped) <= RecordStart(file)
        BY <2>2, <2>3, <2>5, ZerosShorten
    <2>7. RecordStart(slurped) \in Nat
        BY <2>3, <2>5, PrologueCases
    <2>8. QED
        BY <2>3, <2>4, <2>5, <2>6, <2>7
<1>2. BenchInv => SubspanInside
    BY <1>1 DEF SubspanInside
<1>3. QED
    BY BenchInitially, BenchNextStep, <1>2, PTL DEF BenchSpec

-----------------------------------------------------------------------------
(* The counts.  A pass of Mode A or C has decoded the file up to where its *)
(* reader stands, and has counted every Event but the one it was just      *)
(* handed; a pass of Mode B has counted the records before the front of    *)
(* its assembler.  So a pass that ends where no whole record begins has    *)
(* counted the file, and what a mode's last pass left in totals follows.   *)

Early == {"open", "header", "skip", "metadata", "prologue"}

(* The reader of a pass of Mode C. *)
MappedReader ==
    /\ pc \in {"open", "prologue", "metadata", "ready", "frame", "route", "threw"}
    /\ pc \in Early => out = <<>> /\ stats = NoStats
    /\ pc = "metadata" => HeaderChecked /\ cursor = RecordStart(file)
    /\ pc \in {"ready", "frame"} => Decoded(file, cursor, out, stats)
    /\ pc = "route" =>
          /\ Decoded(file, view.at, out, stats)
          /\ frame_one(SubSeq(file, view.at + 1, Len(file))).status = "Ok"
          /\ frame_one(SubSeq(file, view.at + 1, Len(file))).record_size = view.len
          /\ cursor = view.at + view.len
    /\ pc = "ready" /\ ret = "nullopt" => ~IsWhole(file, cursor)

(* The for loop of Modes A and C counts an Event when it calls again. *)
LoopCount ==
    /\ out \in Seq(Event)
    /\ pc \in Early => ret = "none"
    /\ events = Len(out) - (IF pc = "ready" /\ ret = "event" THEN 1 ELSE 0)

(* Where the front of the assembler of Mode B is in the file. *)
Here == RecordStart(file) + offset - buffered

MemoryCount ==
    /\ AssemblerTypeOK
    /\ offset \in 0..(Len(file) - RecordStart(file))
    /\ chunk = 0 => offset = 0
    /\ buffered <= offset
    /\ Front = SubSeq(file, Here + 1, RecordStart(file) + offset)
    /\ rbytes = Here - RecordStart(file)
    /\ Counted(file, Here, events)

(* What it means that no read has failed yet. *)
NoFault ==
    ~faulted => /\ at # "main" => slurped = file
                /\ InPass("A") => BadOnlyAtEnd

PassInv ==
    /\ InPass("C") => MappedReader
    /\ InPass("A") \/ InPass("C") => LoopCount
    /\ InPass("B") /\ ~faulted => MemoryCount
    /\ NoFault
    /\ at = "main" => ~faulted

(* What the last pass of each mode left.  A reader without a scratch       *)
(* buffer counts nothing, but then Mode B ends only if there is nothing.   *)
StreamTotal ==
    ~faulted /\ (call > 1 \/ pass > 0) =>
        \/ totals["A"].events = EventCount(file)
        \/ chunk = 0 /\ RecordStart(file) # Len(file)

MemoryTotal ==
    ~faulted /\ (call > 2 \/ (call = 2 /\ pass > 0)) =>
        /\ totals["B"].events = EventCount(file)
        /\ RecordStart(file) + totals["B"].record_bytes \in Boundaries(file)
        /\ ~IsWhole(file, RecordStart(file) + totals["B"].record_bytes)
        /\ chunk = 0 => RecordStart(file) = Len(file)

MappedTotal ==
    call > 3 \/ (call = 3 /\ pass > 0) => totals["C"].events = EventCount(file)

Verdict ==
    exit = 0 \/ parity = "OK" =>
        /\ exit # Running /\ call > 6
        /\ parity = IF totals["A"].events # totals["C"].events THEN "FAIL" ELSE "OK"

TotalInv ==
    /\ DOMAIN totals = {"A", "B", "C"}
    /\ StreamTotal /\ MemoryTotal /\ MappedTotal /\ Verdict

-----------------------------------------------------------------------------
(* The steps of a pass.  The mapped reader instantiates Dbn with the       *)
(* layout of the streaming one, so its operators are the same.             *)

LEMMA MappedOperators ==
    /\ \A b : Mapped!frame_one(b) = frame_one(b)
    /\ \A r : Mapped!route_record(r) = route_record(r)
    /\ \A s, r : Mapped!tally(s, r) = tally(s, r)
    /\ \A f : Mapped!HasMagic(f) = HasMagic(f)
    /\ \A f : Mapped!HeaderSize + Mapped!MetadataLen(f) = RecordStart(f)
    /\ Mapped!HeaderSize = 8 /\ Mapped!kSupportedDbnVersion = kSupportedDbnVersion
<1>1. \A b : Mapped!frame_one(b) = frame_one(b)
    BY DEF Mapped!frame_one, frame_one, Mapped!Frame, Frame,
           Mapped!RecordSize, RecordSize
<1>2. \A w : Mapped!to_event(w) = to_event(w)
    BY DEF Mapped!to_event, to_event, Mapped!ByteAt, ByteAt,
           Mapped!is_valid_action, is_valid_action, Mapped!Action, Action,
           Mapped!is_valid_side, is_valid_side, Mapped!Side, Side,
           Mapped!EventOf, EventOf, Mapped!Field, Field,
           Mapped!EventFields, EventFields, Mapped!NoEvent, NoEvent
<1>3. \A r : Mapped!route_record(r) = route_record(r)
    BY <1>2 DEF Mapped!route_record, route_record, Mapped!Routed, Routed,
                Mapped!kMboRtype, kMboRtype, Mapped!NoEvent, NoEvent,
                Mapped!EventFields, EventFields
<1>4. \A s, r : Mapped!tally(s, r) = tally(s, r)
    BY DEF Mapped!tally, tally
<1>5. \A f : Mapped!HeaderSize + Mapped!MetadataLen(f) = RecordStart(f)
    BY DEF RecordStart, Mapped!HeaderSize, HeaderSize,
           Mapped!MetadataLen, MetadataLen, Mapped!LittleEndian, LittleEndian
<1>6. \A f : Mapped!HasMagic(f) = HasMagic(f)
    BY DEF Mapped!HasMagic, HasMagic
<1>7. Mapped!HeaderSize = 8 /\ Mapped!kSupportedDbnVersion = kSupportedDbnVersion
    BY DEF Mapped!HeaderSize, Mapped!kSupportedDbnVersion, kSupportedDbnVersion
<1>8. QED
    BY <1>1, <1>3, <1>4, <1>5, <1>6, <1>7

(* A pass goes on by a step of its own mode. *)
LEMMA InsidePass ==
    ASSUME [BenchNext]_bvars, exit' = Running, at' = "pass", ~StartPass
    PROVE  /\ exit = Running /\ at = "pass" /\ mode' = mode
           /\ UNCHANGED <<call, pass, slurped>>
           /\ \/ RunStream \/ RunMapped \/ CallNext \/ CountRecord \/ FeedSlice
              \/ UNCHANGED bvars
<1>1. ~(Usage \/ SlurpFails \/ RejectStream \/ Catch \/ Report)
    BY DEF Usage, SlurpFails, RejectStream, Catch, Report, Exit, Running
<1>2. ~(slurp \/ EndCall \/ EndReaderPass \/ EndInMemoryPass)
    BY DEF slurp, EndCall, EndReaderPass, EndInMemoryPass, EndPass
<1>3. \/ RunStream \/ RunMapped \/ CallNext \/ CountRecord \/ FeedSlice
      \/ UNCHANGED bvars
    BY <1>1, <1>2 DEF BenchNext, Main, Exited
<1>4. /\ exit = Running /\ at = "pass" /\ UNCHANGED <<call, pass, slurped, passes>>
    BY <1>3 DEF RunStream, RunMapped, CallNext, CountRecord, FeedSlice, InPass,
                bvars, args
<1>5. mode' = mode
    BY <1>4 DEF mode, Calls
<1>6. QED
    BY <1>3, <1>4, <1>5

(* One Event more is returned and left to be counted, or none. *)
LEMMA OneEvent ==
    ASSUME LoopCount, pc = "route", events' = events, NEW r,
           r.outcome = "Emit" => r.event \in Event,
           \/ /\ r.outcome = "Emit" /\ pc' = "ready" /\ ret' = "event"
              /\ out' = Append(out, r.event)
           \/ /\ r.outcome # "Emit" /\ pc' \notin Early \cup {"ready"}
              /\ UNCHANGED <<ret, out>>
    PROVE  LoopCount'
<1>1. out \in Seq(Event) /\ events = Len(out) - 0 /\ Len(out) \in Nat
    BY LenProperties DEF LoopCount
<1>2. CASE r.outcome = "Emit"
    <2>1. out' \in Seq(Event) /\ Len(out') = Len(out) + 1
        BY <1>1, <1>2, AppendProperties
    <2>2. pc' = "ready" /\ ret' = "event"
        BY <1>2
    <2>3. events = (Len(out) + 1) - 1
        BY <1>1
    <2>4. QED
        BY <2>1, <2>2, <2>3 DEF LoopCount, Early
<1>3. CASE r.outcome # "Emit"
    BY <1>1, <1>3 DEF LoopCount, Early
<1>4. QED
    BY <1>2, <1>3

(* No Event is returned: what was counted stays right. *)
LEMMA NoEventYet ==
    ASSUME LoopCount, events' = events, out' = out, pc # "ready",
           pc' \in Early => pc \in Early /\ ret' = ret,
           pc' = "ready" => ret' = "nullopt" \/ (pc \in Early /\ ret' = ret)
    PROVE  LoopCount'
<1>1. out \in Seq(Event) /\ events = Len(out) - 0 /\ (pc \in Early => ret = "none")
    BY DEF LoopCount
<1>2. ~(pc' = "ready" /\ ret' = "event") /\ (pc' \in Early => ret' = "none")
    BY <1>1
<1>3. QED
    BY <1>1, <1>2 DEF LoopCount

(* One step of the mapped reader. *)
LEMMA MappedStep ==
    ASSUME file \in Seq(Byte), MappedReader, LoopCount, events' = events,
           Mapped!MapFails \/ Mapped!Construct \/ Mapped!Step
    PROVE  MappedReader' /\ LoopCount'
<1>a. Len(file) \in Nat
    BY LenProperties
<1>1. CASE \/ Mapped!MapFails \/ Mapped!RejectHeader \/ Mapped!RejectMagic
           \/ Mapped!RejectVersion \/ Mapped!RejectMetadata
    <2>1. pc \in Early /\ pc' = "threw" /\ UNCHANGED <<ret, out>>
        BY <1>1
        DEF Mapped!MapFails, Mapped!RejectHeader, Mapped!RejectMagic,
            Mapped!RejectVersion, Mapped!RejectMetadata, Mapped!Throw, Early
    <2>2. MappedReader'
        BY <2>1 DEF MappedReader, Early
    <2>3. LoopCount'
        BY <2>1, NoEventYet DEF Early
    <2>4. QED
        BY <2>2, <2>3
<1>2. CASE Mapped!Map
    <2>1. /\ pc = "open" /\ pc' = "prologue" /\ UNCHANGED <<file, ret, out, stats>>
        BY <1>2 DEF Mapped!Map, Mapped!result
    <2>2. MappedReader'
        BY <2>1 DEF MappedReader, Early
    <2>3. LoopCount'
        BY <2>1, NoEventYet DEF Early
    <2>4. QED
        BY <2>2, <2>3
<1>3. CASE Mapped!AcceptHeader
    <2>1. /\ pc = "prologue" /\ pc' = "metadata" /\ UNCHANGED <<file, ret, out, stats>>
          /\ Len(file) >= 8 /\ HasMagic(file) /\ file[4] = kSupportedDbnVersion
          /\ cursor' = RecordStart(file)
        BY <1>3, MappedOperators DEF Mapped!AcceptHeader, Mapped!result
    <2>2. MappedReader'
        BY <2>1 DEF MappedReader, Early, HeaderChecked
    <2>3. LoopCount'
        BY <2>1, NoEventYet DEF Early
    <2>4. QED
        BY <2>2, <2>3
<1>4. CASE Mapped!Constructed
    <2>1. /\ pc = "metadata" /\ pc' = "ready" /\ cursor <= Len(file)
          /\ UNCHANGED <<file, cursor, ret, out, stats>>
        BY <1>4 DEF Mapped!Constructed, Mapped!result
    <2>2. /\ HeaderChecked /\ cursor = RecordStart(file)
          /\ out = <<>> /\ stats = NoStats
        BY <2>1 DEF MappedReader, Early
    <2>3. PrologueError(file) = "none"
        BY <2>1, <2>2, PrologueCases DEF HeaderChecked
    <2>4. Decoded(file, cursor, out, stats)
        BY <2>2, <2>3, DecodedStart
    <2>5. ret = "none"
        BY <2>1 DEF LoopCount, Early
    <2>6. MappedReader'
        BY <2>1, <2>4, <2>5 DEF MappedReader, Early
    <2>7. LoopCount'
        BY <2>1, NoEventYet DEF Early
    <2>8. QED
        BY <2>6, <2>7
<1>5. CASE Mapped!FrameOk \/ Mapped!FrameNeedMore \/ Mapped!FrameCorrupt
    <2>1. pc = "frame" /\ UNCHANGED <<file, out, stats>>
        BY <1>5 DEF Mapped!FrameOk, Mapped!FrameNeedMore, Mapped!FrameCorrupt,
                    Mapped!result
    <2>2. Decoded(file, cursor, out, stats)
        BY <2>1 DEF MappedReader
    <2>3. cursor \in Nat /\ cursor <= Len(file)
        BY <1>a, <2>2, BoundaryFacts DEF Decoded
    <2> DEFINE fr == frame_one(SubSeq(file, cursor + 1, Len(file)))
    <2>4. Mapped!frame_one(Mapped!rest) = fr
        BY MappedOperators DEF Mapped!rest
    <2>5. CASE Mapped!FrameOk
        <3>1. /\ fr.status = "Ok" /\ view' = [at |-> cursor, len |-> fr.record_size]
              /\ cursor' = cursor + fr.record_size /\ pc' = "route" /\ ret' = ret
            BY <2>4, <2>5 DEF Mapped!FrameOk, Mapped!result
        <3>2. view'.at = cursor /\ view'.len = fr.record_size
            BY <3>1
        <3>3. MappedReader'
            BY <2>1, <2>2, <3>1, <3>2 DEF MappedReader, Early
        <3>4. LoopCount'
            BY <2>1, <3>1, NoEventYet DEF Early
        <3>5. QED
            BY <3>3, <3>4
    <2>6. CASE Mapped!FrameNeedMore \/ Mapped!FrameCorrupt
        <3>1. /\ fr.status # "Ok" /\ cursor' = cursor
              /\ pc' = "ready" /\ ret' = "nullopt"
            BY <2>4, <2>6
            DEF Mapped!FrameNeedMore, Mapped!FrameCorrupt, Mapped!Return
        <3>2. ~IsWhole(file, cursor)
            BY <1>a, <2>3, <3>1, NoRecordHere
        <3>3. MappedReader'
            BY <2>1, <2>2, <3>1, <3>2 DEF MappedReader, Early
        <3>4. LoopCount'
            BY <2>1, <3>1, NoEventYet DEF Early
        <3>5. QED
            BY <3>3, <3>4
    <2>7. QED
        BY <1>5, <2>5, <2>6
<1>6. CASE Mapped!Route
    <2> DEFINE r == route_record(SubSeq(file, view.at + 1, view.at + view.len))
    <2>1. /\ pc = "route" /\ UNCHANGED <<file, cursor>>
          /\ stats' = tally(stats, r)
          /\ \/ /\ r.outcome = "Emit" /\ pc' = "ready" /\ ret' = "event"
                /\ out' = Append(out, r.event)
             \/ /\ r.outcome # "Emit" /\ pc' = "frame" /\ UNCHANGED <<ret, out>>
        BY <1>6, MappedOperators DEF Mapped!Route, Mapped!Return
    <2>2. /\ Decoded(file, view.at, out, stats)
          /\ frame_one(SubSeq(file, view.at + 1, Len(file))).status = "Ok"
          /\ frame_one(SubSeq(file, view.at + 1, Len(file))).record_size = view.len
          /\ cursor = view.at + view.len
        BY <2>1 DEF MappedReader
    <2>3. Decoded(file, view.at + view.len,
                  IF r.outcome = "Emit" THEN Append(out, r.event) ELSE out,
                  tally(stats, r))
        BY <2>2, DecodedStep
    <2>4. r.outcome = "Emit" => r.event \in Event
        <3>1. view.at + view.len \in 0..Len(file) /\ view.at \in 0..Len(file)
            BY <2>2, <2>3, BoundaryFacts DEF Decoded
        <3>2. /\ view.at + view.len \in Nat /\ view.at + view.len <= Len(file)
              /\ view.at \in Nat
            BY <1>a, <3>1
        <3>3. SubSeq(file, view.at + 1, view.at + view.len) \in Seq(Byte)
            BY <3>2, Slice
        <3>4. QED
            BY <3>3, RouteRecord
    <2> HIDE DEF r
    <2>5. Decoded(file', cursor', out', stats')
        BY <2>1, <2>2, <2>3
    <2>6. MappedReader'
        BY <2>1, <2>5 DEF MappedReader, Early
    <2>7. LoopCount'
        BY <2>1, <2>4, OneEvent DEF Early
    <2>8. QED
        BY <2>6, <2>7
<1>7. QED
    BY <1>1, <1>2, <1>3, <1>4, <1>5, <1>6 DEF Mapped!Construct, Mapped!Step

(* The loop calls again, in Mode A or C. *)
LEMMA LoopCalls ==
    ASSUME LoopCount, CallNext
    PROVE  LoopCount'
<1>1. /\ pc = "ready" /\ pc' \in {"pull", "frame"} /\ UNCHANGED <<ret, out>>
      /\ events' = events + (IF ret = "event" THEN 1 ELSE 0)
    BY DEF CallNext, result
<1>2. out \in Seq(Event) /\ Len(out) \in Nat
      /\ events = Len(out) - (IF ret = "event" THEN 1 ELSE 0)
    BY <1>1, LenProperties DEF LoopCount
<1>3. events' = Len(out) - 0
    BY <1>1, <1>2
<1>4. QED
    BY <1>1, <1>2, <1>3 DEF LoopCount, Early

(* A pass of Mode C. *)
LEMMA MappedPass ==
    ASSUME BenchInv, PassInv, [BenchNext]_bvars, InPass("C")'
    PROVE  MappedReader' /\ LoopCount'
<1>a. file \in Seq(Byte) /\ file' = file
    BY BenchFile, BenchFileStays
<1>b. exit' = Running /\ at' = "pass" /\ mode' = "C"
    BY DEF InPass
<1>1. CASE StartPass
    <2>1. /\ pc' = "open" /\ out' = <<>> /\ stats' = NoStats /\ ret' = "none"
          /\ events' = 0
        BY <1>1 DEF StartPass, FreshCounts
    <2>2. <<>> \in Seq(Event) /\ Len(<<>>) = 0
        BY EmptySeq
    <2>3. MappedReader'
        BY <2>1 DEF MappedReader, Early
    <2>4. LoopCount'
        BY <2>1, <2>2 DEF LoopCount, Early
    <2>5. QED
        BY <2>3, <2>4
<1>2. CASE ~StartPass
    <2>1. /\ exit = Running /\ at = "pass" /\ mode = "C"
          /\ \/ RunStream \/ RunMapped \/ CallNext \/ CountRecord \/ FeedSlice
             \/ UNCHANGED bvars
        BY <1>b, <1>2, InsidePass
    <2>2. MappedReader /\ LoopCount
        BY <2>1 DEF PassInv, InPass
    <2>3. CASE RunMapped
        <3>1. events' = events /\ (Mapped!MapFails \/ Mapped!Construct \/ Mapped!Step)
            BY <2>3 DEF RunMapped, counts
        <3>2. QED
            BY <1>a, <2>2, <3>1, MappedStep
    <2>4. CASE CallNext
        <3>1. /\ pc = "ready" /\ pc' = "frame" /\ ret # "nullopt"
              /\ UNCHANGED <<cursor, out, stats>>
            BY <2>1, <2>4 DEF CallNext, result
        <3>2. MappedReader'
            BY <1>a, <2>2, <3>1 DEF MappedReader, Early
        <3>3. QED
            BY <2>2, <2>4, <3>2, LoopCalls
    <2>5. CASE UNCHANGED bvars
        <3>1. UNCHANGED <<pc, cursor, view, ret, out, stats, events>>
            BY <2>5 DEF bvars, object, result, counts
        <3>2. QED
            BY <1>a, <2>2, <3>1 DEF MappedReader, LoopCount, HeaderChecked
    <2>6. ~(RunStream \/ CountRecord \/ FeedSlice)
        BY <2>1 DEF RunStream, CountRecord, FeedSlice, InPass
    <2>7. QED
        BY <2>1, <2>3, <2>4, <2>5, <2>6
<1>3. QED
    BY <1>1, <1>2

(* One step of the streaming reader. *)
LEMMA StreamCount ==
    ASSUME StreamReader, LoopCount, events' = events, OpenFails \/ Construct \/ Step
    PROVE  LoopCount'
<1>1. CASE OpenFails \/ Construct
    <2>1. /\ pc \in Early /\ pc' \in Early \cup {"threw", "ready"}
          /\ UNCHANGED <<ret, out>>
        BY <1>1
        DEF OpenFails, Construct, Open, ReadFully, ReadFullyEof, RejectMagic,
            RejectVersion, AcceptHeader, NextMetadataPiece, MetadataPieceRead,
            Constructed, Throw, result, Early
    <2>2. QED
        BY <2>1, NoEventYet DEF Early
<1>2. CASE PullRecord \/ PullNeedMore \/ PullCorrupt \/ Refill
    <2>1. /\ pc \in {"pull", "refill"} /\ out' = out
          /\ pc' \in {"route", "refill", "pull"} \/ (pc' = "ready" /\ ret' = "nullopt")
        BY <1>2 DEF PullRecord, PullNeedMore, PullCorrupt, Refill, Return, result
    <2>2. QED
        BY <2>1, NoEventYet DEF Early
<1>3. CASE Route
    <2> DEFINE r == route_record(Bytes(view))
    <2>1. /\ pc = "route"
          /\ \/ /\ r.outcome = "Emit" /\ pc' = "ready" /\ ret' = "event"
                /\ out' = Append(out, r.event)
             \/ /\ r.outcome # "Emit" /\ pc' = "pull" /\ UNCHANGED <<ret, out>>
        BY <1>3 DEF Route, Return
    <2>2. r.outcome = "Emit" => r.event \in Event
        BY <2>1, RouteBytes, RouteRecord DEF StreamReader
    <2> HIDE DEF r
    <2>3. QED
        BY <2>1, <2>2, OneEvent DEF Early
<1>4. QED
    BY <1>1, <1>2, <1>3 DEF Step

LEMMA StreamLoop ==
    ASSUME BenchInv, PassInv, [BenchNext]_bvars, InPass("A")'
    PROVE  LoopCount'
<1>b. exit' = Running /\ at' = "pass" /\ mode' = "A"
    BY DEF InPass
<1>1. CASE StartPass
    <2>1. pc' = "open" /\ out' = <<>> /\ ret' = "none" /\ events' = 0
        BY <1>1 DEF StartPass, FreshCounts
    <2>2. <<>> \in Seq(Event) /\ Len(<<>>) = 0
        BY EmptySeq
    <2>3. QED
        BY <2>1, <2>2 DEF LoopCount, Early
<1>2. CASE ~StartPass
    <2>1. /\ exit = Running /\ at = "pass" /\ mode = "A"
          /\ \/ RunStream \/ RunMapped \/ CallNext \/ CountRecord \/ FeedSlice
             \/ UNCHANGED bvars
        BY <1>b, <1>2, InsidePass
    <2>2. StreamReader /\ LoopCount
        BY <2>1 DEF BenchInv, PassInv, InPass
    <2>3. CASE RunStream
        <3>1. events' = events /\ (OpenFails \/ Construct \/ Step)
            BY <2>3 DEF RunStream, counts
        <3>2. QED
            BY <2>2, <3>1, StreamCount
    <2>4. CASE CallNext
        BY <2>2, <2>4, LoopCalls
    <2>5. CASE UNCHANGED bvars
        <3>1. UNCHANGED <<pc, ret, out, events>>
            BY <2>5 DEF bvars, object, result, counts
        <3>2. QED
            BY <2>2, <3>1 DEF LoopCount
    <2>6. ~(RunMapped \/ CountRecord \/ FeedSlice)
        BY <2>1 DEF RunMapped, CountRecord, FeedSlice, InPass
    <2>7. QED
        BY <2>1, <2>3, <2>4, <2>5, <2>6
<1>3. QED
    BY <1>1, <1>2

InsideFile == fpos \in Nat /\ fpos <= Len(file) /\ Len(file) \in Nat

LEMMA WindowInside == TypeInv => InsideFile
BY WindowType DEF InsideFile

(* A fault is remembered; without one, what was slurped is the file and    *)
(* the stream is good until its end.                                       *)
LEMMA FaultStep ==
    ASSUME BenchInv, PassInv, [BenchNext]_bvars
    PROVE  /\ NoFault' /\ (at' = "main" => ~faulted')
           /\ ~faulted' => ~faulted
<1>a. file' = file /\ NoFault /\ (at = "main" => ~faulted)
    BY BenchFileStays DEF PassInv
<1>1. CASE slurp
    BY <1>a, <1>1 DEF slurp, NoFault, InPass
<1>2. CASE RunStream
    <2>1. /\ InPass("A") /\ faulted' = (faulted \/ (~good' /\ fpos' < Len(file)))
          /\ UNCHANGED <<at, slurped>>
        BY <1>2 DEF RunStream
    <2>2. at = "pass"
        BY <2>1 DEF InPass
    <2>3. InPass("A")' => StreamReader'
        BY StreamPass
    <2>4. ASSUME InPass("A")', ~faulted' PROVE BadOnlyAtEnd'
        <3>1. TypeInv'
            BY <2>3, <2>4 DEF StreamReader, ReaderInv
        <3>2. InsideFile'
            BY <3>1, WindowInside, PTL
        <3>3. ~(~good' /\ fpos' < Len(file))
            BY <2>1, <2>4
        <3>4. QED
            BY <1>a, <3>2, <3>3 DEF BadOnlyAtEnd, InsideFile
    <2>5. QED
        BY <1>a, <2>1, <2>2, <2>4 DEF NoFault
<1>3. CASE ~(slurp \/ RunStream)
    <2>1. /\ UNCHANGED <<slurped, faulted>> /\ (at' = "main" <=> at = "main")
        BY <1>3
        DEF BenchNext, Main, Exited, bvars, Usage, SlurpFails, RejectStream,
            StartPass, RunMapped, CallNext, Catch, CountRecord, FeedSlice, Report,
            Exit, EndCall, EndReaderPass, EndInMemoryPass, EndPass, InPass, verdict
    <2>2. ASSUME InPass("A")', ~faulted PROVE BadOnlyAtEnd'
        <3>1. CASE StartPass
            BY <3>1 DEF StartPass, BadOnlyAtEnd
        <3>2. CASE ~StartPass
            <4>1. /\ InPass("A")
                  /\ RunMapped \/ CallNext \/ CountRecord \/ FeedSlice \/ UNCHANGED bvars
                BY <1>3, <2>2, <3>2, InsidePass DEF InPass
            <4>2. UNCHANGED <<fpos, good>>
                BY <4>1 DEF RunMapped, CallNext, CountRecord, FeedSlice, InPass,
                            bvars, object, source
            <4>3. QED
                BY <1>a, <2>2, <4>1, <4>2 DEF NoFault, BadOnlyAtEnd
        <3>3. QED
            BY <3>1, <3>2
    <2>3. QED
        BY <1>a, <2>1, <2>2 DEF NoFault
<1>4. QED
    BY <1>1, <1>2, <1>3

(* The numbers and the window of a pass of Mode B. *)
LEMMA MemoryType ==
    ASSUME BenchInv, MemoryCount
    PROVE  /\ file \in Seq(Byte) /\ Len(file) \in Nat
           /\ RecordStart(file) \in Nat /\ RecordStart(file) <= Len(file)
           /\ offset \in Nat /\ RecordStart(file) + offset \in Nat
           /\ RecordStart(file) + offset <= Len(file)
           /\ Here \in Nat /\ RecordStart(file) <= Here
           /\ Here <= RecordStart(file) + offset
           /\ buffered = (RecordStart(file) + offset) - Here
           /\ buf \in Seq(Byte) /\ Len(buf) \in Nat
           /\ read_pos \in Nat /\ read_pos <= Len(buf)
           /\ buffered \in Nat /\ Front \in Seq(Byte) /\ Len(Front) = buffered
           /\ pull.status = "Record" => frame_one(Front).status = "Ok"
           /\ pull.status = "NeedMore" => frame_one(Front).status = "NeedMore"
           /\ pull.status = "Corrupt" => frame_one(Front).status = "Corrupt"
<1>1. file \in Seq(Byte) /\ Len(file) \in Nat
    BY BenchFile
<1>2. RecordStart(file) \in Nat /\ RecordStart(file) <= Len(file)
    BY <1>1, PrologueGood DEF MemoryCount, Counted
<1>3. /\ buf \in Seq(Byte) /\ Len(buf) \in Nat
      /\ read_pos \in Nat /\ read_pos <= Len(buf)
      /\ buffered \in Nat /\ Front \in Seq(Byte) /\ Len(Front) = buffered
    BY FrontType DEF MemoryCount
<1>4. offset \in 0..(Len(file) - RecordStart(file)) /\ buffered <= offset
    BY DEF MemoryCount
<1>5. /\ offset \in Nat /\ RecordStart(file) + offset \in Nat
      /\ RecordStart(file) + offset <= Len(file)
    BY <1>1, <1>2, <1>4
<1>6. /\ Here \in Nat /\ RecordStart(file) <= Here
      /\ Here <= RecordStart(file) + offset
      /\ buffered = (RecordStart(file) + offset) - Here
    BY <1>2, <1>3, <1>4, <1>5 DEF Here
<1>7. /\ pull.status = "Record" => frame_one(Front).status = "Ok"
      /\ pull.status = "NeedMore" => frame_one(Front).status = "NeedMore"
      /\ pull.status = "Corrupt" => frame_one(Front).status = "Corrupt"
    BY <1>3, FrameOne DEF pull, PullStatus
<1>8. QED
    BY <1>1, <1>2, <1>3, <1>5, <1>6, <1>7

(* A record is counted: the front of the assembler loses its bytes. *)
LEMMA MemoryRecord ==
    ASSUME BenchInv, MemoryCount, CountRecord
    PROVE  MemoryCount'
<1> DEFINE n == frame_one(Front).record_size
           h == Here
           e == RecordStart(file) + offset
           r == route_record(SubSeq(file, h + 1, h + n))
<1>1. /\ file \in Seq(Byte) /\ Len(file) \in Nat /\ RecordStart(file) \in Nat
      /\ e \in Nat /\ e <= Len(file) /\ h \in Nat /\ h <= e /\ buffered = e - h
      /\ buf \in Seq(Byte) /\ Len(buf) \in Nat
      /\ read_pos \in Nat /\ read_pos <= Len(buf)
      /\ buffered \in Nat /\ Front \in Seq(Byte) /\ Len(Front) = buffered
      /\ offset \in Nat
    BY MemoryType
<1>2. frame_one(Front).status = "Ok"
    BY MemoryType DEF CountRecord
<1>3. /\ AssemblerTypeOK' /\ buf' = buf /\ read_pos' = read_pos + n
      /\ n \in Nat /\ n <= buffered
    BY NextType DEF CountRecord, MemoryCount
<1>4. /\ Front = SubSeq(file, h + 1, e) /\ rbytes = h - RecordStart(file)
      /\ Counted(file, h, events) /\ buffered <= offset
      /\ offset \in 0..(Len(file) - RecordStart(file)) /\ (chunk = 0 => offset = 0)
    BY DEF MemoryCount
<1>5. /\ UNCHANGED <<file, chunk, offset>> /\ rbytes' = rbytes + n
      /\ events' = events + (IF route_record(SubSeq(buf, read_pos + 1, read_pos + n)).outcome
                                = "Emit" THEN 1 ELSE 0)
    BY DEF CountRecord, pull, Bytes, source, prologue
<1>6. frame_one(SubSeq(file, h + 1, Len(file))) = frame_one(Front)
    <2>1. frame_one(SubSeq(file, h + 1, e)).status # "NeedMore"
        BY <1>2, <1>4
    <2> HIDE DEF h, e
    <2>2. QED
        BY <1>1, <1>4, <2>1, FramePrefix
<1> HIDE DEF n, h, e
<1>7. /\ SubSeq(buf, read_pos + 1, read_pos + n) = SubSeq(file, h + 1, h + n)
      /\ SubSeq(buf, read_pos + n + 1, Len(buf)) = SubSeq(file, h + n + 1, e)
    <2>1. /\ Len(buf) - read_pos = e - h /\ n <= e - h
          /\ n <= Len(buf) - read_pos /\ Len(buf) <= Len(buf)
        BY <1>1, <1>3 DEF buffered
    <2>2. SubSeq(buf, read_pos + 1, Len(buf)) = SubSeq(file, h + 1, e)
        BY <1>4 DEF Front
    <2>3. /\ SubSeq(SubSeq(buf, read_pos + 1, Len(buf)), 1, n)
                 = SubSeq(buf, read_pos + 1, read_pos + n)
          /\ SubSeq(SubSeq(buf, read_pos + 1, Len(buf)), n + 1, Len(buf) - read_pos)
                 = SubSeq(buf, read_pos + n + 1, Len(buf))
        BY <1>1, <1>3, <2>1, SplitSlice
    <2>4. /\ SubSeq(SubSeq(file, h + 1, e), 1, n) = SubSeq(file, h + 1, h + n)
          /\ SubSeq(SubSeq(file, h + 1, e), n + 1, e - h)
                 = SubSeq(file, h + n + 1, e)
        BY <1>1, <1>3, <2>1, SplitSlice
    <2>5. QED
        BY <2>1, <2>2, <2>3, <2>4, Zenon
<1>8. Counted(file, h + n, events + (IF r.outcome = "Emit" THEN 1 ELSE 0))
    <2>1. /\ frame_one(SubSeq(file, h + 1, Len(file))).status = "Ok"
          /\ frame_one(SubSeq(file, h + 1, Len(file))).record_size = n
        BY <1>2, <1>6 DEF n
    <2>2. QED
        BY <1>1, <1>4, <2>1, CountedStep
<1>9. buffered' = buffered - n /\ Here' = h + n
    <2>1. buffered' = Len(buf) - (read_pos + n) /\ buffered = Len(buf) - read_pos
        BY <1>3 DEF buffered
    <2>2. buffered' = buffered - n
        <3>1. Len(buf) \in Nat /\ read_pos \in Nat /\ n \in Nat
            BY <1>1, <1>3
        <3>2. QED
            BY <2>1, <3>1
    <2>3. h = RecordStart(file) + offset - buffered
          /\ Here' = RecordStart(file) + offset - buffered'
        BY <1>5 DEF h, Here
    <2>4. RecordStart(file) \in Nat /\ offset \in Nat /\ buffered \in Nat /\ n \in Nat
        BY <1>1, <1>3
    <2>5. QED
        BY <2>2, <2>3, <2>4
<1>10. Front' = SubSeq(file, h + n + 1, e)
    BY <1>3, <1>7 DEF Front
<1>11. buffered' <= offset /\ rbytes' = (h + n) - RecordStart(file)
    <2>1. /\ RecordStart(file) \in Nat /\ offset \in Nat /\ buffered \in Nat
          /\ n \in Nat /\ h \in Nat
        BY <1>1, <1>3
    <2>2. /\ buffered' = buffered - n /\ buffered <= offset
          /\ rbytes' = (h - RecordStart(file)) + n
        BY <1>4, <1>5, <1>9
    <2>3. QED
        BY <2>1, <2>2
<1>12. events' = events + (IF r.outcome = "Emit" THEN 1 ELSE 0)
    BY <1>5, <1>7
<1>13. Front' = SubSeq(file', Here' + 1, RecordStart(file') + offset')
    BY <1>5, <1>9, <1>10 DEF e
<1> HIDE DEF r
<1>14. file' = file /\ Here' = h + n
    BY <1>5, <1>9
<1>15. Counted(file', Here', events')
    BY <1>8, <1>12, <1>14
<1>16. RecordStart(file') = RecordStart(file)
    BY <1>14
<1>17. rbytes' = Here' - RecordStart(file')
    BY <1>11, <1>14, <1>16
<1>18. QED
    BY <1>3, <1>4, <1>5, <1>11, <1>13, <1>15, <1>17 DEF MemoryCount

(* A slice of the records is fed: it continues the window. *)
LEMMA MemorySlice ==
    ASSUME BenchInv, MemoryCount, slurped = file, FeedSlice
    PROVE  MemoryCount'
<1> DEFINE a == RecordStart(file)
           h == Here
           n == IF chunk <= Len(records) - offset THEN chunk ELSE Len(records) - offset
           c == SubSeq(records, offset + 1, offset + n)
<1>1. /\ file \in Seq(Byte) /\ Len(file) \in Nat /\ a \in Nat /\ a <= Len(file)
      /\ a + offset \in Nat /\ a + offset <= Len(file)
      /\ h \in Nat /\ h <= a + offset /\ buffered = (a + offset) - h
      /\ buffered \in Nat /\ offset \in Nat
    BY MemoryType
<1>2. /\ AssemblerTypeOK /\ Front = SubSeq(file, h + 1, a + offset)
      /\ rbytes = h - a /\ Counted(file, h, events) /\ buffered <= offset
      /\ (chunk = 0 => offset = 0)
    BY DEF MemoryCount
<1>3. chunk \in Nat
    BY ChunkAssumption DEF BenchInv
<1>4. /\ append(c) /\ offset' = offset + n /\ UNCHANGED <<file, chunk, events, rbytes>>
      /\ ~(offset >= Len(records))
    BY DEF FeedSlice, Drained, source, prologue
<1>5. records = SubSeq(file, a + 1, Len(file)) /\ Len(records) = Len(file) - a
    <2>1. records = SubSeq(file, a + 1, Len(file))
        BY DEF records
    <2>2. Len(SubSeq(file, a + 1, Len(file))) = Len(file) - a
        BY <1>1, Slice
    <2>3. QED
        BY <2>1, <2>2
<1>6. /\ n \in Nat /\ offset + n \in Nat /\ offset <= offset + n
      /\ offset + n <= Len(file) - a /\ n <= chunk
    <2>1. Len(records) = Len(file) - a /\ ~(offset >= Len(records))
        BY <1>4, <1>5
    <2> HIDE DEF a
    <2>2. Len(records) - offset \in Nat /\ Len(records) \in Nat
        BY <1>1, <2>1
    <2>3. QED
        BY <1>1, <1>3, <2>1, <2>2
<1> HIDE DEF n, a, h
<1>7. c = SubSeq(file, a + offset + 1, a + offset + n)
    <2>1. c = SubSeq(SubSeq(file, a + 1, Len(file)), offset + 1, offset + n)
        BY <1>5
    <2>2. SubSeq(SubSeq(file, a + 1, Len(file)), offset + 1, offset + n)
              = SubSeq(file, a + offset + 1, a + (offset + n))
        BY <1>1, <1>6, SliceSlice
    <2>3. a + (offset + n) = a + offset + n
        BY <1>1, <1>6
    <2>4. QED
        BY <2>1, <2>2, <2>3
<1> HIDE DEF c
<1>8. a + offset + n \in Nat /\ a + offset <= a + offset + n /\ a + offset + n <= Len(file)
    BY <1>1, <1>6
<1>9. c \in Seq(Byte) /\ Len(c) = n
    <2>1. /\ c \in Seq(Byte)
          /\ Len(c) = IF a + offset <= a + offset + n THEN (a + offset + n) - (a + offset)
                      ELSE 0
        BY <1>1, <1>7, <1>8, Slice
    <2>2. QED
        BY <1>1, <1>6, <1>8, <2>1
<1>10. /\ AssemblerTypeOK' /\ buf' = Front \o c /\ read_pos' = 0
       /\ Len(buf') = buffered + n
    BY <1>2, <1>4, <1>9, AppendType
<1>11. buf' = SubSeq(file, h + 1, a + offset + n)
    <2>1. SubSeq(file, h + 1, a + offset) \o SubSeq(file, a + offset + 1, a + offset + n)
              = SubSeq(file, h + 1, a + offset + n)
        <3> DEFINE u == a + offset
                   v == a + offset + n
        <3>1. u \in Nat /\ v \in Nat /\ h <= u /\ u <= v /\ v <= Len(file)
            BY <1>1, <1>8
        <3> HIDE DEF u, v
        <3>2. SubSeq(file, h + 1, u) \o SubSeq(file, u + 1, v) = SubSeq(file, h + 1, v)
            BY <1>1, <3>1, SliceConcat
        <3>3. QED
            BY <3>2 DEF u, v
    <2>2. QED
        BY <1>2, <1>7, <1>10, <2>1
<1>12. Front' = buf'
    <2>1. buf' \in Seq(Byte)
        BY <1>10 DEF AssemblerTypeOK
    <2>2. Front' = SubSeq(buf', 0 + 1, Len(buf'))
        BY <1>10 DEF Front
    <2>3. QED
        BY <2>1, <2>2, SubSeqFull
<1>13. buffered' = buffered + n
    BY <1>1, <1>6, <1>10 DEF buffered
<1>14. Here' = h
    <2>1. Here' = a + (offset + n) - buffered' /\ h = a + offset - buffered
        BY <1>4 DEF Here, a, h
    <2>2. QED
        BY <1>1, <1>6, <1>13, <2>1
<1>15. /\ offset' \in 0..(Len(file) - a) /\ (chunk = 0 => offset' = 0)
       /\ buffered' <= offset' /\ a + offset' = a + offset + n
    BY <1>1, <1>2, <1>3, <1>4, <1>6, <1>13
<1>16. a = RecordStart(file)
    BY DEF a
<1>17. Front' = SubSeq(file, h + 1, a + offset')
    BY <1>11, <1>12, <1>15
<1>18. QED
    BY <1>2, <1>4, <1>10, <1>14, <1>15, <1>16, <1>17 DEF MemoryCount

(* A pass of Mode B. *)
LEMMA MemoryPass ==
    ASSUME BenchInv, PassInv, [BenchNext]_bvars, InPass("B")', ~faulted'
    PROVE  MemoryCount'
<1>a. file \in Seq(Byte) /\ Len(file) \in Nat /\ file' = file /\ chunk' = chunk
    BY BenchFile, BenchFileStays
<1>b. exit' = Running /\ at' = "pass" /\ mode' = "B"
    BY DEF InPass
<1>c. ~faulted
    BY FaultStep
<1>1. CASE StartPass
    <2>1. /\ buf' = <<>> /\ read_pos' = 0 /\ events' = 0 /\ offset' = 0 /\ rbytes' = 0
          /\ UNCHANGED <<call, passes>>
        BY <1>1 DEF StartPass, FreshCounts, args
    <2>2. mode = "B"
        BY <1>b, <2>1 DEF mode, Calls
    <2>3. call > 1 /\ CheckedFirst
        BY <2>2, FirstCallStreams DEF BenchInv
    <2>4. PrologueError(file) = "none"
        BY <2>3 DEF CheckedFirst
    <2>5. RecordStart(file) \in Nat /\ RecordStart(file) <= Len(file)
        BY <1>a, <2>4, PrologueGood
    <2>6. Counted(file, RecordStart(file), 0)
        BY <1>a, <2>4, CountedStart
    <2>7. Len(<<>>) = 0 /\ <<>> \in Seq(Byte)
        BY EmptySeq
    <2>8. buffered' = 0 /\ AssemblerTypeOK'
        BY <2>1, <2>7 DEF buffered, AssemblerTypeOK
    <2>9. Here' = RecordStart(file) + 0 - 0
        BY <1>a, <2>1, <2>8 DEF Here
    <2>10. /\ RecordStart(file) + 0 - 0 = RecordStart(file)
           /\ RecordStart(file) + 0 = RecordStart(file)
           /\ 0 = RecordStart(file) - RecordStart(file)
           /\ 0 \in 0..(Len(file) - RecordStart(file))
        BY <1>a, <2>5
    <2>11. Front' = <<>> /\ SubSeq(file, RecordStart(file) + 1, RecordStart(file)) = <<>>
        <3>1. /\ 0 + 1 > 0 /\ RecordStart(file) + 1 > RecordStart(file)
              /\ RecordStart(file) + 1 \in Nat
            BY <2>5
        <3>2. QED
            BY <1>a, <2>1, <2>5, <2>7, <3>1, SubSeqEmpty DEF Front
    <2>12. QED
        BY <1>a, <2>1, <2>6, <2>8, <2>9, <2>10, <2>11 DEF MemoryCount
<1>2. CASE ~StartPass
    <2>1. /\ exit = Running /\ at = "pass" /\ mode = "B"
          /\ \/ RunStream \/ RunMapped \/ CallNext \/ CountRecord \/ FeedSlice
             \/ UNCHANGED bvars
        BY <1>b, <1>2, InsidePass
    <2>2. MemoryCount /\ slurped = file
        BY <1>c, <2>1 DEF PassInv, NoFault, InPass
    <2>3. CASE UNCHANGED bvars
        <3>1. UNCHANGED <<file, chunk, buf, read_pos, offset, rbytes, events>>
            BY <2>3 DEF bvars, object, source, assembler, prologue, counts
        <3>2. buffered' = buffered /\ Front' = Front
            BY <3>1 DEF buffered, Front
        <3>3. Here' = Here
            BY <3>1, <3>2 DEF Here
        <3>4. QED
            BY <2>2, <3>1, <3>2, <3>3 DEF MemoryCount, AssemblerTypeOK
    <2>4. ~(RunStream \/ RunMapped \/ CallNext)
        BY <2>1 DEF RunStream, RunMapped, CallNext, InPass
    <2>5. QED
        BY <2>1, <2>2, <2>3, <2>4, MemoryRecord, MemorySlice
<1>3. QED
    BY <1>1, <1>2

LEMMA PassInitially == BenchInit => PassInv /\ TotalInv
<1> SUFFICES ASSUME BenchInit PROVE PassInv /\ TotalInv
    OBVIOUS
<1>1. /\ at = "main" /\ faulted = FALSE /\ call = 1 /\ pass = 0
      /\ exit = Running /\ parity = "none" /\ DOMAIN totals = {"A", "B", "C"}
    BY DEF BenchInit
<1>2. PassInv
    BY <1>1 DEF PassInv, InPass, NoFault
<1>3. QED
    BY <1>1, <1>2 DEF TotalInv, StreamTotal, MemoryTotal, MappedTotal, Verdict, Running

LEMMA PassNext == BenchInv /\ PassInv /\ [BenchNext]_bvars => PassInv'
<1> SUFFICES ASSUME BenchInv, PassInv, [BenchNext]_bvars PROVE PassInv'
    OBVIOUS
<1>1. (InPass("C") => MappedReader)' /\ (InPass("C") => LoopCount)'
    BY MappedPass
<1>2. (InPass("A") => LoopCount)'
    BY StreamLoop
<1>3. (InPass("B") /\ ~faulted => MemoryCount)'
    BY MemoryPass
<1>4. NoFault' /\ (at = "main" => ~faulted)'
    BY FaultStep
<1>5. QED
    BY <1>1, <1>2, <1>3, <1>4 DEF PassInv

-----------------------------------------------------------------------------
(* The end of a pass. *)

(* In Mode A: where the stream ended without an error, or at a corrupt     *)
(* frame, no whole record begins.                                          *)
LEMMA StreamPassEnds ==
    ASSUME BenchInv, PassInv, EndReaderPass, mode = "A", ~faulted
    PROVE  \/ events = EventCount(file)
           \/ chunk = 0 /\ RecordStart(file) # Len(file)
<1>a. InPass("A") /\ pc = "ready" /\ ret = "nullopt"
    BY DEF EndReaderPass, InPass
<1>b. ReaderInv /\ EndInv /\ DecodeInv /\ LoopCount /\ BadOnlyAtEnd
    BY <1>a DEF BenchInv, PassInv, NoFault, StreamReader
<1>c. /\ file \in Seq(Byte) /\ Len(file) \in Nat /\ fpos \in Nat /\ fpos <= Len(file)
      /\ buffered \in Nat
    BY <1>b, WindowType DEF ReaderInv
<1>d. buffered <= fpos /\ Front = SubSeq(file, Consumed + 1, fpos)
    BY <1>b DEF ReaderInv, StreamInv, Stitched
<1>e. Consumed \in Nat /\ Consumed <= fpos
    BY <1>c, <1>d DEF Consumed
<1>f. Position = Consumed
    BY <1>a DEF Position, Constructing
<1>1. Decoded(file, Consumed, out, stats)
    BY <1>a, <1>b, <1>f DEF DecodeInv, Returned
<1>2. events = Len(out)
    <2>1. events = Len(out) - 0 /\ Len(out) \in Nat
        BY <1>a, <1>b, LenProperties DEF LoopCount
    <2>2. QED
        BY <2>1
<1>3. ~IsWhole(file, Consumed) \/ (chunk = 0 /\ RecordStart(file) # Len(file))
    <2>1. CASE frame_one(Front).status = "Corrupt"
        BY <1>c, <1>d, <1>e, <2>1, NoRecordHere
    <2>2. CASE frame_one(Front).status = "NeedMore" /\ fpos = Len(file)
        BY <1>c, <1>d, <1>e, <2>2, NoRecordHere
    <2>3. CASE chunk = 0 /\ RecordStart(file) = Len(file)
        <3>1. RecordStart(file) <= Consumed
            BY <1>1, <1>c, BoundaryFacts DEF Decoded
        <3>2. ~(Consumed < Len(file))
            BY <1>c, <1>e, <2>3, <3>1
        <3>3. QED
            BY <3>2 DEF IsWhole
    <2>4. QED
        BY <1>a, <1>b, <2>1, <2>2, <2>3 DEF EndInv, SourceDry, BadOnlyAtEnd
<1>4. QED
    BY <1>1, <1>2, <1>3, <1>c, DecodedEnd

(* In Mode C. *)
LEMMA MappedPassEnds ==
    ASSUME BenchInv, PassInv, EndReaderPass, mode = "C"
    PROVE  events = EventCount(file)
<1>1. InPass("C") /\ pc = "ready" /\ ret = "nullopt"
    BY DEF EndReaderPass, InPass
<1>2. MappedReader /\ LoopCount /\ file \in Seq(Byte)
    BY <1>1, BenchFile DEF PassInv
<1>3. Decoded(file, cursor, out, stats) /\ ~IsWhole(file, cursor)
    BY <1>1, <1>2 DEF MappedReader
<1>4. events = Len(out) - 0 /\ Len(out) \in Nat
    BY <1>1, <1>2, LenProperties DEF LoopCount
<1>5. Len(out) = EventCount(file)
    BY <1>2, <1>3, DecodedEnd
<1>6. QED
    BY <1>4, <1>5

(* In Mode B: the slices are used up, or the frame is corrupt.  An empty   *)
(* slice never ends the pass, so without a chunk there were no records.    *)
LEMMA MemoryPassEnds ==
    ASSUME BenchInv, PassInv, EndInMemoryPass, ~faulted
    PROVE  /\ events = EventCount(file)
           /\ RecordStart(file) + rbytes \in Boundaries(file)
           /\ ~IsWhole(file, RecordStart(file) + rbytes)
           /\ chunk = 0 => RecordStart(file) = Len(file)
<1> DEFINE a == RecordStart(file)
           h == Here
           e == a + offset
<1>a. InPass("B") /\ (pull.status = "Corrupt" \/ (pull.status = "NeedMore" /\ Drained))
    BY DEF EndInMemoryPass
<1>b. MemoryCount /\ slurped = file
    BY <1>a DEF PassInv, NoFault, InPass
<1>1. /\ file \in Seq(Byte) /\ Len(file) \in Nat /\ a \in Nat /\ a <= Len(file)
      /\ e \in Nat /\ e <= Len(file) /\ h \in Nat /\ h <= e /\ a <= h
      /\ buffered = e - h /\ offset \in Nat
      /\ Front \in Seq(Byte) /\ Len(Front) = buffered
      /\ pull.status = "NeedMore" => frame_one(Front).status = "NeedMore"
      /\ pull.status = "Corrupt" => frame_one(Front).status = "Corrupt"
    BY <1>b, MemoryType
<1>2. /\ Front = SubSeq(file, h + 1, e) /\ rbytes = h - a
      /\ Counted(file, h, events) /\ (chunk = 0 => offset = 0)
    BY <1>b DEF MemoryCount
<1>3. Drained => e = Len(file)
    <2>1. Drained => offset >= Len(SubSeq(file, a + 1, Len(file)))
        BY <1>b DEF Drained, records
    <2>2. Len(SubSeq(file, a + 1, Len(file))) = Len(file) - a
        BY <1>1, Slice
    <2>3. e = a + offset
        OBVIOUS
    <2> HIDE DEF a, e
    <2>4. QED
        BY <1>1, <2>1, <2>2, <2>3
<1>4. a + rbytes = h
    BY <1>1, <1>2
<1> HIDE DEF h, e
<1>5. ~IsWhole(file, h)
    <2>1. CASE frame_one(Front).status = "Corrupt"
        BY <1>1, <1>2, <2>1, NoRecordHere
    <2>2. CASE frame_one(Front).status = "NeedMore" /\ e = Len(file)
        BY <1>1, <1>2, <2>2, NoRecordHere
    <2>3. QED
        BY <1>1, <1>3, <1>a, <2>1, <2>2
<1>6. ASSUME chunk = 0 PROVE a = Len(file)
    <2>1. offset = 0 /\ e = a + offset
        BY <1>2, <1>6 DEF e
    <2>2. e = a /\ Len(Front) = 0
        BY <1>1, <2>1
    <2>3. frame_one(Front).status # "Corrupt"
        <3>1. Front \in Seq(Byte) /\ ~(Len(Front) >= 2)
            BY <1>1, <2>2
        <3>2. QED
            BY <3>1, FrameOne
    <2>4. QED
        BY <1>1, <1>3, <1>a, <2>2, <2>3
<1>7. events = EventCount(file) /\ h \in Boundaries(file)
    <2>1. h \in Boundaries(file)
        BY <1>2 DEF Counted
    <2>2. QED
        BY <1>1, <1>2, <1>5, <2>1, CountedEnd
<1>8. QED
    BY <1>4, <1>5, <1>6, <1>7

-----------------------------------------------------------------------------
(* The totals, step by step. *)

(* The pass that ended belongs to the call that runs its mode. *)
LEMMA ModeOfCall ==
    ASSUME call \in Nat \ {0}
    PROVE  /\ call = 1 => mode = "A"
           /\ call = 2 => mode = "B"
           /\ call = 3 => mode = "C"
           /\ mode = "none" => call > 6
           /\ \A m : mode = m /\ m # "none" => m \in {"A", "B", "C"}
           /\ call \in 1..3 => Calls[call][2] = 2
<1>1. DOMAIN Calls = 1..6
    BY DEF Calls
<1>2. call \in 1..6 \/ call > 6
    OBVIOUS
<1>3. call \in 1..6 => call \in {1, 2, 3, 4, 5, 6}
    OBVIOUS
<1>4. /\ Calls[1] = <<"A", 2>> /\ Calls[2] = <<"B", 2>> /\ Calls[3] = <<"C", 2>>
      /\ Calls[4] = <<"A", passes>> /\ Calls[5] = <<"B", passes>>
      /\ Calls[6] = <<"C", passes>>
    BY DEF Calls
<1>5. call \in 1..6 => mode = Calls[call][1] /\ mode \in {"A", "B", "C"}
    BY <1>1, <1>3, <1>4 DEF mode
<1>6. call \notin 1..6 => mode = "none"
    BY <1>1 DEF mode
<1>7. call \in 1..3 => call \in {1, 2, 3} /\ call \in 1..6
    OBVIOUS
<1>8. QED
    BY <1>2, <1>4, <1>5, <1>6, <1>7

LEMMA TotalEndPass ==
    ASSUME BenchInv, PassInv, TotalInv, EndReaderPass \/ EndInMemoryPass
    PROVE  TotalInv'
<1> DEFINE new == [events |-> events, record_bytes |-> rbytes]
<1>a. /\ exit = Running /\ at = "pass" /\ mode \in {"A", "B", "C"}
      /\ totals' = [totals EXCEPT ![mode] = new]
      /\ pass' = pass + 1 /\ UNCHANGED <<call, parity, faulted, exit, file, chunk>>
    BY DEF EndReaderPass, EndInMemoryPass, EndPass, InPass, object, source, prologue
<1>b. call \in Nat \ {0} /\ pass \in Nat /\ pass' > 0
    BY <1>a DEF BenchInv
<1>c. /\ DOMAIN totals = {"A", "B", "C"}
      /\ StreamTotal /\ MemoryTotal /\ MappedTotal /\ Verdict
    BY DEF TotalInv
<1>d. parity # "OK" /\ exit # 0
    BY <1>a, <1>c DEF Verdict, Running
<1>1. /\ DOMAIN totals' = {"A", "B", "C"}
      /\ totals'[mode].events = events /\ totals'[mode].record_bytes = rbytes
      /\ \A m \in {"A", "B", "C"} : m # mode => totals'[m] = totals[m]
    BY <1>a, <1>c
<1>2. Verdict'
    BY <1>a, <1>d DEF Verdict
<1>3. CASE mode = "A"
    <2>1. EndReaderPass
        BY <1>3 DEF EndInMemoryPass, InPass
    <2>2. ~faulted => \/ events = EventCount(file)
                      \/ chunk = 0 /\ RecordStart(file) # Len(file)
        BY <1>3, <2>1, StreamPassEnds
    <2>3. StreamTotal'
        BY <1>1, <1>3, <1>a, <2>2 DEF StreamTotal
    <2>4. totals'["B"] = totals["B"] /\ totals'["C"] = totals["C"]
        BY <1>1, <1>3
    <2>5. call # 2 /\ call # 3
        BY <1>3, <1>b, ModeOfCall
    <2>6. MemoryTotal' /\ MappedTotal'
        BY <1>a, <1>c, <2>4, <2>5 DEF MemoryTotal, MappedTotal
    <2>7. QED
        BY <1>1, <1>2, <2>3, <2>6 DEF TotalInv
<1>4. CASE mode = "B"
    <2>1. EndInMemoryPass
        BY <1>4 DEF EndReaderPass, InPass
    <2>2. ~faulted => /\ events = EventCount(file)
                      /\ RecordStart(file) + rbytes \in Boundaries(file)
                      /\ ~IsWhole(file, RecordStart(file) + rbytes)
                      /\ chunk = 0 => RecordStart(file) = Len(file)
        BY <2>1, MemoryPassEnds
    <2>3. totals'["B"].events = events /\ totals'["B"].record_bytes = rbytes
        BY <1>1, <1>4
    <2>4. MemoryTotal'
        BY <1>a, <2>2, <2>3 DEF MemoryTotal
    <2>5. totals'["A"] = totals["A"] /\ totals'["C"] = totals["C"]
        BY <1>1, <1>4
    <2>6. call # 1 /\ call # 3
        BY <1>4, <1>b, ModeOfCall
    <2>7. call > 1
        BY <1>b, <2>6
    <2>8. StreamTotal' /\ MappedTotal'
        BY <1>a, <1>c, <2>5, <2>6, <2>7 DEF StreamTotal, MappedTotal
    <2>9. QED
        BY <1>1, <1>2, <2>4, <2>8 DEF TotalInv
<1>5. CASE mode = "C"
    <2>1. EndReaderPass
        BY <1>5 DEF EndInMemoryPass, InPass
    <2>2. events = EventCount(file)
        BY <1>5, <2>1, MappedPassEnds
    <2>3. MappedTotal'
        BY <1>1, <1>5, <1>a, <2>2 DEF MappedTotal
    <2>4. totals'["A"] = totals["A"] /\ totals'["B"] = totals["B"]
        BY <1>1, <1>5
    <2>5. call # 1 /\ call # 2
        BY <1>5, <1>b, ModeOfCall
    <2>6. call > 2 /\ call > 1
        BY <1>b, <2>5
    <2>7. StreamTotal' /\ MemoryTotal'
        BY <1>a, <1>c, <2>4, <2>5, <2>6 DEF StreamTotal, MemoryTotal
    <2>8. QED
        BY <1>1, <1>2, <2>3, <2>7 DEF TotalInv
<1>6. QED
    BY <1>3, <1>4, <1>5, <1>a

LEMMA TotalNext == BenchInv /\ PassInv /\ TotalInv /\ [BenchNext]_bvars => TotalInv'
<1> SUFFICES ASSUME BenchInv, PassInv, TotalInv, [BenchNext]_bvars PROVE TotalInv'
    OBVIOUS
<1>a. /\ call \in Nat \ {0} /\ pass \in Nat /\ file' = file /\ chunk' = chunk
      /\ ~faulted' => ~faulted
    BY BenchFileStays, FaultStep DEF BenchInv
<1>b. /\ DOMAIN totals = {"A", "B", "C"}
      /\ StreamTotal /\ MemoryTotal /\ MappedTotal /\ Verdict
    BY DEF TotalInv
<1>1. CASE EndReaderPass \/ EndInMemoryPass
    BY <1>1, TotalEndPass
<1>2. CASE EndCall
    <2>1. /\ exit = Running /\ pass = Calls[call][2] /\ call' = call + 1 /\ pass' = 0
          /\ UNCHANGED <<totals, parity, faulted, exit>>
        BY <1>2 DEF EndCall, verdict
    <2>2. call \in 1..3 => pass = 2
        BY <1>a, <2>1, ModeOfCall
    <2>3. /\ call' > 1 => call > 1 \/ pass > 0
          /\ call' > 2 => call > 2 \/ (call = 2 /\ pass > 0)
          /\ call' > 3 => call > 3 \/ (call = 3 /\ pass > 0)
          /\ ~(pass' > 0)
        BY <1>a, <2>1, <2>2
    <2>4. StreamTotal' /\ MemoryTotal' /\ MappedTotal'
        BY <1>a, <1>b, <2>1, <2>3 DEF StreamTotal, MemoryTotal, MappedTotal
    <2>5. Verdict'
        BY <1>b, <2>1 DEF Verdict, Running
    <2>6. QED
        BY <1>b, <2>1, <2>4, <2>5 DEF TotalInv
<1>3. CASE Report
    <2>1. /\ mode = "none" /\ exit' = 0 /\ UNCHANGED <<totals, call, pass, faulted>>
          /\ parity' = IF totals["A"].events # totals["C"].events THEN "FAIL" ELSE "OK"
        BY <1>3 DEF Report
    <2>2. call > 6
        BY <1>a, <2>1, ModeOfCall
    <2>3. Verdict'
        BY <2>1, <2>2 DEF Verdict, Running
    <2>4. StreamTotal' /\ MemoryTotal' /\ MappedTotal'
        BY <1>a, <1>b, <2>1 DEF StreamTotal, MemoryTotal, MappedTotal
    <2>5. QED
        BY <1>b, <2>1, <2>3, <2>4 DEF TotalInv
<1>4. CASE ~(EndReaderPass \/ EndInMemoryPass \/ EndCall \/ Report)
    <2>1. /\ UNCHANGED <<totals, call, pass, parity>>
          /\ exit' = exit \/ (exit = Running /\ exit' \in {1, 2})
        BY <1>4
        DEF BenchNext, Main, Exited, bvars, Usage, SlurpFails, slurp, RejectStream,
            StartPass, RunStream, RunMapped, CallNext, Catch, CountRecord,
            FeedSlice, Exit, verdict, InPass
    <2>2. StreamTotal' /\ MemoryTotal' /\ MappedTotal'
        BY <1>a, <1>b, <2>1 DEF StreamTotal, MemoryTotal, MappedTotal
    <2>3. Verdict'
        BY <1>b, <2>1 DEF Verdict, Running
    <2>4. QED
        BY <1>b, <2>1, <2>2, <2>3 DEF TotalInv
<1>5. QED
    BY <1>1, <1>2, <1>3, <1>4

LEMMA BenchInvariant == BenchSpec => [](BenchInv /\ PassInv /\ TotalInv)
BY BenchInitially, PassInitially, BenchNextStep, PassNext, TotalNext, PTL
DEF BenchSpec

(* The parity gate under read errors: OK means that Mode A counted as many *)
(* Events as Mode C, which reads the mapping and so counts all.            *)
THEOREM ParityGateIsSound == BenchSpec => []GateCatchesLoss
<1>1. BenchInv /\ PassInv /\ TotalInv => GateCatchesLoss
    <2> SUFFICES ASSUME BenchInv, TotalInv, parity = "OK"
                 PROVE  totals["A"].events = EventCount(file)
        BY DEF GateCatchesLoss
    <2>1. call > 6 /\ totals["A"].events = totals["C"].events
        BY DEF TotalInv, Verdict
    <2>2. totals["C"].events = EventCount(file)
        <3>1. call > 3
            BY <2>1 DEF BenchInv
        <3>2. QED
            BY <3>1 DEF TotalInv, MappedTotal
    <2>3. QED
        BY <2>1, <2>2
<1>2. QED
    BY <1>1, BenchInvariant, PTL

(* The three modes agree with the file, and so with each other, whenever   *)
(* main() comes to its report and no read failed on the way: Modes A and C *)
(* through a reader, Mode B through slices of the slurped bytes.           *)
THEOREM ThreeModesAgree == BenchSpec => []ModesAgree
<1>1. BenchInv /\ PassInv /\ TotalInv => ModesAgree
    <2> SUFFICES ASSUME BenchInv, TotalInv, exit = 0, ~faulted PROVE ModesAgree
        BY DEF ModesAgree
    <2> DEFINE R == RecordsBefore(file, Len(file))
               ends == {RecordStart(file)} \cup {p + RecordLen(file, p) : p \in R}
               e == RecordStart(file) + totals["B"].record_bytes
    <2>1. /\ call \in Nat \ {0} /\ call > 6
          /\ parity = IF totals["A"].events # totals["C"].events THEN "FAIL" ELSE "OK"
        BY DEF BenchInv, TotalInv, Verdict
    <2>2. call > 1 /\ call > 2 /\ call > 3
        BY <2>1
    <2>3. file \in Seq(Byte) /\ PrologueError(file) = "none"
        BY <2>2, BenchFile DEF BenchInv, CheckedFirst
    <2>4. /\ totals["B"].events = EventCount(file)
          /\ e \in Boundaries(file) /\ ~IsWhole(file, e)
          /\ chunk = 0 => RecordStart(file) = Len(file)
        BY <2>2 DEF TotalInv, MemoryTotal
    <2>5. totals["C"].events = EventCount(file)
        BY <2>2 DEF TotalInv, MappedTotal
    <2>6. totals["A"].events = EventCount(file)
        BY <2>2, <2>4 DEF TotalInv, StreamTotal
    <2>7. parity = "OK" /\ \A m \in {"A", "B", "C"} : totals[m].events = EventCount(file)
        BY <2>1, <2>4, <2>5, <2>6
    <2> HIDE DEF e
    <2>8. Boundaries(file) \subseteq Int /\ ends \subseteq Boundaries(file)
        <3>1. Boundaries(file) \subseteq 0..Len(file) /\ RecordStart(file) \in Boundaries(file)
            BY <2>3, BoundaryFacts
        <3>2. \A p \in R : p + RecordLen(file, p) \in Boundaries(file)
            BY <2>3, BoundaryStep DEF RecordsBefore
        <3> HIDE DEF R
        <3>3. QED
            BY <3>1, <3>2
    <2>9. e \in ends /\ \A p \in ends : p <= e
        <3>1. \A p \in Boundaries(file) : p <= e
            BY <2>3, <2>4, LastBoundary
        <3>2. e = RecordStart(file) \/ \E q \in R : e = q + RecordLen(file, q)
            BY <2>3, <2>4, BoundariesAreEnds
        <3> HIDE DEF R
        <3>3. QED
            BY <2>8, <3>1, <3>2
    <2>10. e = CHOOSE x \in ends : \A p \in ends : p <= x
        <3> HIDE DEF ends
        <3>1. ASSUME NEW x \in ends, \A p \in ends : p <= x PROVE x = e
            BY <2>8, <2>9, <3>1
        <3>2. QED
            BY <2>9, <3>1
    <2>11. QED
        BY <2>7, <2>10 DEF ModesAgree, e
<1>2. QED
    BY <1>1, BenchInvariant, PTL

=============================================================================
