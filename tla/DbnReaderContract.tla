------------------------- MODULE DbnReaderContract -------------------------
(***************************************************************************)
(* What the consumer of a DbnReader relies on, for every file, chunk size  *)
(* and layout: the counters, the end of the stream, and the contract that  *)
(* DbnReader shares with MmapDbnReader.  Two theorems need more of the     *)
(* source than the others and say so: without ReadErrors = FALSE a failed  *)
(* read passes for the end of the file, and so does every read of a reader *)
(* whose chunk_size is zero.                                               *)
(***************************************************************************)
EXTENDS DbnReaderProofs

(* The invariants of DbnReaderProofs, together. *)
ReaderInv == TypeInv /\ StreamInv /\ PrologueInv

LEMMA ReaderInvNext == ReaderInv /\ [Next]_vars => ReaderInv' /\ [MovesByRecords]_vars
BY TypeNext, StreamNext, PrologueNext, MovesNext DEF ReaderInv

LEMMA ReaderInvariant == Spec => []ReaderInv
<1>1. Init => ReaderInv
    BY TypeInit, StreamInit, PrologueInit DEF ReaderInv
<1>2. QED
    BY <1>1, ReaderInvNext, PTL DEF Spec

-----------------------------------------------------------------------------
(* The counters.  StatsBalance is not inductive: a record is counted one   *)
(* step after the cursor moved past it, so the bound has to leave the      *)
(* record in flight out, and it has to be known that this record is not    *)
(* empty and that nothing was counted before the first call.               *)

InFlight == IF pc = "route" THEN view.len ELSE 0

CountInv ==
    /\ stats.records =
          stats.events + stats.skipped_non_mbo + stats.skipped_malformed
    /\ stats.events = Len(out)
    /\ 4 * stats.records <= Consumed - InFlight
    /\ pc = "route" => view.len >= 4
    /\ pc \notin Returned => stats.records = 0

(* The numbers CountInv is about. *)
LEMMA CountType ==
    ASSUME ReaderInv
    PROVE  /\ stats \in IngestStats
           /\ stats.records \in Nat /\ stats.events \in Nat
           /\ stats.skipped_non_mbo \in Nat /\ stats.skipped_malformed \in Nat
           /\ Consumed \in Nat /\ view.len \in Nat /\ view.at \in Nat
           /\ InFlight \in Nat
           /\ out \in Seq(Event)
<1>1. /\ stats \in IngestStats /\ out \in Seq(Event)
      /\ view \in [at : Nat, len : 0..MaxRecordSize]
    BY DEF ReaderInv, TypeInv, TypeOK
<1>2. view.len \in Nat /\ view.at \in Nat
    <2>1. view \in [at : Nat, len : 0..MaxRecordSize]
        BY <1>1
    <2>2. QED
        BY <2>1 DEF MaxRecordSize
<1>3. Consumed \in Nat
    <2>1. fpos \in Nat /\ buffered \in Nat
        BY WindowType DEF ReaderInv
    <2>2. buffered <= fpos
        BY DEF ReaderInv, StreamInv, Stitched
    <2>3. QED
        BY <2>1, <2>2 DEF Consumed
<1>4. QED
    BY <1>1, <1>2, <1>3 DEF IngestStats, InFlight

Numbers == Consumed \in Nat /\ view.len \in Nat

LEMMA NumbersType == ReaderInv => Numbers
BY CountType DEF Numbers

LEMMA CountInit == Init => CountInv
<1> SUFFICES ASSUME Init PROVE CountInv
    OBVIOUS
<1>1. ReaderInv
    BY TypeInit, StreamInit, PrologueInit DEF ReaderInv
<1>2. Consumed \in Nat
    BY <1>1, CountType
<1>3. /\ stats.records = 0 /\ stats.events = 0 /\ stats.skipped_non_mbo = 0
      /\ stats.skipped_malformed = 0 /\ pc = "open" /\ Len(out) = 0
    BY EmptySeq DEF Init, NoStats
<1>4. QED
    BY <1>2, <1>3 DEF CountInv, InFlight, Returned

(* The record that is about to be routed is made of bytes. *)
LEMMA RouteBytes ==
    ASSUME ReaderInv, pc = "route"
    PROVE  Bytes(view) \in Seq(Byte)
<1>1. view.at + view.len = read_pos /\ view.at \in Nat /\ view.len \in Nat
    BY CountType DEF ReaderInv, TypeInv
<1>2. read_pos <= Len(buf) /\ AssemblerTypeOK
    BY WindowType DEF ReaderInv
<1>3. QED
    BY <1>1, <1>2, BytesType

(* Route counts the record in flight, under one heading, and hands an      *)
(* Event on exactly when it counts one.                                    *)
LEMMA RouteCounts ==
    ASSUME ReaderInv, CountInv, Route
    PROVE  CountInv'
<1> DEFINE routed == route_record(Bytes(view))
<1>a. /\ stats \in IngestStats
      /\ stats.records \in Nat /\ stats.events \in Nat
      /\ stats.skipped_non_mbo \in Nat /\ stats.skipped_malformed \in Nat
      /\ Consumed \in Nat /\ view.len \in Nat /\ view.at \in Nat
      /\ out \in Seq(Event)
    BY CountType
<1>1. Bytes(view) \in Seq(Byte)
    BY RouteBytes DEF Route
<1>2. /\ routed.outcome \in {"Emit", "SkipNonMbo", "SkipMalformed"}
      /\ routed.outcome = "Emit" => routed.event \in Event
    BY <1>1, RouteRecord
<1> HIDE DEF routed
<1>3. /\ pc = "route" /\ pc' \in {"ready", "pull"}
      /\ stats' = tally(stats, routed)
      /\ out' = IF routed.outcome = "Emit" THEN Append(out, routed.event) ELSE out
      /\ UNCHANGED <<fpos, buf, read_pos, view>>
    BY DEF Route, Return, routed, source, assembler
<1>4. /\ stats'.records = stats.records + 1
      /\ stats'.events = stats.events + (IF routed.outcome = "Emit" THEN 1 ELSE 0)
      /\ stats'.skipped_non_mbo =
            stats.skipped_non_mbo + (IF routed.outcome = "SkipNonMbo" THEN 1 ELSE 0)
      /\ stats'.skipped_malformed =
            stats.skipped_malformed
            + (IF routed.outcome = "SkipMalformed" THEN 1 ELSE 0)
    <2>1. /\ tally(stats, routed).records = stats.records + 1
          /\ tally(stats, routed).events =
                stats.events + (IF routed.outcome = "Emit" THEN 1 ELSE 0)
          /\ tally(stats, routed).skipped_non_mbo =
                stats.skipped_non_mbo
                + (IF routed.outcome = "SkipNonMbo" THEN 1 ELSE 0)
          /\ tally(stats, routed).skipped_malformed =
                stats.skipped_malformed
                + (IF routed.outcome = "SkipMalformed" THEN 1 ELSE 0)
        BY <1>a, <1>2, Tally
    <2>2. QED
        BY <1>3, <2>1
<1>5. stats'.records =
          stats'.events + stats'.skipped_non_mbo + stats'.skipped_malformed
    <2>1. stats.records =
              stats.events + stats.skipped_non_mbo + stats.skipped_malformed
        BY DEF CountInv
    <2>2. QED
        BY <1>a, <1>2, <1>3, <2>1, TallyBalance
<1>6. Len(out') = Len(out) + (IF routed.outcome = "Emit" THEN 1 ELSE 0)
    <2>1. Len(out) \in Nat
        BY <1>a, LenProperties
    <2>2. routed.outcome = "Emit" => Len(Append(out, routed.event)) = Len(out) + 1
        BY <1>a, <1>2, AppendProperties
    <2>3. QED
        BY <1>3, <2>1, <2>2
<1>7. Consumed' = Consumed /\ 4 * stats'.records <= Consumed
    <2>1. Consumed' = Consumed
        BY <1>3 DEF Consumed, buffered
    <2>2. 4 * stats.records <= Consumed - view.len /\ view.len >= 4
        BY <1>3 DEF CountInv, InFlight
    <2>3. QED
        BY <1>a, <1>4, <2>1, <2>2
<1>8. pc' # "route" /\ pc' \in Returned /\ InFlight' = 0
    BY <1>3 DEF InFlight, Returned
<1>9. stats'.events = Len(out')
    BY <1>4, <1>6 DEF CountInv
<1>10. 4 * stats'.records <= Consumed' - InFlight'
    BY <1>a, <1>7, <1>8
<1>11. QED
    BY <1>5, <1>8, <1>9, <1>10 DEF CountInv

LEMMA CountNext == ReaderInv /\ CountInv /\ [Next]_vars => CountInv'
<1> SUFFICES ASSUME ReaderInv, CountInv, [Next]_vars PROVE CountInv'
    OBVIOUS
<1>a. /\ stats.records \in Nat /\ Consumed \in Nat /\ view.len \in Nat
    BY CountType
<1>b. ReaderInv' /\ [MovesByRecords]_vars
    BY ReaderInvNext
<1>c. Consumed' \in Nat /\ view'.len \in Nat
    <2>1. Numbers'
        BY <1>b, NumbersType, PTL
    <2>2. QED
        BY <2>1 DEF Numbers
<1>1. CASE Route
    BY <1>1, RouteCounts
<1>2. CASE UNCHANGED vars
    <2>1. UNCHANGED <<stats, out, pc, view, fpos, buf, read_pos>>
        BY <1>2 DEF vars, source, assembler, result
    <2>2. QED
        BY <2>1 DEF CountInv, InFlight, Consumed, buffered
<1>3. CASE OpenFails \/ Construct \/ Call \/ PullRecord \/ PullNeedMore
           \/ PullCorrupt \/ Refill
    <2>0. CASE UNCHANGED vars
        BY <1>2, <2>0
    <2> SUFFICES ASSUME MovesByRecords PROVE CountInv'
        BY <1>b, <2>0
    <2>1. UNCHANGED <<stats, out>> /\ pc # "route"
        BY <1>3
        DEF OpenFails, Construct, Call, PullRecord, PullNeedMore, PullCorrupt,
            Refill, Open, ReadFully, ReadFullyEof, RejectMagic, RejectVersion,
            AcceptHeader, NextMetadataPiece, MetadataPieceRead, Constructed,
            Throw, Return, result
    <2>2. pc \notin Returned => pc' \notin Returned \/ pc' = "ready"
        BY <1>3
        DEF OpenFails, Construct, Call, PullRecord, PullNeedMore, PullCorrupt,
            Refill, Open, ReadFully, ReadFullyEof, RejectMagic, RejectVersion,
            AcceptHeader, NextMetadataPiece, MetadataPieceRead, Constructed,
            Throw, Return, Returned
    <2>3. pc \in Returned => pc' \in Returned
        BY <1>3
        DEF OpenFails, Construct, Call, PullRecord, PullNeedMore, PullCorrupt,
            Refill, Open, ReadFully, ReadFullyEof, RejectMagic, RejectVersion,
            AcceptHeader, NextMetadataPiece, MetadataPieceRead, Constructed,
            Throw, Return, Returned
    <2>4. pc' = "route" => PullRecord
        BY <1>3
        DEF OpenFails, Construct, Call, PullNeedMore, PullCorrupt,
            Refill, Open, ReadFully, ReadFullyEof, RejectMagic, RejectVersion,
            AcceptHeader, NextMetadataPiece, MetadataPieceRead, Constructed,
            Throw, Return
    <2>5. pc' = "route" => view'.len >= 4
        <3> SUFFICES ASSUME PullRecord PROVE view'.len >= 4
            BY <2>4
        <3>1. Front \in Seq(Byte)
            BY WindowType DEF ReaderInv
        <3>2. frame_one(Front).status = "Ok"
            BY <3>1, FrameOne DEF PullRecord, pull, PullStatus
        <3>3. QED
            BY <3>1, <3>2, FrameOne DEF PullRecord, pull
    <2>6. 4 * stats.records <= Consumed' - InFlight'
        <3>1. CASE pc \in Returned
            <4>1. Consumed' = Consumed + (IF pc' = "route" THEN view'.len ELSE 0)
                BY <3>1 DEF MovesByRecords
            <4>2. 4 * stats.records <= Consumed
                BY <1>a, <2>1 DEF CountInv, InFlight
            <4>3. QED
                BY <1>a, <1>c, <4>1, <4>2 DEF InFlight
        <3>2. CASE pc \notin Returned
            <4>1. stats.records = 0 /\ pc' # "route"
                BY <2>2, <3>2 DEF CountInv, Returned
            <4>2. InFlight' = 0
                BY <4>1 DEF InFlight
            <4>3. 4 * stats.records = 0
                BY <4>1
            <4>4. 0 <= Consumed' - 0
                <5>1. Consumed' \in Nat
                    BY <1>c
                <5>2. \A c \in Nat : 0 <= c - 0
                    OBVIOUS
                <5>3. QED
                    BY <5>1, <5>2
            <4>5. QED
                BY <4>2, <4>3, <4>4
        <3>3. QED
            BY <3>1, <3>2
    <2>7. QED
        BY <2>1, <2>3, <2>5, <2>6 DEF CountInv
<1>4. QED
    BY <1>1, <1>2, <1>3 DEF Next, Step, Gone

LEMMA CountInvariant == Spec => []CountInv
BY ReaderInvariant, CountInit, CountNext, PTL DEF Spec

(* stats() accounts for every record framed exactly once and for every     *)
(* Event returned, and cannot wrap: four bytes of the file stand behind    *)
(* each count (IngestStats, route_record and next()).                      *)
THEOREM CountersBalance == Spec => []StatsBalance
<1>1. ReaderInv /\ CountInv => StatsBalance
    <2> SUFFICES ASSUME ReaderInv, CountInv PROVE 4 * stats.records <= Consumed
        BY DEF CountInv, StatsBalance
    <2>1. QED
        BY CountType DEF CountInv
<1>2. QED
    BY <1>1, ReaderInvariant, CountInvariant, PTL

-----------------------------------------------------------------------------
(* The end of the stream.  What makes nullopt final is not a flag: the     *)
(* next call starts over and finds the same bytes at the front and a       *)
(* source that delivers nothing.                                           *)

SourceDry == ~good \/ chunk = 0 \/ fpos = Len(file)

EndInv ==
    /\ failed => ret = "nullopt"
    /\ ret = "nullopt" =>
          \/ /\ failed /\ pc \in {"ready", "pull"}
             /\ frame_one(Front).status = "Corrupt"
          \/ /\ ~failed /\ pc \in {"ready", "pull", "refill"}
             /\ frame_one(Front).status = "NeedMore" /\ SourceDry

(* A dry source delivers nothing, and only then does a read come back      *)
(* empty-handed.                                                           *)
LEMMA DryRead ==
    ASSUME ReaderInv, NEW o \in ReadOutcomes(chunk)
    PROVE  /\ SourceDry => o.n = 0
           /\ o.n = 0 => ~o.good \/ chunk = 0
<1>1. /\ chunk \in Nat /\ fpos \in Nat /\ Len(file) \in Nat /\ fpos <= Len(file)
    BY WindowType DEF ReaderInv
<1>2. /\ Available(chunk) \in Nat
      /\ chunk = 0 \/ fpos = Len(file) => Available(chunk) = 0
    BY <1>1 DEF Available
<1>3. CASE ~good
    <2>1. o = [n |-> 0, good |-> FALSE]
        BY <1>3 DEF ReadOutcomes
    <2>2. QED
        BY <2>1
<1>4. CASE good
    <2>1. \/ o = [n |-> Available(chunk), good |-> Available(chunk) = chunk]
          \/ o \in [n : 1..Available(chunk), good : {TRUE}]
          \/ o \in [n : 0..Available(chunk), good : {FALSE}]
        BY <1>4 DEF ReadOutcomes
    <2>2. SourceDry => Available(chunk) = 0
        BY <1>2, <1>4 DEF SourceDry
    <2>3. CASE o = [n |-> Available(chunk), good |-> Available(chunk) = chunk]
        <3>1. o.n = Available(chunk) /\ o.good = (Available(chunk) = chunk)
            BY <2>3
        <3>2. o.n = 0 => (o.good => chunk = 0)
            BY <3>1
        <3>3. QED
            BY <2>2, <3>1, <3>2
    <2>4. CASE o \in [n : 1..Available(chunk), good : {TRUE}]
        <3>1. o.n \in 1..Available(chunk)
            BY <2>4
        <3>2. QED
            BY <1>2, <2>2, <3>1
    <2>5. CASE o \in [n : 0..Available(chunk), good : {FALSE}]
        <3>1. o.n \in 0..Available(chunk) /\ o.good = FALSE
            BY <2>5
        <3>2. SourceDry => o.n = 0
            BY <1>2, <2>2, <3>1
        <3>3. QED
            BY <3>1, <3>2
    <2>6. QED
        BY <2>1, <2>3, <2>4, <2>5
<1>5. QED
    BY <1>3, <1>4

(* A pull that frames no record leaves the assembler as it was. *)
LEMMA PullNothing ==
    ASSUME ReaderInv, next, frame_one(Front).status # "Ok"
    PROVE  UNCHANGED <<buf, read_pos>> /\ Front' = Front
<1>1. Front \in Seq(Byte) /\ read_pos \in Nat
    BY WindowType DEF ReaderInv
<1>2. UNCHANGED <<buf, read_pos>>
    BY <1>1, FrameOne DEF next
<1>3. QED
    BY <1>2 DEF Front

(* What next() reports of the front of the assembler. *)
LEMMA PullStatuses ==
    ASSUME ReaderInv
    PROVE  /\ pull.status = "Record" => frame_one(Front).status = "Ok"
           /\ pull.status = "NeedMore" => frame_one(Front).status = "NeedMore"
           /\ pull.status = "Corrupt" => frame_one(Front).status = "Corrupt"
<1>1. Front \in Seq(Byte)
    BY WindowType DEF ReaderInv
<1>2. QED
    BY <1>1, FrameOne DEF pull, PullStatus

(* The last refill: it finds no byte, or brings some and returns nothing.  *)
LEMMA RefillEnds ==
    ASSUME ReaderInv, EndInv, Refill
    PROVE  /\ EndInv'
           /\ ret = "nullopt" => UNCHANGED <<ret, fpos>>
<1>1. PICK o \in ReadOutcomes(chunk) :
          /\ read(chunk, o)
          /\ IF o.n = 0
             THEN Return("nullopt") /\ UNCHANGED assembler
             ELSE append(Delivered(o)) /\ pc' = "pull" /\ UNCHANGED ret
    BY DEF Refill
<1>2. /\ pc = "refill" /\ UNCHANGED <<failed, chunk, file>>
      /\ fpos' = fpos + o.n /\ good' = o.good
    BY <1>1 DEF Refill, read, prologue
<1>3. ~failed
    BY <1>2 DEF EndInv
<1>4. ret = "nullopt" => o.n = 0
    BY <1>2, <1>3, DryRead DEF EndInv
<1>5. CASE o.n = 0
    <2>1. ret' = "nullopt" /\ pc' = "ready" /\ Front' = Front
        BY <1>1, <1>5 DEF Return, assembler, Front
    <2>2. frame_one(Front).status = "NeedMore"
        BY <1>2 DEF ReaderInv, StreamInv, RefillWhenDry
    <2>3. SourceDry'
        BY <1>2, <1>5, DryRead DEF SourceDry
    <2>4. fpos' = fpos
        <3>1. fpos \in Nat
            BY WindowType DEF ReaderInv
        <3>2. QED
            BY <1>2, <1>5, <3>1
    <2>5. QED
        BY <1>2, <1>3, <2>1, <2>2, <2>3, <2>4 DEF EndInv
<1>6. CASE o.n # 0
    <2>1. ret # "nullopt" /\ ret' = ret
        BY <1>1, <1>4, <1>6
    <2>2. QED
        BY <1>2, <1>3, <2>1 DEF EndInv
<1>7. QED
    BY <1>5, <1>6

EndStep == ret = "nullopt" => UNCHANGED <<ret, out, stats, failed, file, fpos>>

LEMMA EndNext ==
    ReaderInv /\ EndInv /\ [Next]_vars => EndInv' /\ [EndStep]_vars
<1> SUFFICES ASSUME ReaderInv, EndInv, [Next]_vars
             PROVE  EndInv' /\ (EndStep \/ UNCHANGED vars)
    OBVIOUS
<1>1. CASE OpenFails \/ Construct
    <2>1. pc \notin {"ready", "pull", "refill"} /\ UNCHANGED <<failed, ret>>
        BY <1>1
        DEF OpenFails, Construct, Open, ReadFully, ReadFullyEof, RejectMagic,
            RejectVersion, AcceptHeader, NextMetadataPiece, MetadataPieceRead,
            Constructed, Throw, result
    <2>2. ret # "nullopt"
        BY <2>1 DEF EndInv
    <2>3. QED
        BY <2>1, <2>2 DEF EndInv, EndStep
<1>2. CASE Call
    <2>1. /\ pc = "ready" /\ pc' = "pull"
          /\ UNCHANGED <<failed, ret, out, stats, file, fpos, good, chunk, buf,
                         read_pos>>
        BY <1>2 DEF Call, source, assembler, prologue, result
    <2>2. Front' = Front /\ SourceDry' = SourceDry
        BY <2>1 DEF Front, SourceDry
    <2>3. QED
        BY <2>1, <2>2 DEF EndInv, EndStep
<1>3. CASE PullRecord
    <2>1. frame_one(Front).status = "Ok" /\ UNCHANGED <<failed, ret>>
        BY <1>3, PullStatuses DEF PullRecord, result
    <2>2. ret # "nullopt"
        BY <2>1 DEF EndInv
    <2>3. QED
        BY <2>1, <2>2 DEF EndInv, EndStep
<1>4. CASE PullNeedMore
    <2>1. /\ frame_one(Front).status = "NeedMore" /\ pc' = "refill"
          /\ UNCHANGED <<failed, ret, out, stats, file, fpos, good, chunk>>
        BY <1>4, PullStatuses DEF PullNeedMore, source, prologue, result
    <2>2. Front' = Front /\ SourceDry' = SourceDry
        BY <1>4, <2>1, PullNothing DEF PullNeedMore, SourceDry
    <2>3. QED
        BY <2>1, <2>2 DEF EndInv, EndStep
<1>5. CASE PullCorrupt
    <2>1. /\ frame_one(Front).status = "Corrupt" /\ pc' = "ready"
          /\ failed' = TRUE /\ ret' = "nullopt"
          /\ UNCHANGED <<out, stats, file, fpos>>
        BY <1>5, PullStatuses DEF PullCorrupt, Return, source
    <2>2. Front' = Front
        BY <1>5, <2>1, PullNothing DEF PullCorrupt
    <2>3. ret = "nullopt" => failed
        BY <2>1 DEF EndInv
    <2>4. failed \in BOOLEAN
        BY DEF ReaderInv, TypeInv, TypeOK
    <2>5. QED
        BY <2>1, <2>2, <2>3, <2>4 DEF EndInv, EndStep
<1>6. CASE Route
    <2>1. pc = "route" /\ failed' = failed /\ ret' \in {ret, "event"}
        BY <1>6 DEF Route, Return
    <2>2. ret # "nullopt" /\ ~failed
        BY <2>1 DEF EndInv
    <2>3. QED
        BY <2>1, <2>2 DEF EndInv, EndStep
<1>7. CASE Refill
    <2>1. UNCHANGED <<out, stats, failed, file>>
        BY <1>7 DEF Refill, read
    <2>2. QED
        BY <1>7, <2>1, RefillEnds DEF EndStep
<1>8. CASE UNCHANGED vars
    <2>1. UNCHANGED <<failed, ret, pc, file, fpos, good, chunk, buf, read_pos>>
        BY <1>8 DEF vars, source, assembler, prologue, result
    <2>2. Front' = Front /\ SourceDry' = SourceDry
        BY <2>1 DEF Front, SourceDry
    <2>3. QED
        BY <1>8, <2>1, <2>2 DEF EndInv
<1>9. QED
    BY <1>1, <1>2, <1>3, <1>4, <1>5, <1>6, <1>7, <1>8 DEF Next, Step, Gone

LEMMA EndInvariant == Spec => []EndInv
<1>1. Init => EndInv
    BY DEF Init, EndInv
<1>2. QED
    BY <1>1, ReaderInvariant, EndNext, PTL DEF Spec

(* Calling next() again after nullopt is harmless and useless: nothing is  *)
(* returned, counted or read, with short reads, with I/O errors and with   *)
(* an empty scratch buffer too.                                            *)
THEOREM NulloptIsFinal == Spec => EndIsFinal
<1>1. Spec => [][EndStep]_vars
    BY ReaderInvariant, EndInvariant, EndNext, PTL DEF Spec
<1>2. QED
    BY <1>1 DEF EndIsFinal, EndStep

-----------------------------------------------------------------------------
(* A clean end.  With no I/O error the stream turns bad only at the end of *)
(* the file, so a read that brings nothing was asked at the end.           *)

BadOnlyAtEnd == ~good => fpos = Len(file)

(* One read of a source without I/O errors. *)
LEMMA CleanRead ==
    ASSUME ReadErrors = FALSE, SourceTypeOK, BadOnlyAtEnd,
           NEW w \in Nat, NEW o, read(w, o)
    PROVE  /\ BadOnlyAtEnd'
           /\ o.n = 0 /\ w # 0 => fpos = Len(file)
<1>1. /\ Len(file) \in Nat /\ fpos \in Nat /\ fpos <= Len(file) /\ good \in BOOLEAN
    BY LenProperties DEF SourceTypeOK
<1>2. /\ o \in ReadOutcomes(w) /\ fpos' = fpos + o.n /\ good' = o.good
      /\ file' = file
    BY DEF read
<1>3. CASE ~good
    <2>1. o.n = 0 /\ o.good = FALSE /\ fpos = Len(file)
        BY <1>2, <1>3 DEF ReadOutcomes, BadOnlyAtEnd
    <2>2. QED
        BY <1>1, <1>2, <2>1 DEF BadOnlyAtEnd
<1>4. CASE good
    <2>1. \/ o = [n |-> Available(w), good |-> Available(w) = w]
          \/ o \in [n : 1..Available(w), good : {TRUE}]
        BY <1>2, <1>4 DEF ReadOutcomes
    <2>2. CASE o = [n |-> Available(w), good |-> Available(w) = w]
        <3>1. o.n = Available(w) /\ o.good = (Available(w) = w)
            BY <2>2
        <3>2. Available(w) # w => Available(w) = Len(file) - fpos
            BY DEF Available
        <3>3. ~good' => fpos' = Len(file)
            <4>1. ~good' => o.n = Len(file) - fpos
                BY <1>2, <3>1, <3>2
            <4>2. fpos + (Len(file) - fpos) = Len(file)
                BY <1>1
            <4>3. QED
                BY <1>2, <4>1, <4>2
        <3>4. o.n = 0 /\ w # 0 => fpos = Len(file)
            BY <1>1, <3>1, <3>2
        <3>5. QED
            BY <1>2, <3>3, <3>4 DEF BadOnlyAtEnd
    <2>3. CASE o \in [n : 1..Available(w), good : {TRUE}]
        <3>1. o.n \in 1..Available(w) /\ o.good = TRUE
            BY <2>3
        <3>2. Available(w) \in Int
            BY <1>1 DEF Available
        <3>3. o.n # 0
            BY <3>1, <3>2
        <3>4. QED
            BY <1>2, <3>1, <3>3 DEF BadOnlyAtEnd
    <2>4. QED
        BY <2>1, <2>2, <2>3
<1>5. QED
    BY <1>1, <1>3, <1>4

LEMMA CleanNext ==
    ReadErrors = FALSE /\ ReaderInv /\ BadOnlyAtEnd /\ [Next]_vars => BadOnlyAtEnd'
<1> SUFFICES ASSUME ReadErrors = FALSE, ReaderInv, BadOnlyAtEnd, [Next]_vars
             PROVE  BadOnlyAtEnd'
    OBVIOUS
<1>a. SourceTypeOK /\ want \in Nat /\ got \in Nat /\ chunk \in Nat
    BY WindowType DEF ReaderInv, TypeInv, TypeOK
<1>1. CASE ReadFully \/ ReadFullyEof
    <2>0. got < want
        BY <1>1 DEF ReadFully, ReadFullyEof
    <2>1. want - got \in Nat
        BY <1>a, <2>0
    <2>2. PICK o : read(want - got, o)
        BY <1>1 DEF ReadFully, ReadFullyEof
    <2>3. QED
        BY <1>a, <2>1, <2>2, CleanRead
<1>2. CASE Refill
    <2>1. PICK o : read(chunk, o)
        BY <1>2 DEF Refill
    <2>2. QED
        BY <1>a, <2>1, CleanRead
<1>3. CASE UNCHANGED source
    BY <1>3 DEF source, BadOnlyAtEnd
<1>4. QED
    BY <1>1, <1>2, <1>3
    DEF Next, Construct, Step, Gone, OpenFails, Open, RejectMagic, RejectVersion,
        AcceptHeader, NextMetadataPiece, MetadataPieceRead, Constructed, Call,
        PullRecord, PullNeedMore, PullCorrupt, Route, vars

LEMMA CleanInvariant == ReadErrors = FALSE => (Spec => []BadOnlyAtEnd)
<1> SUFFICES ASSUME ReadErrors = FALSE PROVE Spec => []BadOnlyAtEnd
    OBVIOUS
<1>1. Init => BadOnlyAtEnd
    BY DEF Init, SourceInit, BadOnlyAtEnd
<1>2. ReaderInv /\ BadOnlyAtEnd /\ [Next]_vars => BadOnlyAtEnd'
    BY CleanNext
<1>3. QED
    BY <1>1, <1>2, ReaderInvariant, PTL DEF Spec

(* A reader that has a scratch buffer and meets no I/O error says nullopt  *)
(* without failed() only when the file is used up: every byte was read and *)
(* less than a record is left.                                             *)
THEOREM CleanEnd ==
    ASSUME ReadErrors = FALSE, 0 \notin ChunkSizes
    PROVE  Spec => []NulloptMeansExhausted
<1>1. ReaderInv /\ EndInv /\ BadOnlyAtEnd => NulloptMeansExhausted
    <2> SUFFICES ASSUME ReaderInv, EndInv, BadOnlyAtEnd, ret = "nullopt", ~failed
                 PROVE  /\ fpos = Len(file)
                        /\ \/ fpos - Consumed < 2
                           \/ /\ file[Consumed + 1] # 0
                              /\ fpos - Consumed < RecordSize(file[Consumed + 1])
        BY DEF NulloptMeansExhausted
    <2>1. frame_one(Front).status = "NeedMore" /\ SourceDry
        BY DEF EndInv
    <2>2. chunk # 0
        BY DEF ReaderInv, TypeInv, TypeOK
    <2>3. fpos = Len(file)
        BY <2>1, <2>2 DEF SourceDry, BadOnlyAtEnd
    <2>4. /\ Front \in Seq(Byte) /\ Len(Front) = buffered /\ buffered \in Nat
          /\ file \in Seq(Byte) /\ Len(file) \in Nat /\ fpos \in Nat
          /\ fpos <= Len(file)
        BY WindowType DEF ReaderInv
    <2>5. /\ Front = SubSeq(file, Consumed + 1, fpos) /\ Consumed = fpos - buffered
          /\ buffered <= fpos
        BY DEF ReaderInv, StreamInv, Stitched, Consumed
    <2>6. Consumed \in Nat /\ fpos - Consumed = buffered
        BY <2>4, <2>5
    <2>7. buffered >= 2 => Front[1] = file[Consumed + 1]
        <3>1. \A i \in 1..(fpos - Consumed) :
                  SubSeq(file, Consumed + 1, fpos)[i] = file[Consumed + i]
            BY <2>4, <2>6, Slice
        <3>2. QED
            BY <2>4, <2>5, <2>6, <3>1
    <2>8. Len(Front) < 2 \/ (Front[1] # 0 /\ Len(Front) < RecordSize(Front[1]))
        BY <2>1, <2>4, FrameOne
    <2>9. QED
        BY <2>3, <2>4, <2>6, <2>7, <2>8
<1>2. QED
    BY <1>1, ReaderInvariant, EndInvariant, CleanInvariant, PTL

-----------------------------------------------------------------------------
(* The contract.  To map the steps of the constructor, the header read in  *)
(* pieces has to be known as the header of the file; to map Route, the     *)
(* record framed from the part of the file read so far has to be the one   *)
(* the contract frames from all of it (FramePrefix).                       *)

HeaderChecked ==
    Len(file) >= 8 /\ HasMagic(file) /\ file[4] = kSupportedDbnVersion

Framed ==
    LET r == frame_one(SubSeq(file, Consumed - view.len + 1, Len(file))) IN
    r.status = "Ok" /\ r.record_size = view.len

RefInv ==
    /\ pc \in {"skip", "metadata"} => HeaderChecked
    /\ pc = "route" => Framed

(* A header that was read whole is the first eight bytes of the file. *)
LEMMA WholeHeader ==
    ASSUME ReaderInv, pc = "header", got = want
    PROVE  /\ Len(file) >= 8
           /\ HasMagic(header) <=> HasMagic(file)
           /\ header[4] = file[4]
<1>1. want = 8 /\ fpos = got /\ header = SubSeq(file, 1, fpos)
    BY DEF ReaderInv, TypeInv, ReadingPrologue, PrologueInv, HeaderSize
<1>2. file \in Seq(Byte) /\ fpos <= Len(file) /\ Len(file) \in Nat
    BY WindowType DEF ReaderInv
<1>3. fpos = 8 /\ Len(file) >= 8
    BY <1>1, <1>2
<1>4. \A i \in 1..8 : header[i] = file[i]
    <2>1. 0 \in Nat /\ 8 \in Nat /\ 8 <= Len(file)
        BY <1>2, <1>3
    <2>2. \A i \in 1..(8 - 0) : SubSeq(file, 0 + 1, 8)[i] = file[0 + i]
        BY <1>2, <2>1, Slice
    <2>3. QED
        BY <1>1, <1>3, <2>2
<1>5. /\ header[1] = file[1] /\ header[2] = file[2] /\ header[3] = file[3]
      /\ header[4] = file[4]
    BY <1>4
<1>6. QED
    BY <1>3, <1>5 DEF HasMagic

(* What is framed at the front of the assembler, the contract frames at    *)
(* its position in the file.                                               *)
LEMMA SameFrame ==
    ASSUME ReaderInv, frame_one(Front).status # "NeedMore"
    PROVE  frame_one(SubSeq(file, Consumed + 1, Len(file))) = frame_one(Front)
<1>1. /\ file \in Seq(Byte) /\ fpos \in Nat /\ buffered \in Nat
      /\ fpos <= Len(file)
    BY WindowType DEF ReaderInv
<1>2. Front = SubSeq(file, Consumed + 1, fpos) /\ buffered <= fpos
    BY DEF ReaderInv, StreamInv, Stitched
<1>3. Consumed \in Nat /\ Consumed <= fpos
    BY <1>1, <1>2 DEF Consumed
<1>4. QED
    BY <1>1, <1>2, <1>3, FramePrefix

LEMMA PullFrames ==
    ASSUME ReaderInv, PullRecord
    PROVE  Framed' /\ Consumed' - view'.len = Consumed
<1>1. frame_one(Front).status = "Ok" /\ view'.len = frame_one(Front).record_size
    BY PullStatuses DEF PullRecord, pull
<1>2. frame_one(SubSeq(file, Consumed + 1, Len(file))) = frame_one(Front)
    BY <1>1, SameFrame
<1>3. Consumed \in Nat /\ view'.len \in Nat
    <2>1. Front \in Seq(Byte)
        BY WindowType DEF ReaderInv
    <2>2. frame_one(Front).record_size \in Nat
        BY <2>1, FrameOne
    <2>3. QED
        BY <1>1, <2>2, CountType
<1>4. Consumed' = Consumed + view'.len
    BY PullRecordStream DEF ReaderInv
<1>5. Consumed' - view'.len = Consumed
    BY <1>3, <1>4
<1>6. file' = file
    BY DEF PullRecord, source
<1>7. QED
    BY <1>1, <1>2, <1>5, <1>6 DEF Framed

LEMMA RefNext == ReaderInv /\ RefInv /\ [Next]_vars => RefInv'
<1> SUFFICES ASSUME ReaderInv, RefInv, [Next]_vars PROVE RefInv'
    OBVIOUS
<1>1. CASE OpenFails \/ Open \/ ReadFullyEof \/ RejectMagic \/ RejectVersion
           \/ Constructed \/ Call \/ PullNeedMore \/ PullCorrupt \/ Route \/ Refill
    BY <1>1
    DEF OpenFails, Open, ReadFullyEof, RejectMagic, RejectVersion, Constructed,
        Call, PullNeedMore, PullCorrupt, Route, Refill, Throw, Return, RefInv
<1>2. CASE ReadFully \/ NextMetadataPiece \/ MetadataPieceRead
    <2>1. /\ pc \in {"header", "skip", "metadata"}
          /\ pc' \in {"header", "skip", "metadata"}
          /\ pc' = "header" \/ pc \in {"skip", "metadata"}
          /\ file' = file
        BY <1>2 DEF ReadFully, NextMetadataPiece, MetadataPieceRead, read, source
    <2>2. QED
        BY <2>1 DEF RefInv, HeaderChecked
<1>3. CASE AcceptHeader
    <2>1. /\ pc = "header" /\ got = want /\ pc' = "skip" /\ file' = file
          /\ HasMagic(header) /\ header[4] = kSupportedDbnVersion
        BY <1>3 DEF AcceptHeader, source
    <2>2. HeaderChecked
        BY <2>1, WholeHeader DEF HeaderChecked
    <2>3. QED
        BY <2>1, <2>2 DEF RefInv, HeaderChecked
<1>4. CASE PullRecord
    BY <1>4, PullFrames DEF PullRecord, RefInv
<1>5. CASE UNCHANGED vars
    <2>1. UNCHANGED <<file, fpos, pc, buf, read_pos, view>>
        BY <1>5 DEF vars, source, assembler
    <2>2. Consumed' = Consumed
        BY <2>1 DEF Consumed, buffered
    <2>3. QED
        BY <2>1, <2>2 DEF RefInv, HeaderChecked, Framed
<1>6. QED
    BY <1>1, <1>2, <1>3, <1>4, <1>5 DEF Next, Construct, Step, Gone

(* A constructor that returns has seen a good prologue. *)
LEMMA GoodPrologue ==
    ASSUME ReaderInv, RefInv, Constructed
    PROVE  PrologueError(file) = "none"
<1>1. file \in Seq(Byte) /\ fpos \in Nat /\ Len(file) \in Nat /\ fpos <= Len(file)
    BY WindowType DEF ReaderInv
<1>2. pc = "skip" /\ remaining = 0
    BY DEF Constructed
<1>3. HeaderChecked /\ fpos + remaining = RecordStart(file)
    BY <1>2 DEF RefInv, ReaderInv, PrologueInv
<1>4. RecordStart(file) <= Len(file)
    BY <1>1, <1>2, <1>3
<1>5. QED
    BY <1>1, <1>3, <1>4, PrologueCases DEF HeaderChecked

LEMMA RefInvariant == Spec => []RefInv
<1>1. Init => RefInv
    BY DEF Init, RefInv
<1>2. QED
    BY <1>1, ReaderInvariant, RefNext, PTL DEF Spec

(* The operators of the contract are those of the reader: it instantiates  *)
(* Dbn with the same layout.                                               *)
LEMMA ContractOperators ==
    /\ \A b : Contract!frame_one(b) = frame_one(b)
    /\ \A r : Contract!route_record(r) = route_record(r)
    /\ \A s, r : Contract!tally(s, r) = tally(s, r)
    /\ \A f : Contract!RecordStart(f) = RecordStart(f)
    /\ \A f : Contract!PrologueError(f) = PrologueError(f)
    /\ Contract!NoStats = NoStats
<1>1. \A b : Contract!frame_one(b) = frame_one(b)
    BY DEF Contract!frame_one, frame_one, Contract!Frame, Frame,
           Contract!RecordSize, RecordSize
<1>2. \A w : Contract!to_event(w) = to_event(w)
    BY DEF Contract!to_event, to_event, Contract!ByteAt, ByteAt,
           Contract!is_valid_action, is_valid_action, Contract!Action, Action,
           Contract!is_valid_side, is_valid_side, Contract!Side, Side,
           Contract!EventOf, EventOf, Contract!Field, Field,
           Contract!EventFields, EventFields, Contract!NoEvent, NoEvent
<1>3. \A r : Contract!route_record(r) = route_record(r)
    BY <1>2 DEF Contract!route_record, route_record, Contract!Routed, Routed,
                Contract!kMboRtype, kMboRtype, Contract!NoEvent, NoEvent,
                Contract!EventFields, EventFields
<1>4. \A s, r : Contract!tally(s, r) = tally(s, r)
    BY DEF Contract!tally, tally
<1>5. \A f : Contract!RecordStart(f) = RecordStart(f)
    BY DEF Contract!RecordStart, RecordStart, Contract!HeaderSize, HeaderSize,
           Contract!MetadataLen, MetadataLen, Contract!LittleEndian, LittleEndian
<1>6. \A f : Contract!PrologueError(f) = PrologueError(f)
    BY <1>5 DEF Contract!PrologueError, PrologueError, Contract!HeaderSize,
                HeaderSize, Contract!HasMagic, HasMagic,
                Contract!kSupportedDbnVersion, kSupportedDbnVersion
<1>7. Contract!NoStats = NoStats
    BY DEF Contract!NoStats, NoStats
<1>8. QED
    BY <1>1, <1>3, <1>4, <1>5, <1>6, <1>7

LEMMA ContractInit == Init => Contract!Init
BY ContractOperators
DEF Init, SourceInit, Contract!Init, Phase, Position, Constructing

(* A step that changes nothing the consumer sees. *)
LEMMA Stutters ==
    ASSUME UNCHANGED <<file, failed, stats, err, ret, out>>,
           Phase' = Phase, Position' = Position
    PROVE  UNCHANGED Contract!contract
BY DEF Contract!contract

(* A constructor that throws names the first check the file fails. *)
LEMMA RefuseStep ==
    ASSUME ReadErrors = FALSE, ReaderInv, BadOnlyAtEnd, RefInv,
           ReadFullyEof \/ RejectMagic \/ RejectVersion
    PROVE  Contract!Refuse
<1>a. /\ file \in Seq(Byte) /\ SourceTypeOK
      /\ fpos \in Nat /\ Len(file) \in Nat
      /\ want \in Nat /\ got \in Nat /\ remaining \in Nat
    BY WindowType DEF ReaderInv, TypeInv, TypeOK
<1>1. /\ pc \in Constructing /\ pc' = "threw"
      /\ UNCHANGED <<file, failed, stats, ret, out>>
    BY DEF ReadFullyEof, RejectMagic, RejectVersion, Throw, Constructing, read,
           source
<1>2. err' = PrologueError(file) /\ err' # "none"
    <2>1. CASE ReadFullyEof
        <3>1. PICK o : o.n = 0 /\ read(want - got, o)
            BY <2>1 DEF ReadFullyEof
        <3>2. /\ got < want /\ pc \in {"header", "metadata"}
              /\ err' = IF pc = "header" THEN "truncated header"
                        ELSE "truncated metadata"
            BY <2>1 DEF ReadFullyEof, Throw
        <3>3. want - got \in Nat /\ want - got # 0
            <4>1. want \in Nat /\ got \in Nat /\ got < want
                BY <1>a, <3>2
            <4>2. QED
                BY <4>1
        <3>4. fpos = Len(file)
            BY <1>a, <3>1, <3>3, CleanRead
        <3>5. CASE pc = "header"
            <4>1. fpos = got /\ want = 8
                BY <3>5
                DEF ReaderInv, TypeInv, ReadingPrologue, PrologueInv, HeaderSize
            <4>2. Len(file) < 8
                BY <1>a, <3>2, <3>4, <4>1
            <4>3. QED
                BY <1>a, <3>2, <3>5, <4>2, PrologueCases
        <3>6. CASE pc = "metadata"
            <4>1. /\ want <= remaining
                  /\ fpos + remaining = RecordStart(file) + got
                  /\ RecordStart(file) \in Nat
                BY <3>6 DEF ReaderInv, TypeInv, ReadingPrologue, PrologueInv
            <4>2. RecordStart(file) > Len(file)
                <5>1. /\ fpos \in Nat /\ want \in Nat /\ got \in Nat
                      /\ remaining \in Nat /\ got < want
                    BY <1>a, <3>2
                <5>2. RecordStart(file) > fpos
                    BY <4>1, <5>1
                <5>3. QED
                    BY <3>4, <5>2
            <4>3. HeaderChecked
                BY <3>6 DEF RefInv
            <4>4. PrologueError(file) = "truncated metadata"
                BY <1>a, <4>2, <4>3, PrologueCases DEF HeaderChecked
            <4>5. QED
                BY <3>2, <3>6, <4>4
        <3>7. QED
            BY <3>2, <3>5, <3>6
    <2>2. CASE RejectMagic
        <3>1. Len(file) >= 8 /\ ~HasMagic(file)
            BY <2>2, WholeHeader DEF RejectMagic
        <3>2. QED
            BY <1>a, <2>2, <3>1, PrologueCases DEF RejectMagic, Throw
    <2>3. CASE RejectVersion
        <3>1. /\ Len(file) >= 8 /\ HasMagic(file)
              /\ file[4] # kSupportedDbnVersion
            BY <2>3, WholeHeader DEF RejectVersion
        <3>2. QED
            BY <1>a, <2>3, <3>1, PrologueCases DEF RejectVersion, Throw
    <2>4. QED
        BY <2>1, <2>2, <2>3
<1>3. /\ Phase = "new" /\ Phase' = "threw" /\ Position = 0 /\ Position' = 0
    BY <1>1 DEF Phase, Position, Constructing
<1>4. QED
    BY <1>1, <1>2, <1>3, ContractOperators DEF Contract!Refuse, Contract!Throw

(* The record under the span is the one at the contract's position. *)
LEMMA RoutedRecord ==
    ASSUME ReaderInv, CountInv, RefInv, pc = "route"
    PROVE  /\ Contract!frame_one(Contract!Rest).status = "Ok"
           /\ Contract!Record = Bytes(view)
           /\ Position + Contract!frame_one(Contract!Rest).record_size = Consumed
<1> DEFINE a == Consumed - view.len
           n == view.len
<1>1. Position = a
    BY DEF Position, Constructing
<1>2. file \in Seq(Byte) /\ Len(file) \in Nat /\ fpos \in Nat /\ fpos <= Len(file)
    BY WindowType DEF ReaderInv
<1>3. n \in Nat /\ Consumed \in Nat
    BY CountType
<1>4. Bytes(view) = SubSeq(file, a + 1, Consumed)
    BY DEF ReaderInv, StreamInv, ViewFresh
<1>5. a \in Nat /\ a + n = Consumed /\ Consumed <= Len(file)
    <2>1. Consumed <= fpos
        <3>1. buffered \in Nat
            BY WindowType DEF ReaderInv
        <3>2. QED
            BY <1>2, <3>1 DEF Consumed
    <2>2. n <= Consumed
        <3>1. 4 * stats.records <= Consumed - n /\ stats.records \in Nat
            BY CountType DEF CountInv, InFlight
        <3>2. QED
            BY <1>3, <3>1
    <2>3. QED
        BY <1>2, <1>3, <2>1, <2>2
<1>6. frame_one(SubSeq(file, a + 1, Len(file))).status = "Ok"
      /\ frame_one(SubSeq(file, a + 1, Len(file))).record_size = n
    BY DEF RefInv, Framed
<1>7. Contract!Rest = SubSeq(file, a + 1, Len(file))
    BY <1>1 DEF Contract!Rest
<1> HIDE DEF a, n
<1>8. /\ Contract!frame_one(Contract!Rest).status = "Ok"
      /\ Contract!frame_one(Contract!Rest).record_size = n
    BY <1>6, <1>7, ContractOperators
<1>9. Contract!Record = SubSeq(SubSeq(file, a + 1, Len(file)), 1, n)
    BY <1>7, <1>8 DEF Contract!Record
<1>10. SubSeq(SubSeq(file, a + 1, Len(file)), 1, n) = SubSeq(file, a + 1, a + n)
    <2>1. a <= Len(file) /\ n <= Len(file) - a
        BY <1>2, <1>3, <1>5
    <2>2. QED
        BY <1>2, <1>3, <1>5, <2>1, FirstBytes
<1>11. QED
    BY <1>1, <1>4, <1>5, <1>8, <1>9, <1>10

(* The invariants the step mapping rests on. *)
AllInv == ReaderInv /\ CountInv /\ EndInv /\ BadOnlyAtEnd /\ RefInv

LEMMA ContractNext ==
    ASSUME ReadErrors = FALSE, 0 \notin ChunkSizes
    PROVE  AllInv /\ [Next]_vars => [Contract!Next]_(Contract!contract)
<1> SUFFICES ASSUME AllInv, [Next]_vars
             PROVE  Contract!Next \/ UNCHANGED Contract!contract
    OBVIOUS
<1>a. ReaderInv /\ CountInv /\ BadOnlyAtEnd /\ RefInv
    BY DEF AllInv
<1>b. /\ file \in Seq(Byte) /\ SourceTypeOK /\ fpos \in Nat /\ Len(file) \in Nat
      /\ fpos <= Len(file) /\ chunk \in Nat /\ Consumed \in Nat
    BY <1>a, WindowType, CountType DEF ReaderInv
<1>c. chunk # 0
    BY <1>a DEF ReaderInv, TypeInv, TypeOK
<1>1. CASE OpenFails
    <2>1. /\ Phase = "new" /\ Phase' = "threw" /\ Position = 0 /\ Position' = 0
        BY <1>1 DEF OpenFails, Throw, Phase, Position, Constructing
    <2>2. Contract!OpenFails
        BY <1>1, <2>1
        DEF OpenFails, Throw, source, Contract!OpenFails, Contract!Throw
    <2>3. QED
        BY <2>2 DEF Contract!Next
<1>2. CASE Open \/ ReadFully \/ AcceptHeader \/ NextMetadataPiece \/ MetadataPieceRead
    <2>1. pc \in Constructing /\ pc' \in Constructing
        BY <1>2
        DEF Open, ReadFully, AcceptHeader, NextMetadataPiece, MetadataPieceRead,
            Constructing
    <2>2. Phase' = Phase /\ Position' = Position
        BY <2>1 DEF Phase, Position
    <2>3. UNCHANGED <<file, failed, stats, err, ret, out>>
        BY <1>2
        DEF Open, ReadFully, AcceptHeader, NextMetadataPiece, MetadataPieceRead,
            read, source, result
    <2>4. QED
        BY <2>2, <2>3, Stutters
<1>3. CASE ReadFullyEof \/ RejectMagic \/ RejectVersion
    BY <1>a, <1>3, RefuseStep DEF Contract!Next
<1>4. CASE Constructed
    <2>1. /\ pc = "skip" /\ remaining = 0 /\ pc' = "ready"
          /\ UNCHANGED <<file, failed, stats, err, ret, out>>
        BY <1>4 DEF Constructed, source, result
    <2>4. PrologueError(file) = "none"
        BY <1>a, <1>4, GoodPrologue
    <2>5. Consumed' = RecordStart(file)
        BY <1>a, <1>4, FirstRecord DEF ReaderInv
    <2>6. Phase = "new" /\ Phase' = "ready" /\ Position' = RecordStart(file)
        BY <2>1, <2>5 DEF Phase, Position, Constructing
    <2>7. Contract!Construct
        BY <2>1, <2>4, <2>6, ContractOperators DEF Contract!Construct
    <2>8. QED
        BY <2>7 DEF Contract!Next
<1>5. CASE Call
    <2>1. pc = "ready" /\ pc' = "pull" /\ UNCHANGED <<fpos, buf, read_pos>>
        BY <1>5 DEF Call, source, assembler
    <2>2. Consumed' = Consumed
        BY <2>1 DEF Consumed, buffered
    <2>3. Phase = "ready" /\ Phase' = "pulling" /\ Position' = Position
        BY <2>1, <2>2 DEF Phase, Position, Constructing
    <2>4. Contract!Call
        BY <1>5, <2>3 DEF Call, source, result, Contract!Call
    <2>5. QED
        BY <2>4 DEF Contract!Next
<1>6. CASE PullRecord
    <2>1. pc = "pull" /\ pc' = "route"
        BY <1>6 DEF PullRecord
    <2>2. Consumed' - view'.len = Consumed
        BY <1>a, <1>6, PullFrames
    <2>3. Phase' = Phase /\ Position' = Position
        BY <2>1, <2>2 DEF Phase, Position, Constructing
    <2>4. QED
        BY <1>6, <2>3, Stutters DEF PullRecord, source, result
<1>7. CASE PullNeedMore
    <2>1. pc = "pull" /\ pc' = "refill" /\ UNCHANGED <<fpos, buf, read_pos>>
        BY <1>a, <1>7, PullStatuses, PullNothing DEF PullNeedMore, source
    <2>2. Consumed' = Consumed
        BY <2>1 DEF Consumed, buffered
    <2>3. Phase' = Phase /\ Position' = Position
        BY <2>1, <2>2 DEF Phase, Position, Constructing
    <2>4. QED
        BY <1>7, <2>3, Stutters DEF PullNeedMore, source, result
<1>8. CASE PullCorrupt
    <2>1. /\ frame_one(Front).status = "Corrupt"
          /\ pc = "pull" /\ pc' = "ready" /\ failed' = TRUE /\ ret' = "nullopt"
          /\ UNCHANGED <<file, fpos, buf, read_pos, stats, err, out>>
        BY <1>a, <1>8, PullStatuses, PullNothing DEF PullCorrupt, Return, source
    <2>2. Consumed' = Consumed
        BY <2>1 DEF Consumed, buffered
    <2>3. /\ Phase = "pulling" /\ Phase' = "ready"
          /\ Position = Consumed /\ Position' = Position
        BY <2>1, <2>2 DEF Phase, Position, Constructing
    <2>4. frame_one(SubSeq(file, Consumed + 1, Len(file))).status = "Corrupt"
        BY <1>a, <2>1, SameFrame
    <2>5. Contract!frame_one(Contract!Rest).status = "Corrupt"
        BY <2>3, <2>4, ContractOperators DEF Contract!Rest
    <2>6. Contract!Stop
        BY <2>1, <2>3, <2>5 DEF Contract!Stop
    <2>7. QED
        BY <2>6 DEF Contract!Next
<1>9. CASE Route
    <2> DEFINE routed == route_record(Bytes(view))
    <2>1. /\ pc = "route" /\ stats' = tally(stats, routed)
          /\ UNCHANGED <<file, fpos, buf, read_pos, failed, err>>
          /\ \/ /\ routed.outcome = "Emit" /\ pc' = "ready" /\ ret' = "event"
                /\ out' = Append(out, routed.event)
             \/ /\ routed.outcome # "Emit" /\ pc' = "pull"
                /\ UNCHANGED <<ret, out>>
        BY <1>9 DEF Route, Return, source, assembler
    <2>2. /\ Contract!frame_one(Contract!Rest).status = "Ok"
          /\ Contract!route_record(Contract!Record) = routed
          /\ Position + Contract!frame_one(Contract!Rest).record_size = Consumed
        BY <1>a, <2>1, RoutedRecord, ContractOperators
    <2> HIDE DEF routed
    <2>3. Phase = "pulling" /\ Position' = Consumed
        <3>1. Consumed' = Consumed
            BY <2>1 DEF Consumed, buffered
        <3>2. QED
            BY <2>1, <3>1 DEF Phase, Position, Constructing
    <2>4. Contract!Consume
        BY <2>1, <2>2, <2>3, ContractOperators DEF Contract!Consume
    <2>5. CASE routed.outcome = "Emit"
        <3>1. Phase' = "ready"
            BY <2>1, <2>5 DEF Phase, Constructing
        <3>2. QED
            BY <2>1, <2>2, <2>4, <2>5, <3>1 DEF Contract!Emit, Contract!Next
    <2>6. CASE routed.outcome # "Emit"
        <3>1. Phase' = "pulling"
            BY <2>1, <2>6 DEF Phase, Constructing
        <3>2. QED
            BY <2>1, <2>2, <2>3, <2>4, <2>6, <3>1 DEF Contract!Skip, Contract!Next
    <2>7. QED
        BY <2>5, <2>6
<1>10. CASE Refill
    <2>1. PICK o \in ReadOutcomes(chunk) :
              /\ read(chunk, o)
              /\ IF o.n = 0
                 THEN Return("nullopt") /\ UNCHANGED assembler
                 ELSE append(Delivered(o)) /\ pc' = "pull" /\ UNCHANGED ret
        BY <1>10 DEF Refill
    <2>2. pc = "refill" /\ UNCHANGED <<file, failed, stats, err, out>>
        BY <1>10, <2>1 DEF Refill, read
    <2>3. Consumed' = Consumed
        BY <1>a, <1>10, RefillStream DEF ReaderInv
    <2>4. CASE o.n = 0
        <3>1. pc' = "ready" /\ ret' = "nullopt"
            BY <2>1, <2>4 DEF Return
        <3>2. fpos = Len(file)
            BY <1>a, <1>b, <1>c, <2>1, <2>4, CleanRead
        <3>3. frame_one(SubSeq(file, Consumed + 1, Len(file))).status = "NeedMore"
            BY <1>a, <2>2, <3>2 DEF ReaderInv, StreamInv, RefillWhenDry, Stitched
        <3>4. /\ Phase = "pulling" /\ Phase' = "ready"
              /\ Position = Consumed /\ Position' = Position
            BY <2>2, <2>3, <3>1 DEF Phase, Position, Constructing
        <3>5. Contract!frame_one(Contract!Rest).status = "NeedMore"
            BY <3>3, <3>4, ContractOperators DEF Contract!Rest
        <3>6. Contract!End
            BY <2>2, <3>1, <3>4, <3>5 DEF Contract!End
        <3>7. QED
            BY <3>6 DEF Contract!Next
    <2>5. CASE o.n # 0
        <3>1. pc' = "pull" /\ ret' = ret
            BY <2>1, <2>5
        <3>2. Phase' = Phase /\ Position' = Position
            BY <2>2, <2>3, <3>1 DEF Phase, Position, Constructing
        <3>3. QED
            BY <2>2, <3>1, <3>2, Stutters
    <2>6. QED
        BY <2>4, <2>5
<1>11. CASE UNCHANGED vars
    <2>1. /\ UNCHANGED <<fpos, buf, read_pos, pc, view>>
          /\ UNCHANGED <<file, failed, stats, err, ret, out>>
        BY <1>11 DEF vars, source, assembler, result
    <2>2. Consumed' = Consumed
        BY <2>1 DEF Consumed, buffered
    <2>3. Phase' = Phase /\ Position' = Position
        BY <2>1, <2>2 DEF Phase, Position
    <2>4. QED
        BY <2>1, <2>3, Stutters
<1>12. QED
    BY <1>1, <1>2, <1>3, <1>4, <1>5, <1>6, <1>7, <1>8, <1>9, <1>10, <1>11
    DEF Next, Construct, Step, Gone

(* The streaming reader is another implementation of the ingest contract:  *)
(* chunk boundaries, short reads and the pieces the prologue is read in    *)
(* are invisible, whatever the file holds.  It needs a scratch buffer and  *)
(* a source without I/O errors, which the reader takes for the end.        *)
THEOREM DbnReaderImplementsContract ==
    ASSUME ReadErrors = FALSE, 0 \notin ChunkSizes
    PROVE  Spec => ImplementsContract
<1>1. Spec => []AllInv
    BY ReaderInvariant, CountInvariant, EndInvariant, CleanInvariant, RefInvariant,
       PTL DEF AllInv
<1>2. AllInv /\ [Next]_vars => [Contract!Next]_(Contract!contract)
    BY ContractNext
<1>3. QED
    BY <1>1, <1>2, ContractInit, PTL DEF Spec, ImplementsContract, Contract!Spec

-----------------------------------------------------------------------------
(* What the constructor decided, for the programs that use a reader. *)

ReadyFile == pc \in Returned => PrologueError(file) = "none"

RefusedFile ==
    pc = "threw" => err = "cannot open" \/ PrologueError(file) # "none"

LEMMA FileStays == [Next]_vars => file' = file
BY DEF Next, OpenFails, Construct, Step, Gone, Open, ReadFully, ReadFullyEof,
       RejectMagic, RejectVersion, AcceptHeader, NextMetadataPiece,
       MetadataPieceRead, Constructed, Call, PullRecord, PullNeedMore,
       PullCorrupt, Route, Refill, read, source, vars

LEMMA ReadyNext == ReaderInv /\ RefInv /\ ReadyFile /\ [Next]_vars => ReadyFile'
<1> SUFFICES ASSUME ReaderInv, RefInv, ReadyFile, [Next]_vars PROVE ReadyFile'
    OBVIOUS
<1>1. file' = file
    BY FileStays
<1>2. CASE Constructed
    BY <1>1, <1>2, GoodPrologue DEF ReadyFile
<1>3. CASE ~Constructed
    <2>1. pc' \in Returned => pc \in Returned
        BY <1>3
        DEF Next, OpenFails, Construct, Step, Gone, Open, ReadFully, ReadFullyEof,
            RejectMagic, RejectVersion, AcceptHeader, NextMetadataPiece,
            MetadataPieceRead, Call, PullRecord, PullNeedMore, PullCorrupt, Route,
            Refill, Throw, vars, Returned
    <2>2. QED
        BY <1>1, <2>1 DEF ReadyFile
<1>4. QED
    BY <1>2, <1>3

LEMMA RefusedNext ==
    ReadErrors = FALSE /\ ReaderInv /\ RefInv /\ BadOnlyAtEnd /\ RefusedFile
    /\ [Next]_vars => RefusedFile'
<1> SUFFICES ASSUME ReadErrors = FALSE, ReaderInv, RefInv, BadOnlyAtEnd,
                    RefusedFile, [Next]_vars
             PROVE  RefusedFile'
    OBVIOUS
<1>1. file' = file
    BY FileStays
<1>2. CASE OpenFails
    BY <1>2 DEF OpenFails, Throw, RefusedFile
<1>3. CASE ReadFullyEof \/ RejectMagic \/ RejectVersion
    <2>1. Contract!PrologueError(file) # "none"
        BY <1>3, RefuseStep DEF Contract!Refuse
    <2>2. QED
        BY <1>1, <2>1, ContractOperators DEF RefusedFile
<1>4. CASE UNCHANGED vars
    BY <1>4 DEF vars, source, result, RefusedFile
<1>5. CASE /\ ~(OpenFails \/ ReadFullyEof \/ RejectMagic \/ RejectVersion)
           /\ Next /\ ~Gone
    <2>1. pc' # "threw"
        BY <1>5
        DEF Next, Construct, Step, Open, ReadFully, AcceptHeader,
            NextMetadataPiece, MetadataPieceRead, Constructed, Call, PullRecord,
            PullNeedMore, PullCorrupt, Route, Refill, Return
    <2>2. QED
        BY <2>1 DEF RefusedFile
<1>6. QED
    BY <1>2, <1>3, <1>4, <1>5 DEF Gone

-----------------------------------------------------------------------------
(* The reference.  Every record that is routed is the one the reference    *)
(* has at the reader's position, so the decoding is carried along with it. *)

DecodeInv ==
    /\ pc \notin Returned => out = <<>> /\ stats = NoStats
    /\ pc \in Returned => Decoded(file, Position, out, stats)

(* The steps that neither return nor count anything. *)
LEMMA PositionStays ==
    ASSUME ReaderInv, Call \/ PullRecord \/ PullNeedMore \/ PullCorrupt \/ Refill
    PROVE  /\ pc \in Returned /\ pc' \in Returned /\ Position' = Position
           /\ UNCHANGED <<file, stats, out>>
<1>1. CASE Call
    <2>1. /\ pc = "ready" /\ pc' = "pull" /\ UNCHANGED <<fpos, buf, read_pos>>
          /\ UNCHANGED <<file, stats, out>>
        BY <1>1 DEF Call, source, assembler, result
    <2>2. QED
        BY <2>1 DEF Consumed, buffered, Position, Constructing, Returned
<1>2. CASE PullRecord
    <2>1. pc = "pull" /\ pc' = "route" /\ UNCHANGED <<file, stats, out>>
        BY <1>2 DEF PullRecord, source, result
    <2>2. Consumed' - view'.len = Consumed
        BY <1>2, PullFrames
    <2>3. QED
        BY <2>1, <2>2 DEF Position, Constructing, Returned
<1>3. CASE PullNeedMore \/ PullCorrupt
    <2>1. /\ pc = "pull" /\ pc' \in {"refill", "ready"}
          /\ UNCHANGED <<fpos, buf, read_pos>> /\ UNCHANGED <<file, stats, out>>
        BY <1>3, PullStatuses, PullNothing
        DEF PullNeedMore, PullCorrupt, Return, source, result
    <2>2. QED
        BY <2>1 DEF Consumed, buffered, Position, Constructing, Returned
<1>4. CASE Refill
    <2>1. PICK o \in ReadOutcomes(chunk) :
              /\ read(chunk, o)
              /\ IF o.n = 0
                 THEN Return("nullopt") /\ UNCHANGED assembler
                 ELSE append(Delivered(o)) /\ pc' = "pull" /\ UNCHANGED ret
        BY <1>4 DEF Refill
    <2>2. /\ pc = "refill" /\ pc' \in {"ready", "pull"} /\ UNCHANGED <<file, stats, out>>
        BY <1>4, <2>1 DEF Refill, read, Return
    <2>3. Consumed' = Consumed
        BY <1>4, RefillStream DEF ReaderInv
    <2>4. QED
        BY <2>2, <2>3 DEF Position, Constructing, Returned
<1>5. QED
    BY <1>1, <1>2, <1>3, <1>4

LEMMA DecodeNext ==
    ReaderInv /\ CountInv /\ RefInv /\ DecodeInv /\ [Next]_vars => DecodeInv'
<1> SUFFICES ASSUME ReaderInv, CountInv, RefInv, DecodeInv, [Next]_vars
             PROVE  DecodeInv'
    OBVIOUS
<1>a. file \in Seq(Byte)
    BY WindowType DEF ReaderInv
<1>1. CASE OpenFails \/ Open \/ ReadFully \/ AcceptHeader \/ NextMetadataPiece
           \/ MetadataPieceRead \/ ReadFullyEof \/ RejectMagic \/ RejectVersion
    BY <1>1 DEF OpenFails, Open, ReadFully, AcceptHeader, NextMetadataPiece,
                MetadataPieceRead, ReadFullyEof, RejectMagic, RejectVersion, Throw,
                result, DecodeInv, Returned
<1>2. CASE Constructed
    <2>1. pc = "skip" /\ pc' = "ready" /\ UNCHANGED <<file, stats, out>>
        BY <1>2 DEF Constructed, source, result
    <2>2. PrologueError(file) = "none"
        BY <1>2, GoodPrologue
    <2>3. Consumed' = RecordStart(file)
        BY <1>2, FirstRecord DEF ReaderInv
    <2>4. Position' = RecordStart(file)
        BY <2>1, <2>3 DEF Position, Constructing
    <2>5. out = <<>> /\ stats = NoStats
        BY <2>1 DEF DecodeInv, Returned
    <2>6. Decoded(file, RecordStart(file), <<>>, NoStats)
        BY <1>a, <2>2, DecodedStart
    <2>7. QED
        BY <2>1, <2>4, <2>5, <2>6 DEF DecodeInv, Returned
<1>3. CASE Call \/ PullRecord \/ PullNeedMore \/ PullCorrupt \/ Refill
    BY <1>3, PositionStays DEF DecodeInv
<1>4. CASE Route
    <2> DEFINE a == Consumed - view.len
               r == route_record(Bytes(view))
    <2>1. /\ pc = "route" /\ stats' = tally(stats, r) /\ pc' \in {"ready", "pull"}
          /\ UNCHANGED <<file, fpos, buf, read_pos>>
          /\ out' = IF r.outcome = "Emit" THEN Append(out, r.event) ELSE out
        BY <1>4 DEF Route, Return, source, assembler
    <2>2. Position = a /\ Framed
        BY <2>1 DEF Position, Constructing, RefInv
    <2>3. Decoded(file, a, out, stats)
        BY <2>1, <2>2 DEF DecodeInv, Returned
    <2>4. a \in Nat /\ a + view.len = Consumed
        <3>1. view.len \in Nat /\ Consumed \in Nat
            BY CountType
        <3>2. a \in 0..Len(file) /\ Len(file) \in Nat
            BY <1>a, <2>3, BoundaryFacts, LenProperties DEF Decoded
        <3>3. QED
            BY <3>1, <3>2
    <2>5. Bytes(view) = SubSeq(file, a + 1, a + view.len)
        BY <2>1, <2>4 DEF ReaderInv, StreamInv, ViewFresh
    <2>6. Decoded(file, a + view.len,
                  IF r.outcome = "Emit" THEN Append(out, r.event) ELSE out,
                  tally(stats, r))
        BY <1>a, <2>2, <2>3, <2>5, DecodedStep DEF Framed
    <2>7. Position' = Consumed
        BY <2>1 DEF Position, Constructing, Consumed, buffered
    <2> HIDE DEF r
    <2>8. QED
        BY <2>1, <2>4, <2>6, <2>7 DEF DecodeInv, Returned
<1>5. CASE UNCHANGED vars
    BY <1>5 DEF vars, result, source, assembler, DecodeInv, Position, Consumed,
                buffered
<1>6. QED
    BY <1>1, <1>2, <1>3, <1>4, <1>5 DEF Next, Construct, Step, Gone

(* The streaming reader decodes every file as the reference says, in       *)
(* whatever chunks, short reads and failing reads the file arrives: the    *)
(* Events it returned are those of the well-formed records before its      *)
(* position, in order, and the counters count all of them.                 *)
THEOREM DbnReaderDecodesExactly == Spec => []DecodedExactly
<1>1. Init => DecodeInv
    BY DEF Init, DecodeInv, Returned
<1>2. DecodeInv => DecodedExactly
    BY DEF DecodeInv, DecodedExactly, Decoded
<1>3. QED
    BY <1>1, <1>2, ReaderInvariant, CountInvariant, RefInvariant, DecodeNext, PTL
    DEF Spec

=============================================================================
