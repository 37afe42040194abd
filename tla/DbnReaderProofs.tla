-------------------------- MODULE DbnReaderProofs --------------------------
(***************************************************************************)
(* Theorems about DbnReader for every file, every chunk size and every     *)
(* layout, with short reads and read errors allowed unless a theorem       *)
(* excludes them.                                                          *)
(***************************************************************************)
EXTENDS DbnReader, DbnLemmas

-----------------------------------------------------------------------------
(* The components. *)

(* A read delivers at most what was wanted and what the file still has. *)
LEMMA ReadType ==
    ASSUME SourceTypeOK, NEW w \in Nat, NEW o \in ReadOutcomes(w)
    PROVE  /\ o.n \in Nat /\ o.n <= w
           /\ fpos + o.n \in 0..Len(file)
           /\ o.good \in BOOLEAN
           /\ Delivered(o) \in Seq(Byte) /\ Len(Delivered(o)) = o.n
<1>1. /\ file \in Seq(Byte) /\ Len(file) \in Nat
      /\ fpos \in Nat /\ fpos <= Len(file) /\ good \in BOOLEAN
    BY LenProperties DEF SourceTypeOK
<1>2. /\ Available(w) \in Nat /\ Available(w) <= w
      /\ Available(w) <= Len(file) - fpos
    BY <1>1 DEF Available
<1>3. o.n \in Nat /\ o.n <= Available(w) /\ o.good \in BOOLEAN
    <2>1. CASE ~good
        <3>1. o = [n |-> 0, good |-> FALSE]
            BY <2>1 DEF ReadOutcomes
        <3>2. QED
            BY <3>1, <1>2
    <2>2. CASE good
        <3>1. \/ o = [n |-> Available(w), good |-> Available(w) = w]
              \/ o \in [n : 1..Available(w), good : {TRUE}]
              \/ o \in [n : 0..Available(w), good : {FALSE}]
            BY <2>2 DEF ReadOutcomes
        <3>2. CASE o = [n |-> Available(w), good |-> Available(w) = w]
            <4>1. o.n = Available(w) /\ o.good = (Available(w) = w)
                BY <3>2
            <4>2. QED
                BY <4>1, <1>2
        <3>3. CASE o \in [n : 1..Available(w), good : {TRUE}]
            <4>1. o.n \in 1..Available(w) /\ o.good = TRUE
                BY <3>3
            <4>2. o.n \in Nat /\ o.n <= Available(w)
                BY <4>1, <1>2
            <4>3. QED
                BY <4>1, <4>2
        <3>4. CASE o \in [n : 0..Available(w), good : {FALSE}]
            <4>1. o.n \in 0..Available(w) /\ o.good = FALSE
                BY <3>4
            <4>2. o.n \in Nat /\ o.n <= Available(w)
                BY <4>1, <1>2
            <4>3. QED
                BY <4>1, <4>2
        <3>5. QED
            BY <3>1, <3>2, <3>3, <3>4
    <2>3. QED
        BY <2>1, <2>2, <1>1
<1>4. o.n <= w /\ fpos + o.n \in Nat /\ fpos + o.n <= Len(file) /\ fpos <= fpos + o.n
    BY <1>1, <1>2, <1>3
<1>5. Delivered(o) \in Seq(Byte) /\ Len(Delivered(o)) = (fpos + o.n) - fpos
    BY <1>1, <1>4, Slice DEF Delivered
<1>6. QED
    BY <1>1, <1>3, <1>4, <1>5

(* The unconsumed bytes of the assembler. *)
LEMMA FrontType ==
    ASSUME AssemblerTypeOK
    PROVE  /\ buf \in Seq(Byte) /\ Len(buf) \in Nat
           /\ read_pos \in Nat /\ read_pos <= Len(buf)
           /\ buffered \in Nat
           /\ Front \in Seq(Byte) /\ Len(Front) = buffered
           /\ \A i \in 1..buffered : Front[i] = buf[read_pos + i]
<1>1. /\ buf \in Seq(Byte) /\ Len(buf) \in Nat
      /\ read_pos \in Nat /\ read_pos <= Len(buf)
    BY LenProperties DEF AssemblerTypeOK
<1>2. QED
    BY <1>1, Slice DEF Front, buffered

(* append() and next() keep the cursor inside the buffer. *)
LEMMA AppendType ==
    ASSUME AssemblerTypeOK, NEW c \in Seq(Byte), append(c)
    PROVE  /\ AssemblerTypeOK'
           /\ buf' = Front \o c /\ read_pos' = 0
           /\ Len(buf') = buffered + Len(c)
<1>1. Front \in Seq(Byte) /\ Len(Front) = buffered /\ buffered \in Nat
    BY FrontType
<1>2. /\ Front \o c \in Seq(Byte) /\ Len(Front \o c) = buffered + Len(c)
      /\ Len(c) \in Nat
    BY <1>1, ConcatProperties, LenProperties
<1>3. QED
    BY <1>1, <1>2 DEF append, AssemblerTypeOK

LEMMA NextType ==
    ASSUME AssemblerTypeOK, next
    PROVE  /\ AssemblerTypeOK' /\ buf' = buf
           /\ read_pos' = read_pos + frame_one(Front).record_size
           /\ frame_one(Front).record_size \in Nat
           /\ frame_one(Front).record_size <= buffered
<1>1. /\ Len(buf) \in Nat /\ read_pos \in Nat /\ read_pos <= Len(buf)
      /\ Front \in Seq(Byte) /\ Len(Front) = Len(buf) - read_pos
    BY FrontType DEF buffered
<1>2. /\ frame_one(Front).record_size \in Nat
      /\ frame_one(Front).record_size <= Len(buf) - read_pos
    BY <1>1, FrameOne
<1>3. read_pos + frame_one(Front).record_size \in 0..Len(buf)
    BY <1>1, <1>2
<1>4. QED
    BY <1>1, <1>2, <1>3 DEF next, AssemblerTypeOK, buffered

(* The bytes under a span that lies inside the buffer. *)
LEMMA BytesType ==
    ASSUME AssemblerTypeOK, NEW v, v.at \in Nat, v.len \in Nat,
           v.at + v.len <= Len(buf)
    PROVE  Bytes(v) \in Seq(Byte) /\ Len(Bytes(v)) = v.len
<1>1. buf \in Seq(Byte) /\ Len(buf) \in Nat
    BY FrontType
<1>2. QED
    BY <1>1, Slice DEF Bytes

-----------------------------------------------------------------------------
(* Type correctness.  The header bytes are indexed and the metadata is     *)
(* counted down, so the invariant has to say how far read_fully_ has come, *)
(* and that the span to be routed ends at the cursor.                      *)

ReadingPrologue ==
    /\ pc = "open" => header = <<>>
    /\ pc = "header" => want = HeaderSize /\ Len(header) = got
    /\ pc = "metadata" => want <= remaining

TypeInv ==
    /\ TypeOK
    /\ ReadingPrologue
    /\ pc = "route" => view.at + view.len = read_pos

USE DEF HeaderSize

LEMMA TypeInit == Init => TypeInv
<1> SUFFICES ASSUME Init PROVE TypeInv
    OBVIOUS
<1>1. SourceTypeOK
    <2>1. file \in Seq(Byte)
        BY SourceAssumption DEF Init, SourceInit
    <2>2. Len(file) \in Nat
        BY <2>1, LenProperties
    <2>3. QED
        BY <2>1, <2>2 DEF Init, SourceInit, SourceTypeOK
<1>2. AssemblerTypeOK
    BY EmptySeq DEF Init, AssemblerInit, AssemblerTypeOK
<1>3. header \in Seq(Byte) /\ out \in Seq(Event)
    BY EmptySeq DEF Init
<1>4. stats \in IngestStats
    BY DEF Init, NoStats, IngestStats
<1>5. view \in [at : Nat, len : 0..MaxRecordSize]
    BY DEF Init, MaxRecordSize
<1>6. /\ pc \in Constructing \cup Returned \cup {"threw"}
      /\ err \in PrologueErrors \cup {"cannot open"}
      /\ ret \in {"none", "event", "nullopt"}
      /\ failed \in BOOLEAN
      /\ chunk \in ChunkSizes
    BY DEF Init, Constructing, Returned, PrologueErrors
<1>7. /\ want \in Nat /\ got \in Nat /\ got <= want /\ remaining \in Nat
      /\ version \in Byte
    BY DEF Init, Byte
<1>8. ReadingPrologue /\ pc # "route"
    BY DEF Init, ReadingPrologue
<1>9. QED
    BY <1>1, <1>2, <1>3, <1>4, <1>5, <1>6, <1>7, <1>8 DEF TypeInv, TypeOK

(* The unchanged parts of a step. *)
LEMMA SourceUnchanged == SourceTypeOK /\ UNCHANGED source => SourceTypeOK'
BY DEF SourceTypeOK, source

LEMMA AssemblerUnchanged ==
    AssemblerTypeOK /\ UNCHANGED assembler => AssemblerTypeOK'
BY DEF AssemblerTypeOK, assembler

(* One read of the source. *)
LEMMA ReadStep ==
    ASSUME SourceTypeOK, NEW w \in Nat, NEW o, read(w, o)
    PROVE  /\ SourceTypeOK'
           /\ file' = file /\ fpos' = fpos + o.n
           /\ o.n \in Nat /\ o.n <= w /\ fpos' <= Len(file)
           /\ Delivered(o) \in Seq(Byte) /\ Len(Delivered(o)) = o.n
<1>1. o \in ReadOutcomes(w)
    BY DEF read
<1>2. /\ o.n \in Nat /\ o.n <= w
      /\ fpos + o.n \in 0..Len(file)
      /\ o.good \in BOOLEAN
      /\ Delivered(o) \in Seq(Byte) /\ Len(Delivered(o)) = o.n
    BY <1>1, ReadType
<1>3. file' = file /\ fpos' = fpos + o.n /\ good' = o.good
    BY DEF read
<1>4. SourceTypeOK'
    BY <1>2, <1>3 DEF SourceTypeOK
<1>5. fpos' <= Len(file)
    <2>1. Len(file) \in Nat
        BY LenProperties DEF SourceTypeOK
    <2>2. QED
        BY <1>2, <1>3, <2>1
<1>6. QED
    BY <1>2, <1>3, <1>4, <1>5

(* Each action keeps TypeInv. *)
LEMMA TypeNext == TypeInv /\ [Next]_vars => TypeInv'
<1> SUFFICES ASSUME TypeInv, [Next]_vars PROVE TypeInv'
    OBVIOUS
<1>a. SourceTypeOK /\ AssemblerTypeOK
    BY DEF TypeInv, TypeOK
<1>b. /\ want \in Nat /\ got \in Nat /\ got <= want /\ remaining \in Nat
      /\ pc = "metadata" => want <= remaining
    BY DEF TypeInv, TypeOK, ReadingPrologue
<1>c. /\ header \in Seq(Byte)
      /\ pc = "open" => header = <<>>
      /\ pc = "header" => want = 8 /\ Len(header) = got
    BY DEF TypeInv, TypeOK, ReadingPrologue
<1>d. chunk \in ChunkSizes /\ chunk \in Nat
    BY ChunkAssumption DEF TypeInv, TypeOK
<1>e. /\ version \in Byte /\ failed \in BOOLEAN
      /\ view \in [at : Nat, len : 0..MaxRecordSize]
      /\ stats \in IngestStats /\ out \in Seq(Event)
      /\ pc \in Constructing \cup Returned \cup {"threw"}
      /\ err \in PrologueErrors \cup {"cannot open"}
      /\ ret \in {"none", "event", "nullopt"}
      /\ pc = "route" => view.at + view.len = read_pos
    BY DEF TypeInv, TypeOK
<1>1. CASE OpenFails
    <2>1. SourceTypeOK' /\ AssemblerTypeOK'
        BY <1>a, <1>1, SourceUnchanged, AssemblerUnchanged DEF OpenFails
    <2>2. QED
        BY <1>1, <2>1
        DEF OpenFails, Throw, prologue, TypeInv, TypeOK, ReadingPrologue
<1>2. CASE Open
    <2>1. SourceTypeOK' /\ AssemblerTypeOK'
        BY <1>a, <1>2, SourceUnchanged, AssemblerUnchanged DEF Open
    <2>2. /\ pc' = "header" /\ want' = 8 /\ got' = 0
          /\ UNCHANGED <<chunk, header, remaining, version, view, failed, stats,
                         err, ret, out>>
          /\ header = <<>>
        BY <1>2, <1>c DEF Open, StartReadFully, result
    <2>3. Len(header') = 0
        BY <2>2, EmptySeq
    <2>4. want' \in Nat /\ got' \in Nat /\ got' <= want' /\ remaining' \in Nat
        BY <1>b, <2>2
    <2>5. /\ pc' \in Constructing /\ header' \in Seq(Byte)
          /\ UNCHANGED <<chunk, version, view, failed, stats, err, ret, out>>
        BY <1>c, <2>2 DEF Constructing
    <2>6. TypeOK'
        BY <1>d, <1>e, <2>1, <2>4, <2>5 DEF TypeOK
    <2>7. QED
        BY <2>2, <2>3, <2>6 DEF TypeInv, ReadingPrologue
<1>3. CASE ReadFully
    <2>1. PICK o \in ReadOutcomes(want - got) :
              /\ o.n > 0
              /\ read(want - got, o)
              /\ got' = got + o.n
              /\ header' = IF pc = "header" THEN header \o Delivered(o) ELSE header
        BY <1>3 DEF ReadFully
    <2>2. /\ got < want /\ pc \in {"header", "metadata"}
          /\ UNCHANGED <<chunk, want, remaining, version, pc, view, failed,
                         stats, err, ret, out>>
        BY <1>3 DEF ReadFully, result
    <2>3. want - got \in Nat
        BY <1>b, <2>2
    <2>4. /\ SourceTypeOK'
          /\ o.n \in Nat /\ o.n <= want - got
          /\ Delivered(o) \in Seq(Byte) /\ Len(Delivered(o)) = o.n
        BY <1>a, <2>1, <2>3, ReadStep
    <2>5. AssemblerTypeOK'
        BY <1>a, <1>3, AssemblerUnchanged DEF ReadFully
    <2>6. got' = got + o.n /\ got' \in Nat /\ got' <= want
        BY <1>b, <2>1, <2>4
    <2>7. /\ header' \in Seq(Byte)
          /\ pc = "header" => Len(header') = got'
        <3>1. CASE pc = "header"
            <4>1. header' = header \o Delivered(o)
                BY <2>1, <3>1
            <4>2. header' \in Seq(Byte) /\ Len(header') = Len(header) + Len(Delivered(o))
                <5>1. header \in Seq(Byte) /\ Delivered(o) \in Seq(Byte)
                    BY <1>c, <2>4
                <5>2. QED
                    BY <4>1, <5>1, ConcatProperties
            <4>3. QED
                BY <1>c, <2>4, <2>6, <3>1, <4>2
        <3>2. CASE pc # "header"
            BY <1>c, <2>1, <3>2
        <3>3. QED
            BY <3>1, <3>2
    <2>8. QED
        BY <1>b, <1>c, <1>d, <1>e, <2>2, <2>4, <2>5, <2>6, <2>7
        DEF TypeInv, TypeOK, ReadingPrologue
<1>4. CASE ReadFullyEof
    <2>1. PICK o \in ReadOutcomes(want - got) : o.n = 0 /\ read(want - got, o)
        BY <1>4 DEF ReadFullyEof
    <2>2. want - got \in Nat
        <3>1. got < want
            BY <1>4 DEF ReadFullyEof
        <3>2. QED
            BY <1>b, <3>1
    <2>3. SourceTypeOK'
        BY <1>a, <2>1, <2>2, ReadStep
    <2>4. AssemblerTypeOK'
        BY <1>a, <1>4, AssemblerUnchanged DEF ReadFullyEof
    <2>5. /\ pc' = "threw" /\ err' \in PrologueErrors
          /\ UNCHANGED <<chunk, header, want, got, remaining, version, view,
                         failed, stats, ret, out>>
        BY <1>4 DEF ReadFullyEof, Throw, prologue, PrologueErrors
    <2>6. QED
        BY <1>b, <1>c, <1>d, <1>e, <2>3, <2>4, <2>5
        DEF TypeInv, TypeOK, ReadingPrologue
<1>5. CASE RejectMagic
    <2>1. SourceTypeOK' /\ AssemblerTypeOK'
        BY <1>a, <1>5, SourceUnchanged, AssemblerUnchanged DEF RejectMagic
    <2>2. QED
        BY <1>5, <2>1
        DEF RejectMagic, Throw, prologue, PrologueErrors, TypeInv, TypeOK,
            ReadingPrologue
<1>6. CASE RejectVersion
    <2>1. SourceTypeOK' /\ AssemblerTypeOK'
        BY <1>a, <1>6, SourceUnchanged, AssemblerUnchanged DEF RejectVersion
    <2>2. Len(header) = 8
        BY <1>c, <1>6 DEF RejectVersion
    <2>3. header[4] \in Byte
        <3>1. header \in Seq(Byte) /\ 4 \in 1..Len(header)
            BY <1>c, <2>2
        <3>2. QED
            BY <3>1, ElementOfSeq
    <2>4. /\ pc' = "threw" /\ err' \in PrologueErrors /\ version' \in Byte
          /\ UNCHANGED <<chunk, header, want, got, remaining, view, failed,
                         stats, ret, out>>
        BY <1>6, <2>3 DEF RejectVersion, Throw, PrologueErrors
    <2>5. QED
        BY <1>b, <1>c, <1>d, <1>e, <2>1, <2>4 DEF TypeInv, TypeOK, ReadingPrologue
<1>7. CASE AcceptHeader
    <2>1. SourceTypeOK' /\ AssemblerTypeOK'
        BY <1>a, <1>7, SourceUnchanged, AssemblerUnchanged DEF AcceptHeader
    <2>2. Len(header) = 8
        BY <1>c, <1>7 DEF AcceptHeader
    <2>3. header[4] \in Byte /\ MetadataLen(header) \in Nat
        <3>1. header \in Seq(Byte) /\ 4 \in 1..Len(header) /\ Len(header) >= 8
            BY <1>c, <2>2
        <3>2. QED
            BY <3>1, ElementOfSeq, MetadataLenType
    <2>4. /\ pc' = "skip" /\ version' \in Byte /\ remaining' \in Nat
          /\ UNCHANGED <<chunk, header, want, got, view, failed, stats, err,
                         ret, out>>
        BY <1>7, <2>3 DEF AcceptHeader, result
    <2>5. QED
        BY <1>b, <1>c, <1>d, <1>e, <2>1, <2>4
        DEF TypeInv, TypeOK, ReadingPrologue, Constructing
<1>8. CASE NextMetadataPiece
    <2>1. SourceTypeOK' /\ AssemblerTypeOK'
        BY <1>a, <1>8, SourceUnchanged, AssemblerUnchanged DEF NextMetadataPiece
    <2>2. /\ want' = (IF remaining < chunk THEN remaining ELSE chunk) /\ got' = 0
          /\ pc' = "metadata"
          /\ UNCHANGED <<chunk, header, remaining, version, view, failed, stats,
                         err, ret, out>>
        BY <1>8 DEF NextMetadataPiece, StartReadFully, result
    <2>3. /\ want' \in Nat /\ got' \in Nat /\ got' <= want' /\ remaining' \in Nat
          /\ want' <= remaining'
        BY <1>b, <1>d, <2>2
    <2>4. /\ pc' \in Constructing /\ header' \in Seq(Byte)
          /\ UNCHANGED <<chunk, version, view, failed, stats, err, ret, out>>
        BY <1>c, <2>2 DEF Constructing
    <2>5. TypeOK'
        BY <1>d, <1>e, <2>1, <2>3, <2>4 DEF TypeOK
    <2>6. QED
        BY <2>2, <2>3, <2>5 DEF TypeInv, ReadingPrologue
<1>9. CASE MetadataPieceRead
    <2>1. SourceTypeOK' /\ AssemblerTypeOK'
        BY <1>a, <1>9, SourceUnchanged, AssemblerUnchanged DEF MetadataPieceRead
    <2>2. /\ pc = "metadata" /\ got = want /\ remaining' = remaining - got
          /\ pc' = "skip"
          /\ UNCHANGED <<chunk, header, want, got, version, view, failed, stats,
                         err, ret, out>>
        BY <1>9 DEF MetadataPieceRead, result
    <2>3. remaining' \in Nat
        BY <1>b, <2>2
    <2>4. QED
        BY <1>b, <1>c, <1>d, <1>e, <2>1, <2>2, <2>3
        DEF TypeInv, TypeOK, ReadingPrologue, Constructing
<1>10. CASE Constructed
    <2>1. SourceTypeOK' /\ AssemblerTypeOK'
        BY <1>a, <1>10, SourceUnchanged, AssemblerUnchanged DEF Constructed
    <2>2. QED
        BY <1>10, <2>1
        DEF Constructed, prologue, result, Returned, TypeInv, TypeOK,
            ReadingPrologue
<1>11. CASE Call
    <2>1. SourceTypeOK' /\ AssemblerTypeOK'
        BY <1>a, <1>11, SourceUnchanged, AssemblerUnchanged DEF Call
    <2>2. QED
        BY <1>11, <2>1
        DEF Call, prologue, result, Returned, TypeInv, TypeOK, ReadingPrologue
<1>12. CASE PullRecord
    <2>1. SourceTypeOK'
        BY <1>a, <1>12, SourceUnchanged DEF PullRecord
    <2>2. /\ AssemblerTypeOK'
          /\ read_pos' = read_pos + frame_one(Front).record_size
        BY <1>a, <1>12, NextType DEF PullRecord
    <2>3. read_pos \in Nat /\ frame_one(Front).record_size \in 0..MaxRecordSize
        BY <1>a, FrontType, FrameOne
    <2>4. /\ pc' = "route"
          /\ view' = [at |-> read_pos, len |-> frame_one(Front).record_size]
          /\ UNCHANGED <<chunk, header, want, got, remaining, version, failed,
                         stats, err, ret, out>>
        BY <1>12 DEF PullRecord, pull, prologue, result
    <2>5. /\ view' \in [at : Nat, len : 0..MaxRecordSize]
          /\ view'.at + view'.len = read_pos'
        BY <2>2, <2>3, <2>4
    <2>6. QED
        BY <1>b, <1>c, <1>d, <1>e, <2>1, <2>2, <2>4, <2>5
        DEF TypeInv, TypeOK, ReadingPrologue, Returned
<1>13. CASE PullNeedMore
    <2>1. SourceTypeOK' /\ AssemblerTypeOK'
        BY <1>a, <1>13, SourceUnchanged, NextType DEF PullNeedMore
    <2>2. QED
        BY <1>13, <2>1
        DEF PullNeedMore, prologue, result, Returned, TypeInv, TypeOK,
            ReadingPrologue
<1>14. CASE PullCorrupt
    <2>1. SourceTypeOK' /\ AssemblerTypeOK'
        BY <1>a, <1>14, SourceUnchanged, NextType DEF PullCorrupt
    <2>2. QED
        BY <1>14, <2>1
        DEF PullCorrupt, Return, prologue, Returned, TypeInv, TypeOK,
            ReadingPrologue
<1>15. CASE Route
    <2> DEFINE routed == route_record(Bytes(view))
    <2>1. SourceTypeOK' /\ AssemblerTypeOK'
        BY <1>a, <1>15, SourceUnchanged, AssemblerUnchanged DEF Route
    <2>2. Bytes(view) \in Seq(Byte)
        <3>0. view \in [at : Nat, len : 0..MaxRecordSize]
            BY <1>e
        <3>1. view.at \in Nat /\ view.len \in Nat
            BY <3>0 DEF MaxRecordSize
        <3>2. view.at + view.len = read_pos
            BY <1>e, <1>15 DEF Route
        <3>3. read_pos <= Len(buf)
            BY <1>a, FrontType
        <3>4. QED
            BY <1>a, <3>1, <3>2, <3>3, BytesType
    <2>3. /\ routed.outcome \in {"Emit", "SkipNonMbo", "SkipMalformed"}
          /\ routed.outcome = "Emit" => routed.event \in Event
        BY <2>2, RouteRecord
    <2> HIDE DEF routed
    <2>4. /\ stats' = tally(stats, routed)
          /\ \/ /\ routed.outcome = "Emit" /\ pc' = "ready" /\ ret' = "event"
                /\ out' = Append(out, routed.event)
             \/ pc' = "pull" /\ ret' = ret /\ out' = out
          /\ UNCHANGED <<chunk, header, want, got, remaining, version, failed,
                         err, view>>
        BY <1>15 DEF Route, Return, prologue, routed
    <2>5. stats' \in IngestStats
        <3>1. stats \in IngestStats
            BY <1>e
        <3>2. tally(stats, routed) \in IngestStats
            BY <2>3, <3>1, Tally
        <3>3. QED
            BY <2>4, <3>2
    <2>6. out' \in Seq(Event)
        <3>1. out \in Seq(Event)
            BY <1>e
        <3>2. CASE routed.outcome = "Emit" /\ out' = Append(out, routed.event)
            BY <2>3, <3>1, <3>2, AppendProperties
        <3>3. QED
            BY <2>4, <3>1, <3>2
    <2>7. QED
        BY <1>b, <1>c, <1>d, <1>e, <2>1, <2>4, <2>5, <2>6
        DEF TypeInv, TypeOK, ReadingPrologue, Returned
<1>16. CASE Refill
    <2>1. PICK o \in ReadOutcomes(chunk) :
              /\ read(chunk, o)
              /\ IF o.n = 0
                 THEN Return("nullopt") /\ UNCHANGED assembler
                 ELSE append(Delivered(o)) /\ pc' = "pull" /\ UNCHANGED ret
        BY <1>16 DEF Refill
    <2>2. SourceTypeOK' /\ Delivered(o) \in Seq(Byte)
        BY <1>a, <1>d, <2>1, ReadStep
    <2>3. AssemblerTypeOK'
        BY <1>a, <2>1, <2>2, AppendType, AssemblerUnchanged
    <2>4. /\ pc' \in {"ready", "pull"} /\ ret' \in {ret, "nullopt"}
          /\ UNCHANGED <<chunk, header, want, got, remaining, version, failed,
                         stats, err, out, view>>
        BY <1>16, <2>1 DEF Refill, Return, prologue
    <2>5. QED
        BY <1>b, <1>c, <1>d, <1>e, <2>2, <2>3, <2>4
        DEF TypeInv, TypeOK, ReadingPrologue, Returned
<1>17. CASE UNCHANGED vars
    <2>1. SourceTypeOK' /\ AssemblerTypeOK'
        BY <1>a, <1>17, SourceUnchanged, AssemblerUnchanged DEF vars
    <2>2. QED
        BY <1>17, <2>1
        DEF vars, prologue, result, assembler, TypeInv, TypeOK, ReadingPrologue
<1>18. QED
    BY <1>1, <1>2, <1>3, <1>4, <1>5, <1>6, <1>7, <1>8, <1>9, <1>10, <1>11,
       <1>12, <1>13, <1>14, <1>15, <1>16, <1>17
    DEF Next, Construct, Step, Gone

(* Every variable of the reader keeps its type, for every file, chunk size *)
(* and layout: in particular the cursor of the assembler stays inside its  *)
(* buffer and the metadata count never goes below zero.                    *)
THEOREM TypeCorrect == Spec => []TypeOK
<1>1. Spec => []TypeInv
    BY TypeInit, TypeNext, PTL DEF Spec
<1>2. TypeInv => TypeOK
    BY DEF TypeInv
<1>3. QED
    BY <1>1, <1>2, PTL

-----------------------------------------------------------------------------
(* The stitched window.  Stitched is not inductive by itself: the header   *)
(* and the metadata move the source but not the assembler, which is only   *)
(* harmless because the buffer is still empty then.  BufferBound needs to  *)
(* know that a chunk is read only when no whole record is held.            *)

Empty == buf = <<>> /\ read_pos = 0

EmptyUntilReady == pc \in Constructing => Empty

RefillWhenDry == pc = "refill" => frame_one(Front).status = "NeedMore"

StreamInv ==
    EmptyUntilReady /\ Stitched /\ ViewFresh /\ RefillWhenDry /\ BufferBound

(* What TypeInv says of the numbers the window is made of. *)
LEMMA WindowType ==
    ASSUME TypeInv
    PROVE  /\ SourceTypeOK /\ AssemblerTypeOK
           /\ file \in Seq(Byte) /\ Len(file) \in Nat
           /\ fpos \in Nat /\ fpos <= Len(file)
           /\ buf \in Seq(Byte) /\ Len(buf) \in Nat
           /\ read_pos \in Nat /\ read_pos <= Len(buf)
           /\ buffered \in Nat
           /\ Front \in Seq(Byte) /\ Len(Front) = buffered
           /\ chunk \in Nat
<1>1. SourceTypeOK /\ AssemblerTypeOK /\ chunk \in Nat
    BY ChunkAssumption DEF TypeInv, TypeOK
<1>2. /\ file \in Seq(Byte) /\ Len(file) \in Nat
      /\ fpos \in Nat /\ fpos <= Len(file)
    BY <1>1, LenProperties DEF SourceTypeOK
<1>3. QED
    BY <1>1, <1>2, FrontType

(* An empty buffer is a window of no bytes, wherever the source is. *)
LEMMA EmptyWindow ==
    TypeInv /\ Empty => Stitched /\ BufferBound
<1> SUFFICES ASSUME TypeInv, buf = <<>>, read_pos = 0
             PROVE  Stitched /\ BufferBound
    BY DEF Empty
<1>1. /\ fpos \in Nat /\ fpos <= Len(file) /\ file \in Seq(Byte)
      /\ Len(file) \in Nat
    BY WindowType
<1>2. buffered = 0 /\ Front = <<>>
    BY EmptySeq, SubSeqEmpty DEF buffered, Front
<1>3. Consumed = fpos
    BY <1>1, <1>2 DEF Consumed
<1>4. SubSeq(file, fpos + 1, fpos) = <<>>
    BY <1>1, SubSeqEmpty
<1>5. QED
    BY <1>1, <1>2, <1>3, <1>4 DEF Stitched, BufferBound

LEMMA StreamInit == Init => StreamInv
<1> SUFFICES ASSUME Init PROVE StreamInv
    OBVIOUS
<1>1. buf = <<>> /\ read_pos = 0 /\ pc = "open"
    BY DEF Init, AssemblerInit
<1>2. Stitched /\ BufferBound
    BY <1>1, TypeInit, EmptyWindow DEF Empty
<1>3. QED
    BY <1>1, <1>2 DEF StreamInv, EmptyUntilReady, Empty, ViewFresh, RefillWhenDry

(* Steps that touch neither the source nor the assembler. *)
LEMMA SameWindow ==
    ASSUME StreamInv, UNCHANGED <<source, assembler, chunk>>,
           pc' \in Constructing => pc \in Constructing,
           pc' = "route" => pc = "route" /\ view' = view,
           pc' = "refill" => frame_one(Front).status = "NeedMore"
    PROVE  StreamInv' /\ Consumed' = Consumed
<1>1. UNCHANGED <<file, fpos, buf, read_pos>>
    BY DEF source, assembler
<1>2. buffered' = buffered /\ Front' = Front
    BY <1>1 DEF buffered, Front
<1>3. Consumed' = Consumed
    BY <1>1, <1>2 DEF Consumed
<1>4. EmptyUntilReady' /\ RefillWhenDry'
    BY <1>1, <1>2 DEF StreamInv, EmptyUntilReady, Empty, RefillWhenDry
<1>5. Stitched' /\ BufferBound'
    BY <1>1, <1>2, <1>3 DEF StreamInv, Stitched, BufferBound
<1>6. ViewFresh'
    BY <1>1, <1>3 DEF StreamInv, ViewFresh, Bytes
<1>7. QED
    BY <1>3, <1>4, <1>5, <1>6 DEF StreamInv

(* A record is pulled: the window loses its first bytes, and the span      *)
(* shows exactly those.                                                    *)
LEMMA PullRecordStream ==
    ASSUME TypeInv, StreamInv, PullRecord
    PROVE  StreamInv' /\ Consumed' = Consumed + view'.len
<1> DEFINE n == frame_one(Front).record_size
           c == Consumed
<1>1. /\ file \in Seq(Byte) /\ Len(file) \in Nat
      /\ fpos \in Nat /\ fpos <= Len(file)
      /\ buf \in Seq(Byte) /\ Len(buf) \in Nat
      /\ read_pos \in Nat /\ read_pos <= Len(buf)
      /\ buffered = Len(buf) - read_pos /\ buffered \in Nat
      /\ Front \in Seq(Byte) /\ Len(Front) = buffered
    BY WindowType DEF buffered
<1>2. /\ buffered <= fpos /\ c = fpos - buffered
      /\ Front = SubSeq(file, c + 1, fpos)
    BY DEF StreamInv, Stitched, Consumed
<1>3. c \in Nat /\ c <= fpos
    BY <1>1, <1>2
<1>4. /\ read_pos' = read_pos + n
      /\ pc' = "route" /\ view' = [at |-> read_pos, len |-> n]
      /\ UNCHANGED <<file, fpos, buf, chunk>>
    BY DEF PullRecord, next, pull, source, prologue
<1>5. /\ n \in Nat /\ n <= buffered /\ Len(Front) >= 2
      /\ n = RecordSize(Front[1])
    <2>1. PullStatus(frame_one(Front).status) = "Record"
        BY DEF PullRecord, pull
    <2>2. frame_one(Front).status = "Ok"
        BY <1>1, <2>1, FrameOne DEF PullStatus
    <2>3. QED
        BY <1>1, <2>2, FrameOne
<1>6. n = RecordSize(file[c + 1])
    <2>1. Front[1] = file[c + 1]
        <3>1. \A i \in 1..(fpos - c) : SubSeq(file, c + 1, fpos)[i] = file[c + i]
            BY <1>1, <1>3, Slice
        <3>2. 1 \in 1..(fpos - c)
            BY <1>1, <1>2, <1>3, <1>5
        <3>3. QED
            BY <1>2, <3>1, <3>2
    <2>2. QED
        BY <1>5, <2>1
<1> HIDE DEF n, c
<1>7. /\ buffered' = buffered - n /\ buffered' <= fpos'
      /\ Consumed' = c + n
    <2>1. buffered' = Len(buf) - (read_pos + n)
        BY <1>4 DEF buffered
    <2>2. buffered' = buffered - n
        <3>1. /\ Len(buf) \in Nat /\ read_pos \in Nat /\ n \in Nat
              /\ buffered = Len(buf) - read_pos
            BY <1>1, <1>5
        <3>2. QED
            BY <2>1, <3>1
    <2>3. Consumed' = fpos - buffered'
        BY <1>4 DEF Consumed
    <2>4. Consumed' = c + n /\ buffered' <= fpos
        <3>1. /\ n \in Nat /\ buffered \in Nat /\ fpos \in Nat /\ n <= buffered
              /\ buffered <= fpos /\ c = fpos - buffered
            BY <1>1, <1>2, <1>5
        <3>2. QED
            BY <2>2, <2>3, <3>1
    <2>5. QED
        BY <1>4, <2>2, <2>4
<1>w. /\ SubSeq(buf, read_pos + 1, read_pos + n) = SubSeq(file, c + 1, c + n)
      /\ SubSeq(buf, read_pos + n + 1, Len(buf)) = SubSeq(file, c + n + 1, fpos)
    <2>1. Len(buf) - read_pos = fpos - c /\ n <= fpos - c
        BY <1>1, <1>2, <1>3, <1>5
    <2>2. SubSeq(buf, read_pos + 1, Len(buf)) = SubSeq(file, c + 1, fpos)
        BY <1>2 DEF Front
    <2>3. /\ buf \in Seq(Byte) /\ file \in Seq(Byte)
          /\ read_pos \in Nat /\ c \in Nat /\ fpos \in Nat /\ n \in Nat
          /\ read_pos <= Len(buf) /\ c <= fpos /\ fpos <= Len(file)
        BY <1>1, <1>3, <1>5
    <2>4. QED
        <3>1. n <= Len(buf) - read_pos /\ Len(buf) \in Nat /\ Len(buf) <= Len(buf)
            BY <1>1, <1>5
        <3>2. /\ SubSeq(SubSeq(buf, read_pos + 1, Len(buf)), 1, n)
                     = SubSeq(buf, read_pos + 1, read_pos + n)
              /\ SubSeq(SubSeq(buf, read_pos + 1, Len(buf)), n + 1,
                        Len(buf) - read_pos)
                     = SubSeq(buf, read_pos + n + 1, Len(buf))
            BY <2>3, <3>1, SplitSlice
        <3>3. /\ SubSeq(SubSeq(file, c + 1, fpos), 1, n)
                     = SubSeq(file, c + 1, c + n)
              /\ SubSeq(SubSeq(file, c + 1, fpos), n + 1, fpos - c)
                     = SubSeq(file, c + n + 1, fpos)
            BY <2>1, <2>3, SplitSlice
        <3>4. QED
            BY <2>1, <2>2, <3>2, <3>3, Zenon
<1>8. Front' = SubSeq(file, c + n + 1, fpos)
    BY <1>4, <1>w DEF Front
<1>9. Bytes(view)' = SubSeq(file, c + 1, c + n)
    BY <1>4, <1>w DEF Bytes
<1>10. Stitched'
    BY <1>4, <1>7, <1>8 DEF Stitched
<1>11. ViewFresh'
    <2>1. (c + n) - n = c
        BY <1>3, <1>5
    <2>2. view'.at = read_pos /\ view'.len = n
        BY <1>4
    <2>3. QED
        BY <1>4, <1>6, <1>7, <1>9, <2>1, <2>2 DEF ViewFresh
<1>12. EmptyUntilReady' /\ RefillWhenDry' /\ BufferBound'
    BY <1>4 DEF StreamInv, EmptyUntilReady, RefillWhenDry, BufferBound, Constructing
<1>13. Consumed' = Consumed + view'.len
    BY <1>4, <1>7 DEF c
<1>14. QED
    BY <1>10, <1>11, <1>12, <1>13 DEF StreamInv

(* A chunk is read: it continues the window, and the window held less than *)
(* a record before it.                                                     *)
LEMMA RefillStream ==
    ASSUME TypeInv, StreamInv, Refill
    PROVE  StreamInv' /\ Consumed' = Consumed
<1> DEFINE c == Consumed
<1>1. /\ file \in Seq(Byte) /\ Len(file) \in Nat
      /\ fpos \in Nat /\ fpos <= Len(file)
      /\ buffered \in Nat /\ chunk \in Nat
      /\ Front \in Seq(Byte) /\ Len(Front) = buffered
      /\ SourceTypeOK /\ AssemblerTypeOK
    BY WindowType
<1>2. /\ buffered <= fpos /\ c = fpos - buffered
      /\ Front = SubSeq(file, c + 1, fpos)
    BY DEF StreamInv, Stitched, Consumed
<1>3. c \in Nat /\ c <= fpos
    BY <1>1, <1>2
<1>4. PICK o \in ReadOutcomes(chunk) :
          /\ read(chunk, o)
          /\ IF o.n = 0
             THEN Return("nullopt") /\ UNCHANGED assembler
             ELSE append(Delivered(o)) /\ pc' = "pull" /\ UNCHANGED ret
    BY DEF Refill
<1>5. /\ file' = file /\ fpos' = fpos + o.n /\ fpos' <= Len(file)
      /\ o.n \in Nat /\ o.n <= chunk
      /\ Delivered(o) \in Seq(Byte) /\ Len(Delivered(o)) = o.n
    BY <1>1, <1>4, ReadStep
<1>6. chunk' = chunk /\ pc' \in {"ready", "pull"}
    BY <1>4 DEF Refill, Return, prologue
<1>7. CASE o.n = 0
    <2>1. UNCHANGED <<file, fpos, buf, read_pos>>
        BY <1>1, <1>4, <1>5, <1>7 DEF assembler
    <2>2. buffered' = buffered /\ Front' = Front
        BY <2>1 DEF buffered, Front
    <2>3. Consumed' = Consumed
        BY <2>1, <2>2 DEF Consumed
    <2>4. Stitched' /\ BufferBound'
        BY <1>6, <2>1, <2>2, <2>3 DEF StreamInv, Stitched, BufferBound
    <2>5. QED
        BY <1>6, <2>3, <2>4
        DEF StreamInv, EmptyUntilReady, ViewFresh, RefillWhenDry, Constructing
<1>8. CASE o.n # 0
    <2>1. /\ buf' = Front \o Delivered(o) /\ read_pos' = 0
          /\ Len(buf') = buffered + o.n
          /\ AssemblerTypeOK'
        BY <1>1, <1>4, <1>5, <1>8, AppendType
    <2>2. buf' \in Seq(Byte)
        BY <2>1 DEF AssemblerTypeOK
    <2>3. buffered' = buffered + o.n
        BY <1>1, <1>5, <2>1 DEF buffered
    <2>4. Front' = buf'
        BY <2>1, <2>2, SubSeqFull DEF Front
    <2>5. /\ Consumed' = c /\ buffered' <= fpos'
        BY <1>1, <1>2, <1>5, <2>3 DEF Consumed
    <2> HIDE DEF c
    <2>6. buf' = SubSeq(file, c + 1, fpos + o.n)
        <3>1. SubSeq(file, c + 1, fpos) \o SubSeq(file, fpos + 1, fpos + o.n)
                  = SubSeq(file, c + 1, fpos + o.n)
            <4>1. /\ fpos + o.n \in Nat /\ fpos <= fpos + o.n
                  /\ fpos + o.n <= Len(file)
                BY <1>1, <1>5
            <4>2. /\ file \in Seq(Byte) /\ c \in Nat /\ fpos \in Nat /\ c <= fpos
                BY <1>1, <1>3
            <4>3. QED
                BY <4>1, <4>2, SliceConcat, Zenon
        <3>2. QED
            BY <1>2, <2>1, <3>1 DEF Delivered
    <2>7. Stitched'
        BY <1>5, <2>4, <2>5, <2>6 DEF Stitched
    <2>8. BufferBound'
        <3> SUFFICES ASSUME buf' # <<>>
                     PROVE  Len(buf') <= chunk + (IF buf'[1] = 0 THEN 1
                                                  ELSE RecordSize(buf'[1]) - 1)
            BY <1>6 DEF BufferBound
        <3>1. Len(buf') \in Nat /\ 1 \in 1..Len(buf')
            BY <1>1, <1>5, <1>8, <2>1
        <3>2. buf'[1] \in Byte
            BY <2>2, <3>1, ElementOfSeq
        <3>3. /\ RecordSize(buf'[1]) \in Nat
              /\ buf'[1] # 0 => RecordSize(buf'[1]) >= 4
            BY <3>2, RecordSizes
        <3>4. CASE buffered < 2
            <4>1. Len(buf') <= chunk + 1
                BY <1>1, <1>5, <2>1, <3>4
            <4>2. CASE buf'[1] = 0
                BY <4>1, <4>2
            <4>3. CASE buf'[1] # 0
                <5>1. /\ RecordSize(buf'[1]) \in Nat
                      /\ RecordSize(buf'[1]) >= 4
                    BY <3>3, <4>3
                <5>2. Len(buf') <= chunk + (RecordSize(buf'[1]) - 1)
                    BY <4>1, <5>1, <3>1, <1>1
                <5>3. QED
                    BY <4>3, <5>2
            <4>4. QED
                BY <4>2, <4>3
        <3>5. CASE buffered >= 2
            <4>1. frame_one(Front).status = "NeedMore"
                BY DEF StreamInv, RefillWhenDry, Refill
            <4>2. Front[1] # 0 /\ buffered < RecordSize(Front[1])
                BY <1>1, <3>5, <4>1, FrameOne
            <4>3. buf'[1] = Front[1]
                BY <1>1, <1>5, <2>1, <3>5, ConcatProperties
            <4>4. /\ buf'[1] # 0 /\ RecordSize(buf'[1]) \in Nat
                  /\ buffered < RecordSize(buf'[1])
                BY <3>3, <4>2, <4>3
            <4>5. Len(buf') <= chunk + (RecordSize(buf'[1]) - 1)
                <5> DEFINE s == RecordSize(buf'[1])
                <5>1. /\ s \in Nat /\ buffered < s /\ buffered \in Nat
                      /\ chunk \in Nat /\ o.n \in Nat /\ o.n <= chunk
                      /\ Len(buf') = buffered + o.n
                    BY <1>1, <1>5, <2>1, <4>4
                <5> HIDE DEF s
                <5>2. Len(buf') <= chunk + (s - 1)
                    BY <5>1
                <5>3. QED
                    BY <5>2 DEF s
            <4>6. QED
                BY <4>4, <4>5
        <3>6. QED
            BY <1>1, <3>4, <3>5
    <2>9. Consumed' = Consumed
        BY <2>5 DEF c
    <2>10. QED
        BY <1>6, <2>7, <2>8, <2>9
        DEF StreamInv, EmptyUntilReady, ViewFresh, RefillWhenDry, Constructing
<1>9. QED
    BY <1>7, <1>8

LEMMA StreamNext == TypeInv /\ StreamInv /\ [Next]_vars => StreamInv'
<1> SUFFICES ASSUME TypeInv, StreamInv, [Next]_vars PROVE StreamInv'
    OBVIOUS
<1>1. CASE OpenFails \/ Open \/ RejectMagic \/ RejectVersion \/ AcceptHeader
    BY <1>1, SameWindow
    DEF OpenFails, Open, RejectMagic, RejectVersion, AcceptHeader, Throw,
        StartReadFully, prologue, Constructing
<1>2. CASE NextMetadataPiece \/ MetadataPieceRead \/ Constructed \/ Call
    BY <1>2, SameWindow
    DEF NextMetadataPiece, MetadataPieceRead, Constructed, Call,
        StartReadFully, prologue, Constructing
<1>3. CASE ReadFully \/ ReadFullyEof
    <2>1. /\ buf' = buf /\ read_pos' = read_pos
          /\ pc \in Constructing /\ pc' \in {pc, "threw"}
        BY <1>3 DEF ReadFully, ReadFullyEof, Throw, assembler, Constructing
    <2>2. Empty'
        BY <2>1 DEF StreamInv, EmptyUntilReady, Empty
    <2>3. TypeInv'
        BY TypeNext
    <2>4. Stitched' /\ BufferBound'
        BY <2>2, <2>3, EmptyWindow, PTL
    <2>5. QED
        BY <2>1, <2>2, <2>4
        DEF StreamInv, EmptyUntilReady, ViewFresh, RefillWhenDry, Constructing
<1>4. CASE PullRecord
    BY <1>4, PullRecordStream
<1>5. CASE PullNeedMore
    <2>1. frame_one(Front).status = "NeedMore" /\ Front \in Seq(Byte)
          /\ read_pos \in Nat
        BY <1>5, WindowType DEF PullNeedMore, pull, PullStatus
    <2>2. UNCHANGED assembler
        BY <1>5, <2>1, FrameOne DEF PullNeedMore, next, assembler
    <2>3. QED
        BY <1>5, <2>1, <2>2, SameWindow DEF PullNeedMore, prologue, Constructing
<1>6. CASE PullCorrupt
    <2>1. frame_one(Front).status = "Corrupt" /\ Front \in Seq(Byte)
          /\ read_pos \in Nat
        BY <1>6, WindowType DEF PullCorrupt, pull, PullStatus
    <2>2. UNCHANGED assembler
        BY <1>6, <2>1, FrameOne DEF PullCorrupt, next, assembler
    <2>3. QED
        BY <1>6, <2>2, SameWindow DEF PullCorrupt, Return, prologue, Constructing
<1>7. CASE Route
    <2>1. /\ UNCHANGED <<source, assembler, chunk>> /\ pc' \in {"ready", "pull"}
        BY <1>7 DEF Route, Return, prologue
    <2>2. QED
        BY <2>1, SameWindow DEF Constructing
<1>8. CASE Refill
    BY <1>8, RefillStream
<1>9. CASE UNCHANGED vars
    <2>1. UNCHANGED <<source, assembler, chunk, pc, view>>
        BY <1>9 DEF vars, prologue
    <2>2. QED
        BY <2>1, SameWindow DEF StreamInv, RefillWhenDry
<1>10. QED
    BY <1>1, <1>2, <1>3, <1>4, <1>5, <1>6, <1>7, <1>8, <1>9
    DEF Next, Construct, Step, Gone

LEMMA StreamInvariant == Spec => []StreamInv
<1>1. Spec => []TypeInv
    BY TypeInit, TypeNext, PTL DEF Spec
<1>2. QED
    BY <1>1, StreamInit, StreamNext, PTL DEF Spec

(* The assembler holds exactly the bytes of the file between the last      *)
(* record pulled and the source's position, for every file, chunk size,    *)
(* sequence of short reads and I/O error (append, next, Refill).           *)
THEOREM Stitching == Spec => []Stitched
<1>1. StreamInv => Stitched
    BY DEF StreamInv
<1>2. QED
    BY <1>1, StreamInvariant, PTL

(* The span RecordAssembler::next hands out still shows the framed bytes   *)
(* when route_record reads them.                                           *)
THEOREM SpanNeverDangles == Spec => []ViewFresh
<1>1. StreamInv => ViewFresh
    BY DEF StreamInv
<1>2. QED
    BY <1>1, StreamInvariant, PTL

(* The buffer of the assembler never outgrows one chunk and a tail shorter *)
(* than the record it begins, however long the file is.                    *)
THEOREM MemoryBounded == Spec => []BufferBound
<1>1. StreamInv => BufferBound
    BY DEF StreamInv
<1>2. QED
    BY <1>1, StreamInvariant, PTL

-----------------------------------------------------------------------------
(* The prologue.  The first record is framed where the source stands when  *)
(* the constructor returns, so NothingSkipped needs the whole account of   *)
(* read_fully_ and of the metadata loop: the bytes read and the bytes that *)
(* remain add up to the place the header names.                            *)

PrologueInv ==
    /\ pc = "open" => fpos = 0
    /\ pc = "header" => fpos = got /\ header = SubSeq(file, 1, fpos)
    /\ pc \in {"skip", "metadata"} => RecordStart(file) \in Nat
    /\ pc = "skip" => fpos + remaining = RecordStart(file)
    /\ pc = "metadata" => fpos + remaining = RecordStart(file) + got

LEMMA PrologueInit == Init => PrologueInv
BY DEF Init, SourceInit, PrologueInv

(* The header read so far grows with the file position. *)
LEMMA ReadFullyPrologue ==
    ASSUME TypeInv, PrologueInv, ReadFully
    PROVE  PrologueInv'
<1>1. PICK o \in ReadOutcomes(want - got) :
          /\ read(want - got, o)
          /\ got' = got + o.n
          /\ header' = IF pc = "header" THEN header \o Delivered(o) ELSE header
    BY DEF ReadFully
<1>2. /\ pc \in {"header", "metadata"} /\ got < want
      /\ UNCHANGED <<pc, remaining, want>>
    BY DEF ReadFully
<1>3. /\ SourceTypeOK /\ got \in Nat /\ want \in Nat /\ remaining \in Nat
    BY DEF TypeInv, TypeOK
<1>4. want - got \in Nat
    BY <1>2, <1>3
<1>5. /\ file' = file /\ fpos' = fpos + o.n /\ o.n \in Nat
      /\ fpos + o.n <= Len(file)
    BY <1>1, <1>3, <1>4, ReadStep
<1>6. file \in Seq(Byte) /\ fpos \in Nat /\ Len(file) \in Nat
    BY WindowType
<1>7. CASE pc = "header"
    <2>1. SubSeq(file, 0 + 1, fpos) \o SubSeq(file, fpos + 1, fpos + o.n)
              = SubSeq(file, 0 + 1, fpos + o.n)
        <3>1. /\ 0 \in Nat /\ fpos + o.n \in Nat
              /\ 0 <= fpos /\ fpos <= fpos + o.n
            BY <1>5, <1>6
        <3>2. QED
            BY <1>5, <1>6, <3>1, SliceConcat
    <2>2. fpos = got /\ header = SubSeq(file, 1, fpos)
        BY <1>7 DEF PrologueInv
    <2>3. header' = SubSeq(file, 1, fpos + o.n)
        <3>1. header' = header \o SubSeq(file, fpos + 1, fpos + o.n)
            BY <1>1, <1>7 DEF Delivered
        <3>2. 0 + 1 = 1
            OBVIOUS
        <3>3. QED
            BY <2>1, <2>2, <3>1, <3>2, Zenon
    <2>4. fpos' = got' /\ header' = SubSeq(file', 1, fpos') /\ pc' = "header"
        BY <1>1, <1>2, <1>5, <1>7, <2>2, <2>3
    <2>5. QED
        BY <2>4 DEF PrologueInv
<1>8. CASE pc = "metadata"
    <2>1. fpos + remaining = RecordStart(file) + got
        BY <1>8 DEF PrologueInv
    <2>2. RecordStart(file) \in Nat
        BY <1>8 DEF PrologueInv
    <2>3. (fpos + o.n) + remaining = RecordStart(file) + (got + o.n)
        <3>1. /\ fpos \in Nat /\ o.n \in Nat /\ remaining \in Nat /\ got \in Nat
            BY <1>3, <1>5, <1>6
        <3>2. QED
            BY <2>1, <2>2, <3>1
    <2>4. RecordStart(file)' = RecordStart(file)
        BY <1>5 DEF RecordStart, MetadataLen
    <2>5. QED
        BY <1>1, <1>2, <1>5, <1>8, <2>2, <2>3, <2>4 DEF PrologueInv
<1>9. QED
    BY <1>2, <1>7, <1>8

(* A whole header is the first eight bytes of the file, so the place it    *)
(* names is the file's own RecordStart.                                    *)
LEMMA AcceptHeaderPrologue ==
    ASSUME TypeInv, PrologueInv, AcceptHeader
    PROVE  PrologueInv'
<1>1. /\ pc = "header" /\ got = want /\ pc' = "skip"
      /\ remaining' = MetadataLen(header)
      /\ UNCHANGED <<file, fpos>>
    BY DEF AcceptHeader, source
<1>2. /\ want = 8 /\ Len(header) = got /\ header \in Seq(Byte)
    BY <1>1 DEF TypeInv, TypeOK, ReadingPrologue
<1>3. fpos = got /\ header = SubSeq(file, 1, fpos)
    BY <1>1 DEF PrologueInv
<1>4. fpos = 8 /\ Len(header) >= 8
    BY <1>1, <1>2, <1>3
<1>5. \A i \in 1..8 : header[i] = file[i]
    <2>1. file \in Seq(Byte) /\ 8 <= Len(file) /\ 0 \in Nat /\ 8 \in Nat
        BY <1>4, WindowType
    <2>2. \A i \in 1..(8 - 0) : SubSeq(file, 0 + 1, 8)[i] = file[0 + i]
        BY <2>1, Slice
    <2>3. QED
        BY <1>3, <1>4, <2>2
<1>6. MetadataLen(file) = MetadataLen(header)
    BY <1>5 DEF MetadataLen
<1>7. MetadataLen(header) \in Nat
    BY <1>2, <1>4, MetadataLenType
<1>8. RecordStart(file) = 8 + MetadataLen(header) /\ RecordStart(file) \in Nat
    BY <1>6, <1>7 DEF RecordStart
<1>9. RecordStart(file)' = RecordStart(file)
    BY <1>1 DEF RecordStart, MetadataLen
<1>10. QED
    BY <1>1, <1>4, <1>8, <1>9 DEF PrologueInv

LEMMA PrologueNext == TypeInv /\ PrologueInv /\ [Next]_vars => PrologueInv'
<1> SUFFICES ASSUME TypeInv, PrologueInv, [Next]_vars PROVE PrologueInv'
    OBVIOUS
<1>a. file' = file => RecordStart(file)' = RecordStart(file)
    BY DEF RecordStart, MetadataLen
<1>b. got \in Nat /\ remaining \in Nat /\ fpos \in Nat
    BY WindowType DEF TypeInv, TypeOK
<1>1. CASE Open
    <2>1. fpos = 0 /\ header = <<>>
        BY <1>1 DEF Open, PrologueInv, TypeInv, ReadingPrologue
    <2>2. /\ pc' = "header" /\ got' = 0 /\ UNCHANGED <<file, fpos, header>>
        BY <1>1 DEF Open, StartReadFully, source
    <2>3. SubSeq(file, 1, 0) = <<>>
        BY WindowType, SubSeqEmpty
    <2>4. QED
        BY <2>1, <2>2, <2>3 DEF PrologueInv
<1>2. CASE ReadFully
    BY <1>2, ReadFullyPrologue
<1>3. CASE AcceptHeader
    BY <1>3, AcceptHeaderPrologue
<1>4. CASE NextMetadataPiece
    <2>1. /\ pc = "skip" /\ pc' = "metadata" /\ got' = 0
          /\ UNCHANGED <<file, fpos, remaining>>
        BY <1>4 DEF NextMetadataPiece, StartReadFully, source
    <2>2. fpos + remaining = RecordStart(file) /\ RecordStart(file) \in Nat
        BY <2>1 DEF PrologueInv
    <2>3. fpos + remaining = RecordStart(file) + 0
        BY <2>2
    <2>4. QED
        BY <1>a, <2>1, <2>2, <2>3 DEF PrologueInv
<1>5. CASE MetadataPieceRead
    <2>1. /\ pc = "metadata" /\ pc' = "skip" /\ remaining' = remaining - got
          /\ UNCHANGED <<file, fpos>>
        BY <1>5 DEF MetadataPieceRead, source
    <2>2. fpos + remaining = RecordStart(file) + got /\ RecordStart(file) \in Nat
        BY <2>1 DEF PrologueInv
    <2>3. fpos + (remaining - got) = RecordStart(file)
        BY <1>b, <2>2
    <2>4. QED
        BY <1>a, <2>1, <2>2, <2>3 DEF PrologueInv
<1>6. CASE OpenFails \/ ReadFullyEof \/ RejectMagic \/ RejectVersion
    BY <1>6
    DEF OpenFails, ReadFullyEof, RejectMagic, RejectVersion, Throw, PrologueInv
<1>7. CASE Constructed \/ Call \/ PullRecord \/ PullNeedMore \/ PullCorrupt
           \/ Route \/ Refill
    BY <1>7
    DEF Constructed, Call, PullRecord, PullNeedMore, PullCorrupt, Route, Refill,
        Return, PrologueInv
<1>8. CASE UNCHANGED vars
    BY <1>a, <1>8 DEF vars, source, prologue, PrologueInv
<1>9. QED
    BY <1>1, <1>2, <1>3, <1>4, <1>5, <1>6, <1>7, <1>8
    DEF Next, Construct, Step, Gone

(* The constructor hands over an empty buffer at the end of the prologue. *)
LEMMA FirstRecord ==
    ASSUME TypeInv, StreamInv, PrologueInv, Constructed
    PROVE  Consumed' = RecordStart(file)
<1>1. /\ pc = "skip" /\ remaining = 0 /\ UNCHANGED <<fpos, buf, read_pos>>
    BY DEF Constructed, source, assembler
<1>2. buf = <<>> /\ read_pos = 0
    BY <1>1 DEF StreamInv, EmptyUntilReady, Empty, Constructing
<1>3. fpos \in Nat /\ fpos + 0 = RecordStart(file)
    BY <1>1, WindowType DEF PrologueInv
<1>4. buffered' = 0
    BY <1>1, <1>2, EmptySeq DEF buffered
<1>5. QED
    BY <1>1, <1>3, <1>4 DEF Consumed

MovesByRecords ==
    /\ (pc \notin Returned /\ pc' \in Returned) => Consumed' = RecordStart(file)
    /\ pc \in Returned =>
          Consumed' = Consumed + (IF pc' = "route" THEN view'.len ELSE 0)

LEMMA MovesNext ==
    TypeInv /\ StreamInv /\ PrologueInv /\ [Next]_vars => [MovesByRecords]_vars
<1> SUFFICES ASSUME TypeInv, StreamInv, PrologueInv, Next
             PROVE  MovesByRecords \/ UNCHANGED vars
    OBVIOUS
<1>a. Consumed \in Int /\ Front \in Seq(Byte) /\ read_pos \in Nat
    BY WindowType DEF Consumed
<1>1. CASE OpenFails \/ Open \/ ReadFully \/ ReadFullyEof \/ RejectMagic
           \/ RejectVersion \/ AcceptHeader \/ NextMetadataPiece
           \/ MetadataPieceRead
    <2>1. pc \notin Returned /\ pc' \notin Returned
        BY <1>1
        DEF OpenFails, Open, ReadFully, ReadFullyEof, RejectMagic, RejectVersion,
            AcceptHeader, NextMetadataPiece, MetadataPieceRead, Throw, Returned
    <2>2. QED
        BY <2>1 DEF MovesByRecords
<1>2. CASE Constructed
    BY <1>2, FirstRecord DEF Constructed, MovesByRecords, Returned
<1>3. CASE Call \/ PullNeedMore \/ PullCorrupt \/ Route
    <2>1. UNCHANGED <<fpos, buf, read_pos>>
        <3>1. CASE Call \/ Route
            BY <3>1 DEF Call, Route, source, assembler
        <3>2. CASE PullNeedMore \/ PullCorrupt
            <4>1. frame_one(Front).status # "Ok"
                BY <3>2 DEF PullNeedMore, PullCorrupt, pull, PullStatus
            <4>2. QED
                BY <1>a, <3>2, <4>1, FrameOne
                DEF PullNeedMore, PullCorrupt, next, source
        <3>3. QED
            BY <1>3, <3>1, <3>2
    <2>2. Consumed' = Consumed
        BY <2>1 DEF Consumed, buffered
    <2>3. pc \in Returned /\ pc' \in Returned /\ pc' # "route"
        BY <1>3
        DEF Call, PullNeedMore, PullCorrupt, Route, Return, Returned
    <2>4. QED
        BY <1>a, <2>2, <2>3 DEF MovesByRecords
<1>4. CASE PullRecord
    BY <1>4, PullRecordStream DEF PullRecord, MovesByRecords, Returned
<1>5. CASE Refill
    <2>1. Consumed' = Consumed
        BY <1>5, RefillStream
    <2>2. pc \in Returned /\ pc' \in Returned /\ pc' # "route"
        BY <1>5 DEF Refill, Return, Returned
    <2>3. QED
        BY <1>a, <2>1, <2>2 DEF MovesByRecords
<1>6. QED
    BY <1>1, <1>2, <1>3, <1>4, <1>5 DEF Next, Construct, Step, Gone

(* The first record is framed at the end of the prologue, whatever pieces  *)
(* it was read in, and every later one where the record before it ends.    *)
THEOREM BackToBack == Spec => NothingSkipped
<1>1. Spec => []TypeInv
    BY TypeInit, TypeNext, PTL DEF Spec
<1>2. Spec => []PrologueInv
    BY <1>1, PrologueInit, PrologueNext, PTL DEF Spec
<1>3. Spec => [][MovesByRecords]_vars
    BY <1>1, <1>2, StreamInvariant, MovesNext, PTL DEF Spec
<1>4. QED
    BY <1>3 DEF NothingSkipped, MovesByRecords

=============================================================================
