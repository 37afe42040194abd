------------------------ MODULE MmapDbnReaderProofs ------------------------
(* Theorems about MmapDbnReader, and about TruncatedMapping, for every     *)
(* file, every layout and every page size.                                 *)
EXTENDS TruncatedMapping, DbnLemmas

(* InsideMapping is inductive once the cursor is known to be past the      *)
(* header when the end of the metadata is checked.                         *)
MapInv ==
    /\ file \in Seq(Byte)
    /\ cursor \in Nat
    /\ pc = "metadata" => cursor >= HeaderSize
    /\ InsideMapping

LEMMA MapInit == Init => MapInv
<1> SUFFICES ASSUME Init PROVE MapInv
    OBVIOUS
<1>1. file \in Seq(Byte)
    BY FilesAssumption DEF Init
<1>2. QED
    BY <1>1 DEF Init, MapInv, InsideMapping, Returned

(* What is left of the mapping, and the record framed at its front. *)
LEMMA RestInside ==
    ASSUME MapInv, pc \in Returned
    PROVE  /\ Len(file) \in Nat /\ cursor >= HeaderSize
           /\ frame_one(rest).record_size \in Nat
           /\ cursor + frame_one(rest).record_size <= Len(file)
<1>1. /\ file \in Seq(Byte) /\ cursor \in Nat
      /\ cursor \in HeaderSize..Len(file)
    BY DEF MapInv, InsideMapping
<1>2. Len(file) \in Nat
    BY <1>1, LenProperties
<1>3. cursor >= HeaderSize /\ cursor <= Len(file)
    BY <1>1, <1>2 DEF HeaderSize
<1>4. /\ rest \in Seq(Byte)
      /\ Len(rest) = Len(file) - cursor
    BY <1>1, <1>2, <1>3, Slice DEF rest
<1>5. /\ frame_one(rest).record_size \in Nat
      /\ frame_one(rest).record_size <= Len(rest)
    BY <1>4, FrameOne
<1>6. QED
    BY <1>1, <1>2, <1>3, <1>4, <1>5

LEMMA MapNext == MapInv /\ [Next]_vars => MapInv'
<1> SUFFICES ASSUME MapInv, [Next]_vars PROVE MapInv'
    OBVIOUS
<1>a. file \in Seq(Byte) /\ cursor \in Nat
    BY DEF MapInv
<1>b. Len(file) \in Nat
    BY <1>a, LenProperties
<1>1. CASE MapFails \/ RejectHeader \/ RejectMagic \/ RejectVersion \/ RejectMetadata
    <2>1. pc' = "threw" /\ UNCHANGED <<file, cursor>>
        BY <1>1 DEF MapFails, RejectHeader, RejectMagic, RejectVersion,
                    RejectMetadata, Throw
    <2>2. QED
        BY <1>a, <2>1 DEF MapInv, InsideMapping, Returned
<1>2. CASE Map
    BY <1>a, <1>2 DEF Map, MapInv, InsideMapping, Returned
<1>3. CASE AcceptHeader
    <2>1. /\ Len(file) >= 8 /\ pc' = "metadata" /\ file' = file
          /\ cursor' = HeaderSize + MetadataLen(file)
        BY <1>3 DEF AcceptHeader, HeaderSize
    <2>2. MetadataLen(file) \in Nat
        BY <1>a, <2>1, MetadataLenType
    <2>3. cursor' \in Nat /\ cursor' >= HeaderSize
        BY <2>1, <2>2 DEF HeaderSize
    <2>4. QED
        BY <1>a, <2>1, <2>3 DEF MapInv, InsideMapping, Returned
<1>4. CASE Constructed
    <2>1. /\ cursor >= HeaderSize /\ cursor <= Len(file)
          /\ pc' = "ready" /\ UNCHANGED <<file, cursor>>
        BY <1>4 DEF Constructed, MapInv
    <2>2. cursor \in HeaderSize..Len(file)
        BY <1>a, <1>b, <2>1 DEF HeaderSize
    <2>3. QED
        BY <1>a, <2>1, <2>2 DEF MapInv, InsideMapping
<1>5. CASE Call \/ Route \/ FrameNeedMore \/ FrameCorrupt
    <2>1. /\ pc \in Returned /\ pc' \in {"ready", "frame"}
          /\ UNCHANGED <<file, cursor>>
        BY <1>5 DEF Call, Route, FrameNeedMore, FrameCorrupt, Return, Returned
    <2>2. cursor \in HeaderSize..Len(file)
        BY <2>1 DEF MapInv, InsideMapping
    <2>3. QED
        BY <1>a, <2>1, <2>2 DEF MapInv, InsideMapping
<1>6. CASE FrameOk
    <2>1. /\ pc \in Returned /\ pc' = "route" /\ file' = file
          /\ cursor' = cursor + frame_one(rest).record_size
          /\ rec'.at + rec'.len = cursor'
        BY <1>6 DEF FrameOk, Returned
    <2>2. /\ cursor >= HeaderSize
          /\ frame_one(rest).record_size \in Nat
          /\ cursor + frame_one(rest).record_size <= Len(file)
        BY <2>1, RestInside
    <2>3. cursor' \in Nat /\ cursor' \in HeaderSize..Len(file)
        BY <1>a, <1>b, <2>1, <2>2 DEF HeaderSize
    <2>4. QED
        BY <1>a, <2>1, <2>3 DEF MapInv, InsideMapping
<1>7. CASE UNCHANGED vars
    BY <1>a, <1>7 DEF vars, result, MapInv, InsideMapping
<1>8. QED
    BY <1>1, <1>2, <1>3, <1>4, <1>5, <1>6, <1>7 DEF Next, Construct, Step, Gone

(* Whatever the file says of its metadata and of its records' lengths, the *)
(* subspan(cursor_) and the first(record_size) of next() stay inside the   *)
(* mapping.                                                                *)
THEOREM CursorStaysInside == Spec => []InsideMapping
<1>1. Spec => []MapInv
    BY MapInit, MapNext, PTL DEF Spec
<1>2. MapInv => InsideMapping
    BY DEF MapInv
<1>3. QED
    BY <1>1, <1>2, PTL

-----------------------------------------------------------------------------
(* Types.  TypeOK is inductive together with MapInv: the version byte and  *)
(* the bytes of a record are bytes only because they lie in the mapping.   *)

LEMMA TypeNext == MapInv /\ TypeOK /\ [Next]_vars => TypeOK'
<1> SUFFICES ASSUME MapInv, TypeOK, [Next]_vars PROVE TypeOK'
    OBVIOUS
<1>a. /\ MapInv' /\ file \in Seq(Byte) /\ Len(file) \in Nat
    BY MapNext, LenProperties DEF MapInv
<1>b. file' \in Seq(Byte) /\ cursor' \in Nat
    BY <1>a DEF MapInv
<1>c. Len(file) >= 8 => file[4] \in Byte
    <2>1. Len(file) >= 8 => 4 \in 1..Len(file)
        BY <1>a
    <2>2. QED
        BY <1>a, <2>1, ElementOfSeq
<1>1. CASE MapFails \/ Map \/ RejectHeader \/ RejectMagic \/ RejectMetadata
    BY <1>b, <1>1 DEF MapFails, Map, RejectHeader, RejectMagic, RejectMetadata, Throw,
                      result, TypeOK, Constructing, PrologueErrors
<1>2. CASE RejectVersion
    BY <1>b, <1>c, <1>2 DEF RejectVersion, Throw, TypeOK, PrologueErrors, HeaderSize
<1>3. CASE AcceptHeader
    BY <1>b, <1>c, <1>3 DEF AcceptHeader, result, TypeOK, Constructing, HeaderSize
<1>4. CASE Constructed \/ Call \/ FrameNeedMore \/ FrameCorrupt
    BY <1>b, <1>4 DEF Constructed, Call, FrameNeedMore, FrameCorrupt, Return, result,
                      TypeOK, Returned
<1>5. CASE FrameOk
    <2>1. rest \in Seq(Byte)
        <3>1. cursor \in Nat
            BY DEF MapInv
        <3>2. QED
            BY <1>a, <3>1, Slice DEF rest
    <2>2. frame_one(rest).record_size \in 0..MaxRecordSize
        BY <2>1, FrameOne
    <2>3. rec' \in [at : Nat, len : 0..MaxRecordSize]
        BY <1>5, <2>2 DEF FrameOk, MapInv
    <2>4. QED
        BY <1>b, <1>5, <2>3 DEF FrameOk, result, TypeOK, Returned
<1>6. CASE Route
    <2> DEFINE s == SubSeq(file, rec.at + 1, rec.at + rec.len)
               r == route_record(s)
    <2>1. s \in Seq(Byte)
        <3>1. /\ rec.at \in Nat /\ rec.len \in 0..MaxRecordSize
              /\ cursor \in HeaderSize..Len(file) /\ rec.at + rec.len = cursor
            BY <1>6 DEF Route, TypeOK, MapInv, InsideMapping, Returned
        <3>2. cursor \in Nat /\ cursor <= Len(file)
            BY <1>a, <3>1 DEF MapInv, HeaderSize
        <3>3. QED
            BY <1>a, <3>1, <3>2, Slice
    <2>2. /\ r.outcome \in {"Emit", "SkipNonMbo", "SkipMalformed"}
          /\ r.outcome = "Emit" => r.event \in Event
        BY <2>1, RouteRecord
    <2> HIDE DEF s
    <2>3. /\ stats' = tally(stats, r) /\ pc' \in {"ready", "frame"}
          /\ UNCHANGED <<file, cursor, version, rec, failed, err>>
          /\ \/ r.outcome = "Emit" /\ ret' = "event" /\ out' = Append(out, r.event)
             \/ UNCHANGED <<ret, out>>
        BY <1>6 DEF Route, Return, s
    <2> HIDE DEF r
    <2>4. /\ stats \in IngestStats /\ out \in Seq(Event)
          /\ ret \in {"none", "event", "nullopt"}
        BY DEF TypeOK
    <2>5. tally(stats, r) \in IngestStats
        BY <2>2, <2>4, Tally
    <2>6. r.outcome = "Emit" => Append(out, r.event) \in Seq(Event)
        BY <2>2, <2>4, AppendProperties
    <2>7. out' \in Seq(Event) /\ ret' \in {"none", "event", "nullopt"}
        BY <2>3, <2>4, <2>6
    <2>8. QED
        BY <1>b, <2>3, <2>5, <2>7 DEF TypeOK, Returned
<1>7. CASE UNCHANGED vars
    BY <1>7 DEF vars, result, TypeOK
<1>8. QED
    BY <1>1, <1>2, <1>3, <1>4, <1>5, <1>6, <1>7 DEF Next, Construct, Step, Gone

(* Every member of the mapped reader, and every Event next() returned, has *)
(* a value of its C++ type, whatever bytes are mapped.                     *)
THEOREM MmapTypeCorrect == Spec => []TypeOK
<1>1. Init => TypeOK
    <2> SUFFICES ASSUME Init PROVE TypeOK
        OBVIOUS
    <2>1. file \in Seq(Byte) /\ out \in Seq(Event)
        BY FilesAssumption, EmptySeq DEF Init
    <2>2. stats \in IngestStats /\ version \in Byte
        BY DEF Init, IngestStats, NoStats, Byte
    <2>3. rec \in [at : Nat, len : 0..MaxRecordSize]
        BY DEF Init, MaxRecordSize
    <2>4. QED
        BY <2>1, <2>2, <2>3 DEF Init, TypeOK, Constructing, PrologueErrors
<1>2. QED
    BY <1>1, MapInit, MapNext, TypeNext, PTL DEF Spec

-----------------------------------------------------------------------------
(* The contract.  MapInv is not enough to map the steps: when the          *)
(* constructor gives up or returns, the checks made so far have to add up  *)
(* to PrologueError(file), and the record that is routed has to be the one *)
(* the contract finds at its own position.                                 *)

HeaderGood ==
    /\ Len(file) >= HeaderSize /\ HasMagic(file)
    /\ file[4] = kSupportedDbnVersion
    /\ cursor = RecordStart(file)

Framed ==
    LET r == frame_one(SubSeq(file, rec.at + 1, Len(file))) IN
    /\ rec.at \in Nat /\ rec.at <= Len(file)
    /\ r.status = "Ok" /\ r.record_size = rec.len

RefInv ==
    /\ MapInv
    /\ pc \in Constructing \cup Returned \cup {"threw"}
    /\ pc = "metadata" => HeaderGood
    /\ pc = "route" => Framed

LEMMA RefInit == Init => RefInv
BY MapInit DEF Init, RefInv, Constructing

LEMMA RefNext == RefInv /\ [Next]_vars => RefInv'
<1> SUFFICES ASSUME RefInv, [Next]_vars PROVE RefInv'
    OBVIOUS
<1>a. MapInv /\ MapInv'
    BY MapNext DEF RefInv
<1>1. CASE MapFails \/ RejectHeader \/ RejectMagic \/ RejectVersion \/ RejectMetadata
    BY <1>a, <1>1 DEF MapFails, RejectHeader, RejectMagic, RejectVersion,
                      RejectMetadata, Throw, RefInv
<1>2. CASE Map \/ Constructed \/ Call \/ FrameNeedMore \/ FrameCorrupt
    BY <1>a, <1>2 DEF Map, Constructed, Call, FrameNeedMore, FrameCorrupt, Return,
                      RefInv, Constructing, Returned
<1>3. CASE AcceptHeader
    BY <1>a, <1>3 DEF AcceptHeader, RefInv, HeaderGood, RecordStart, Constructing
<1>4. CASE FrameOk
    <2>1. /\ rec'.at = cursor /\ rec'.len = frame_one(rest).record_size
          /\ frame_one(rest).status = "Ok"
          /\ file' = file /\ pc = "frame" /\ pc' = "route"
        BY <1>4 DEF FrameOk
    <2>2. cursor \in Nat /\ cursor <= Len(file)
        <3>1. Len(file) \in Nat
            BY <1>a, LenProperties DEF MapInv
        <3>2. QED
            BY <1>a, <2>1, <3>1 DEF MapInv, InsideMapping, Returned, HeaderSize
    <2>3. Framed'
        BY <2>1, <2>2 DEF Framed, rest
    <2>4. QED
        BY <1>a, <2>1, <2>3 DEF RefInv, Returned
<1>5. CASE Route
    BY <1>a, <1>5 DEF Route, Return, RefInv, Returned
<1>6. CASE UNCHANGED vars
    BY <1>a, <1>6 DEF vars, RefInv, HeaderGood, Framed
<1>7. QED
    BY <1>1, <1>2, <1>3, <1>4, <1>5, <1>6 DEF Next, Construct, Step, Gone

(* The operators of the contract are those of the reader: it instantiates  *)
(* Dbn with the same layout.                                               *)
LEMMA ContractOperators ==
    /\ \A b : Contract!frame_one(b) = frame_one(b)
    /\ \A r : Contract!route_record(r) = route_record(r)
    /\ \A s, r : Contract!tally(s, r) = tally(s, r)
    /\ \A f : Contract!RecordStart(f) = RecordStart(f)
    /\ \A f : Contract!PrologueError(f) = PrologueError(f)
    /\ Contract!NoStats = NoStats
<1>1. \A b : Contract!frame_one(b) = frame_one(b)
    BY DEF Contract!frame_one, frame_one, Contract!Frame, Frame,
           Contract!RecordSize, RecordSize
<1>2. \A w : Contract!to_event(w) = to_event(w)
    BY DEF Contract!to_event, to_event, Contract!ByteAt, ByteAt,
           Contract!is_valid_action, is_valid_action, Contract!Action, Action,
           Contract!is_valid_side, is_valid_side, Contract!Side, Side,
           Contract!EventOf, EventOf, Contract!Field, Field,
           Contract!EventFields, EventFields, Contract!NoEvent, NoEvent
<1>3. \A r : Contract!route_record(r) = route_record(r)
    BY <1>2 DEF Contract!route_record, route_record, Contract!Routed, Routed,
                Contract!kMboRtype, kMboRtype, Contract!NoEvent, NoEvent,
                Contract!EventFields, EventFields
<1>4. \A s, r : Contract!tally(s, r) = tally(s, r)
    BY DEF Contract!tally, tally
<1>5. \A f : Contract!RecordStart(f) = RecordStart(f)
    BY DEF Contract!RecordStart, RecordStart, Contract!HeaderSize, HeaderSize,
           Contract!MetadataLen, MetadataLen, Contract!LittleEndian, LittleEndian
<1>6. \A f : Contract!PrologueError(f) = PrologueError(f)
    BY <1>5 DEF Contract!PrologueError, PrologueError, Contract!HeaderSize,
                HeaderSize, Contract!HasMagic, HasMagic,
                Contract!kSupportedDbnVersion, kSupportedDbnVersion
<1>7. Contract!NoStats = NoStats
    BY DEF Contract!NoStats, NoStats
<1>8. QED
    BY <1>1, <1>3, <1>4, <1>5, <1>6, <1>7

LEMMA ContractInit == Init => Contract!Init
BY ContractOperators DEF Init, Contract!Init, Phase, Position, Constructing

(* Contract steps that leave everything the consumer sees as it was. *)
LEMMA Stutters ==
    ASSUME UNCHANGED <<file, failed, stats, err, ret, out>>,
           Phase' = Phase, Position' = Position
    PROVE  UNCHANGED Contract!contract
BY DEF Contract!contract

(* The record at the contract's position is the one that is routed. *)
LEMMA RoutedRecord ==
    ASSUME RefInv, pc = "route"
    PROVE  /\ Contract!frame_one(Contract!Rest).status = "Ok"
           /\ Contract!Record = SubSeq(file, rec.at + 1, rec.at + rec.len)
           /\ Position + Contract!frame_one(Contract!Rest).record_size = cursor
<1>1. Position = rec.at
    BY DEF Position, Constructing
<1>2. /\ rec.at \in Nat /\ rec.at <= Len(file) /\ file \in Seq(Byte)
      /\ rec.at + rec.len = cursor
    BY DEF RefInv, Framed, MapInv, InsideMapping
<1>3. Len(file) \in Nat
    BY <1>2, LenProperties
<1>4. Contract!Rest = SubSeq(file, rec.at + 1, Len(file))
    BY <1>1 DEF Contract!Rest
<1>5. /\ Contract!frame_one(Contract!Rest) = frame_one(SubSeq(file, rec.at + 1, Len(file)))
      /\ Contract!frame_one(Contract!Rest).status = "Ok"
      /\ Contract!frame_one(Contract!Rest).record_size = rec.len
    BY <1>4, ContractOperators DEF RefInv, Framed
<1>6. rec.len \in Nat /\ rec.len <= Len(file) - rec.at
    <2>1. /\ SubSeq(file, rec.at + 1, Len(file)) \in Seq(Byte)
          /\ Len(SubSeq(file, rec.at + 1, Len(file))) = Len(file) - rec.at
        BY <1>2, <1>3, Slice
    <2>2. QED
        BY <1>5, <2>1, FrameOne
<1>7. Contract!Record = SubSeq(SubSeq(file, rec.at + 1, Len(file)), 1, rec.len)
    BY <1>4, <1>5 DEF Contract!Record
<1>8. SubSeq(SubSeq(file, rec.at + 1, Len(file)), 1, rec.len)
          = SubSeq(file, rec.at + 1, rec.at + rec.len)
    BY <1>2, <1>6, FirstBytes
<1>9. QED
    BY <1>1, <1>2, <1>5, <1>7, <1>8

(* A constructor that throws names the first check the file fails. *)
LEMMA RefuseStep ==
    ASSUME RefInv, RejectHeader \/ RejectMagic \/ RejectVersion \/ RejectMetadata
    PROVE  Contract!Refuse
<1>a. file \in Seq(Byte)
    BY DEF RefInv, MapInv
<1>1. /\ pc \in Constructing /\ pc' = "threw"
      /\ UNCHANGED <<file, failed, stats, ret, out>>
    BY DEF RejectHeader, RejectMagic, RejectVersion, RejectMetadata, Throw,
           Constructing
<1>2. err' = PrologueError(file) /\ err' # "none"
    <2>1. CASE RejectHeader
        BY <1>a, <2>1, PrologueCases DEF RejectHeader, Throw, HeaderSize
    <2>2. CASE RejectMagic
        BY <1>a, <2>2, PrologueCases DEF RejectMagic, Throw, HeaderSize
    <2>3. CASE RejectVersion
        BY <1>a, <2>3, PrologueCases DEF RejectVersion, Throw, HeaderSize
    <2>4. CASE RejectMetadata
        <3>1. HeaderGood /\ RecordStart(file) > Len(file)
            BY <2>4 DEF RejectMetadata, RefInv, HeaderGood
        <3>2. PrologueError(file) = "truncated metadata"
            BY <1>a, <3>1, PrologueCases DEF HeaderGood, HeaderSize
        <3>3. QED
            BY <2>4, <3>2 DEF RejectMetadata, Throw
    <2>5. QED
        BY <2>1, <2>2, <2>3, <2>4
<1>3. /\ Phase = "new" /\ Phase' = "threw" /\ Position = 0 /\ Position' = 0
    BY <1>1 DEF Phase, Position, Constructing
<1>4. QED
    BY <1>1, <1>2, <1>3, ContractOperators DEF Contract!Refuse, Contract!Throw

LEMMA ContractNext == RefInv /\ [Next]_vars => [Contract!Next]_(Contract!contract)
<1> SUFFICES ASSUME RefInv, [Next]_vars
             PROVE  Contract!Next \/ UNCHANGED Contract!contract
    OBVIOUS
<1>a. file \in Seq(Byte) /\ cursor \in Nat /\ Len(file) \in Nat
    BY LenProperties DEF RefInv, MapInv
<1>1. CASE MapFails
    <2>1. /\ Phase = "new" /\ Phase' = "threw" /\ Position = 0 /\ Position' = 0
        BY <1>1 DEF MapFails, Throw, Phase, Position, Constructing
    <2>2. Contract!OpenFails
        BY <1>1, <2>1 DEF MapFails, Throw, Contract!OpenFails, Contract!Throw
    <2>3. QED
        BY <2>2 DEF Contract!Next
<1>2. CASE Map \/ AcceptHeader
    <2>1. Phase' = Phase /\ Position' = Position
        BY <1>2 DEF Map, AcceptHeader, Phase, Position, Constructing
    <2>2. QED
        BY <1>2, <2>1, Stutters DEF Map, AcceptHeader, result
<1>3. CASE RejectHeader \/ RejectMagic \/ RejectVersion \/ RejectMetadata
    BY <1>3, RefuseStep DEF Contract!Next
<1>4. CASE Constructed
    <2>1. /\ HeaderGood /\ cursor <= Len(file) /\ pc = "metadata" /\ pc' = "ready"
          /\ UNCHANGED <<file, cursor, failed, stats, err, ret, out>>
        BY <1>4 DEF Constructed, RefInv, result
    <2>2. PrologueError(file) = "none"
        BY <1>a, <2>1, PrologueCases DEF HeaderGood, HeaderSize
    <2>3. /\ Phase = "new" /\ Phase' = "ready" /\ Position' = RecordStart(file)
        BY <2>1 DEF Phase, Position, Constructing, HeaderGood
    <2>4. Contract!Construct
        BY <2>1, <2>2, <2>3, ContractOperators DEF Contract!Construct
    <2>5. QED
        BY <2>4 DEF Contract!Next
<1>5. CASE Call
    <2>1. /\ Phase = "ready" /\ Phase' = "pulling" /\ Position' = Position
        BY <1>5 DEF Call, Phase, Position, Constructing
    <2>2. Contract!Call
        BY <1>5, <2>1 DEF Call, result, Contract!Call
    <2>3. QED
        BY <2>2 DEF Contract!Next
<1>6. CASE FrameOk
    <2>1. Phase' = Phase /\ Position' = Position
        BY <1>6 DEF FrameOk, Phase, Position, Constructing
    <2>2. QED
        BY <1>6, <2>1, Stutters DEF FrameOk, result
<1>7. CASE Route
    <2> DEFINE routed == route_record(SubSeq(file, rec.at + 1, rec.at + rec.len))
    <2>1. /\ pc = "route" /\ stats' = tally(stats, routed)
          /\ UNCHANGED <<file, cursor, failed, err>>
          /\ \/ /\ routed.outcome = "Emit" /\ pc' = "ready" /\ ret' = "event"
                /\ out' = Append(out, routed.event)
             \/ /\ routed.outcome # "Emit" /\ pc' = "frame"
                /\ UNCHANGED <<ret, out>>
        BY <1>7 DEF Route, Return
    <2>2. /\ Contract!frame_one(Contract!Rest).status = "Ok"
          /\ Contract!route_record(Contract!Record) = routed
          /\ Position + Contract!frame_one(Contract!Rest).record_size = cursor
        BY <2>1, RoutedRecord, ContractOperators
    <2> HIDE DEF routed
    <2>3. Phase = "pulling" /\ Position' = cursor
        BY <2>1 DEF Phase, Position, Constructing
    <2>4. Contract!Consume
        BY <2>1, <2>2, <2>3, ContractOperators DEF Contract!Consume
    <2>5. CASE routed.outcome = "Emit"
        <3>1. Phase' = "ready"
            BY <2>1, <2>5 DEF Phase, Constructing
        <3>2. QED
            BY <2>1, <2>2, <2>4, <2>5, <3>1 DEF Contract!Emit, Contract!Next
    <2>6. CASE routed.outcome # "Emit"
        <3>1. Phase' = "pulling"
            BY <2>1, <2>6 DEF Phase, Constructing
        <3>2. QED
            BY <2>1, <2>2, <2>3, <2>4, <2>6, <3>1 DEF Contract!Skip, Contract!Next
    <2>7. QED
        BY <2>5, <2>6
<1>8. CASE FrameNeedMore \/ FrameCorrupt
    <2>1. /\ Phase = "pulling" /\ Phase' = "ready" /\ Position' = Position
          /\ Position = cursor
        BY <1>8 DEF FrameNeedMore, FrameCorrupt, Return, Phase, Position, Constructing
    <2>2. Contract!Rest = rest
        BY <2>1 DEF Contract!Rest, rest
    <2>3. Contract!End \/ Contract!Stop
        BY <1>8, <2>1, <2>2, ContractOperators
        DEF FrameNeedMore, FrameCorrupt, Return, Contract!End, Contract!Stop
    <2>4. QED
        BY <2>3 DEF Contract!Next
<1>9. CASE UNCHANGED vars
    BY <1>9, Stutters DEF vars, result, Phase, Position
<1>10. QED
    BY <1>1, <1>2, <1>3, <1>4, <1>5, <1>6, <1>7, <1>8, <1>9
    DEF Next, Construct, Step, Gone

(* The mapped reader is one implementation of the ingest contract: every   *)
(* step of its constructor and of next() is a step the contract allows or  *)
(* one its consumer cannot see, whatever the file holds (ADR 0021).        *)
THEOREM MmapImplementsContract == Spec => ImplementsContract
<1>1. Spec => []RefInv
    BY RefInit, RefNext, PTL DEF Spec
<1>2. QED
    BY <1>1, ContractInit, ContractNext, PTL DEF Spec, ImplementsContract, Contract!Spec

-----------------------------------------------------------------------------
(* The reference.  The cursor walks its boundaries, one record a step; so  *)
(* the decoding has to be carried along with the position, and it has to   *)
(* be known that nothing was returned before the constructor was done.     *)

DecodeInv ==
    /\ pc \notin Returned => out = <<>> /\ stats = NoStats
    /\ pc \in Returned => Decoded(file, Position, out, stats)

LEMMA DecodeNext == RefInv /\ DecodeInv /\ [Next]_vars => DecodeInv'
<1> SUFFICES ASSUME RefInv, DecodeInv, [Next]_vars PROVE DecodeInv'
    OBVIOUS
<1>a. file \in Seq(Byte)
    BY DEF RefInv, MapInv
<1>1. CASE MapFails \/ Map \/ AcceptHeader
           \/ RejectHeader \/ RejectMagic \/ RejectVersion \/ RejectMetadata
    BY <1>1 DEF MapFails, Map, AcceptHeader, RejectHeader, RejectMagic, RejectVersion,
                RejectMetadata, Throw, result, DecodeInv, Returned
<1>2. CASE Constructed
    <2>1. /\ HeaderGood /\ cursor <= Len(file) /\ pc = "metadata" /\ pc' = "ready"
          /\ UNCHANGED <<file, cursor, stats, out>>
        BY <1>2 DEF Constructed, RefInv, result
    <2>2. PrologueError(file) = "none"
        BY <1>a, <2>1, PrologueCases DEF HeaderGood, HeaderSize
    <2>3. Position' = RecordStart(file)
        BY <2>1 DEF Position, Constructing, HeaderGood
    <2>4. out = <<>> /\ stats = NoStats
        BY <2>1 DEF DecodeInv, Returned
    <2>5. Decoded(file, RecordStart(file), <<>>, NoStats)
        BY <1>a, <2>2, DecodedStart
    <2>6. QED
        BY <2>1, <2>3, <2>4, <2>5 DEF DecodeInv, Returned
<1>3. CASE Call \/ FrameOk \/ FrameNeedMore \/ FrameCorrupt
    <2>1. /\ pc \in Returned /\ pc' \in Returned /\ UNCHANGED <<file, stats, out>>
          /\ Position' = Position
        BY <1>3 DEF Call, FrameOk, FrameNeedMore, FrameCorrupt, Return, result,
                    Position, Constructing, Returned
    <2>2. QED
        BY <2>1 DEF DecodeInv
<1>4. CASE Route
    <2> DEFINE r == route_record(SubSeq(file, rec.at + 1, rec.at + rec.len))
    <2>1. /\ pc = "route" /\ stats' = tally(stats, r) /\ pc' \in {"ready", "frame"}
          /\ UNCHANGED <<file, cursor>>
          /\ out' = IF r.outcome = "Emit" THEN Append(out, r.event) ELSE out
        BY <1>4 DEF Route, Return
    <2>2. /\ Position = rec.at /\ Framed /\ rec.at + rec.len = cursor
        BY <2>1 DEF Position, Constructing, RefInv, MapInv, InsideMapping
    <2>3. Decoded(file, rec.at, out, stats)
        BY <2>1, <2>2 DEF DecodeInv, Returned
    <2>4. Decoded(file, rec.at + rec.len,
                  IF r.outcome = "Emit" THEN Append(out, r.event) ELSE out,
                  tally(stats, r))
        BY <1>a, <2>2, <2>3, DecodedStep DEF Framed
    <2>5. Position' = cursor
        BY <2>1 DEF Position, Constructing
    <2> HIDE DEF r
    <2>6. QED
        BY <2>1, <2>2, <2>4, <2>5 DEF DecodeInv, Returned
<1>5. CASE UNCHANGED vars
    BY <1>5 DEF vars, result, DecodeInv, Position
<1>6. QED
    BY <1>1, <1>2, <1>3, <1>4, <1>5 DEF Next, Construct, Step, Gone

(* The mapped reader decodes every file as the reference says: the Events  *)
(* it returned are those of the well-formed records before the cursor, in  *)
(* order, and the counters count all of them.                              *)
THEOREM MmapDecodesExactly == Spec => []DecodedExactly
<1>1. Init => DecodeInv
    BY DEF Init, DecodeInv, Returned
<1>2. DecodeInv => DecodedExactly
    BY DEF DecodeInv, DecodedExactly, Decoded
<1>3. QED
    BY <1>1, <1>2, RefInit, RefNext, DecodeNext, PTL DEF Spec

-----------------------------------------------------------------------------
(* The truncated mapping.  The reader is in one of three situations.  It   *)
(* reads what the original says (Intact); or the header itself was cut and *)
(* the constructor took zeros for its end (ShortHeader); or the cut went   *)
(* through the record it routed last, and there is nothing but zeros from  *)
(* the cursor on (CutRecord).  A length byte that is not zero is that of   *)
(* the original, so only the first leads to another record.                *)

Shrunk ==
    /\ original \in Seq(Byte) /\ length \in 0..Len(original)
    /\ file = Zeroed(original, length)

EventsBefore(f, p) == {q \in RecordsBefore(f, p) : IsWellFormed(f, q)}

RankIn(E, p) == Cardinality({q \in E : q <= p})

Agrees(f, p, o) ==
    \A q \in EventsBefore(f, p) : \A name \in EventFields :
        o[RankIn(EventsBefore(f, p), q)][name] = FieldAt(f, q, name)

GoodHeader(f) == Len(f) >= 8 /\ HasMagic(f) /\ f[4] = kSupportedDbnVersion

Intact ==
    /\ pc = "metadata" => cursor = RecordStart(original)
    /\ pc \in {"ready", "frame"} => Decoded(original, cursor, out, stats)
    /\ pc = "route" =>
          /\ Decoded(original, rec.at, out, stats)
          /\ IsWhole(original, rec.at) /\ rec.len = RecordLen(original, rec.at)
          /\ cursor = rec.at + rec.len

ShortHeader ==
    /\ pc # "route" /\ length < 8 /\ out = <<>> /\ stats = NoStats
    /\ 8 <= cursor /\ cursor <= RecordStart(original)
    /\ pc # "metadata" => cursor <= Len(original)

(* The record at q was routed when part of it was gone. *)
CutAt(q) ==
    /\ q \in Boundaries(original) /\ IsWhole(original, q)
    /\ cursor = q + RecordLen(original, q)
    /\ stats.records = Cardinality(RecordsBefore(original, q)) + 1
    /\ Agrees(original, q, out)
    /\ \/ Len(out) = Cardinality(EventsBefore(original, q))
       \/ Len(out) = Cardinality(EventsBefore(original, q)) + 1

CutRecord ==
    /\ pc \in {"ready", "frame"} /\ length < cursor
    /\ PrologueError(original) = "none" /\ out \in Seq(Event)
    /\ \E q \in Boundaries(original) : CutAt(q)

(* What holds at a clean end. *)
Finished ==
    LET R == RecordsBefore(original, Len(original))
        E == EventsBefore(original, Len(original))
    IN  /\ stats.records = Cardinality(R)
        /\ \A p \in E : (\E q \in R : p < q) =>
              /\ RankIn(E, p) <= Len(out)
              /\ \A name \in EventFields :
                    out[RankIn(E, p)][name] = FieldAt(original, p, name)
        /\ CutRecord \/ IsDecoding(original, Len(original), out, stats)

Ended ==
    ret = "nullopt" =>
        /\ pc \in {"ready", "frame"} /\ frame_one(rest).status # "Ok"
        /\ ~failed => Finished

ShrinkInv ==
    /\ Shrunk
    /\ cursor \in Nat
    /\ pc \in {"open", "prologue", "threw"} \/ pc = "metadata" \/ pc \in Returned
    /\ pc \notin Returned => out = <<>> /\ stats = NoStats /\ ret = "none"
    /\ pc = "metadata" \/ pc \in Returned =>
          GoodHeader(original) /\ (Intact \/ ShortHeader \/ CutRecord)
    /\ Ended

(* The bytes that are left. *)
LEMMA ZeroedBytes ==
    ASSUME NEW f \in Seq(Byte), NEW n \in Nat
    PROVE  /\ Zeroed(f, n) \in Seq(Byte) /\ Len(Zeroed(f, n)) = Len(f)
           /\ \A i \in 1..Len(f) : Zeroed(f, n)[i] = IF i <= n THEN f[i] ELSE 0
<1>1. Len(f) \in Nat /\ DOMAIN f = 1..Len(f)
    BY LenProperties
<1>2. \A i \in 1..Len(f) : f[i] \in Byte /\ 0 \in Byte
    BY ElementOfSeq DEF Byte
<1>3. Zeroed(f, n) \in [1..Len(f) -> Byte]
    BY <1>1, <1>2 DEF Zeroed
<1>4. Zeroed(f, n) \in Seq(Byte) /\ Len(Zeroed(f, n)) = Len(f)
    BY <1>1, <1>3, IsASeq, LenProperties
<1>5. QED
    BY <1>1, <1>4 DEF Zeroed

LEMMA ZeroedTwice ==
    ASSUME NEW f \in Seq(Byte), NEW n \in Nat, NEW m \in Nat, m <= n
    PROVE  Zeroed(Zeroed(f, n), m) = Zeroed(f, m)
<1>1. DOMAIN Zeroed(f, n) = DOMAIN f
    BY DEF Zeroed
<1>2. DOMAIN f \subseteq Nat
    BY LenProperties
<1>3. \A i \in DOMAIN f : i <= m => i <= n
    BY <1>2
<1>4. \A i \in DOMAIN f : Zeroed(f, n)[i] = IF i <= n THEN f[i] ELSE 0
    BY DEF Zeroed
<1>5. \A i \in DOMAIN f : (IF i <= m THEN Zeroed(f, n)[i] ELSE 0) = IF i <= m THEN f[i] ELSE 0
    BY <1>3, <1>4
<1>6. Zeroed(Zeroed(f, n), m) = [i \in DOMAIN f |-> IF i <= m THEN Zeroed(f, n)[i] ELSE 0]
    BY <1>1 DEF Zeroed
<1>7. QED
    BY <1>5, <1>6 DEF Zeroed

LEMMA ZeroedAll ==
    ASSUME NEW f \in Seq(Byte)
    PROVE  Zeroed(f, Len(f)) = f
<1>1. Len(f) \in Nat /\ f = [i \in 1..Len(f) |-> f[i]] /\ DOMAIN f = 1..Len(f)
    BY LenProperties
<1>2. \A i \in 1..Len(f) : (IF i <= Len(f) THEN f[i] ELSE 0) = f[i]
    BY <1>1
<1>3. QED
    BY <1>1, <1>2 DEF Zeroed

(* Before the cut nothing changed. *)
LEMMA ZeroedSlice ==
    ASSUME NEW f \in Seq(Byte), NEW n \in Nat, NEW a \in Nat, NEW b \in Nat,
           b <= n, b <= Len(f), a <= b
    PROVE  SubSeq(Zeroed(f, n), a + 1, b) = SubSeq(f, a + 1, b)
<1> DEFINE z == Zeroed(f, n)
           s == SubSeq(z, a + 1, b)
           t == SubSeq(f, a + 1, b)
<1>1. /\ z \in Seq(Byte) /\ Len(z) = Len(f) /\ Len(f) \in Nat
      /\ \A i \in 1..Len(f) : z[i] = IF i <= n THEN f[i] ELSE 0
    BY ZeroedBytes, LenProperties
<1> HIDE DEF z
<1>2. /\ s \in Seq(Byte) /\ Len(s) = b - a
      /\ \A i \in 1..(b - a) : s[i] = z[a + i]
    BY <1>1, Slice
<1>3. /\ t \in Seq(Byte) /\ Len(t) = b - a
      /\ \A i \in 1..(b - a) : t[i] = f[a + i]
    BY <1>1, Slice
<1>4. ASSUME NEW i \in 1..(b - a) PROVE z[a + i] = f[a + i]
    <2>1. a + i \in 1..Len(f) /\ a + i <= n
        BY <1>1
    <2>2. QED
        BY <1>1, <2>1
<1> HIDE DEF s, t
<1>5. s = t
    BY <1>2, <1>3, <1>4, SeqEqual
<1>6. QED
    BY <1>5 DEF s, t, z

(* A record whose length byte is left is a record of the original, and of  *)
(* its length.                                                             *)
LEMMA ZeroedWhole ==
    ASSUME NEW f \in Seq(Byte), NEW n \in Nat, NEW p \in 0..Len(f)
    PROVE  /\ IsWhole(Zeroed(f, n), p) <=> IsWhole(f, p) /\ p < n
           /\ p < n /\ p < Len(f) => RecordLen(Zeroed(f, n), p) = RecordLen(f, p)
<1>1. /\ Len(Zeroed(f, n)) = Len(f) /\ Len(f) \in Nat /\ p \in Nat
      /\ \A i \in 1..Len(f) : Zeroed(f, n)[i] = IF i <= n THEN f[i] ELSE 0
    BY ZeroedBytes, LenProperties
<1>2. CASE p < Len(f) /\ p < n
    <2>1. p + 1 \in 1..Len(f) /\ p + 1 <= n
        BY <1>1, <1>2
    <2>2. Zeroed(f, n)[p + 1] = f[p + 1]
        BY <1>1, <2>1
    <2>3. QED
        BY <1>1, <1>2, <2>2 DEF IsWhole, RecordLen
<1>3. CASE p < Len(f) /\ ~(p < n)
    <2>1. p + 1 \in 1..Len(f) /\ ~(p + 1 <= n)
        BY <1>1, <1>3
    <2>2. Zeroed(f, n)[p + 1] = 0
        BY <1>1, <2>1
    <2>3. QED
        BY <1>1, <1>3, <2>2 DEF IsWhole
<1>4. CASE ~(p < Len(f))
    BY <1>1, <1>4 DEF IsWhole
<1>5. QED
    BY <1>2, <1>3, <1>4

(* What frame_one finds in the zeroed rest. *)
LEMMA ZeroedFrame ==
    ASSUME NEW f \in Seq(Byte), NEW n \in Nat, NEW p \in 0..Len(f)
    PROVE  LET r == frame_one(SubSeq(Zeroed(f, n), p + 1, Len(Zeroed(f, n)))) IN
           /\ r.status = "Ok" <=> IsWhole(f, p) /\ p < n
           /\ r.status = "Ok" => r.record_size = RecordLen(f, p)
           /\ r.status = "NeedMore" => ~IsWhole(f, p)
           /\ r.status = "NeedMore" /\ n <= p => Len(f) - p < 2
<1> DEFINE z == Zeroed(f, n)
           b == SubSeq(z, p + 1, Len(z))
<1>1. /\ z \in Seq(Byte) /\ Len(z) = Len(f) /\ Len(f) \in Nat /\ p \in Nat /\ p <= Len(f)
      /\ \A i \in 1..Len(f) : z[i] = IF i <= n THEN f[i] ELSE 0
    BY ZeroedBytes, LenProperties
<1>2. /\ IsWhole(z, p) <=> IsWhole(f, p) /\ p < n
      /\ p < n /\ p < Len(f) => RecordLen(z, p) = RecordLen(f, p)
    BY ZeroedWhole
<1> HIDE DEF z
<1>3. /\ frame_one(b).status = "Ok" <=> IsWhole(z, p)
      /\ frame_one(b).status = "Ok" => frame_one(b).record_size = RecordLen(z, p)
    BY <1>1, FrameWhole
<1>4. /\ b \in Seq(Byte) /\ Len(b) = Len(f) - p
      /\ \A i \in 1..(Len(f) - p) : b[i] = z[p + i]
    BY <1>1, Slice
<1>5. frame_one(b).status = "NeedMore" => Len(b) < 2 \/ b[1] # 0
    BY <1>4, FrameOne
<1>6. ASSUME Len(f) - p < 2 PROVE ~IsWhole(f, p)
    <2>1. IsWhole(f, p) => After(f, p) \in 0..Len(f) /\ After(f, p) >= p + 4
        BY AfterIsLater
    <2>2. QED
        BY <1>1, <1>6, <2>1
<1>7. ASSUME ~(Len(f) - p < 2), b[1] # 0 PROVE p < n
    <2>1. 1 \in 1..(Len(f) - p) /\ p + 1 \in 1..Len(f)
        BY <1>1, <1>7
    <2>2. z[p + 1] # 0
        BY <1>4, <1>7, <2>1
    <2>3. p + 1 <= n
        BY <1>1, <2>1, <2>2
    <2>4. QED
        BY <1>1, <2>3
<1> HIDE DEF b
<1>8. frame_one(b).status = "NeedMore" => ~IsWhole(f, p)
    BY <1>2, <1>3, <1>4, <1>5, <1>6, <1>7
<1>9. frame_one(b).status = "NeedMore" /\ n <= p => Len(f) - p < 2
    <2>1. n <= p => ~(p < n)
        BY <1>1
    <2>2. QED
        BY <1>4, <1>5, <1>7, <2>1
<1>10. IsWhole(f, p) => p < Len(f)
    BY DEF IsWhole
<1>11. QED
    BY <1>2, <1>3, <1>8, <1>9, <1>10 DEF b, z

(* The action and the side are one byte each. *)
LEMMA OneByteField ==
    ASSUME NEW f \in Seq(Byte), NEW p \in Nat, p + SizeofWireMbo <= Len(f),
           NEW name \in {"action", "side"}
    PROVE  /\ p + Offset[name] + 1 \in 1..Len(f)
           /\ FieldAt(f, p, name)[1] = f[p + Offset[name] + 1]
<1>1. name \in WireMbo
    BY DEF WireMbo, EventFields
<1>2. Offset[name] \in Nat /\ Width[name] = 1 /\ Offset[name] + 1 <= SizeofWireMbo
    BY <1>1, LayoutAssumption
<1>3. Len(f) \in Nat /\ SizeofWireMbo \in Nat
    BY LenProperties, LayoutAssumption
<1>4. \A o \in Nat : o + 1 <= SizeofWireMbo =>
          /\ p + o + 1 \in 1..Len(f) /\ SubSeq(f, p + o + 1, p + o + 1)[1] = f[p + o + 1]
    <2> SUFFICES ASSUME NEW o \in Nat, o + 1 <= SizeofWireMbo
                 PROVE  /\ p + o + 1 \in 1..Len(f)
                        /\ SubSeq(f, p + o + 1, p + o + 1)[1] = f[p + o + 1]
        OBVIOUS
    <2> DEFINE q == p + o
    <2>1. q \in Nat /\ q + 1 \in Nat /\ q + 1 <= Len(f) /\ q + 1 \in 1..Len(f)
        BY <1>3
    <2> HIDE DEF q
    <2>2. 1 \in 1..((q + 1) - q)
        BY <2>1
    <2>3. SubSeq(f, q + 1, q + 1)[1] = f[q + 1]
        BY <2>1, <2>2, Slice
    <2>4. QED
        BY <2>1, <2>3 DEF q
<1>5. /\ p + Offset[name] + 1 \in 1..Len(f)
      /\ SubSeq(f, p + Offset[name] + 1, p + Offset[name] + 1)[1] = f[p + Offset[name] + 1]
    BY <1>2, <1>4
<1>6. QED
    BY <1>2, <1>5 DEF FieldAt

(* A byte that is not zero is one of the original: so a record that is     *)
(* well-formed after the cut was well-formed before.                       *)
LEMMA ZeroedWellFormed ==
    ASSUME NEW f \in Seq(Byte), NEW n \in Nat, NEW p \in 0..Len(f), IsWhole(f, p),
           p < n, IsWellFormed(Zeroed(f, n), p)
    PROVE  IsWellFormed(f, p)
<1> DEFINE z == Zeroed(f, n)
<1>1. /\ z \in Seq(Byte) /\ Len(z) = Len(f) /\ Len(f) \in Nat /\ p \in Nat
      /\ \A i \in 1..Len(f) : z[i] = IF i <= n THEN f[i] ELSE 0
    BY ZeroedBytes, LenProperties
<1>2. RecordLen(z, p) = RecordLen(f, p)
    BY ZeroedWhole DEF IsWhole
<1> HIDE DEF z
<1>3. \A i \in 1..Len(f) : z[i] # 0 => f[i] = z[i]
    BY <1>1
<1>4. IsWellFormed(z, p)
    BY DEF z
<1>5. z[p + 2] = 160 /\ RecordLen(z, p) = SizeofWireMbo
    BY <1>4 DEF IsWellFormed, IsMbo
<1>6. p + SizeofWireMbo <= Len(f) /\ p + 2 \in 1..Len(f)
    <2>1. /\ After(f, p) \in 0..Len(f) /\ After(f, p) >= p + 4
          /\ After(f, p) = p + RecordLen(f, p)
        BY AfterIsLater
    <2>2. After(f, p) = p + SizeofWireMbo
        BY <1>2, <1>5, <2>1
    <2>3. p + 2 \in 1..Len(f) /\ After(f, p) <= Len(f)
        BY <1>1, <2>1
    <2>4. QED
        BY <2>2, <2>3
<1>7. IsMbo(f, p)
    BY <1>2, <1>3, <1>5, <1>6 DEF IsMbo
<1>8. ASSUME NEW name \in {"action", "side"}, FieldAt(z, p, name)[1] # 0
      PROVE  FieldAt(f, p, name)[1] = FieldAt(z, p, name)[1]
    <2>1. /\ p + Offset[name] + 1 \in 1..Len(f)
          /\ FieldAt(f, p, name)[1] = f[p + Offset[name] + 1]
        BY <1>1, <1>6, OneByteField
    <2>2. FieldAt(z, p, name)[1] = z[p + Offset[name] + 1]
        BY <1>1, <1>6, OneByteField
    <2>3. QED
        BY <1>3, <1>8, <2>1, <2>2
<1>9. /\ FieldAt(z, p, "action")[1] \in {65, 67, 70, 77, 82, 84}
      /\ FieldAt(z, p, "side")[1] \in {65, 66, 78}
    BY <1>4 DEF IsWellFormed
<1>10. FieldAt(z, p, "action")[1] # 0 /\ FieldAt(z, p, "side")[1] # 0
    BY <1>9
<1>11. QED
    BY <1>7, <1>8, <1>9, <1>10 DEF IsWellFormed

(* What the router makes of a record of the original after a cut. *)
LEMMA ZeroedRoute ==
    ASSUME NEW f \in Seq(Byte), NEW n \in Nat, NEW p \in 0..Len(f), IsWhole(f, p)
    PROVE  LET r == route_record(SubSeq(Zeroed(f, n), p + 1, p + RecordLen(f, p))) IN
           r.outcome = "Emit" =>
               /\ IsWellFormed(f, p) /\ r.event \in Event
               /\ \A name \in EventFields : r.event[name] = FieldAt(Zeroed(f, n), p, name)
<1> DEFINE z == Zeroed(f, n)
           m == RecordLen(f, p)
           w == SubSeq(z, p + 1, p + m)
           r == route_record(w)
<1>1. /\ z \in Seq(Byte) /\ Len(z) = Len(f) /\ Len(f) \in Nat /\ p \in Nat
      /\ \A i \in 1..Len(f) : z[i] = IF i <= n THEN f[i] ELSE 0
    BY ZeroedBytes, LenProperties
<1>2. p + m \in Nat /\ p + m <= Len(f) /\ p + 4 <= p + m
    <2>1. /\ After(f, p) \in 0..Len(f) /\ After(f, p) >= p + 4
          /\ After(f, p) = p + m
        BY AfterIsLater
    <2> HIDE DEF m
    <2>2. QED
        BY <1>1, <2>1
<1>3. /\ IsWhole(z, p) <=> IsWhole(f, p) /\ p < n
      /\ p < n /\ p < Len(f) => RecordLen(z, p) = RecordLen(f, p)
    BY ZeroedWhole
<1>4. CASE p < n
    <2>1. IsWhole(z, p) /\ RecordLen(z, p) = m
        BY <1>3, <1>4 DEF IsWhole
    <2>2. /\ r.outcome = IF ~IsMbo(z, p) THEN "SkipNonMbo"
                         ELSE IF IsWellFormed(z, p) THEN "Emit" ELSE "SkipMalformed"
          /\ IsWellFormed(z, p) =>
                \A name \in EventFields : r.event[name] = FieldAt(z, p, name)
        <3> HIDE DEF z
        <3>1. QED
            BY <1>1, <2>1, RouteAgrees
    <2>3. r.outcome = "Emit" => IsWellFormed(z, p)
        BY <2>2
    <2>4. r.outcome = "Emit" => IsWellFormed(f, p)
        BY <1>4, <2>3, ZeroedWellFormed
    <2>5. r.outcome = "Emit" => r.event \in Event
        <3>1. w \in Seq(Byte)
            <4> HIDE DEF z, m
            <4>1. QED
                BY <1>1, <1>2, Slice
        <3>2. QED
            BY <3>1, RouteRecord
    <2>6. QED
        BY <2>2, <2>3, <2>4, <2>5
<1>5. CASE ~(p < n)
    <2> HIDE DEF z, m
    <2>1. 2 \in 1..((p + m) - p) /\ p + 2 \in 1..Len(f) /\ ~(p + 2 <= n)
        BY <1>1, <1>2, <1>5
    <2>2. w[2] = z[p + 2]
        BY <1>1, <1>2, <2>1, Slice
    <2>3. w[2] = 0
        BY <1>1, <2>1, <2>2
    <2> HIDE DEF w
    <2>4. r = Routed("SkipNonMbo", NoEvent)
        BY <2>3 DEF route_record, kMboRtype
    <2>5. r.outcome # "Emit"
        BY <2>4 DEF Routed
    <2>6. QED
        BY <2>5 DEF w, m, z
<1>6. QED
    BY <1>4, <1>5

(* The Events before a boundary are the first ones of the file. *)
LEMMA Ranks ==
    ASSUME NEW f \in Seq(Byte), PrologueError(f) = "none", NEW b \in Boundaries(f)
    PROVE  LET E == EventsBefore(f, Len(f))
               D == EventsBefore(f, b)
           IN  /\ Cardinality(D) \in Nat /\ Cardinality(E) \in Nat
               /\ Cardinality(D) <= Cardinality(E)
               /\ \A p \in E : RankIn(E, p) \in Nat
               /\ \A p \in E : p < b =>
                     /\ p \in D /\ RankIn(D, p) = RankIn(E, p)
                     /\ RankIn(E, p) <= Cardinality(D)
               /\ \A p \in E : ~(p < b) => RankIn(E, p) > Cardinality(D)
               /\ \A p \in D : RankIn(D, p) \in 1..Cardinality(D)
<1> DEFINE E == EventsBefore(f, Len(f))
           D == EventsBefore(f, b)
<1>1. Boundaries(f) \subseteq 0..Len(f) /\ Len(f) \in Nat /\ b \in Nat /\ b <= Len(f)
    BY BoundaryFacts, LenProperties
<1>2. E \in SUBSET Nat /\ \A p \in E : p <= Len(f)
    BY <1>1 DEF EventsBefore, RecordsBefore
<1>3. D = {p \in E : p < b}
    <2>1. \A p \in Boundaries(f) : p < b => p < Len(f)
        BY <1>1
    <2>2. QED
        BY <2>1 DEF EventsBefore, RecordsBefore
<1> HIDE DEF E, D
<1>4. IsFiniteSet(E)
    BY <1>1, <1>2, FS_BoundedSetOfNaturals
<1>5. \A S \in SUBSET E : IsFiniteSet(S) /\ Cardinality(S) \in Nat
    BY <1>4, FS_Subset, FS_CardinalityType
<1>6. \A S, T \in SUBSET E : S \subseteq T => Cardinality(S) <= Cardinality(T)
    BY <1>5, FS_Subset
<1>7. D \in SUBSET E /\ E \in SUBSET E
    BY <1>3
<1>8. ASSUME NEW p \in E PROVE {q \in E : q <= p} \in SUBSET E /\ RankIn(E, p) \in Nat
    BY <1>5 DEF RankIn
<1>9. ASSUME NEW p \in E, p < b
      PROVE  /\ p \in D /\ RankIn(D, p) = RankIn(E, p)
             /\ RankIn(E, p) <= Cardinality(D)
    <2>1. \A q \in E : q <= p => q < b
        BY <1>1, <1>2, <1>9
    <2>2. {q \in D : q <= p} = {q \in E : q <= p} /\ {q \in E : q <= p} \subseteq D
        BY <1>3, <2>1
    <2>3. QED
        BY <1>3, <1>6, <1>7, <1>8, <1>9, <2>2 DEF RankIn
<1>10. ASSUME NEW p \in E, ~(p < b) PROVE RankIn(E, p) > Cardinality(D)
    <2>1. p \notin D /\ \A q \in D : q <= p
        BY <1>1, <1>2, <1>3, <1>10
    <2>2. D \cup {p} \subseteq {q \in E : q <= p}
        <3>1. p <= p
            BY <1>2
        <3>2. QED
            BY <1>7, <2>1, <3>1
    <2>3. Cardinality(D \cup {p}) = Cardinality(D) + 1
        BY <1>5, <1>7, <2>1, FS_AddElement
    <2>4. D \cup {p} \in SUBSET E
        BY <1>7
    <2>5. Cardinality(D \cup {p}) <= RankIn(E, p)
        BY <1>6, <1>8, <2>2, <2>4 DEF RankIn
    <2>6. Cardinality(D) \in Nat /\ RankIn(E, p) \in Nat
        BY <1>5, <1>7, <1>8
    <2>7. QED
        BY <2>3, <2>5, <2>6
<1>11. ASSUME NEW p \in D PROVE RankIn(D, p) \in 1..Cardinality(D)
    <2> DEFINE S == {q \in D : q <= p}
    <2>1. p \in S
        BY <1>2, <1>7
    <2>2. S \in SUBSET E /\ S \subseteq D
        BY <1>7
    <2> HIDE DEF S
    <2>3. Cardinality(S) \in Nat /\ Cardinality(S) <= Cardinality(D) /\ IsFiniteSet(S)
        BY <1>5, <1>6, <1>7, <2>2
    <2>4. Cardinality(S) # 0
        BY <2>1, <2>3, FS_EmptySet
    <2>5. Cardinality(D) \in Nat
        BY <1>5, <1>7
    <2>6. Cardinality(S) \in 1..Cardinality(D)
        BY <2>3, <2>4, <2>5
    <2>7. QED
        BY <2>6 DEF S, RankIn
<1>12. Cardinality(D) \in Nat /\ Cardinality(E) \in Nat /\ Cardinality(D) <= Cardinality(E)
    BY <1>5, <1>6, <1>7
<1>13. QED
    BY <1>8, <1>9, <1>10, <1>11, <1>12 DEF E, D

(* What agrees with the reference up to a boundary agrees with it on the   *)
(* first Events of the whole file.                                         *)
LEMMA FirstEvents ==
    ASSUME NEW f \in Seq(Byte), PrologueError(f) = "none", NEW b \in Boundaries(f),
           NEW o, Agrees(f, b, o), NEW p \in EventsBefore(f, Len(f)),
           RankIn(EventsBefore(f, Len(f)), p) <= Cardinality(EventsBefore(f, b)),
           NEW name \in EventFields
    PROVE  o[RankIn(EventsBefore(f, Len(f)), p)][name] = FieldAt(f, p, name)
<1> DEFINE E == EventsBefore(f, Len(f))
           D == EventsBefore(f, b)
<1>1. /\ Cardinality(D) \in Nat /\ RankIn(E, p) \in Nat
      /\ p < b => p \in D /\ RankIn(D, p) = RankIn(E, p)
      /\ ~(p < b) => RankIn(E, p) > Cardinality(D)
    BY Ranks
<1>2. p \in D /\ RankIn(D, p) = RankIn(E, p)
    BY <1>1
<1>3. QED
    BY <1>2 DEF Agrees

-----------------------------------------------------------------------------
(* ShrinkInv is inductive. *)

LEMMA ShrinkInit == TruncatedInit => ShrinkInv
<1> SUFFICES ASSUME TruncatedInit PROVE ShrinkInv
    OBVIOUS
<1>1. /\ original \in Seq(Byte) /\ original = file /\ length = Len(original)
      /\ pc = "open" /\ cursor = 0 /\ stats = NoStats /\ out = <<>> /\ ret = "none"
    BY FilesAssumption DEF TruncatedInit, Init
<1>2. Len(original) \in Nat /\ length \in 0..Len(original)
    BY <1>1, LenProperties
<1>3. Shrunk
    BY <1>1, <1>2, ZeroedAll DEF Shrunk
<1>4. QED
    BY <1>1, <1>3 DEF ShrinkInv, Ended, Returned

(* The cursor of a reader that was constructed is inside the original. *)
LEMMA CursorInside ==
    ASSUME ShrinkInv, pc \in {"ready", "frame"}
    PROVE  /\ cursor \in 0..Len(original) /\ Len(original) \in Nat
           /\ Intact => PrologueError(original) = "none" /\ cursor \in Boundaries(original)
           /\ CutRecord => cursor \in Boundaries(original)
<1>1. /\ original \in Seq(Byte) /\ cursor \in Nat /\ Len(original) \in Nat
      /\ Intact \/ ShortHeader \/ CutRecord
    BY LenProperties DEF ShrinkInv, Shrunk, Returned
<1>2. Intact => PrologueError(original) = "none" /\ cursor \in Boundaries(original)
    BY DEF Intact, Decoded
<1>3. CutRecord => PrologueError(original) = "none" /\ cursor \in Boundaries(original)
    BY <1>1, BoundaryStep DEF CutRecord, CutAt
<1>4. ShortHeader => cursor <= Len(original)
    BY DEF ShortHeader
<1>5. cursor \in Boundaries(original) /\ PrologueError(original) = "none"
          => cursor \in 0..Len(original)
    BY <1>1, BoundaryFacts
<1>6. QED
    BY <1>1, <1>2, <1>3, <1>4, <1>5

(* What frame_one finds at the cursor. *)
LEMMA RestIs ==
    ASSUME ShrinkInv, pc \in {"ready", "frame"}
    PROVE  /\ frame_one(rest).status = "Ok" <=> IsWhole(original, cursor) /\ cursor < length
           /\ frame_one(rest).status = "Ok" =>
                 frame_one(rest).record_size = RecordLen(original, cursor)
           /\ frame_one(rest).status = "NeedMore" => ~IsWhole(original, cursor)
           /\ frame_one(rest).status = "NeedMore" /\ length <= cursor =>
                 Len(original) - cursor < 2
<1>1. /\ original \in Seq(Byte) /\ length \in Nat /\ cursor \in 0..Len(original)
      /\ rest = SubSeq(Zeroed(original, length), cursor + 1, Len(Zeroed(original, length)))
    BY CursorInside, LenProperties DEF ShrinkInv, Shrunk, rest
<1>2. QED
    BY <1>1, ZeroedFrame

LEMMA ShrinkTruncate == ShrinkInv /\ Truncate => ShrinkInv'
<1> SUFFICES ASSUME ShrinkInv, Truncate PROVE ShrinkInv'
    OBVIOUS
<1>1. PICK n \in 0..(length - 1) : length' = n /\ file' = Zeroed(file, n)
    BY DEF Truncate
<1>2. /\ original \in Seq(Byte) /\ length \in 0..Len(original) /\ Len(original) \in Nat
      /\ file = Zeroed(original, length) /\ cursor \in Nat
    BY LenProperties DEF ShrinkInv, Shrunk
<1>3. n \in Nat /\ length \in Nat /\ n <= length /\ n < length /\ n \in 0..Len(original)
    BY <1>2
<1>4. UNCHANGED <<pc, cursor, rec, original, failed, stats, ret, out>>
    BY DEF Truncate, result
<1>5. file' = Zeroed(original, n)
    BY <1>1, <1>2, <1>3, ZeroedTwice
<1>6. Shrunk'
    BY <1>1, <1>2, <1>3, <1>4, <1>5 DEF Shrunk
<1>7. Intact => Intact'
    BY <1>4 DEF Intact
<1>8. ShortHeader => ShortHeader'
    BY <1>1, <1>3, <1>4 DEF ShortHeader
<1>9. CutRecord => CutRecord'
    <2>1. ASSUME NEW q, CutAt(q) PROVE CutAt(q)'
        BY <1>4, <2>1 DEF CutAt
    <2>2. length < cursor => length' < cursor
        BY <1>1, <1>2, <1>3
    <2>3. QED
        BY <1>4, <2>1, <2>2 DEF CutRecord
<1>10. Ended'
    <2> SUFFICES ASSUME ret = "nullopt"
                 PROVE  /\ pc \in {"ready", "frame"} /\ frame_one(rest').status # "Ok"
                        /\ ~failed => Finished'
        BY <1>4 DEF Ended
    <2>1. /\ pc \in {"ready", "frame"} /\ frame_one(rest).status # "Ok"
          /\ ~failed => Finished
        BY DEF ShrinkInv, Ended
    <2>2. ~(IsWhole(original, cursor) /\ cursor < length) /\ cursor \in 0..Len(original)
        BY <2>1, RestIs, CursorInside
    <2>3. ~(IsWhole(original, cursor) /\ cursor < n)
        BY <1>2, <1>3, <2>2
    <2>4. rest' = SubSeq(Zeroed(original, n), cursor + 1, Len(Zeroed(original, n)))
        BY <1>4, <1>5 DEF rest
    <2>5. frame_one(rest').status # "Ok"
        BY <1>2, <1>3, <2>2, <2>3, <2>4, ZeroedFrame
    <2>6. Finished => Finished'
        BY <1>4, <1>9 DEF Finished
    <2>7. QED
        BY <2>1, <2>5, <2>6
<1>11. QED
    BY <1>2, <1>4, <1>6, <1>7, <1>8, <1>9, <1>10 DEF ShrinkInv

(* A header that passes the checks after a cut passes them in the original. *)
LEMMA ZeroedHeader ==
    ASSUME NEW f \in Seq(Byte), NEW n \in Nat, GoodHeader(Zeroed(f, n))
    PROVE  /\ GoodHeader(f) /\ RecordStart(Zeroed(f, n)) \in Nat
           /\ 8 <= RecordStart(Zeroed(f, n)) /\ RecordStart(Zeroed(f, n)) <= RecordStart(f)
           /\ n >= 8 => RecordStart(Zeroed(f, n)) = RecordStart(f)
<1> DEFINE z == Zeroed(f, n)
<1>1. /\ z \in Seq(Byte) /\ Len(z) = Len(f) /\ Len(f) \in Nat
      /\ \A i \in 1..Len(f) : z[i] = IF i <= n THEN f[i] ELSE 0
    BY ZeroedBytes, LenProperties
<1>2. GoodHeader(z)
    OBVIOUS
<1> HIDE DEF z
<1>3. Len(f) >= 8 /\ \A i \in 1..8 : i \in 1..Len(f)
    BY <1>1, <1>2 DEF GoodHeader
<1>4. \A i \in 1..8 : z[i] # 0 => f[i] = z[i]
    BY <1>1, <1>3
<1>5. GoodHeader(f)
    <2>1. z[1] = 68 /\ z[2] = 66 /\ z[3] = 78 /\ z[4] = kSupportedDbnVersion
        BY <1>2 DEF GoodHeader, HasMagic
    <2>2. z[1] # 0 /\ z[2] # 0 /\ z[3] # 0 /\ z[4] # 0
        BY <2>1 DEF kSupportedDbnVersion
    <2>3. f[1] = z[1] /\ f[2] = z[2] /\ f[3] = z[3] /\ f[4] = z[4]
        BY <1>4, <2>2
    <2>4. QED
        BY <1>3, <2>1, <2>3 DEF GoodHeader, HasMagic
<1>6. RecordStart(z) \in Nat /\ 8 <= RecordStart(z)
    BY <1>1, <1>3, PrologueCases
<1>7. RecordStart(z) <= RecordStart(f)
    <2>1. \A i \in 1..Len(f) : z[i] \in {f[i], 0}
        BY <1>1
    <2>2. QED
        BY <1>1, <1>3, <2>1, ZerosShorten
<1>8. ASSUME n >= 8 PROVE RecordStart(z) = RecordStart(f)
    <2>1. z[5] = f[5] /\ z[6] = f[6] /\ z[7] = f[7] /\ z[8] = f[8]
        BY <1>1, <1>3, <1>8
    <2>2. QED
        BY <2>1 DEF RecordStart, MetadataLen
<1>9. QED
    BY <1>5, <1>6, <1>7, <1>8 DEF z

LEMMA ShrinkConstruct == ShrinkInv /\ (MapFails \/ Construct) /\ UNCHANGED <<original, length>>
                             => ShrinkInv'
<1> SUFFICES ASSUME ShrinkInv, MapFails \/ Construct, UNCHANGED <<original, length>>
             PROVE  ShrinkInv'
    OBVIOUS
<1>1. /\ original \in Seq(Byte) /\ length \in 0..Len(original) /\ Len(original) \in Nat
      /\ file = Zeroed(original, length) /\ cursor \in Nat /\ length \in Nat
    BY LenProperties DEF ShrinkInv, Shrunk
<1>2. file' = file => Shrunk'
    BY DEF ShrinkInv, Shrunk
<1>3. file \in Seq(Byte) /\ Len(file) = Len(original)
    BY <1>1, ZeroedBytes
<1>4. CASE MapFails \/ Map \/ RejectHeader \/ RejectMagic \/ RejectVersion \/ RejectMetadata
    <2>1. /\ pc \in {"open", "prologue", "metadata"} /\ pc' \in {"prologue", "threw"}
          /\ UNCHANGED <<file, cursor, stats, ret, out>>
        BY <1>4 DEF MapFails, Map, RejectHeader, RejectMagic, RejectVersion,
                    RejectMetadata, Throw, result
    <2>2. out = <<>> /\ stats = NoStats /\ ret = "none"
        BY <2>1 DEF ShrinkInv, Returned
    <2>3. QED
        BY <1>1, <1>2, <2>1, <2>2 DEF ShrinkInv, Ended, Returned
<1>5. CASE AcceptHeader
    <2>1. /\ pc = "prologue" /\ pc' = "metadata" /\ UNCHANGED <<file, stats, ret, out>>
          /\ cursor' = RecordStart(file) /\ GoodHeader(file)
        BY <1>5 DEF AcceptHeader, result, RecordStart, GoodHeader, HeaderSize
    <2>2. out = <<>> /\ stats = NoStats /\ ret = "none"
        BY <2>1 DEF ShrinkInv, Returned
    <2>3. /\ GoodHeader(original) /\ cursor' \in Nat
          /\ 8 <= cursor' /\ cursor' <= RecordStart(original)
          /\ length >= 8 => cursor' = RecordStart(original)
        BY <1>1, <2>1, ZeroedHeader
    <2>4. length >= 8 => Intact'
        BY <2>1, <2>3 DEF Intact
    <2>5. length < 8 => ShortHeader'
        BY <2>1, <2>2, <2>3 DEF ShortHeader
    <2>6. length >= 8 \/ length < 8
        BY <1>1
    <2>7. QED
        BY <1>2, <2>1, <2>2, <2>3, <2>4, <2>5, <2>6 DEF ShrinkInv, Ended, Returned
<1>6. CASE Constructed
    <2>1. /\ pc = "metadata" /\ pc' = "ready" /\ cursor <= Len(original)
          /\ UNCHANGED <<file, cursor, stats, ret, out>>
        BY <1>3, <1>6 DEF Constructed, result
    <2>2. /\ out = <<>> /\ stats = NoStats /\ ret = "none" /\ GoodHeader(original)
          /\ Intact \/ ShortHeader
        BY <2>1 DEF ShrinkInv, CutRecord, Returned
    <2>3. ASSUME Intact PROVE Intact'
        <3>1. cursor = RecordStart(original)
            BY <2>1, <2>3 DEF Intact
        <3>2. PrologueError(original) = "none"
            BY <1>1, <2>1, <2>2, <3>1, PrologueCases DEF GoodHeader
        <3>3. Decoded(original, RecordStart(original), <<>>, NoStats)
            BY <1>1, <3>2, DecodedStart
        <3>4. QED
            BY <2>1, <2>2, <3>1, <3>3 DEF Intact
    <2>4. ShortHeader => ShortHeader'
        BY <2>1 DEF ShortHeader
    <2>5. QED
        BY <1>1, <1>2, <2>1, <2>2, <2>3, <2>4 DEF ShrinkInv, Ended, Returned
<1>7. QED
    BY <1>4, <1>5, <1>6 DEF Construct

(* When nothing is left to frame, the cursor is past every whole record of *)
(* the original.                                                           *)
LEMMA NothingLeft ==
    ASSUME ShrinkInv, pc = "frame", frame_one(rest).status = "NeedMore"
    PROVE  Finished
<1> DEFINE R == RecordsBefore(original, Len(original))
           E == EventsBefore(original, Len(original))
<1>1. /\ original \in Seq(Byte) /\ cursor \in Nat /\ cursor \in 0..Len(original)
      /\ Len(original) \in Nat /\ length \in Nat /\ GoodHeader(original)
      /\ Intact \/ ShortHeader \/ CutRecord
    BY CursorInside DEF ShrinkInv, Shrunk, Returned
<1>2. ~IsWhole(original, cursor) /\ (length <= cursor => Len(original) - cursor < 2)
    BY RestIs
<1>3. CASE Intact
    <2>1. Decoded(original, cursor, out, stats)
        BY <1>3 DEF Intact
    <2>2. /\ PrologueError(original) = "none" /\ cursor \in Boundaries(original)
          /\ IsDecoding(original, cursor, out, stats)
        BY <2>1 DEF Decoded
    <2>3. R = RecordsBefore(original, cursor)
        BY <1>1, <1>2, <2>2, LastBoundary
    <2>4. IsDecoding(original, Len(original), out, stats)
        BY <2>2, <2>3 DEF IsDecoding
    <2>5. /\ stats.records = Cardinality(R) /\ Len(out) = Cardinality(E)
          /\ \A p \in E : \A name \in EventFields :
                out[RankIn(E, p)][name] = FieldAt(original, p, name)
        BY <2>4 DEF IsDecoding, EventsBefore, RankIn
    <2>6. E = EventsBefore(original, cursor)
        BY <2>3 DEF EventsBefore
    <2>7. \A p \in E : RankIn(E, p) \in 1..Cardinality(E) /\ Cardinality(E) \in Nat
        BY <1>1, <2>2, <2>6, Ranks
    <2>8. \A p \in E : RankIn(E, p) <= Len(out)
        BY <2>5, <2>7
    <2>9. QED
        BY <2>4, <2>5, <2>8 DEF Finished
<1>4. CASE ShortHeader
    <2> DEFINE s == RecordStart(original)
    <2>1. /\ length < 8 /\ 8 <= cursor /\ cursor <= s /\ stats = NoStats
          /\ out = <<>>
        BY <1>4 DEF ShortHeader
    <2>2. s \in Nat
        BY <1>1, PrologueCases DEF GoodHeader
    <2> HIDE DEF s
    <2>3. Len(original) < s + 2
        BY <1>1, <1>2, <2>1, <2>2
    <2>4. s <= Len(original) => s \in 0..Len(original)
        BY <1>1, <2>2
    <2>5. IsWhole(original, s) => s <= Len(original)
        BY <1>1, <2>2 DEF IsWhole
    <2>6. ASSUME s \in 0..Len(original), IsWhole(original, s) PROVE FALSE
        <3>1. After(original, s) \in 0..Len(original) /\ After(original, s) >= s + 4
            BY <1>1, <2>6, AfterIsLater
        <3>2. QED
            BY <1>1, <2>2, <2>3, <3>1
    <2>7. ~IsWhole(original, RecordStart(original))
        BY <2>4, <2>5, <2>6 DEF s
    <2>8. R = {} /\ E = {}
        BY <1>1, <2>7, NoRecords DEF EventsBefore
    <2>9. Cardinality({}) = 0 /\ Len(<<>>) = 0
        BY FS_EmptySet, EmptySeq
    <2>10. IsDecoding(original, Len(original), out, stats)
        <3>1. /\ {p \in R : IsWellFormed(original, p)} = {}
              /\ {p \in R : ~IsMbo(original, p)} = {}
              /\ {p \in R : IsMbo(original, p)} \ {} = {}
            BY <2>8
        <3>2. QED
            BY <2>1, <2>8, <2>9, <3>1 DEF IsDecoding, NoStats
    <2>11. stats.records = Cardinality(R)
        BY <2>1, <2>8, <2>9 DEF NoStats
    <2>12. QED
        BY <2>8, <2>10, <2>11 DEF Finished
<1>5. CASE CutRecord
    <2>1. PICK q \in Boundaries(original) : CutAt(q)
        BY <1>5 DEF CutRecord
    <2>2. PrologueError(original) = "none" /\ cursor \in Boundaries(original)
        BY <1>5, CursorInside DEF CutRecord
    <2>3. /\ RecordsBefore(original, cursor) = RecordsBefore(original, q) \cup {q}
          /\ IsFiniteSet(RecordsBefore(original, q)) /\ q \notin RecordsBefore(original, q)
          /\ q \in Nat /\ \A p \in RecordsBefore(original, q) : p \in Nat /\ p < q
        <3>1. /\ IsWhole(original, q) /\ cursor = q + RecordLen(original, q)
            BY <2>1 DEF CutAt
        <3>2. /\ RecordsBefore(original, cursor) = RecordsBefore(original, q) \cup {q}
              /\ \A p \in RecordsBefore(original, q) : p \in Nat /\ p < q
              /\ q \in Nat /\ IsFiniteSet(RecordsBefore(original, q))
            BY <1>1, <2>2, <3>1, RecordsGrow
        <3>3. ~(q < q)
            BY <3>2
        <3>4. QED
            BY <3>2, <3>3
    <2>4. Cardinality(RecordsBefore(original, cursor))
              = Cardinality(RecordsBefore(original, q)) + 1
        BY <2>3, OneMore
    <2>5. R = RecordsBefore(original, cursor)
        BY <1>1, <1>2, <2>2, LastBoundary
    <2>6. stats.records = Cardinality(R)
        BY <2>1, <2>4, <2>5 DEF CutAt
    <2>7. \A p \in R : p \in Nat /\ p <= q
        BY <2>3, <2>5
    <2>8. E \subseteq R
        BY DEF EventsBefore
    <2>9. ASSUME NEW p \in E, \E x \in R : p < x
          PROVE  /\ RankIn(E, p) <= Len(out)
                 /\ \A name \in EventFields :
                       out[RankIn(E, p)][name] = FieldAt(original, p, name)
        <3> DEFINE D == EventsBefore(original, q)
        <3>1. p < q
            BY <2>3, <2>7, <2>8, <2>9
        <3>2. /\ Cardinality(D) \in Nat /\ RankIn(E, p) \in Nat
              /\ RankIn(E, p) <= Cardinality(D)
            BY <1>1, <2>2, <3>1, Ranks
        <3>3. /\ Agrees(original, q, out)
              /\ Len(out) = Cardinality(D) \/ Len(out) = Cardinality(D) + 1
            BY <2>1 DEF CutAt
        <3>4. \A name \in EventFields :
                  out[RankIn(E, p)][name] = FieldAt(original, p, name)
            BY <1>1, <2>2, <3>2, <3>3, FirstEvents
        <3> HIDE DEF D, E
        <3>5. RankIn(E, p) <= Len(out)
            BY <3>2, <3>3
        <3>6. QED
            BY <3>4, <3>5
    <2>10. QED
        BY <1>5, <2>6, <2>9 DEF Finished
<1>6. QED
    BY <1>1, <1>3, <1>4, <1>5

LEMMA ShrinkCall ==
    ShrinkInv /\ (Call \/ FrameOk \/ FrameNeedMore \/ FrameCorrupt)
        /\ UNCHANGED <<original, length>> => ShrinkInv'
<1> SUFFICES ASSUME ShrinkInv, Call \/ FrameOk \/ FrameNeedMore \/ FrameCorrupt,
                    UNCHANGED <<original, length>>
             PROVE  ShrinkInv'
    OBVIOUS
<1>1. /\ pc \in {"ready", "frame"} /\ UNCHANGED <<file, stats, out>>
    BY DEF Call, FrameOk, FrameNeedMore, FrameCorrupt, result
<1>2. /\ cursor \in Nat /\ GoodHeader(original) /\ Shrunk' /\ length \in Nat
      /\ Intact \/ ShortHeader \/ CutRecord
    BY <1>1, LenProperties DEF ShrinkInv, Shrunk, Returned
<1>3. ASSUME pc' \in {"ready", "frame"}, cursor' = cursor
      PROVE  /\ Intact => Intact'
             /\ ShortHeader => ShortHeader'
             /\ CutRecord => CutRecord'
             /\ rest' = rest
    <2>1. \A q : CutAt(q) => CutAt(q)'
        BY <1>1, <1>3 DEF CutAt
    <2>2. CutRecord => CutRecord'
        BY <1>1, <1>3, <2>1 DEF CutRecord
    <2>3. Intact => Intact'
        BY <1>1, <1>3 DEF Intact
    <2>4. ShortHeader => ShortHeader'
        BY <1>1, <1>3 DEF ShortHeader
    <2>5. QED
        BY <1>1, <1>3, <2>2, <2>3, <2>4 DEF rest
<1>b. ASSUME pc' \in {"ready", "frame"}, cursor' = cursor, Finished PROVE Finished'
    BY <1>1, <1>3, <1>b DEF Finished
<1>4. CASE Call
    <2>1. pc = "ready" /\ pc' = "frame" /\ UNCHANGED <<cursor, ret, failed>>
        BY <1>4 DEF Call, result
    <2>2. Ended'
        BY <1>1, <1>3, <1>b, <2>1 DEF ShrinkInv, Ended
    <2>3. QED
        BY <1>1, <1>2, <1>3, <2>1, <2>2 DEF ShrinkInv, Returned
<1>5. CASE FrameNeedMore \/ FrameCorrupt
    <2>1. /\ pc = "frame" /\ pc' = "ready" /\ cursor' = cursor /\ ret' = "nullopt"
          /\ frame_one(rest).status # "Ok"
          /\ frame_one(rest).status = "NeedMore" \/ failed'
        BY <1>5 DEF FrameNeedMore, FrameCorrupt, Return
    <2>2. Ended'
        BY <1>1, <1>3, <1>b, <2>1, NothingLeft DEF Ended
    <2>3. QED
        BY <1>1, <1>2, <1>3, <2>1, <2>2 DEF ShrinkInv, Returned
<1>6. CASE FrameOk
    <2>1. /\ pc = "frame" /\ pc' = "route" /\ UNCHANGED ret
          /\ frame_one(rest).status = "Ok"
          /\ rec' = [at |-> cursor, len |-> frame_one(rest).record_size]
          /\ cursor' = cursor + frame_one(rest).record_size
        BY <1>6 DEF FrameOk, result
    <2>2. /\ IsWhole(original, cursor) /\ cursor < length
          /\ frame_one(rest).record_size = RecordLen(original, cursor)
        BY <1>1, <2>1, RestIs
    <2>3. ret # "nullopt"
        BY <2>1 DEF ShrinkInv, Ended
    <2>4. ~ShortHeader /\ ~CutRecord
        BY <1>2, <2>2 DEF ShortHeader, CutRecord
    <2>5. Decoded(original, cursor, out, stats)
        BY <1>2, <2>1, <2>4 DEF Intact
    <2>6. rec'.at = cursor /\ rec'.len = RecordLen(original, cursor)
        BY <2>1, <2>2
    <2>7. Intact'
        BY <1>1, <2>1, <2>2, <2>5, <2>6 DEF Intact
    <2>8. cursor' \in Nat
        <3>1. After(original, cursor) \in 0..Len(original) /\ Len(original) \in Nat
              /\ After(original, cursor) = cursor + RecordLen(original, cursor)
            BY <1>1, <2>2, CursorInside, AfterIsLater DEF ShrinkInv, Shrunk
        <3>2. QED
            BY <2>1, <2>2, <3>1
    <2>9. QED
        BY <1>2, <2>1, <2>3, <2>7, <2>8 DEF ShrinkInv, Ended, Returned
<1>7. QED
    BY <1>4, <1>5, <1>6

LEMMA ShrinkRoute == ShrinkInv /\ Route /\ UNCHANGED <<original, length>> => ShrinkInv'
<1> SUFFICES ASSUME ShrinkInv, Route, UNCHANGED <<original, length>> PROVE ShrinkInv'
    OBVIOUS
<1>a. PICK q, m : q = rec.at /\ m = rec.len
    OBVIOUS
<1> DEFINE r == route_record(SubSeq(file, q + 1, q + m))
           D == EventsBefore(original, q)
<1>1. /\ pc = "route" /\ stats' = tally(stats, r) /\ UNCHANGED <<file, cursor, rec>>
      /\ \/ /\ r.outcome = "Emit" /\ pc' = "ready" /\ ret' = "event"
            /\ out' = Append(out, r.event)
         \/ r.outcome # "Emit" /\ pc' = "frame" /\ UNCHANGED <<ret, out>>
    BY <1>a DEF Route, Return
<1>2. /\ original \in Seq(Byte) /\ length \in 0..Len(original) /\ Len(original) \in Nat
      /\ length \in Nat /\ file = Zeroed(original, length) /\ cursor \in Nat
      /\ GoodHeader(original) /\ Shrunk'
    BY <1>1, LenProperties DEF ShrinkInv, Shrunk, Returned
<1>3. ret # "nullopt"
    BY <1>1 DEF ShrinkInv, Ended
<1>4. Intact
    BY <1>1 DEF ShrinkInv, ShortHeader, CutRecord, Returned
<1>5. /\ Decoded(original, q, out, stats) /\ IsWhole(original, q)
      /\ m = RecordLen(original, q) /\ cursor = q + m
    BY <1>a, <1>1, <1>4 DEF Intact
<1>6. /\ PrologueError(original) = "none" /\ q \in Boundaries(original)
      /\ q \in 0..Len(original) /\ out \in Seq(Event) /\ stats \in IngestStats
    BY <1>2, <1>5, BoundaryFacts DEF Decoded
<1>7. q + m \in 0..Len(original) /\ q \in Nat /\ q <= q + m /\ q + m <= Len(original)
    <2>1. After(original, q) \in 0..Len(original) /\ q <= After(original, q)
          /\ After(original, q) = q + m
        BY <1>2, <1>5, <1>6, AfterIsLater
    <2>2. QED
        BY <1>2, <1>6, <2>1
<1>8. CASE cursor <= length
    <2>1. SubSeq(file, q + 1, q + m) = SubSeq(original, q + 1, q + m)
        <3>1. q + m \in Nat /\ q + m <= length
            BY <1>2, <1>5, <1>7, <1>8
        <3>2. QED
            BY <1>2, <1>7, <3>1, ZeroedSlice
    <2>2. /\ frame_one(SubSeq(original, q + 1, Len(original))).status = "Ok"
          /\ frame_one(SubSeq(original, q + 1, Len(original))).record_size = m
        BY <1>2, <1>5, <1>6, FrameWhole
    <2>3. Decoded(original, cursor,
                  IF r.outcome = "Emit" THEN Append(out, r.event) ELSE out,
                  tally(stats, r))
        BY <1>2, <1>5, <2>1, <2>2, DecodedStep
    <2> HIDE DEF r
    <2>4. Decoded(original, cursor', out', stats')
        BY <1>1, <2>3
    <2>5. Intact'
        BY <1>1, <2>4 DEF Intact
    <2>6. QED
        BY <1>1, <1>2, <1>3, <2>5 DEF ShrinkInv, Ended, Returned
<1>9. CASE length < cursor
    <2>1. /\ Cardinality(D) \in Nat
          /\ \A p \in D : RankIn(D, p) \in 1..Cardinality(D)
        BY <1>2, <1>6, Ranks
    <2>2. /\ Len(out) = Cardinality(D) /\ Agrees(original, q, out)
          /\ stats.records = Cardinality(RecordsBefore(original, q))
        BY <1>5 DEF Decoded, IsDecoding, Agrees, RankIn, EventsBefore
    <2>3. /\ r.outcome \in {"Emit", "SkipNonMbo", "SkipMalformed"}
          /\ r.outcome = "Emit" =>
                /\ IsWellFormed(original, q) /\ r.event \in Event
                /\ \A name \in EventFields :
                      r.event[name] = FieldAt(Zeroed(original, length), q, name)
        <3>1. file \in Seq(Byte) /\ Len(file) = Len(original)
            BY <1>2, ZeroedBytes
        <3>2. SubSeq(file, q + 1, q + m) \in Seq(Byte)
            BY <1>2, <1>7, <3>1, Slice
        <3>3. QED
            BY <1>2, <1>5, <1>6, <3>2, RouteRecord, ZeroedRoute
    <2> HIDE DEF r
    <2>4. stats'.records = Cardinality(RecordsBefore(original, q)) + 1
        BY <1>1, <1>6, <2>2, <2>3, Tally
    <2>5. CASE r.outcome # "Emit"
        <3>1. CutAt(q)'
            BY <1>1, <1>5, <1>6, <2>2, <2>4, <2>5 DEF CutAt
        <3>2. CutRecord'
            BY <1>1, <1>6, <1>9, <2>5, <3>1 DEF CutRecord
        <3>3. QED
            BY <1>1, <1>2, <1>3, <2>5, <3>2 DEF ShrinkInv, Ended, Returned
    <2>6. CASE r.outcome = "Emit"
        <3>1. /\ out' = Append(out, r.event) /\ pc' = "ready" /\ ret' = "event"
            BY <1>1, <2>6
        <3>2. /\ out' \in Seq(Event) /\ Len(out') = Cardinality(D) + 1
              /\ \A i \in 1..Cardinality(D) : out'[i] = out[i]
              /\ out'[Len(out')] = r.event
            BY <1>6, <2>2, <2>3, <2>6, <3>1, AppendProperties
        <3>3. Agrees(original, q, out')
            BY <2>1, <2>2, <3>2 DEF Agrees
        <3>4. CutAt(q)'
            BY <1>1, <1>5, <1>6, <2>4, <3>2, <3>3 DEF CutAt
        <3>5. CutRecord'
            BY <1>1, <1>6, <1>9, <3>1, <3>2, <3>4 DEF CutRecord
        <3>6. QED
            BY <1>1, <1>2, <3>1, <3>5 DEF ShrinkInv, Ended, Returned
    <2>7. QED
        BY <2>5, <2>6
<1>10. cursor <= length \/ length < cursor
    BY <1>2
<1>11. QED
    BY <1>8, <1>9, <1>10

LEMMA ShrinkStutter == ShrinkInv /\ UNCHANGED <<vars, original, length>> => ShrinkInv'
<1> SUFFICES ASSUME ShrinkInv, UNCHANGED <<vars, original, length>> PROVE ShrinkInv'
    OBVIOUS
<1>1. UNCHANGED <<file, pc, cursor, rec, failed, stats, ret, out, original, length>>
    BY DEF vars, result
<1>2. /\ Shrunk' = Shrunk /\ Intact' = Intact /\ ShortHeader' = ShortHeader
      /\ rest' = rest /\ \A q : CutAt(q)' = CutAt(q)
    BY <1>1 DEF Shrunk, Intact, ShortHeader, rest, CutAt
<1>3. CutRecord' = CutRecord
    BY <1>1, <1>2 DEF CutRecord
<1>4. Finished' = Finished
    BY <1>1, <1>3 DEF Finished
<1>5. QED
    BY <1>1, <1>2, <1>3, <1>4 DEF ShrinkInv, Ended

LEMMA ShrinkNext == ShrinkInv /\ [TruncatedNext]_tvars => ShrinkInv'
<1> SUFFICES ASSUME ShrinkInv, [TruncatedNext]_tvars PROVE ShrinkInv'
    OBVIOUS
<1>1. CASE Truncate
    BY <1>1, ShrinkTruncate
<1>2. CASE Next /\ UNCHANGED <<original, length>>
    BY <1>2, ShrinkConstruct, ShrinkCall, ShrinkRoute, ShrinkStutter
    DEF Next, Step, Gone
<1>3. CASE UNCHANGED <<vars, original, length>>
    BY <1>3, ShrinkStutter
<1>4. QED
    BY <1>1, <1>2, <1>3 DEF TruncatedNext, RunOn, Sigbus, Dead, tvars

-----------------------------------------------------------------------------
(* The last Event.  It is the record at some place of the original, with   *)
(* as many Events before it as were returned before, and it shows what the *)
(* file held when it was decoded; later truncations do not touch it.       *)

LastShown ==
    out # <<>> =>
        LET E == EventsBefore(original, Len(original)) IN
        \E p \in E :
            /\ RankIn(E, p) = Len(out)
            /\ \A name \in EventFields :
                  out[Len(out)][name] = FieldAt(Zeroed(original, shown), p, name)

(* An Event has one place more than there are Events before it. *)
LEMMA RankOfNext ==
    ASSUME NEW f \in Seq(Byte), PrologueError(f) = "none", NEW q \in Boundaries(f),
           IsWhole(f, q), IsWellFormed(f, q)
    PROVE  LET E == EventsBefore(f, Len(f)) IN
           q \in E /\ RankIn(E, q) = Cardinality(EventsBefore(f, q)) + 1
<1> DEFINE E == EventsBefore(f, Len(f))
           D == EventsBefore(f, q)
<1>1. /\ q \in Nat /\ IsFiniteSet(RecordsBefore(f, q))
      /\ \A p \in RecordsBefore(f, q) : p \in Nat /\ p < q
    BY RecordsGrow
<1>2. Boundaries(f) \subseteq 0..Len(f) /\ Len(f) \in Nat
    BY BoundaryFacts, LenProperties
<1>3. q \in E
    BY DEF EventsBefore, RecordsBefore, IsWhole
<1>4. D = {p \in E : p < q}
    <2>1. \A p \in Boundaries(f) : p < q => p < Len(f)
        BY <1>1, <1>2
    <2>2. QED
        BY <2>1 DEF EventsBefore, RecordsBefore
<1>5. IsFiniteSet(D)
    <2>1. D \subseteq RecordsBefore(f, q)
        BY DEF EventsBefore
    <2>2. QED
        BY <1>1, <2>1, FS_Subset
<1>6. E \subseteq Nat
    BY <1>2 DEF EventsBefore, RecordsBefore
<1> HIDE DEF E, D
<1>7. ~(q < q) /\ \A p \in E : (p <= q) <=> (p < q \/ p = q)
    BY <1>1, <1>6
<1>8. {p \in E : p <= q} = D \cup {q} /\ q \notin D
    BY <1>1, <1>3, <1>4, <1>7
<1>9. Cardinality(D \cup {q}) = Cardinality(D) + 1
    BY <1>5, <1>8, OneMore
<1>10. RankIn(E, q) = Cardinality(D) + 1
    BY <1>8, <1>9 DEF RankIn
<1>11. QED
    BY <1>3, <1>10 DEF E, D

LEMMA ShownNext == ShrinkInv /\ LastShown /\ [TruncatedNext]_tvars => LastShown'
<1> SUFFICES ASSUME ShrinkInv, LastShown, [TruncatedNext]_tvars PROVE LastShown'
    OBVIOUS
<1>1. original' = original
    BY DEF TruncatedNext, Truncate, RunOn, Sigbus, Dead, tvars
<1>2. CASE out' = out
    <2>1. shown' = shown
        BY <1>2 DEF TruncatedNext, Truncate, RunOn, Sigbus, Dead, tvars
    <2>2. QED
        BY <1>1, <1>2, <2>1 DEF LastShown
<1>3. CASE out' # out
    <2>1. Next /\ shown' = length /\ UNCHANGED <<original, length>>
        BY <1>3 DEF TruncatedNext, Truncate, RunOn, Sigbus, Dead, tvars, vars, result
    <2>2. Route
        BY <1>3, <2>1
        DEF Next, MapFails, Construct, Map, RejectHeader, RejectMagic, RejectVersion,
            AcceptHeader, RejectMetadata, Constructed, Throw, Call, Step, FrameOk,
            FrameNeedMore, FrameCorrupt, Gone, vars, result
    <2>3. PICK q, m : q = rec.at /\ m = rec.len
        OBVIOUS
    <2> DEFINE r == route_record(SubSeq(file, q + 1, q + m))
               E == EventsBefore(original, Len(original))
    <2>4. pc = "route" /\ r.outcome = "Emit" /\ out' = Append(out, r.event)
        BY <1>3, <2>2, <2>3 DEF Route, Return
    <2>5. /\ original \in Seq(Byte) /\ length \in Nat /\ file = Zeroed(original, length)
          /\ Intact
        BY <2>4, LenProperties DEF ShrinkInv, Shrunk, ShortHeader, CutRecord, Returned
    <2>6. /\ Decoded(original, q, out, stats) /\ IsWhole(original, q)
          /\ m = RecordLen(original, q)
        BY <2>3, <2>4, <2>5 DEF Intact
    <2>7. /\ PrologueError(original) = "none" /\ q \in Boundaries(original)
          /\ q \in 0..Len(original) /\ out \in Seq(Event)
          /\ Len(out) = Cardinality(EventsBefore(original, q))
        BY <2>5, <2>6, BoundaryFacts DEF Decoded, IsDecoding, EventsBefore
    <2>8. /\ IsWellFormed(original, q) /\ r.event \in Event
          /\ \A name \in EventFields :
                r.event[name] = FieldAt(Zeroed(original, length), q, name)
        BY <2>4, <2>5, <2>6, <2>7, ZeroedRoute
    <2>9. q \in E /\ RankIn(E, q) = Len(out) + 1
        BY <2>5, <2>6, <2>7, <2>8, RankOfNext
    <2> HIDE DEF r, E
    <2>10. Len(out') = Len(out) + 1 /\ out'[Len(out')] = r.event
        BY <2>4, <2>7, <2>8, AppendProperties
    <2>11. /\ q \in E /\ RankIn(E, q) = Len(out')
           /\ \A name \in EventFields :
                 out'[Len(out')][name] = FieldAt(Zeroed(original, shown'), q, name)
        BY <2>1, <2>8, <2>9, <2>10
    <2>12. QED
        BY <1>1, <2>11 DEF LastShown, E
<1>4. QED
    BY <1>2, <1>3

LEMMA TruncatedInvariant == TruncatedSpec => [](ShrinkInv /\ LastShown)
<1>1. TruncatedInit => LastShown
    BY DEF TruncatedInit, Init, LastShown
<1>2. QED
    BY <1>1, ShrinkInit, ShrinkNext, ShownNext, PTL DEF TruncatedSpec

(* What nullopt without failed() is worth when the file shrank under the   *)
(* mapping, for every file, every page size and every sequence of          *)
(* truncations: all whole records of the original were framed, every Event *)
(* but that of the last record was returned unharmed, and all of them if   *)
(* the file still has its records (next, frame_one, route_record).         *)
THEOREM CleanEndAfterTruncation == TruncatedSpec => []CleanEndHidesOnlyTheLast
<1>1. ShrinkInv => CleanEndHidesOnlyTheLast
    <2> SUFFICES ASSUME ShrinkInv, ret = "nullopt", ~failed
                 PROVE  CleanEndHidesOnlyTheLast
        BY DEF CleanEndHidesOnlyTheLast
    <2>1. Finished /\ length \in Nat /\ cursor \in Nat
        BY LenProperties DEF ShrinkInv, Ended, Shrunk
    <2>2. ASSUME CutRecord
          PROVE  \E p \in RecordsBefore(original, Len(original)) :
                     ~(p + RecordLen(original, p) <= length)
        <3>1. PICK q \in Boundaries(original) : CutAt(q)
            BY <2>2 DEF CutRecord
        <3>2. IsWhole(original, q) /\ cursor = q + RecordLen(original, q)
            BY <3>1 DEF CutAt
        <3>3. q \in RecordsBefore(original, Len(original))
            BY <3>2 DEF RecordsBefore, IsWhole
        <3>4. ~(cursor <= length)
            BY <2>1, <2>2 DEF CutRecord
        <3>5. QED
            BY <3>2, <3>3, <3>4
    <2>3. (\A p \in RecordsBefore(original, Len(original)) :
               p + RecordLen(original, p) <= length)
              => IsDecoding(original, Len(original), out, stats)
        BY <2>1, <2>2 DEF Finished
    <2>4. QED
        BY <2>1, <2>3 DEF Finished, CleanEndHidesOnlyTheLast, EventsBefore, RankIn
<1>2. QED
    BY <1>1, TruncatedInvariant, PTL

(* For every file, every page size and every sequence of truncations, the  *)
(* consumer of the mapped reader gets the Events of the original in order, *)
(* and only the last of them can show a cut, namely the file as it was     *)
(* when that Event was decoded (next, route_record, to_event).             *)
THEOREM TruncationTouchesOnlyTheLast == TruncatedSpec => []OnlyTheLastIsTouched
<1>1. ShrinkInv /\ LastShown => OnlyTheLastIsTouched
    <2> SUFFICES ASSUME ShrinkInv, LastShown, out # <<>> PROVE OnlyTheLastIsTouched
        BY DEF OnlyTheLastIsTouched
    <2> DEFINE E == EventsBefore(original, Len(original))
    <2>1. /\ original \in Seq(Byte) /\ pc \in Returned
          /\ Intact \/ CutRecord
        BY DEF ShrinkInv, Shrunk, ShortHeader
    <2>2. \E b \in Boundaries(original) :
              /\ PrologueError(original) = "none" /\ Agrees(original, b, out)
              /\ \/ Len(out) = Cardinality(EventsBefore(original, b))
                 \/ Len(out) = Cardinality(EventsBefore(original, b)) + 1
        <3>1. CASE Intact
            <4>1. PICK b : Decoded(original, b, out, stats)
                BY <2>1, <3>1 DEF Intact, Returned
            <4>2. QED
                BY <4>1 DEF Decoded, IsDecoding, Agrees, RankIn, EventsBefore
        <3>2. CASE CutRecord
            BY <3>2 DEF CutRecord, CutAt
        <3>3. QED
            BY <2>1, <3>1, <3>2
    <2>3. PICK b \in Boundaries(original) :
              /\ PrologueError(original) = "none" /\ Agrees(original, b, out)
              /\ \/ Len(out) = Cardinality(EventsBefore(original, b))
                 \/ Len(out) = Cardinality(EventsBefore(original, b)) + 1
        BY <2>2
    <2>4. ASSUME NEW p \in E, RankIn(E, p) < Len(out), NEW name \in EventFields
          PROVE  out[RankIn(E, p)][name] = FieldAt(original, p, name)
        <3>1. Cardinality(EventsBefore(original, b)) \in Nat /\ RankIn(E, p) \in Nat
            BY <2>1, <2>3, Ranks
        <3>2. RankIn(E, p) <= Cardinality(EventsBefore(original, b))
            BY <2>3, <2>4, <3>1
        <3>3. QED
            BY <2>1, <2>3, <3>2, FirstEvents
    <2>5. QED
        BY <2>4 DEF LastShown, OnlyTheLastIsTouched, EventsBefore, RankIn
<1>2. QED
    BY <1>1, TruncatedInvariant, PTL

=============================================================================
