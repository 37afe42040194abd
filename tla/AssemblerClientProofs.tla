----------------------- MODULE AssemblerClientProofs -----------------------
(***************************************************************************)
(* Theorems about a RecordAssembler in the hands of any client: for every  *)
(* set of chunks, every order of append() and next() and any number of     *)
(* bytes.                                                                  *)
(***************************************************************************)
EXTENDS AssemblerClient, DbnLemmas

(* The inductive invariant.  Position is read from fed at the last start,  *)
(* so that start has to lie inside fed before anything is known of it.     *)
StartInside == starts # <<>> => starts[Len(starts)] < Len(fed)

ClientInv ==
    /\ TypeOK
    /\ StartInside
    /\ NothingLost
    /\ DrainBounded
    /\ SpansIntact

-----------------------------------------------------------------------------
(* The numbers of a state. *)

(* The place where the next record begins is an index of fed, whatever the *)
(* last length byte was.                                                   *)
LEMMA PositionType ==
    ASSUME TypeOK, StartInside
    PROVE  Position \in Nat /\ Len(fed) \in Nat /\ Len(starts) \in Nat
<1>1. Len(fed) \in Nat /\ Len(starts) \in Nat
    BY LenProperties DEF TypeOK
<1>2. CASE starts = <<>>
    BY <1>1, <1>2 DEF Position
<1>3. CASE starts # <<>>
    <2> DEFINE s == starts[Len(starts)]
    <2>1. s \in Nat
        <3>1. starts \in Seq(Nat)
            BY DEF TypeOK
        <3>2. Len(starts) \in 1..Len(starts)
            BY <1>1, <1>3, <3>1, EmptySeq
        <3>3. QED
            BY <3>1, <3>2, ElementOfSeq
    <2>2. s < Len(fed)
        BY <1>3 DEF StartInside
    <2> HIDE DEF s
    <2>3. s + 1 \in 1..Len(fed)
        BY <1>1, <2>1, <2>2
    <2>4. fed[s + 1] \in Byte
        BY <2>3, ElementOfSeq DEF TypeOK
    <2>5. RecordSize(fed[s + 1]) \in Nat
        BY <2>4, RecordSizes
    <2>6. Position = s + RecordSize(fed[s + 1])
        BY <1>3 DEF Position, s
    <2>7. QED
        BY <1>1, <2>1, <2>5, <2>6
<1>4. QED
    BY <1>2, <1>3

(* What the assembler holds, seen from both sides: the unconsumed part of  *)
(* buf is the rest of fed.                                                 *)
LEMMA FrontIsRest ==
    ASSUME ClientInv
    PROVE  /\ buf \in Seq(Byte) /\ Len(buf) \in Nat
           /\ read_pos \in Nat /\ read_pos <= Len(buf)
           /\ Front \in Seq(Byte)
           /\ Len(Front) = Len(buf) - read_pos
           /\ Len(Front) = Len(fed) - Position
           /\ \A i \in 1..(Len(fed) - Position) : Front[i] = fed[Position + i]
<1>1. /\ buf \in Seq(Byte) /\ read_pos \in 0..Len(buf) /\ fed \in Seq(Byte)
    BY DEF ClientInv, TypeOK, AssemblerTypeOK
<1>2. Len(buf) \in Nat
    BY <1>1, LenProperties
<1>3. read_pos \in Nat /\ read_pos <= Len(buf) /\ Len(buf) <= Len(buf)
    BY <1>1, <1>2
<1>4. Front \in Seq(Byte) /\ Len(Front) = Len(buf) - read_pos
    BY <1>1, <1>2, <1>3, Slice DEF Front
<1>5. Position \in Nat /\ Len(fed) \in Nat
    BY PositionType DEF ClientInv
<1>6. Position <= Len(fed) /\ Len(fed) <= Len(fed)
    BY <1>5 DEF ClientInv, DrainBounded
<1>7. Front = SubSeq(fed, Position + 1, Len(fed))
    BY DEF ClientInv, NothingLost
<1>8. /\ Len(SubSeq(fed, Position + 1, Len(fed))) = Len(fed) - Position
      /\ \A i \in 1..(Len(fed) - Position) :
            SubSeq(fed, Position + 1, Len(fed))[i] = fed[Position + i]
    BY <1>1, <1>5, <1>6, Slice
<1>9. QED
    BY <1>1, <1>2, <1>3, <1>4, <1>7, <1>8

-----------------------------------------------------------------------------
(* append(). *)

(* What was fed stays where it was, so no start and no end of a record     *)
(* moves.                                                                  *)
LEMMA AppendKeepsPosition ==
    ASSUME ClientInv, NEW c \in Seq(Byte), fed' = fed \o c, starts' = starts
    PROVE  /\ fed' \in Seq(Byte)
           /\ Len(c) \in Nat /\ Len(fed') = Len(fed) + Len(c)
           /\ \A i \in 1..Len(fed) : fed'[i] = fed[i]
           /\ StartInside' /\ Position' = Position
<1>1. /\ fed \in Seq(Byte) /\ starts \in Seq(Nat) /\ Len(fed) \in Nat
      /\ Len(starts) \in Nat
    BY LenProperties DEF ClientInv, TypeOK
<1>2. Len(c) \in Nat
    BY LenProperties
<1>3. /\ fed' \in Seq(Byte) /\ Len(fed') = Len(fed) + Len(c)
      /\ \A i \in 1..(Len(fed) + Len(c)) :
            fed'[i] = IF i <= Len(fed) THEN fed[i] ELSE c[i - Len(fed)]
    BY <1>1, ConcatProperties
<1>4. \A i \in 1..Len(fed) : fed'[i] = fed[i]
    BY <1>1, <1>2, <1>3
<1>5. CASE starts = <<>>
    BY <1>2, <1>3, <1>4, <1>5 DEF StartInside, Position
<1>6. CASE starts # <<>>
    <2> DEFINE s == starts[Len(starts)]
    <2>1. s \in Nat
        <3>1. Len(starts) \in 1..Len(starts)
            BY <1>1, <1>6, EmptySeq
        <3>2. QED
            BY <1>1, <3>1, ElementOfSeq
    <2>2. s < Len(fed)
        BY <1>6 DEF ClientInv, StartInside
    <2>3. starts'[Len(starts')] = s
        OBVIOUS
    <2> HIDE DEF s
    <2>4. s + 1 \in 1..Len(fed) /\ s < Len(fed) + Len(c)
        BY <1>1, <1>2, <2>1, <2>2
    <2>5. fed'[s + 1] = fed[s + 1]
        BY <1>4, <2>4
    <2>6. StartInside'
        BY <1>3, <2>3, <2>4 DEF StartInside
    <2>7. Position = s + RecordSize(fed[s + 1])
        BY <1>6 DEF Position, s
    <2>8. Position' = s + RecordSize(fed'[s + 1])
        BY <1>6, <2>3 DEF Position
    <2>9. QED
        BY <1>2, <1>3, <1>4, <2>5, <2>6, <2>7, <2>8
<1>7. QED
    BY <1>5, <1>6

LEMMA AppendStep ==
    ASSUME ClientInv, NEW c \in Seq(Byte),
           append(c), fed' = fed \o c, starts' = starts, spans' = {},
           last' = "none"
    PROVE  ClientInv'
<1>1. /\ buf \in Seq(Byte) /\ Len(buf) \in Nat
      /\ read_pos \in Nat /\ read_pos <= Len(buf)
      /\ Front \in Seq(Byte)
    BY FrontIsRest
<1>2. Position \in Nat /\ Len(fed) \in Nat /\ Len(starts) \in Nat
    BY PositionType DEF ClientInv
<1>3. /\ fed' \in Seq(Byte)
      /\ Len(c) \in Nat /\ Len(fed') = Len(fed) + Len(c)
      /\ StartInside' /\ Position' = Position
    BY AppendKeepsPosition
<1>4. buf' = Front \o c /\ read_pos' = 0
    BY DEF append
<1>5. buf' \in Seq(Byte)
    BY <1>1, <1>4, ConcatProperties
<1>6. Len(buf') \in Nat
    BY <1>5, LenProperties
<1>7. TypeOK'
    BY <1>3, <1>4, <1>5, <1>6 DEF ClientInv, TypeOK, AssemblerTypeOK
<1>8. NothingLost'
    <2>1. Front' = buf'
        <3>1. Front' = SubSeq(buf', 1, Len(buf'))
            BY <1>4 DEF Front
        <3>2. QED
            BY <1>5, <3>1, SubSeqFull
    <2>2. Front = SubSeq(fed, Position + 1, Len(fed))
        BY DEF ClientInv, NothingLost
    <2>3. Position <= Len(fed) /\ fed \in Seq(Byte)
        BY DEF ClientInv, DrainBounded, TypeOK
    <2>4. SubSeq(fed, Position + 1, Len(fed)) \o c
              = SubSeq(fed \o c, Position + 1, Len(fed \o c))
        BY <1>2, <2>3, TailConcat
    <2>5. QED
        BY <1>3, <1>4, <2>1, <2>2, <2>4 DEF NothingLost
<1>9. DrainBounded'
    <2>1. 4 * Len(starts) <= Position /\ Position <= Len(fed)
        BY DEF ClientInv, DrainBounded
    <2>2. Position <= Len(fed) + Len(c)
        BY <1>2, <1>3, <2>1
    <2>3. QED
        BY <1>3, <2>1, <2>2 DEF DrainBounded
<1>10. SpansIntact'
    BY DEF SpansIntact
<1>11. QED
    BY <1>3, <1>7, <1>8, <1>9, <1>10 DEF ClientInv

-----------------------------------------------------------------------------
(* next(). *)

(* A frame that is framed is framed by the bytes of fed at Position.       *)
LEMMA FrameAtPosition ==
    ASSUME ClientInv
    PROVE  LET n == frame_one(Front).record_size IN
           /\ n \in Nat /\ n <= Len(fed) - Position /\ n <= Len(buf) - read_pos
           /\ frame_one(Front).status \in {"Ok", "NeedMore", "Corrupt"}
           /\ frame_one(Front).status # "Ok" => n = 0
           /\ frame_one(Front).status = "Ok" =>
                 /\ n >= 4 /\ n = RecordSize(fed[Position + 1])
                 /\ Position < Len(fed)
<1> DEFINE n == frame_one(Front).record_size
<1>1. /\ Front \in Seq(Byte)
      /\ Len(Front) = Len(buf) - read_pos
      /\ Len(Front) = Len(fed) - Position
      /\ \A i \in 1..(Len(fed) - Position) : Front[i] = fed[Position + i]
    BY FrontIsRest
<1>2. Position \in Nat /\ Len(fed) \in Nat
    BY PositionType DEF ClientInv
<1>3. /\ frame_one(Front).status \in {"Ok", "NeedMore", "Corrupt"}
      /\ n \in Nat /\ n <= Len(Front)
      /\ frame_one(Front).status = "Ok" =>
            Len(Front) >= 2 /\ n = RecordSize(Front[1]) /\ n >= 4
      /\ frame_one(Front).status # "Ok" => n = 0
    BY <1>1, FrameOne
<1> HIDE DEF n
<1>4. ASSUME frame_one(Front).status = "Ok"
      PROVE  Front[1] = fed[Position + 1] /\ Position < Len(fed)
    <2>1. 1 \in 1..(Len(fed) - Position)
        BY <1>1, <1>2, <1>3, <1>4
    <2>2. Position < Len(fed)
        BY <1>2, <2>1
    <2>3. QED
        BY <1>1, <2>1, <2>2
<1>5. QED
    BY <1>1, <1>3, <1>4 DEF n

(* A call of next() that returns a record: the record is the next one of   *)
(* fed, and the ones handed out before stay in place under it.             *)
LEMMA RecordStep ==
    ASSUME ClientInv, next, frame_one(Front).status = "Ok",
           starts' = Append(starts, Position),
           spans' = spans \cup {[at |-> pull.at, len |-> pull.len,
                                 start |-> Position]},
           last' = "Record", fed' = fed
    PROVE  ClientInv'
<1> DEFINE n == frame_one(Front).record_size
<1>1. /\ buf \in Seq(Byte) /\ Len(buf) \in Nat
      /\ read_pos \in Nat /\ read_pos <= Len(buf)
      /\ Len(buf) - read_pos = Len(fed) - Position
    BY FrontIsRest
<1>2. Position \in Nat /\ Len(fed) \in Nat /\ Len(starts) \in Nat
    BY PositionType DEF ClientInv
<1>3. /\ n \in Nat /\ n <= Len(fed) - Position /\ n <= Len(buf) - read_pos
      /\ n >= 4 /\ n = RecordSize(fed[Position + 1])
      /\ Position < Len(fed)
    BY FrameAtPosition
<1>4. buf' = buf /\ read_pos' = read_pos + n
    BY DEF next
<1>5. pull.at = read_pos /\ pull.len = n
    BY DEF pull
<1>6. Front = SubSeq(buf, read_pos + 1, Len(buf))
    BY DEF Front
<1>7. Front = SubSeq(fed, Position + 1, Len(fed))
    BY DEF ClientInv, NothingLost
<1>8. fed \in Seq(Byte) /\ starts \in Seq(Nat)
    BY DEF ClientInv, TypeOK
<1>9. 4 * Len(starts) <= Position
    BY DEF ClientInv, DrainBounded
<1> HIDE DEF n
<1>10. /\ starts' \in Seq(Nat) /\ starts' # <<>>
       /\ Len(starts') = Len(starts) + 1
       /\ starts'[Len(starts')] = Position
    BY <1>2, <1>8, AppendProperties
<1>11. StartInside' /\ Position' = Position + n
    BY <1>3, <1>10 DEF StartInside, Position
<1>12. DrainBounded'
    <2>1. 4 * (Len(starts) + 1) <= Position + n /\ Position + n <= Len(fed)
        BY <1>2, <1>3, <1>9
    <2>2. QED
        BY <1>10, <1>11, <2>1 DEF DrainBounded
<1>13. TypeOK'
    <2>1. read_pos + n \in 0..Len(buf)
        BY <1>1, <1>3
    <2>2. AssemblerTypeOK'
        BY <1>1, <1>4, <2>1 DEF AssemblerTypeOK
    <2>3. [at |-> pull.at, len |-> pull.len, start |-> Position]
              \in [at : Nat, len : Nat, start : Nat]
        BY <1>1, <1>2, <1>3, <1>5
    <2>4. spans' \subseteq [at : Nat, len : Nat, start : Nat]
        BY <2>3 DEF ClientInv, TypeOK
    <2>5. QED
        BY <1>8, <1>10, <2>2, <2>4 DEF TypeOK
<1>14. NothingLost'
    <2>1. Front' = SubSeq(buf, (read_pos + n) + 1, Len(buf))
        BY <1>4 DEF Front
    <2>2. SubSeq(Front, n + 1, Len(buf) - read_pos)
              = SubSeq(buf, read_pos + n + 1, Len(buf))
        BY <1>1, <1>3, <1>6, WithoutFirstBytes
    <2>3. SubSeq(Front, n + 1, Len(fed) - Position)
              = SubSeq(fed, Position + n + 1, Len(fed))
        <3>1. Position <= Len(fed)
            BY <1>2, <1>3
        <3>2. QED
            BY <1>2, <1>3, <1>7, <1>8, <3>1, WithoutFirstBytes
    <2>4. QED
        BY <1>1, <1>11, <2>1, <2>2, <2>3 DEF NothingLost
<1>15. SpansIntact'
    <2> SUFFICES ASSUME NEW s \in spans'
                 PROVE  /\ s.at + s.len <= Len(buf)
                        /\ s.len = RecordSize(fed[s.start + 1])
                        /\ SubSeq(buf, s.at + 1, s.at + s.len)
                               = SubSeq(fed, s.start + 1, s.start + s.len)
        BY <1>4 DEF SpansIntact, Bytes
    <2>1. CASE s \in spans
        BY <2>1 DEF ClientInv, SpansIntact, Bytes
    <2>2. CASE s = [at |-> pull.at, len |-> pull.len, start |-> Position]
        <3>1. s.at = read_pos /\ s.len = n /\ s.start = Position
            BY <1>5, <2>2
        <3>2. read_pos + n <= Len(buf)
            BY <1>1, <1>3
        <3>3. SubSeq(Front, 1, n) = SubSeq(buf, read_pos + 1, read_pos + n)
            BY <1>1, <1>3, <1>6, FirstBytes
        <3>4. SubSeq(Front, 1, n) = SubSeq(fed, Position + 1, Position + n)
            <4>1. Position <= Len(fed)
                BY <1>2, <1>3
            <4>2. QED
                BY <1>2, <1>3, <1>7, <1>8, <4>1, FirstBytes
        <3>5. QED
            BY <1>3, <3>1, <3>2, <3>3, <3>4
    <2>3. QED
        BY <2>1, <2>2
<1>16. QED
    BY <1>11, <1>12, <1>13, <1>14, <1>15 DEF ClientInv

(* A call of next() that returns none changes nothing but the answer. *)
LEMMA NoRecordStep ==
    ASSUME ClientInv, next, frame_one(Front).status # "Ok",
           UNCHANGED <<starts, spans, fed>>,
           last' \in {"NeedMore", "Corrupt"}
    PROVE  ClientInv' /\ UNCHANGED <<buf, read_pos>> /\ Position' = Position
<1>1. frame_one(Front).record_size = 0
    BY FrameAtPosition
<1>2. read_pos \in Nat
    BY FrontIsRest
<1>3. buf' = buf /\ read_pos' = read_pos
    BY <1>1, <1>2 DEF next
<1>4. Position' = Position
    BY DEF Position
<1>5. TypeOK'
    BY <1>3 DEF ClientInv, TypeOK, AssemblerTypeOK
<1>6. StartInside' /\ DrainBounded'
    BY <1>4 DEF ClientInv, StartInside, DrainBounded
<1>7. NothingLost'
    BY <1>3, <1>4 DEF ClientInv, NothingLost, Front
<1>8. SpansIntact'
    BY <1>3 DEF ClientInv, SpansIntact, Bytes
<1>9. QED
    BY <1>3, <1>4, <1>5, <1>6, <1>7, <1>8 DEF ClientInv

-----------------------------------------------------------------------------
(* The theorems. *)

LEMMA ClientInit == Init => ClientInv
<1> SUFFICES ASSUME Init PROVE ClientInv
    OBVIOUS
<1>1. buf = <<>> /\ read_pos = 0 /\ fed = <<>> /\ starts = <<>> /\ spans = {}
    BY DEF Init, AssemblerInit
<1>2. Position = 0
    BY <1>1 DEF Position
<1>3. TypeOK
    BY <1>1, EmptySeq DEF Init, TypeOK, AssemblerTypeOK
<1>4. StartInside /\ SpansIntact
    BY <1>1 DEF StartInside, SpansIntact
<1>5. DrainBounded
    BY <1>1, <1>2, EmptySeq DEF DrainBounded
<1>6. NothingLost
    BY <1>1, <1>2 DEF NothingLost, Front
<1>7. QED
    BY <1>3, <1>4, <1>5, <1>6 DEF ClientInv

LEMMA ClientNext == ClientInv /\ [Next]_vars => ClientInv'
<1> SUFFICES ASSUME ClientInv, [Next]_vars PROVE ClientInv'
    OBVIOUS
<1>1. CASE AppendChunk
    <2>1. PICK c \in Chunks : append(c) /\ fed' = fed \o c
        BY <1>1 DEF AppendChunk
    <2>2. c \in Seq(Byte)
        BY ClientAssumption
    <2>3. QED
        BY <1>1, <2>1, <2>2, AppendStep DEF AppendChunk
<1>2. CASE PullNext
    <2>1. frame_one(Front).status \in {"Ok", "NeedMore", "Corrupt"}
        BY FrameAtPosition
    <2>2. pull.status = PullStatus(frame_one(Front).status)
        BY DEF pull
    <2>3. CASE frame_one(Front).status = "Ok"
        <3>1. pull.status = "Record"
            BY <2>2, <2>3 DEF PullStatus
        <3>2. QED
            BY <1>2, <2>3, <3>1, RecordStep DEF PullNext
    <2>4. CASE frame_one(Front).status # "Ok"
        <3>1. pull.status # "Record" /\ pull.status \in {"NeedMore", "Corrupt"}
            BY <2>1, <2>2, <2>4 DEF PullStatus
        <3>2. QED
            BY <1>2, <2>4, <3>1, NoRecordStep DEF PullNext
    <2>5. QED
        BY <2>3, <2>4
<1>3. CASE UNCHANGED vars
    BY <1>3 DEF vars, assembler, ClientInv, TypeOK, AssemblerTypeOK, StartInside,
                NothingLost, DrainBounded, SpansIntact, Position, Front, Bytes
<1>4. QED
    BY <1>1, <1>2, <1>3 DEF Next

(* The assembler under any client keeps the inductive invariant: the       *)
(* theorems below read their conclusions off its parts.                    *)
THEOREM ClientInvariant == Spec => []ClientInv
BY ClientInit, ClientNext, PTL DEF Spec

(* The calls of append() and next() lose, repeat and reorder nothing,      *)
(* whatever the chunks are and however the calls interleave: the assembler *)
(* holds exactly the bytes fed after the last record it returned.          *)
THEOREM AssemblerLosesNothing == Spec => []NothingLost
<1>1. ClientInv => NothingLost
    BY DEF ClientInv
<1>2. QED
    BY ClientInvariant, <1>1, PTL

(* next() never moves the bytes under a span it handed out: each span      *)
(* shows its record until the next append().                               *)
THEOREM SpansStayIntact == Spec => []SpansIntact
<1>1. ClientInv => SpansIntact
    BY DEF ClientInv
<1>2. QED
    BY ClientInvariant, <1>1, PTL

(* Every record returned took at least four of the bytes fed, so the drain *)
(* loop of the fuzz harness ends on any input.                             *)
THEOREM DrainEnds == Spec => []DrainBounded
<1>1. ClientInv => DrainBounded
    BY DEF ClientInv
<1>2. QED
    BY ClientInvariant, <1>1, PTL

(* Once the frame at the front has a zero length byte, no append() and no  *)
(* next() gets past it.                                                    *)
THEOREM CorruptStays == Spec => CorruptIsFinal
<1>1. ASSUME ClientInv, [Next]_vars, AtCorruptFrame
      PROVE  /\ AtCorruptFrame' /\ UNCHANGED starts
             /\ last' \in {"none", "Corrupt"} \/ UNCHANGED vars
    <2>1. /\ Front \in Seq(Byte)
          /\ Len(Front) = Len(buf) - read_pos
          /\ Len(Front) = Len(fed) - Position
          /\ \A i \in 1..(Len(fed) - Position) : Front[i] = fed[Position + i]
        BY <1>1, FrontIsRest
    <2>2. Position \in Nat /\ Len(fed) \in Nat
        BY <1>1, PositionType DEF ClientInv
    <2>3. Len(Front) >= 2 /\ fed[Position + 1] = 0
        BY <1>1, <2>1 DEF AtCorruptFrame, buffered
    <2>4. 1 \in 1..(Len(fed) - Position) /\ Position + 1 \in 1..Len(fed)
        BY <2>1, <2>2, <2>3
    <2>5. CASE AppendChunk
        <3>1. PICK c \in Chunks : append(c) /\ fed' = fed \o c
            BY <2>5 DEF AppendChunk
        <3>2. c \in Seq(Byte) /\ starts' = starts
            BY <2>5, ClientAssumption DEF AppendChunk
        <3>3. /\ Len(c) \in Nat /\ fed'[Position + 1] = fed[Position + 1]
              /\ Position' = Position
            BY <1>1, <2>4, <3>1, <3>2, AppendKeepsPosition
        <3>4. buf' = Front \o c /\ read_pos' = 0
            BY <3>1 DEF append
        <3>5. Len(buf') = Len(Front) + Len(c)
            BY <2>1, <3>2, <3>4, ConcatProperties
        <3>6. Len(Front) \in Nat
            BY <2>1, LenProperties
        <3>7. Len(buf') - read_pos' >= 2
            BY <2>3, <3>3, <3>4, <3>5, <3>6
        <3>8. AtCorruptFrame'
            BY <2>3, <3>3, <3>7 DEF AtCorruptFrame, buffered
        <3>9. QED
            BY <2>5, <3>8 DEF AppendChunk
    <2>6. CASE PullNext
        <3>1. Front[1] = 0
            BY <2>1, <2>3, <2>4
        <3>2. frame_one(Front).status = "Corrupt"
            <4>1. Len(Front) \in Nat
                BY <2>1, LenProperties
            <4>2. ~(Len(Front) < 2) /\ RecordSize(Front[1]) = 0
                BY <2>3, <3>1, <4>1 DEF RecordSize
            <4>3. QED
                BY <4>2 DEF frame_one, Frame
        <3>3. pull.status = "Corrupt"
            BY <3>2 DEF pull, PullStatus
        <3>4. /\ next /\ UNCHANGED <<starts, spans, fed>> /\ last' = "Corrupt"
            BY <2>6, <3>3 DEF PullNext
        <3>5. UNCHANGED <<buf, read_pos>> /\ Position' = Position
            BY <1>1, <3>2, <3>4, NoRecordStep
        <3>6. AtCorruptFrame'
            BY <1>1, <3>4, <3>5 DEF AtCorruptFrame, buffered
        <3>7. QED
            BY <3>4, <3>6
    <2>7. CASE UNCHANGED vars
        <3>1. UNCHANGED <<buf, read_pos, fed, starts>>
            BY <2>7 DEF vars, assembler
        <3>2. AtCorruptFrame'
            BY <1>1, <3>1 DEF AtCorruptFrame, buffered, Position
        <3>3. QED
            BY <2>7, <3>1, <3>2
    <2>8. QED
        BY <1>1, <2>5, <2>6, <2>7 DEF Next
<1>2. ClientInv /\ [Next]_vars =>
          [AtCorruptFrame => /\ AtCorruptFrame'
                             /\ UNCHANGED starts
                             /\ last' \in {"none", "Corrupt"}]_vars
    BY <1>1
<1>3. QED
    BY ClientInvariant, <1>2, PTL DEF Spec, CorruptIsFinal

=============================================================================
