----------------------------- MODULE DbnLemmas -----------------------------
(***************************************************************************)
(* Facts about slices of byte sequences, about the operators of Dbn and    *)
(* about the reference decoding, for every layout that satisfies           *)
(* LayoutAssumption.                                                       *)
(***************************************************************************)
EXTENDS Reference, SequenceTheorems, FiniteSetTheorems, NaturalsInduction,
        WellFoundedInduction, TLAPS

-----------------------------------------------------------------------------
(* Slices.  SubSeq(s, a + 1, b) is the span of the C++ indices a up to b.  *)

(* The type, the length and the elements of a slice. *)
LEMMA Slice ==
    ASSUME NEW S, NEW s \in Seq(S), NEW a \in Nat, NEW b \in Nat, b <= Len(s)
    PROVE  /\ SubSeq(s, a + 1, b) \in Seq(S)
           /\ Len(SubSeq(s, a + 1, b)) = (IF a <= b THEN b - a ELSE 0)
           /\ \A i \in 1..(b - a) : SubSeq(s, a + 1, b)[i] = s[a + i]
<1>1. \A i \in (a + 1)..b : s[i] \in S
    BY ElementOfSeq
<1>2. QED
    BY <1>1, SubSeqProperties

(* Two slices that meet make one slice. *)
LEMMA SliceConcat ==
    ASSUME NEW S, NEW s \in Seq(S), NEW a \in Nat, NEW b \in Nat, NEW c \in Nat,
           a <= b, b <= c, c <= Len(s)
    PROVE  SubSeq(s, a + 1, b) \o SubSeq(s, b + 1, c) = SubSeq(s, a + 1, c)
<1> DEFINE l == SubSeq(s, a + 1, b)
           r == SubSeq(s, b + 1, c)
           t == SubSeq(s, a + 1, c)
<1>0. Len(s) \in Nat
    BY LenProperties
<1>1. /\ l \in Seq(S) /\ Len(l) = b - a
      /\ \A i \in 1..(b - a) : l[i] = s[a + i]
    BY <1>0, Slice
<1>2. /\ r \in Seq(S) /\ Len(r) = c - b
      /\ \A i \in 1..(c - b) : r[i] = s[b + i]
    BY <1>0, Slice
<1>3. /\ t \in Seq(S) /\ Len(t) = c - a
      /\ \A i \in 1..(c - a) : t[i] = s[a + i]
    BY <1>0, Slice
<1> HIDE DEF l, r, t
<1>4. /\ l \o r \in Seq(S) /\ Len(l \o r) = c - a
      /\ \A i \in 1..(c - a) :
            (l \o r)[i] = IF i <= b - a THEN l[i] ELSE r[i - (b - a)]
    BY <1>1, <1>2, ConcatProperties
<1>5. \A i \in 1..(c - a) : (l \o r)[i] = t[i]
    BY <1>1, <1>2, <1>3, <1>4
<1>6. l \o r = t
    BY <1>3, <1>4, <1>5, SeqEqual
<1>7. QED
    BY <1>6 DEF l, r, t

(* A slice of a slice is a slice. *)
LEMMA SliceSlice ==
    ASSUME NEW S, NEW s \in Seq(S), NEW a \in Nat, NEW b \in Nat,
           NEW m \in Nat, NEW n \in Nat,
           a <= b, b <= Len(s), m <= n, n <= b - a
    PROVE  SubSeq(SubSeq(s, a + 1, b), m + 1, n) = SubSeq(s, a + m + 1, a + n)
<1> DEFINE t == SubSeq(s, a + 1, b)
           l == SubSeq(t, m + 1, n)
           r == SubSeq(s, (a + m) + 1, a + n)
<1>0. Len(s) \in Nat
    BY LenProperties
<1>1. /\ t \in Seq(S) /\ Len(t) = b - a
      /\ \A i \in 1..(b - a) : t[i] = s[a + i]
    BY <1>0, Slice
<1>2. /\ r \in Seq(S) /\ Len(r) = n - m
      /\ \A i \in 1..((a + n) - (a + m)) : r[i] = s[(a + m) + i]
    <2>1. a + m \in Nat /\ a + n \in Nat /\ a + n <= Len(s) /\ a + m <= a + n
        BY <1>0
    <2>2. QED
        BY <2>1, <1>0, Slice
<1> HIDE DEF t, r
<1>3. /\ l \in Seq(S) /\ Len(l) = n - m
      /\ \A i \in 1..(n - m) : l[i] = t[m + i]
    BY <1>1, Slice
<1> HIDE DEF l
<1>4. \A i \in 1..(n - m) : l[i] = r[i]
    BY <1>0, <1>1, <1>2, <1>3
<1>5. l = r
    BY <1>2, <1>3, <1>4, SeqEqual
<1>6. QED
    BY <1>5 DEF l, r, t

(* The first n bytes of a slice, and what is left without them. *)
LEMMA SplitSlice ==
    ASSUME NEW S, NEW s \in Seq(S), NEW a \in Nat, NEW b \in Nat, NEW n \in Nat,
           a <= b, b <= Len(s), n <= b - a
    PROVE  /\ SubSeq(SubSeq(s, a + 1, b), 1, n) = SubSeq(s, a + 1, a + n)
           /\ SubSeq(SubSeq(s, a + 1, b), n + 1, b - a) = SubSeq(s, a + n + 1, b)
<1>1. SubSeq(SubSeq(s, a + 1, b), 0 + 1, n) = SubSeq(s, a + 0 + 1, a + n)
    <2>1. 0 \in Nat /\ 0 <= n
        OBVIOUS
    <2>2. QED
        BY ONLY <2>1, SliceSlice, s \in Seq(S), a \in Nat, b \in Nat, n \in Nat,
                a <= b, b <= Len(s), n <= b - a
<1>2. SubSeq(SubSeq(s, a + 1, b), n + 1, b - a) = SubSeq(s, a + n + 1, a + (b - a))
    <2>1. b - a \in Nat /\ b - a <= b - a
        OBVIOUS
    <2>2. QED
        BY ONLY <2>1, SliceSlice, s \in Seq(S), a \in Nat, b \in Nat, n \in Nat,
                a <= b, b <= Len(s), n <= b - a
<1>3. 0 + 1 = 1 /\ a + 0 + 1 = a + 1 /\ a + (b - a) = b
    OBVIOUS
<1>4. QED
    BY <1>1, <1>2, <1>3

(* What is left of s from index a on, continued by c, is what is left of   *)
(* s continued by c.                                                       *)
LEMMA TailConcat ==
    ASSUME NEW S, NEW s \in Seq(S), NEW c \in Seq(S), NEW a \in Nat, a <= Len(s)
    PROVE  SubSeq(s, a + 1, Len(s)) \o c = SubSeq(s \o c, a + 1, Len(s \o c))
<1> DEFINE l == SubSeq(s, a + 1, Len(s))
           w == s \o c
           r == SubSeq(w, a + 1, Len(w))
<1>1. Len(s) \in Nat /\ Len(c) \in Nat
    BY LenProperties
<1>2. /\ l \in Seq(S) /\ Len(l) = Len(s) - a
      /\ \A i \in 1..(Len(s) - a) : l[i] = s[a + i]
    BY <1>1, Slice
<1>3. /\ w \in Seq(S) /\ Len(w) = Len(s) + Len(c)
      /\ \A i \in 1..(Len(s) + Len(c)) :
            w[i] = IF i <= Len(s) THEN s[i] ELSE c[i - Len(s)]
    BY ConcatProperties
<1> HIDE DEF l, w
<1>4. /\ r \in Seq(S) /\ Len(r) = Len(w) - a
      /\ \A i \in 1..(Len(w) - a) : r[i] = w[a + i]
    <2>1. Len(w) \in Nat /\ a <= Len(w) /\ Len(w) <= Len(w)
        BY <1>1, <1>3
    <2>2. QED
        BY <1>3, <2>1, Slice
<1>5. /\ l \o c \in Seq(S) /\ Len(l \o c) = (Len(s) - a) + Len(c)
      /\ \A i \in 1..((Len(s) - a) + Len(c)) :
            (l \o c)[i] = IF i <= Len(s) - a THEN l[i] ELSE c[i - (Len(s) - a)]
    <2>1. l \in Seq(S) /\ c \in Seq(S)
        BY <1>2
    <2>2. /\ l \o c \in Seq(S) /\ Len(l \o c) = Len(l) + Len(c)
          /\ \A i \in 1..(Len(l) + Len(c)) :
                (l \o c)[i] = IF i <= Len(l) THEN l[i] ELSE c[i - Len(l)]
        BY ONLY <2>1, ConcatProperties
    <2>3. Len(l) = Len(s) - a
        BY <1>2
    <2>4. QED
        BY ONLY <2>2, <2>3
<1> HIDE DEF r
<1>6. Len(l \o c) = Len(r)
    BY <1>1, <1>3, <1>4, <1>5
<1>7. \A i \in 1..Len(r) : (l \o c)[i] = r[i]
    <2> SUFFICES ASSUME NEW i \in 1..((Len(s) - a) + Len(c))
                 PROVE  (l \o c)[i] = r[i]
        BY <1>5, <1>6
    <2>1. r[i] = w[a + i] /\ a + i \in 1..(Len(s) + Len(c))
        BY <1>1, <1>3, <1>4
    <2>2. CASE i <= Len(s) - a
        BY <1>1, <1>2, <1>3, <1>5, <2>1, <2>2
    <2>3. CASE ~(i <= Len(s) - a)
        <3>1. ~(a + i <= Len(s)) /\ (a + i) - Len(s) = i - (Len(s) - a)
            BY <1>1, <2>3
        <3>2. w[a + i] = c[(a + i) - Len(s)]
            BY <1>3, <2>1, <3>1
        <3>3. (l \o c)[i] = c[i - (Len(s) - a)]
            BY <1>5, <2>3
        <3>4. QED
            BY <2>1, <3>1, <3>2, <3>3
    <2>4. QED
        BY <2>2, <2>3
<1>8. l \o c = r
    BY <1>4, <1>5, <1>6, <1>7, SeqEqual
<1>9. QED
    BY <1>8 DEF l, r, w

(* The first n bytes of what is left of a file from index a on. *)
LEMMA FirstBytes ==
    ASSUME NEW f \in Seq(Byte), NEW a \in Nat, NEW n \in Nat,
           a <= Len(f), n <= Len(f) - a
    PROVE  SubSeq(SubSeq(f, a + 1, Len(f)), 1, n) = SubSeq(f, a + 1, a + n)
<1>1. Len(f) \in Nat /\ Len(f) <= Len(f)
    BY LenProperties
<1>2. QED
    BY <1>1, SplitSlice

(* What is left of it without them. *)
LEMMA WithoutFirstBytes ==
    ASSUME NEW f \in Seq(Byte), NEW a \in Nat, NEW n \in Nat,
           a <= Len(f), n <= Len(f) - a
    PROVE  SubSeq(SubSeq(f, a + 1, Len(f)), n + 1, Len(f) - a)
               = SubSeq(f, a + n + 1, Len(f))
<1>1. Len(f) \in Nat /\ Len(f) <= Len(f)
    BY LenProperties
<1>2. QED
    BY <1>1, SplitSlice

-----------------------------------------------------------------------------
(* The framer. *)

(* A u8 count of four-byte words. *)
LEMMA RecordSizes ==
    ASSUME NEW n \in Byte
    PROVE  /\ RecordSize(n) \in Nat
           /\ RecordSize(n) \in 0..MaxRecordSize
           /\ RecordSize(n) = 0 <=> n = 0
           /\ n # 0 => RecordSize(n) >= 4
BY DEF Byte, RecordSize, MaxRecordSize

(* What frame_one returns for any bytes.  A framed record lies inside the  *)
(* buffer and is never empty, so a caller that moves past it makes         *)
(* progress and stays in bounds.                                           *)
LEMMA FrameOne ==
    ASSUME NEW b \in Seq(Byte)
    PROVE  /\ frame_one(b).status \in {"Ok", "NeedMore", "Corrupt"}
           /\ frame_one(b).record_size \in Nat
           /\ frame_one(b).record_size \in 0..MaxRecordSize
           /\ frame_one(b).record_size <= Len(b)
           /\ frame_one(b).status = "Ok" =>
                 /\ Len(b) >= 2 /\ b[1] # 0
                 /\ frame_one(b).record_size = RecordSize(b[1])
                 /\ frame_one(b).record_size >= 4
           /\ frame_one(b).status = "Corrupt" => Len(b) >= 2 /\ b[1] = 0
           /\ frame_one(b).status = "NeedMore" =>
                 Len(b) < 2 \/ (b[1] # 0 /\ Len(b) < RecordSize(b[1]))
           /\ frame_one(b).status # "Ok" => frame_one(b).record_size = 0
<1>1. Len(b) \in Nat
    BY LenProperties
<1>2. ASSUME Len(b) >= 2
      PROVE  /\ RecordSize(b[1]) \in Nat
             /\ RecordSize(b[1]) \in 0..MaxRecordSize
             /\ RecordSize(b[1]) = 0 <=> b[1] = 0
             /\ b[1] # 0 => RecordSize(b[1]) >= 4
    <2>1. 1 \in 1..Len(b)
        BY <1>1, <1>2
    <2>2. b[1] \in Byte
        BY <2>1, ElementOfSeq
    <2>3. QED
        BY <2>2, RecordSizes
<1>3. CASE Len(b) < 2
    BY <1>1, <1>3 DEF frame_one, Frame, MaxRecordSize
<1>4. CASE Len(b) >= 2
    <2>1. /\ RecordSize(b[1]) \in Nat
          /\ RecordSize(b[1]) \in 0..MaxRecordSize
          /\ RecordSize(b[1]) = 0 <=> b[1] = 0
          /\ b[1] # 0 => RecordSize(b[1]) >= 4
        BY <1>2, <1>4
    <2>2. ~(Len(b) < 2)
        BY <1>1, <1>4
    <2>3. CASE RecordSize(b[1]) = 0
        BY <1>1, <1>4, <2>1, <2>2, <2>3 DEF frame_one, Frame, MaxRecordSize
    <2>4. CASE RecordSize(b[1]) # 0 /\ Len(b) < RecordSize(b[1])
        BY <1>1, <1>4, <2>1, <2>2, <2>4 DEF frame_one, Frame, MaxRecordSize
    <2>5. CASE RecordSize(b[1]) # 0 /\ ~(Len(b) < RecordSize(b[1]))
        <3>1. frame_one(b) = Frame("Ok", b[2], RecordSize(b[1]))
            BY <2>2, <2>5 DEF frame_one
        <3>2. /\ frame_one(b).status = "Ok"
              /\ frame_one(b).record_size = RecordSize(b[1])
            BY <3>1 DEF Frame
        <3>3. RecordSize(b[1]) <= Len(b)
            BY <1>1, <2>1, <2>5
        <3>4. QED
            BY <1>4, <2>1, <2>5, <3>2, <3>3
    <2>6. QED
        BY <2>3, <2>4, <2>5
<1>5. QED
    BY <1>1, <1>3, <1>4

(* More bytes do not change what was framed: when a prefix of the rest of  *)
(* the file frames a record or a corrupt frame, the whole rest does.       *)
LEMMA FramePrefix ==
    ASSUME NEW f \in Seq(Byte), NEW a \in Nat, NEW b \in Nat,
           a <= b, b <= Len(f),
           frame_one(SubSeq(f, a + 1, b)).status # "NeedMore"
    PROVE  frame_one(SubSeq(f, a + 1, Len(f))) = frame_one(SubSeq(f, a + 1, b))
<1> DEFINE s == SubSeq(f, a + 1, b)
           t == SubSeq(f, a + 1, Len(f))
<1>0. Len(f) \in Nat
    BY LenProperties
<1>1. /\ s \in Seq(Byte) /\ Len(s) = b - a
      /\ \A i \in 1..(b - a) : s[i] = f[a + i]
    BY <1>0, Slice
<1>2. /\ t \in Seq(Byte) /\ Len(t) = Len(f) - a
      /\ \A i \in 1..(Len(f) - a) : t[i] = f[a + i]
    BY <1>0, Slice
<1> HIDE DEF s, t
<1>3. frame_one(s).status # "NeedMore"
    BY DEF s
<1>4. Len(s) >= 2
    BY <1>1, <1>3 DEF frame_one, Frame
<1>5. s[1] = t[1] /\ s[2] = t[2] /\ Len(s) <= Len(t)
    BY <1>0, <1>1, <1>2, <1>4
<1>6. s[1] \in Byte
    BY <1>1, <1>4, ElementOfSeq
<1>7. RecordSize(s[1]) \in Nat
    BY <1>6, RecordSizes
<1>8. frame_one(t) = frame_one(s)
    BY <1>0, <1>1, <1>2, <1>3, <1>4, <1>5, <1>7 DEF frame_one, Frame
<1>9. QED
    BY <1>8 DEF s, t

-----------------------------------------------------------------------------
(* The router and the counters. *)

(* An emitted Event is made of bytes, whatever the record held. *)
LEMMA RouteRecord ==
    ASSUME NEW r \in Seq(Byte)
    PROVE  /\ route_record(r).outcome \in {"Emit", "SkipNonMbo", "SkipMalformed"}
           /\ route_record(r).outcome = "Emit" => route_record(r).event \in Event
<1>1. NoEvent \in Event
    BY EmptySeq DEF NoEvent, Event
<1>2. Len(r) = SizeofWireMbo => EventOf(r) \in Event
    <2> SUFFICES ASSUME Len(r) = SizeofWireMbo, NEW f \in EventFields
                 PROVE  Field(r, f) \in Seq(Byte)
        BY DEF EventOf, Event
    <2>1. /\ Offset[f] \in Nat /\ Width[f] \in Nat
          /\ Offset[f] + Width[f] <= Len(r)
        BY LayoutAssumption DEF WireMbo
    <2>2. QED
        BY <2>1, Slice DEF Field
<1>3. QED
    BY <1>1, <1>2 DEF route_record, to_event, Routed

(* A tally counts the record once, under exactly one heading. *)
LEMMA Tally ==
    ASSUME NEW s \in IngestStats, NEW r,
           r.outcome \in {"Emit", "SkipNonMbo", "SkipMalformed"}
    PROVE  /\ tally(s, r) \in IngestStats
           /\ tally(s, r).records = s.records + 1
           /\ tally(s, r).events =
                 s.events + (IF r.outcome = "Emit" THEN 1 ELSE 0)
           /\ tally(s, r).skipped_non_mbo =
                 s.skipped_non_mbo + (IF r.outcome = "SkipNonMbo" THEN 1 ELSE 0)
           /\ tally(s, r).skipped_malformed =
                 s.skipped_malformed
                 + (IF r.outcome = "SkipMalformed" THEN 1 ELSE 0)
BY DEF tally, IngestStats

(* A tally keeps the counters in balance. *)
LEMMA TallyBalance ==
    ASSUME NEW s \in IngestStats, NEW r,
           r.outcome \in {"Emit", "SkipNonMbo", "SkipMalformed"},
           s.records = s.events + s.skipped_non_mbo + s.skipped_malformed
    PROVE  tally(s, r).records =
               tally(s, r).events + tally(s, r).skipped_non_mbo
               + tally(s, r).skipped_malformed
<1>1. /\ s.events \in Nat /\ s.skipped_non_mbo \in Nat
      /\ s.skipped_malformed \in Nat
    BY DEF IngestStats
<1>2. CASE r.outcome = "Emit"
    BY <1>1, <1>2, Tally
<1>3. CASE r.outcome = "SkipNonMbo"
    BY <1>1, <1>3, Tally
<1>4. CASE r.outcome = "SkipMalformed"
    BY <1>1, <1>4, Tally
<1>5. QED
    BY <1>2, <1>3, <1>4

(* The little-endian u32 of a whole header is a number. *)
LEMMA LittleEndianType ==
    ASSUME NEW a \in Byte, NEW b \in Byte, NEW c \in Byte, NEW d \in Byte
    PROVE  LittleEndian(a, b, c, d) \in Nat
BY DEF LittleEndian, Byte

LEMMA MetadataLenType ==
    ASSUME NEW h \in Seq(Byte), Len(h) >= 8
    PROVE  MetadataLen(h) \in Nat
<1>1. Len(h) \in Nat
    BY LenProperties
<1>2. h[5] \in Byte /\ h[6] \in Byte /\ h[7] \in Byte /\ h[8] \in Byte
    BY <1>1, ElementOfSeq
<1>3. QED
    BY <1>2, LittleEndianType DEF MetadataLen

(* The prologue checks, one by one in their order. *)
LEMMA PrologueCases ==
    ASSUME NEW f \in Seq(Byte)
    PROVE  /\ Len(f) \in Nat
           /\ Len(f) < 8 => PrologueError(f) = "truncated header"
           /\ Len(f) >= 8 =>
                 /\ RecordStart(f) \in Nat /\ RecordStart(f) >= 8
                 /\ ~HasMagic(f) => PrologueError(f) = "bad magic"
                 /\ HasMagic(f) /\ f[4] # kSupportedDbnVersion =>
                       PrologueError(f) = "unsupported version"
                 /\ HasMagic(f) /\ f[4] = kSupportedDbnVersion =>
                       /\ RecordStart(f) > Len(f) =>
                             PrologueError(f) = "truncated metadata"
                       /\ RecordStart(f) <= Len(f) => PrologueError(f) = "none"
<1>1. Len(f) \in Nat
    BY LenProperties
<1>2. Len(f) < 8 => PrologueError(f) = "truncated header"
    BY DEF PrologueError, HeaderSize
<1>3. ASSUME Len(f) >= 8
      PROVE  RecordStart(f) \in Nat /\ RecordStart(f) >= 8 /\ ~(Len(f) < HeaderSize)
    <2>1. MetadataLen(f) \in Nat
        BY <1>3, MetadataLenType
    <2>2. QED
        BY <1>1, <1>3, <2>1 DEF RecordStart, HeaderSize
<1>4. ASSUME Len(f) >= 8, HasMagic(f), f[4] = kSupportedDbnVersion
      PROVE  /\ RecordStart(f) > Len(f) =>
                   PrologueError(f) = "truncated metadata"
             /\ RecordStart(f) <= Len(f) => PrologueError(f) = "none"
    <2>1. PrologueError(f) = IF RecordStart(f) > Len(f)
                             THEN "truncated metadata" ELSE "none"
        BY <1>3, <1>4, Zenon DEF PrologueError
    <2>2. RecordStart(f) <= Len(f) => ~(RecordStart(f) > Len(f))
        BY <1>1, <1>3, <1>4
    <2>3. QED
        BY <2>1, <2>2
<1>5. ASSUME Len(f) >= 8, ~HasMagic(f)
      PROVE  PrologueError(f) = "bad magic"
    BY <1>3, <1>5, Zenon DEF PrologueError
<1>6. ASSUME Len(f) >= 8, HasMagic(f), f[4] # kSupportedDbnVersion
      PROVE  PrologueError(f) = "unsupported version"
    BY <1>3, <1>6, Zenon DEF PrologueError
<1>7. QED
    BY <1>1, <1>2, <1>3, <1>4, <1>5, <1>6

(* The records of a file whose prologue passed every check begin inside it. *)
LEMMA PrologueGood ==
    ASSUME NEW f \in Seq(Byte), PrologueError(f) = "none"
    PROVE  /\ Len(f) \in Nat /\ Len(f) >= 8
           /\ RecordStart(f) \in Nat /\ RecordStart(f) >= 8
           /\ RecordStart(f) <= Len(f)
<1>1. Len(f) \in Nat
    BY LenProperties
<1>2. Len(f) >= 8
    BY <1>1 DEF PrologueError, HeaderSize
<1>3. RecordStart(f) \in Nat /\ RecordStart(f) >= 8
    BY <1>2, PrologueCases
<1>4. ~(RecordStart(f) > Len(f))
    BY <1>2, Zenon DEF PrologueError
<1>5. QED
    BY <1>1, <1>2, <1>3, <1>4

(* Zeros in the place of some bytes of the header, which a failed read or  *)
(* a truncation leaves, make the metadata shorter.                         *)
LEMMA ZerosShorten ==
    ASSUME NEW f \in Seq(Byte), NEW s \in Seq(Byte), Len(f) >= 8,
           Len(s) = Len(f), \A i \in 1..Len(f) : s[i] \in {f[i], 0}
    PROVE  RecordStart(s) <= RecordStart(f)
<1>1. Len(f) \in Nat
    BY LenProperties
<1>2. 5 \in 1..Len(f) /\ 6 \in 1..Len(f) /\ 7 \in 1..Len(f) /\ 8 \in 1..Len(f)
    BY <1>1
<1>3. f[5] \in Byte /\ f[6] \in Byte /\ f[7] \in Byte /\ f[8] \in Byte
    BY <1>2, ElementOfSeq
<1>4. /\ s[5] \in {f[5], 0} /\ s[6] \in {f[6], 0}
      /\ s[7] \in {f[7], 0} /\ s[8] \in {f[8], 0}
    BY <1>2
<1>5. ASSUME NEW a \in Byte, NEW b \in Byte, NEW c \in Byte, NEW d \in Byte,
             NEW p \in {a, 0}, NEW q \in {b, 0}, NEW r \in {c, 0}, NEW t \in {d, 0}
      PROVE  HeaderSize + LittleEndian(p, q, r, t)
                 <= HeaderSize + LittleEndian(a, b, c, d)
    BY DEF LittleEndian, Byte, HeaderSize
<1>6. QED
    BY <1>3, <1>4, <1>5 DEF RecordStart, MetadataLen

-----------------------------------------------------------------------------
(* The reference: how the boundaries of a file follow each other.  They    *)
(* are defined by recursion along the file, so these lemmas need           *)
(* induction; the property goes in as the set of numbers that have it.     *)

LEMMA SetInduction ==
    ASSUME NEW S, 0 \in S, \A n \in Nat : n \in S => n + 1 \in S
    PROVE  \A n \in Nat : n \in S
<1> SUFFICES ASSUME Nat \ S # {} PROVE FALSE
    OBVIOUS
<1>1. PICK x \in Nat \ S : \A y \in Nat \ S : <<y, x>> \notin OpToRel(<, Nat)
    BY NatLessThanWellFounded, WFMin
<1>2. x # 0 /\ x - 1 \in Nat /\ x - 1 < x
    OBVIOUS
<1>3. <<x - 1, x>> \in OpToRel(<, Nat)
    BY <1>2 DEF OpToRel
<1>4. x - 1 \in S
    BY <1>1, <1>2, <1>3
<1>5. x = (x - 1) + 1
    OBVIOUS
<1>6. QED
    BY <1>2, <1>4, <1>5

(* A step of the walk stays in the file and moves four bytes or more when  *)
(* there is a record.                                                      *)
LEMMA AfterIsLater ==
    ASSUME NEW f \in Seq(Byte), NEW p \in 0..Len(f)
    PROVE  /\ After(f, p) \in 0..Len(f) /\ p <= After(f, p)
           /\ IsWhole(f, p) => After(f, p) >= p + 4 /\ After(f, p) = p + RecordLen(f, p)
           /\ ~IsWhole(f, p) => After(f, p) = p
<1>1. Len(f) \in Nat
    BY LenProperties
<1>2. CASE IsWhole(f, p)
    <2>1. p + 1 \in 1..Len(f)
        BY <1>1, <1>2 DEF IsWhole
    <2>2. f[p + 1] \in Byte
        BY <2>1, ElementOfSeq
    <2>3. f[p + 1] # 0 /\ p + 4 * f[p + 1] <= Len(f)
        BY <1>2 DEF IsWhole, RecordLen
    <2>4. After(f, p) = p + RecordLen(f, p) /\ RecordLen(f, p) = 4 * f[p + 1]
        BY <1>2 DEF After, RecordLen
    <2>5. \A b \in Byte : b # 0 /\ p + 4 * b <= Len(f) =>
              p + 4 * b \in 0..Len(f) /\ p <= p + 4 * b /\ p + 4 * b >= p + 4
        BY <1>1 DEF Byte
    <2>6. QED
        BY <1>2, <2>2, <2>3, <2>4, <2>5
<1>3. CASE ~IsWhole(f, p)
    BY <1>1, <1>3 DEF After
<1>4. QED
    BY <1>2, <1>3

(* The equation that defines Walk, for its beginning. *)
IsWalk(f, W, k) ==
    W = [n \in 0..k |-> IF n = 0 THEN RecordStart(f) ELSE After(f, W[n - 1])]

LEMMA WalkExists ==
    ASSUME NEW f \in Seq(Byte), PrologueError(f) = "none"
    PROVE  \A k \in Nat : \E W \in [0..k -> 0..Len(f)] : IsWalk(f, W, k)
<1> DEFINE S == {k \in Nat : \E W \in [0..k -> 0..Len(f)] : IsWalk(f, W, k)}
<1>1. Len(f) \in Nat /\ RecordStart(f) \in 0..Len(f)
    BY PrologueGood
<1>2. 0 \in S
    <2> DEFINE W == [n \in 0..0 |-> RecordStart(f)]
    <2>1. W \in [0..0 -> 0..Len(f)]
        BY <1>1
    <2>2. W = [n \in 0..0 |-> IF n = 0 THEN RecordStart(f) ELSE After(f, W[n - 1])]
        OBVIOUS
    <2>3. QED
        BY <2>1, <2>2 DEF IsWalk
<1>3. ASSUME NEW k \in Nat, k \in S PROVE k + 1 \in S
    <2>1. PICK V \in [0..k -> 0..Len(f)] : IsWalk(f, V, k)
        BY <1>3
    <2> DEFINE W == [n \in 0..(k + 1) |-> IF n <= k THEN V[n] ELSE After(f, V[k])]
    <2>2. k \in 0..k /\ V[k] \in 0..Len(f)
        BY <2>1
    <2>3. After(f, V[k]) \in 0..Len(f)
        BY <2>2, AfterIsLater
    <2>4. W \in [0..(k + 1) -> 0..Len(f)]
        BY <2>3
    <2>5. ASSUME NEW n \in 0..(k + 1)
          PROVE  W[n] = IF n = 0 THEN RecordStart(f) ELSE After(f, W[n - 1])
        <3>1. CASE n = k + 1
            <4>1. n # 0 /\ n - 1 = k /\ ~(n <= k)
                BY <3>1
            <4>2. W[n] = After(f, V[k]) /\ W[k] = V[k]
                BY <2>2, <4>1
            <4>3. QED
                BY <4>1, <4>2
        <3>2. CASE n <= k
            <4>1. V[n] = IF n = 0 THEN RecordStart(f) ELSE After(f, V[n - 1])
                BY <3>2, <2>1 DEF IsWalk
            <4>2. n # 0 => n - 1 \in 0..(k + 1) /\ n - 1 <= k
                BY <3>2
            <4>3. n # 0 => W[n - 1] = V[n - 1]
                BY <4>2
            <4>4. W[n] = V[n]
                BY <3>2
            <4>5. QED
                BY <4>1, <4>3, <4>4
        <3>3. QED
            BY <3>1, <3>2
    <2>6. W = [n \in 0..(k + 1) |->
                  IF n = 0 THEN RecordStart(f) ELSE After(f, W[n - 1])]
        BY <2>5
    <2>7. IsWalk(f, W, k + 1)
        BY <2>6 DEF IsWalk
    <2> HIDE DEF W
    <2>8. \E X \in [0..(k + 1) -> 0..Len(f)] : IsWalk(f, X, k + 1)
        BY <2>4, <2>7
    <2>9. k + 1 \in Nat
        OBVIOUS
    <2>10. QED
        BY <2>8, <2>9
<1>4. \A k \in Nat : k \in S
    BY <1>2, <1>3, SetInduction
<1>5. QED
    BY <1>4

(* The boundaries are the values of a walk. *)
LEMMA BoundariesAre ==
    ASSUME NEW f \in Seq(Byte), PrologueError(f) = "none"
    PROVE  LET N == Len(f) \div 4 IN
           /\ N \in Nat
           /\ \E W : IsWalk(f, W, N) /\ Boundaries(f) = {W[n] : n \in 0..N}
<1> DEFINE N == Len(f) \div 4
           W == CHOOSE X : IsWalk(f, X, N)
<1>1. Len(f) \in Nat
    BY LenProperties
<1>2. N \in Nat
    BY <1>1
<1>3. \E X : IsWalk(f, X, N)
    BY <1>2, WalkExists
<1>4. IsWalk(f, W, N)
    BY <1>3
<1>5. Boundaries(f) = {W[n] : n \in 0..N}
    BY DEF Boundaries, IsWalk
<1>6. QED
    BY <1>2, <1>4, <1>5

(* The first boundary, and a step of the walk. *)
LEMMA WalkSteps ==
    ASSUME NEW f \in Seq(Byte), NEW N \in Nat, NEW W, IsWalk(f, W, N)
    PROVE  /\ W[0] = RecordStart(f)
           /\ \A n \in Nat : n + 1 <= N => W[n + 1] = After(f, W[n])
<1>1. W[0] = RecordStart(f)
    BY DEF IsWalk
<1>2. ASSUME NEW n \in Nat, n + 1 <= N PROVE W[n + 1] = After(f, W[n])
    <2>1. n + 1 \in 0..N /\ n + 1 # 0 /\ (n + 1) - 1 = n
        BY <1>2
    <2>2. W[n + 1] = After(f, W[(n + 1) - 1])
        BY <2>1 DEF IsWalk
    <2>3. QED
        BY <2>1, <2>2
<1>3. QED
    BY <1>1, <1>2

(* The walk stays in the file, and where it meets its n-th whole record it *)
(* has come four bytes for each one before.                                *)
LEMMA WalkBounds ==
    ASSUME NEW f \in Seq(Byte), PrologueError(f) = "none",
           NEW N \in Nat, NEW W, IsWalk(f, W, N), NEW n \in Nat, n <= N
    PROVE  W[n] \in 0..Len(f) /\ (IsWhole(f, W[n]) => 4 * n <= W[n])
<1> DEFINE S == {k \in Nat : k <= N =>
                    W[k] \in 0..Len(f) /\ (IsWhole(f, W[k]) => 4 * k <= W[k])}
<1>1. Len(f) \in Nat /\ RecordStart(f) \in 0..Len(f)
    BY PrologueGood
<1>2. 0 \in S
    BY <1>1, WalkSteps
<1>3. ASSUME NEW k \in Nat, k \in S PROVE k + 1 \in S
    <2> SUFFICES ASSUME k + 1 <= N
                 PROVE  /\ W[k + 1] \in 0..Len(f)
                        /\ IsWhole(f, W[k + 1]) => 4 * (k + 1) <= W[k + 1]
        OBVIOUS
    <2>1. k <= N
        OBVIOUS
    <2>2. W[k] \in 0..Len(f) /\ (IsWhole(f, W[k]) => 4 * k <= W[k])
        BY <1>3, <2>1
    <2>3. W[k + 1] = After(f, W[k])
        BY WalkSteps
    <2>4. /\ W[k + 1] \in 0..Len(f)
          /\ IsWhole(f, W[k]) => W[k + 1] >= W[k] + 4
          /\ ~IsWhole(f, W[k]) => W[k + 1] = W[k]
        BY <2>2, <2>3, AfterIsLater
    <2>5. \A a, b \in 0..Len(f) : 4 * k <= a /\ b >= a + 4 => 4 * (k + 1) <= b
        BY <1>1
    <2>6. QED
        BY <2>2, <2>4, <2>5
<1>4. \A k \in Nat : k \in S
    <2> HIDE DEF S
    <2>1. QED
        BY <1>2, <1>3, SetInduction
<1>5. QED
    BY <1>4

(* It never turns back. *)
LEMMA WalkGrows ==
    ASSUME NEW f \in Seq(Byte), PrologueError(f) = "none",
           NEW N \in Nat, NEW W, IsWalk(f, W, N),
           NEW m \in Nat, NEW n \in Nat, m <= n, n <= N
    PROVE  W[m] <= W[n]
<1> DEFINE S == {k \in Nat : m + k <= N => W[m] <= W[m + k]}
<1>1. Len(f) \in Nat
    BY LenProperties
<1>2. \A k \in Nat : k <= N => W[k] \in 0..Len(f)
    BY WalkBounds
<1>3. 0 \in S
    <2>1. m + 0 = m /\ m <= N
        OBVIOUS
    <2>2. W[m] \in 0..Len(f)
        BY <1>2, <2>1
    <2>3. W[m] <= W[m]
        BY <1>1, <2>2
    <2>4. QED
        BY <2>1, <2>3
<1>4. ASSUME NEW k \in Nat, k \in S PROVE k + 1 \in S
    <2> SUFFICES ASSUME m + (k + 1) <= N PROVE W[m] <= W[m + (k + 1)]
        OBVIOUS
    <2>1. m + k \in Nat /\ m + k <= N /\ (m + k) + 1 <= N /\ m <= N
          /\ m + (k + 1) = (m + k) + 1
        OBVIOUS
    <2>2. W[m] <= W[m + k]
        BY <1>4, <2>1
    <2>3. W[(m + k) + 1] = After(f, W[m + k])
        BY <2>1, WalkSteps
    <2>4. W[m] \in 0..Len(f) /\ W[m + k] \in 0..Len(f)
        BY <1>2, <2>1
    <2>5. W[m + k] <= After(f, W[m + k]) /\ After(f, W[m + k]) \in 0..Len(f)
        BY <2>4, AfterIsLater
    <2>6. \A a, b, c \in 0..Len(f) : a <= b /\ b <= c => a <= c
        BY <1>1
    <2>7. QED
        BY <2>1, <2>2, <2>3, <2>4, <2>5, <2>6
<1>5. \A k \in Nat : k \in S
    <2> HIDE DEF S
    <2>1. QED
        BY <1>3, <1>4, SetInduction
<1>6. n - m \in Nat /\ m + (n - m) = n
    OBVIOUS
<1>7. n - m \in S
    BY <1>5, <1>6
<1>8. QED
    BY <1>6, <1>7

(* What the rest needs of the boundaries: they lie in the file and begin   *)
(* at the first record, and the one after a whole record is its end.       *)
LEMMA BoundaryFacts ==
    ASSUME NEW f \in Seq(Byte), PrologueError(f) = "none"
    PROVE  /\ Boundaries(f) \subseteq 0..Len(f)
           /\ RecordStart(f) \in Boundaries(f)
           /\ \A q \in Boundaries(f) : RecordStart(f) <= q
<1> DEFINE N == Len(f) \div 4
<1>1. PICK W : N \in Nat /\ IsWalk(f, W, N) /\ Boundaries(f) = {W[n] : n \in 0..N}
    BY BoundariesAre
<1> HIDE DEF N
<1>2. \A n \in 0..N : W[n] \in 0..Len(f)
    BY <1>1, WalkBounds
<1>3. W[0] = RecordStart(f) /\ 0 \in 0..N
    BY <1>1, WalkSteps
<1>4. \A n \in 0..N : W[0] <= W[n]
    BY <1>1, WalkGrows
<1>5. QED
    BY <1>1, <1>2, <1>3, <1>4

LEMMA BoundaryStep ==
    ASSUME NEW f \in Seq(Byte), PrologueError(f) = "none",
           NEW p \in Boundaries(f), IsWhole(f, p)
    PROVE  /\ p + RecordLen(f, p) \in Boundaries(f)
           /\ p < p + RecordLen(f, p)
           /\ \A q \in Boundaries(f) : q <= p \/ p + RecordLen(f, p) <= q
<1> DEFINE N == Len(f) \div 4
<1>1. PICK W : N \in Nat /\ IsWalk(f, W, N) /\ Boundaries(f) = {W[n] : n \in 0..N}
    BY BoundariesAre
<1>2. PICK n \in 0..N : p = W[n]
    BY <1>1
<1>3. Len(f) \in Nat /\ n \in Nat /\ p \in 0..Len(f) /\ 4 * n <= p
    BY <1>1, <1>2, WalkBounds, LenProperties
<1>4. /\ After(f, p) \in 0..Len(f) /\ After(f, p) >= p + 4
      /\ After(f, p) = p + RecordLen(f, p)
    BY <1>3, AfterIsLater
<1>5. 4 * (n + 1) <= Len(f)
    BY <1>3, <1>4
<1>6. n + 1 <= N
    BY <1>3, <1>5
<1> HIDE DEF N
<1>7. W[n + 1] = After(f, p)
    BY <1>1, <1>2, <1>3, <1>6, WalkSteps
<1>8. n + 1 \in 0..N
    BY <1>3, <1>6
<1>9. ASSUME NEW q \in Boundaries(f) PROVE q <= p \/ After(f, p) <= q
    <2>1. PICK m \in 0..N : q = W[m]
        BY <1>1
    <2>2. m <= n \/ n + 1 <= m
        BY <1>3
    <2>3. QED
        BY <1>1, <1>2, <1>3, <1>6, <1>7, <2>1, <2>2, WalkGrows
<1>10. QED
    BY <1>1, <1>3, <1>4, <1>7, <1>8, <1>9

-----------------------------------------------------------------------------
(* The framer and the router against the reference. *)

(* The length byte, read by the reference. *)
LEMMA WordLength ==
    ASSUME NEW b \in Byte
    PROVE  /\ 4 * b \in Nat /\ 4 * b = RecordSize(b)
           /\ 4 * b = 0 <=> b = 0
           /\ b # 0 => 4 * b >= 4
BY DEF Byte, RecordSize

(* frame_one finds a record where the reference has one, of its length. *)
LEMMA FrameWhole ==
    ASSUME NEW f \in Seq(Byte), NEW p \in 0..Len(f)
    PROVE  LET r == frame_one(SubSeq(f, p + 1, Len(f))) IN
           /\ r.status = "Ok" <=> IsWhole(f, p)
           /\ r.status = "Ok" => r.record_size = RecordLen(f, p)
<1> DEFINE b == SubSeq(f, p + 1, Len(f))
<1>1. Len(f) \in Nat /\ p \in Nat /\ p <= Len(f)
    BY LenProperties
<1>2. Len(b) = Len(f) - p /\ \A i \in 1..(Len(f) - p) : b[i] = f[p + i]
    BY <1>1, Slice
<1>3. CASE Len(f) - p < 2
    <2>1. frame_one(b).status = "NeedMore"
        BY <1>2, <1>3 DEF frame_one, Frame
    <2>2. ASSUME IsWhole(f, p) PROVE FALSE
        <3>1. After(f, p) \in 0..Len(f) /\ After(f, p) >= p + 4
            BY <2>2, AfterIsLater
        <3>2. QED
            BY <1>1, <1>3, <3>1
    <2>3. QED
        BY <2>1, <2>2
<1>4. CASE Len(f) - p >= 2
    <2>1. b[1] = f[p + 1] /\ p + 1 \in 1..Len(f) /\ p < Len(f)
        BY <1>1, <1>2, <1>4
    <2>2. f[p + 1] \in Byte
        BY <2>1, ElementOfSeq
    <2>3. RecordSize(b[1]) = RecordLen(f, p)
        BY <2>1, <2>2, WordLength DEF RecordLen
    <2>4. RecordLen(f, p) \in Nat /\ (RecordLen(f, p) = 0 <=> f[p + 1] = 0)
        BY <2>2, WordLength DEF RecordLen
    <2>5. ~(Len(b) < 2) /\ (Len(b) < RecordLen(f, p) <=> p + RecordLen(f, p) > Len(f))
        BY <1>1, <1>2, <1>4, <2>4
    <2>6. frame_one(b) =
             IF RecordLen(f, p) = 0 THEN Frame("Corrupt", 0, 0)
             ELSE IF Len(b) < RecordLen(f, p) THEN Frame("NeedMore", 0, 0)
             ELSE Frame("Ok", b[2], RecordLen(f, p))
        BY <2>3, <2>5 DEF frame_one
    <2>7. IsWhole(f, p) <=> RecordLen(f, p) # 0 /\ ~(Len(b) < RecordLen(f, p))
        BY <1>1, <2>1, <2>4, <2>5 DEF IsWhole
    <2>8. QED
        BY <2>6, <2>7 DEF Frame
<1>5. QED
    BY <1>1, <1>3, <1>4

(* The fields of a record, seen from the record and from the file. *)
LEMMA FieldsAgree ==
    ASSUME NEW f \in Seq(Byte), NEW p \in Nat, p + SizeofWireMbo <= Len(f)
    PROVE  LET w == SubSeq(f, p + 1, p + SizeofWireMbo) IN
           /\ \A name \in WireMbo : Field(w, name) = FieldAt(f, p, name)
           /\ \A name \in {"action", "side"} :
                 ByteAt(w, name) = FieldAt(f, p, name)[1]
<1> DEFINE w == SubSeq(f, p + 1, p + SizeofWireMbo)
<1>1. Len(f) \in Nat /\ SizeofWireMbo \in Nat /\ p + SizeofWireMbo \in Nat
    BY LenProperties, LayoutAssumption
<1>2. ASSUME NEW name \in WireMbo
      PROVE  /\ Offset[name] \in Nat /\ Width[name] \in Nat
             /\ Offset[name] + Width[name] <= SizeofWireMbo
    BY LayoutAssumption
<1>3. ASSUME NEW name \in WireMbo PROVE Field(w, name) = FieldAt(f, p, name)
    <2>1. \A o, v \in Nat : o + v <= SizeofWireMbo =>
             SubSeq(w, o + 1, o + v) = SubSeq(f, p + o + 1, p + (o + v))
        <3> SUFFICES ASSUME NEW o \in Nat, NEW v \in Nat, o + v <= SizeofWireMbo
                     PROVE  SubSeq(w, o + 1, o + v) = SubSeq(f, p + o + 1, p + (o + v))
            OBVIOUS
        <3>1. /\ p <= p + SizeofWireMbo /\ o + v \in Nat /\ o <= o + v
              /\ o + v <= (p + SizeofWireMbo) - p
            BY <1>1
        <3>2. QED
            BY <1>1, <3>1, SliceSlice
    <2>2. SubSeq(w, Offset[name] + 1, Offset[name] + Width[name])
            = SubSeq(f, p + Offset[name] + 1, p + (Offset[name] + Width[name]))
        BY <1>2, <2>1
    <2>3. p + (Offset[name] + Width[name]) = p + Offset[name] + Width[name]
        BY <1>2
    <2>4. QED
        BY <2>2, <2>3 DEF Field, FieldAt
<1>4. ASSUME NEW name \in {"action", "side"}
      PROVE  ByteAt(w, name) = FieldAt(f, p, name)[1]
    <2>1. name \in WireMbo
        BY DEF WireMbo, EventFields
    <2>2. /\ Offset[name] \in Nat /\ Width[name] = 1
          /\ Offset[name] + 1 <= SizeofWireMbo
        BY <1>2, <2>1, LayoutAssumption
    <2>3. \A o \in Nat : o + 1 <= SizeofWireMbo =>
             w[o + 1] = SubSeq(f, p + o + 1, p + o + 1)[1]
        <3> SUFFICES ASSUME NEW o \in Nat, o + 1 <= SizeofWireMbo
                     PROVE  w[o + 1] = SubSeq(f, p + o + 1, p + o + 1)[1]
            OBVIOUS
        <3>1. /\ o + 1 \in 1..((p + SizeofWireMbo) - p) /\ p + (o + 1) = p + o + 1
              /\ p + o \in Nat /\ p + o + 1 \in Nat /\ p + o + 1 <= Len(f)
              /\ 1 \in 1..((p + o + 1) - (p + o))
            BY <1>1
        <3>2. w[o + 1] = f[p + (o + 1)]
            BY <1>1, <3>1, Slice
        <3>3. \A q \in Nat : q + 1 <= Len(f) => SubSeq(f, q + 1, q + 1)[1] = f[q + 1]
            <4> SUFFICES ASSUME NEW q \in Nat, q + 1 <= Len(f)
                         PROVE  SubSeq(f, q + 1, q + 1)[1] = f[q + 1]
                OBVIOUS
            <4>1. q + 1 \in Nat /\ 1 \in 1..((q + 1) - q)
                OBVIOUS
            <4>2. QED
                BY <4>1, Slice
        <3>4. QED
            BY <3>1, <3>2, <3>3
    <2>4. w[Offset[name] + 1] =
             SubSeq(f, p + Offset[name] + 1, p + Offset[name] + 1)[1]
        BY <2>2, <2>3
    <2>5. QED
        BY <2>2, <2>4 DEF ByteAt, FieldAt
<1>5. QED
    BY <1>3, <1>4

(* route_record sorts the records as the reference does. *)
LEMMA RouteAgrees ==
    ASSUME NEW f \in Seq(Byte), NEW p \in 0..Len(f), IsWhole(f, p)
    PROVE  LET r == route_record(SubSeq(f, p + 1, p + RecordLen(f, p))) IN
           /\ r.outcome = IF ~IsMbo(f, p) THEN "SkipNonMbo"
                          ELSE IF IsWellFormed(f, p) THEN "Emit" ELSE "SkipMalformed"
           /\ IsWellFormed(f, p) =>
                 \A name \in EventFields : r.event[name] = FieldAt(f, p, name)
<1> DEFINE n == RecordLen(f, p)
           w == SubSeq(f, p + 1, p + n)
<1>1. Len(f) \in Nat /\ p \in Nat
    BY LenProperties
<1>2. n \in Nat /\ n >= 4 /\ p + n \in Nat /\ p + n <= Len(f)
    <2>1. p + 1 \in 1..Len(f)
        BY <1>1 DEF IsWhole
    <2>2. f[p + 1] \in Byte /\ f[p + 1] # 0 /\ p + n <= Len(f)
        BY <2>1, ElementOfSeq DEF IsWhole
    <2>3. n \in Nat /\ n >= 4
        BY <2>2, WordLength DEF RecordLen
    <2>4. QED
        BY <1>1, <2>2, <2>3
<1> HIDE DEF n
<1>3. Len(w) = n /\ w[2] = f[p + 2]
    <2>1. Len(w) = (p + n) - p /\ \A i \in 1..((p + n) - p) : w[i] = f[p + i]
        BY <1>1, <1>2, Slice
    <2>2. 2 \in 1..((p + n) - p) /\ (p + n) - p = n
        BY <1>1, <1>2
    <2>3. QED
        BY <2>1, <2>2
<1>4. IsMbo(f, p) <=> w[2] = kMboRtype /\ Len(w) = SizeofWireMbo
    BY <1>3 DEF IsMbo, kMboRtype, n
<1>5. CASE ~IsMbo(f, p)
    <2>1. route_record(w) = Routed("SkipNonMbo", NoEvent)
        BY <1>4, <1>5 DEF route_record
    <2>2. QED
        BY <1>5, <2>1 DEF Routed, IsWellFormed, n
<1>6. CASE IsMbo(f, p)
    <2>1. n = SizeofWireMbo
        BY <1>3, <1>4, <1>6
    <2>2. /\ \A name \in WireMbo : Field(w, name) = FieldAt(f, p, name)
          /\ \A name \in {"action", "side"} :
                ByteAt(w, name) = FieldAt(f, p, name)[1]
        BY <1>1, <1>2, <2>1, FieldsAgree
    <2>3. IsWellFormed(f, p) <=>
             is_valid_action(ByteAt(w, "action")) /\ is_valid_side(ByteAt(w, "side"))
        BY <1>6, <2>2 DEF IsWellFormed, is_valid_action, is_valid_side, Action, Side
    <2>4. route_record(w) = IF to_event(w).error = "none"
                            THEN Routed("Emit", to_event(w).event)
                            ELSE Routed("SkipMalformed", NoEvent)
        BY <1>4, <1>6 DEF route_record
    <2>5. CASE IsWellFormed(f, p)
        <3>1. to_event(w) = [error |-> "none", event |-> EventOf(w)]
            BY <2>3, <2>5 DEF to_event
        <3>2. route_record(w) = Routed("Emit", EventOf(w))
            BY <2>4, <3>1
        <3>3. \A name \in EventFields : EventOf(w)[name] = FieldAt(f, p, name)
            BY <2>2 DEF EventOf, WireMbo
        <3>4. QED
            BY <1>6, <2>5, <3>2, <3>3 DEF Routed, n
    <2>6. CASE ~IsWellFormed(f, p)
        <3>1. to_event(w).error # "none"
            BY <2>3, <2>6 DEF to_event
        <3>2. route_record(w) = Routed("SkipMalformed", NoEvent)
            BY <2>4, <3>1
        <3>3. QED
            BY <1>6, <2>6, <3>2 DEF Routed, n
    <2>7. QED
        BY <2>5, <2>6
<1>7. QED
    BY <1>5, <1>6

(* Past one more record, the reference has that record more. *)
LEMMA RecordsGrow ==
    ASSUME NEW f \in Seq(Byte), PrologueError(f) = "none",
           NEW p \in Boundaries(f), IsWhole(f, p)
    PROVE  /\ RecordsBefore(f, p + RecordLen(f, p)) = RecordsBefore(f, p) \cup {p}
           /\ \A q \in RecordsBefore(f, p) : q \in Nat /\ q < p
           /\ p \in Nat /\ IsFiniteSet(RecordsBefore(f, p))
<1> DEFINE e == p + RecordLen(f, p)
<1>1. /\ Boundaries(f) \subseteq 0..Len(f) /\ Len(f) \in Nat
    BY BoundaryFacts, LenProperties
<1>2. p < e /\ e \in Boundaries(f) /\ \A q \in Boundaries(f) : q <= p \/ e <= q
    BY BoundaryStep
<1> HIDE DEF e
<1>3. p \in Nat /\ e \in Nat /\ Boundaries(f) \subseteq Nat
    BY <1>1, <1>2
<1>4. \A q \in Boundaries(f) : q < e <=> q < p \/ q = p
    BY <1>2, <1>3
<1>5. RecordsBefore(f, e) = RecordsBefore(f, p) \cup {p}
    BY <1>4 DEF RecordsBefore
<1>6. \A q \in RecordsBefore(f, p) : q \in Nat /\ q < p
    BY <1>3 DEF RecordsBefore
<1>7. IsFiniteSet(RecordsBefore(f, p))
    <2>1. RecordsBefore(f, p) \in SUBSET Nat /\ \A q \in RecordsBefore(f, p) : q <= p
        BY <1>3, <1>6
    <2>2. QED
        BY <1>3, <2>1, FS_BoundedSetOfNaturals
<1>8. QED
    BY <1>3, <1>5, <1>6, <1>7 DEF e

(* Before the first record nothing is decoded. *)
LEMMA DecodingStart ==
    ASSUME NEW f \in Seq(Byte), PrologueError(f) = "none"
    PROVE  IsDecoding(f, RecordStart(f), <<>>, NoStats)
<1>1. RecordsBefore(f, RecordStart(f)) = {}
    <2>1. \A q \in Boundaries(f) : q \in Nat /\ RecordStart(f) <= q
        BY BoundaryFacts, LenProperties
    <2>2. RecordStart(f) \in Nat
        BY PrologueGood
    <2>3. \A q \in Boundaries(f) : ~(q < RecordStart(f))
        BY <2>1, <2>2
    <2>4. QED
        BY <2>3 DEF RecordsBefore
<1>2. Cardinality({}) = 0
    BY FS_EmptySet
<1>3. /\ {p \in RecordsBefore(f, RecordStart(f)) : IsWellFormed(f, p)} = {}
      /\ {p \in RecordsBefore(f, RecordStart(f)) : ~IsMbo(f, p)} = {}
      /\ {p \in RecordsBefore(f, RecordStart(f)) : IsMbo(f, p)} \ {} = {}
    BY <1>1
<1>4. Len(<<>>) = 0
    BY EmptySeq
<1>5. QED
    BY <1>1, <1>2, <1>3, <1>4 DEF IsDecoding, NoStats

(* One more element that passes a test, or does not. *)
LEMMA OneMore ==
    ASSUME NEW R, IsFiniteSet(R), NEW x, x \notin R
    PROVE  /\ IsFiniteSet(R) /\ Cardinality(R) \in Nat
           /\ Cardinality(R \cup {x}) = Cardinality(R) + 1
BY FS_AddElement, FS_CardinalityType

(* One record decoded by the router and counted by tally is one record     *)
(* decoded by the reference.                                               *)
LEMMA DecodingStep ==
    ASSUME NEW f \in Seq(Byte), PrologueError(f) = "none",
           NEW p \in Boundaries(f), IsWhole(f, p),
           NEW events \in Seq(Event), NEW stats \in IngestStats,
           IsDecoding(f, p, events, stats),
           NEW r, r = route_record(SubSeq(f, p + 1, p + RecordLen(f, p)))
    PROVE  IsDecoding(f, p + RecordLen(f, p),
                      IF r.outcome = "Emit" THEN Append(events, r.event) ELSE events,
                      tally(stats, r))
<1> DEFINE R == RecordsBefore(f, p)
           E == {q \in R : IsWellFormed(f, q)}
           N == {q \in R : ~IsMbo(f, q)}
           M == {q \in R : IsMbo(f, q)} \ E
           R2 == RecordsBefore(f, p + RecordLen(f, p))
           E2 == {q \in R2 : IsWellFormed(f, q)}
           N2 == {q \in R2 : ~IsMbo(f, q)}
           M2 == {q \in R2 : IsMbo(f, q)} \ E2
           ev2 == IF r.outcome = "Emit" THEN Append(events, r.event) ELSE events
           st2 == tally(stats, r)
<1>1. /\ R2 = R \cup {p} /\ IsFiniteSet(R) /\ p \in Nat
      /\ \A q \in R : q \in Nat /\ q < p
    BY RecordsGrow
<1>2. p \notin R
    BY <1>1
<1>3. p \in 0..Len(f)
    BY BoundaryFacts
<1>4. /\ r.outcome = (IF ~IsMbo(f, p) THEN "SkipNonMbo"
                      ELSE IF IsWellFormed(f, p) THEN "Emit" ELSE "SkipMalformed")
      /\ IsWellFormed(f, p) =>
            \A name \in EventFields : r.event[name] = FieldAt(f, p, name)
    BY <1>3, RouteAgrees
<1>5. /\ Len(events) = Cardinality(E)
      /\ \A q \in E : \A name \in EventFields :
            events[Cardinality({x \in E : x <= q})][name] = FieldAt(f, q, name)
      /\ stats.records = Cardinality(R) /\ stats.events = Cardinality(E)
      /\ stats.skipped_non_mbo = Cardinality(N)
      /\ stats.skipped_malformed = Cardinality(M)
    BY DEF IsDecoding
<1>6. IsFiniteSet(E) /\ IsFiniteSet(N) /\ IsFiniteSet(M)
    <2>1. E \in SUBSET R /\ N \in SUBSET R /\ M \in SUBSET R
        OBVIOUS
    <2>2. QED
        BY <1>1, <2>1, FS_Subset
<1>7. /\ Cardinality(R \cup {p}) = Cardinality(R) + 1
      /\ Cardinality(E \cup {p}) = Cardinality(E) + 1
      /\ Cardinality(N \cup {p}) = Cardinality(N) + 1
      /\ Cardinality(M \cup {p}) = Cardinality(M) + 1
    <2>1. p \notin E /\ p \notin N /\ p \notin M
        BY <1>2
    <2> HIDE DEF R, E, N, M
    <2>2. QED
        BY <1>1, <1>2, <1>6, <2>1, OneMore
<1>8. /\ Cardinality(R) \in Nat /\ Cardinality(E) \in Nat
      /\ Cardinality(N) \in Nat /\ Cardinality(M) \in Nat
    <2> HIDE DEF R, E, N, M
    <2>1. QED
        BY <1>1, <1>6, FS_CardinalityType
<1>9. \A q : IsWellFormed(f, q) => IsMbo(f, q)
    BY DEF IsWellFormed
<1>10. r.outcome \in {"Emit", "SkipNonMbo", "SkipMalformed"}
    BY <1>4
<1>11. /\ st2.records = stats.records + 1
       /\ st2.events = stats.events + (IF r.outcome = "Emit" THEN 1 ELSE 0)
       /\ st2.skipped_non_mbo =
             stats.skipped_non_mbo + (IF r.outcome = "SkipNonMbo" THEN 1 ELSE 0)
       /\ st2.skipped_malformed =
             stats.skipped_malformed + (IF r.outcome = "SkipMalformed" THEN 1 ELSE 0)
    BY <1>10, Tally
<1>12. SUFFICES /\ Len(ev2) = Cardinality(E2)
                /\ \A q \in E2 : \A name \in EventFields :
                      ev2[Cardinality({x \in E2 : x <= q})][name] = FieldAt(f, q, name)
                /\ st2.records = Cardinality(R2) /\ st2.events = Cardinality(E2)
                /\ st2.skipped_non_mbo = Cardinality(N2)
                /\ st2.skipped_malformed = Cardinality(M2)
    BY DEF IsDecoding
<1>13. CASE ~IsMbo(f, p)
    <2>1. E2 = E /\ N2 = N \cup {p} /\ M2 = M
        BY <1>1, <1>9, <1>13
    <2>2. r.outcome = "SkipNonMbo" /\ ev2 = events
        BY <1>4, <1>13
    <2> HIDE DEF R, E, N, M, R2, E2, N2, M2, ev2, st2
    <2>3. QED
        BY <1>1, <1>5, <1>7, <1>8, <1>11, <2>1, <2>2
<1>14. CASE IsMbo(f, p) /\ ~IsWellFormed(f, p)
    <2>1. E2 = E /\ N2 = N /\ M2 = M \cup {p}
        BY <1>1, <1>14
    <2>2. r.outcome = "SkipMalformed" /\ ev2 = events
        BY <1>4, <1>14
    <2> HIDE DEF R, E, N, M, R2, E2, N2, M2, ev2, st2
    <2>3. QED
        BY <1>1, <1>5, <1>7, <1>8, <1>11, <2>1, <2>2
<1>15. CASE IsWellFormed(f, p)
    <2>1. E2 = E \cup {p} /\ N2 = N /\ M2 = M
        BY <1>1, <1>2, <1>9, <1>15
    <2>2. r.outcome = "Emit" /\ ev2 = Append(events, r.event)
        BY <1>4, <1>9, <1>15
    <2>3. \A q \in E : q \in Nat /\ q < p
        BY <1>1
    <2>4. \A q \in E2 : \A name \in EventFields :
             ev2[Cardinality({x \in E2 : x <= q})][name] = FieldAt(f, q, name)
        <3> HIDE DEF R, E, N, M, R2, E2, N2, M2, ev2, st2
        <3> SUFFICES ASSUME NEW q \in E2, NEW name \in EventFields
                     PROVE  ev2[Cardinality({x \in E2 : x <= q})][name]
                                = FieldAt(f, q, name)
            OBVIOUS
        <3>1. CASE q \in E
            <4> DEFINE T == {x \in E : x <= q}
            <4>1. {x \in E2 : x <= q} = T
                BY <1>1, <2>1, <2>3, <3>1
            <4>2. T \in SUBSET E /\ q \in T
                BY <2>3, <3>1
            <4>3. IsFiniteSet(T) /\ Cardinality(T) <= Cardinality(E)
                BY <1>6, <4>2, FS_Subset
            <4>4. Cardinality(T) \in Nat /\ Cardinality(T) # 0
                BY <4>2, <4>3, FS_EmptySet, FS_CardinalityType
            <4>5. Cardinality(T) \in 1..Len(events)
                BY <1>5, <1>8, <4>3, <4>4
            <4>6. ev2[Cardinality(T)] = events[Cardinality(T)]
                BY <2>2, <4>5, AppendProperties
            <4>7. QED
                BY <1>5, <3>1, <4>1, <4>6
        <3>2. CASE q = p
            <4>a. p <= p /\ \A x \in E : x <= p
                BY <1>1, <2>3
            <4>b. \A x \in E2 : x <= q
                BY <2>1, <3>2, <4>a
            <4>1. {x \in E2 : x <= q} = E2
                BY <4>b
            <4>2. Cardinality(E2) = Len(events) + 1
                BY <1>5, <1>7, <2>1
            <4>3. ev2[Len(events) + 1] = r.event
                BY <2>2, AppendProperties
            <4>4. QED
                BY <1>4, <1>15, <3>2, <4>1, <4>2, <4>3
        <3>3. QED
            BY <2>1, <3>1, <3>2
    <2>5. Len(ev2) = Len(events) + 1
        BY <2>2, AppendProperties
    <2> HIDE DEF R, E, N, M, R2, E2, N2, M2, ev2, st2
    <2>6. Len(ev2) = Cardinality(E2) /\ st2.records = Cardinality(R2)
        BY <1>1, <1>5, <1>7, <1>8, <1>11, <2>1, <2>5
    <2>7. st2.events = Cardinality(E2)
        BY <1>5, <1>7, <1>8, <1>11, <2>1, <2>2
    <2>8. stats.skipped_non_mbo + 0 = stats.skipped_non_mbo
          /\ stats.skipped_malformed + 0 = stats.skipped_malformed
        BY <1>5, <1>8
    <2>9. /\ st2.skipped_non_mbo = Cardinality(N2)
          /\ st2.skipped_malformed = Cardinality(M2)
        BY <1>5, <1>11, <2>1, <2>2, <2>8
    <2>10. QED
        BY <2>4, <2>6, <2>7, <2>9
<1>16. QED
    BY <1>9, <1>13, <1>14, <1>15

(* What a reader has done when it stands at p in the file f: the form in   *)
(* which the readers' proofs use the reference.                            *)
Decoded(f, p, events, stats) ==
    /\ PrologueError(f) = "none" /\ p \in Boundaries(f)
    /\ events \in Seq(Event) /\ stats \in IngestStats
    /\ IsDecoding(f, p, events, stats)

LEMMA DecodedStart ==
    ASSUME NEW f \in Seq(Byte), PrologueError(f) = "none"
    PROVE  Decoded(f, RecordStart(f), <<>>, NoStats)
<1>1. <<>> \in Seq(Event) /\ NoStats \in IngestStats
    BY EmptySeq DEF NoStats, IngestStats
<1>2. QED
    BY <1>1, BoundaryFacts, DecodingStart DEF Decoded

LEMMA DecodedStep ==
    ASSUME NEW f \in Seq(Byte), NEW p, NEW events, NEW stats,
           Decoded(f, p, events, stats), NEW n, NEW r,
           frame_one(SubSeq(f, p + 1, Len(f))).status = "Ok",
           frame_one(SubSeq(f, p + 1, Len(f))).record_size = n,
           route_record(SubSeq(f, p + 1, p + n)) = r
    PROVE  Decoded(f, p + n,
                   IF r.outcome = "Emit" THEN Append(events, r.event) ELSE events,
                   tally(stats, r))
<1>1. p \in 0..Len(f) /\ p \in Boundaries(f)
    BY BoundaryFacts DEF Decoded
<1>2. IsWhole(f, p) /\ n = RecordLen(f, p)
    BY <1>1, FrameWhole
<1>3. /\ p + n \in Boundaries(f)
      /\ IsDecoding(f, p + n,
                    IF r.outcome = "Emit" THEN Append(events, r.event) ELSE events,
                    tally(stats, r))
    BY <1>2, BoundaryStep, DecodingStep DEF Decoded
<1>4. SubSeq(f, p + 1, p + n) \in Seq(Byte)
    <2>1. Len(f) \in Nat /\ p \in Nat
        BY <1>1, LenProperties
    <2>2. p + n \in 0..Len(f)
        BY <1>3, BoundaryFacts DEF Decoded
    <2>3. p + n \in Nat /\ p + n <= Len(f)
        BY <2>1, <2>2
    <2>4. QED
        BY <2>1, <2>3, Slice
<1>5. /\ r.outcome \in {"Emit", "SkipNonMbo", "SkipMalformed"}
      /\ r.outcome = "Emit" => r.event \in Event
    BY <1>4, RouteRecord
<1>6. tally(stats, r) \in IngestStats
    BY <1>5, Tally DEF Decoded
<1>7. r.outcome = "Emit" => Append(events, r.event) \in Seq(Event)
    BY <1>5, AppendProperties DEF Decoded
<1>8. QED
    BY <1>3, <1>6, <1>7 DEF Decoded

-----------------------------------------------------------------------------
(* The end of the records.  Where there is no whole record any more the    *)
(* walk stands still, so a reader that stopped there has decoded all.      *)

LEMMA WalkStays ==
    ASSUME NEW f \in Seq(Byte), NEW N \in Nat, NEW W, IsWalk(f, W, N),
           NEW m \in Nat, NEW n \in Nat, m <= n, n <= N, ~IsWhole(f, W[m])
    PROVE  W[n] = W[m]
<1> DEFINE S == {k \in Nat : m + k <= N => W[m + k] = W[m]}
<1>1. 0 \in S
    OBVIOUS
<1>2. ASSUME NEW k \in Nat, k \in S PROVE k + 1 \in S
    <2> SUFFICES ASSUME m + (k + 1) <= N PROVE W[m + (k + 1)] = W[m]
        OBVIOUS
    <2>1. m + k \in Nat /\ m + k <= N /\ (m + k) + 1 <= N /\ m + (k + 1) = (m + k) + 1
        OBVIOUS
    <2>2. W[m + k] = W[m]
        BY <1>2, <2>1
    <2>3. W[(m + k) + 1] = After(f, W[m + k])
        BY <2>1, WalkSteps
    <2>4. QED
        BY <2>1, <2>2, <2>3 DEF After
<1>3. \A k \in Nat : k \in S
    <2> HIDE DEF S
    <2>1. QED
        BY <1>1, <1>2, SetInduction
<1>4. n - m \in Nat /\ m + (n - m) = n
    OBVIOUS
<1>5. n - m \in S
    BY <1>3, <1>4
<1>6. QED
    BY <1>4, <1>5

(* A boundary at which no whole record begins is the last one. *)
LEMMA LastBoundary ==
    ASSUME NEW f \in Seq(Byte), PrologueError(f) = "none",
           NEW p \in Boundaries(f), ~IsWhole(f, p)
    PROVE  /\ \A q \in Boundaries(f) : q <= p
           /\ RecordsBefore(f, Len(f)) = RecordsBefore(f, p)
<1> DEFINE N == Len(f) \div 4
<1>1. PICK W : N \in Nat /\ IsWalk(f, W, N) /\ Boundaries(f) = {W[n] : n \in 0..N}
    BY BoundariesAre
<1> HIDE DEF N
<1>2. PICK m \in 0..N : p = W[m]
    BY <1>1
<1>3. Len(f) \in Nat /\ p \in 0..Len(f) /\ Boundaries(f) \subseteq 0..Len(f)
    BY BoundaryFacts, LenProperties
<1>4. ASSUME NEW q \in Boundaries(f) PROVE q <= p
    <2>1. PICK n \in 0..N : q = W[n]
        BY <1>1
    <2>2. CASE n <= m
        BY <1>1, <1>2, <2>1, <2>2, WalkGrows
    <2>3. CASE m <= n
        <3>1. W[n] = W[m]
            BY <1>1, <1>2, <2>3, WalkStays
        <3>2. QED
            BY <1>2, <1>3, <2>1, <3>1
    <2>4. QED
        BY <1>1, <2>2, <2>3
<1>5. ASSUME NEW q \in Boundaries(f), IsWhole(f, q) PROVE q < Len(f) /\ q < p
    <2>1. q # p /\ q <= p /\ q < Len(f)
        BY <1>4, <1>5 DEF IsWhole
    <2>2. QED
        BY <1>3, <2>1
<1>6. RecordsBefore(f, Len(f)) = RecordsBefore(f, p)
    BY <1>5 DEF RecordsBefore
<1>7. QED
    BY <1>4, <1>6

(* Every boundary but the first is the end of a record. *)
LEMMA BoundariesAreEnds ==
    ASSUME NEW f \in Seq(Byte), PrologueError(f) = "none", NEW p \in Boundaries(f)
    PROVE  \/ p = RecordStart(f)
           \/ \E q \in RecordsBefore(f, Len(f)) : p = q + RecordLen(f, q)
<1> DEFINE N == Len(f) \div 4
           R == RecordsBefore(f, Len(f))
<1>1. PICK W : N \in Nat /\ IsWalk(f, W, N) /\ Boundaries(f) = {W[n] : n \in 0..N}
    BY BoundariesAre
<1> HIDE DEF N
<1> DEFINE E == {RecordStart(f)} \cup {q + RecordLen(f, q) : q \in R}
           S == {k \in Nat : k <= N => W[k] \in E}
<1>2. 0 \in S
    BY <1>1, WalkSteps
<1>3. ASSUME NEW k \in Nat, k \in S PROVE k + 1 \in S
    <2> SUFFICES ASSUME k + 1 <= N PROVE W[k + 1] \in E
        OBVIOUS
    <2>1. k <= N /\ k \in 0..N
        BY <1>1
    <2>2. W[k] \in E /\ W[k] \in Boundaries(f)
        BY <1>1, <1>3, <2>1
    <2>3. W[k + 1] = After(f, W[k])
        BY <1>1, WalkSteps
    <2>4. CASE IsWhole(f, W[k])
        <3>1. W[k] \in R
            BY <2>2, <2>4 DEF RecordsBefore, IsWhole
        <3>2. W[k + 1] = W[k] + RecordLen(f, W[k])
            BY <2>3, <2>4 DEF After
        <3> HIDE DEF R
        <3>3. QED
            BY <3>1, <3>2
    <2>5. CASE ~IsWhole(f, W[k])
        BY <2>2, <2>3, <2>5 DEF After
    <2>6. QED
        BY <2>4, <2>5
<1>4. \A k \in Nat : k \in S
    <2> HIDE DEF S
    <2>1. QED
        BY <1>2, <1>3, SetInduction
<1>5. PICK n \in 0..N : p = W[n]
    BY <1>1
<1>6. p \in E
    <2> HIDE DEF E
    <2>1. n \in Nat /\ n <= N
        BY <1>1
    <2>2. QED
        BY <1>4, <1>5, <2>1
<1>7. QED
    BY <1>6

(* When none begins after the prologue there is none at all, even if the   *)
(* metadata is said to end outside the file.                               *)
LEMMA NoRecords ==
    ASSUME NEW f \in Seq(Byte), ~IsWhole(f, RecordStart(f))
    PROVE  RecordsBefore(f, Len(f)) = {}
<1> DEFINE N == Len(f) \div 4
           C == [n \in 0..N |-> RecordStart(f)]
           W == CHOOSE X : IsWalk(f, X, N)
<1>1. N \in Nat
    BY LenProperties
<1>2. IsWalk(f, C, N)
    <2>1. \A n \in 0..N : n # 0 => n - 1 \in 0..N
        BY <1>1
    <2> HIDE DEF N
    <2>2. \A n \in 0..N : RecordStart(f) = IF n = 0 THEN RecordStart(f) ELSE After(f, C[n - 1])
        BY <2>1 DEF After
    <2>3. QED
        BY <2>2 DEF IsWalk
<1>3. IsWalk(f, W, N)
    <2> HIDE DEF C, N
    <2>1. QED
        BY <1>2
<1>4. Boundaries(f) = {W[n] : n \in 0..N}
    BY DEF Boundaries, IsWalk
<1> HIDE DEF N, W
<1>5. W[0] = RecordStart(f)
    BY <1>1, <1>3, WalkSteps
<1>6. ASSUME NEW n \in 0..N PROVE W[n] = RecordStart(f)
    <2>1. 0 \in Nat /\ n \in Nat /\ 0 <= n /\ n <= N
        BY <1>1
    <2>2. QED
        BY <1>1, <1>3, <1>5, <2>1, WalkStays
<1>7. QED
    BY <1>4, <1>6 DEF RecordsBefore

(* A reader that has stopped where no whole record begins has returned     *)
(* every Event of the file, and counted every record.                      *)
LEMMA DecodedEnd ==
    ASSUME NEW f \in Seq(Byte), NEW p, NEW events, NEW stats,
           Decoded(f, p, events, stats), ~IsWhole(f, p)
    PROVE  /\ Len(events) = EventCount(f)
           /\ stats.records = Cardinality(RecordsBefore(f, Len(f)))
<1>1. RecordsBefore(f, Len(f)) = RecordsBefore(f, p)
    BY LastBoundary DEF Decoded
<1>2. QED
    BY <1>1 DEF Decoded, IsDecoding, EventCount

(* The same for a client that only counts the Events: n of them before p.  *)
Counted(f, p, n) ==
    /\ PrologueError(f) = "none" /\ p \in Boundaries(f)
    /\ n = Cardinality({q \in RecordsBefore(f, p) : IsWellFormed(f, q)})

LEMMA CountedStart ==
    ASSUME NEW f \in Seq(Byte), PrologueError(f) = "none"
    PROVE  Counted(f, RecordStart(f), 0)
<1>1. Len(<<>>) = 0
    BY EmptySeq
<1>2. QED
    BY <1>1, DecodedStart DEF Decoded, IsDecoding, Counted

LEMMA CountedStep ==
    ASSUME NEW f \in Seq(Byte), NEW p, NEW n, Counted(f, p, n), NEW m, NEW r,
           frame_one(SubSeq(f, p + 1, Len(f))).status = "Ok",
           frame_one(SubSeq(f, p + 1, Len(f))).record_size = m,
           route_record(SubSeq(f, p + 1, p + m)) = r
    PROVE  Counted(f, p + m, n + (IF r.outcome = "Emit" THEN 1 ELSE 0))
<1> DEFINE R == RecordsBefore(f, p)
           E == {q \in R : IsWellFormed(f, q)}
           E2 == {q \in RecordsBefore(f, p + m) : IsWellFormed(f, q)}
<1>1. PrologueError(f) = "none" /\ p \in Boundaries(f) /\ n = Cardinality(E)
    BY DEF Counted
<1>2. p \in 0..Len(f)
    BY <1>1, BoundaryFacts
<1>3. IsWhole(f, p) /\ m = RecordLen(f, p)
    BY <1>2, FrameWhole
<1>4. /\ RecordsBefore(f, p + m) = R \cup {p} /\ IsFiniteSet(R) /\ p \in Nat
      /\ \A q \in R : q \in Nat /\ q < p
    BY <1>1, <1>3, RecordsGrow
<1>5. p + m \in Boundaries(f)
    BY <1>1, <1>3, BoundaryStep
<1>6. r.outcome = IF ~IsMbo(f, p) THEN "SkipNonMbo"
                  ELSE IF IsWellFormed(f, p) THEN "Emit" ELSE "SkipMalformed"
    BY <1>2, <1>3, RouteAgrees
<1>7. IsFiniteSet(E) /\ p \notin E
    <2>1. E \in SUBSET R /\ p \notin R
        BY <1>4
    <2>2. QED
        BY <1>4, <2>1, FS_Subset
<1>8. Cardinality(E) \in Nat /\ Cardinality(E \cup {p}) = Cardinality(E) + 1
    <2> HIDE DEF E
    <2>1. QED
        BY <1>7, OneMore
<1>9. CASE IsWellFormed(f, p)
    <2>1. r.outcome = "Emit" /\ E2 = E \cup {p}
        BY <1>4, <1>6, <1>9 DEF IsWellFormed
    <2> HIDE DEF E
    <2>2. QED
        BY <1>1, <1>5, <1>8, <2>1 DEF Counted
<1>10. CASE ~IsWellFormed(f, p)
    <2>1. r.outcome # "Emit" /\ E2 = E
        BY <1>4, <1>6, <1>10
    <2>2. n + 0 = n
        BY <1>1, <1>8
    <2> HIDE DEF E
    <2>3. QED
        BY <1>1, <1>5, <2>1, <2>2 DEF Counted
<1>11. QED
    BY <1>9, <1>10

(* Who has returned every Event has counted them all. *)
LEMMA DecodedCounted ==
    ASSUME NEW f, NEW p, NEW events, NEW stats, Decoded(f, p, events, stats)
    PROVE  Counted(f, p, Len(events))
BY DEF Decoded, IsDecoding, Counted

LEMMA CountedEnd ==
    ASSUME NEW f \in Seq(Byte), NEW p, NEW n, Counted(f, p, n), ~IsWhole(f, p)
    PROVE  n = EventCount(f)
<1>1. RecordsBefore(f, Len(f)) = RecordsBefore(f, p)
    BY LastBoundary DEF Counted
<1>2. QED
    BY <1>1 DEF Counted, EventCount

(* No whole record begins where frame_one finds none, be it in the rest of *)
(* the file or already in the part of it that was read.                    *)
LEMMA NoRecordHere ==
    ASSUME NEW f \in Seq(Byte), NEW p \in Nat, NEW b \in Nat, p <= b, b <= Len(f),
           \/ frame_one(SubSeq(f, p + 1, b)).status = "Corrupt"
           \/ b = Len(f) /\ frame_one(SubSeq(f, p + 1, b)).status # "Ok"
    PROVE  ~IsWhole(f, p)
<1>1. Len(f) \in Nat
    BY LenProperties
<1>2. p \in 0..Len(f)
    BY <1>1
<1>3. frame_one(SubSeq(f, p + 1, Len(f))).status # "Ok"
    <2>1. CASE frame_one(SubSeq(f, p + 1, b)).status = "Corrupt"
        BY <2>1, FramePrefix
    <2>2. CASE b = Len(f) /\ frame_one(SubSeq(f, p + 1, b)).status # "Ok"
        BY <2>2
    <2>3. QED
        BY <2>1, <2>2
<1>4. QED
    BY <1>2, <1>3, FrameWhole

=============================================================================
