-------------------------------- MODULE Dbn --------------------------------
(***************************************************************************)
(* The pure half of the DBN ingest stack: the wire layout and the          *)
(* converter (dbn.hpp, event.hpp), the framer, the router, the counters    *)
(* and the prologue checks (dbn_reader.hpp).  Nothing here has state.      *)
(*                                                                         *)
(* A byte is a number in 0..255 and a span is a sequence of bytes.  A      *)
(* C++ index i is the TLA+ index i + 1.  The host is little-endian         *)
(* (dbn.hpp), so the value of a field is the sequence of its wire bytes.   *)
(***************************************************************************)
EXTENDS Integers, Sequences

CONSTANTS
    SizeofWireMbo,  \* sizeof(WireMbo), 56 for DBN v1
    Offset,         \* Offset[f] = offsetof(WireMbo, f)
    Width           \* Width[f]  = sizeof of the field f

Byte == 0..255

(* The members Event keeps of a WireMbo, and the ones it leaves out. *)
EventFields == {"ts_event", "ts_recv", "order_id", "price", "size",
                "sequence", "action", "side", "flags"}

DroppedFields == {"length", "rtype", "publisher_id", "instrument_id",
                  "channel_id", "ts_in_delta"}

WireMbo == EventFields \cup DroppedFields

(* The layout the static_asserts of dbn.hpp pin. *)
DbnV1Offset ==
    [length |-> 0, rtype |-> 1, publisher_id |-> 2, instrument_id |-> 4,
     ts_event |-> 8, order_id |-> 16, price |-> 24, size |-> 32, flags |-> 36,
     channel_id |-> 37, action |-> 38, side |-> 39, ts_recv |-> 40,
     ts_in_delta |-> 48, sequence |-> 52]

DbnV1Width ==
    [length |-> 1, rtype |-> 1, publisher_id |-> 2, instrument_id |-> 4,
     ts_event |-> 8, order_id |-> 8, price |-> 8, size |-> 4, flags |-> 1,
     channel_id |-> 1, action |-> 1, side |-> 1, ts_recv |-> 8,
     ts_in_delta |-> 4, sequence |-> 4]

(* What the framer and the router need of a layout: every field lies in    *)
(* the record, the framing prefix is its first two bytes, and action and   *)
(* side are one byte each.                                                 *)
ASSUME LayoutAssumption ==
    /\ SizeofWireMbo \in Nat
    /\ Offset \in [WireMbo -> Nat]
    /\ Width \in [WireMbo -> Nat]
    /\ \A f \in WireMbo : Offset[f] + Width[f] <= SizeofWireMbo
    /\ Offset["length"] = 0 /\ Offset["rtype"] = 1
    /\ \A f \in {"length", "rtype", "action", "side"} : Width[f] = 1

-----------------------------------------------------------------------------
(* Conversion of one record: event.hpp and dbn.hpp. *)

(* Action: 'A' 'C' 'M' 'T' 'F' 'R';  Side: 'B' 'A' 'N'. *)
Action == {65, 67, 77, 84, 70, 82}

Side == {66, 65, 78}

is_valid_action(c) == c \in Action

is_valid_side(c) == c \in Side

(* The one byte of w at a one-byte field, and the bytes at any field. *)
ByteAt(w, f) == w[Offset[f] + 1]

Field(w, f) == SubSeq(w, Offset[f] + 1, Offset[f] + Width[f])

EventOf(w) == [f \in EventFields |-> Field(w, f)]

NoEvent == [f \in EventFields |-> <<>>]     \* a value-initialised Event{}

Event == [EventFields -> Seq(Byte)]

(* Mutant: the side byte is cast without being checked. *)
to_event_unchecked_side(w) ==
    IF ~is_valid_action(ByteAt(w, "action"))
    THEN [error |-> "BadAction", event |-> NoEvent]
    ELSE [error |-> "none", event |-> EventOf(w)]

(* std::expected<Event, ParseError>: error = "none" when it holds an Event. *)
to_event(w) ==
    IF ~is_valid_action(ByteAt(w, "action"))
    THEN [error |-> "BadAction", event |-> NoEvent]
    ELSE IF ~is_valid_side(ByteAt(w, "side"))
    THEN [error |-> "BadSide", event |-> NoEvent]
    ELSE [error |-> "none", event |-> EventOf(w)]

-----------------------------------------------------------------------------
(* Framing. *)

(* The length byte counts four-byte words. *)
RecordSize(length) == length * 4

Frame(status, rtype, record_size) ==
    [status |-> status, rtype |-> rtype, record_size |-> record_size]

(* Mutant: the zero-size guard is missing. *)
frame_one_without_zero_guard(buf) ==
    IF Len(buf) < 2 THEN Frame("NeedMore", 0, 0)
    ELSE IF Len(buf) < RecordSize(buf[1]) THEN Frame("NeedMore", 0, 0)
    ELSE Frame("Ok", buf[2], RecordSize(buf[1]))

(* Mutant: a record that ends exactly with the buffer counts as partial. *)
frame_one_strict_size(buf) ==
    IF Len(buf) < 2 THEN Frame("NeedMore", 0, 0)
    ELSE IF RecordSize(buf[1]) = 0 THEN Frame("Corrupt", 0, 0)
    ELSE IF Len(buf) <= RecordSize(buf[1]) THEN Frame("NeedMore", 0, 0)
    ELSE Frame("Ok", buf[2], RecordSize(buf[1]))

(* Mutant: a record of no bytes counts as the end of the data. *)
frame_one_zero_is_end(buf) ==
    IF Len(buf) < 2 \/ RecordSize(buf[1]) = 0 THEN Frame("NeedMore", 0, 0)
    ELSE IF Len(buf) < RecordSize(buf[1]) THEN Frame("NeedMore", 0, 0)
    ELSE Frame("Ok", buf[2], RecordSize(buf[1]))

(* Is a whole record at the front of buf?  length is a u8, so record_size  *)
(* is in 0..MaxRecordSize.                                                 *)
frame_one(buf) ==
    IF Len(buf) < 2 THEN Frame("NeedMore", 0, 0)
    ELSE IF RecordSize(buf[1]) = 0 THEN Frame("Corrupt", 0, 0)
    ELSE IF Len(buf) < RecordSize(buf[1]) THEN Frame("NeedMore", 0, 0)
    ELSE Frame("Ok", buf[2], RecordSize(buf[1]))

MaxRecordSize == 1020

-----------------------------------------------------------------------------
(* Routing and counting. *)

kMboRtype == 160

kSupportedDbnVersion == 1

Routed(outcome, event) == [outcome |-> outcome, event |-> event]

(* Mutant: a record longer than a WireMbo is decoded by its first bytes. *)
route_record_at_least(record) ==
    IF record[2] # kMboRtype \/ Len(record) < SizeofWireMbo
    THEN Routed("SkipNonMbo", NoEvent)
    ELSE LET e == to_event(record)
         IN  IF e.error = "none" THEN Routed("Emit", e.event)
             ELSE Routed("SkipMalformed", NoEvent)

route_record(record) ==
    IF record[2] # kMboRtype \/ Len(record) # SizeofWireMbo
    THEN Routed("SkipNonMbo", NoEvent)
    ELSE LET e == to_event(record)
         IN  IF e.error = "none" THEN Routed("Emit", e.event)
             ELSE Routed("SkipMalformed", NoEvent)

IngestStats == [records : Nat, events : Nat,
                skipped_non_mbo : Nat, skipped_malformed : Nat]

NoStats == [records |-> 0, events |-> 0,
            skipped_non_mbo |-> 0, skipped_malformed |-> 0]

(* Mutant: only records that are emitted are counted as framed. *)
tally_counts_events_only(stats, routed) ==
    LET Count(outcome) == IF routed.outcome = outcome THEN 1 ELSE 0 IN
    [records           |-> stats.records + Count("Emit"),
     events            |-> stats.events + Count("Emit"),
     skipped_non_mbo   |-> stats.skipped_non_mbo + Count("SkipNonMbo"),
     skipped_malformed |-> stats.skipped_malformed + Count("SkipMalformed")]

(* The stats after one routed record.  The caller gets an Event iff the    *)
(* outcome is Emit.                                                        *)
tally(stats, routed) ==
    LET Count(outcome) == IF routed.outcome = outcome THEN 1 ELSE 0 IN
    [records           |-> stats.records + 1,
     events            |-> stats.events + Count("Emit"),
     skipped_non_mbo   |-> stats.skipped_non_mbo + Count("SkipNonMbo"),
     skipped_malformed |-> stats.skipped_malformed + Count("SkipMalformed")]

-----------------------------------------------------------------------------
(* The prologue: "DBN", a version byte, a u32 metadata length, metadata. *)

HeaderSize == 8

HasMagic(header) == header[1] = 68 /\ header[2] = 66 /\ header[3] = 78

(* The value of a u32 whose wire bytes are a, b, c, d. *)
LittleEndian(a, b, c, d) == a + 256 * b + 65536 * c + 16777216 * d

MetadataLen(header) ==
    LittleEndian(header[5], header[6], header[7], header[8])

(* Index of the first record byte of a file whose header is whole. *)
RecordStart(f) == HeaderSize + MetadataLen(f)

(* What is wrong with the prologue of the file f, first failing check      *)
(* first: the exception of skip_prologue_ in both readers.                 *)
PrologueError(f) ==
    IF Len(f) < HeaderSize THEN "truncated header"
    ELSE IF ~HasMagic(f) THEN "bad magic"
    ELSE IF f[4] # kSupportedDbnVersion THEN "unsupported version"
    ELSE IF RecordStart(f) > Len(f) THEN "truncated metadata"
    ELSE "none"

PrologueErrors == {"none", "truncated header", "bad magic",
                   "unsupported version", "truncated metadata"}

=============================================================================
