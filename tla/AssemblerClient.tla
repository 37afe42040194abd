-------------------------- MODULE AssemblerClient --------------------------
(***************************************************************************)
(* A RecordAssembler in the hands of any client: append() and next() are   *)
(* called in any order, with chunks of any content, empty ones included.   *)
(* Histories record what was fed and which records came out; spans that    *)
(* were handed out are kept until the next append() invalidates them.  The *)
(* fuzz harness is the client that appends one chunk and then drains it.   *)
(***************************************************************************)
EXTENDS RecordAssembler

CONSTANTS
    Chunks,   \* the chunks a client may append
    MaxFed    \* bound: a client appends no further chunk past this length

ASSUME ClientAssumption == Chunks \subseteq Seq(Byte) /\ MaxFed \in Nat

VARIABLES
    fed,      \* every byte appended, in order
    starts,   \* where in fed the records that next() returned begin
    spans,    \* spans returned since the last append()
    last      \* what the last call returned

vars == <<assembler, fed, starts, spans, last>>

Init ==
    /\ AssemblerInit
    /\ fed = <<>> /\ starts = <<>> /\ spans = {} /\ last = "none"

AppendChunk ==
    /\ Len(fed) < MaxFed
    /\ \E chunk \in Chunks : append(chunk) /\ fed' = fed \o chunk
    /\ spans' = {}
    /\ last' = "none"
    /\ UNCHANGED starts

(* Where in fed the last record returned ends. *)
Position ==
    IF starts = <<>> THEN 0
    ELSE LET s == starts[Len(starts)] IN s + RecordSize(fed[s + 1])

(* The harness also routes the record and drops the outcome. *)
PullNext ==
    /\ next
    /\ last' = pull.status
    /\ IF pull.status = "Record"
       THEN /\ starts' = Append(starts, Position)
            /\ spans' = spans \cup {[at |-> pull.at, len |-> pull.len,
                                     start |-> Position]}
       ELSE UNCHANGED <<starts, spans>>
    /\ UNCHANGED fed

Next == AppendChunk \/ PullNext

Spec == Init /\ [][Next]_vars

-----------------------------------------------------------------------------
(* Every variable holds a value of its type; the cursor of the assembler   *)
(* stays inside its buffer, so the size_t subtraction of buffered() never  *)
(* wraps.                                                                  *)
TypeOK ==
    /\ AssemblerTypeOK
    /\ fed \in Seq(Byte)
    /\ starts \in Seq(Nat)
    /\ spans \subseteq [at : Nat, len : Nat, start : Nat]
    /\ last \in {"none", "Record", "NeedMore", "Corrupt"}

(* Where the records begin depends on the bytes alone, not on the chunks   *)
(* they came in: the assembler holds exactly what was fed after the end of *)
(* the last record it returned.  append() and next() lose, repeat and      *)
(* reorder nothing.                                                        *)
NothingLost == Front = SubSeq(fed, Position + 1, Len(fed))

(* Every span handed out since the last append() still shows the record it *)
(* was handed out for, however many next() calls came after it.            *)
SpansIntact ==
    \A s \in spans :
        /\ s.at + s.len <= Len(buf)
        /\ s.len = RecordSize(fed[s.start + 1])
        /\ Bytes(s) = SubSeq(fed, s.start + 1, s.start + s.len)

(* More bytes cannot fix a corrupt frame: from then on next() returns      *)
(* Corrupt and no record, whatever is appended.                            *)
AtCorruptFrame == buffered >= 2 /\ fed[Position + 1] = 0

CorruptIsFinal ==
    [][AtCorruptFrame => /\ AtCorruptFrame'
                         /\ UNCHANGED starts
                         /\ last' \in {"none", "Corrupt"}]_vars

(* A drain loop ends on any bytes, which is all that stops the fuzz        *)
(* harness: each record that next() returns took at least four bytes of    *)
(* what was fed, and ends inside it.                                       *)
DrainBounded == 4 * Len(starts) <= Position /\ Position <= Len(fed)

=============================================================================
