--------------------------- MODULE IngestContract ---------------------------
(***************************************************************************)
(* What a DBN reader promises its consumer, with no buffer, no chunk and   *)
(* no mapping: the file is one sequence of bytes and pos is the first byte *)
(* of it that has not been accounted for.  DbnReader and MmapDbnReader are *)
(* both shown to implement this specification (ADR 0021: one contract).    *)
(***************************************************************************)
EXTENDS Dbn

CONSTANT Files

VARIABLES
    file,     \* the bytes of the file
    phase,    \* "new", "threw", "ready" or "pulling"
    err,      \* why the constructor threw
    pos,      \* the file position of the next record
    out,      \* every Event handed to the consumer, in order
    stats,    \* stats()
    failed,   \* failed()
    ret       \* what the last next() returned: "none", "event", "nullopt"

contract == <<file, phase, err, pos, out, stats, failed, ret>>

Init ==
    /\ file \in Files
    /\ phase = "new" /\ err = "none" /\ pos = 0
    /\ out = <<>> /\ stats = NoStats /\ failed = FALSE /\ ret = "none"

Rest == SubSeq(file, pos + 1, Len(file))

Record == SubSeq(Rest, 1, frame_one(Rest).record_size)

Throw(e) ==
    /\ phase = "new"
    /\ phase' = "threw" /\ err' = e
    /\ UNCHANGED <<file, pos, out, stats, failed, ret>>

OpenFails == Throw("cannot open")

(* The constructor: the prologue is skipped, or named as the reason to     *)
(* throw.                                                                  *)
Refuse == PrologueError(file) # "none" /\ Throw(PrologueError(file))

Construct ==
    /\ phase = "new" /\ PrologueError(file) = "none"
    /\ phase' = "ready" /\ pos' = RecordStart(file)
    /\ UNCHANGED <<file, err, out, stats, failed, ret>>

Call ==
    /\ phase = "ready"
    /\ phase' = "pulling"
    /\ UNCHANGED <<file, err, pos, out, stats, failed, ret>>

(* A whole record is at pos: it is counted, and handed on or skipped. *)
Consume ==
    /\ phase = "pulling" /\ frame_one(Rest).status = "Ok"
    /\ pos' = pos + frame_one(Rest).record_size
    /\ stats' = tally(stats, route_record(Record))
    /\ UNCHANGED <<file, err, failed>>

Emit ==
    /\ Consume
    /\ route_record(Record).outcome = "Emit"
    /\ out' = Append(out, route_record(Record).event)
    /\ phase' = "ready" /\ ret' = "event"

Skip ==
    /\ Consume
    /\ route_record(Record).outcome # "Emit"
    /\ UNCHANGED <<out, phase, ret>>

(* Less than a record is left: a clean end of file. *)
End ==
    /\ phase = "pulling" /\ frame_one(Rest).status = "NeedMore"
    /\ phase' = "ready" /\ ret' = "nullopt"
    /\ UNCHANGED <<file, err, pos, out, stats, failed>>

(* A zero-length frame: the framing is lost and the reader stops (ADR 18). *)
Stop ==
    /\ phase = "pulling" /\ frame_one(Rest).status = "Corrupt"
    /\ phase' = "ready" /\ ret' = "nullopt" /\ failed' = TRUE
    /\ UNCHANGED <<file, err, pos, out, stats>>

Next == OpenFails \/ Refuse \/ Construct \/ Call \/ Emit \/ Skip \/ End \/ Stop

Spec == Init /\ [][Next]_contract

=============================================================================
