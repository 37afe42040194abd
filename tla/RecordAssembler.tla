-------------------------- MODULE RecordAssembler --------------------------
(***************************************************************************)
(* RecordAssembler (dbn_reader.hpp): the buffer that stitches records      *)
(* split across reads.  Its operations are actions on buf and read_pos;    *)
(* the modules that own an assembler (AssemblerClient, DbnReader) call     *)
(* them from their own steps.                                              *)
(***************************************************************************)
EXTENDS Dbn

VARIABLES
    buf,       \* buf_
    read_pos   \* read_pos_

assembler == <<buf, read_pos>>

AssemblerInit == buf = <<>> /\ read_pos = 0

buffered == Len(buf) - read_pos

(* The unconsumed bytes: the span next() frames. *)
Front == SubSeq(buf, read_pos + 1, Len(buf))

(* Mutant: the consumed prefix is never erased. *)
append_without_reclaim(chunk) ==
    /\ buf' = buf \o chunk
    /\ UNCHANGED read_pos

(* Mutant: the carried tail is dropped with the consumed prefix. *)
append_drops_tail(chunk) ==
    /\ buf' = chunk
    /\ read_pos' = 0

(* Compact, then add the chunk at the end. *)
append(chunk) ==
    /\ buf' = Front \o chunk
    /\ read_pos' = 0

(* What next() returns.  The record is not copied: the span is the place   *)
(* and length of its bytes in buf.                                         *)
PullStatus(frame_status) ==
    IF frame_status = "Ok" THEN "Record" ELSE frame_status

pull == [status |-> PullStatus(frame_one(Front).status),
         at     |-> read_pos,
         len    |-> frame_one(Front).record_size]

(* Mutant: next() compacts eagerly, under the span it returns. *)
next_compacts ==
    /\ buf' = SubSeq(buf, read_pos + frame_one(Front).record_size + 1, Len(buf))
    /\ read_pos' = 0

(* What next() does: the cursor moves past a whole record, and nothing     *)
(* moves in buf.  record_size is 0 unless a whole record was framed.       *)
next ==
    /\ read_pos' = read_pos + frame_one(Front).record_size
    /\ UNCHANGED buf

(* The bytes a span handed out earlier shows when it is read now. *)
Bytes(span) == SubSeq(buf, span.at + 1, span.at + span.len)

AssemblerTypeOK ==
    /\ buf \in Seq(Byte)
    /\ read_pos \in 0..Len(buf)

=============================================================================
