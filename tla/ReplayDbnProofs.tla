-------------------------- MODULE ReplayDbnProofs --------------------------
(***************************************************************************)
(* Theorems about the exit status of replay_dbn, for every file and every  *)
(* chunk size but zero.  The program passes no chunk size, so it runs with *)
(* the default; a source with I/O errors is left out, since DbnReader      *)
(* takes an error for the end of the file.                                 *)
(***************************************************************************)
EXTENDS ReplayDbn, DbnReaderContract

-----------------------------------------------------------------------------
(* main() uses the reader as any consumer may. *)

LEMMA ReplayStep == [ReplayNext]_rvars => [Next]_vars
<1> SUFFICES ASSUME [ReplayNext]_rvars PROVE [Next]_vars
    OBVIOUS
<1>1. CASE Usage \/ CountEvent \/ Finish \/ Catch
    BY <1>1 DEF Usage, CountEvent, Finish, Catch
<1>2. CASE RunReader
    BY <1>2 DEF RunReader, Next
<1>3. CASE CallNext
    BY <1>3 DEF CallNext, Next
<1>4. CASE UNCHANGED rvars
    BY <1>4 DEF rvars
<1>5. QED
    BY <1>1, <1>2, <1>3, <1>4 DEF ReplayNext, Main, Exited

(* What is proved of DbnReader holds of the reader inside replay_dbn. *)
THEOREM ReplayUsesReader == ReplaySpec => Spec
<1>1. ReplayInit => Init
    BY DEF ReplayInit
<1>2. QED
    BY <1>1, ReplayStep, PTL DEF ReplaySpec, Spec

-----------------------------------------------------------------------------
(* The inductive invariant of main().  The count is one behind only        *)
(* between the return of an Event and the head of the loop, and an exit    *)
(* status is chosen once, in the state the reader is then left in.         *)
LoopCounted ==
    \/ count = Len(out)
    \/ pc = "ready" /\ ret = "event" /\ count + 1 = Len(out)

ExitInv ==
    /\ exit = 0 => pc = "ready" /\ ret = "nullopt" /\ ~failed
    /\ exit = 1 => \/ pc = "ready" /\ ret = "nullopt" /\ failed
                   \/ pc = "threw"

MainInv == count \in Nat /\ LoopCounted /\ ExitInv

LEMMA MainInit == ReplayInit => MainInv
<1> SUFFICES ASSUME ReplayInit PROVE MainInv
    OBVIOUS
<1>1. count = 0 /\ exit = Running /\ out = <<>>
    BY DEF ReplayInit, Init
<1>2. QED
    BY <1>1, EmptySeq DEF MainInv, LoopCounted, ExitInv, Running

(* The reader returns at most one Event before main() counts it. *)
LEMMA RunReaderCounted ==
    ASSUME ReaderInv, MainInv, RunReader
    PROVE  MainInv'
<1>a. count' = count /\ exit' = exit /\ exit = Running
    BY DEF RunReader
<1>b. out \in Seq(Event)
    BY CountType
<1>1. pc # "ready"
    BY DEF RunReader, OpenFails, Construct, Step, Open, ReadFully, ReadFullyEof,
           RejectMagic, RejectVersion, AcceptHeader, NextMetadataPiece,
           MetadataPieceRead, Constructed, PullRecord, PullNeedMore, PullCorrupt,
           Route, Refill
<1>2. count = Len(out) /\ count \in Nat
    BY <1>1 DEF MainInv, LoopCounted
<1>3. ExitInv'
    BY <1>a DEF ExitInv, Running
<1>4. CASE Route
    <2> DEFINE routed == route_record(Bytes(view))
    <2>1. CASE routed.outcome = "Emit"
        <3>1. /\ pc' = "ready" /\ ret' = "event"
              /\ out' = Append(out, routed.event)
            BY <1>4, <2>1 DEF Route, Return
        <3>2. Len(out') = Len(out) + 1
            <4>1. Bytes(view) \in Seq(Byte)
                BY <1>4, RouteBytes DEF Route
            <4>2. routed.event \in Event
                BY <2>1, <4>1, RouteRecord
            <4>3. QED
                BY <1>b, <3>1, <4>2, AppendProperties
        <3>3. QED
            BY <1>a, <1>2, <1>3, <3>1, <3>2 DEF MainInv, LoopCounted
    <2>2. CASE routed.outcome # "Emit"
        <3>1. out' = out
            BY <1>4, <2>2 DEF Route
        <3>2. QED
            BY <1>a, <1>2, <1>3, <3>1 DEF MainInv, LoopCounted
    <2>3. QED
        BY <2>1, <2>2
<1>5. CASE ~Route
    <2>1. out' = out
        BY <1>5
        DEF RunReader, OpenFails, Construct, Step, Open, ReadFully, ReadFullyEof,
            RejectMagic, RejectVersion, AcceptHeader, NextMetadataPiece,
            MetadataPieceRead, Constructed, PullRecord, PullNeedMore, PullCorrupt,
            Refill, Throw, result
    <2>2. QED
        BY <1>a, <1>2, <1>3, <2>1 DEF MainInv, LoopCounted
<1>6. QED
    BY <1>4, <1>5

LEMMA MainNext == ReaderInv /\ MainInv /\ [ReplayNext]_rvars => MainInv'
<1> SUFFICES ASSUME ReaderInv, MainInv, [ReplayNext]_rvars PROVE MainInv'
    OBVIOUS
<1>a. count \in Nat /\ LoopCounted /\ ExitInv
    BY DEF MainInv
<1>b. Len(out) \in Nat
    BY CountType, LenProperties
<1>1. CASE Usage
    <2>1. exit' = 2 /\ UNCHANGED <<count, pc, ret, out, failed>>
        BY <1>1 DEF Usage, vars, result
    <2>2. QED
        BY <1>a, <2>1 DEF MainInv, LoopCounted, ExitInv
<1>2. CASE RunReader
    BY <1>2, RunReaderCounted
<1>3. CASE CountEvent
    <2>1. /\ count < Len(out) /\ count' = count + 1
          /\ UNCHANGED <<exit, pc, ret, out, failed>>
        BY <1>3 DEF CountEvent, vars, result
    <2>2. count + 1 = Len(out)
        BY <1>a, <1>b, <2>1 DEF LoopCounted
    <2>3. QED
        BY <1>a, <2>1, <2>2 DEF MainInv, LoopCounted, ExitInv
<1>4. CASE CallNext
    <2>1. /\ exit = Running /\ count = Len(out)
          /\ UNCHANGED <<exit, count, out>>
        BY <1>4 DEF CallNext, Call, result
    <2>2. QED
        BY <1>a, <2>1 DEF MainInv, LoopCounted, ExitInv, Running
<1>5. CASE Finish
    <2>1. /\ exit' = (IF failed THEN 1 ELSE 0) /\ pc = "ready" /\ ret = "nullopt"
          /\ UNCHANGED <<count, pc, ret, out, failed>>
        BY <1>5 DEF Finish, vars, result
    <2>2. LoopCounted'
        BY <1>a, <2>1 DEF LoopCounted
    <2>3. ExitInv'
        BY <2>1 DEF ExitInv
    <2>4. QED
        BY <1>a, <2>1, <2>2, <2>3 DEF MainInv
<1>6. CASE Catch
    <2>1. exit' = 1 /\ pc = "threw" /\ UNCHANGED <<count, pc, ret, out, failed>>
        BY <1>6 DEF Catch, vars, result
    <2>2. QED
        BY <1>a, <2>1 DEF MainInv, LoopCounted, ExitInv
<1>7. CASE UNCHANGED rvars
    <2>1. UNCHANGED <<count, exit, pc, ret, out, failed>>
        BY <1>7 DEF rvars, vars, result
    <2>2. QED
        BY <1>a, <2>1 DEF MainInv, LoopCounted, ExitInv
<1>8. QED
    BY <1>1, <1>2, <1>3, <1>4, <1>5, <1>6, <1>7 DEF ReplayNext, Main, Exited

(* Everything that is known in a state of replay_dbn. *)
ReplayInv == AllInv /\ ReadyFile /\ RefusedFile /\ MainInv

LEMMA ReplayInvariant ==
    ASSUME ReadErrors = FALSE
    PROVE  ReplaySpec => []ReplayInv
<1>1. Spec => []AllInv
    BY ReaderInvariant, CountInvariant, EndInvariant, CleanInvariant, RefInvariant,
       PTL DEF AllInv
<1>2. Init => ReadyFile /\ RefusedFile
    BY DEF Init, ReadyFile, RefusedFile, Returned
<1>3. AllInv /\ ReadyFile /\ RefusedFile /\ [Next]_vars =>
          ReadyFile' /\ RefusedFile'
    BY ReadyNext, RefusedNext DEF AllInv
<1>4. AllInv /\ MainInv /\ [ReplayNext]_rvars => MainInv'
    BY MainNext DEF AllInv
<1>5. Spec => []ReadyFile /\ []RefusedFile
    BY <1>1, <1>2, <1>3, PTL DEF Spec
<1>6. QED
    BY <1>1, <1>4, <1>5, MainInit, ReplayUsesReader, PTL DEF ReplaySpec, ReplayInv

-----------------------------------------------------------------------------
(* Exit status 0: the prologue was good, every Event was counted, the file *)
(* was read to its last byte and what is left is no record.  So a script   *)
(* that trusts the status never takes a part of a file for the whole.      *)
THEOREM SuccessIsWhole ==
    ASSUME ReadErrors = FALSE, 0 \notin ChunkSizes
    PROVE  ReplaySpec => []SuccessMeansWholeFile
<1>1. ASSUME ReplayInv, exit = 0
      PROVE  /\ PrologueError(file) = "none" /\ count = stats.events
             /\ fpos = Len(file)
             /\ frame_one(SubSeq(file, Consumed + 1, Len(file))).status = "NeedMore"
    <2>a. ReaderInv /\ CountInv /\ EndInv /\ BadOnlyAtEnd /\ ReadyFile /\ MainInv
        BY <1>1 DEF ReplayInv, AllInv
    <2>1. pc = "ready" /\ ret = "nullopt" /\ ~failed
        BY <1>1, <2>a DEF MainInv, ExitInv
    <2>2. PrologueError(file) = "none"
        BY <2>a, <2>1 DEF ReadyFile, Returned
    <2>3. count = stats.events
        BY <2>a, <2>1 DEF MainInv, LoopCounted, CountInv
    <2>4. frame_one(Front).status = "NeedMore" /\ SourceDry
        BY <2>a, <2>1 DEF EndInv
    <2>5. chunk # 0
        BY <2>a DEF ReaderInv, TypeInv, TypeOK
    <2>6. fpos = Len(file)
        BY <2>a, <2>4, <2>5 DEF SourceDry, BadOnlyAtEnd
    <2>7. Front = SubSeq(file, Consumed + 1, fpos)
        BY <2>a DEF ReaderInv, StreamInv, Stitched
    <2>8. QED
        BY <2>2, <2>3, <2>4, <2>6, <2>7
<1>2. ReplayInv => SuccessMeansWholeFile
    BY <1>1 DEF SuccessMeansWholeFile
<1>3. QED
    BY <1>2, ReplayInvariant, PTL

(* Exit status 1: the file could not be opened, its prologue is wrong, or  *)
(* the frame the replay stopped at is corrupt in the file itself.          *)
THEOREM FailureIsJustified ==
    ASSUME ReadErrors = FALSE
    PROVE  ReplaySpec => []FailureHasCause
<1>1. ASSUME ReplayInv, exit = 1
      PROVE  \/ err = "cannot open" \/ PrologueError(file) # "none"
             \/ /\ PrologueError(file) = "none"
                /\ frame_one(SubSeq(file, Consumed + 1, Len(file))).status
                       = "Corrupt"
    <2>a. ReaderInv /\ EndInv /\ ReadyFile /\ RefusedFile /\ MainInv
        BY <1>1 DEF ReplayInv, AllInv
    <2>1. CASE pc = "threw"
        BY <2>a, <2>1 DEF RefusedFile
    <2>2. CASE pc = "ready" /\ ret = "nullopt" /\ failed
        <3>1. frame_one(Front).status = "Corrupt"
            BY <2>a, <2>2 DEF EndInv
        <3>2. frame_one(SubSeq(file, Consumed + 1, Len(file))) = frame_one(Front)
            BY <2>a, <3>1, SameFrame
        <3>3. QED
            BY <2>a, <2>2, <3>1, <3>2 DEF ReadyFile, Returned
    <2>3. QED
        BY <1>1, <2>a, <2>1, <2>2 DEF MainInv, ExitInv
<1>2. ReplayInv => FailureHasCause
    BY <1>1 DEF FailureHasCause
<1>3. QED
    BY <1>2, ReplayInvariant, PTL

=============================================================================
