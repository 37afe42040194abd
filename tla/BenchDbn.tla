------------------------------ MODULE BenchDbn ------------------------------
(***************************************************************************)
(* The bench_dbn program: it slurps the file, then runs each of its three  *)
(* modes over it twice to warm up and passes times to measure, and         *)
(* compares the Events that modes A and C counted in their last pass.      *)
(*                                                                         *)
(*   A  a DbnReader over the file           (bench_end_to_end)             *)
(*   B  a RecordAssembler fed from the slurped bytes (bench_in_memory)     *)
(*   C  a MmapDbnReader over the file       (bench_mmap)                   *)
(*                                                                         *)
(* A pass owns one reader or one assembler, and there is never a second    *)
(* one: the variables of DbnReader are those of the object of the pass,    *)
(* the mapped reader shares them and adds cursor, and Mode B uses buf and  *)
(* read_pos.  Clocks, rates and what is printed are left out, except the   *)
(* verdict of the parity gate.                                             *)
(***************************************************************************)
EXTENDS DbnReader

CONSTANT PassArgs    \* the values of the passes argument considered

ASSUME PassAssumption == PassArgs \subseteq Int

VARIABLES
    argc, passes,  \* the number of arguments, and the second one
    at,            \* "main", then "loop" (head of a pass loop) or "pass"
    call,          \* the call of a bench function in progress, in Calls
    pass,          \* p: passes of this call that are complete
    slurped,       \* file in main(): the bytes slurp() returned
    cursor,        \* cursor_ of the MmapDbnReader
    events,        \* events counted in this pass
    rbytes, offset,\* the other locals of a pass of Mode B
    totals,        \* the Stats of the last pass of each mode
    parity,        \* what the parity gate said
    faulted,       \* history: some read failed before the end of the file
    exit           \* the exit status, or Running while main() runs

Running == -1

object == <<source, assembler, prologue, result, pc, view, cursor>>
counts == <<events, rbytes, offset>>
args == <<argc, passes>>
verdict == <<totals, parity, faulted>>
bvars == <<object, counts, args, at, call, pass, slurped, verdict, exit>>

Mapped == INSTANCE MmapDbnReader WITH rec <- view

(* Mutant: Mode B, which checks less, runs before the readers do. *)
Calls_in_memory_first == << <<"B", 2>>, <<"A", 2>>, <<"C", 2>>,
                            <<"B", passes>>, <<"A", passes>>, <<"C", passes>> >>

(* The calls of main(), in order: what runs, and how many passes of it. *)
Calls == << <<"A", 2>>, <<"B", 2>>, <<"C", 2>>,
            <<"A", passes>>, <<"B", passes>>, <<"C", passes>> >>

mode == IF call \in DOMAIN Calls THEN Calls[call][1] ELSE "none"

BenchInit ==
    /\ Init
    /\ argc \in {1, 4} /\ passes \in PassArgs
    /\ at = "main" /\ call = 1 /\ pass = 0
    /\ slurped = <<>> /\ cursor = 0
    /\ events = 0 /\ rbytes = 0 /\ offset = 0
    /\ totals = [m \in {"A", "B", "C"} |-> [events |-> 0, record_bytes |-> 0]]
    /\ parity = "none" /\ faulted = FALSE /\ exit = Running

Exit(status) ==
    /\ exit' = status
    /\ UNCHANGED <<object, counts, args, at, call, pass, slurped, verdict>>

Usage == exit = Running /\ at = "main" /\ (argc < 2 \/ passes < 1) /\ Exit(2)

SlurpFails == exit = Running /\ at = "main" /\ argc >= 2 /\ passes >= 1 /\ Exit(1)

(* The whole size is asked for in one read, whose count nobody looks at:   *)
(* after an error the rest of the vector keeps its zeros.                  *)
slurp ==
    /\ exit = Running /\ at = "main" /\ argc >= 2 /\ passes >= 1
    /\ \E n \in (IF ReadErrors THEN 0..Len(file) ELSE {Len(file)}) :
          slurped' = [i \in 1..Len(file) |-> IF i <= n THEN file[i] ELSE 0]
    /\ at' = "loop"
    /\ faulted' = (slurped' # file)
    /\ UNCHANGED <<object, counts, args, call, pass, totals, parity, exit>>

-----------------------------------------------------------------------------
(* The loop over the passes of one call. *)

(* record_start() checks the size and the magic of the slurped bytes: not  *)
(* the version, and not that the metadata ends inside them.                *)
record_start_throws == Len(slurped) < HeaderSize \/ ~HasMagic(slurped)

records == SubSeq(slurped, RecordStart(slurped) + 1, Len(slurped))

RejectStream ==
    /\ exit = Running /\ at = "loop" /\ mode = "B" /\ pass = 0
    /\ record_start_throws
    /\ Exit(1)

(* Mutant: the byte count of Mode B is declared outside the pass loop. *)
FreshCounts_keep_rbytes == events' = 0 /\ offset' = 0 /\ UNCHANGED rbytes

FreshCounts == events' = 0 /\ offset' = 0 /\ rbytes' = 0

(* A pass begins with a fresh reader or assembler, about to be opened. *)
StartPass ==
    /\ exit = Running /\ at = "loop" /\ mode # "none" /\ pass < Calls[call][2]
    /\ mode = "B" => ~record_start_throws
    /\ fpos' = 0 /\ good' = TRUE /\ buf' = <<>> /\ read_pos' = 0
    /\ pc' = "open" /\ header' = <<>> /\ want' = 0 /\ got' = 0
    /\ remaining' = 0 /\ version' = 0 /\ view' = [at |-> 0, len |-> 0]
    /\ cursor' = 0 /\ failed' = FALSE /\ stats' = NoStats
    /\ err' = "none" /\ ret' = "none" /\ out' = <<>>
    /\ FreshCounts
    /\ at' = "pass"
    /\ UNCHANGED <<file, chunk, args, call, pass, slurped, verdict, exit>>

EndPass ==
    /\ totals' = [totals EXCEPT ![mode] = [events |-> events, record_bytes |-> rbytes]]
    /\ pass' = pass + 1
    /\ at' = "loop"
    /\ UNCHANGED <<object, counts, args, call, slurped, parity, faulted, exit>>

EndCall ==
    /\ exit = Running /\ at = "loop" /\ mode # "none" /\ pass = Calls[call][2]
    /\ call' = call + 1 /\ pass' = 0
    /\ UNCHANGED <<object, counts, args, at, slurped, verdict, exit>>

-----------------------------------------------------------------------------
(* A pass of Mode A or C: next() until it returns nullopt. *)

InPass(m) == exit = Running /\ at = "pass" /\ mode = m

RunStream ==
    /\ InPass("A")
    /\ OpenFails \/ Construct \/ Step
    /\ faulted' = (faulted \/ (~good' /\ fpos' < Len(file)))
    /\ UNCHANGED <<cursor, counts, args, at, call, pass, slurped, totals, parity, exit>>

RunMapped ==
    /\ InPass("C")
    /\ Mapped!MapFails \/ Mapped!Construct \/ Mapped!Step
    /\ UNCHANGED <<fpos, good, assembler, chunk, header, want, got, remaining,
                   counts, args, at, call, pass, slurped, verdict, exit>>

(* The for loop: count the Event that was returned, and call again. *)
CallNext ==
    /\ InPass("A") \/ InPass("C")
    /\ pc = "ready" /\ ret # "nullopt"
    /\ pc' = IF mode = "A" THEN "pull" ELSE "frame"
    /\ events' = events + (IF ret = "event" THEN 1 ELSE 0)
    /\ UNCHANGED <<source, assembler, prologue, result, view, cursor, rbytes,
                   offset, args, at, call, pass, slurped, verdict, exit>>

EndReaderPass ==
    /\ InPass("A") \/ InPass("C")
    /\ pc = "ready" /\ ret = "nullopt"
    /\ EndPass

(* main() catches what a constructor threw. *)
Catch == (InPass("A") \/ InPass("C")) /\ pc = "threw" /\ Exit(1)

-----------------------------------------------------------------------------
(* A pass of Mode B. *)

(* Mutant: the loop goes on until offset is past the end. *)
Drained_off_by_one == offset > Len(records)

Drained == offset >= Len(records)

CountRecord ==
    /\ InPass("B") /\ pull.status = "Record"
    /\ next
    /\ events' = events + (IF route_record(Bytes(pull)).outcome = "Emit" THEN 1 ELSE 0)
    /\ rbytes' = rbytes + pull.len
    /\ UNCHANGED <<source, prologue, result, pc, view, cursor, offset, args, at,
                   call, pass, slurped, verdict, exit>>

(* n = min(chunk, records.size() - offset): zero when chunk is zero. *)
FeedSlice ==
    /\ InPass("B") /\ pull.status = "NeedMore" /\ ~Drained
    /\ LET n == IF chunk <= Len(records) - offset THEN chunk
                ELSE Len(records) - offset
       IN  /\ append(SubSeq(records, offset + 1, offset + n))
           /\ offset' = offset + n
    /\ UNCHANGED <<source, prologue, result, pc, view, cursor, events, rbytes,
                   args, at, call, pass, slurped, verdict, exit>>

EndInMemoryPass ==
    /\ InPass("B")
    /\ \/ pull.status = "Corrupt"
       \/ pull.status = "NeedMore" /\ Drained
    /\ EndPass

-----------------------------------------------------------------------------
(* Mutant: the gate compares the streaming count with the in-memory one. *)
Report_compares_in_memory ==
    /\ exit = Running /\ at = "loop" /\ mode = "none"
    /\ parity' = IF totals["A"].events # totals["B"].events THEN "FAIL" ELSE "OK"
    /\ exit' = 0
    /\ UNCHANGED <<object, counts, args, at, call, pass, slurped, totals, faulted>>

(* The parity gate only prints: the exit status is 0 either way. *)
Report ==
    /\ exit = Running /\ at = "loop" /\ mode = "none"
    /\ parity' = IF totals["A"].events # totals["C"].events THEN "FAIL" ELSE "OK"
    /\ exit' = 0
    /\ UNCHANGED <<object, counts, args, at, call, pass, slurped, totals, faulted>>

Exited == exit # Running /\ UNCHANGED bvars

Main ==
    \/ Usage \/ SlurpFails \/ slurp \/ RejectStream \/ StartPass \/ EndCall
    \/ RunStream \/ RunMapped \/ CallNext \/ EndReaderPass \/ Catch
    \/ CountRecord \/ FeedSlice \/ EndInMemoryPass \/ Report

BenchNext == Main \/ Exited

(* One thread runs main() from its first line to its last. *)
BenchSpec == BenchInit /\ [][BenchNext]_bvars /\ WF_bvars(Main)

-----------------------------------------------------------------------------
(* Properties. *)

(* records in bench_in_memory is a subspan nobody checks: record_start     *)
(* looks neither at the version nor at the end of the metadata.  It is     *)
(* inside the slurped bytes, and decodes the supported layout, only        *)
(* because main() runs a DbnReader over the same file before; a read error *)
(* in slurp can only make the metadata length smaller.                     *)
SubspanInside ==
    InPass("B") => /\ RecordStart(slurped) <= Len(slurped)
                   /\ slurped = file => slurped[4] = kSupportedDbnVersion

(* When bench_dbn reports and no read has failed, its three modes agree    *)
(* with the file and so with each other: the Events of each are the        *)
(* well-formed records, however often, in whatever order and slices they   *)
(* were read, and the bytes that Mode B lends to the others are those of   *)
(* all whole records.                                                      *)
ModesAgree ==
    exit = 0 /\ ~faulted =>
        LET ends == {RecordStart(file)}
                    \cup {p + RecordLen(file, p) : p \in RecordsBefore(file, Len(file))}
        IN  /\ parity = "OK"
            /\ \A m \in {"A", "B", "C"} : totals[m].events = EventCount(file)
            /\ RecordStart(file) + totals["B"].record_bytes =
                  CHOOSE e \in ends : \A p \in ends : p <= e

(* The parity gate under read errors: it says OK only when the last pass   *)
(* of Mode A, which may have been cut short by an error that looks like    *)
(* the end of the file, counted every Event of the file.                   *)
GateCatchesLoss == parity = "OK" => totals["A"].events = EventCount(file)

(* The program ends on every file: each slice moves offset, and each       *)
(* reader comes to its end.                                                *)
BenchTerminates == <>(exit # Running)

=============================================================================
