----------------------------- MODULE ReplayDbn -----------------------------
(***************************************************************************)
(* The replay_dbn program: it constructs a DbnReader, calls next() until   *)
(* it returns nullopt, counts the Events, and turns the outcome into an    *)
(* exit status.  What it prints is left out, except the two numbers a      *)
(* reader of the output compares: the count and stats().events.            *)
(***************************************************************************)
EXTENDS DbnReader

VARIABLES
    argc,    \* the number of arguments
    count,   \* the Events main() counted
    exit     \* the exit status, or Running while main() runs

Running == -1

rvars == <<vars, argc, count, exit>>

ReplayInit ==
    /\ Init
    /\ argc \in {1, 2}
    /\ count = 0 /\ exit = Running

Usage ==
    /\ exit = Running /\ argc < 2
    /\ exit' = 2
    /\ UNCHANGED <<vars, argc, count>>

(* The constructor and the calls in progress run inside main(). *)
RunReader ==
    /\ exit = Running /\ argc >= 2
    /\ OpenFails \/ Construct \/ Step
    /\ UNCHANGED <<argc, count, exit>>

(* The head of the for loop: the Event just returned is counted after the  *)
(* test of has_value(), before the next call.                              *)
CountEvent ==
    /\ exit = Running /\ pc = "ready"
    /\ ret = "event" /\ count < Len(out)
    /\ count' = count + 1
    /\ UNCHANGED <<vars, argc, exit>>

CallNext ==
    /\ exit = Running /\ pc = "ready"
    /\ ret # "nullopt" /\ count = Len(out)
    /\ Call
    /\ UNCHANGED <<argc, count, exit>>

(* Mutant: the exit status says success whenever the loop ended. *)
Finish_ignores_failed ==
    /\ exit = Running /\ pc = "ready" /\ ret = "nullopt"
    /\ exit' = 0
    /\ UNCHANGED <<vars, argc, count>>

(* Mutant: a replay that skipped records exits as a failure. *)
Finish_fails_on_skips ==
    /\ exit = Running /\ pc = "ready" /\ ret = "nullopt"
    /\ exit' = IF failed \/ stats.events < stats.records THEN 1 ELSE 0
    /\ UNCHANGED <<vars, argc, count>>

Finish ==
    /\ exit = Running /\ pc = "ready" /\ ret = "nullopt"
    /\ exit' = IF failed THEN 1 ELSE 0
    /\ UNCHANGED <<vars, argc, count>>

(* main() catches what the constructor threw. *)
Catch ==
    /\ exit = Running /\ pc = "threw"
    /\ exit' = 1
    /\ UNCHANGED <<vars, argc, count>>

Exited == exit # Running /\ UNCHANGED rvars

Main == Usage \/ RunReader \/ CountEvent \/ CallNext \/ Finish \/ Catch

ReplayNext == Main \/ Exited

(* One thread runs main() from its first line to its last. *)
ReplaySpec == ReplayInit /\ [][ReplayNext]_rvars /\ WF_rvars(Main)

-----------------------------------------------------------------------------
(* Exit status 0 says that the whole file was replayed: its prologue is    *)
(* good, the counted Events are all that were decoded, every byte was read *)
(* and what is left is not a record and not a corrupt frame.               *)
SuccessMeansWholeFile ==
    exit = 0 =>
        /\ PrologueError(file) = "none"
        /\ count = stats.events
        /\ fpos = Len(file)
        /\ frame_one(SubSeq(file, Consumed + 1, Len(file))).status = "NeedMore"

(* Exit status 1 has a cause in the file or in opening it: replay_dbn      *)
(* rejects no file that it could have replayed to the end.                 *)
FailureHasCause ==
    exit = 1 =>
        \/ err = "cannot open"
        \/ PrologueError(file) # "none"
        \/ /\ PrologueError(file) = "none"
           /\ frame_one(SubSeq(file, Consumed + 1, Len(file))).status = "Corrupt"

(* The program ends on every file, also on those with lengths of zero.     *)
Terminates == <>(exit # Running)

=============================================================================
