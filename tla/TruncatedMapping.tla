-------------------------- MODULE TruncatedMapping --------------------------
(***************************************************************************)
(* The hazard memory_mapped_file.hpp names: another process truncates the  *)
(* file while a MmapDbnReader walks its mapping.  The size of the mapping  *)
(* was fixed by fstat, so the reader's span keeps the length it had.       *)
(*                                                                         *)
(* The operating system (external, POSIX): a page that holds no byte of    *)
(* the file any more raises SIGBUS when it is touched, and kills the       *)
(* process; what is left of the page the file now ends in reads as zeros.  *)
(* A step of the reader sees the pages of one moment.                      *)
(***************************************************************************)
EXTENDS MmapDbnReader

CONSTANT PageSize

ASSUME PageAssumption == PageSize \in Nat /\ PageSize >= HeaderSize

VARIABLES
    original,  \* the file when it was mapped
    length,    \* the bytes the file still has
    killed,    \* SIGBUS ended the process
    shown      \* history: length when the last Event was decoded

tvars == <<vars, original, length, killed, shown>>

TruncatedInit ==
    /\ Init
    /\ original = file /\ length = Len(file) /\ killed = FALSE
    /\ shown = Len(file)

(* What is left of the bytes f after their first n. *)
Zeroed(f, n) == [i \in DOMAIN f |-> IF i <= n THEN f[i] ELSE 0]

(* ftruncate(n) in another process, at any time once the file is mapped. *)
Truncate ==
    /\ ~killed /\ pc \notin {"open", "threw"}
    /\ \E n \in 0..(length - 1) : length' = n /\ file' = Zeroed(file, n)
    /\ UNCHANGED <<pc, cursor, version, rec, result, original, killed, shown>>

(* The bytes of the mapping that can be touched. *)
Resident == PageSize * ((length + PageSize - 1) \div PageSize)

(* How far into the mapping the reader's next step looks: at the header,   *)
(* at the length and, if the record fits, the rtype of the next record,    *)
(* and at the whole of a record only if it is decoded.                     *)
Touched ==
    CASE pc = "prologue" /\ Len(file) >= HeaderSize -> HeaderSize
      [] pc = "frame" /\ Len(rest) >= 2 ->
            IF frame_one(rest).status = "Ok" THEN cursor + 2 ELSE cursor + 1
      [] pc = "route" ->
            IF file[rec.at + 2] = kMboRtype /\ rec.len = SizeofWireMbo
            THEN rec.at + rec.len ELSE rec.at + 2
      [] OTHER -> 0

RunOn ==
    /\ ~killed /\ Touched <= Resident
    /\ Next
    /\ shown' = IF out' = out THEN shown ELSE length
    /\ UNCHANGED <<original, length, killed>>

Sigbus ==
    /\ ~killed /\ Touched > Resident
    /\ killed' = TRUE
    /\ UNCHANGED <<vars, original, length, shown>>

Dead == killed /\ UNCHANGED tvars

TruncatedNext == Truncate \/ RunOn \/ Sigbus \/ Dead

(* The fairness of MmapDbnReader; a fault is taken as soon as it is due. *)
TruncatedSpec ==
    /\ TruncatedInit /\ [][TruncatedNext]_tvars
    /\ WF_tvars(RunOn /\ (Construct \/ Step)) /\ WF_tvars(Sigbus)

-----------------------------------------------------------------------------
(* Properties. *)

(* What a consumer gets from a file that shrinks under the mapping: the    *)
(* Events of the original, in order and none left out, and a last one that *)
(* is its record as it was, whole or cut, when it was decoded (next,       *)
(* route_record, to_event).  The reader returns nothing from beyond a      *)
(* record the cut went through.                                            *)
OnlyTheLastIsTouched ==
    out # <<>> =>
        LET E == {p \in RecordsBefore(original, Len(original)) : IsWellFormed(original, p)}
            Rank(p) == Cardinality({q \in E : q <= p})
        IN  /\ \A p \in E : \A name \in EventFields :
                  Rank(p) < Len(out) => out[Rank(p)][name] = FieldAt(original, p, name)
            /\ \E p \in E :
                  /\ Rank(p) = Len(out)
                  /\ \A name \in EventFields :
                        out[Len(out)][name] = FieldAt(Zeroed(original, shown), p, name)

(* What a clean end is worth when the file may have shrunk.  If next()     *)
(* returned nullopt without failed(), every whole record of the original   *)
(* was framed and counted, and every Event but that of the last record was *)
(* returned as it is in the original, for the zeros after a cut are a      *)
(* corrupt length wherever another record begins (frame_one).  The last    *)
(* record is the exception: a cut through it may lose its Event or show in *)
(* it, and the end is clean all the same, because the cursor is then at    *)
(* the end of the mapping.  If the file still has all of its records, the  *)
(* Events and the counters are exact.                                      *)
CleanEndHidesOnlyTheLast ==
    ret = "nullopt" /\ ~failed =>
        LET R == RecordsBefore(original, Len(original))
            E == {p \in R : IsWellFormed(original, p)}
            Rank(p) == Cardinality({q \in E : q <= p})
        IN  /\ stats.records = Cardinality(R)
            /\ \A p \in E : (\E q \in R : p < q) =>
                  /\ Rank(p) <= Len(out)
                  /\ \A name \in EventFields :
                        out[Rank(p)][name] = FieldAt(original, p, name)
            /\ (\A p \in R : p + RecordLen(original, p) <= length) =>
                  IsDecoding(original, Len(original), out, stats)

(* A truncation never leaves next() spinning: the zeros it leaves are a    *)
(* corrupt length.  Every call returns, or the process is killed.          *)
ReturnsOrKilled == (pc = "frame") ~> (pc = "ready" \/ killed)

=============================================================================
