--------------------------- MODULE FileByteSource ---------------------------
(***************************************************************************)
(* FileByteSource (dbn_reader.hpp): a byte pump over one open file.  The   *)
(* std::ifstream underneath is external; it is modelled by what read()     *)
(* relies on: the file position, and whether the stream is still good().   *)
(***************************************************************************)
EXTENDS Dbn

CONSTANTS
    Files,       \* the contents a file may have
    ShortReads,  \* may a read stop early without the end being reached?
    ReadErrors   \* may a read fail (badbit) before the end of the file?

ASSUME SourceAssumption ==
    /\ Files \subseteq Seq(Byte)
    /\ ShortReads \in BOOLEAN
    /\ ReadErrors \in BOOLEAN

VARIABLES
    file,   \* the bytes of the file
    fpos,   \* bytes the stream has delivered
    good    \* good(): none of eofbit, failbit and badbit is set

source == <<file, fpos, good>>

SourceInit ==
    /\ file \in Files
    /\ fpos = 0
    /\ good = TRUE

Available(want) == IF want <= Len(file) - fpos THEN want ELSE Len(file) - fpos

(* istream::read followed by gcount().  A stream that is not good reads    *)
(* nothing.  A read that reaches the end before it has all it wanted sets  *)
(* eofbit and failbit.  ShortReads adds the sources the read() shape is    *)
(* meant to wrap later (zstd, a socket), which may deliver less at a time; *)
(* ReadErrors adds an I/O error, which sets badbit after any part of the   *)
(* request.                                                                *)
ReadOutcomes(want) ==
    IF ~good THEN {[n |-> 0, good |-> FALSE]}
    ELSE {[n |-> Available(want), good |-> Available(want) = want]}
         \cup (IF ShortReads
               THEN [n : 1..Available(want), good : {TRUE}] ELSE {})
         \cup (IF ReadErrors
               THEN [n : 0..Available(want), good : {FALSE}] ELSE {})

(* The bytes a read with outcome o stores in dst. *)
Delivered(o) == SubSeq(file, fpos + 1, fpos + o.n)

read(want, o) ==
    /\ o \in ReadOutcomes(want)
    /\ fpos' = fpos + o.n
    /\ good' = o.good
    /\ UNCHANGED file

SourceTypeOK ==
    /\ file \in Seq(Byte)
    /\ fpos \in 0..Len(file)
    /\ good \in BOOLEAN

=============================================================================
