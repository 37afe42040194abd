--------------------------- MODULE ReaderObjects ---------------------------
(***************************************************************************)
(* MmapDbnReader objects that a program constructs, moves, assigns and     *)
(* destroys in any order.  Each owns a MemoryMappedFile, its member map_;  *)
(* the other members are plain values.  The class declares no special      *)
(* member, so a move goes member by member: map_ hands its view over and   *)
(* is left empty, while cursor_, failed_ and stats_ are copied and stay.   *)
(* The constructor maps the file and then checks the prologue: when that   *)
(* throws, map_ is destroyed.                                              *)
(*                                                                         *)
(* A client calls next() on a reader it has not moved from (usable); the   *)
(* class itself does not guard against the other call.                     *)
(***************************************************************************)
EXTENDS MemoryMappedFile, Reference

CONSTANT Files

ASSUME ReaderFilesAssumption == Files \subseteq Seq(Byte)

VARIABLES
    pages,      \* the bytes of the view at each address
    building,   \* the reader whose constructor is past map_(path), if any
    reader      \* cursor_, failed_ and stats_ of each reader, whether it may
                \* be used, and as history the file it was opened on and the
                \* Events that it and the readers it came from returned

ovars == <<vars, pages, building, reader>>

(* version_ is left out: only its getter reads it.  (The checks of the     *)
(* prologue look at the byte of the file.)                                 *)
NoReader == [usable |-> FALSE, cursor |-> 0, failed |-> FALSE,
             stats |-> NoStats, file |-> <<>>, out |-> <<>>]

ObjectsInit ==
    /\ Init
    /\ pages = [a \in Addresses |-> <<>>]
    /\ building = nullptr
    /\ reader = [o \in Objects |-> NoReader]

(* map_.bytes() of the reader o. *)
bytes(o) == IF data[o] = nullptr THEN <<>> ELSE SubSeq(pages[data[o]], 1, size[o])

-----------------------------------------------------------------------------
(* The constructor. *)

(* map_(path), call by call, for any of the files.  A view that is mapped  *)
(* shows a file of its size.                                               *)
MapMember ==
    /\ building = nullptr
    /\ Construct
    /\ building' = IF last'.op = "construct" THEN last'.dst ELSE nullptr
    /\ \/ mapped' = mapped /\ UNCHANGED pages
       \/ /\ mapped' # mapped
          /\ \E f \in Files :
                /\ Len(f) = ctor.st_size
                /\ pages' = [pages EXCEPT ![data'[ctor.obj]] = f]
    /\ UNCHANGED reader

skip_prologue ==
    /\ building # nullptr
    /\ PrologueError(bytes(building)) = "none"
    /\ reader' = [reader EXCEPT ![building] =
                     [NoReader EXCEPT !.usable = TRUE, !.file = bytes(building),
                                      !.cursor = RecordStart(bytes(building))]]
    /\ building' = nullptr
    /\ UNCHANGED <<vars, pages>>

(* Mutant: an exception leaves the constructor without unmapping. *)
PrologueThrows_leaks ==
    /\ building # nullptr
    /\ PrologueError(bytes(building)) # "none"
    /\ alive' = alive \ {building}
    /\ building' = nullptr
    /\ UNCHANGED <<platform, data, size, ctor, handles, mapped, fault, last, pages, reader>>

PrologueThrows ==
    /\ building # nullptr
    /\ PrologueError(bytes(building)) # "none"
    /\ Destroy /\ last'.dst = building
    /\ building' = nullptr
    /\ UNCHANGED <<pages, reader>>

-----------------------------------------------------------------------------
(* One turn of the loop of next() on the reader o. *)

rest(o) == SubSeq(bytes(o), reader[o].cursor + 1, size[o])

NextRecord(o) ==
    LET r == frame_one(rest(o))
        routed == route_record(SubSeq(rest(o), 1, r.record_size))
    IN  /\ r.status = "Ok"
        /\ reader' = [reader EXCEPT
              ![o].cursor = @ + r.record_size,
              ![o].stats = tally(@, routed),
              ![o].out = IF routed.outcome = "Emit" THEN Append(@, routed.event)
                         ELSE @]

NextCorrupt(o) ==
    /\ frame_one(rest(o)).status = "Corrupt"
    /\ reader' = [reader EXCEPT ![o].failed = TRUE]

NextEnd(o) == frame_one(rest(o)).status = "NeedMore" /\ UNCHANGED reader

CallNext ==
    /\ building = nullptr /\ ctor.at = "idle"
    /\ \E o \in alive : reader[o].usable
                        /\ (NextRecord(o) \/ NextCorrupt(o) \/ NextEnd(o))
    /\ UNCHANGED <<vars, pages, building>>

-----------------------------------------------------------------------------
(* The implicit special members. *)

(* Mutant: the cursor is left behind in the reader that is moved from. *)
Moved_without_cursor(dst, src) ==
    IF dst = src THEN reader
    ELSE [reader EXCEPT ![dst] = [reader[src] EXCEPT !.cursor = reader[dst].cursor],
                        ![src].usable = FALSE]

(* The plain members of dst and src after a move from src to dst. *)
Moved(dst, src) ==
    IF dst = src THEN reader
    ELSE [reader EXCEPT ![dst] = reader[src], ![src].usable = FALSE]

MoveReader ==
    /\ building = nullptr
    /\ MoveConstruct \/ MoveAssign
    /\ reader' = Moved(last'.dst, last'.src)
    /\ UNCHANGED <<pages, building>>

DestroyReader ==
    /\ building = nullptr
    /\ Destroy
    /\ reader' = [reader EXCEPT ![last'.dst] = NoReader]
    /\ UNCHANGED <<pages, building>>

ObjectsNext ==
    \/ MapMember \/ skip_prologue \/ PrologueThrows \/ CallNext
    \/ MoveReader \/ DestroyReader

ObjectsSpec == ObjectsInit /\ [][ObjectsNext]_ovars

-----------------------------------------------------------------------------
(* Whatever was moved, assigned and destroyed before, a reader that may be *)
(* used has the whole file it was opened on mapped, and its cursor_ is     *)
(* inside it, so the unchecked subspan(cursor_) of next() is defined.  It  *)
(* is not for a reader that was moved from: its cursor_ stays where it was.*)
CursorInsideView ==
    \A o \in Objects : reader[o].usable =>
        /\ data[o] # nullptr /\ mapped[data[o]] = size[o]
        /\ bytes(o) = reader[o].file
        /\ reader[o].cursor \in HeaderSize..size[o]

(* A stream goes on where it was when its reader is moved: the Events that *)
(* a chain of readers returned, and the counters of the last one, are the  *)
(* decoding of the file up to its cursor.                                  *)
MoveKeepsStream ==
    \A o \in Objects : reader[o].usable =>
        IsDecoding(reader[o].file, reader[o].cursor, reader[o].out, reader[o].stats)

=============================================================================
