-------------------------- MODULE MemoryMappedFile --------------------------
(***************************************************************************)
(* MemoryMappedFile: RAII ownership of one mapped view.  The program holds *)
(* a few objects that are constructed, moved, assigned and destroyed in    *)
(* any order; the operating system (external) keeps the mapped views and   *)
(* the open handles, fails a call when it likes, and may give an address   *)
(* out again once it was unmapped.                                         *)
(*                                                                         *)
(* The constructor runs call by call: ctor.at names the system call that   *)
(* comes next ("size": fstat or GetFileSizeEx, "mapping":                  *)
(* CreateFileMappingW, "view": mmap or MapViewOfFile).                     *)
(***************************************************************************)
EXTENDS Integers

CONSTANTS
    Objects,    \* storage for MemoryMappedFile objects
    Addresses,  \* where the system may place a view
    FileSizes,  \* the sizes files may have
    nullptr

ASSUME MapAssumption ==
    /\ nullptr \notin Addresses
    /\ FileSizes \subseteq Nat

VARIABLES
    platform, \* which branch of the #ifdef was built
    alive,    \* the objects whose lifetime has begun and not ended
    data,     \* data_ of each object
    size,     \* size_ of each object
    ctor,     \* the constructor in progress, if any
    handles,  \* the handles open in the system
    mapped,   \* the views in the system: the length mapped at each address
    fault,    \* a munmap was passed something that is not a mapped view
    last      \* the operation that just completed

vars == <<platform, alive, data, size, ctor, handles, mapped, fault, last>>

Idle == [at |-> "idle", obj |-> nullptr, st_size |-> 0]

Op(name, dst, src) == [op |-> name, dst |-> dst, src |-> src]

Init ==
    /\ platform \in {"posix", "windows"}
    /\ alive = {}
    /\ data = [o \in Objects |-> nullptr]
    /\ size = [o \in Objects |-> 0]
    /\ ctor = Idle
    /\ handles = {}
    /\ mapped = [a \in Addresses |-> 0]
    /\ fault = FALSE
    /\ last = Op("none", nullptr, nullptr)

-----------------------------------------------------------------------------
(* The constructor. *)

Throws == ctor' = Idle /\ last' = Op("throw", ctor.obj, nullptr)

Open ==
    /\ ctor.at = "idle"
    /\ \E o \in Objects \ alive :
          ctor' = [at |-> "size", obj |-> o, st_size |-> 0]
    /\ handles' = handles \cup {"file"}
    /\ last' = Op("open", nullptr, nullptr)
    /\ UNCHANGED <<platform, alive, data, size, mapped, fault>>

OpenFails ==
    /\ ctor.at = "idle" /\ alive # Objects
    /\ Throws
    /\ UNCHANGED <<platform, alive, data, size, handles, mapped, fault>>

SizeFails ==
    /\ ctor.at = "size"
    /\ handles' = handles \ {"file"}
    /\ Throws
    /\ UNCHANGED <<platform, alive, data, size, mapped, fault>>

(* An empty file has an empty view: nothing is mapped. *)
EmptyFile ==
    /\ ctor.at = "size" /\ 0 \in FileSizes
    /\ handles' = handles \ {"file"}
    /\ alive' = alive \cup {ctor.obj}
    /\ data' = [data EXCEPT ![ctor.obj] = nullptr]
    /\ size' = [size EXCEPT ![ctor.obj] = 0]
    /\ ctor' = Idle
    /\ last' = Op("construct", ctor.obj, nullptr)
    /\ UNCHANGED <<platform, mapped, fault>>

Sized ==
    /\ ctor.at = "size"
    /\ \E n \in FileSizes \ {0} :
          ctor' = [ctor EXCEPT !.st_size = n,
                               !.at = IF platform = "posix" THEN "view"
                                      ELSE "mapping"]
    /\ UNCHANGED <<platform, alive, data, size, handles, mapped, fault, last>>

(* Mutant: the file handle is not closed when CreateFileMappingW fails. *)
MappingFails_leaks ==
    /\ ctor.at = "mapping"
    /\ Throws
    /\ UNCHANGED <<platform, alive, data, size, handles, mapped, fault>>

(* CreateFileMappingW, on Windows only. *)
MappingFails ==
    /\ ctor.at = "mapping"
    /\ handles' = handles \ {"file"}
    /\ Throws
    /\ UNCHANGED <<platform, alive, data, size, mapped, fault>>

CreateMapping ==
    /\ ctor.at = "mapping"
    /\ handles' = handles \cup {"mapping"}
    /\ ctor' = [ctor EXCEPT !.at = "view"]
    /\ UNCHANGED <<platform, alive, data, size, mapped, fault, last>>

(* The handles are closed before the result of mmap or MapViewOfFile is    *)
(* looked at.                                                              *)
ViewFails ==
    /\ ctor.at = "view"
    /\ handles' = {}
    /\ Throws
    /\ UNCHANGED <<platform, alive, data, size, mapped, fault>>

MapView ==
    /\ ctor.at = "view"
    /\ handles' = {}
    /\ \E a \in Addresses :
          /\ mapped[a] = 0
          /\ mapped' = [mapped EXCEPT ![a] = ctor.st_size]
          /\ data' = [data EXCEPT ![ctor.obj] = a]
    /\ size' = [size EXCEPT ![ctor.obj] = ctor.st_size]
    /\ alive' = alive \cup {ctor.obj}
    /\ ctor' = Idle
    /\ last' = Op("construct", ctor.obj, nullptr)
    /\ UNCHANGED <<platform, fault>>

-----------------------------------------------------------------------------
(* The special members. *)

(* munmap(data_, size_), unless nothing is held.  Unmapping an address     *)
(* that is not mapped, or with another length, is the fault that must not  *)
(* happen.                                                                 *)
release(o) ==
    IF data[o] = nullptr THEN UNCHANGED <<mapped, fault>>
    ELSE /\ mapped' = [mapped EXCEPT ![data[o]] = 0]
         /\ fault' = (fault \/ mapped[data[o]] # size[o])

Destroy ==
    /\ ctor.at = "idle"
    /\ \E o \in alive :
          /\ release(o)
          /\ data' = [data EXCEPT ![o] = nullptr]
          /\ size' = [size EXCEPT ![o] = 0]
          /\ alive' = alive \ {o}
          /\ last' = Op("destroy", o, nullptr)
    /\ UNCHANGED <<platform, ctor, handles>>

MoveConstruct ==
    /\ ctor.at = "idle"
    /\ \E dst \in Objects \ alive, src \in alive :
          /\ data' = [data EXCEPT ![dst] = data[src], ![src] = nullptr]
          /\ size' = [size EXCEPT ![dst] = size[src], ![src] = 0]
          /\ alive' = alive \cup {dst}
          /\ last' = Op("move", dst, src)
    /\ UNCHANGED <<platform, ctor, handles, mapped, fault>>

(* Mutant: no check for self-assignment. *)
MoveAssign_without_self_check ==
    /\ ctor.at = "idle"
    /\ \E dst \in alive, src \in alive :
          /\ release(dst)
          /\ LET moved == IF dst = src THEN nullptr ELSE data[src] IN
             data' = [[data EXCEPT ![dst] = moved] EXCEPT ![src] = nullptr]
          /\ LET moved == IF dst = src THEN 0 ELSE size[src] IN
             size' = [[size EXCEPT ![dst] = moved] EXCEPT ![src] = 0]
          /\ last' = Op("assign", dst, src)
    /\ UNCHANGED <<platform, alive, ctor, handles>>

(* Release what is held, then take the other's view; assigning an object   *)
(* to itself does nothing.                                                 *)
MoveAssign ==
    /\ ctor.at = "idle"
    /\ \E dst \in alive, src \in alive :
          /\ IF dst = src THEN UNCHANGED <<data, size, mapped, fault>>
             ELSE /\ release(dst)
                  /\ data' = [data EXCEPT ![dst] = data[src], ![src] = nullptr]
                  /\ size' = [size EXCEPT ![dst] = size[src], ![src] = 0]
          /\ last' = Op("assign", dst, src)
    /\ UNCHANGED <<platform, alive, ctor, handles>>

Construct ==
    \/ Open \/ OpenFails \/ SizeFails \/ EmptyFile \/ Sized
    \/ MappingFails \/ CreateMapping \/ ViewFails \/ MapView

Next == Construct \/ Destroy \/ MoveConstruct \/ MoveAssign

Spec == Init /\ [][Next]_vars

-----------------------------------------------------------------------------
(* Properties. *)

(* Every variable holds a value of its type. *)
TypeOK ==
    /\ platform \in {"posix", "windows"}
    /\ alive \subseteq Objects
    /\ data \in [Objects -> Addresses \cup {nullptr}]
    /\ size \in [Objects -> Nat]
    /\ ctor \in [at : {"idle", "size", "mapping", "view"},
                 obj : Objects \cup {nullptr}, st_size : Nat]
    /\ handles \subseteq {"file", "mapping"}
    /\ mapped \in [Addresses -> Nat]
    /\ fault \in BOOLEAN
    /\ last \in [op : {"none", "open", "throw", "construct", "destroy", "move",
                       "assign"},
                 dst : Objects \cup {nullptr}, src : Objects \cup {nullptr}]

(* Nothing is unmapped twice or by the wrong length: each mapped view      *)
(* belongs to exactly one live object, which knows its length, and an      *)
(* object that holds nothing reports no bytes.  No view leaks, and none is *)
(* shared by two destructors.                                              *)
SoleOwner ==
    /\ ~fault
    /\ \A a \in Addresses : mapped[a] # 0 =>
          \E o \in alive : data[o] = a /\ size[o] = mapped[a]
    /\ \A o \in Objects : data[o] # nullptr => o \in alive /\ mapped[data[o]] # 0
    /\ \A o, p \in Objects : data[o] = data[p] /\ o # p => data[o] = nullptr
    /\ \A o \in Objects : data[o] = nullptr => size[o] = 0

(* The handles are closed on every way out of the constructor, the ones    *)
(* that throw too: only the view outlives it.                              *)
NoHandleLeak == ctor.at = "idle" => handles = {}

(* bytes() stays valid until the object is destroyed or another object is  *)
(* assigned over it: nothing else unmaps, a move or a self-assignment in   *)
(* particular (the span survives in the object moved to).                  *)
UnmappedOnlyByOwner ==
    [][\A a \in Addresses : mapped[a] # 0 /\ mapped'[a] # mapped[a] =>
          /\ last'.op = "destroy" \/ (last'.op = "assign" /\ last'.dst # last'.src)
          /\ data[last'.dst] = a]_vars

=============================================================================
