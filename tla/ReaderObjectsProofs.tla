------------------------ MODULE ReaderObjectsProofs ------------------------
(***************************************************************************)
(* Theorems about the ownership of mapped views: for any set of objects,   *)
(* addresses and files, any order of construction, moves, assignments and  *)
(* destruction, and any failing system call.  The first half is about      *)
(* MemoryMappedFile, the second about the readers that own one each.       *)
(***************************************************************************)
EXTENDS ReaderObjects, DbnLemmas

-----------------------------------------------------------------------------
(* The inductive invariant of MemoryMappedFile.  SoleOwner and             *)
(* NoHandleLeak are not inductive: while a constructor runs one has to     *)
(* know that its object holds nothing yet, which handles are open at the   *)
(* call it has come to, and that the size it is about to map is not zero.  *)
Constructing ==
    /\ ctor.at \in {"idle", "size", "mapping", "view"}
    /\ ctor.at = "idle" => handles = {}
    /\ ctor.at \in {"size", "mapping"} => handles = {"file"}
    /\ ctor.at \in {"mapping", "view"} => ctor.st_size # 0
    /\ ctor.at # "idle" => ctor.obj \in Objects \ alive /\ last.op = "open"

MapInv == TypeOK /\ SoleOwner /\ Constructing

(* The length a view was mapped with is the length its owner unmaps. *)
LEMMA OwnerKnowsLength ==
    ASSUME TypeOK, SoleOwner, NEW o \in Objects, data[o] # nullptr
    PROVE  /\ data[o] \in Addresses /\ o \in alive
           /\ mapped[data[o]] = size[o] /\ size[o] # 0
           /\ \A p \in Objects \ {o} : data[p] # data[o]
<1>1. data[o] \in Addresses /\ alive \subseteq Objects
    BY DEF TypeOK
<1>2. o \in alive /\ mapped[data[o]] # 0
    BY DEF SoleOwner
<1>3. \A p \in Objects \ {o} : data[p] # data[o]
    BY DEF SoleOwner
<1>4. PICK p \in alive : data[p] = data[o] /\ size[p] = mapped[data[o]]
    BY <1>1, <1>2 DEF SoleOwner
<1>5. p = o
    BY <1>1, <1>3, <1>4
<1>6. QED
    BY <1>1, <1>2, <1>3, <1>4, <1>5

(* release() of an object gives back its own view and no other. *)
LEMMA ReleaseOwn ==
    ASSUME TypeOK, SoleOwner, NEW o \in Objects, release(o)
    PROVE  /\ fault' = FALSE
           /\ mapped' \in [Addresses -> Nat]
           /\ \A a \in Addresses :
                 mapped'[a] = IF a = data[o] THEN 0 ELSE mapped[a]
<1>1. fault = FALSE /\ mapped \in [Addresses -> Nat]
    BY DEF TypeOK, SoleOwner
<1>2. CASE data[o] = nullptr
    <2>1. mapped' = mapped /\ fault' = fault
        BY <1>2 DEF release
    <2>2. QED
        BY <1>1, <1>2, <2>1, MapAssumption
<1>3. CASE data[o] # nullptr
    <2>1. data[o] \in Addresses /\ mapped[data[o]] = size[o]
        BY <1>3, OwnerKnowsLength
    <2>2. /\ mapped' = [mapped EXCEPT ![data[o]] = 0]
          /\ fault' = (fault \/ mapped[data[o]] # size[o])
        BY <1>3 DEF release
    <2>3. QED
        BY <1>1, <2>1, <2>2
<1>4. QED
    BY <1>2, <1>3

-----------------------------------------------------------------------------
(* Ownership, operation by operation. *)

LEMMA OwnersUnchanged ==
    SoleOwner /\ UNCHANGED <<alive, data, size, mapped, fault>> => SoleOwner'
BY DEF SoleOwner

(* A view that was just mapped belongs to the new object alone: nobody     *)
(* held its address, since only mapped addresses are held.                 *)
LEMMA MapViewOwned ==
    ASSUME MapInv, MapView
    PROVE  SoleOwner'
<1> DEFINE o == ctor.obj
           n == ctor.st_size
<1>1. PICK a \in Addresses :
          /\ mapped[a] = 0
          /\ mapped' = [mapped EXCEPT ![a] = n]
          /\ data' = [data EXCEPT ![o] = a]
    BY DEF MapView
<1>2. size' = [size EXCEPT ![o] = n] /\ alive' = alive \cup {o} /\ fault' = fault
    BY DEF MapView
<1>3. o \in Objects \ alive /\ n # 0
    BY DEF MapView, MapInv, Constructing
<1> HIDE DEF o, n
<1>4. /\ data \in [Objects -> Addresses \cup {nullptr}]
      /\ size \in [Objects -> Nat] /\ mapped \in [Addresses -> Nat]
      /\ alive \subseteq Objects
    BY DEF MapInv, TypeOK
<1>5. /\ \A x \in Objects : data'[x] = IF x = o THEN a ELSE data[x]
      /\ \A x \in Objects : size'[x] = IF x = o THEN n ELSE size[x]
      /\ \A b \in Addresses : mapped'[b] = IF b = a THEN n ELSE mapped[b]
    BY <1>1, <1>2, <1>3, <1>4
<1>6. \A x \in Objects : data[x] # a
    BY <1>1, MapAssumption DEF MapInv, SoleOwner
<1>7. ~fault'
    BY <1>2 DEF MapInv, SoleOwner
<1>8. ASSUME NEW b \in Addresses, mapped'[b] # 0
      PROVE  \E x \in alive' : data'[x] = b /\ size'[x] = mapped'[b]
    <2>1. CASE b = a
        BY <1>2, <1>3, <1>5, <2>1
    <2>2. CASE b # a
        <3>1. mapped'[b] = mapped[b]
            BY <1>5, <2>2
        <3>2. PICK x \in alive : data[x] = b /\ size[x] = mapped[b]
            BY <1>8, <3>1 DEF MapInv, SoleOwner
        <3>3. x \in alive' /\ x # o /\ x \in Objects
            BY <1>2, <1>3, <1>4
        <3>4. QED
            BY <1>5, <3>1, <3>2, <3>3
    <2>3. QED
        BY <2>1, <2>2
<1>9. ASSUME NEW x \in Objects, data'[x] # nullptr
      PROVE  x \in alive' /\ mapped'[data'[x]] # 0
    <2>1. CASE x = o
        BY <1>2, <1>3, <1>5, <2>1
    <2>2. CASE x # o
        <3>1. data'[x] = data[x] /\ data[x] \in Addresses /\ data[x] # a
            BY <1>4, <1>5, <1>6, <1>9, <2>2
        <3>2. x \in alive /\ mapped[data[x]] # 0
            BY <1>9, <3>1 DEF MapInv, SoleOwner
        <3>3. QED
            BY <1>2, <1>5, <3>1, <3>2
    <2>3. QED
        BY <2>1, <2>2
<1>10. ASSUME NEW x \in Objects, NEW y \in Objects, data'[x] = data'[y], x # y
       PROVE  data'[x] = nullptr
    BY <1>5, <1>6, <1>10 DEF MapInv, SoleOwner
<1>11. ASSUME NEW x \in Objects, data'[x] = nullptr
       PROVE  size'[x] = 0
    BY <1>1, <1>5, <1>11, MapAssumption DEF MapInv, SoleOwner
<1>12. QED
    BY <1>7, <1>8, <1>9, <1>10, <1>11 DEF SoleOwner

(* An empty file gives an object that holds nothing. *)
LEMMA EmptyFileOwned ==
    ASSUME MapInv, EmptyFile
    PROVE  SoleOwner' /\ data' = data /\ size' = size
<1>1. ctor.obj \in Objects \ alive
    BY DEF EmptyFile, MapInv, Constructing
<1>2. data[ctor.obj] = nullptr
    BY <1>1 DEF MapInv, SoleOwner
<1>3. size[ctor.obj] = 0
    BY <1>1, <1>2 DEF MapInv, SoleOwner
<1>4. data' = data /\ size' = size
    BY <1>1, <1>2, <1>3 DEF EmptyFile, MapInv, TypeOK
<1>5. alive \subseteq alive' /\ mapped' = mapped /\ fault' = fault
    BY DEF EmptyFile
<1>6. QED
    BY <1>4, <1>5 DEF MapInv, SoleOwner

(* A destructor takes its own view with it and no other. *)
LEMMA DestroyOwned ==
    ASSUME TypeOK, SoleOwner, NEW o \in alive, release(o),
           data' = [data EXCEPT ![o] = nullptr],
           size' = [size EXCEPT ![o] = 0],
           alive' = alive \ {o}
    PROVE  SoleOwner' /\ mapped' \in [Addresses -> Nat] /\ fault' = FALSE
<1>1. /\ data \in [Objects -> Addresses \cup {nullptr}]
      /\ size \in [Objects -> Nat] /\ alive \subseteq Objects
    BY DEF TypeOK
<1>2. /\ fault' = FALSE /\ mapped' \in [Addresses -> Nat]
      /\ \A a \in Addresses :
            mapped'[a] = IF a = data[o] THEN 0 ELSE mapped[a]
    BY <1>1, ReleaseOwn
<1>3. /\ \A x \in Objects : data'[x] = IF x = o THEN nullptr ELSE data[x]
      /\ \A x \in Objects : size'[x] = IF x = o THEN 0 ELSE size[x]
    BY <1>1
<1>4. ASSUME NEW b \in Addresses, mapped'[b] # 0
      PROVE  \E x \in alive' : data'[x] = b /\ size'[x] = mapped'[b]
    <2>1. b # data[o] /\ mapped'[b] = mapped[b]
        BY <1>2, <1>4
    <2>2. PICK x \in alive : data[x] = b /\ size[x] = mapped[b]
        BY <1>4, <2>1 DEF SoleOwner
    <2>3. x \in alive' /\ x # o /\ x \in Objects
        BY <1>1, <2>1, <2>2
    <2>4. QED
        BY <1>3, <2>1, <2>2, <2>3
<1>5. ASSUME NEW x \in Objects, data'[x] # nullptr
      PROVE  x \in alive' /\ mapped'[data'[x]] # 0
    <2>1. x # o /\ data'[x] = data[x]
        BY <1>3, <1>5
    <2>2. data[x] \in Addresses /\ x \in alive /\ mapped[data[x]] # 0
        BY <1>1, <1>5, <2>1 DEF SoleOwner
    <2>3. data[x] # data[o]
        BY <1>1, <1>5, <2>1 DEF SoleOwner
    <2>4. QED
        BY <1>2, <2>1, <2>2, <2>3
<1>6. ASSUME NEW x \in Objects, NEW y \in Objects, data'[x] = data'[y], x # y
      PROVE  data'[x] = nullptr
    BY <1>3, <1>6 DEF SoleOwner
<1>7. ASSUME NEW x \in Objects, data'[x] = nullptr
      PROVE  size'[x] = 0
    BY <1>3, <1>7 DEF SoleOwner
<1>8. QED
    BY <1>2, <1>4, <1>5, <1>6, <1>7 DEF SoleOwner

(* A move hands the view of src to dst, which gives up its own first.  It  *)
(* is both special members: a new object holds nothing to give up.         *)
LEMMA MoveOwned ==
    ASSUME TypeOK, SoleOwner, NEW src \in alive, NEW dst \in Objects, dst # src,
           release(dst),
           data' = [data EXCEPT ![dst] = data[src], ![src] = nullptr],
           size' = [size EXCEPT ![dst] = size[src], ![src] = 0],
           alive' = alive \cup {dst}
    PROVE  /\ SoleOwner' /\ mapped' \in [Addresses -> Nat] /\ fault' = FALSE
           /\ \A x \in Objects : data'[x] = IF x = dst THEN data[src]
                                            ELSE IF x = src THEN nullptr
                                            ELSE data[x]
           /\ \A x \in Objects : size'[x] = IF x = dst THEN size[src]
                                            ELSE IF x = src THEN 0 ELSE size[x]
           /\ \A a \in Addresses :
                 mapped'[a] = IF a = data[dst] THEN 0 ELSE mapped[a]
<1>1. /\ data \in [Objects -> Addresses \cup {nullptr}]
      /\ size \in [Objects -> Nat] /\ alive \subseteq Objects
    BY DEF TypeOK
<1>2. /\ fault' = FALSE /\ mapped' \in [Addresses -> Nat]
      /\ \A a \in Addresses :
            mapped'[a] = IF a = data[dst] THEN 0 ELSE mapped[a]
    BY ReleaseOwn
<1>3. /\ \A x \in Objects : data'[x] = IF x = dst THEN data[src]
                                       ELSE IF x = src THEN nullptr ELSE data[x]
      /\ \A x \in Objects : size'[x] = IF x = dst THEN size[src]
                                       ELSE IF x = src THEN 0 ELSE size[x]
    BY <1>1
<1>4. ASSUME NEW b \in Addresses, mapped'[b] # 0
      PROVE  \E x \in alive' : data'[x] = b /\ size'[x] = mapped'[b]
    <2>1. b # data[dst] /\ mapped'[b] = mapped[b]
        BY <1>2, <1>4
    <2>2. PICK x \in alive : data[x] = b /\ size[x] = mapped[b]
        BY <1>4, <2>1 DEF SoleOwner
    <2>3. x # dst /\ x \in Objects
        BY <1>1, <2>1, <2>2
    <2>4. CASE x = src
        <3>1. dst \in alive' /\ data'[dst] = data[src] /\ size'[dst] = size[src]
            BY <1>3
        <3>2. QED
            BY <2>1, <2>2, <2>4, <3>1
    <2>5. CASE x # src
        <3>1. x \in alive'
            OBVIOUS
        <3>2. QED
            BY <1>3, <2>1, <2>2, <2>3, <2>5, <3>1
    <2>6. QED
        BY <2>4, <2>5
<1>5. ASSUME NEW x \in Objects, data'[x] # nullptr
      PROVE  x \in alive' /\ mapped'[data'[x]] # 0
    <2>1. x # src
        BY <1>3, <1>5
    <2>2. PICK y \in Objects : /\ data'[x] = data[y] /\ y # dst
                               /\ y = x \/ (x = dst /\ y = src)
        BY <1>1, <1>3, <2>1
    <2>3. data[y] \in Addresses /\ y \in alive /\ mapped[data[y]] # 0
        BY <1>1, <1>5, <2>2 DEF SoleOwner
    <2>4. data[y] # data[dst]
        BY <1>1, <1>5, <2>2 DEF SoleOwner
    <2>5. QED
        BY <1>2, <2>2, <2>3, <2>4
<1>6. ASSUME NEW x \in Objects, NEW y \in Objects, data'[x] = data'[y], x # y
      PROVE  data'[x] = nullptr
    <2>1. CASE x = src \/ y = src
        BY <1>3, <1>6, <2>1
    <2>2. CASE x = dst /\ y # src
        BY <1>1, <1>3, <1>6, <2>2 DEF SoleOwner
    <2>3. CASE y = dst /\ x # src
        BY <1>1, <1>3, <1>6, <2>3 DEF SoleOwner
    <2>4. CASE x \notin {src, dst} /\ y \notin {src, dst}
        <3>1. data'[x] = data[x] /\ data'[y] = data[y]
            BY <1>3, <2>4
        <3>2. QED
            BY <1>6, <3>1 DEF SoleOwner
    <2>5. QED
        BY <2>1, <2>2, <2>3, <2>4
<1>7. ASSUME NEW x \in Objects, data'[x] = nullptr
      PROVE  size'[x] = 0
    BY <1>1, <1>3, <1>7 DEF SoleOwner
<1>8. QED
    BY <1>2, <1>3, <1>4, <1>5, <1>6, <1>7 DEF SoleOwner

-----------------------------------------------------------------------------
(* The invariant holds in every state. *)

LEMMA MapInit == Init => MapInv
<1> SUFFICES ASSUME Init PROVE MapInv
    OBVIOUS
<1>1. TypeOK
    BY DEF Init, TypeOK, Idle, Op
<1>2. SoleOwner
    BY DEF Init, SoleOwner
<1>3. Constructing
    BY DEF Init, Constructing, Idle
<1>4. QED
    BY <1>1, <1>2, <1>3 DEF MapInv

(* What each way out of a constructor leaves behind. *)
LEMMA BackToIdle ==
    ASSUME ctor' = Idle, handles' = {}
    PROVE  Constructing'
BY DEF Constructing, Idle

(* The steps of a constructor that fail, or that neither begin nor end the *)
(* lifetime of an object.                                                  *)
LEMMA ConstructorCalls ==
    ASSUME MapInv,
           Open \/ OpenFails \/ SizeFails \/ Sized \/ MappingFails
           \/ CreateMapping \/ ViewFails
    PROVE  /\ MapInv' /\ UNCHANGED <<alive, data, size, mapped, fault>>
           /\ last'.op # "construct"
<1>a. TypeOK /\ SoleOwner /\ Constructing
    BY DEF MapInv
<1>b. /\ ctor \in [at : {"idle", "size", "mapping", "view"},
                   obj : Objects \cup {nullptr}, st_size : Nat]
      /\ handles \subseteq {"file", "mapping"}
      /\ last \in [op : {"none", "open", "throw", "construct", "destroy", "move",
                         "assign"},
                   dst : Objects \cup {nullptr}, src : Objects \cup {nullptr}]
    BY <1>a DEF TypeOK
<1>1. UNCHANGED <<platform, alive, data, size, mapped, fault>>
    BY DEF Open, OpenFails, SizeFails, Sized, MappingFails, CreateMapping,
           ViewFails
<1>2. SoleOwner'
    BY <1>a, <1>1, OwnersUnchanged
<1> DEFINE Types == /\ ctor' \in [at : {"idle", "size", "mapping", "view"},
                                  obj : Objects \cup {nullptr}, st_size : Nat]
                    /\ handles' \subseteq {"file", "mapping"}
                    /\ last' \in [op : {"none", "open", "throw", "construct",
                                        "destroy", "move", "assign"},
                                  dst : Objects \cup {nullptr},
                                  src : Objects \cup {nullptr}]
<1>3. Types /\ Constructing' /\ last'.op # "construct"
    <2>1. ASSUME Throws
          PROVE  /\ last'.op = "throw" /\ ctor' = Idle
                 /\ ctor' \in [at : {"idle", "size", "mapping", "view"},
                               obj : Objects \cup {nullptr}, st_size : Nat]
                 /\ last' \in [op : {"none", "open", "throw", "construct",
                                     "destroy", "move", "assign"},
                               dst : Objects \cup {nullptr},
                               src : Objects \cup {nullptr}]
        BY <1>b, <2>1 DEF Throws, Op, Idle
    <2>2. CASE Open
        <3>1. PICK o \in Objects \ alive :
                  ctor' = [at |-> "size", obj |-> o, st_size |-> 0]
            BY <2>2 DEF Open
        <3>2. handles' = {"file"} /\ last' = Op("open", nullptr, nullptr)
            BY <1>a, <2>2 DEF Open, Constructing
        <3>3. Types
            BY <3>1, <3>2 DEF Op
        <3>4. last'.op = "open" /\ ctor'.at = "size" /\ ctor'.obj = o
            BY <3>1, <3>2 DEF Op
        <3>5. QED
            BY <1>1, <3>2, <3>3, <3>4 DEF Constructing
    <2>3. CASE OpenFails
        <3>1. handles' = {} /\ Throws
            BY <1>a, <2>3 DEF OpenFails, Constructing
        <3>2. QED
            BY <2>1, <3>1, BackToIdle
    <2>4. CASE SizeFails
        <3>1. handles' = {} /\ Throws
            BY <1>a, <2>4 DEF SizeFails, Constructing
        <3>2. QED
            BY <2>1, <3>1, BackToIdle
    <2>5. CASE MappingFails
        <3>1. handles' = {} /\ Throws
            BY <1>a, <2>5 DEF MappingFails, Constructing
        <3>2. QED
            BY <2>1, <3>1, BackToIdle
    <2>6. CASE ViewFails
        <3>1. handles' = {} /\ Throws
            BY <2>6 DEF ViewFails
        <3>2. QED
            BY <2>1, <3>1, BackToIdle
    <2>7. CASE Sized
        <3>1. PICK n \in FileSizes \ {0} :
                  ctor' = [ctor EXCEPT !.st_size = n,
                                       !.at = IF platform = "posix" THEN "view"
                                              ELSE "mapping"]
            BY <2>7 DEF Sized
        <3>2. n \in Nat /\ n # 0
            BY MapAssumption
        <3>3. /\ ctor'.at \in {"view", "mapping"} /\ ctor'.st_size = n
              /\ ctor'.obj = ctor.obj
              /\ ctor' \in [at : {"idle", "size", "mapping", "view"},
                            obj : Objects \cup {nullptr}, st_size : Nat]
            BY <1>b, <3>1, <3>2
        <3>4. handles' = handles /\ last' = last /\ ctor.at = "size"
            BY <2>7 DEF Sized
        <3>5. handles = {"file"} /\ last.op = "open" /\ ctor.obj \in Objects \ alive
            BY <1>a, <3>4 DEF Constructing
        <3>6. Constructing'
            BY <1>1, <3>2, <3>3, <3>4, <3>5 DEF Constructing
        <3>7. QED
            BY <1>b, <3>3, <3>4, <3>5, <3>6
    <2>8. CASE CreateMapping
        <3>1. /\ ctor' = [ctor EXCEPT !.at = "view"] /\ last' = last
              /\ handles' = handles \cup {"mapping"} /\ ctor.at = "mapping"
            BY <2>8 DEF CreateMapping
        <3>2. /\ ctor'.at = "view" /\ ctor'.st_size = ctor.st_size
              /\ ctor'.obj = ctor.obj
              /\ ctor' \in [at : {"idle", "size", "mapping", "view"},
                            obj : Objects \cup {nullptr}, st_size : Nat]
            BY <1>b, <3>1
        <3>3. ctor.st_size # 0 /\ last.op = "open" /\ ctor.obj \in Objects \ alive
            BY <1>a, <3>1 DEF Constructing
        <3>4. Constructing'
            BY <1>1, <3>1, <3>2, <3>3 DEF Constructing
        <3>5. QED
            BY <1>b, <3>1, <3>2, <3>3, <3>4
    <2>9. QED
        BY <2>2, <2>3, <2>4, <2>5, <2>6, <2>7, <2>8
<1>4. TypeOK'
    BY <1>a, <1>1, <1>3 DEF TypeOK
<1>5. QED
    BY <1>1, <1>2, <1>3, <1>4 DEF MapInv

(* The two ways in which a constructor succeeds. *)
LEMMA ConstructorReturns ==
    ASSUME MapInv, EmptyFile \/ MapView
    PROVE  MapInv'
<1>a. TypeOK /\ Constructing
    BY DEF MapInv
<1>b. ctor.obj \in Objects \ alive
    BY <1>a DEF EmptyFile, MapView, Constructing
<1>1. SoleOwner'
    BY EmptyFileOwned, MapViewOwned
<1>2. handles' = {} /\ ctor' = Idle
    BY <1>a DEF EmptyFile, MapView, Constructing
<1>3. Constructing'
    BY <1>2, BackToIdle
<1>4. /\ last' \in [op : {"none", "open", "throw", "construct", "destroy", "move",
                          "assign"},
                    dst : Objects \cup {nullptr}, src : Objects \cup {nullptr}]
      /\ alive' \subseteq Objects /\ UNCHANGED <<platform, fault>>
    BY <1>a, <1>b DEF EmptyFile, MapView, Op, TypeOK
<1>5. ctor' \in [at : {"idle", "size", "mapping", "view"},
                 obj : Objects \cup {nullptr}, st_size : Nat]
    BY <1>2 DEF Idle
<1>6. ctor.st_size \in Nat
    BY <1>a DEF TypeOK
<1>7. /\ data' \in [Objects -> Addresses \cup {nullptr}]
      /\ size' \in [Objects -> Nat] /\ mapped' \in [Addresses -> Nat]
    BY <1>a, <1>6 DEF EmptyFile, MapView, TypeOK
<1>8. QED
    BY <1>a, <1>1, <1>2, <1>3, <1>4, <1>5, <1>7 DEF MapInv, TypeOK

(* The special members. *)
LEMMA SpecialMembers ==
    ASSUME MapInv, Destroy \/ MoveConstruct \/ MoveAssign
    PROVE  MapInv'
<1>a. TypeOK /\ SoleOwner /\ Constructing
    BY DEF MapInv
<1>b. /\ data \in [Objects -> Addresses \cup {nullptr}]
      /\ size \in [Objects -> Nat] /\ mapped \in [Addresses -> Nat]
      /\ alive \subseteq Objects
    BY <1>a DEF TypeOK
<1>1. ctor.at = "idle" /\ UNCHANGED <<platform, ctor, handles>>
    BY DEF Destroy, MoveConstruct, MoveAssign
<1>2. Constructing'
    BY <1>a, <1>1 DEF Constructing
<1>3. /\ SoleOwner' /\ mapped' \in [Addresses -> Nat] /\ fault' = FALSE
      /\ data' \in [Objects -> Addresses \cup {nullptr}]
      /\ size' \in [Objects -> Nat] /\ alive' \subseteq Objects
      /\ last' \in [op : {"none", "open", "throw", "construct", "destroy", "move",
                          "assign"},
                    dst : Objects \cup {nullptr}, src : Objects \cup {nullptr}]
    <2>1. CASE Destroy
        <3>1. PICK o \in alive :
                  /\ release(o)
                  /\ data' = [data EXCEPT ![o] = nullptr]
                  /\ size' = [size EXCEPT ![o] = 0]
                  /\ alive' = alive \ {o}
                  /\ last' = Op("destroy", o, nullptr)
            BY <2>1 DEF Destroy
        <3>2. SoleOwner' /\ mapped' \in [Addresses -> Nat] /\ fault' = FALSE
            BY <1>a, <3>1, DestroyOwned
        <3>3. QED
            BY <1>b, <3>1, <3>2 DEF Op
    <2>2. CASE MoveConstruct
        <3>1. PICK dst \in Objects \ alive, src \in alive :
                  /\ data' = [data EXCEPT ![dst] = data[src], ![src] = nullptr]
                  /\ size' = [size EXCEPT ![dst] = size[src], ![src] = 0]
                  /\ alive' = alive \cup {dst}
                  /\ last' = Op("move", dst, src)
            BY <2>2 DEF MoveConstruct
        <3>2. data[dst] = nullptr
            BY <1>a DEF SoleOwner
        <3>3. release(dst)
            BY <2>2, <3>2 DEF MoveConstruct, release
        <3>4. SoleOwner' /\ mapped' \in [Addresses -> Nat] /\ fault' = FALSE
            BY <1>a, <3>1, <3>3, MoveOwned
        <3>5. QED
            BY <1>b, <3>1, <3>4 DEF Op
    <2>3. CASE MoveAssign
        <3>1. PICK dst \in alive, src \in alive :
                  /\ IF dst = src THEN UNCHANGED <<data, size, mapped, fault>>
                     ELSE /\ release(dst)
                          /\ data' = [data EXCEPT ![dst] = data[src],
                                                  ![src] = nullptr]
                          /\ size' = [size EXCEPT ![dst] = size[src], ![src] = 0]
                  /\ last' = Op("assign", dst, src)
            BY <2>3 DEF MoveAssign
        <3>2. alive' = alive /\ alive' = alive \cup {dst} /\ dst \in Objects
            BY <1>b, <2>3 DEF MoveAssign
        <3>3. CASE dst = src
            <4>1. UNCHANGED <<alive, data, size, mapped, fault>>
                BY <3>1, <3>2, <3>3
            <4>2. SoleOwner' /\ fault' = FALSE
                BY <1>a, <4>1, OwnersUnchanged DEF TypeOK, SoleOwner
            <4>3. QED
                BY <1>b, <3>1, <4>1, <4>2 DEF Op
        <3>4. CASE dst # src
            <4>1. SoleOwner' /\ mapped' \in [Addresses -> Nat] /\ fault' = FALSE
                BY <1>a, <3>1, <3>2, <3>4, MoveOwned
            <4>2. QED
                BY <1>b, <3>1, <3>2, <3>4, <4>1 DEF Op
        <3>5. QED
            BY <3>3, <3>4
    <2>4. QED
        BY <2>1, <2>2, <2>3
<1>4. TypeOK'
    BY <1>a, <1>1, <1>3 DEF TypeOK
<1>5. QED
    BY <1>2, <1>3, <1>4 DEF MapInv

LEMMA MapNext == MapInv /\ [Next]_vars => MapInv'
<1> SUFFICES ASSUME MapInv, [Next]_vars PROVE MapInv'
    OBVIOUS
<1>1. CASE Construct
    BY <1>1, ConstructorCalls, ConstructorReturns DEF Construct
<1>2. CASE Destroy \/ MoveConstruct \/ MoveAssign
    BY <1>2, SpecialMembers
<1>3. CASE UNCHANGED vars
    BY <1>3 DEF vars, MapInv, TypeOK, SoleOwner, Constructing
<1>4. QED
    BY <1>1, <1>2, <1>3 DEF Next

(* Every program of constructions, moves and destructions keeps the        *)
(* inductive invariant of the mapping, in the middle of a constructor too. *)
THEOREM MapInvariant == Spec => []MapInv
BY MapInit, MapNext, PTL DEF Spec

(* In any program of constructions, moves, assignments and destructions,   *)
(* each mapped view has exactly one owner, which knows its length; so no   *)
(* munmap is passed a stale address or a wrong length, and no view leaks.  *)
THEOREM ViewHasOneOwner == Spec => []SoleOwner
<1>1. MapInv => SoleOwner
    BY DEF MapInv
<1>2. QED
    BY MapInvariant, <1>1, PTL

(* Every way out of the constructor, on both platforms and for every       *)
(* failing system call, has closed the handles it opened.                  *)
THEOREM HandlesAreClosed == Spec => []NoHandleLeak
<1>1. MapInv => NoHandleLeak
    BY DEF MapInv, Constructing, NoHandleLeak
<1>2. QED
    BY MapInvariant, <1>1, PTL

(* Only the destructor of its owner, or an assignment of another object    *)
(* over its owner, unmaps a view.                                          *)
THEOREM OwnerUnmaps == Spec => UnmappedOnlyByOwner
<1> DEFINE Owned(a) ==
        /\ last'.op = "destroy" \/ (last'.op = "assign" /\ last'.dst # last'.src)
        /\ data[last'.dst] = a
<1>1. ASSUME MapInv, [Next]_vars, NEW a \in Addresses,
             mapped[a] # 0, mapped'[a] # mapped[a]
      PROVE  Owned(a)
    <2>a. TypeOK /\ SoleOwner /\ alive \subseteq Objects
        BY <1>1 DEF MapInv, TypeOK
    <2>1. ASSUME NEW o \in Objects, release(o)
          PROVE  data[o] = a
        BY <1>1, <2>a, <2>1, ReleaseOwn
    <2>2. CASE Construct
        <3>1. ~MapView
            BY <1>1, <2>a DEF MapView, TypeOK
        <3>2. mapped' = mapped
            BY <1>1, <2>2, <3>1, ConstructorCalls DEF Construct, EmptyFile
        <3>3. QED
            BY <1>1, <3>2
    <2>3. CASE Destroy
        <3>1. PICK o \in alive : release(o) /\ last' = Op("destroy", o, nullptr)
            BY <2>3 DEF Destroy
        <3>2. data[o] = a
            BY <2>a, <2>1, <3>1
        <3>3. QED
            BY <3>1, <3>2 DEF Op
    <2>4. CASE MoveConstruct
        BY <1>1, <2>4 DEF MoveConstruct
    <2>5. CASE MoveAssign
        <3>1. PICK dst \in alive, src \in alive :
                  /\ dst = src => mapped' = mapped
                  /\ dst # src => release(dst)
                  /\ last' = Op("assign", dst, src)
            BY <2>5 DEF MoveAssign
        <3>2. dst # src /\ data[dst] = a
            BY <1>1, <2>a, <2>1, <3>1
        <3>3. QED
            BY <3>1, <3>2 DEF Op
    <2>6. CASE UNCHANGED vars
        BY <1>1, <2>6 DEF vars
    <2>7. QED
        BY <1>1, <2>2, <2>3, <2>4, <2>5, <2>6 DEF Next
<1>2. MapInv /\ [Next]_vars =>
          [\A a \in Addresses : mapped[a] # 0 /\ mapped'[a] # mapped[a] =>
              /\ last'.op = "destroy"
                 \/ (last'.op = "assign" /\ last'.dst # last'.src)
              /\ data[last'.dst] = a]_vars
    BY <1>1
<1>3. QED
    BY MapInvariant, <1>2, PTL DEF Spec, UnmappedOnlyByOwner

-----------------------------------------------------------------------------
(* The readers. *)

LEMMA ObjectsStep == [ObjectsNext]_ovars => [Next]_vars
<1> SUFFICES ASSUME [ObjectsNext]_ovars PROVE [Next]_vars
    OBVIOUS
<1>1. CASE MapMember
    BY <1>1 DEF MapMember, Next
<1>2. CASE skip_prologue
    BY <1>2 DEF skip_prologue
<1>3. CASE PrologueThrows
    BY <1>3 DEF PrologueThrows, Next
<1>4. CASE CallNext
    BY <1>4 DEF CallNext
<1>5. CASE MoveReader
    BY <1>5 DEF MoveReader, Next
<1>6. CASE DestroyReader
    BY <1>6 DEF DestroyReader, Next
<1>7. CASE UNCHANGED ovars
    BY <1>7 DEF ovars
<1>8. QED
    BY <1>1, <1>2, <1>3, <1>4, <1>5, <1>6, <1>7 DEF ObjectsNext

(* The implicit special members of MmapDbnReader, and the constructor that *)
(* throws after map_ was built, use a MemoryMappedFile as any program may: *)
(* what holds of MemoryMappedFile holds of the readers.                    *)
THEOREM ReadersUseTheMap == ObjectsSpec => Spec
<1>1. ObjectsInit => Init
    BY DEF ObjectsInit
<1>2. QED
    BY <1>1, ObjectsStep, PTL DEF ObjectsSpec, Spec

(* The inductive invariant of the readers.  A view shows a file of its     *)
(* length, and the reader that is being built cannot be used yet: its      *)
(* constructor may still throw and unmap.                                  *)
ReaderType ==
    reader \in [Objects -> [usable : BOOLEAN, cursor : Nat, failed : BOOLEAN,
                            stats : IngestStats, file : Seq(Byte),
                            out : Seq(Event)]]

PagesFit ==
    /\ pages \in [Addresses -> Seq(Byte)]
    /\ \A a \in Addresses : mapped[a] # 0 => Len(pages[a]) = mapped[a]

BuildingUnused ==
    building # nullptr =>
        building \in alive /\ ~reader[building].usable /\ ctor.at = "idle"

ObjectsInv ==
    /\ MapInv
    /\ ReaderType
    /\ PagesFit
    /\ BuildingUnused
    /\ CursorInsideView

Inside(o) ==
    /\ data[o] # nullptr /\ mapped[data[o]] = size[o]
    /\ bytes(o) = reader[o].file
    /\ reader[o].cursor \in HeaderSize..size[o]

(* What a reader sees through its view. *)
LEMMA ViewBytes ==
    ASSUME MapInv, PagesFit, NEW o \in Objects, data[o] # nullptr
    PROVE  /\ data[o] \in Addresses /\ o \in alive
           /\ mapped[data[o]] = size[o] /\ size[o] \in Nat
           /\ bytes(o) \in Seq(Byte) /\ Len(bytes(o)) = size[o]
<1>1. /\ data[o] \in Addresses /\ o \in alive
      /\ mapped[data[o]] = size[o] /\ size[o] # 0
    BY OwnerKnowsLength DEF MapInv
<1>2. size[o] \in Nat /\ nullptr \notin Addresses
    BY MapAssumption DEF MapInv, TypeOK
<1>3. pages[data[o]] \in Seq(Byte) /\ Len(pages[data[o]]) = size[o]
    BY <1>1 DEF PagesFit
<1>4. SubSeq(pages[data[o]], 1, size[o]) = pages[data[o]]
    BY <1>3, SubSeqFull
<1>5. bytes(o) = pages[data[o]]
    BY <1>1, <1>2, <1>4 DEF bytes
<1>6. QED
    BY <1>1, <1>2, <1>3, <1>5

(* A reader that took over the members of a usable one is as usable, as    *)
(* long as the pages and the view itself were left alone.                  *)
LEMMA ViewKept ==
    ASSUME ObjectsInv, NEW o \in Objects, NEW p \in Objects, reader[p].usable,
           data'[o] = data[p], size'[o] = size[p],
           reader'[o].file = reader[p].file, reader'[o].cursor = reader[p].cursor,
           mapped'[data[p]] = mapped[data[p]], pages'[data[p]] = pages[data[p]]
    PROVE  Inside(o)'
<1>1. /\ data[p] # nullptr /\ mapped[data[p]] = size[p]
      /\ bytes(p) = reader[p].file
      /\ reader[p].cursor \in HeaderSize..size[p]
    BY DEF ObjectsInv, CursorInsideView
<1>2. bytes(p) = SubSeq(pages[data[p]], 1, size[p])
    BY <1>1 DEF bytes
<1>3. bytes(o)' = SubSeq(pages'[data[p]], 1, size[p])
    BY <1>1 DEF bytes
<1>4. QED
    BY <1>1, <1>2, <1>3 DEF Inside

(* Readers that a step does not touch. *)
LEMMA Untouched ==
    ASSUME ObjectsInv, NEW o \in Objects, reader[o].usable,
           data'[o] = data[o], size'[o] = size[o], reader'[o] = reader[o],
           mapped'[data[o]] = mapped[data[o]], pages'[data[o]] = pages[data[o]]
    PROVE  Inside(o)'
BY ViewKept

LEMMA ObjectsInitially == ObjectsInit => ObjectsInv
<1> SUFFICES ASSUME ObjectsInit PROVE ObjectsInv
    OBVIOUS
<1>1. MapInv
    BY MapInit DEF ObjectsInit
<1>2. NoReader \in [usable : BOOLEAN, cursor : Nat, failed : BOOLEAN,
                    stats : IngestStats, file : Seq(Byte), out : Seq(Event)]
    BY EmptySeq DEF NoReader, NoStats, IngestStats
<1>3. ReaderType
    BY <1>2 DEF ObjectsInit, ReaderType
<1>4. PagesFit
    BY EmptySeq DEF ObjectsInit, Init, PagesFit
<1>5. BuildingUnused
    BY DEF ObjectsInit, BuildingUnused
<1>6. CursorInsideView
    BY DEF ObjectsInit, CursorInsideView, NoReader
<1>7. QED
    BY <1>1, <1>3, <1>4, <1>5, <1>6 DEF ObjectsInv

(* The construction of map_. *)
LEMMA MapMemberStep ==
    ASSUME ObjectsInv, MapMember
    PROVE  ObjectsInv'
<1>a. MapInv /\ PagesFit /\ BuildingUnused /\ CursorInsideView /\ ReaderType
    BY DEF ObjectsInv
<1>b. reader' = reader /\ Construct
    BY DEF MapMember
<1>1. MapInv'
    BY <1>a, <1>b, MapNext DEF Next
<1>2. ReaderType'
    BY <1>a, <1>b DEF ReaderType
<1>c. \A o \in Objects : reader[o].usable => o \in alive /\ data[o] # nullptr
    BY <1>a DEF CursorInsideView, MapInv, SoleOwner
<1>d. ASSUME EmptyFile \/ MapView
      PROVE  /\ building' = ctor.obj /\ ctor.obj \in Objects \ alive
             /\ alive' = alive \cup {ctor.obj} /\ ctor' = Idle
    BY <1>a, <1>d DEF MapMember, EmptyFile, MapView, Op, MapInv, Constructing
<1>3. BuildingUnused'
    <2>1. CASE EmptyFile \/ MapView
        <3>1. ~reader[ctor.obj].usable
            BY <1>c, <1>d, <2>1
        <3>2. QED
            BY <1>b, <1>d, <2>1, <3>1 DEF BuildingUnused, Idle
    <2>2. CASE ~(EmptyFile \/ MapView)
        <3>1. last'.op # "construct"
            BY <1>a, <1>b, <2>2, ConstructorCalls DEF Construct
        <3>2. building' = nullptr
            BY <3>1 DEF MapMember
        <3>3. QED
            BY <3>2 DEF BuildingUnused
    <2>3. QED
        BY <2>1, <2>2
<1>4. PagesFit' /\ CursorInsideView'
    <2>1. CASE MapView
        <3>1. PICK a \in Addresses :
                  /\ mapped[a] = 0
                  /\ mapped' = [mapped EXCEPT ![a] = ctor.st_size]
                  /\ data' = [data EXCEPT ![ctor.obj] = a]
            BY <2>1 DEF MapView
        <3>2. /\ ctor.obj \in Objects \ alive /\ ctor.st_size # 0
              /\ size' = [size EXCEPT ![ctor.obj] = ctor.st_size]
            BY <1>a, <2>1 DEF MapView, MapInv, Constructing
        <3>3. /\ data \in [Objects -> Addresses \cup {nullptr}]
              /\ size \in [Objects -> Nat] /\ mapped \in [Addresses -> Nat]
            BY <1>a DEF MapInv, TypeOK
        <3>4. mapped' # mapped /\ data'[ctor.obj] = a
            BY <3>1, <3>2, <3>3
        <3>5. PICK f \in Files : Len(f) = ctor.st_size /\ pages' = [pages EXCEPT ![a] = f]
            BY <3>4 DEF MapMember
        <3>6. f \in Seq(Byte)
            BY ReaderFilesAssumption
        <3>7. PagesFit'
            BY <1>a, <3>1, <3>3, <3>5, <3>6 DEF PagesFit
        <3>8. ASSUME NEW o \in Objects, reader[o].usable
              PROVE  Inside(o)'
            <4>1. o # ctor.obj /\ data[o] # a /\ data[o] \in Addresses
                BY <1>a, <1>c, <3>1, <3>2, <3>3, <3>8 DEF MapInv, SoleOwner
            <4>2. /\ data'[o] = data[o] /\ size'[o] = size[o]
                  /\ mapped'[data[o]] = mapped[data[o]]
                BY <3>1, <3>2, <3>3, <4>1
            <4>3. pages'[data[o]] = pages[data[o]]
                BY <1>a, <3>5, <4>1 DEF PagesFit
            <4>4. QED
                BY <1>b, <3>8, <4>2, <4>3, Untouched
        <3>9. CursorInsideView'
            BY <1>b, <3>8 DEF CursorInsideView, Inside
        <3>10. QED
            BY <3>7, <3>9
    <2>2. CASE ~MapView
        <3>1. data' = data /\ size' = size /\ mapped' = mapped
            <4>1. CASE EmptyFile
                BY <1>a, <4>1, EmptyFileOwned DEF EmptyFile
            <4>2. CASE ~EmptyFile
                BY <1>a, <1>b, <2>2, <4>2, ConstructorCalls DEF Construct
            <4>3. QED
                BY <4>1, <4>2
        <3>2. pages' = pages
            BY <3>1 DEF MapMember
        <3>3. PagesFit'
            BY <1>a, <3>1, <3>2 DEF PagesFit
        <3>4. CursorInsideView'
            BY <1>a, <1>b, <3>1, <3>2 DEF CursorInsideView, bytes
        <3>5. QED
            BY <3>3, <3>4
    <2>3. QED
        BY <2>1, <2>2
<1>5. QED
    BY <1>1, <1>2, <1>3, <1>4 DEF ObjectsInv

(* A prologue that passes its checks puts the cursor inside the view. *)
LEMMA PrologueStep ==
    ASSUME ObjectsInv, skip_prologue
    PROVE  ObjectsInv'
<1> DEFINE o == building
           b == bytes(building)
           new == [NoReader EXCEPT !.usable = TRUE, !.file = b,
                                   !.cursor = RecordStart(b)]
<1>a. MapInv /\ PagesFit /\ BuildingUnused /\ CursorInsideView /\ ReaderType
    BY DEF ObjectsInv
<1>b. o \in Objects
    BY <1>a DEF skip_prologue, BuildingUnused, MapInv, TypeOK
<1>c. /\ PrologueError(b) = "none" /\ reader' = [reader EXCEPT ![o] = new]
      /\ building' = nullptr /\ UNCHANGED <<vars, pages>>
    BY DEF skip_prologue
<1>d. UNCHANGED <<alive, data, size, mapped, ctor>>
    BY <1>c DEF vars
<1>1. data[o] # nullptr
    <2>1. ASSUME data[o] = nullptr PROVE FALSE
        <3>1. Len(b) = 0
            BY <2>1, EmptySeq DEF bytes
        <3>2. PrologueError(b) = "truncated header"
            BY <3>1 DEF PrologueError, HeaderSize
        <3>3. QED
            BY <1>c, <3>2
    <2>2. QED
        BY <2>1
<1>2. /\ mapped[data[o]] = size[o] /\ size[o] \in Nat
      /\ b \in Seq(Byte) /\ Len(b) = size[o]
    BY <1>a, <1>b, <1>1, ViewBytes
<1> HIDE DEF o, b
<1>3. RecordStart(b) \in Nat /\ RecordStart(b) >= 8 /\ RecordStart(b) <= size[o]
    BY <1>c, <1>2, PrologueGood
<1>4. /\ new.usable /\ new.file = b /\ new.cursor = RecordStart(b)
      /\ new \in [usable : BOOLEAN, cursor : Nat, failed : BOOLEAN,
                  stats : IngestStats, file : Seq(Byte), out : Seq(Event)]
    BY <1>2, <1>3, EmptySeq DEF NoReader, NoStats, IngestStats
<1> HIDE DEF new
<1>5. ReaderType'
    BY <1>a, <1>c, <1>4 DEF ReaderType
<1>6. \A x \in Objects : reader'[x] = IF x = o THEN new ELSE reader[x]
    BY <1>a, <1>c DEF ReaderType
<1>7. MapInv' /\ PagesFit' /\ BuildingUnused'
    <2>1. [Next]_vars
        BY <1>c
    <2>2. MapInv'
        BY <1>a, <2>1, MapNext
    <2>3. QED
        BY <1>a, <1>c, <1>d, <2>2 DEF PagesFit, BuildingUnused
<1>8. ASSUME NEW x \in Objects, reader'[x].usable
      PROVE  Inside(x)'
    <2>1. CASE x = o
        <3>1. bytes(x)' = b
            BY <1>c, <1>d, <2>1 DEF bytes, b, o
        <3>2. reader'[x].file = b /\ reader'[x].cursor \in HeaderSize..size[o]
            BY <1>2, <1>3, <1>4, <1>6, <2>1 DEF HeaderSize
        <3>3. QED
            BY <1>d, <1>1, <1>2, <2>1, <3>1, <3>2 DEF Inside
    <2>2. CASE x # o
        <3>1. reader'[x] = reader[x] /\ pages' = pages
            BY <1>c, <1>6, <2>2
        <3>2. QED
            BY <1>d, <1>8, <3>1, Untouched
    <2>3. QED
        BY <2>1, <2>2
<1>9. CursorInsideView'
    BY <1>8 DEF CursorInsideView, Inside
<1>10. QED
    BY <1>5, <1>7, <1>9 DEF ObjectsInv

(* A reader that is destroyed takes its view with it, and no usable reader *)
(* has that view.  The reader is one that nobody uses afterwards: either   *)
(* its constructor threw or its members are gone.                          *)
LEMMA DestroyStep ==
    ASSUME ObjectsInv, Destroy, pages' = pages, building' = nullptr,
           ReaderType',
           \A x \in Objects : reader'[x].usable =>
               x # last'.dst /\ reader'[x] = reader[x]
    PROVE  ObjectsInv'
<1>a. MapInv /\ PagesFit /\ CursorInsideView /\ TypeOK /\ SoleOwner
    BY DEF ObjectsInv, MapInv
<1>1. PICK o \in alive : /\ release(o)
                         /\ data' = [data EXCEPT ![o] = nullptr]
                         /\ size' = [size EXCEPT ![o] = 0]
                         /\ last' = Op("destroy", o, nullptr)
    BY DEF Destroy
<1>2. o \in Objects /\ last'.dst = o
    BY <1>a, <1>1 DEF TypeOK, Op
<1>3. \A a \in Addresses : mapped'[a] = IF a = data[o] THEN 0 ELSE mapped[a]
    BY <1>a, <1>1, <1>2, ReleaseOwn
<1>4. MapInv'
    BY <1>a, MapNext DEF Next
<1>5. PagesFit' /\ BuildingUnused'
    BY <1>a, <1>3 DEF PagesFit, BuildingUnused
<1>6. ASSUME NEW x \in Objects, reader'[x].usable
      PROVE  Inside(x)'
    <2>1. x # o /\ reader'[x] = reader[x] /\ reader[x].usable
        BY <1>2, <1>6
    <2>2. data[x] # nullptr
        BY <1>a, <2>1 DEF CursorInsideView
    <2>3. data[x] \in Addresses /\ data[x] # data[o]
        BY <1>a, <1>2, <2>1, <2>2, OwnerKnowsLength
    <2>4. data'[x] = data[x] /\ size'[x] = size[x]
        BY <1>a, <1>1, <2>1 DEF TypeOK
    <2>5. mapped'[data[x]] = mapped[data[x]]
        BY <1>3, <2>3
    <2>6. QED
        BY <2>1, <2>4, <2>5, Untouched
<1>7. CursorInsideView'
    BY <1>6 DEF CursorInsideView, Inside
<1>8. QED
    BY <1>4, <1>5, <1>7 DEF ObjectsInv

LEMMA DestroySteps ==
    ASSUME ObjectsInv, PrologueThrows \/ DestroyReader
    PROVE  ObjectsInv'
<1>a. ReaderType /\ BuildingUnused /\ TypeOK
    BY DEF ObjectsInv, MapInv
<1>1. CASE PrologueThrows
    <2>1. /\ Destroy /\ pages' = pages /\ building' = nullptr
          /\ reader' = reader /\ last'.dst = building
          /\ ~reader[building].usable
        BY <1>a, <1>1 DEF PrologueThrows, BuildingUnused
    <2>2. ReaderType'
        BY <1>a, <2>1 DEF ReaderType
    <2>3. QED
        BY <2>1, <2>2, DestroyStep
<1>2. CASE DestroyReader
    <2>1. /\ Destroy /\ pages' = pages /\ building' = nullptr
          /\ reader' = [reader EXCEPT ![last'.dst] = NoReader]
        BY <1>2 DEF DestroyReader
    <2>2. ReaderType'
        <3>1. NoReader \in [usable : BOOLEAN, cursor : Nat, failed : BOOLEAN,
                            stats : IngestStats, file : Seq(Byte),
                            out : Seq(Event)]
            BY EmptySeq DEF NoReader, NoStats, IngestStats
        <3>2. QED
            BY <1>a, <2>1, <3>1 DEF ReaderType
    <2>3. \A x \in Objects : reader'[x].usable =>
              x # last'.dst /\ reader'[x] = reader[x]
        BY <1>a, <2>1 DEF ReaderType, NoReader
    <2>4. QED
        BY <2>1, <2>2, <2>3, DestroyStep
<1>3. QED
    BY <1>1, <1>2

(* next() moves the cursor over whole records, so it stays in the view. *)
LEMMA CallNextStep ==
    ASSUME ObjectsInv, CallNext
    PROVE  ObjectsInv'
<1>a. MapInv /\ PagesFit /\ BuildingUnused /\ CursorInsideView /\ ReaderType
    BY DEF ObjectsInv
<1>b. UNCHANGED <<vars, pages, building>> /\ building = nullptr
    BY DEF CallNext
<1>c. UNCHANGED <<alive, data, size, mapped, ctor, pages>>
    BY <1>b DEF vars
<1>1. PICK o \in alive : /\ reader[o].usable
                         /\ NextRecord(o) \/ NextCorrupt(o) \/ NextEnd(o)
    BY DEF CallNext
<1>2. /\ o \in Objects /\ data[o] # nullptr
      /\ reader[o].cursor \in HeaderSize..size[o]
    BY <1>a, <1>1 DEF MapInv, TypeOK, CursorInsideView
<1>3. size[o] \in Nat /\ bytes(o) \in Seq(Byte) /\ Len(bytes(o)) = size[o]
    BY <1>a, <1>2, ViewBytes
<1> DEFINE r == frame_one(rest(o))
           c == reader[o].cursor
<1>4. c \in Nat /\ c >= 8 /\ c <= size[o]
    BY <1>2, <1>3 DEF HeaderSize
<1>5. rest(o) \in Seq(Byte) /\ Len(rest(o)) = size[o] - c
    BY <1>3, <1>4, Slice DEF rest
<1>6. r.record_size \in Nat /\ r.record_size <= size[o] - c
    BY <1>5, FrameOne
<1>7. /\ reader' \in [Objects -> [usable : BOOLEAN, cursor : Nat,
                                  failed : BOOLEAN, stats : IngestStats,
                                  file : Seq(Byte), out : Seq(Event)]]
      /\ \A x \in Objects \ {o} : reader'[x] = reader[x]
      /\ reader'[o].file = reader[o].file
      /\ reader'[o].cursor \in {c, c + r.record_size}
    <2>1. CASE NextRecord(o)
        <3> DEFINE routed == route_record(SubSeq(rest(o), 1, r.record_size))
                   old == reader[o]
                   new == [old EXCEPT !.cursor = @ + r.record_size,
                                      !.stats = tally(@, routed),
                                      !.out = IF routed.outcome = "Emit"
                                              THEN Append(@, routed.event) ELSE @]
        <3>1. reader' = [reader EXCEPT
                  ![o].cursor = @ + r.record_size,
                  ![o].stats = tally(@, routed),
                  ![o].out = IF routed.outcome = "Emit"
                             THEN Append(@, routed.event) ELSE @]
            BY <2>1 DEF NextRecord
        <3>2. SubSeq(rest(o), 1, r.record_size) \in Seq(Byte)
            <4>1. r.record_size <= Len(rest(o)) /\ 0 \in Nat
                BY <1>5, <1>6
            <4>2. SubSeq(rest(o), 0 + 1, r.record_size) \in Seq(Byte)
                BY <1>5, <1>6, <4>1, Slice
            <4>3. QED
                BY <4>2
        <3>3. /\ routed.outcome \in {"Emit", "SkipNonMbo", "SkipMalformed"}
              /\ routed.outcome = "Emit" => routed.event \in Event
            BY <3>2, RouteRecord
        <3>4. old \in [usable : BOOLEAN, cursor : Nat, failed : BOOLEAN,
                       stats : IngestStats, file : Seq(Byte), out : Seq(Event)]
            BY <1>a, <1>2 DEF ReaderType
        <3> HIDE DEF routed, r
        <3>5. tally(old.stats, routed) \in IngestStats
            BY <3>3, <3>4, Tally
        <3>6. (IF routed.outcome = "Emit" THEN Append(old.out, routed.event)
               ELSE old.out) \in Seq(Event)
            BY <3>3, <3>4, AppendProperties
        <3>7. c + r.record_size \in Nat
            BY <1>4, <1>6
        <3>8. /\ new \in [usable : BOOLEAN, cursor : Nat, failed : BOOLEAN,
                          stats : IngestStats, file : Seq(Byte), out : Seq(Event)]
              /\ new.file = old.file /\ new.cursor = c + r.record_size
            BY <3>4, <3>5, <3>6, <3>7
        <3>9. reader' = [reader EXCEPT ![o] = new]
            BY <1>a, <1>2, <3>1 DEF ReaderType
        <3> HIDE DEF new
        <3>10. QED
            BY <1>a, <1>2, <3>8, <3>9 DEF ReaderType
    <2>2. CASE NextCorrupt(o)
        <3>1. reader' = [reader EXCEPT ![o].failed = TRUE]
            BY <2>2 DEF NextCorrupt
        <3>2. QED
            BY <1>a, <1>2, <3>1 DEF ReaderType
    <2>3. CASE NextEnd(o)
        BY <1>a, <2>3 DEF NextEnd, ReaderType
    <2>4. QED
        BY <1>1, <2>1, <2>2, <2>3
<1> HIDE DEF r
<1>8. MapInv' /\ PagesFit' /\ BuildingUnused'
    <2>1. [Next]_vars
        BY <1>b
    <2>2. MapInv'
        BY <1>a, <2>1, MapNext
    <2>3. QED
        BY <1>a, <1>b, <1>c, <2>2 DEF PagesFit, BuildingUnused
<1>9. Inside(o)'
    <2>1. reader'[o].cursor \in HeaderSize..size[o]
        <3>1. c + r.record_size \in 8..size[o] /\ c \in 8..size[o]
            BY <1>3, <1>4, <1>6
        <3>2. QED
            BY <1>7, <3>1 DEF HeaderSize
    <2>2. bytes(o)' = bytes(o)
        BY <1>c DEF bytes
    <2>3. bytes(o) = reader[o].file /\ mapped[data[o]] = size[o]
        BY <1>a, <1>1, <1>2 DEF CursorInsideView
    <2>4. QED
        BY <1>c, <1>2, <1>7, <2>1, <2>2, <2>3 DEF Inside
<1>10. ASSUME NEW x \in Objects \ {o}, reader'[x].usable
       PROVE  Inside(x)'
    BY <1>c, <1>7, <1>10, Untouched
<1>11. CursorInsideView'
    BY <1>9, <1>10 DEF CursorInsideView, Inside
<1>12. QED
    BY <1>7, <1>8, <1>11 DEF ObjectsInv, ReaderType

(* A move takes the view along with the cursor: the reader moved to sees   *)
(* what the reader moved from saw, and the one moved from is not used.     *)
LEMMA MoveReaderStep ==
    ASSUME ObjectsInv, MoveReader
    PROVE  ObjectsInv'
<1>a. /\ MapInv /\ PagesFit /\ BuildingUnused /\ CursorInsideView /\ ReaderType
      /\ TypeOK /\ SoleOwner /\ alive \subseteq Objects
    BY DEF ObjectsInv, MapInv, TypeOK
<1>b. /\ MoveConstruct \/ MoveAssign
      /\ building = nullptr /\ UNCHANGED <<pages, building>>
      /\ reader' = Moved(last'.dst, last'.src)
    BY DEF MoveReader
<1>1. MapInv'
    BY <1>a, <1>b, MapNext DEF Next
<1>2. BuildingUnused'
    BY <1>b DEF BuildingUnused
<1>3. PICK dst \in Objects, src \in alive :
          /\ last'.dst = dst /\ last'.src = src
          /\ dst = src => UNCHANGED <<data, size, mapped, fault>>
          /\ dst # src =>
                /\ release(dst)
                /\ data' = [data EXCEPT ![dst] = data[src], ![src] = nullptr]
                /\ size' = [size EXCEPT ![dst] = size[src], ![src] = 0]
                /\ alive' = alive \cup {dst}
    <2>1. CASE MoveConstruct
        <3>1. PICK dst \in Objects \ alive, src \in alive :
                  /\ data' = [data EXCEPT ![dst] = data[src], ![src] = nullptr]
                  /\ size' = [size EXCEPT ![dst] = size[src], ![src] = 0]
                  /\ alive' = alive \cup {dst}
                  /\ last' = Op("move", dst, src)
            BY <2>1 DEF MoveConstruct
        <3>2. data[dst] = nullptr
            BY <1>a DEF SoleOwner
        <3>3. release(dst) /\ dst # src
            BY <2>1, <3>2 DEF MoveConstruct, release
        <3>4. QED
            BY <3>1, <3>3 DEF Op
    <2>2. CASE MoveAssign
        <3>1. PICK dst \in alive, src \in alive :
                  /\ IF dst = src THEN UNCHANGED <<data, size, mapped, fault>>
                     ELSE /\ release(dst)
                          /\ data' = [data EXCEPT ![dst] = data[src],
                                                  ![src] = nullptr]
                          /\ size' = [size EXCEPT ![dst] = size[src], ![src] = 0]
                  /\ last' = Op("assign", dst, src)
            BY <2>2 DEF MoveAssign
        <3>2. alive' = alive \cup {dst} /\ dst \in Objects
            BY <1>a, <2>2 DEF MoveAssign
        <3>3. QED
            BY <3>1, <3>2 DEF Op
    <2>3. QED
        BY <1>b, <2>1, <2>2
<1>4. CASE dst = src
    <2>1. reader' = reader /\ UNCHANGED <<data, size, mapped, pages>>
        BY <1>b, <1>3, <1>4 DEF Moved
    <2>2. ReaderType' /\ PagesFit'
        BY <1>a, <2>1 DEF ReaderType, PagesFit
    <2>3. CursorInsideView'
        BY <1>a, <2>1 DEF CursorInsideView, bytes
    <2>4. QED
        BY <1>1, <1>2, <2>2, <2>3 DEF ObjectsInv
<1>5. CASE dst # src
    <2>1. /\ \A x \in Objects : data'[x] = IF x = dst THEN data[src]
                                           ELSE IF x = src THEN nullptr
                                           ELSE data[x]
          /\ \A x \in Objects : size'[x] = IF x = dst THEN size[src]
                                           ELSE IF x = src THEN 0 ELSE size[x]
          /\ \A a \in Addresses :
                mapped'[a] = IF a = data[dst] THEN 0 ELSE mapped[a]
        <3>1. /\ release(dst)
              /\ data' = [data EXCEPT ![dst] = data[src], ![src] = nullptr]
              /\ size' = [size EXCEPT ![dst] = size[src], ![src] = 0]
              /\ alive' = alive \cup {dst}
            BY <1>3, <1>5
        <3>2. TypeOK /\ SoleOwner
            BY <1>a
        <3>3. QED
            BY <1>5, <3>1, <3>2, MoveOwned
    <2>2. reader' = [reader EXCEPT ![dst] = reader[src], ![src].usable = FALSE]
        BY <1>b, <1>3, <1>5 DEF Moved
    <2>3. src \in Objects
        BY <1>a
    <2>4. /\ ReaderType'
          /\ reader'[dst] = reader[src] /\ ~reader'[src].usable
          /\ \A x \in Objects \ {dst, src} : reader'[x] = reader[x]
        BY <1>a, <1>5, <2>2, <2>3 DEF ReaderType
    <2>5. PagesFit'
        BY <1>a, <1>b, <2>1 DEF PagesFit
    <2>6. ASSUME NEW x \in Objects, reader'[x].usable
          PROVE  Inside(x)'
        <3>1. PICK p \in Objects : /\ p # dst /\ reader'[x] = reader[p]
                                   /\ data'[x] = data[p] /\ size'[x] = size[p]
            <4>1. CASE x = dst
                BY <1>5, <2>1, <2>3, <2>4, <4>1
            <4>2. CASE x # dst
                <5>1. x # src
                    BY <2>4, <2>6
                <5>2. QED
                    BY <2>1, <2>4, <4>2, <5>1
            <4>3. QED
                BY <4>1, <4>2
        <3>2. reader[p].usable
            BY <2>6, <3>1
        <3>3. data[p] # nullptr
            BY <1>a, <3>2 DEF CursorInsideView
        <3>4. data[p] \in Addresses /\ data[p] # data[dst]
            BY <1>a, <3>1, <3>3, OwnerKnowsLength
        <3>5. mapped'[data[p]] = mapped[data[p]] /\ pages' = pages
            BY <1>b, <2>1, <3>4
        <3>6. QED
            BY <3>1, <3>2, <3>5, ViewKept
    <2>7. CursorInsideView'
        BY <2>6 DEF CursorInsideView, Inside
    <2>8. QED
        BY <1>1, <1>2, <2>4, <2>5, <2>7 DEF ObjectsInv
<1>6. QED
    BY <1>4, <1>5

LEMMA ObjectsNextStep == ObjectsInv /\ [ObjectsNext]_ovars => ObjectsInv'
<1> SUFFICES ASSUME ObjectsInv, [ObjectsNext]_ovars PROVE ObjectsInv'
    OBVIOUS
<1>1. CASE UNCHANGED ovars
    <2>1. UNCHANGED <<vars, pages, building, reader>>
        BY <1>1 DEF ovars
    <2>2. UNCHANGED <<alive, data, size, mapped, ctor>>
        BY <2>1 DEF vars
    <2>3. [Next]_vars
        BY <2>1
    <2>4. MapInv'
        BY <2>3, MapNext DEF ObjectsInv
    <2>5. QED
        BY <2>1, <2>2, <2>4 DEF ObjectsInv, ReaderType, PagesFit, BuildingUnused,
                                CursorInsideView, bytes
<1>2. QED
    BY <1>1, MapMemberStep, PrologueStep, DestroySteps, CallNextStep,
       MoveReaderStep DEF ObjectsNext

(* The subspan(cursor_) of next() stays inside a view that shows the file  *)
(* the reader was opened on, whatever was constructed, moved, assigned     *)
(* over or destroyed before, for every reader that was not moved from.     *)
THEOREM CursorFollowsView == ObjectsSpec => []CursorInsideView
<1>1. ObjectsInv => CursorInsideView
    BY DEF ObjectsInv
<1>2. QED
    BY ObjectsInitially, ObjectsNextStep, <1>1, PTL DEF ObjectsSpec

-----------------------------------------------------------------------------
(* The streams.  The decoding of the reference belongs to a stream and not *)
(* to an object: a move takes cursor_, stats_ and the history along, and   *)
(* no reader that may be used shares its stream with another one.          *)
StreamsDecoded ==
    \A o \in Objects : reader[o].usable =>
        Decoded(reader[o].file, reader[o].cursor, reader[o].out, reader[o].stats)

(* A step after which every usable reader is what a usable one was. *)
LEMMA StreamsCarried ==
    ASSUME StreamsDecoded,
           \A o \in Objects : reader'[o].usable =>
               \E p \in Objects :
                  /\ reader[p].usable
                  /\ reader'[o].file = reader[p].file
                  /\ reader'[o].cursor = reader[p].cursor
                  /\ reader'[o].out = reader[p].out
                  /\ reader'[o].stats = reader[p].stats
    PROVE  StreamsDecoded'
BY DEF StreamsDecoded

(* A stream begins where the prologue ends. *)
LEMMA StreamBegins ==
    ASSUME ObjectsInv, StreamsDecoded, skip_prologue
    PROVE  StreamsDecoded'
<1> DEFINE b == bytes(building)
           new == [NoReader EXCEPT !.usable = TRUE, !.file = b,
                                   !.cursor = RecordStart(b)]
<1>1. /\ PrologueError(b) = "none" /\ reader' = [reader EXCEPT ![building] = new]
    BY DEF skip_prologue
<1>2. building \in Objects /\ MapInv /\ PagesFit /\ ReaderType
    BY DEF ObjectsInv, skip_prologue, BuildingUnused, MapInv, TypeOK
<1>3. b \in Seq(Byte)
    BY <1>2, ViewBytes, EmptySeq DEF bytes
<1> HIDE DEF b
<1>4. /\ new.file = b /\ new.cursor = RecordStart(b)
      /\ new.out = <<>> /\ new.stats = NoStats
    BY DEF NoReader
<1> HIDE DEF new
<1>5. Decoded(new.file, new.cursor, new.out, new.stats)
    BY <1>1, <1>3, <1>4, DecodedStart
<1>6. \A o \in Objects : reader'[o] = IF o = building THEN new ELSE reader[o]
    BY <1>1, <1>2 DEF ReaderType
<1>7. QED
    BY <1>5, <1>6 DEF StreamsDecoded

(* next() takes one stream one record further. *)
LEMMA StreamGoesOn ==
    ASSUME ObjectsInv, StreamsDecoded, CallNext
    PROVE  StreamsDecoded'
<1>a. MapInv /\ PagesFit /\ CursorInsideView /\ ReaderType
    BY DEF ObjectsInv
<1>1. PICK o \in alive : /\ reader[o].usable
                         /\ NextRecord(o) \/ NextCorrupt(o) \/ NextEnd(o)
    BY DEF CallNext
<1>2. /\ o \in Objects /\ data[o] # nullptr /\ bytes(o) = reader[o].file
      /\ reader[o].cursor \in HeaderSize..size[o]
    BY <1>a, <1>1 DEF MapInv, TypeOK, CursorInsideView
<1>3. size[o] \in Nat /\ bytes(o) \in Seq(Byte) /\ Len(bytes(o)) = size[o]
    BY <1>a, <1>2, ViewBytes
<1>4. CASE NextRecord(o)
    <2> DEFINE f == reader[o].file
               c == reader[o].cursor
               n == frame_one(rest(o)).record_size
               routed == route_record(SubSeq(rest(o), 1, n))
    <2>1. /\ frame_one(rest(o)).status = "Ok"
          /\ reader' = [reader EXCEPT
                ![o].cursor = @ + n, ![o].stats = tally(@, routed),
                ![o].out = IF routed.outcome = "Emit"
                           THEN Append(@, routed.event) ELSE @]
        BY <1>4 DEF NextRecord
    <2>2. f \in Seq(Byte) /\ Len(f) = size[o] /\ rest(o) = SubSeq(f, c + 1, Len(f))
        BY <1>2, <1>3 DEF rest
    <2>3. Decoded(f, c, reader[o].out, reader[o].stats)
        BY <1>1, <1>2 DEF StreamsDecoded
    <2>4. c \in Nat /\ c <= Len(f) /\ n \in Nat /\ n <= Len(f) - c
        <3>1. c \in Nat /\ c <= Len(f)
            BY <1>2, <1>3, <2>2 DEF HeaderSize
        <3>2. rest(o) \in Seq(Byte) /\ Len(rest(o)) = Len(f) - c
            BY <1>3, <2>2, <3>1, Slice
        <3>3. QED
            BY <3>1, <3>2, FrameOne
    <2>5. SubSeq(rest(o), 1, n) = SubSeq(f, c + 1, c + n)
        BY <2>2, <2>4, FirstBytes
    <2>6. Decoded(f, c + n,
                  IF routed.outcome = "Emit" THEN Append(reader[o].out, routed.event)
                  ELSE reader[o].out,
                  tally(reader[o].stats, routed))
        BY <2>1, <2>2, <2>3, <2>5, DecodedStep
    <2> HIDE DEF n, routed
    <2>7. /\ reader'[o].file = f /\ reader'[o].cursor = c + n
          /\ reader'[o].stats = tally(reader[o].stats, routed)
          /\ reader'[o].out = IF routed.outcome = "Emit"
                              THEN Append(reader[o].out, routed.event)
                              ELSE reader[o].out
          /\ \A x \in Objects \ {o} : reader'[x] = reader[x]
        BY <1>a, <1>2, <2>1 DEF ReaderType
    <2>8. QED
        BY <2>6, <2>7 DEF StreamsDecoded
<1>5. CASE NextCorrupt(o)
    <2>1. /\ reader'[o].file = reader[o].file /\ reader'[o].cursor = reader[o].cursor
          /\ reader'[o].out = reader[o].out /\ reader'[o].stats = reader[o].stats
          /\ \A x \in Objects \ {o} : reader'[x] = reader[x]
        BY <1>a, <1>2, <1>5 DEF NextCorrupt, ReaderType
    <2>2. QED
        BY <1>1, <1>2, <2>1, StreamsCarried
<1>6. CASE NextEnd(o)
    BY <1>6 DEF NextEnd, StreamsDecoded
<1>7. QED
    BY <1>1, <1>4, <1>5, <1>6

LEMMA StreamsNext ==
    ObjectsInv /\ StreamsDecoded /\ [ObjectsNext]_ovars => StreamsDecoded'
<1> SUFFICES ASSUME ObjectsInv, StreamsDecoded, [ObjectsNext]_ovars
             PROVE  StreamsDecoded'
    OBVIOUS
<1>a. ReaderType /\ alive \subseteq Objects
    BY DEF ObjectsInv, MapInv, TypeOK
<1>1. CASE MapMember \/ PrologueThrows \/ UNCHANGED ovars
    <2>1. reader' = reader
        BY <1>1 DEF MapMember, PrologueThrows, ovars
    <2>2. QED
        BY <2>1 DEF StreamsDecoded
<1>2. CASE MoveReader
    <2>1. reader' = Moved(last'.dst, last'.src) /\ (MoveConstruct \/ MoveAssign)
        BY <1>2 DEF MoveReader
    <2>2. PICK dst \in Objects, src \in Objects : last'.dst = dst /\ last'.src = src
        BY <1>a, <2>1 DEF MoveConstruct, MoveAssign, Op
    <2>3. CASE dst = src
        BY <2>1, <2>2, <2>3 DEF Moved, StreamsDecoded
    <2>4. CASE dst # src
        <3>1. reader' = [reader EXCEPT ![dst] = reader[src], ![src].usable = FALSE]
            BY <2>1, <2>2, <2>4 DEF Moved
        <3>2. /\ reader'[dst] = reader[src] /\ ~reader'[src].usable
              /\ \A x \in Objects \ {dst, src} : reader'[x] = reader[x]
            BY <1>a, <2>4, <3>1 DEF ReaderType
        <3>3. QED
            BY <3>2, StreamsCarried
    <2>5. QED
        BY <2>3, <2>4
<1>3. CASE DestroyReader
    <2>1. reader' = [reader EXCEPT ![last'.dst] = NoReader]
        BY <1>3 DEF DestroyReader
    <2>2. \A x \in Objects : reader'[x].usable => reader'[x] = reader[x]
        BY <1>a, <2>1 DEF ReaderType, NoReader
    <2>3. QED
        BY <2>2, StreamsCarried
<1>4. QED
    BY <1>1, <1>2, <1>3, StreamBegins, StreamGoesOn DEF ObjectsNext

(* A stream survives the moves of its reader: whatever chain of objects it *)
(* went through, the Events returned and the counters are the decoding of  *)
(* its file up to the cursor (the implicit moves of MmapDbnReader).        *)
THEOREM StreamsSurviveMoves == ObjectsSpec => []MoveKeepsStream
<1>1. ObjectsInit => StreamsDecoded
    BY DEF ObjectsInit, StreamsDecoded, NoReader
<1>2. StreamsDecoded => MoveKeepsStream
    BY DEF StreamsDecoded, MoveKeepsStream, Decoded
<1>3. QED
    BY <1>1, <1>2, ObjectsInitially, ObjectsNextStep, StreamsNext, PTL DEF ObjectsSpec

=============================================================================
