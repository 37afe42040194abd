----------------------------- MODULE Reference -----------------------------
(***************************************************************************)
(* What a DBN file says, defined on the file as a whole and without the    *)
(* framer, the router, the converter or the counters: the set of positions *)
(* at which a record begins, and the records among them that are           *)
(* well-formed market-by-order records.                                    *)
(***************************************************************************)
EXTENDS Dbn, FiniteSets

RecordLen(f, p) == 4 * f[p + 1]

(* A whole record begins at p. *)
IsWhole(f, p) == p < Len(f) /\ f[p + 1] # 0 /\ p + RecordLen(f, p) <= Len(f)

(* Where the next record begins, if there is one at p. *)
After(f, p) == IF IsWhole(f, p) THEN p + RecordLen(f, p) ELSE p

(* Walk[n]: the position n records after the prologue, or the position at  *)
(* which there is no whole record any more.  A record is four bytes or     *)
(* more, so Len(f) \div 4 steps reach it.                                  *)
Boundaries(f) ==
    LET Walk[n \in 0..(Len(f) \div 4)] ==
            IF n = 0 THEN RecordStart(f) ELSE After(f, Walk[n - 1])
    IN  {Walk[n] : n \in 0..(Len(f) \div 4)}

(* The records that begin before upto and are whole. *)
RecordsBefore(f, upto) == {p \in Boundaries(f) : p < upto /\ IsWhole(f, p)}

IsMbo(f, p) == f[p + 2] = 160 /\ RecordLen(f, p) = SizeofWireMbo

FieldAt(f, p, name) == SubSeq(f, p + Offset[name] + 1, p + Offset[name] + Width[name])

IsWellFormed(f, p) ==
    /\ IsMbo(f, p)
    /\ FieldAt(f, p, "action")[1] \in {65, 67, 70, 77, 82, 84}
    /\ FieldAt(f, p, "side")[1] \in {65, 66, 78}

(* The number of Events of the file. *)
EventCount(f) == Cardinality({p \in RecordsBefore(f, Len(f)) : IsWellFormed(f, p)})

(* events is the decoding of the records of f before upto, in file order,  *)
(* and stats counts them.                                                  *)
IsDecoding(f, upto, events, stats) ==
    LET R == RecordsBefore(f, upto)
        E == {p \in R : IsWellFormed(f, p)}
    IN  /\ Len(events) = Cardinality(E)
        /\ \A p \in E : \A name \in EventFields :
              events[Cardinality({q \in E : q <= p})][name] = FieldAt(f, p, name)
        /\ stats.records = Cardinality(R)
        /\ stats.events = Cardinality(E)
        /\ stats.skipped_non_mbo = Cardinality({p \in R : ~IsMbo(f, p)})
        /\ stats.skipped_malformed = Cardinality({p \in R : IsMbo(f, p)} \ E)

=============================================================================
