------------------------------ MODULE MCDbnV1 ------------------------------
(* DbnReader with the real DBN v1 layout: 56-byte records, and chunks that *)
(* end just before, at and just after a record boundary.                   *)
EXTENDS MCDbnReader

(* The static_asserts of dbn.hpp: the fields tile the 56 bytes. *)
ASSUME V1LayoutTiles ==
    \A b \in 0..(SizeofWireMbo - 1) :
        Cardinality({f \in WireMbo : b \in Offset[f]..(Offset[f] + Width[f] - 1)}) = 1

(* A record whose bytes are all told apart, with the given action, side. *)
Mbo(action, side, seed) ==
    [i \in 1..56 |-> CASE i = 1 -> 14 [] i = 2 -> 160 [] i = 39 -> action
                       [] i = 40 -> side [] OTHER -> (i + seed) % 256]

Instrument == <<4, 24>> \o [i \in 1..14 |-> 14]

V1Files ==
    {Prologue(1, 5, <<14, 160, 14, 160, 14>> \o b) :
        b \in {Mbo(65, 66, 0) \o Instrument \o Mbo(70, 65, 100),
               Mbo(84, 78, 7) \o Mbo(65, 80, 50) \o SubSeq(Mbo(67, 66, 9), 1, 55),
               Mbo(82, 78, 3) \o <<0, 160>> \o Mbo(77, 66, 60)}}

(* What event.hpp says of the wire fields an Event does not keep: they are *)
(* validated at parse time.  So for each of them some value makes          *)
(* route_record reject the record.                                         *)
WireConcerns ==
    {"rtype", "publisher_id", "instrument_id", "channel_id", "ts_in_delta"}

WireConcernsValidated ==
    (pc = "route" /\ route_record(Bytes(view)).outcome = "Emit") =>
        \A f \in WireConcerns : \E b \in Byte :
            LET changed == [Bytes(view) EXCEPT ![Offset[f] + 1] = b]
            IN  route_record(changed).outcome # "Emit"

=============================================================================
