------------------------------ MODULE Samples ------------------------------
(***************************************************************************)
(* Small layouts and files for model checking: constant values only.  The  *)
(* small layout is an 8-byte market-by-order record that keeps one byte of *)
(* each kind of field; the fields it has no room for have width 0.         *)
(***************************************************************************)
EXTENDS Integers, Sequences, FiniteSets

Fields == {"length", "rtype", "publisher_id", "instrument_id", "ts_event",
           "order_id", "price", "size", "flags", "channel_id", "action",
           "side", "ts_recv", "ts_in_delta", "sequence"}

SmallOffset ==
    [f \in Fields |->
        CASE f = "rtype" -> 1 [] f = "instrument_id" -> 2 [] f = "action" -> 3
          [] f = "side" -> 4 [] f = "order_id" -> 5 [] f = "price" -> 6
          [] f = "sequence" -> 7 [] OTHER -> 0]

SmallWidth ==
    [f \in Fields |->
        IF f \in {"length", "rtype", "instrument_id", "action", "side",
                  "order_id", "price", "sequence"} THEN 1 ELSE 0]

(* Records of the small layout. *)
Add       == <<2, 160, 9, 65, 66, 1, 30, 5>>
Clear     == <<2, 160, 9, 82, 78, 2, 31, 6>>
BadAction == <<2, 160, 9, 88, 66, 3, 32, 7>>
BadSide   == <<2, 160, 9, 65, 67, 4, 33, 8>>
Other     == <<1, 23, 2, 160>>                     \* another record type
LongMbo   == <<3, 160, 9, 65, 66, 6, 34, 9, 2, 160, 9, 65>>
ShortMbo  == <<1, 160, 9, 65>>
Zero      == <<0, 160, 2, 160>>
Longest   == <<255, 160, 9, 65>>                   \* the start of 1020 bytes

Prologue(version, metadata_len, metadata) ==
    <<68, 66, 78, version, metadata_len, 0, 0, 0>> \o metadata

Prefixes(s) == {SubSeq(s, 1, n) : n \in 0..Len(s)}

Cuts(S) == UNION {Prefixes(s) : s \in S}

(* Every file of at most two records, and a few longer ones, cut anywhere. *)
Bodies ==
    LET T == {Add, Clear, BadAction, BadSide, Other, LongMbo, ShortMbo, Zero,
              Longest}
    IN  Cuts({s \o t : s \in T, t \in T}
             \cup {Other \o BadSide \o Add, ShortMbo \o Add \o Clear,
                   Add \o Clear \o Zero \o Add, LongMbo \o BadAction \o Clear})

(* Prologues that are cut, wrong, or promise more metadata than there is. *)
BadFiles ==
    Cuts({Prologue(1, 3, <<7, 7, 7>>)}) \cup
    {Prologue(2, 0, Add), Prologue(0, 2, <<7, 7>> \o Add),
     <<68, 66, 79, 1, 0, 0, 0, 0>> \o Add, <<40, 66, 78, 2, 0, 0, 0, 0>>,
     <<68, 67, 78, 1, 0, 0, 0, 0>>, <<68, 66, 78, 1, 1, 1, 0, 0, 7, 7>>}

SmallFiles ==
    BadFiles
    \cup {Prologue(1, 0, b) : b \in Bodies}
    \cup {Prologue(1, 2, <<1, 160>> \o b) : b \in Cuts({Other \o Add, Add \o Zero})}

=============================================================================
