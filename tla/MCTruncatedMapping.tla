------------------------- MODULE MCTruncatedMapping -------------------------
(* Files of one to three pages, truncated anywhere and more than once. *)
EXTENDS TruncatedMapping, Samples

TruncatedFiles ==
    {Prologue(1, 0, Add \o Clear \o Add), Prologue(1, 0, Other \o Add \o BadSide),
     Prologue(1, 3, <<7, 7, 7>> \o Clear \o Other \o Add),
     Prologue(1, 0, LongMbo \o Add \o SubSeq(Add, 1, 3)),
     Prologue(1, 2, <<1>>), Prologue(1, 0, Add \o <<2>>)}

=============================================================================
