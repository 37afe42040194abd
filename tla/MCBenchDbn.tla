----------------------------- MODULE MCBenchDbn -----------------------------
(* bench_dbn on small files, and the counts it must report for them. *)
EXTENDS BenchDbn, Samples

BenchFiles ==
    {Prologue(1, 0, b) : b \in {<<>>, ShortMbo \o Clear, Add \o SubSeq(Clear, 1, 7),
                               Other \o Add \o Zero \o Add, LongMbo \o BadSide}}
    \cup {Prologue(1, 3, <<7, 7, 7>> \o Clear), Prologue(1, 3, <<7, 7>>),
          Prologue(2, 0, Add), <<68, 66, 79, 1, 0, 0, 0, 0>>, <<68, 66, 78>>}

(* Files without metadata, over which a DbnReader with no chunk gets by. *)
PlainFiles == {Prologue(1, 0, Add), Prologue(1, 0, Other \o Add)}

=============================================================================
