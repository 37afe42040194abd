-------------------------- MODULE MCReaderObjects --------------------------
(* Readers over files of different sizes, two addresses for their views. *)
EXTENDS ReaderObjects, Samples

ObjectFiles ==
    {<<>>, Prologue(1, 0, Add \o Other), Prologue(1, 1, <<7>> \o Add \o <<0, 0>>),
     Prologue(1, 3, <<7>>)}

ObjectFileSizes == {Len(f) : f \in ObjectFiles}

=============================================================================
