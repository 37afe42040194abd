------------------------- MODULE MCAssemblerClient -------------------------
(* Chunks that split records anywhere, the length byte from the rtype too. *)
EXTENDS AssemblerClient, Samples

SmallChunks ==
    {<<>>, <<1>>, <<23, 2>>, <<2, 160, 9, 1>>, <<160, 9, 65>>, <<0>>,
     <<1, 23, 2, 160, 1, 23, 2, 160>>}

=============================================================================
