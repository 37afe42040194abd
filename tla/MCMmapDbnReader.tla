-------------------------- MODULE MCMmapDbnReader --------------------------
(* MmapDbnReader on the files the streaming reader is checked on. *)
EXTENDS MmapDbnReader, Samples

=============================================================================
