---------------------------- MODULE MCReplayDbn ----------------------------
(* replay_dbn on the small files. *)
EXTENDS ReplayDbn, Samples

=============================================================================
