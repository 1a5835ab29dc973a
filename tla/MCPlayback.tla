----------------------------- MODULE MCPlayback -----------------------------
(* The instance of Playback for TLC is its cfg: numbers and one Boolean. *)
EXTENDS Playback
=============================================================================
