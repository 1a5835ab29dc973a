---------------------------- MODULE MCDictation ----------------------------
(* Model checking instances of Dictation. *)
EXTENDS Dictation
=============================================================================
