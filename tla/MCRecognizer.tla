---------------------------- MODULE MCRecognizer ----------------------------
(* Model checking instances of Recognizer: one kind is replaced by the other. *)
EXTENDS Recognizer

OneToOther == {<<"parakeet", "whisper">>, <<"whisper", "parakeet">>}
=============================================================================
