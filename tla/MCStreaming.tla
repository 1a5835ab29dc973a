---------------------------- MODULE MCStreaming ----------------------------
(* Instances of Streaming for TLC: a pass hears one word, or that word
   and a second one; the final polish may also rewrite the first one. *)
EXTENDS Streaming

Heard    == {<<"a">>, <<"a", "b">>}
Polished == {<<"a", "b">>, <<"b">>}
=============================================================================
