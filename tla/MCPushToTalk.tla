---------------------------- MODULE MCPushToTalk ----------------------------
(* Instances of PushToTalk for TLC, with the keys and chords of MCHotkeys. *)
EXTENDS MCHotkeys, PushToTalk
=============================================================================
