------------------------------ MODULE MCHotkeys ------------------------------
(* Instances of Hotkeys for TLC.  "k1" alone is the command chord and both
   keys together are the dictation chord, so that a chord can grow into a
   longer one, as Ctrl+Win grows into Ctrl+Win+Shift. *)
EXTENDS Hotkeys

TwoModes == {"dictation", "command"}
OneMode  == {"dictation"}
NestedChords ==
    [m \in Modes |-> IF m = "dictation" THEN {"k1", "k2"} ELSE {"k1"}]
OneKeyChord == [m \in Modes |-> {"k1"}]
ConfigOrder == [m \in Modes |-> IF m = "dictation" THEN 1 ELSE 2]
Hold   == {"hold"}
Toggle == {"toggle"}
Either == {"hold", "toggle"}
=============================================================================
