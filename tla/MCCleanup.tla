----------------------------- MODULE MCCleanup -----------------------------
(* The instance of Cleanup for TLC. *)
EXTENDS Cleanup
=============================================================================
