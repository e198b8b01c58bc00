------------------------------- MODULE MCHook ------------------------------
(* Instances of Hook for TLC; the constants are in the .cfg files. *)
EXTENDS Hook
=============================================================================
