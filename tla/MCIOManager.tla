---------------------------- MODULE MCIOManager ----------------------------
(* Instances of IOManager for TLC; the constants are given in the .cfg files. *)
EXTENDS IOManager
=============================================================================
