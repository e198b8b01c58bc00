------------------------------ MODULE MCThread ------------------------------
(* Instances of Thread for TLC; the constants are given in the .cfg files. *)
EXTENDS Thread
=============================================================================
