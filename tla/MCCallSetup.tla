---------------------------- MODULE MCCallSetup ----------------------------
(* TLC instances of CallSetup; the .cfg files give the constants. *)
EXTENDS CallSetup
============================================================================
