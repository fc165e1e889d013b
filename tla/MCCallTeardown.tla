--------------------------- MODULE MCCallTeardown ---------------------------
(* TLC instances of CallTeardown; the .cfg files give the constants. *)
EXTENDS CallTeardown
=============================================================================
