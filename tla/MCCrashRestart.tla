--------------------------- MODULE MCCrashRestart ---------------------------
(* TLC instances of CrashRestart: constants in the .cfg files. *)
EXTENDS CrashRestart
=============================================================================
