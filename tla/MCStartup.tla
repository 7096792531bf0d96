----------------------------- MODULE MCStartup ------------------------------
(* Start and stop, with the lock file, for TLC. *)
EXTENDS LockedStart
=============================================================================
