----------------------------- MODULE MCLockFile -----------------------------
(* LockFile on small instances.                                            *)
EXTENDS LockFile
=============================================================================
