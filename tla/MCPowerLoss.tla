---------------------------- MODULE MCPowerLoss ----------------------------
(* The loss of power for TLC. *)
EXTENDS PowerLoss

\* A second fault is followed only if every read of the image has succeeded and
\* no loss of power has left a cache without a flag.
FewFaults == faults = 2 => unread = 0 /\ ~unnoted
=============================================================================
