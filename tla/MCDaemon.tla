------------------------------ MODULE MCDaemon -------------------------------
(* Daemon for TLC. *)
EXTENDS Daemon

CONSTANTS p1, p2, k1, k2
=============================================================================
