---------------------------- MODULE MCSupervisor ----------------------------
(* Supervisor for TLC: three process ids.                                  *)
EXTENDS Supervisor

CONSTANTS p1, p2, p3

ThreePids == {p1, p2, p3}
=============================================================================
