---------------------------- MODULE MCAppSession ----------------------------
(* AppSession for TLC: two sessions, two applications.                     *)
EXTENDS AppSession, TLC

CONSTANTS s1, s2, a1, a2

TwoSessions == {s1, s2}
TwoApps     == {a1, a2}
AppSymmetry == Permutations(Sessions) \cup Permutations(Apps)
=============================================================================
