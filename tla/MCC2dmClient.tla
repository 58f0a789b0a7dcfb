---------------------------- MODULE MCC2dmClient ----------------------------
(* C2dmClient for TLC: two sessions, three messages.                       *)
EXTENDS C2dmClient, TLC

CONSTANTS s1, s2, m1, m2, m3

TwoSessions   == {s1, s2}
ThreeMessages == {m1, m2, m3}
C2dmSymmetry  == Permutations(Sessions) \cup Permutations(Messages)
=============================================================================
