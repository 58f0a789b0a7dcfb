----------------------------- MODULE MCPublish -----------------------------
(* Publish for TLC: sessions, tokens and redis servers are model values.   *)
EXTENDS Publish, TLC

CONSTANTS s1, s2, ios, android, redis1, redis2

TwoSessions == {s1, s2}
OneOfEach   == {ios, android}
OnlyIos     == {ios}
TwoServers  == {redis1, redis2}
SessionSymmetry == Permutations(Sessions) \cup Permutations(Servers)
=============================================================================
