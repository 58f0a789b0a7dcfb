------------------------ MODULE MCApnsClientPoolLive ------------------------
(* ApnsClientPoolLive for TLC: one session, no symmetry (liveness).        *)
EXTENDS ApnsClientPoolLive

CONSTANT s1

OneSession  == {s1}
AdvanceOnly == {"advance"}
=============================================================================
