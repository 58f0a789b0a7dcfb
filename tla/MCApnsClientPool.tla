-------------------------- MODULE MCApnsClientPool --------------------------
(* ApnsClientPool for TLC: the sessions are model values.                  *)
EXTENDS ApnsClientPool, TLC

CONSTANT s1

OneSession    == {s1}
AdvanceOnly == {"advance"}
=============================================================================
