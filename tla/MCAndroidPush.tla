--------------------------- MODULE MCAndroidPush ---------------------------
(* AndroidPush for TLC. With these lengths the buffer may end after a      *)
(* packet, inside its payload, two bytes before its end, and after the     *)
(* first byte of its payload length. The first two make a short PUBLISH.   *)
EXTENDS AndroidPush, TLC

SomeLengths == {14, 52, 1923}
=============================================================================
