--------------------------- MODULE MCLcsQueryPool ---------------------------
(* LcsQueryPool for TLC: three queries.                                    *)
EXTENDS LcsQueryPool

CONSTANTS q1, q2, q3

ThreeQueries == {q1, q2, q3}
=============================================================================
