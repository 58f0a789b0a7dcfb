--------------------------- MODULE MCMqttRegistry ---------------------------
(* MqttRegistry for TLC: sessions, tokens and providers are model values.  *)
EXTENDS MqttRegistry, TLC

CONSTANTS s1, s2, t1, t2, p1, p2

TwoSessions  == {s1, s2}
TwoTokens    == {t1, t2}
TwoProviders == {p1, p2}
RegistrySymmetry ==
  Permutations(Sessions) \cup Permutations(Tokens) \cup Permutations(Providers)
=============================================================================
