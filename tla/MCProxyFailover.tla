-------------------------- MODULE MCProxyFailover --------------------------
(* Small instances of ProxyFailover for TLC. *)
EXTENDS ProxyFailover, TLC

OneProvider == {1}
TwoProviders == 1..2
Requests == Permutations(Request)
=============================================================================
