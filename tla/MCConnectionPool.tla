-------------------------- MODULE MCConnectionPool --------------------------
(***************************************************************************)
(* Three calls to a peer with two endpoints, with one key or another.       *)
(***************************************************************************)
EXTENDS ConnectionPool, TLC

CONSTANTS c1, c2, c3, k1, k2, primary, standby

ThreeCalls   == {c1, c2, c3}
TwoEndpoints == <<primary, standby>>
TwoKeys      == {k1, k2}
Symmetry     == Permutations(Calls) \cup Permutations(TwoKeys)
=============================================================================
