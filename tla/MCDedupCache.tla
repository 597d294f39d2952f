---------------------------- MODULE MCDedupCache ----------------------------
(***************************************************************************)
(* Small caches.  The response of "large" may exceed the two bytes of the  *)
(* budget; those of "small" and "other" never do.                          *)
(***************************************************************************)
EXTENDS DedupCache, TLC

CONSTANTS c1, c2, c3, large, small, other, f1, f2

ThreeCalls == {c1, c2, c3}
Symmetry   == Permutations(Calls)

Run(i, f) == [op |-> "run", id |-> i, fp |-> f]
Replay(i, f) == [op |-> "replay", id |-> i, fp |-> f]

ThreeIds == {large, small, other}

MixedRequests == {Run(large, f1), Run(small, f1), Run(small, f2), Run(other, f1),
                  Replay(small, f1)}

SmallSizes == [i \in Ids |-> IF i = large THEN {1, 3} ELSE {1, 2}]
=============================================================================
