--------------------------- MODULE MCCachePlugin ----------------------------
(* Small instances of CachePlugin.                                          *)
EXTENDS CachePlugin, TLC

CONSTANTS k1, k2, q1, q2, u1, u2

TwoKeys == {k1, k2}
TwoCalls == {q1, q2}
OneUpdater == {u1}
TwoUpdaters == {u1, u2}
Mixed == {[calls |-> 2, asks |-> 3, works |-> 0], [calls |-> 1, asks |-> 1, works |-> 3]}
QueriesOnly == {[calls |-> 2, asks |-> 1, works |-> 0]}
Alike == Permutations(TwoKeys) \cup Permutations(TwoCalls)
=============================================================================
