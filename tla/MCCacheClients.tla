--------------------------- MODULE MCCacheClients ---------------------------
(* Two threads and three texts over two slots: evictions, overwrites and   *)
(* expiries all happen, between the two halves of a lookup too.  The       *)
(* vectors of the third text differ in dimension.                          *)
EXTENDS CacheClients, TLC

CONSTANTS k1, k2, k3, u1, u2, v1, w1, w2, b1, b2, b3, t1, t2

MCKeys == {k1, k2, k3}
MCBufs == {b1, b2, b3}
MCThreads == {t1, t2}
MCVecs == {u1, u2, v1, w1, w2}
MCVecsFor == k1 :> {u1, u2} @@ k2 :> {v1} @@ k3 :> {w1, w2}
MCDimOf == [v \in MCVecs |-> IF v = w1 THEN 1 ELSE 2]

Sym == Permutations(MCThreads) \cup Permutations(MCBufs)
=============================================================================
