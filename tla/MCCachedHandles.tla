-------------------------- MODULE MCCachedHandles --------------------------
(* A cache of two entries, and calls of up to three texts (or documents),  *)
(* repeats included, so that the puts of a call evict what earlier calls,  *)
(* and sometimes the call itself, stored.  Two documents score the same.   *)
EXTENDS CachedHandles, TLC

CONSTANTS k1, k2, k3, v1, v2, v3,   \* of the embedder
          a, b, c, d                \* lines of the reranker's texts

MCKeys == {k1, k2, k3}
MCVecs == {v1, v2, v3}
MCVecOf == k1 :> v1 @@ k2 :> v2 @@ k3 :> v3
MCTokens == k1 :> 1 @@ k2 :> 2 @@ k3 :> 2
MCTextSeqs == UNION {[1..n -> MCKeys] : n \in 1..3}

MCQueries == {<<a>>, <<b>>}
MCDocuments == {<<b>>, <<c>>, <<c, d>>}
MCScore == [p \in MCQueries \X MCDocuments |->
              IF p[2] = <<b>> THEN 1 ELSE IF p[1] = <<a>> THEN 2 ELSE 3]
MCDocSeqs == UNION {[1..n -> MCDocuments] : n \in 1..3}
=============================================================================
