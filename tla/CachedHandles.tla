--------------------------- MODULE CachedHandles ---------------------------
(***************************************************************************)
(* One handle, of a text embedder or of a reranker, over its own cache.    *)
(***************************************************************************)
EXTENDS TextEmbed

CONSTANTS Queries, Documents, Score, DocSeqs    \* of the reranker

R == INSTANCE Reranker WITH
        Keys <- {q \o t : q \in Queries, t \in Documents}, Vecs <- Nat

ASSUME ScoreAssumption == Score \in [Queries \X Documents -> Nat]
ASSUME DocsAssumption == DocSeqs \subseteq Seq(Documents)

(* Pairs whose joined lines are the same score the same.  It holds of any  *)
(* scores when no query has a newline; the code does not check for one.    *)
ASSUME BorderAssumption ==
    \A q1, q2 \in Queries, d1, d2 \in Documents :
        q1 \o d1 = q2 \o d2 => Score[<<q1, d1>>] = Score[<<q2, d2>>]

(* Only an embedder has a batch strategy. *)
Embedding == "strategy" \in DOMAIN cfg

HandleInit == EmbedInit \/ R!RerankInit
HandleNext == (Embedding /\ EmbedNext) \/ (~Embedding /\ R!RerankNext)
HandleSpec == HandleInit /\ [][HandleNext]_embedVars

(* A reranker's result names every document once, with its own score for   *)
(* this query, best first (Reranker.RanksRight).                           *)
RanksRight == ~Embedding => R!RanksRight

(* Whatever a handle's cache holds under a text's key is what the model    *)
(* computes for that text, after failed calls too.                         *)
CachesRight == IF Embedding THEN CacheIsRight ELSE R!CacheIsRight
=============================================================================
