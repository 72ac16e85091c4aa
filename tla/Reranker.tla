------------------------------ MODULE Reranker ------------------------------
(***************************************************************************)
(* lembed_reranker_rerank on one handle: look every (query, document) pair *)
(* up in the handle's cache, score the misses in batches, cache each score *)
(* as soon as its batch has run (ONNX) or when all have (llama.cpp), then  *)
(* sort.  The cache is CachePromise with TTL 0.                            *)
(*                                                                         *)
(* A text is the sequence of its lines, because the cache key is           *)
(* query + "\n" + document: joining two texts with a newline is joining    *)
(* their sequences of lines, and the border between them is lost.          *)
(* The model itself is Score: one score per pair, in any batch.            *)
(***************************************************************************)
EXTENDS CachePromise, Batching, Sequences

CONSTANTS
    Queries, Documents,     \* texts, as sequences of lines
    Score,                  \* Score[<<q, d>>] \in Nat: what the model computes
    Backends,               \* the backends to consider
    BatchSizes,             \* batch_size arguments
    DocSeqs,                \* documents arguments
    MaxCalls                \* bound on the calls made on the handle

VARIABLES
    cfg,        \* backend_type and whether there is a cache
    call,       \* the call in progress and its locals
    stats,      \* the counters of the handle
    calls       \* history: calls made

rerankVars == <<content, older, now, ret, cfg, call, stats, calls>>
cacheVars == <<content, older, now, ret>>

KeyDocumentOnly(q, d) == d
Key(q, d) == q \o d

RerankInit ==
    /\ Init
    /\ cfg \in [backend : Backends, cache : BOOLEAN]
    /\ call = [at |-> "idle"]
    /\ stats = [texts |-> 0, batches |-> 0, hits |-> 0, misses |-> 0, calls |-> 0]
    /\ calls = 0

Finished == call.at \in {"idle", "ranked", "failed"}

(* The argument checks; without a cache every document is a miss.          *)
Begin(q, docs, bs) ==
    /\ Finished /\ calls < MaxCalls
    /\ calls' = calls + 1
    /\ call' = [at |-> IF cfg.cache THEN "lookup" ELSE "run", query |-> q, docs |-> docs,
                bs |-> bs, i |-> 1, next |-> 1, todo |-> <<>>,
                miss |-> IF cfg.cache THEN <<>> ELSE [i \in DOMAIN docs |-> i],
                scores |-> [i \in DOMAIN docs |-> 0], items |-> <<>>]
    /\ stats' = IF cfg.cache THEN stats ELSE [stats EXCEPT !.misses = @ + Len(docs)]
    /\ UNCHANGED <<cacheVars, cfg>>

(* One turn of the lookup loop. *)
LookupOne ==
    /\ call.at = "lookup" /\ call.i <= Len(call.docs)
    /\ LET k == Key(call.query, call.docs[call.i]) IN
       \/ /\ Hit(k)
          /\ ret' = content[k].val
          /\ call' = [call EXCEPT !.i = @ + 1, !.scores[call.i] = content[k].val]
          /\ stats' = [stats EXCEPT !.hits = @ + 1]
       \/ /\ Absent(k)
          /\ call' = [call EXCEPT !.i = @ + 1, !.miss = Append(@, call.i)]
          /\ stats' = [stats EXCEPT !.misses = @ + 1]
    /\ UNCHANGED <<cfg, calls>>

LookupEnds ==
    /\ call.at = "lookup" /\ call.i > Len(call.docs)
    /\ call' = [call EXCEPT !.at = "run"]
    /\ UNCHANGED <<cacheVars, cfg, stats, calls>>

(* llama.cpp scores all the misses before the first is kept. *)
Step == IF cfg.backend = "llama" THEN Len(call.miss) ELSE call.bs
Batches == IF call.miss = <<>> THEN 0 ELSE BatchCount(Len(call.miss), Step)

(* One batch: its scores, and the documents to put into the cache.         *)
RunBatchShifted ==
    /\ call.at = "run" /\ call.todo = <<>> /\ call.next <= Batches
    /\ LET ps == Batch(call.next, Len(call.miss), Step)
           first == (call.next - 1) * Step
       IN call' = [call EXCEPT
            !.scores = [i \in DOMAIN @ |->
               IF \E p \in ps : p = i
               THEN Score[<<call.query, call.docs[call.miss[i]]>>] ELSE @[i]],
            !.todo = IF cfg.cache THEN SubSeq(call.miss, first + 1, first + Cardinality(ps)) ELSE <<>>,
            !.next = @ + 1]
    /\ UNCHANGED <<cacheVars, cfg, stats, calls>>
RunBatch ==
    /\ call.at = "run" /\ call.todo = <<>> /\ call.next <= Batches
    /\ LET ps == Batch(call.next, Len(call.miss), Step)
           first == (call.next - 1) * Step
       IN call' = [call EXCEPT
            !.scores = [i \in DOMAIN @ |->
               IF \E p \in ps : call.miss[p] = i
               THEN Score[<<call.query, call.docs[i]>>] ELSE @[i]],
            !.todo = IF cfg.cache THEN SubSeq(call.miss, first + 1, first + Cardinality(ps)) ELSE <<>>,
            !.next = @ + 1]
    /\ UNCHANGED <<cacheVars, cfg, stats, calls>>

(* Tokenizer or session throws; scores of earlier batches stay cached.     *)
RunFails ==
    /\ call.at = "run" /\ call.todo = <<>> /\ call.next <= Batches
    /\ call' = [call EXCEPT !.at = "failed"]
    /\ UNCHANGED <<cacheVars, cfg, stats, calls>>

(* One put, which may find no memory. *)
StoreOne ==
    /\ call.at = "run" /\ call.todo # <<>>
    /\ LET i == Head(call.todo)
           k == Key(call.query, call.docs[i])
       IN Overwrite(k, call.scores[i]) \/ Insert(k, call.scores[i]) \/ Dropped
    /\ call' = [call EXCEPT !.todo = Tail(@)]
    /\ UNCHANGED <<cfg, stats, calls>>

(* std::sort by descending score leaves equal scores in any order.         *)
Sorted(order) ==
    /\ \A i, j \in DOMAIN order : order[i] = order[j] => i = j
    /\ \A i, j \in DOMAIN order : i < j => call.scores[order[i]] >= call.scores[order[j]]

Finish ==
    /\ call.at = "run" /\ call.todo = <<>> /\ call.next > Batches
    /\ \E order \in [DOMAIN call.docs -> DOMAIN call.docs] :
         /\ Sorted(order)
         /\ call' = [call EXCEPT !.at = "ranked", !.items =
              [r \in DOMAIN order |-> [index |-> order[r], score |-> call.scores[order[r]]]]]
    /\ stats' = [stats EXCEPT !.texts = @ + Len(call.docs),
                              !.batches = @ + BatchCount(Len(call.docs), call.bs),
                              !.calls = @ + 1]
    /\ UNCHANGED <<cacheVars, cfg, calls>>

(* No memory for the result: the scores stay cached, nothing is counted.   *)
NoResult ==
    /\ call.at = "run" /\ call.todo = <<>> /\ call.next > Batches
    /\ call' = [call EXCEPT !.at = "failed"]
    /\ UNCHANGED <<cacheVars, cfg, stats, calls>>

RerankNext ==
    \/ \E q \in Queries, docs \in DocSeqs, bs \in BatchSizes : Begin(q, docs, bs)
    \/ LookupOne \/ LookupEnds \/ RunBatch \/ RunFails \/ StoreOne
    \/ Finish \/ NoResult

RerankSpec == RerankInit /\ [][RerankNext]_rerankVars

-----------------------------------------------------------------------------
(* A result names every document once, with the score of that document for *)
(* this query, best first, however it was put together from cached scores  *)
(* and batches (docs/en/api_reference.md: "results sorted by descending    *)
(* score").                                                                *)
RanksRight ==
    call.at = "ranked" =>
        /\ {call.items[r].index : r \in DOMAIN call.items} = DOMAIN call.docs
        /\ Len(call.items) = Len(call.docs)
        /\ \A r \in DOMAIN call.items :
             /\ call.items[r].score = Score[<<call.query, call.docs[call.items[r].index]>>]
             /\ r > 1 => call.items[r - 1].score >= call.items[r].score

(* What the cache holds under a pair's key is that pair's score, after     *)
(* failed calls too.                                                       *)
CacheIsRight ==
    \A q \in Queries, d \in Documents :
        Key(q, d) \in DOMAIN content => content[Key(q, d)].val = Score[<<q, d>>]

=============================================================================
