----------------------------- MODULE TextEmbed -----------------------------
(***************************************************************************)
(* lembed_text_embedding_embed and _embed_stream on one handle: look every *)
(* text up in the handle's cache, run the model on the misses only (sorted *)
(* by length and cut into batches), put the rows back where their texts    *)
(* were and into the cache.  The cache is CachePromise, which LRUCache is  *)
(* shown to implement; a handle is used by one thread at a time, and its   *)
(* cache never expires entries (TTL is 0).                                 *)
(*                                                                         *)
(* The model itself (tokenizer, session, pooling, l2_normalize) is VecOf:  *)
(* each text has one vector, whatever batch it is computed in.             *)
(***************************************************************************)
EXTENDS CachePromise, Batching, Sequences

CONSTANTS
    VecOf,          \* the vector the model computes for each text
    Tokens,         \* the number of tokens of each text
    Unset,          \* a row of floats nobody wrote
    Strategies,     \* the lembed_batch_strategy_t values to consider
    Backends,       \* the backends to consider
    BatchSizes,     \* batch_size arguments
    TextSeqs,       \* the texts arguments
    MaxCalls        \* bound on the calls made on the handle

ASSUME VecAssumption == VecOf \in [Keys -> Vecs] /\ Tokens \in [Keys -> Nat]
ASSUME CallAssumption == TextSeqs \subseteq Seq(Keys) /\ BatchSizes \subseteq Nat \ {0}
ASSUME CacheAssumption == Capacity \in Nat \ {0} /\ TTL = 0

VARIABLES
    cfg,            \* backend_type, batch_strategy and whether there is a cache
    call,           \* the call in progress and its locals
    stats,          \* the stats counters of the handle
    calls           \* history: calls made

embedVars == <<content, older, now, ret, cfg, call, stats, calls>>
cacheVars == <<content, older, now, ret>>

Idle == [at |-> "idle"]

EmbedInit ==
    /\ Init
    /\ cfg \in [backend : Backends, strategy : Strategies, cache : BOOLEAN]
    /\ call = Idle
    /\ stats = [texts |-> 0, batches |-> 0, hits |-> 0, misses |-> 0, calls |-> 0]
    /\ calls = 0

-----------------------------------------------------------------------------
(* The orders std::sort may leave the indices in: descending token count   *)
(* with ties in any order under LENGTH_BUCKET, the given order otherwise.  *)
Orders(subset) ==
    IF cfg.backend = "onnx" /\ cfg.strategy = "bucket"
    THEN {p \in [DOMAIN subset -> DOMAIN subset] :
            /\ \A i, j \in DOMAIN p : p[i] = p[j] => i = j
            /\ \A i, j \in DOMAIN p : i < j => Tokens[subset[p[i]]] >= Tokens[subset[p[j]]]}
    ELSE {[i \in DOMAIN subset |-> i]}

(* llama.cpp embeds one text at a time. *)
EffectiveBatch(bs) ==
    IF cfg.backend = "llama" \/ cfg.strategy = "sequential" THEN 1 ELSE bs

-----------------------------------------------------------------------------
Finished == call.at \in {"idle", "ok", "streamed", "failed"}

(* The argument checks and the allocation of the result. *)
Begin(texts, bs) ==
    /\ Finished /\ calls < MaxCalls
    /\ calls' = calls + 1
    /\ call' = [at |-> "lookup", texts |-> texts, bs |-> bs, i |-> 1, miss |-> <<>>,
                data |-> [j \in DOMAIN texts |-> Unset], kept |-> TRUE]
    /\ UNCHANGED <<cacheVars, cfg, stats>>

(* One turn of the lookup loop. *)
LookupOne ==
    /\ call.at = "lookup" /\ cfg.cache /\ call.i <= Len(call.texts)
    /\ LET k == call.texts[call.i] IN
       \/ /\ Hit(k)
          /\ ret' = content[k].val
          /\ call' = [call EXCEPT !.i = @ + 1, !.data[call.i] = content[k].val]
          /\ stats' = [stats EXCEPT !.hits = @ + 1]
       \/ /\ Absent(k)
          /\ call' = [call EXCEPT !.i = @ + 1, !.miss = Append(@, call.i)]
          /\ stats' = [stats EXCEPT !.misses = @ + 1]
    /\ UNCHANGED <<cfg, calls>>

(* The texts to run, and the order to run them in: the misses, or all of   *)
(* them when there is no cache.                                            *)
Plan ==
    /\ call.at = "lookup"
    /\ cfg.cache => call.i > Len(call.texts)
    /\ LET where == IF cfg.cache THEN call.miss ELSE [i \in DOMAIN call.texts |-> i]
           subset == [m \in DOMAIN where |-> call.texts[where[m]]]
       IN \E ord \in Orders(subset) :
            call' = [at |-> "run", texts |-> call.texts, bs |-> call.bs, i |-> 1,
                     miss |-> where, data |-> call.data, kept |-> call.kept,
                     subset |-> subset, order |-> ord, next |-> 1,
                     buf |-> [m \in DOMAIN subset |-> Unset]]
    /\ UNCHANGED <<cacheVars, cfg, stats, calls>>

Batches == BatchCount(Len(call.subset), EffectiveBatch(call.bs))

(* One batch through the session; row p belongs to text order[p].          *)
Rows(ps) == [m \in DOMAIN call.buf |->
    IF \E p \in ps : call.order[p] = m THEN VecOf[call.subset[m]] ELSE call.buf[m]]

RunBatch ==
    /\ call.at = "run" /\ call.next <= Batches
    /\ call' = [call EXCEPT
         !.buf = Rows(Batch(call.next, Len(call.subset), EffectiveBatch(call.bs))),
         !.next = @ + 1]
    /\ UNCHANGED <<cacheVars, cfg, stats, calls>>

(* Tokenizer or session throws: the catch block frees the result.          *)
RunFails ==
    /\ call.at = "run" /\ call.next <= Batches
    /\ call' = [call EXCEPT !.at = "failed"]
    /\ UNCHANGED <<cacheVars, cfg, stats, calls>>

RunEnds ==
    /\ call.at = "run" /\ call.next > Batches
    /\ call' = IF cfg.cache THEN [call EXCEPT !.at = "store", !.i = 1]
               ELSE [call EXCEPT !.at = "count", !.data = call.buf]
    /\ UNCHANGED <<cacheVars, cfg, stats, calls>>

(* One turn of the write-back loop: the row of a miss goes to the result   *)
(* and to the cache, whose put may find no memory.                         *)
StoreOne ==
    /\ call.at = "store" /\ call.i <= Len(call.miss)
    /\ LET where == call.miss[call.i]
           k == call.texts[where]
           v == call.buf[call.i]
       IN \/ /\ Overwrite(k, v) \/ Insert(k, v)
             /\ call' = [call EXCEPT !.i = @ + 1, !.data[where] = v]
          \/ /\ Dropped
             /\ call' = [call EXCEPT !.i = @ + 1, !.data[where] = v, !.kept = FALSE]
    /\ UNCHANGED <<cfg, stats, calls>>

StoreEnds ==
    /\ call.at = "store" /\ call.i > Len(call.miss)
    /\ call' = [call EXCEPT !.at = "count"]
    /\ UNCHANGED <<cacheVars, cfg, stats, calls>>

(* The counters of a call that succeeded. *)
CountedBatches(n) ==
    IF cfg.backend = "llama" THEN (IF n > 0 THEN 1 ELSE 0) ELSE BatchCount(n, call.bs)

Count ==
    /\ call.at = "count"
    /\ stats' = [stats EXCEPT !.texts = @ + Len(call.texts),
                              !.batches = @ + CountedBatches(Len(call.subset)),
                              !.calls = @ + 1]
    /\ call' = [call EXCEPT !.at = "ok"]
    /\ UNCHANGED <<cacheVars, cfg, calls>>

-----------------------------------------------------------------------------
(* embed_stream: no cache, no reordering, one callback per row.            *)
BeginStream(texts, bs) ==
    /\ Finished /\ calls < MaxCalls
    /\ calls' = calls + 1
    /\ call' = [at |-> "stream", texts |-> texts, bs |-> bs, next |-> 1, seen |-> <<>>]
    /\ UNCHANGED <<cacheVars, cfg, stats>>

StreamSize == IF cfg.backend = "llama" THEN 1 ELSE call.bs
StreamBatches == BatchCount(Len(call.texts), StreamSize)

StreamBatch ==
    /\ call.at = "stream" /\ call.next <= StreamBatches
    /\ LET ps == Batch(call.next, Len(call.texts), StreamSize)
       IN call' = [call EXCEPT !.next = @ + 1,
                     !.seen = @ \o [j \in 1..Cardinality(ps) |->
                        VecOf[call.texts[(call.next - 1) * StreamSize + j]]]]
    /\ UNCHANGED <<cacheVars, cfg, stats, calls>>

StreamFails ==
    /\ call.at = "stream" /\ call.next <= StreamBatches
    /\ call' = [call EXCEPT !.at = "failed"]
    /\ UNCHANGED <<cacheVars, cfg, stats, calls>>

StreamEnds ==
    /\ call.at = "stream" /\ call.next > StreamBatches
    /\ stats' = [stats EXCEPT !.texts = @ + Len(call.texts),
                              !.batches = @ + IF cfg.backend = "llama" THEN 1
                                              ELSE BatchCount(Len(call.texts), call.bs)]
    /\ call' = [call EXCEPT !.at = "streamed"]
    /\ UNCHANGED <<cacheVars, cfg, calls>>

-----------------------------------------------------------------------------
EmbedNext ==
    \/ \E texts \in TextSeqs, bs \in BatchSizes : Begin(texts, bs) \/ BeginStream(texts, bs)
    \/ LookupOne \/ Plan \/ RunBatch \/ RunFails \/ RunEnds
    \/ StoreOne \/ StoreEnds \/ Count
    \/ StreamBatch \/ StreamFails \/ StreamEnds

EmbedSpec == EmbedInit /\ [][EmbedNext]_embedVars

-----------------------------------------------------------------------------
(* Row i of a successful result is the vector of text i, whatever mixture  *)
(* of hits, misses, repeated texts, sorted batches and evictions made it;  *)
(* the callbacks of a stream arrive once per text and in text order, and a *)
(* stream that returns OK delivered every one.                             *)
EmbedsRight ==
    /\ call.at = "ok" => \A i \in DOMAIN call.texts : call.data[i] = VecOf[call.texts[i]]
    /\ call.at \in {"stream", "streamed"} =>
        /\ Len(call.seen) <= Len(call.texts)
        /\ \A i \in DOMAIN call.seen : call.seen[i] = VecOf[call.texts[i]]
        /\ call.at = "streamed" => Len(call.seen) = Len(call.texts)

(* The cache only ever holds a text's own vector, failed calls included,   *)
(* so no later call can be served a wrong row.                             *)
CacheIsRight == \A k \in DOMAIN content : content[k].val = VecOf[k]

(* After a successful call whose distinct texts fit the capacity, all of   *)
(* them are cached: the puts of one call never evict a text that the same  *)
(* call looked up or stored (test_cache.py, "must serve repeated texts     *)
(* from the cache").                                                       *)
RepeatIsServed ==
    LET used == {call.texts[i] : i \in DOMAIN call.texts} IN
    (call.at = "ok" /\ cfg.cache /\ call.kept /\ Cardinality(used) <= Capacity)
        => used \subseteq DOMAIN content
=============================================================================
