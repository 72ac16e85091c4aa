------------------------------ MODULE Autotune ------------------------------
(***************************************************************************)
(* The tuners (detail/autotune_bench_*.hpp): each walks a grid of          *)
(* configurations, times every one of them on a corpus, keeps the best by  *)
(* its own criterion, and reports it; the text and reranker tuners look in *)
(* the tuning cache first and record what they found.  The constrained     *)
(* searches of the reranker fall back to its plain tuning.                 *)
(*                                                                         *)
(* A machine is a table of what runs and how long: `world' gives, for a    *)
(* model, a corpus and a configuration, the successful timings in          *)
(* milliseconds; what is not in the table cannot be created or fails on    *)
(* every iteration.  Durations inside the tuner are in 1/20 ms, so that    *)
(* both percentiles are exact integers.  A configuration is a triple:      *)
(* <<workers, threads, batch>> for text, <<threads, batch, tokens>> for    *)
(* the reranker, <<top_k, min_weight, storage>> for sparse and             *)
(* <<threads, batch, 0>> for images.                                       *)
(***************************************************************************)
EXTENDS Integers, Sequences, FiniteSets

CONSTANTS
    Cores,          \* cpu_logical_cores()
    DocsOf,         \* the documents of each corpus; what differs is the query
    NDocs,          \* the number of texts of each list of documents
    DefaultModel,   \* the model of lembed_text_options_default
    Points,         \* the <<model, corpus, configuration>> that may run
    Timings,        \* the timings of one configuration, sorted
    MaxRunning,     \* bound on how many points run
    Requests,       \* [kind, model, corpus, mode, objective, min, limit]
    MaxCalls        \* bound on the number of calls

Synthetic == "synthetic"

ASSUME CoresAssumption == Cores \in Nat \ {0}

(* The latency that stands for one that failed, in ms: no iteration takes  *)
(* as long.                                                                *)
FailedMs == 999999
ASSUME TimingsAssumption ==
    /\ Timings \subseteq Seq(1..(FailedMs - 1))
    /\ \A s \in Timings : /\ s # <<>>
                          /\ \A i \in 1..(Len(s) - 1) : s[i] <= s[i + 1]

Kinds == {"text", "rerank", "constrained", "auto_config", "sparse", "image"}
Objectives == {"latency", "throughput", "balanced", "memory"}

(* The parameters of each entry point; auto_config takes no least length.  *)
ASSUME RequestsAssumption ==
    \A r \in Requests :
        /\ r \in [kind : Kinds, model : {r.model}, corpus : {r.corpus}, mode : {"quick", "full"},
                  objective : Objectives \cup {""}, min : Nat, limit : Nat]
        /\ r.kind \in {"rerank", "constrained", "auto_config"} => r.objective \in Objectives
        /\ r.kind = "auto_config" => r.min = 0
        /\ NDocs[DocsOf[r.corpus]] \in Nat \ {0}

VARIABLES
    world,      \* what runs, and its timings
    cache,      \* the entry files, by identity
    call,       \* the call in progress or last answered
    calls

tuneVars == <<world, cache, call, calls>>

-----------------------------------------------------------------------------
(* The grids, in the order of the loops. *)
Product(a, b, c) ==
    [i \in 1..(Len(a) * Len(b) * Len(c)) |->
        <<a[((i - 1) \div (Len(b) * Len(c))) + 1],
          b[(((i - 1) \div Len(c)) % Len(b)) + 1],
          c[((i - 1) % Len(c)) + 1]>>]

Smaller(a, b) == IF a < b THEN a ELSE b

(* The elements of a sequence that are in S, in their order. *)
Among(s, S) ==
    LET kept[i \in 0..Len(s)] ==
            IF i = 0 THEN <<>>
            ELSE IF s[i] \in S THEN Append(kept[i - 1], s[i]) ELSE kept[i - 1]
    IN kept[Len(s)]

WithinCores(threads) ==
    LET valid == Among(threads, 1..Cores)
    IN IF valid = <<>> THEN <<1>> ELSE valid

TextQuick == Product(<<1, Smaller(4, Cores), Smaller(8, Cores)>>, <<1>>, <<32>>)
TextFull == Among(Product(<<1, 2, 4, 8, 16>>, <<1, 2, 4>>, <<16, 32, 64, 128, 256>>),
                  {c \in Nat \X Nat \X Nat : c[1] * c[2] <= Cores})

RerankThreads(mode) == WithinCores(IF mode = "quick" THEN <<1, 4, 8>> ELSE <<1, 2, 4, 8>>)
RerankBatches(mode) == IF mode = "quick" THEN <<4, 16>> ELSE <<4, 8, 16>>
RerankTokens(mode) == IF mode = "quick" THEN <<64, 256>> ELSE <<32, 64, 128, 256>>
RerankGrid(mode, min) ==
    LET tokens == Among(RerankTokens(mode), {k \in Nat : k >= min})
    IN Product(RerankThreads(mode), RerankBatches(mode),
               IF tokens = <<>> THEN <<min>> ELSE tokens)

SparseGrid == Product(<<32, 64, 128>>, <<0, 1, 5>>, <<0, 1>>)
ImageGrid == Product(WithinCores(<<1, 2, 4, 8>>), <<1, 4, 8, 16>>, <<0>>)

Grid(r) ==
    CASE r.kind = "text" -> IF r.mode = "quick" THEN TextQuick ELSE TextFull
      [] r.kind = "rerank" -> RerankGrid(r.mode, 0)
      [] r.kind = "constrained" -> RerankGrid(r.mode, r.min)
      [] r.kind = "auto_config" -> RerankGrid("quick", 0)
      [] r.kind = "sparse" -> SparseGrid
      [] r.kind = "image" -> ImageGrid

-----------------------------------------------------------------------------
(* percentile_sorted, in 1/20 ms, for pct twentieths: linear between the   *)
(* two samples around the rank.                                            *)
Percentile(s, pct) ==
    LET rank == pct * (Len(s) - 1)
        lo == (rank \div 20) + 1
        frac == rank % 20
    IN IF frac = 0 THEN 20 * s[lo]
       ELSE 20 * s[lo] + (s[lo + 1] - s[lo]) * frac

(* The latency of a configuration that could not be timed, in 1/20 ms. *)
SentinelSecond == 20 * 1000
Sentinel == 20 * FailedMs

Failed(c) == [cfg |-> c, ran |-> FALSE, p50 |-> Sentinel, p95 |-> 0]

(* benchmark_text_config sets no model in its options, so the text tuner   *)
(* times the default model whatever model it tunes.  Its latency is total  *)
(* time over texts: one number.                                            *)
Timed(r) == IF r.kind = "text" THEN DefaultModel ELSE r.model

(* The iterations that succeeded; none when the model is unknown or cannot *)
(* be created with this configuration.                                     *)
Times(r, c) ==
    LET at == <<Timed(r), r.corpus, c>> IN
    IF at \in DOMAIN world THEN world[at] ELSE <<>>

Bench(r, c) ==
    LET times == Times(r, c) IN
    IF times = <<>> THEN Failed(c)
    ELSE [cfg |-> c, ran |-> TRUE,
          p50 |-> Percentile(times, 10), p95 |-> Percentile(times, 19)]

(* score_reranker_config, lower is better, scaled for each objective; both *)
(* terms of the balanced score grow with the median, so it ranks by it.    *)
Score(r, m) ==
    CASE r.objective = "latency" -> m.p50 + m.p95
      [] r.objective = "throughput" -> IF m.ran THEN 50 * m.p50 ELSE FailedMs * NDocs[DocsOf[r.corpus]]
      [] r.objective \in {"balanced", "memory"} -> m.p50

(* score_text_config in hundredths, higher is better: documents a second,  *)
(* less what is over 500 MB and over 20 ms.                                *)
Over(x, bound) == IF x > bound THEN x - bound ELSE 0
TextScore(m) == (2000000 \div m.p50) - 100 * Over(m.cfg[1], 5) - Over(m.p50, 400)

(* Whether a measurement replaces the best so far. *)
FitsMedian(r, m) == m.ran /\ m.p50 <= 20 * r.limit
Fits(r, m) == m.ran /\ m.p95 <= 20 * r.limit
Faster(m, best) == m.ran /\ (best.ran => m.p50 < best.p50)

Replaces(r, m, best) ==
    CASE r.kind = "text" -> m.ran /\ (best.ran => TextScore(m) > TextScore(best))
      [] r.kind = "rerank" -> Score(r, m) < Score(r, best)
      [] r.kind = "constrained" ->
            Fits(r, m) /\ Score(r, m) < Score(r, best)
      [] r.kind = "auto_config" -> Fits(r, m) /\ Faster(m, best)
      [] r.kind = "sparse" -> Faster(m, best)
      [] r.kind = "image" -> m.p50 < best.p50

(* The loop over the grid, from the sentinel. *)
Search(r) ==
    LET grid == Grid(r)
        best[i \in 0..Len(grid)] ==
            IF i = 0 THEN Failed(<<1, 1, 64>>)
            ELSE LET m == Bench(r, grid[i])  b == best[i - 1]
                 IN IF Replaces(r, m, b) THEN m ELSE b
    IN best[Len(grid)]

NothingTimed(best) == best.p50 >= Sentinel

-----------------------------------------------------------------------------
(* The identity an entry records and a lookup compares.  Text has no       *)
(* objective; sparse and image tunings are not cached.  The fingerprint is *)
(* of all the texts for text, and for the reranker of the documents only:  *)
(* the query, which is the last text of a corpus, is not in it.            *)
Cached(r) == r.kind \in {"text", "rerank"}
Fingerprinted(r) == IF r.kind = "text" THEN r.corpus ELSE DocsOf[r.corpus]
IdentityNoObjective(r) ==
    [dir |-> r.kind, model |-> r.model, corpus |-> Fingerprinted(r), mode |-> r.mode,
     objective |-> ""]
Identity(r) ==
    [dir |-> r.kind, model |-> r.model, corpus |-> Fingerprinted(r), mode |-> r.mode,
     objective |-> IF r.kind = "text" THEN "" ELSE r.objective]

Hit(r) == Cached(r) /\ Identity(r) \in DOMAIN cache

Saved(id, m) == [i \in DOMAIN cache \cup {id} |-> IF i = id THEN m ELSE cache[i]]

NoAnswer == Failed(<<0, 0, 0>>)
Idle == [at |-> "idle"]
Answered(r, as, m) == call' = [at |-> "answered", req |-> r, as |-> as, got |-> m]

TuneInit ==
    /\ world \in UNION {[D -> Timings] : D \in {D \in SUBSET Points :
                                                Cardinality(D) <= MaxRunning}}
    /\ cache = [i \in {} |-> NoAnswer]
    /\ call = Idle /\ calls = 0

(* A call: `as' is the request whose search runs, the caller's own first.  *)
Begin(r) ==
    /\ call.at \notin {"lookup", "search"} /\ calls < MaxCalls
    /\ calls' = calls + 1
    /\ call' = [at |-> IF Cached(r) THEN "lookup" ELSE "search", req |-> r, as |-> r]
    /\ UNCHANGED <<world, cache>>

Lookup ==
    /\ call.at = "lookup"
    /\ IF Hit(call.as) THEN Answered(call.req, call.as, cache[Identity(call.as)])
                       ELSE call' = [call EXCEPT !.at = "search"]
    /\ UNCHANGED <<world, cache, calls>>

(* The search is done and found something; a save that fails is ignored.   *)
Finds ==
    /\ call.at = "search"
    /\ LET best == Search(call.as) IN
       /\ ~NothingTimed(best)
       /\ Answered(call.req, call.as, best)
       /\ \/ Cached(call.as) /\ cache' = Saved(Identity(call.as), best)
          \/ UNCHANGED cache
    /\ UNCHANGED <<world, calls>>

(* Nothing fits the constraints: the plain tuning with its cache, and in   *)
(* quick mode for auto_config.                                             *)
FallbackOf(r) == [r EXCEPT !.kind = "rerank", !.min = 0, !.limit = 0,
                           !.mode = IF r.kind = "auto_config" THEN "quick" ELSE @]
FallsBack ==
    /\ call.at = "search" /\ call.as.kind \in {"constrained", "auto_config"}
    /\ NothingTimed(Search(call.as))
    /\ call' = [call EXCEPT !.at = "lookup", !.as = FallbackOf(call.as)]
    /\ UNCHANGED <<world, cache, calls>>

(* Nothing could be timed: a zeroed result, an error, and no entry. *)
FindsNothing ==
    /\ call.at = "search" /\ call.as.kind \notin {"constrained", "auto_config"}
    /\ NothingTimed(Search(call.as))
    /\ call' = [call EXCEPT !.at = "error"]
    /\ UNCHANGED <<world, cache, calls>>

(* lembed_autotune_clear_cache sweeps every directory, the reranker's only *)
(* its own; for one model, or for all.                                     *)
Clear(dirs, models) ==
    LET kept == {i \in DOMAIN cache : ~(i.dir \in dirs /\ i.model \in models)} IN
    /\ kept # DOMAIN cache
    /\ cache' = [i \in kept |-> cache[i]]
    /\ UNCHANGED <<world, call, calls>>

Models == {r.model : r \in Requests}

TuneNext ==
    \/ \E r \in Requests : Begin(r)
    \/ Lookup \/ Finds \/ FallsBack \/ FindsNothing
    \/ \E dirs \in {{"text", "rerank"}, {"rerank"}}, models \in {Models} \cup {{m} : m \in Models} :
         Clear(dirs, models)

TuneSpec == TuneInit /\ [][TuneNext]_tuneVars

-----------------------------------------------------------------------------
Configs(r) == LET grid == Grid(r) IN {grid[i] : i \in DOMAIN grid}

(* What a request asks to be smallest. *)
Cost(r, m) ==
    CASE r.kind = "text" -> 0 - TextScore(m)
      [] r.kind \in {"rerank", "constrained"} /\ r.objective = "latency" -> m.p50 + m.p95
      [] OTHER -> m.p50

(* Under the throughput objective a configuration at one document a second *)
(* or less does not beat the sentinel, although it ran; under the latency  *)
(* objective one whose median and tail together reach 999999 ms.           *)
Counts(r, m) ==
    /\ m.ran
    /\ r.kind \in {"rerank", "constrained"} =>
         /\ r.objective = "throughput" => 50 * m.p50 < FailedMs * NDocs[DocsOf[r.corpus]]
         /\ r.objective = "latency" => m.p50 + m.p95 < Sentinel

Within(r, m) ==
    r.kind \in {"constrained", "auto_config"} => m.p95 <= 20 * r.limit /\ m.cfg[3] >= r.min

(* The request on the corpora a tuning read back for it may have been      *)
(* measured on: those with the same fingerprint.                           *)
Alike(r) ==
    {q \in {[r EXCEPT !.corpus = s.corpus] : s \in Requests} :
        q = r \/ (Cached(r) /\ Identity(q) = Identity(r))}

BestOf(r, got) ==
    /\ got.cfg \in Configs(r) /\ got.ran
    /\ got = Bench(r, got.cfg)
    /\ \A c \in Configs(r) :
         LET m == Bench(r, c) IN Counts(r, m) /\ Within(r, m) => Cost(r, got) <= Cost(r, m)

(* The answer, measured now or read from the cache, is what its            *)
(* configuration really measures for this request's model and mode, on its *)
(* corpus or, for the reranker, on one with the same documents, and no     *)
(* configuration of the grid does better there by the request's objective. *)
(* (The code's "a cached tuning can never be served for a request it does  *)
(* not answer" does not hold between corpora that differ in the query.)    *)
(* For text, the model measured is the default one.                        *)
AnswersBest ==
    call.at = "answered" => \E r \in Alike(call.as) : BestOf(r, call.got)

(* A tuning reports an error only when no configuration counts, however    *)
(* slow the machine: the sentinel is never taken for a measurement, nor a  *)
(* measurement for the sentinel.                                           *)
FailsOnlyWhenAllFail ==
    call.at = "error" => \A c \in Configs(call.as) : ~Counts(call.as, Bench(call.as, c))

(* A constrained search whose grid holds a configuration within the        *)
(* constraints answers with one within them; only otherwise is it the      *)
(* plain tuning that answers ("Only considers configurations that satisfy  *)
(* both constraints").                                                     *)
ConstraintsKept ==
    (/\ call.at \in {"answered", "error"}
     /\ \E c \in Configs(call.req) : LET m == Bench(call.req, c) IN
            Counts(call.req, m) /\ Within(call.req, m))
    => call.at = "answered" /\ Within(call.req, call.got)
=============================================================================
