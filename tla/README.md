# libembedding in TLA+

A verification project for libembedding, a header-only C/C++ library (with a
cffi Python package) that computes text, sparse and image embeddings and
reranking scores with ONNX Runtime or llama.cpp.  The modules below are
translated from the code under `include/libembedding/` and
`python/src/libembedding/`; paths in this file are relative to the repository,
and `detail/` is `include/libembedding/detail/`.  `PROJECT.json` maps every
definition to its lines.

## 1. The system

| Component | State | Operations | What is hard | What makes it correct |
|---|---|---|---|---|
| LRU cache (`detail/embedding_cache_impl.hpp`, `embedding_cache.h`) | hash map, recency list, one malloc'ed buffer per entry, a mutex | `get`, `get_copy` (two forms), `put`, `clear`, destructor | long mixtures of overwrite, expiry, eviction, failed malloc; pointers that outlive the lock | list and map agree, buffers owned once, capacity, a lookup answers with what was stored |
| Cache clients (`cache.py`, the models) | a borrowed pointer or a dimension between two locked calls | the `std::vector` overload, the two-pass Python lookup | another thread between the two steps | a lookup never answers with floats nobody stored under that text |
| Text embedding (`detail/text_embedding_impl.hpp`, `_onnx_`, `_llama_`, `batch.hpp`) | handle: cache, strategy, scratch buffers, counters | `embed`, `embed_stream`, create, free | hits, misses, sorted batches and evictions in one call; exceptions between batches | row i is the vector of text i; only right rows are cached |
| Reranker (`detail/reranker_impl.hpp`) | handle: cache of scores, counters | `rerank`, create, free | scores cached batch by batch before a later batch fails | every document once, with its own score, best first |
| Pools (`cpp/embedding_pool.hpp`, `pool.py`) | one handle per worker, per-call threads, `done` bits, order of hand-over | `embed`, `embed_stream` | threads finishing in any order, failing batches, idle workers | vectors in text order, none lost, the call ends |
| llama.cpp scheduler (`detail/llama_scheduler_impl.hpp`) and session pool | queue of promises, worker thread, contexts | `submit`, `set_max_batch_size`, `stop`, enable/disable, destructor | callers, worker and the stopping thread together | each promise settled once with its own embedding; no use of freed contexts; stopping ends |
| Downloader (`detail/downloader_impl.hpp`) | the model directory on disk | `ensure_model`, `download_hf_file` | failures and crashes between file operations, several processes | a published file is whole; a call that returns delivered every required file |
| Model cache management (`downloader.h`, `autotune.py`) | the same directory, one sub-directory per repository | ensure by kind of model, clean-up with a list to keep | deleting while a model is being loaded, repositories that share a directory, counting what was deleted | a model that is kept stays whole; a call that returned delivered it; the report covers what is gone |
| Handle creation (text, reranker, sparse, image; ONNX and GGUF) and the wrappers that own handles | partly built handles, their caches, path strings | `*_create`, `_create_v2`, `_from_path`, `_from_gguf_*`, `free`; construct, move, close | any call failing half-way, catch blocks, moves and closes in any order | a delivered handle is whole and owned once; failures leave no cache and no reranker behind |
| Automatic quantization (`detail/quantization_auto_*.hpp`, `create_v2`, `text_embedding.py`) | the recorded decision of each model code, the measured table of a call | select, create with a mode or AUTO, the Python constructor | weights that are absent, vanish or fail; decisions recorded for a sibling | the handle reports what it loaded; no baseline, no swap; nothing clearly faster is missed |
| Tuning cache files (`detail/autotune_cache.hpp`) | one file per model and request, its `.tmp` | save, load, clear | several writers of one `.tmp`, crashes, refused renames | a load answers with the decision of one save, whole, or with none |
| Tuners (`detail/autotune_bench_*.hpp`, `autotuner_impl.hpp`) | the entries of the tuning cache, the best configuration so far | tune text, rerankers, sparse, images; constrained and latency-targeted search; clear | sentinels compared with measurements, stale entries, partial failures, fallbacks | the best configuration for this request, measured on its corpus, or an error when nothing ran |
| Tokenizer (`detail/tokenizer_impl.hpp`) | vocabulary, merges, ids of the special tokens, length limit | load, encode, encode a batch | greedy matching over odd characters, ids that are missing, truncation around the special tokens | what a text's tokens are does not depend on its batch; never longer than the limit; framed by its special tokens |
| GGUF reader (`detail/gguf/`) | none: a file is classified, then opened | probe, accept, bind tensors, read the vocabulary | files that look right until one tensor, one id or one size is wrong | a file that is opened has all its model needs, and the error names what is missing |
| ONNX session (`detail/onnx_session_impl.hpp`) | session, allocator, input and output names | load, run, destroy | twelve calls of which any may fail | everything created is released once |
| Sparse embedding (`sparse_text_embedding.h`, `detail/sparse_*`, `detail/gguf/gguf_sparse_session.hpp`) | session, tokenizer, the cached compute graph, result arrays | create, embed, free the results | a graph reused for another shape, exceptions half-way through the results | weights are those of the text, in the order asked for; results are freed once |
| Image embedding, JSON tune cache, worker tuning | | | | - (section 8) |

Components interact by calls: a pool calls `embed` on its handles, a handle
calls its cache and its session, creation calls the downloader, the scheduler's
worker calls the session pool that owns it.  State is shared between threads in
three places only: the cache (under its mutex), the locals of one `embed_stream`
call of the pool, and the scheduler's queue.  Processes share the model
directory, without any lock.

`PROJECT.json` lists under "hazards" each place that is hard to test, with the
properties aimed at it.

## 2. The modules

* **LRUCache** - the cache. `map_`, `list_` and the clock keep the code's names;
  `heap` says which vector each malloc'ed address holds, so that a double free,
  a leak or a stale pointer is visible.  Every public method holds `mtx_` for
  its whole body, hence one action per method: `Get`, `GetCopy`, `Put`
  (`PutExisting`, `PutNew` with the eviction), `PutNoMemory`, `Clear` (also the
  destructor), `Tick` for `time(nullptr)`.
* **CachePromise** - what the cache promises: a bounded partial map that drops
  the least recently used text.  No list, no buffers.  LRUCache implements it
  (`KeepsPromise`, with `ContentBar` and `OlderBar` as the refinement mapping),
  so TextEmbed and Reranker use CachePromise for their handle's cache; the
  refinement is proved as well as checked.
* **CacheClients** - threads on one LRUCache.  A lookup that releases the lock
  half-way is two actions: `VecCall`/`VecRead` (the `std::vector` overload) and
  `PyPass1`/`PyPass2` (`EmbeddingCache.get`).  Reading a buffer that was freed or
  reused is a read of whatever is there: another vector, or `Garbage`.
* **Batching** - `batch_count` and `get_batch`.
* **TextEmbed** - `lembed_text_embedding_embed` and `_embed_stream` on one
  handle.  One action per turn of the lookup loop, per batch and per turn of the
  write-back loop; `RunFails` and `StreamFails` are exceptions of the tokenizer
  or the session.  `Orders` is every result `std::sort` may give (ties in any
  order).  The model is the constant function `VecOf`: one vector per text.
* **Reranker** - `lembed_reranker_rerank`.  A text is the sequence of its lines,
  because the cache key joins query and document with a newline.
* **CachedHandles** - a handle over its cache, an embedder or a reranker, whichever
  it was created as: TextEmbed with an instance of Reranker on the same variables,
  and what is true of both (`CachesRight`).
* **EmbeddingPool** - `embed` and `embed_stream` of the C++ pool and `embed` of
  the Python pool.  A text is its position, a vector the text it came from.
  `done` is one word of `std::vector<bool>`: the launching thread's unlocked
  `done[w] = true` is a read (`IdleLoad`) and a write (`IdleStore`).
* **LlamaScheduler** - callers (`Submit`, `SubmitGet`), the worker loop
  (`WorkerTop` ... `SettleEnds`) and the thread that ends the pool, either by
  `disable_scheduler` and then the destructor (`Disable`, `JoinWorker`, `Reset`,
  `FreeContexts`) or by the destructor alone (`FreeFirst`, `DestroyScheduler`,
  `JoinWorker`, `Reset`).
* **ModelDownload** - `ensure_model` and `download_hf_file`.  A path leads to an
  inode, an open handle keeps its inode, every call on the directory is one
  step, a process may die between two steps and start again.
* **ModelCache** - ModelDownload together with the clean-ups of the directory
  (C and Python), which remove one file at a time while a process may be
  loading.  A repository is known by the directory it is stored in, which
  another repository may share (`repo_to_dirname`).
* **QuantAuto** - which weights a call ends up with.  One action per entry point
  (`CreateV2`, `AutoSelect`, `Python`, `PythonAuto`), then the selection
  (`LoadDecision`, `Probe` and `Measure` per variant, `Decide`) and the creation
  (`EnsureNamed`, `Create`).  Rates are drawn from sets; `Pick` is
  `quant_auto_pick` on integers.  `disk` is what is in the model directory, and
  another process may delete from it at any step.
* **TuneFile** - `write_file_atomic`, `quant_auto_load` and the clearing sweep on
  one entry file, as steps of several processes on names and inodes.  A document
  is a sequence of lines, each of which knows the save it is of: a head, the text
  of the reason (as many lines as it is long), four lines for every measured
  variant, a closing line.  A document written over a longer one therefore keeps
  that one's tail, with whatever complete lines are in it; and `Parse` looks up
  each field of each row for itself, the last value winning, as the reader does.
  `overlapped` remembers whether two streams were ever open for writing on one
  inode.
* **HandleCreate** - the creation entry points.  Each is the sequence of its
  steps (`TextCreate`, `RerankGguf`, ...), a nested call being a concatenation;
  `call.at` is the position in it.  One action per kind of step, and `Fails` is
  the catch block or error return of the entry point (`Catch` says what it
  frees).  An allocation may reuse any address that has been freed.  A handle carries what its
  caller can ask for: length, dimension, cache, what the tokenizer truncates
  at, and its descriptor.  Wrapper objects of C++ and Python create, move and
  close handles.
* **Autotune** - the tuners.  `world` is the machine: which model, corpus and
  configuration run, and their timings, chosen once.  `Grid` is the order of the
  loops, `Bench` a measurement, `Replaces` the comparison of each tuner, `Search`
  the loop; `Lookup`, `Finds`, `FallsBack` and `FindsNothing` are the ways a call
  goes on, and an identity in `cache` is one entry file (TuneFile is what
  happens inside one).  `Fingerprinted` is what of a corpus is in an identity: all
  of it for text, the documents without the query for rerankers.
* **Tokenizer** - loading (`LoadFromBlob` from `tokenizer.json`, `LoadVocab` from
  a GGUF vocabulary) and encoding.  A text is a sequence of code points, of which
  the runs use one of every kind the code tells apart; `BertNormalize`,
  `BasicTokenize`, `WordPiece`, `BPE`, `Encode` (special tokens and truncation)
  and `EncodeBatch` (padding) are operators, as the code has no state after
  loading.
* **GgufFile** - a GGUF file as the metadata and tensors the code reads of it:
  `Classify` is the inspector, `LoadSession` what a session takes, through the
  refusals of `Accepts`, `Opens`, `LoadsTensors` and `VocabFits`; `Bind` says which
  tensor each field of the loaded weights holds.
* **OnnxSession** - `load_from_file` and `run` as sequences of calls of the
  onnxruntime API, of which any may fail: what is created, what is released.
* **SparseEmbed** - the sparse entry points over the three modules above.
  `OpenGguf` and `OpenOnnx` create a handle of either backend, `Embed` starts a
  call, which goes on batch by batch (`GgufBatch`, over the compute graph kept in
  the handle until `NeedsRebuild`, or `OnnxBatch`) and ends in the results, the
  error of a call that threw, or a failed allocation; `PruneAndSort` is the
  post-processing.  A vector is a set of terms until it is stored: both storage
  formats sort it, and equal weights come out in any order (`Ordered`).
* **CacheProofs**, **ModelCacheProofs**, **ThreadsProofs** (scheduler and pools),
  **CachedHandlesProofs**, **TuningProofs**, **HandleCreateProofs**,
  **QuantAutoProofs**, **SparseProofs** - the theorems.
* **MCCacheClients**, **MCCachedHandles**, **MCModelCache**, **MCQuantAuto**,
  **MCHandleCreate**, **MCSparse**, **MCAutotune**, **MCTuneFile** - the instances
  TLC checks.  MCCacheClients is the cache under its clients; MCCachedHandles gives
  CachedHandles its texts and scores; MCTuneFile adds the symmetry of its
  processes.  EmbeddingPool and LlamaScheduler are checked directly.

Operators whose name extends another's (`RemoveKeepingNode` before `Remove`) are
faulty variants of it: putting one in its place must break the property that
`PROJECT.json` names, which shows that the property can fail.

## 3. The runs

| Run | Result | Shows |
|---|---|---|
| `cache` (2 threads, 3 texts, 2 slots, 3 addresses, 5 vectors, TTL 1, clock to 2) | holds | list, map and buffers stay consistent, CachePromise is implemented, `lembed_cache_get_copy` and the Python lookup answer only with vectors stored under the text |
| `cache_vector_overload` (the same with the `std::vector` overload) | violated | that overload copies after the lock is released |
| `embed` (a text embedder: calls of up to 3 of 3 texts, 2 slots, batch sizes 1 and 2, both backends, all strategies, 2 calls; or a reranker: 2 queries, 3 documents of which two may score the same) | holds | rows, results and caches are right, a repeated call is served |
| `pool` (3 workers, 1 to 5 texts, batches of 1 and 2, failures) | holds | text order, completeness without failure, termination |
| `llama_scheduler` (3 callers, limits 1 and 2) | holds | order, own embedding, settled once, no use after free, the queue drains, stopping ends |
| `model_cache` (1 loader, 2 files of which 1 required, 2 chunks, 2 calls, 1 crash, failures; 2 clean-ups that keep the model, a model sharing its directory, or nothing) | holds | published files are whole; what a clean-up was told to keep stays, and a returned call delivered it; the report covers what is gone |
| `keep_by_name` (the clean-ups are given the model's name) | violated | the clean-up deletes the model it was told to keep |
| `quant_auto` (5 entries: a family of FP32, FP16 and dynamic INT8, and one whose two entries share a code; every set of weights on disk, rates 0, 95, 106, 130, weights deleted at any step, 2 calls) | holds | the mode reported is the mode loaded, explicit modes are honoured or refused, a call that ends with a handle downloaded only the named or the loaded weights, the decision rule |
| `tune_file` (3 interchangeable processes, 3 inodes, 3 saves of 1 or 2 rows and a reason of 0 or 3 lines, failing writes, refused renames, 1 crash) | holds | a load answers with a saved winner and its number of rows, or nothing; the rows are of that save unless two streams were open on one `.tmp`; no `.tmp` outlives its save |
| `handles` (17 entry points, 5 settings of options against a model directory, every call may fail, 2 creations, 2 wrappers) | holds | delivered handles are whole and owned once, failures leave no cache, reranker or string behind (the handles that section 6 says leak are not counted) |
| `sparse` (a vocabulary of 9 tokens, 4 texts in 2 lists, some 25 GGUF files - sound, spelt otherwise, one with a position table shorter than declared, one for each refusal -, 4 `tokenizer.json`, limits 0, 3, 5, batches of 1 and 2, 3 settings of options, 1 exception, 2 calls) | holds | weights are those of the text whatever was computed before; a file that opens is bound and indexed within what it declares, and within its tables if they have the declared rows; the backends tokenize alike, and what of a word stays unspelled has no known piece; onnxruntime objects are released when no call threw |
| `autotune` (8 cores, the code's grids, 2 models, a corpus of 20 documents and two of the same single document under different queries, at most 2 of 15 configurations run, 3 sets of timings, 39 requests, 2 calls with clears) | holds | the answer, measured or cached, is the best for its own request, on its corpus or one with the same fingerprint; errors only when nothing counts; constraints are kept when they can be |

**Bounds.** Two cache slots under three texts are the least in which an
eviction can choose wrongly; three addresses let a freed one be reused while two
are held.  Of the five vectors only the third text's two differ in dimension,
and only for such a text does `AnswersAreStored` allow the padded array of
section 6.  Three texts per call give a full and a short batch of
two, a repeat, and more misses than slots; queries have one line (section 6).
Three workers give one that is overtaken, one that
overtakes and one idle.  Three callers under a limit of two leave a request
queued behind a batch.  Two calls are enough for one call to meet what the other
left in the cache or on disk, or in the cached graph.  Two files are a required
and an optional one, two chunks a partial and a whole one; two clean-ups with
one crash let a model be removed, loaded again, interrupted and completed.  The
rates 95, 106 and 130 lie within the floor of 1.05
of each other, between floor and the 1.15 of the dynamic preference, and beyond
it.  Three processes on one file are two writers and a reader; three saves, each of
which creates an inode at most, let two overlap and a third publish or take over
what they left.  Reasons of 0 and 3 lines make documents with as many rows
differ in length by less than a row, so that the tail one leaves of another may
hold some complete lines of a row.  Two creations give a
handle that is moved onto another, and a failure beside a live handle.  The
limits 0, 3 and 5 of the tokenizer are none given, one that truncates, and one
that some texts meet exactly.  Two
configurations that run are what a comparison needs, and the points of
`MCAutotune` lie in the quick grid, only in the full one, and beyond both (512
tokens); the timings order median and tail differently, and 25 s is past one
document a second.  Bounded calls are why `CHECK_DEADLOCK FALSE` is set
in `MCModelCache.cfg`, `MCKeepByName.cfg`, `MCPool.cfg`, `MCCachedHandles.cfg`,
`MCQuantAuto.cfg`, `MCHandleCreate.cfg` and `MCAutotune.cfg`: after the last call
nothing is left to do.

**Fairness.** EmbeddingPool: a thread that can run is scheduled, and a model run
ends (it returns or fails); the pool's code has no wait other than `join`,
`future.get` and a mutex that is released by every holder.  LlamaScheduler: weak
fairness of the worker thread and of the thread that stops it; the worker's wait
is `wait_for`, which ends by itself, so no fairness of a notification is needed,
and none is assumed of callers.  Nothing is claimed to terminate for downloads:
curl is given no timeout.

## 4. What is proved

`tlapm` checks every proof; the theorems hold for every value of the constants
that satisfies the assumptions named.  TLC evaluates the assumptions in the runs.

* **CacheProofs**: the cache, its promise and its clients.
  - `TypeCorrect`, `ListAndMapAgree`, `BuffersAreOwned`, `NeverOverCapacity`, from
    the assumptions that the capacity is a positive number, times are numbers,
    each vector has a dimension and `Free` is not a vector.  The inductive
    invariant `IInv` is the conjunction of the shape of the state,
    `ListMatchesMap`, `OwnedBuffers`, `DimsAgree`, `WithinCapacity`, finiteness of
    the map's domain, and that the last answer is a possible answer.  They need
    each other: eviction removes the right entry only because the back of the
    list is a key of the map; the answer of a lookup is a vector only because
    the entry's buffer is allocated; the capacity argument counts the domain
    after a removal, so it must be finite.  Lemmas first establish what
    `SpliceToFront`, `Erase` and `PushFront` do to the elements of a list without
    repetitions; then one lemma per action.
  - `CacheImplementsPromise`, from the same assumptions.  The lemmas say which
    element is behind which in a list after each operation; the recency order of
    CachePromise is then read off the list.  Every step of the cache maps to one
    step of the promise, an eviction to dropping the least recent text.
  - `LookupsAnswerWhatWasStored` and `SharedCacheKeepsPromise` for any number of
    threads that use the locked calls and the two-pass Python lookup, from
    `StoredAssumption` and `AnswerAssumption`.  A step of a thread is a step of the
    cache, so `IInv` carries over; it is joined by the fact that a cached vector
    was stored under its text.
* **ModelCacheProofs**: the model directory.
  - Of the downloader `TypeCorrect` for any number of processes; and under `Alone`
    (one process, `fclose` does not fail) `PublishedIsWhole`, `EnsureDelivers` and
    `PublishedIsKept`, for any number of files, chunks, calls and crashes.  The
    strengthening `SInv` adds `Apart` (a published inode is neither a `.tmp` nor
    open) and `Progress` (what the open or just closed `.tmp` holds at each label,
    and which required files are already there).  Both parts of `Alone` are
    needed (section 6).
  - With the clean-ups `CacheTypeCorrect`; and under `Alone` `KeptModelIsEnsured`
    and `KeptModelStays`: as long as every deleting clean-up was given the model's
    own identifier (`Spared`), what is shown of a loader alone holds beside the
    clean-ups.  `CleanerInv` says that a clean-up only has directories in `todo`
    that its list does not keep; so, while `Spared`, no file of the model is in its
    way and `SInv` is kept.
  - `CleanupReportsTruly`, for any number of loading processes, from
    `StraysAssumption` (what else lies in the directory is not named like a
    model).  What is inductive is an account: the directories counted and those
    still in `todo` are the ones found at the start, and the bytes are those
    counted, those still there and those that a download wrote meanwhile.
* **ThreadsProofs**: the scheduler and the pools.
  - `CallersGetTheirOwn`, `ContextsOutliveWorker`, `PromisesSettleOnce` and
    `RequestsKeepTheirOrder` for any callers and limits, from `LimitAssumption`.
    `SchedInv` says that what the worker has taken and what is queued are
    together what arrived, in that order (`InLine`), that exactly the first
    `Finished` of it are settled (`InPace`), and that the embeddings in hand are
    the batch's (`OwnBatch`); the first two end when the scheduler is torn down
    (`Serving`), after which nobody settles anything.
  - `PoolKeepsOrder` and `PoolDeliversAll`, for any number of workers, texts and
    texts per batch, from `WorkersAssumption` and `ArgumentsAssumption`; the second of
    calls in which no batch failed and, for streams, every worker has texts.  A list is
    `Tight` between two texts when it increases and leaves room on both sides for
    what is missing; tight lists of neighbouring subsets join to tight lists, and
    one as long as its range misses nothing.
* **CachedHandlesProofs**: handles over their caches.
  - `RowsAreRight` (`EmbedsRight`) and `CachedIsRight`, for any texts, batch sizes,
    backends, strategies and number of calls, from `VecAssumption`,
    `CallAssumption` and those of CachePromise.  `EmbedInv` follows a call: every
    position has its row, waits in `miss`, or is yet to be looked up; the buffer
    holds the vectors of the rows that the batches so far reached, which is every
    row after the last batch because the batches cover `1..n` (`BatchesCover`) and
    the sorted order is onto (`OrderIsOnto`).
  - `RanksAreRight` and, for both kinds of handle, `CachesAreRight`, from
    `ScoreAssumption`, `DocsAssumption` and `BorderAssumption`: no two pairs of
    different score read alike when joined by a newline.  The last is what the
    code takes for granted (section 6); it holds whenever queries have one line.
  - `RepeatsAreServed`, from `CacheAssumption` (a capacity, and no expiry).  The
    texts a call has used so far are the most recent ones of the cache, so an
    eviction takes one of them only when there are more than fit.
* **TuningProofs**: the tuning cache.
  - Of an entry file `LoadedIsOneDocument` and `TmpIsRemoved`, for any processes,
    numbers of rows, lengths of the reason, crashes and refusals, from
    `InodesAssumption` and `TablesAssumption`.  A line knows its document, so it is
    enough to know of which documents the lines of an inode are, not where they
    are (`ParsedIsOfDocuments`): an answer takes every field from a line of the
    inode, so its winner and values are of saved documents (`Contents`), and of one
    only when all lines of the inode are (`Unmixed`).  The latter holds while no two
    streams were open for writing on one inode, because a writer then finds its
    inode empty (`Apart`).  For the second theorem, every `.tmp` has a save that has
    yet to rename or remove it, unless a process died (`TmpAttended`).
  - Of the tuners `TunersAnswerBest`, `TunersFailTruly` and `ConstraintsAreKept`, for
    any cores, models, corpora, requests and machine, from `CoresAssumption`,
    `RequestsAssumption` (a request is one the C API lets through) and
    `TimingsAssumption` (an iteration takes at least 1 ms and less than the 999999
    that stand for a failure).  `Search` is a loop over the grid: `ReplacesFirst`
    says when a measurement replaces the sentinel, `ReplacesBetter` that the
    comparison of each tuner is that of its cost, and `SearchFacts` follows from
    them by induction: the loop ends with the sentinel when nothing counts, with
    the least cost otherwise.  `TuneInv` then carries it through the steps of a
    call, and through the entries: an entry is read back only by a request
    of its own identity, which is the one it was measured for up to the query of
    its corpus (`Alike`), so that it still is the best for one of these.
* **HandleCreateProofs**: `HandlesHaveOneOwner`, `HandlesAreWhole` and
  `FailuresLeaveNothing`, for any wrappers, options and number of calls, from
  `OptionsAssumption` and `CallsAssumption`.  `WellOrdered` says what is right about
  the order of the steps of an entry point (nothing is published before it was
  loaded and described; what a step that may fail finds allocated, the catch
  block gives back), and is shown entry point by entry point; `HandleInv` says
  what the steps so far have achieved, and is shown action by action from
  `WellOrdered` alone.  A new entry point therefore needs only the first half.
  Not covered: that the model of a text handle of a GGUF file is loaded
  (`auto_workers`), the reported quantization, and, between calls, the text, sparse
  and image handles that a throwing load leaks and what `create_v2` with AUTO
  overwrites (section 6).
* **QuantAutoProofs**: `HandleReportsItsWeights`, `WithoutBaselineNamedStands` and
  `ChoiceIsNearFastest`, for any registry, rates, weights on disk and number of
  calls, from `RegistryAssumption` and `RatesAssumption`; the last two are about
  selections made in the call, not about decisions read from their file.  Every row of the table
  stands for a variant of the named model (`ListsInv`) and no two for one mode
  once the family has FP32 weights (`ApartInv`), so that a mode names one rate;
  that a fastest row exists needs a bound of the rates, which appending a row
  keeps (`BoundInv`).
* **SparseProofs**: the sparse path, for any files, vocabularies, merges, requests,
  texts, batches and number of calls.
  - `OrtKeptBalanced`.  What exists after two sequences of calls into ONNX
    Runtime is what the first left and the second did not release, and what the
    second left (`HeldConcat`); so loading leaves the session
    (`LoadLeavesSession`, for any threads, quantization and number of inputs and
    outputs) and a run leaves nothing (`RunLeavesNothing`).
  - `LoadedStaysSound`, from `GgufAssumption` (the values of a header have the type
    it states, the shapes of tensors are numbers) and `TextsAssumption`.  That a batch
    stays inside the embedding tables, and not only inside what the header
    declares, is shown of files whose tables have the declared rows
    (`TablesAsDeclared`, `TablesTyped`).  The handle holds what `LoadSession` gave
    (`SparseInv`), so what is left is about the functions: the position at which a
    name is collected is the one at which `bind` reads it (`NamesPlaced`), an id
    is one of the vocabulary or a resolved special one (`Ids`), and padding does
    not go beyond what truncation left.
  - `TokensAlwaysCover`, from these and `JsonAssumption` (merges are pairs).  The
    pieces taken so far spell the word up to where the next one starts
    (`Going`), and every turn of the loop moves that on (`TakeGoesOn`); the
    symbols of a word always are a cut of it (`Segments`), and each merge leaves
    one less, so that the merging has ended after as many turns as the word has
    letters.
  - `SparseAlwaysRight`, from these (`TextsAssumption` adds that batch sizes are
    positive and no list of texts is empty).  The inductive invariant, `AnswerInv`, says of a
    call under way that the vectors collected (`Pooled`, GGUF) or the items written
    (`Written`, `Stores`, ONNX) so far are those of the batches behind it: each is
    the set of terms of its own text, respectively an answer to it, or the text is
    recorded as lost and its vector is empty.  A batch adds to it because the rows
    of a document see its own real tokens only, so padding and neighbours drop out
    of its terms (`TermsOfIs`), and because the graph that runs has the shape of the
    batch, kept or rebuilt.  The invariant also says that an ONNX handle has no
    special ids (`HandleTerms`): its batches take none out, while `TermsOf` reads
    them from the handle.
  - `SameTokensAlways`, from these and `TwinAssumption`: when a `tokenizer.json` and
    a GGUF file are said to be of one model (`SameModel`), namely when they list the
    same surface forms under the same ids, the delimiters among the added tokens,
    lowercase, and the ids the GGUF file declares are those of the forms.  Both
    loaders then fill the same tables (`OfModel`; `SameVocabulary` for the last entry
    of a form against its first position, `ResolvesTo` and `AddedIs` for the
    delimiters), and loops over equal tables agree (`EncodeSame`).

Recursive functions (`Search`, `Among`, the vectors of a pool, the tokenizer's
loops) are handled by the
least input for which a claim fails (lemma `Least`, from the well-foundedness of
`<` on the numbers), as the induction theorems that take a predicate cannot be
instantiated.

## 5. What is only model-checked

The liveness properties `CallEnds`, `QueueDrains` and `StopEnds`: liveness under
fairness, and ENABLED, are outside the prover.  Every safety property that a
run checks is also a theorem.  What the recursive functions of the tokenizer compute
is proved where a property speaks of it; that they compute nothing else is not
stated.

## 6. Where the code and its words differ

Shown by a run: `cache_vector_overload` and `keep_by_name`; `PROJECT.json` quotes
the lines they contradict.

Met while modelling, without a run of their own:

* `detail/quantization_auto_entry.hpp:95`: the decision is keyed by model code,
  which sibling entries share.  A selection for the FP32 entry without FP32
  weights records NONE; AUTO for the quantized sibling then loads that NONE and
  `create_v2` downloads FP32, although `README.md:1292` says that AUTO never
  downloads "and neither does the decision it reaches"
  (`call.mode = "auto" => fetched \subseteq {Named}` as an invariant of
  `MCQuantAuto.cfg` shows it).
* `detail/autotune_bench_reranker_custom.hpp:82`: the identity of a custom tuning
  holds the documents but not the query, so the corpora ("a") and ("a", "b") share
  an entry, although the comment at `:54` says "a tuning measured on one corpus is
  never served for another".  `AnswersBest` allows it through `Alike`; with
  `{call.as}` in its place `MCAutotune.cfg` shows a tuning measured under one query
  answering a request with another.
* `detail/autotune_cache.hpp:398`: every process writes one `.tmp` per entry, and
  nothing keeps two streams from being open on it at once.  The shorter of two
  documents written last then leaves the tail of the other; a row has four lines
  which the reader looks up one by one, so when both measured as many variants
  the file is accepted although a row of it mixes values of two measurements.  The
  comment at `:391` says "Writing to a temporary file and renaming makes the swap
  indivisible".  `LoadsOneDocument` speaks of the rows only while no streams
  `overlapped`; without that condition `MCTuneFile.cfg` shows the mixed row.
* `detail/gguf/gguf_weights.hpp:203`: `load_tensors` reads the tensors as they come
  and compares no shape with what the header declares, while ids and positions
  are checked against the declared counts only (`gguf_sparse_session.hpp:121`,
  `:144`).  A file with a smaller position or token table is taken and indexed
  outside it (the file `short` of `MCSparse`, when `TablesAsDeclared` is dropped from
  `LoadedSound`), although `gguf_sparse_session.hpp` caps the length because "a
  longer sequence would index past the position embeddings".
* `detail/autotune_bench_reranker.hpp:281`: under the throughput objective a
  reranker at one document a second or less is reported as "no configuration
  could be benchmarked" (`Counts`).  `:546`: `auto_config` ranks by throughput
  whatever objective it is given.  `:498`: when nothing meets the constraints
  the answer does not either, although `autotuner.h:160` says "Only considers
  configurations that satisfy both constraints".
* `detail/autotune_bench_text.hpp:189`: a failing embed call is timed like a
  successful one, and the batch size measured is always the worker's share of
  the corpus, never the one under test.
* `detail/autotune_cache_impl.hpp`: a second save under one key appends a
  duplicate that a load never reaches.
* `python/src/libembedding/autotune.py:232`: `cleanup_model_cache(None)` passes an
  empty list, although the docstring says that then "all models are kept".

* `cpp/embedding_pool.hpp:133`: the launching loop of `embed_stream` writes the
  bit of an idle worker in `std::vector<bool>` without the mutex, and can erase
  the bit of a worker that just ended: its vectors are never handed over.
  `IdleLoad` and `IdleStore` model it; `DeliversAll` excludes streams with idle
  workers for this reason.
* `cpp/embedding_pool.hpp:232`: a failed batch is dropped, and the vectors after
  it move up (`OnePerText` as an invariant of `MCPool.cfg` shows it; `DeliversAll`
  is what does hold).
* `detail/llama_scheduler_impl.hpp:79`: `submit` moves its future into the queue
  and then calls `get` on it, which throws: the embedding reaches nobody
  (`SubmitGet`).
* `detail/downloader_impl.hpp:155`: every process writes `<dest>.tmp`; with two
  processes in `MCModelCache.cfg` one publishes what the other has truncated.
* `detail/quantization_auto_impl.hpp:317`: the preference for dynamic INT8 does
  not test that it cleared the floor (FP32 95, dynamic 95, FP16 106 gives
  dynamic), although `autotuner.h:89` keeps FP32 "unless another variant is
  measurably faster" and the comment above the test says it "cleared the floor".
* `detail/quantization_auto_impl.hpp:218`: a variant so slow that its first
  document takes the 250 ms budget is never rejected by the probe.
* `detail/text_embedding_onnx_impl.hpp:185` compares model names by address; with
  literals that are not merged AUTO never selects (`FamilyCounts`).
* `python/src/libembedding/text_embedding.py:102`: without a mode, or when
  nothing could be measured, a quantized entry is loaded as FP32, although the
  docstring says the model's default; and `quantization="auto"` does select.
* `detail/autotune_cache.hpp:417`: with two writers, the one whose rename fails
  because the other took the `.tmp` removes the entry just published (the entry
  is lost).  That a `remove` always succeeds is a simplification of the model.
* `detail/autotune_bench_text.hpp:133`: `benchmark_text_config` never sets
  `opts.model`, so the default model is measured and recorded under the name of
  the one tuned (`Timed`); `auto_select_model` compares such figures.
* `python/src/libembedding/cache.py:106`: an entry overwritten by a vector of
  another dimension between the two passes comes back padded: the `Garbage` that
  `AnswersAreStored` allows a text with vectors of two dimensions.
* `detail/text_embedding_onnx_impl.hpp:125`, `sparse_text_embedding.h:233`,
  `image_embedding.h:159`: when loading throws, the handle made by `new` is out
  of reach of the catch block and leaks; the comment at
  `text_embedding_onnx_impl.hpp:117` is right about the cache only, and
  `NothingOrphaned` says no more than that for these three.
* `detail/reranker_impl.hpp:214`: `create_v2` with the backend AUTO, the default
  of the Python `Reranker`, creates a handle, then a second one over it: the
  first leaks, and the second does not have the requested quantization.  When
  the first fails it does not fall back to GGUF, and neither can
  `lembed_reranker_create`: a failed download is not `MODEL_NOT_FOUND`.
* `detail/reranker_impl.hpp:114`: the reported quantization is the requested one
  whatever file was loaded.
* `detail/reranker_impl.hpp:86` compares the last four characters with `.gguf`,
  so a GGUF file given as a path is read as a directory.
* `detail/text_embedding_llama_impl.hpp:79`: with `auto_workers` the pool is
  loaded and the session is not, so the handle reports dimension 0.
* `detail/onnx_session_impl.hpp:200`: when a call of `run` or `load_from_file` into
  onnxruntime fails, `ort_check` throws and the options, memory info and values
  created before it are never released (`OnnxThrows`, `OpenOnnxThrows`); so
  `OrtBalanced` speaks of the time until a call throws.
* `embedding_cache.h:35` does not mention that a lookup of an expired entry also
  ends a borrow.
* `detail/text_embedding_impl.hpp:221`: under the sequential strategy
  `batches_run` is not the number of batches run; the reranker counts batches of cached documents too
  (`detail/reranker_impl.hpp:412`), and misses without a cache (`:331`).
* `docs/en/advanced_usage.md:125` calls the repeat within one call a cache hit;
  the code looks all texts up before it stores any.
* `detail/downloader_impl.hpp:178` ignores the result of `fclose`
  (`DiskMayFill = TRUE` in `MCModelCache.cfg` breaks `PublishedWhole`).
* `detail/reranker_impl.hpp:316`: the key of ("a", "b\nc") is that of
  ("a\nb", "c"); multi-line queries can be served another pair's score.  `BorderAssumption` is
  what the theorems about rerankers suppose instead.
* `downloader.h:368`: a keep list is compared by directory name, in which
  `repo_to_dirname` (`detail/downloader_impl.hpp`) has turned every `/` into `-`:
  keeping "a/b-c" keeps "a-b/c" as well.  A clean-up that does not keep a model
  may remove files of it under a call that is loading it, which still answers OK
  (`KeptIsEnsured` supposes `Spared`).  `:78`: `freed_bytes` also counts
  directories whose `remove_all` failed, so `CleanupTells` asks for no more than
  an upper bound then.
* `downloader.h:252` (`lembed_resolve_gguf_path`): a GGUF path of the form "owner/name/file" is split
  at its first slash, and `lembed_find_gguf_model`
  (`detail/gguf_registry_impl.hpp:129`) answers with the first
  registry entry of which the name is a part, in any case.
* `detail/sparse_postprocess.hpp:135` promises the heaviest first whenever `top_k`
  is given; with INDEX_ORDER the result is sorted by index.
* `detail/gguf/gguf_weights.hpp:371` says that a file without the ids of its
  special tokens "has already been refused"; `accept` does not check that
  capability, and such a file is loaded, with the weights of [CLS] and [SEP]
  left in its vectors.  The ONNX backend never takes special tokens out, although
  `detail/sparse_postprocess.hpp:125` says that the backends cannot drift apart.
* `detail/tokenizer_impl.hpp:631`: a word with an unknown tail is said to become
  [UNK] as a whole; only one without any known beginning does, other tails are
  dropped (`Covers`).  `:137`: the accented letters of Latin Extended-A, which the
  comment lists, mostly fall out of the text.  `:465`: accents "are not stripped",
  but they are.  `:474`: ids are "never guessed", but the last resort is a
  fixed id (`ResolveSpecial`).
* `detail/sparse_text_embedding_gguf_impl.hpp`: when `embed` throws, the catch
  block frees the result structure, which has not been written yet (`GgufThrows`);
  and when the ONNX path cannot allocate its items the caller gets a count with a
  null pointer (`EmbedNoItems`), which the comment at `:75` says must not happen.
* `image_embedding.h:223`: `embed_files` leaves the handle's counters alone, unlike
  `embed_bytes`.
* `detail/llama_session_impl.hpp:265` frees the contexts before the member
  `scheduler_` is destroyed; `NoUseAfterFree` and `OwnEmbedding` therefore speak
  of pools whose scheduler was disabled first.

## 7. Plan

1. Done: the cache with its promise and its clients, text embedding, reranking,
   pools, scheduler, downloader and clean-ups, the choice of a quantization, the
   tuning cache files, handle creation and ownership, the tuners' searches, the
   sparse path with tokenizer, GGUF files and ONNX sessions; proofs of every
   safety property of these.
2. To model next: the llama session pool's contexts with their mutexes and
   bucketed batches, composed with LlamaScheduler; the JSON tune cache
   (`autotune_cache_impl.hpp`) and `auto_select_model`; `lembed_resolve_gguf_path`;
   `run_float` and `select_output` of the ONNX session with the image batch loop.

## 8. What is not modelled

* Floating-point arithmetic: pooling, normalisation, similarity, the transformer
  graph, image pixels.
* `lembed_resolve_gguf_path`, `lembed_sparse_best_config`, `run_float` and
  `select_output` of the ONNX session, image embedding (a sequential loop that
  keeps nothing between images), the batching inside the llama session pool, the
  JSON tune cache.
* Worker autotuning (arithmetic on hardware facts), the model selector and the
  session factory (nothing in the library calls them).
* The static model tables, benchmarks and timing, and the libraries themselves
  (ONNX Runtime, llama.cpp, curl), which appear only through how the code uses
  them.  Allocation failure is modelled where the code tests for it.
* Six listed hazards have no property, because they do go wrong, as section 6
  tells: the data race on `std::vector<bool>` in `cpp/embedding_pool.hpp:133` and the
  failed batches at `:232`, what two processes loading one model do to its `.tmp`
  (`detail/downloader_impl.hpp:155`), keys of multi-line queries
  (`detail/reranker_impl.hpp:316`), handles whose loading throws
  (`detail/text_embedding_onnx_impl.hpp:109`); and a stalled transfer, as curl has
  no timeout, blocks `ensure_model` for ever.
