---------------------------- MODULE SparseEmbed ----------------------------
(***************************************************************************)
(* Sparse text embedding (sparse_text_embedding.h and its GGUF half): one  *)
(* caller opens a SPLADE model, from a GGUF file or as ONNX, embeds lists  *)
(* of texts, reads the answer and frees it.                                *)
(*                                                                         *)
(* The transformer is external: a token's hidden state is a function of    *)
(* the token, its position and the (position, token) pairs the attention   *)
(* mask lets it see, and Logit gives its logit for a vocabulary entry.     *)
(* log(1 + x) is increasing, so a weight is the positive logit itself.     *)
(***************************************************************************)
EXTENDS GgufFile, OnnxSession, Batching

CONSTANTS
    GgufFiles,      \* GGUF files by name
    JsonFiles,      \* tokenizer.json documents of ONNX models by name
    Twin,           \* the tokenizer.json of the same model, for some GGUF files
    Requests,       \* max_length a caller asks for
    TextLists,      \* the lists of texts a caller embeds
    BatchSizes, Options,
    OnnxVocab,      \* the last dimension of the ONNX model's output
    Logit(_, _),
    MaxThrows,      \* bound on the calls that throw
    MaxCalls        \* bound on the embed calls

(* The header types of a GGUF file; a text is a sequence of code points.   *)
ASSUME GgufAssumption ==
    \A name \in DOMAIN GgufFiles :
        LET kv == GgufFiles[name].kv
            tensors == GgufFiles[name].tensors
        IN /\ \A key \in DOMAIN kv :
                 /\ kv[key].t \in {"i32", "u32"} => kv[key].v \in Int
                 /\ kv[key].t = "strs" => kv[key].v \in Seq(Seq(Nat))
           /\ \A n \in DOMAIN tensors : tensors[n].ne \in Int \X Int
ASSUME JsonAssumption ==
    \A name \in DOMAIN JsonFiles : LET json == JsonFiles[name] IN
        /\ json.added \in Seq(Seq(Nat) \X Int)
        /\ \A m \in json.model : /\ m.merges \in Seq(Seq(Nat) \X Seq(Nat))
                                /\ m.vocab \in Seq(Seq(Nat) \X Int)
(* A GGUF file and a tokenizer.json of one model, an uncased WordPiece one: *)
(* the same surface forms under the same ids, [CLS], [SEP] and [UNK] in     *)
(* both, each id that the file declares the one of its form.                *)
SameModel(f, json) ==
    LET tokens == f.kv[<<"tokenizer", "tokens">>].v
        sep == IF TokenId(f, "separator_token_id") >= 0
               THEN "separator_token_id" ELSE "eos_token_id"
        Means(key, form) == TokenId(f, key) \in 0..(Len(tokens) - 1)
                              => tokens[TokenId(f, key) + 1] = form
        added == {e[1] : e \in Range(json.added)}
        norm == json.normalizer
    IN /\ IsInjective(tokens)
       /\ BoolOr(f, <<"tokenizer", "adding_bos_token">>, TRUE)
       /\ BoolOr(f, <<"tokenizer", "adding_eos_token">>, TRUE)
       /\ Means("unk_token_id", UNK) /\ Means("cls_token_id", CLS) /\ Means(sep, SEP)
       /\ json.model # {}
       /\ \A m \in json.model :
            LET entries == Range(m.vocab) \cup Range(json.added) IN
            /\ m.type \notin {"BPE", "bpe"} /\ m.prefix \in {{}, {HashHash}}
            /\ \A e \in entries : \E k \in DOMAIN tokens : e = <<tokens[k], k - 1>>
            /\ Range(tokens) = {e[1] : e \in entries}
       /\ {CLS, SEP, UNK} \subseteq added
       /\ {BOS, EOS, <<60, 117, 110, 107, 62>>} \cap added = {}
       /\ \/ norm.type \in {"Sequence", "untyped"}
          \/ norm.type \in {"BertNormalizer", "Lowercase"} /\ norm.lowercase \in {"absent", "true"}
ASSUME TwinAssumption ==
    \A name \in DOMAIN Twin :
        /\ name \in DOMAIN GgufFiles /\ Twin[name] \in DOMAIN JsonFiles
        /\ SameModel(GgufFiles[name], JsonFiles[Twin[name]])
(* An empty list of texts is refused, a batch size of 0 or less is replaced. *)
ASSUME TextsAssumption ==
    /\ TextLists \subseteq Seq(Seq(Nat)) \ {<<>>} /\ Requests \subseteq Int
    /\ BatchSizes \subseteq Nat \ {0} /\ OnnxVocab \in Nat
    /\ \A opts \in Options : opts.topK \in Int

VARIABLES
    handle,     \* the open context
    call,       \* the embed call under way
    res,        \* the caller's result structure
    ort,        \* ONNX Runtime objects that exist
    throws, calls

vars == <<handle, call, res, ort, throws, calls>>

Closed == [backend |-> "none"]
Idle == [at |-> "idle"]
Unwritten == [count |-> 0, items |-> {}, by |-> "caller", freed |-> ""]

NoGraph == [seqLen |-> 0, batch |-> 0]      \* graph_.ctx is null

Init ==
    /\ handle = Closed /\ call = Idle /\ res = Unwritten
    /\ ort = {} /\ throws = 0 /\ calls = 0

-----------------------------------------------------------------------------
(* Opening and closing.  A refused file opens nothing. *)
OnnxInputs == <<"input_ids", "attention_mask">>

OpenGguf(name, request, memory) ==
    /\ handle = Closed
    /\ \E s \in LoadSession(GgufFiles[name], request, memory) :
          handle' = [backend |-> "gguf", file |-> name, tok |-> s.tok,
                     vocabSize |-> s.vocabSize, positions |-> s.positions,
                     specialIds |-> s.specialIds, graph |-> NoGraph,
                     texts |-> 0, batches |-> 0]
    /\ UNCHANGED <<call, res, ort, throws, calls>>

OpenOnnx(name, request) ==
    /\ handle = Closed
    /\ LET steps == LoadSteps(0, "none", OnnxInputs, 1) IN
       ort' = ort \cup Held(steps, Len(steps))
    /\ handle' = [backend |-> "onnx", file |-> name,
                  tok |-> LoadFromBlob(JsonFiles[name], request),
                  vocabSize |-> OnnxVocab, specialIds |-> {},
                  texts |-> 0, batches |-> 0]
    /\ UNCHANGED <<call, res, throws, calls>>

(* The model does not load: the exception leaves the objects made so far.  *)
OpenOnnxThrows ==
    /\ handle = Closed /\ throws < MaxThrows
    /\ LET steps == LoadSteps(0, "none", OnnxInputs, 1) IN
       \E k \in MayThrow(steps) : ort' = ort \cup Held(steps, k - 1)
    /\ throws' = throws + 1
    /\ UNCHANGED <<handle, call, res, calls>>

Close ==
    /\ handle # Closed /\ call = Idle
    /\ handle' = Closed /\ ort' = ort \ {<<"session">>}
    /\ UNCHANGED <<call, res, throws, calls>>

-----------------------------------------------------------------------------
(* The encoder and its head.  A row sees the real tokens of its own        *)
(* document; a document without one sees itself.                           *)
BuildMask(mask) ==
    LET valid == {j \in DOMAIN mask : mask[j]} IN
    [i \in DOMAIN mask |-> IF valid = {} THEN {i} ELSE valid]
EncoderRow(ids, plane, i) ==
    [tok |-> ids[i], pos |-> i, seen |-> {<<j, ids[j]>> : j \in plane[i]}]

(* max over a document's tokens of log(1 + relu(logit)).  The terms of a   *)
(* vector are a set: every vector is ordered before it is stored.          *)
SpladePool(rows, mask, vocabSize) ==
    LET Score(v) == Max({0} \cup {Logit(rows[i], v) : i \in {i \in DOMAIN rows : mask[i]}})
    IN {e \in {[i |-> v, w |-> Score(v)] : v \in 0..(vocabSize - 1)} : e.w > 0}
DropSpecialTokens(sr, specialIds) == {e \in sr : e.i \notin specialIds}

(* Every document of an encoded batch. *)
PoolBatch(enc, vocabSize, specialIds) ==
    [b \in DOMAIN enc.ids |->
        LET plane == BuildMask(enc.mask[b])
            rows == [i \in 1..enc.seqLen |-> EncoderRow(enc.ids[b], plane, i)]
        IN DropSpecialTokens(SpladePool(rows, enc.mask[b], vocabSize), specialIds)]

-----------------------------------------------------------------------------
(* sparse_prune_and_sort.  partial_sort and sort leave equal weights in    *)
(* any order: the set of vectors that can come out.                        *)
Heaviest(terms, k) ==
    {s \in kSubset(k, terms) : \A x \in s, y \in terms \ s : x.w >= y.w}

Ordered(terms, format) ==
    {s \in SetToSeqs(terms) : \A a, b \in DOMAIN s : a < b =>
        IF format = "INDEX_ORDER" THEN s[a].i < s[b].i ELSE s[a].w >= s[b].w}

PruneAndSort(sr, opts) ==
    LET heavy == {e \in sr : opts.minWeight <= 0 \/ e.w >= opts.minWeight}
        tops == IF opts.topK > 0 /\ Cardinality(heavy) > opts.topK
                THEN Heaviest(heavy, opts.topK) ELSE {heavy}
    IN UNION {Ordered(top, opts.format) : top \in tops}

-----------------------------------------------------------------------------
(* The embed call.  opts: the caller's sparse_opts, or the context's.      *)
BatchSeq(b) ==
    LET ps == Batch(b, Len(call.texts), call.size) IN
    [i \in 1..Cardinality(ps) |-> call.texts[Min(ps) + i - 1]]

LastBatch == call.b = BatchCount(Len(call.texts), call.size)

Embed(texts, size, opts) ==
    /\ handle # Closed /\ call = Idle /\ calls < MaxCalls
    /\ calls' = calls + 1
    /\ call' = [at |-> handle.backend, texts |-> texts, size |-> size, opts |-> opts,
                b |-> 1, out |-> <<>>, lost |-> {}, status |-> ""]
    /\ res' = IF handle.backend = "gguf" THEN res
              ELSE [count |-> Len(texts), items |-> {[p \in 1..Len(texts) |-> <<>>]},
                    by |-> "call", freed |-> ""]
    /\ UNCHANGED <<handle, ort, throws>>

(* calloc fails on the ONNX path, where the count is already set.          *)
EmbedNoItems(texts, size, opts) ==
    /\ handle # Closed /\ handle.backend = "onnx" /\ call = Idle /\ calls < MaxCalls
    /\ calls' = calls + 1
    /\ res' = [count |-> Len(texts), items |-> {}, by |-> "call", freed |-> ""]
    /\ call' = [at |-> "ended", texts |-> texts, size |-> size, opts |-> opts,
                b |-> 1, out |-> <<>>, lost |-> {}, status |-> "OUT_OF_MEMORY"]
    /\ UNCHANGED <<handle, ort, throws>>

(* embed_batch of the GGUF session.  The graph is kept from batch to batch *)
(* and rebuilt for another shape.                                          *)
FeedShape(enc) == [seqLen |-> enc.seqLen, batch |-> Len(enc.ids)]
NeedsRebuildSeqOnly(graph, shape) == graph.seqLen # shape.seqLen
NeedsRebuild(graph, shape) == graph # shape
RunGraph(enc) ==        \* the rows, from the graph that is in place
    LET shape == FeedShape(enc)
        graph == IF NeedsRebuild(handle.graph, shape) THEN shape ELSE handle.graph
    IN IF graph = shape THEN PoolBatch(enc, handle.vocabSize, handle.specialIds)
       ELSE [b \in DOMAIN enc.ids |-> {[i |-> -1, w |-> -1]}]      \* read out of bounds

GgufBatch ==
    /\ call.at = "gguf"
    /\ \E enc \in {EncodeBatch(handle.tok, BatchSeq(call.b))} :
       LET empty == [b \in DOMAIN enc.ids |-> {}]
       IN \/ /\ enc.seqLen = 0
             /\ call' = [call EXCEPT !.out = @ \o empty, !.b = @ + 1,
                                     !.at = IF LastBatch THEN "store" ELSE @]
             /\ UNCHANGED handle
          \/ /\ enc.seqLen > 0
             /\ call' = [call EXCEPT !.out = @ \o RunGraph(enc), !.b = @ + 1,
                                     !.at = IF LastBatch THEN "store" ELSE @]
             /\ handle' = [handle EXCEPT !.graph = FeedShape(enc)]
          \/ /\ enc.seqLen > 0      \* the build or the computation failed: no logits
             /\ call' = [call EXCEPT !.out = @ \o empty, !.b = @ + 1,
                                     !.lost = @ \cup Batch(call.b, Len(call.texts), call.size),
                                     !.at = IF LastBatch THEN "store" ELSE @]
             /\ \/ handle' = [handle EXCEPT !.graph = FeedShape(enc)]
                \/ /\ NeedsRebuild(handle.graph, FeedShape(enc))
                   /\ handle' = [handle EXCEPT !.graph = NoGraph]
    /\ UNCHANGED <<res, ort, throws, calls>>

(* scratch_.resize and the other containers can run out of memory: the     *)
(* handler frees the result, which this path has not written yet.          *)
GgufThrows ==
    /\ call.at = "gguf" /\ throws < MaxThrows
    /\ throws' = throws + 1
    /\ res' = [count |-> 0, items |-> {}, by |-> "call", freed |-> res.by]
    /\ call' = [call EXCEPT !.at = "ended", !.status = "GGUF"]
    /\ UNCHANGED <<handle, ort, calls>>

(* sparse_result_store: a vector whose buffers cannot be allocated is      *)
(* stored as the empty one.                                                *)
Stored(vectors, opts, noMemory) ==
    LET kept == [d \in DOMAIN vectors |->
                    IF d \in noMemory THEN {<<>>} ELSE PruneAndSort(vectors[d], opts)]
    IN {items \in [DOMAIN vectors -> UNION Range(kept)] :
            \A d \in DOMAIN vectors : items[d] \in kept[d]}

GgufStore ==
    /\ call.at = "store"
    /\ \E noMemory \in SUBSET DOMAIN call.out :
         \E items \in Stored(call.out, call.opts, noMemory) :
            /\ res' = [count |-> Len(call.out), items |-> {items}, by |-> "call", freed |-> ""]
            /\ call' = [call EXCEPT !.at = "ended", !.status = "OK", !.lost = @ \cup noMemory]
    /\ handle' = [handle EXCEPT !.texts = @ + Len(call.out),
                                !.batches = @ + BatchCount(Len(call.texts), call.size)]
    /\ UNCHANGED <<ort, throws, calls>>

GgufStoreNoItems ==
    /\ call.at = "store"
    /\ res' = [count |-> 0, items |-> {}, by |-> "call", freed |-> ""]
    /\ call' = [call EXCEPT !.at = "ended", !.status = "OUT_OF_MEMORY"]
    /\ UNCHANGED <<handle, ort, throws, calls>>

(* One batch of the ONNX path: run, pool, prune and store.                 *)
OnnxBatch ==
    /\ call.at = "onnx"
    /\ \E enc \in {EncodeBatch(handle.tok, BatchSeq(call.b))} :
       LET start == Min(Batch(call.b, Len(call.texts), call.size)) - 1
           steps == RunSteps(OnnxInputs, 1)
           vectors == PoolBatch(enc, handle.vocabSize, {})
       IN /\ ort' = ort \cup Held(steps, Len(steps))
          /\ \E noMemory \in SUBSET DOMAIN vectors :
             \E stored \in Stored(vectors, call.opts, noMemory) :
                /\ res' = [res EXCEPT !.items =
                     {[p \in DOMAIN items |-> IF p - start \in DOMAIN stored
                                              THEN stored[p - start] ELSE items[p]] : items \in @}]
                /\ call' = [call EXCEPT !.b = @ + 1,
                                        !.lost = @ \cup {start + d : d \in noMemory},
                                        !.at = IF LastBatch THEN "ended" ELSE @,
                                        !.status = IF LastBatch THEN "OK" ELSE @]
    /\ handle' = IF ~LastBatch THEN handle
                 ELSE [handle EXCEPT !.texts = @ + Len(call.texts), !.batches = @ + call.b]
    /\ UNCHANGED <<throws, calls>>

OnnxThrows ==
    /\ call.at = "onnx" /\ throws < MaxThrows
    /\ LET steps == RunSteps(OnnxInputs, 1) IN
       \E k \in MayThrow(steps) : ort' = ort \cup Held(steps, k - 1)
    /\ throws' = throws + 1
    /\ res' = [count |-> 0, items |-> {}, by |-> "call", freed |-> res.by]
    /\ call' = [call EXCEPT !.at = "ended", !.status = "ONNX_RUNTIME"]
    /\ UNCHANGED <<handle, calls>>

(* The caller has read the answer and frees it. *)
Return ==
    /\ call.at = "ended"
    /\ call' = Idle /\ res' = Unwritten
    /\ UNCHANGED <<handle, ort, throws, calls>>

Next ==
    \/ \E name \in DOMAIN GgufFiles, request \in Requests, memory \in BOOLEAN :
          OpenGguf(name, request, memory)
    \/ \E name \in DOMAIN JsonFiles, request \in {r \in Requests : r > 0} : OpenOnnx(name, request)
    \/ OpenOnnxThrows \/ Close
    \/ \E texts \in TextLists, size \in BatchSizes, opts \in Options :
          Embed(texts, size, opts) \/ EmbedNoItems(texts, size, opts)
    \/ GgufBatch \/ GgufThrows \/ GgufStore \/ GgufStoreNoItems
    \/ OnnxBatch \/ OnnxThrows \/ Return

Spec == Init /\ [][Next]_vars

-----------------------------------------------------------------------------
(* A document's terms, without a batch: the heaviest positive logit of     *)
(* each vocabulary entry over the document's own tokens.                   *)
TermsOf(text) ==
    LET ids == Encode(handle.tok, text)
        seen == {<<j, ids[j]>> : j \in DOMAIN ids}
        Weight(v) == Max({0} \cup {Logit([tok |-> ids[k], pos |-> k, seen |-> seen], v) :
                                   k \in DOMAIN ids})
    IN {[i |-> v, w |-> Weight(v)] :
          v \in {v \in 0..(handle.vocabSize - 1) : Weight(v) > 0} \ handle.specialIds}

Answers(vector, terms, opts) ==
    LET heavy == {t \in terms : opts.minWeight <= 0 \/ t.w >= opts.minWeight}
        kept == Range(vector)
    IN /\ IsInjective(vector) /\ kept \subseteq heavy
       /\ Len(vector) = IF opts.topK > 0 THEN Min({opts.topK, Cardinality(heavy)})
                        ELSE Cardinality(heavy)
       /\ \A x \in kept, y \in heavy \ kept : x.w >= y.w
       /\ \A a, b \in DOMAIN vector : a < b =>
             IF opts.format = "INDEX_ORDER" THEN vector[a].i < vector[b].i
             ELSE vector[a].w >= vector[b].w

(* A call that returned OK gives every text, in its place, the pruned and  *)
(* ordered vector of that text alone: padding, the other texts of the      *)
(* batch, the batch before it and the graph kept from it leave no trace.   *)
(* A text whose graph or buffers failed has the empty vector.              *)
SparseRight ==
    call # Idle /\ call.at = "ended" /\ call.status = "OK" =>
        /\ res.count = Len(call.texts)
        /\ \E items \in res.items :
             /\ DOMAIN items = DOMAIN call.texts
             /\ \A p \in DOMAIN items :
                  IF p \in call.lost THEN items[p] = <<>>
                  ELSE Answers(items[p], TermsOf(call.texts[p]), call.opts)

(* A call that is about to tokenise its first batch. *)
Starting == call # Idle /\ call.at \in {"gguf", "onnx"} /\ call.b = 1

(* Every field of the loaded weights holds the tensor of its own name.     *)
WeightsInPlace(f) ==
    LET layers == Only(Hparams(f).layer)
        w == Bind(RequiredNames(layers), layers)
    IN /\ \A k \in 1..5 : w.head[EmbeddingFields[k]] = Named(EmbeddingNames[k])
       /\ \A k \in 1..5 : w.head[HeadFields[k]] = Named(HeadNames[k])
       /\ \A il \in 0..(layers - 1), k \in 1..16 :
             w.layer[il][LayerFields[k]] = <<"enc", il, LayerNames[k]>>

(* The embedding tables, whose rows the graph looks up by token id and by  *)
(* position, have the rows that the header declares.  Nothing in the code  *)
(* compares the two: a file with smaller tables is taken.                  *)
Rows(f, name) == f.tensors[Named(name)].ne[2]
TablesAsDeclared(f) ==
    /\ Rows(f, "token_embd") >= Only(Hparams(f).vocab)
    /\ Rows(f, "position_embd") >= Only(Hparams(f).pos)

(* What an accepted GGUF file feeds its graph stays inside the vocabulary  *)
(* and the context length that its header declares and, if its tables have *)
(* the rows it declares, inside the tables: every token id has a row and   *)
(* every position has one (gguf_sparse_session.hpp: "a longer sequence     *)
(* would index past the position embeddings").  The runtime takes no file  *)
(* that the inspector would not call sparse, and binds each weight to its  *)
(* name.                                                                   *)
LoadedSound ==
    handle # Closed /\ handle.backend = "gguf" =>
        /\ call = Idle => /\ Summary(Classify(GgufFiles[handle.file])) = "sparse"
                          /\ WeightsInPlace(GgufFiles[handle.file])
        /\ Starting =>
             LET enc == EncodeBatch(handle.tok, call.texts) IN
             /\ enc.seqLen <= handle.positions
             /\ \A b \in DOMAIN enc.ids : Range(enc.ids[b]) \subseteq 0..(handle.vocabSize - 1)
             /\ TablesAsDeclared(GgufFiles[handle.file]) =>
                  /\ enc.seqLen <= Rows(GgufFiles[handle.file], "position_embd")
                  /\ \A b \in DOMAIN enc.ids :
                        Range(enc.ids[b]) \subseteq
                            0..(Rows(GgufFiles[handle.file], "token_embd") - 1)

(* The ways to cut a word into n parts, told by where they end.            *)
Cuts(n, word) ==
    {cut \in [0..n -> 0..Len(word)] : cut[0] = 0 /\ \A k \in 1..n : cut[k - 1] < cut[k]}

Covers(tk, word) ==
    LET ids == WordPiece(tk, word)
        Known(s, e) == Piece(tk, word, s, e) \in DOMAIN tk.vocab
        NoneAfter(s, e) == \A longer \in (e + 1)..Len(word) : ~Known(s, longer)
    IN \/ ids = <<tk.unk>> /\ NoneAfter(1, 0)
       \/ \E cut \in Cuts(Len(ids), word) :
            /\ \A k \in 1..Len(ids) :
                 /\ Known(cut[k - 1] + 1, cut[k]) /\ NoneAfter(cut[k - 1] + 1, cut[k])
                 /\ ids[k] = tk.vocab[Piece(tk, word, cut[k - 1] + 1, cut[k])]
            /\ NoneAfter(cut[Len(ids)] + 1, cut[Len(ids)])

(* The symbols of a word that byte pairs were merged in are cut from it,   *)
(* all of it is used, and no pair that could be merged is left.            *)
Merged(tk, word) ==
    LET s == BPESymbols(tk, word) IN
    /\ \E cut \in Cuts(Len(s), word) :
         /\ cut[Len(s)] = Len(word)
         /\ \A k \in 1..Len(s) : s[k] = SubSeq(word, cut[k - 1] + 1, cut[k])
    /\ \A i \in 1..(Len(s) - 1) : <<s[i], s[i + 1]>> \notin DOMAIN tk.ranks

(* A word is spelled by the longest known pieces from its left end, and    *)
(* what stays unspelled has no known piece to go on with; byte pairs spell *)
(* the whole word and no pair that could be merged is left.  The delimiters *)
(* are there, cut texts included.                                          *)
TokensCover ==
    Starting => \A d \in DOMAIN call.texts :
        LET tk == handle.tok
            ids == Encode(tk, call.texts[d])
            words == Words(tk, call.texts[d])
        IN /\ tk.special => /\ ids[Len(ids)] = tk.sep
                            /\ tk.maxLength > 1 => ids[1] = tk.cls
           /\ \A k \in DOMAIN words :
                IF tk.type = "WORDPIECE" THEN Covers(tk, words[k])
                ELSE Merged(tk, words[k])

(* The two backends of one model give a text the same ids, from the        *)
(* vocabulary array as from tokenizer.json (tokenizer_impl.hpp: "must      *)
(* produce the same ids for the same text").                               *)
SameTokens ==
    Starting /\ handle.backend = "gguf" /\ handle.file \in DOMAIN Twin =>
        LET twin == LoadFromBlob(JsonFiles[Twin[handle.file]], handle.tok.maxLength) IN
        \A d \in DOMAIN call.texts :
            Encode(handle.tok, call.texts[d]) = Encode(twin, call.texts[d])

(* As long as no call threw, the only ONNX Runtime object is the session   *)
(* of the open handle: a run gives back all it made.                       *)
OrtBalanced ==
    throws = 0 => ort = IF handle # Closed /\ handle.backend = "onnx"
                        THEN {<<"session">>} ELSE {}

=============================================================================
