------------------------------ MODULE GgufFile ------------------------------
(***************************************************************************)
(* Reading a GGUF file for the sparse runtime (detail/gguf): the typed     *)
(* header probe, the classification that lembed_gguf_inspect reports and   *)
(* that decides whether the runtime takes the file, the hyper-parameters   *)
(* and the weights, and the tokenizer built from the file's vocabulary.    *)
(*                                                                         *)
(* A file is a record: readable (gguf_init_from_file succeeds), kv from    *)
(* keys to typed values, tensors from names to shapes.  "<arch>.<field>"   *)
(* is the pair <<arch, field>>.  Epsilons count: only their sign matters.  *)
(***************************************************************************)
EXTENDS Tokenizer

CONSTANT IntMax     \* INT32_MAX

(* Probe: an accessor answers only for a key of its own type. *)
Typed(f, key, types) == key \in DOMAIN f.kv /\ f.kv[key].t \in types

HasI32(f, key) ==
    \/ Typed(f, key, {"i32"})
    \/ Typed(f, key, {"u32"}) /\ f.kv[key].v <= IntMax
HasF32(f, key) == Typed(f, key, {"f32", "f64"})
HasStr(f, key) == Typed(f, key, {"str"})
HasStrs(f, key) == Typed(f, key, {"strs"}) /\ Len(f.kv[key].v) > 0

BoolOr(f, key, default) ==
    IF Typed(f, key, {"bool", "u8"}) THEN f.kv[key].v # 0 ELSE default

HasTensor(f, name) == name \in DOMAIN f.tensors

Numel(f, name) ==      \* the product of the shape, none for a zero dimension
    IF ~HasTensor(f, name) \/ \E d \in Range(f.tensors[name].ne) : d <= 0 THEN {}
    ELSE {FoldLeft(LAMBDA a, b : a * b, 1, f.tensors[name].ne)}

Arch(f) == IF HasStr(f, <<"general", "architecture">>)
           THEN f.kv[<<"general", "architecture">>].v ELSE ""

(* The first spelling of a field that the file has; none without an        *)
(* architecture.                                                           *)
ArchI32(f, spellings) ==
    LET found == {i \in DOMAIN spellings : HasI32(f, <<Arch(f), spellings[i]>>)} IN
    IF Arch(f) = "" \/ found = {} THEN {} ELSE {f.kv[<<Arch(f), spellings[Min(found)]>>].v}

ArchF32(f, spellings) ==
    LET found == {i \in DOMAIN spellings : HasF32(f, <<Arch(f), spellings[i]>>)} IN
    IF found = {} THEN {} ELSE {f.kv[<<Arch(f), spellings[Min(found)]>>].v}

-----------------------------------------------------------------------------
(* Classification. *)
Named(name) == <<"head", name>>

CapabilityRules ==
    [mlm_transform |-> "SPLADE", sparse_linear |-> "SPARSE_LINEAR",
     colbert_linear |-> "COLBERT", classifier_dense |-> "RERANKER"]

SpecialKeys == {"pad_token_id", "bos_token_id", "eos_token_id", "cls_token_id",
                "separator_token_id"}

Capabilities(f) ==
    {"DENSE"} \cup {CapabilityRules[t] : t \in {t \in DOMAIN CapabilityRules : HasTensor(f, Named(t))}}
      \cup (IF HasTensor(f, Named("mlm_transform")) /\ HasTensor(f, Named("mlm_bias"))
            THEN {"SPLADE_BIAS"} ELSE {})
      \cup (IF HasTensor(f, Named("mlm_transform")) /\ ~HasTensor(f, Named("mlm_head"))
            THEN {"TIED_DECODER"} ELSE {})
      \cup (IF \E k \in SpecialKeys : HasI32(f, <<"tokenizer", k>>)
            THEN {"SPECIAL_TOKENS"} ELSE {})

ResolveFormula(f, caps, vocabSize) ==
    LET n == Numel(f, Named("sparse_linear")) IN
    CASE {"SPLADE", "SPARSE_LINEAR"} \subseteq caps ->
            IF vocabSize # {} /\ n = {1} THEN "SCALAR"
            ELSE IF vocabSize # {} /\ n = vocabSize THEN "SPLADE" ELSE "UNKNOWN"
      [] "SPLADE" \in caps /\ "SPARSE_LINEAR" \notin caps -> "SPLADE"
      [] "SPARSE_LINEAR" \in caps /\ "SPLADE" \notin caps -> "SCALAR"
      [] OTHER -> "UNKNOWN"

Classify(f) ==
    LET vocabSize == ArchI32(f, <<"vocab_size">>)
        width == ArchI32(f, <<"embedding_length", "hidden_size">>)
        caps == Capabilities(f)
        formula == ResolveFormula(f, caps, vocabSize)
        linears == {"SPLADE", "SPARSE_LINEAR"}
        missing == (IF Arch(f) = "" THEN {"general.architecture"} ELSE {})
              \cup (IF vocabSize = {} THEN {"vocab_size"} ELSE {})
              \cup (IF width = {} THEN {"embedding_length"} ELSE {})
        desc == [diagnostic |-> "", missing |-> missing, vocabSize |-> vocabSize,
                 capabilities |-> {}, formula |-> "UNKNOWN"]
    IN IF ~f.readable THEN [desc EXCEPT !.diagnostic = "unreadable"]
       ELSE IF ~HasTensor(f, Named("token_embd"))
       THEN [desc EXCEPT !.diagnostic = "missing encoder tensor",
                         !.missing = @ \cup {"token_embd"}]
       ELSE IF linears \cap caps # {} /\ vocabSize = {}
       THEN [desc EXCEPT !.diagnostic = "sparse head without vocab_size",
                         !.capabilities = caps \ linears]
       ELSE [desc EXCEPT !.capabilities = caps, !.formula = formula,
                         !.missing = @ \cup
                            (IF linears \subseteq caps /\ formula = "SCALAR"
                             THEN {"sparse_linear.out_dim"} ELSE {})]

(* What lembed_gguf_inspect tells a caller of a description. *)
Summary(desc) ==
    IF desc.diagnostic # "" /\ desc.capabilities = {} THEN "unsupported"
    ELSE IF {"SPLADE", "SPARSE_LINEAR"} \cap desc.capabilities # {} /\ desc.formula # "UNKNOWN"
    THEN "sparse"
    ELSE IF "DENSE" \in desc.capabilities THEN "dense" ELSE "unsupported"

(* SparseSession::accept. *)
Accepts(f) ==
    LET d == Classify(f) IN
    /\ f.readable /\ d.diagnostic = ""
    /\ "SPLADE" \in d.capabilities /\ d.formula = "SPLADE"
    /\ d.vocabSize # {} /\ d.missing = {}
    /\ "SPARSE_LINEAR" \notin d.capabilities
-----------------------------------------------------------------------------
(* Weights::open: every dimension comes from the file, none has a default. *)
Hparams(f) ==
    [embd  |-> ArchI32(f, <<"embedding_length", "hidden_size">>),
     layer |-> ArchI32(f, <<"block_count", "num_hidden_layers">>),
     head  |-> ArchI32(f, <<"attention.head_count", "num_attention_heads", "attention.n_head">>),
     ff    |-> ArchI32(f, <<"feed_forward_length", "intermediate_size">>),
     pos   |-> ArchI32(f, <<"context_length", "max_position_embeddings">>),
     vocab |-> ArchI32(f, <<"vocab_size">>)]

Only(opt) == CHOOSE x \in opt : TRUE

Opens(f) ==
    LET hp == Hparams(f)
        eps == ArchF32(f, <<"attention.layer_norm_epsilon", "layer_norm_eps",
                            "layer_norm_epsilon">>)
    IN /\ f.readable /\ Arch(f) # ""
       /\ \A d \in DOMAIN hp : hp[d] # {} /\ Only(hp[d]) > 0
       /\ eps # {} /\ Only(eps) > 0
       /\ Only(hp.embd) % Only(hp.head) = 0

(* The ids kept out of every vector: declared and inside the vocabulary.   *)
SpecialIds(f) ==
    {f.kv[<<"tokenizer", k>>].v : k \in {k \in SpecialKeys : HasI32(f, <<"tokenizer", k>>)}}
      \cap 0..(Only(Hparams(f).vocab) - 1)

-----------------------------------------------------------------------------
(* Weights::load_tensors.  The required names in the order they are        *)
(* collected, and bind, which hands the copies out again by position.      *)
EmbeddingNames == <<"token_embd", "position_embd", "token_type_embd",
                    "embd_ln.weight", "embd_ln.bias">>
LayerNames == <<"ln1.weight", "ln1.bias", "attn.q.weight", "attn.q.bias",
                "attn.k.weight", "attn.k.bias", "attn.v.weight", "attn.v.bias",
                "attn.o.weight", "attn.o.bias", "ln2.weight", "ln2.bias",
                "ffn.fc1.weight", "ffn.fc1.bias", "ffn.fc2.weight", "ffn.fc2.bias">>
HeadNames == <<"mlm_transform", "mlm_transform.bias", "mlm_ln.weight", "mlm_ln.bias",
               "mlm_bias">>

RequiredNames(layers) ==
    [i \in 1..5 |-> Named(EmbeddingNames[i])]
      \o [i \in 1..(16 * layers) |->
             <<"enc", (i - 1) \div 16, LayerNames[((i - 1) % 16) + 1]>>]
      \o [i \in 1..5 |-> Named(HeadNames[i])]

EmbeddingFields == <<"tok_embd", "pos_embd", "type_embd", "embd_ln_w", "embd_ln_b">>
LayerFields == <<"ln1_w", "ln1_b", "q_w", "q_b", "k_w", "k_b", "v_w", "v_b",
                 "o_w", "o_b", "ln2_w", "ln2_b", "fc1_w", "fc1_b", "fc2_w", "fc2_b">>
HeadFields == <<"mlm_transform_w", "mlm_transform_b", "mlm_ln_w", "mlm_ln_b", "mlm_bias">>

Bind(t, layers) ==
    [head |-> [f \in Range(EmbeddingFields) \cup Range(HeadFields) |->
                 IF f \in Range(EmbeddingFields)
                 THEN t[CHOOSE i \in 1..5 : EmbeddingFields[i] = f]
                 ELSE t[5 + 16 * layers + (CHOOSE i \in 1..5 : HeadFields[i] = f)]],
     layer |-> [il \in 0..(layers - 1) |->
                 [f \in Range(LayerFields) |->
                     t[5 + 16 * il + (CHOOSE i \in 1..16 : LayerFields[i] = f)]]]]
(* `memory': the backend, its context and its buffer could be allocated.   *)
LoadsTensors(f, memory) ==
    LET names == RequiredNames(Only(Hparams(f).layer)) IN
    /\ \A i \in DOMAIN names : HasTensor(f, names[i]) /\ f.tensors[names[i]].data
    /\ memory
    /\ f.tensors[Named("token_type_embd")].f32
    /\ f.tensors[Named("token_type_embd")].ne[2] >= 1

-----------------------------------------------------------------------------
(* SparseSession::load_from_file; {}: refused.  A longer sequence than the *)
(* position table would index past it, so the request is capped.           *)
CappedNot(request, pos) == IF request > 0 THEN request ELSE pos
Capped(request, pos) == IF request > 0 THEN Min({request, pos}) ELSE pos
TokenId(f, key) ==
    IF HasI32(f, <<"tokenizer", key>>) /\ f.kv[<<"tokenizer", key>>].v >= 0
    THEN f.kv[<<"tokenizer", key>>].v ELSE -1

VocabFits(f) ==
    /\ HasStrs(f, <<"tokenizer", "tokens">>)
    /\ HasStr(f, <<"tokenizer", "model">>) =>
          f.kv[<<"tokenizer", "model">>].v \in {"bert", "bert-wordpiece"}
    /\ Len(f.kv[<<"tokenizer", "tokens">>].v) = Only(Hparams(f).vocab)
SessionTokenizer(f, maxLength) ==
    LET special == /\ BoolOr(f, <<"tokenizer", "adding_bos_token">>, TRUE)
                   /\ BoolOr(f, <<"tokenizer", "adding_eos_token">>, TRUE)
        sep == IF TokenId(f, "separator_token_id") >= 0
               THEN TokenId(f, "separator_token_id") ELSE TokenId(f, "eos_token_id")
    IN LoadVocab(f.kv[<<"tokenizer", "tokens">>].v,
                 TokenId(f, "pad_token_id"), TokenId(f, "unk_token_id"),
                 IF special THEN TokenId(f, "cls_token_id") ELSE -1,
                 IF special THEN sep ELSE -1, maxLength, special)

LoadSession(f, request, memory) ==
    LET pos == Only(Hparams(f).pos)
        vocab == Only(Hparams(f).vocab)
        tok == SessionTokenizer(f, Capped(request, pos))
    IN IF /\ Opens(f) /\ Accepts(f) /\ LoadsTensors(f, memory)
          /\ VocabFits(f) /\ tok.pad \in 0..(vocab - 1)
       THEN {[tok |-> tok, vocabSize |-> vocab, positions |-> pos, specialIds |-> SpecialIds(f)]}
       ELSE {}

=============================================================================
