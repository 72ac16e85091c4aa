------------------------------ MODULE MCSparse ------------------------------
(* A vocabulary of nine entries and four texts; sound GGUF files in several *)
(* spellings, one that is taken although its position table is shorter than *)
(* it declares, one file per way to be refused, and the tokenizer.json of   *)
(* the same model beside those of others.                                   *)
EXTENDS SparseEmbed

Tokens == <<PAD, UNK, CLS, SEP, <<97>>, <<97, 98>>, <<35, 35, 98>>, <<35, 35, 99>>, <<33>>>>

Abc == <<97, 98, 99>>                   \* abc: ab ##c
AccentedI == <<193, 98, 304, 33>>       \* Abi!, accented: ab, then nothing, !
Mixed == <<90, 32, 97, 98, 98>>         \* Z abb: [UNK] ab ##b
Blank == <<32>>

MCTextLists == {<<AccentedI, Abc>>, <<Mixed, Blank, Abc>>}

MCOptions == {[topK |-> 0, minWeight |-> 0, format |-> "DICT"],
              [topK |-> 2, minWeight |-> 0, format |-> "INDEX_ORDER"],
              [topK |-> 2, minWeight |-> 2, format |-> "DICT"]}

(* Four entries can be positive, two of them equal, one of them is [CLS];  *)
(* every part of a row matters.                                            *)
MCLogit(row, v) ==
    LET sum == FoldSet(LAMBDA p, acc : acc + p[1] * p[2], 0, row.seen) IN
    IF v \in {2, 4, 5, 7} THEN ((row.tok + 2 * row.pos + 5 * v + sum) % 5) + (v % 4) - 3 ELSE -1

-----------------------------------------------------------------------------
I32(v) == [t |-> "i32", v |-> v]
U32(v) == [t |-> "u32", v |-> v]
Str(v) == [t |-> "str", v |-> v]

Kv(arch, tok) ==
    LET keys == {<<"general", "architecture">>} \cup {<<"bert", k>> : k \in DOMAIN arch}
                  \cup {<<"tokenizer", k>> : k \in DOMAIN tok}
    IN [k \in keys |-> CASE k[1] = "general" -> Str("bert")
                         [] k[1] = "bert" -> arch[k[2]]
                         [] OTHER -> tok[k[2]]]

Dims == [vocab_size |-> I32(9), embedding_length |-> I32(4), block_count |-> I32(2),
         feed_forward_length |-> I32(8), context_length |-> I32(4)] @@
        ("attention.head_count" :> I32(2)) @@
        ("attention.layer_norm_epsilon" :> [t |-> "f32", v |-> 1])

OtherDims == [vocab_size |-> U32(9), hidden_size |-> U32(4), num_hidden_layers |-> U32(1),
              num_attention_heads |-> U32(2), intermediate_size |-> U32(8),
              max_position_embeddings |-> U32(6), layer_norm_eps |-> [t |-> "f64", v |-> 1]]

TokenKeys == [tokens |-> [t |-> "strs", v |-> Tokens], model |-> Str("bert"),
              pad_token_id |-> I32(0), unk_token_id |-> I32(1), cls_token_id |-> I32(2),
              separator_token_id |-> I32(3)]

Tensor(ne) == [ne |-> ne, f32 |-> TRUE, data |-> TRUE]
Tensors == [n \in Range(RequiredNames(2)) |->
              Tensor(CASE n = Named("token_embd") -> <<4, 9>>
                       [] n = Named("token_type_embd") -> <<4, 2>>
                       [] OTHER -> <<4, 4>>)]

Good == [readable |-> TRUE, kv |-> Kv(Dims, TokenKeys), tensors |-> Tensors]

Without(fn, keys) == [k \in DOMAIN fn \ keys |-> fn[k]]
Shaped(name, ne) == [Good EXCEPT !.tensors[Named(name)].ne = ne]
Lacking(arch) == [Good EXCEPT !.kv = Without(@, {<<"bert", arch>>})]
NoTensor(name) == [Good EXCEPT !.tensors = Without(@, {name})]
Declaring(tok) == [Good EXCEPT !.kv = Kv(Dims, tok @@ TokenKeys)]
BothHeads(ne) == [Good EXCEPT !.tensors = (Named("sparse_linear") :> Tensor(ne)) @@ @]

MCGgufFiles ==
    [good      |-> Good,
     spelled   |-> [Shaped("position_embd", <<4, 6>>) EXCEPT !.kv = Kv(OtherDims, TokenKeys)],
     short     |-> Shaped("position_embd", <<4, 2>>),
     eos       |-> [Good EXCEPT !.kv = Kv(Dims, [eos_token_id |-> U32(3), bos_token_id |-> U32(2)]
                                       @@ Without(TokenKeys, {"separator_token_id"}))],
     bare      |-> [Good EXCEPT !.kv = Kv(Dims, Without(TokenKeys,
                       {"pad_token_id", "unk_token_id", "cls_token_id", "separator_token_id"}))],
     wild      |-> Declaring([cls_token_id |-> I32(12), pad_token_id |-> I32(-1),
                              unk_token_id |-> U32(40)]),
     plain     |-> Declaring([adding_bos_token |-> [t |-> "bool", v |-> 0]]),
     foreign   |-> [Good EXCEPT !.kv = Kv(Dims, [tokens |-> [t |-> "strs",
                       v |-> [i \in 1..9 |-> IF i <= 4 THEN <<96 + i>> ELSE Tokens[i] \o <<122>>]]])],
     resized   |-> [Good EXCEPT !.kv = Kv([vocab_size |-> I32(8)] @@ Dims, TokenKeys)],
     huge      |-> [Good EXCEPT !.kv = Kv([vocab_size |-> U32(40)] @@ Dims, TokenKeys)],
     untensor  |-> NoTensor(Named("token_embd")),
     dense     |-> NoTensor(Named("mlm_transform")),
     unbiased  |-> NoTensor(Named("mlm_bias")),
     holed     |-> NoTensor(<<"enc", 1, "attn.k.bias">>),
     scalar    |-> BothHeads(<<1, 1>>),
     twoheads  |-> BothHeads(<<1, 9>>),
     linear    |-> [NoTensor(Named("mlm_transform")) EXCEPT
                      !.tensors = (Named("sparse_linear") :> Tensor(<<9, 0>>)) @@ @],
     unsized   |-> Lacking("vocab_size"),
     unheaded  |-> Lacking("attention.head_count"),
     noeps     |-> Lacking("attention.layer_norm_epsilon"),
     odd       |-> [Good EXCEPT !.kv = Kv(("attention.head_count" :> I32(3)) @@ Dims, TokenKeys)],
     gpt       |-> Declaring([model |-> Str("gpt2")]),
     novocab   |-> Declaring([tokens |-> [t |-> "strs", v |-> <<>>]]),
     halftype  |-> [Good EXCEPT !.tensors[Named("token_type_embd")].f32 = FALSE],
     notype    |-> Shaped("token_type_embd", <<4, 0>>),
     torn      |-> [Good EXCEPT !.readable = FALSE]]

-----------------------------------------------------------------------------
Entries == [i \in DOMAIN Tokens |-> <<Tokens[i], i - 1>>]
Specials == SubSeq(Entries, 1, 4)

Json(model, normalizer) ==
    [model |-> model, normalizer |-> normalizer, added |-> Specials, padId |-> {}]
WordPieceModel == {[type |-> "WordPiece", vocab |-> Entries, merges |-> <<>>,
                    prefix |-> {}, unk |-> {UNK}]}
BPEModel == {[type |-> "BPE", prefix |-> {}, unk |-> {},
              vocab |-> Entries \o <<<<<<98>>, 6>>, <<<<98, 98>>, 7>>>>,
              merges |-> <<<<<<98>>, <<98>>>>, <<<<97>>, <<98>>>>>>]}

MCJsonFiles ==
    [uncased |-> Json(WordPieceModel, [type |-> "Lowercase", lowercase |-> "absent"]),
     cased   |-> Json(WordPieceModel, [type |-> "none", lowercase |-> "absent"]),
     pairs   |-> [Json(BPEModel, [type |-> "Sequence", lowercase |-> "absent"]) EXCEPT
                    !.padId = {1}],
     empty   |-> Json({}, [type |-> "NFC", lowercase |-> "absent"])]

MCTwin == [good |-> "uncased", spelled |-> "uncased", eos |-> "uncased", bare |-> "uncased"]
=============================================================================
