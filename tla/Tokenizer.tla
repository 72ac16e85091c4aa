----------------------------- MODULE Tokenizer -----------------------------
(***************************************************************************)
(* The built-in tokenizer (detail/tokenizer_impl.hpp): how a text becomes  *)
(* token ids, and the two ways its tables are filled, from tokenizer.json  *)
(* (ONNX models) and from the vocabulary array of a GGUF file.             *)
(*                                                                         *)
(* A text, a word and a surface form are sequences of code points; texts   *)
(* are well-formed UTF-8, so a multi-byte character is one code point here *)
(* and "per byte" in the code never cuts one in two.  The wrapper's fields *)
(* are one record; a value that a file may leave out is a set of at most   *)
(* one element.                                                            *)
(***************************************************************************)
EXTENDS Integers, Sequences, FiniteSets, SequencesExt

(* The value a file gives, or the default. *)
Given(opt, default) == IF opt = {} THEN default ELSE CHOOSE x \in opt : TRUE

CLS == <<91, 67, 76, 83, 93>>       \* [CLS]
SEP == <<91, 83, 69, 80, 93>>       \* [SEP]
PAD == <<91, 80, 65, 68, 93>>       \* [PAD]
UNK == <<91, 85, 78, 75, 93>>       \* [UNK]
BOS == <<60, 115, 62>>              \* <s>
EOS == <<60, 47, 115, 62>>          \* </s>
HashHash == <<35, 35>>              \* ##

(* A default-constructed TokenizerWrapper. *)
NewTokenizer ==
    [type |-> "WORDPIECE", vocab |-> <<>>, ranks |-> <<>>, prefix |-> <<>>,
     maxLength |-> 512, pad |-> 0, cls |-> 101, sep |-> 102, unk |-> 100,
     lower |-> TRUE, special |-> TRUE]

-----------------------------------------------------------------------------
(* Normalisation: lowercase, then strip accents.  -1: leave it alone.      *)
LatinBase(cp) ==
    LET c == IF cp \in 224..254 THEN cp - 32 ELSE cp IN     \* both halves fold alike
    CASE c \in 192..197   -> 97      \* a
      [] c = 199          -> 99      \* c
      [] c \in 200..203   -> 101     \* e
      [] c \in 204..207   -> 105     \* i
      [] c = 209          -> 110     \* n
      [] c \in 210..214   -> 111     \* o
      [] c \in 217..220   -> 117     \* u
      [] c \in {221, 255} -> 121     \* y
      [] OTHER            -> -1      \* AE, Eth, x, O-stroke, Thorn, sharp s

ExtendedABase(cp) ==
    LET base == 2 * (cp \div 2) IN
    CASE cp \in {272, 273, 294, 295, 306, 307, 319, 320, 330, 331,
                 338, 339, 358, 359} -> -1
      [] cp \in {304, 305}           -> 105      \* Turkish i
      [] cp = 383                    -> 115      \* long s
      [] OTHER -> IF base \in 192..255 THEN LatinBase(base) ELSE -1

NormalizeChar(cp) ==
    LET folded == CASE cp \in 192..255 -> LatinBase(cp)
                    [] cp \in 256..383 -> ExtendedABase(cp)
                    [] OTHER           -> -1
    IN IF cp \in 65..90 THEN cp + 32
       ELSE IF folded >= 0 THEN folded ELSE cp

BertNormalize(text) == [i \in DOMAIN text |-> NormalizeChar(text[i])]

-----------------------------------------------------------------------------
(* Words: runs of ASCII letters and digits; a punctuation mark and a       *)
(* multi-byte character are words of their own; blanks and controls are    *)
(* dropped.                                                                *)
IsSpace(c) == c <= 32
IsPunctuation(c) == c \in (33..47) \cup (58..64) \cup (91..96) \cup (123..126)

Flush(words, current) == IF current = <<>> THEN words ELSE Append(words, current)

Scan(acc, c) ==
    IF IsSpace(c)
    THEN [words |-> Flush(acc.words, acc.current), current |-> <<>>]
    ELSE IF IsPunctuation(c) \/ c >= 128
    THEN [words |-> Append(Flush(acc.words, acc.current), <<c>>), current |-> <<>>]
    ELSE [acc EXCEPT !.current = Append(@, c)]

BasicTokenize(text) ==
    LET scan[n \in 0..Len(text)] ==
            IF n = 0 THEN [words |-> <<>>, current |-> <<>>] ELSE Scan(scan[n - 1], text[n])
    IN Flush(scan[Len(text)].words, scan[Len(text)].current)

-----------------------------------------------------------------------------
(* WordPiece: the whole word, or the longest known piece from the left,    *)
(* again and again; a piece that does not start the word carries the       *)
(* prefix.  When nothing matches, a word without a piece so far is [UNK]   *)
(* and any other word ends there.                                          *)
Piece(tk, word, start, end) ==
    (IF start > 1 THEN tk.prefix ELSE <<>>) \o SubSeq(word, start, end)

LongestEndNoPrefix(tk, word, start) ==
    LET ends == {e \in start..Len(word) : SubSeq(word, start, e) \in DOMAIN tk.vocab}
    IN IF ends = {} THEN 0 ELSE Max(ends)
LongestEnd(tk, word, start) ==
    LET ends == {e \in start..Len(word) : Piece(tk, word, start, e) \in DOMAIN tk.vocab}
    IN IF ends = {} THEN 0 ELSE Max(ends)
TakePiece(tk, word, acc) ==
    LET end == LongestEnd(tk, word, acc.start) IN
    IF acc.start > Len(word) THEN acc
    ELSE IF end = 0
    THEN [start |-> Len(word) + 1, ids |-> IF acc.ids = <<>> THEN <<tk.unk>> ELSE acc.ids]
    ELSE [start |-> end + 1, ids |-> Append(acc.ids, tk.vocab[Piece(tk, word, acc.start, end)])]

WordPiece(tk, word) ==
    LET take[n \in 0..Len(word)] ==
            IF n = 0 THEN [start |-> 1, ids |-> <<>>] ELSE TakePiece(tk, word, take[n - 1])
    IN IF word \in DOMAIN tk.vocab THEN <<tk.vocab[word]>> ELSE take[Len(word)].ids

(* BPE: merge the pair of lowest rank, the leftmost of equal pairs, until  *)
(* no pair has a rank; then look every symbol up.                          *)
MergeOnce(tk, symbols) ==
    LET Pair(i) == <<symbols[i], symbols[i + 1]>>
        ranked == {i \in 1..(Len(symbols) - 1) : Pair(i) \in DOMAIN tk.ranks}
        best == CHOOSE i \in ranked : \A j \in ranked :
                    \/ tk.ranks[Pair(i)] < tk.ranks[Pair(j)]
                    \/ tk.ranks[Pair(i)] = tk.ranks[Pair(j)] /\ i <= j
    IN IF ranked = {} THEN symbols
       ELSE SubSeq(symbols, 1, best - 1)
            \o <<symbols[best] \o symbols[best + 1]>>
            \o SubSeq(symbols, best + 2, Len(symbols))

BPESymbols(tk, word) ==
    LET merged[n \in 0..Len(word)] ==
            IF n = 0 THEN [i \in DOMAIN word |-> <<word[i]>>]
            ELSE MergeOnce(tk, merged[n - 1])
    IN merged[Len(word)]

BPE(tk, word) ==
    LET symbols == BPESymbols(tk, word) IN
    [i \in DOMAIN symbols |->
        IF symbols[i] \in DOMAIN tk.vocab THEN tk.vocab[symbols[i]] ELSE tk.unk]

-----------------------------------------------------------------------------
(* encode_single: [CLS] words [SEP], cut to max_length with [SEP] last.    *)
Words(tk, text) == BasicTokenize(IF tk.lower THEN BertNormalize(text) ELSE text)

Frame(tk, body) == IF tk.special THEN <<tk.cls>> \o body \o <<tk.sep>> ELSE body

Truncate(tk, ids) ==
    IF Len(ids) <= tk.maxLength THEN ids
    ELSE IF tk.special THEN Append(SubSeq(ids, 1, tk.maxLength - 1), tk.sep)
    ELSE SubSeq(ids, 1, tk.maxLength)

Subwords(tk, word) == IF tk.type = "WORDPIECE" THEN WordPiece(tk, word) ELSE BPE(tk, word)

Encode(tk, text) ==
    LET words == Words(tk, text)
        body[n \in 0..Len(words)] ==
            IF n = 0 THEN <<>> ELSE body[n - 1] \o Subwords(tk, words[n])
    IN Truncate(tk, Frame(tk, body[Len(words)]))

(* encode_batch: every row padded to the longest, the mask marks the real  *)
(* tokens.                                                                 *)
Padded(tk, rows) ==
    LET len == Min({tk.maxLength, Max({0} \cup {Len(rows[b]) : b \in DOMAIN rows})})
    IN [seqLen |-> len,
        ids  |-> [b \in DOMAIN rows |->
                     [j \in 1..len |-> IF j <= Len(rows[b]) THEN rows[b][j] ELSE tk.pad]],
        mask |-> [b \in DOMAIN rows |-> [j \in 1..len |-> j <= Len(rows[b])]]]

EncodeBatch(tk, texts) == Padded(tk, [b \in DOMAIN texts |-> Encode(tk, texts[b])])

-----------------------------------------------------------------------------
(* tokenizer.json: the last entry of a surface form counts.                *)
LastOf(entries, forms) == Max({i \in DOMAIN entries : entries[i][1] \in forms})

StoreTokens(entries, vocab) ==
    LET forms == {e[1] : e \in Range(entries)} IN
    [s \in forms \cup DOMAIN vocab |->
        IF s \in forms THEN entries[LastOf(entries, {s})][2] ELSE vocab[s]]

LowercasesIfStated(norm) ==
    CASE norm.type \in {"BertNormalizer", "Lowercase"} -> norm.lowercase = "true"
      [] norm.type \in {"Sequence", "untyped"}         -> TRUE
      [] OTHER                                         -> FALSE
Lowercases(norm) ==
    CASE norm.type = "none"                            -> FALSE
      [] norm.type \in {"BertNormalizer", "Lowercase"} -> norm.lowercase \in {"absent", "true"}
      [] norm.type \in {"Sequence", "untyped"}         -> TRUE
      [] OTHER                                         -> FALSE

(* The last added token with one of these surface forms. *)
AddedId(added, forms, id) ==
    IF \E e \in Range(added) : e[1] \in forms THEN added[LastOf(added, forms)][2] ELSE id

LoadFromBlob(json, maxLength) ==
    LET new == [NewTokenizer EXCEPT !.maxLength = maxLength]
        model == json.model
        vocab == IF model = {} THEN <<>> ELSE StoreTokens(Given(model, {}).vocab, <<>>)
        typed == IF model = {} THEN new ELSE
                 LET m == Given(model, {}) IN
                 [new EXCEPT
                    !.type = IF m.type \in {"BPE", "bpe"} THEN "BPE" ELSE "WORDPIECE",
                    !.ranks = IF m.type \in {"BPE", "bpe"}
                              THEN [p \in Range(m.merges) |->
                                        Max({i \in DOMAIN m.merges : m.merges[i] = p})]
                              ELSE <<>>,
                    !.prefix = Given(m.prefix, HashHash),
                    !.unk = IF m.unk # {} /\ Given(m.unk, <<>>) \in DOMAIN vocab
                            THEN vocab[Given(m.unk, <<>>)] ELSE @]
    IN [typed EXCEPT
          !.vocab = StoreTokens(json.added, vocab),
          !.lower = Lowercases(json.normalizer),
          !.cls = AddedId(json.added, {CLS, BOS}, @),
          !.sep = AddedId(json.added, {SEP, EOS}, @),
          !.pad = Given(json.padId, AddedId(json.added, {PAD, <<60, 112, 97, 100, 62>>}, @)),
          !.unk = AddedId(json.added, {UNK, <<60, 117, 110, 107, 62>>}, @)]

-----------------------------------------------------------------------------
(* A GGUF vocabulary: tokens[i] is the surface form of id i - 1, the first *)
(* of equal forms counts.  A negative id: the caller has none.             *)
ResolveSpecial(vocab, size, explicit, surface, fallback) ==
    IF explicit \in 0..(size - 1) THEN explicit
    ELSE IF surface \in DOMAIN vocab THEN vocab[surface]
    ELSE IF fallback < size THEN fallback ELSE 0

FirstIds(tokens) ==
    [s \in Range(tokens) |-> Min({i \in DOMAIN tokens : tokens[i] = s}) - 1]

LoadVocab(tokens, pad, unk, cls, sep, maxLength, addSpecial) ==
    LET size == Len(tokens)
        vocab == FirstIds(tokens)
        Id(explicit, surface, fallback) ==
            ResolveSpecial(vocab, size, explicit, surface, fallback)
    IN [NewTokenizer EXCEPT
          !.vocab = vocab, !.prefix = HashHash, !.special = addSpecial,
          !.maxLength = IF maxLength > 0 THEN maxLength ELSE 512,
          !.pad = Id(pad, PAD, 0), !.unk = Id(unk, UNK, 100),
          !.cls = Id(cls, CLS, 101), !.sep = Id(sep, SEP, 102)]

=============================================================================
