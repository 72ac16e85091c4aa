---------------------------- MODULE HandleCreate ----------------------------
(***************************************************************************)
(* The life of a model handle: the C entry points that create one (text,   *)
(* reranker, sparse, image; from the registry, a directory, a GGUF file),  *)
(* every call of theirs that can fail, what their catch blocks free, and   *)
(* the wrapper objects that own, move and close handles.                   *)
(*                                                                         *)
(* An entry point is the sequence of its steps, so that a nested call is a *)
(* concatenation.  Running out of memory is left out: the code does not    *)
(* test for it here.                                                       *)
(***************************************************************************)
EXTENDS Naturals, Sequences, FiniteSets

CONSTANTS
    Owners,         \* wrapper objects (C++ or Python)
    Options,        \* what a caller and a model directory may say:
                    \* [cache, len, dim, auto_workers, cfgLen, cfgDim], 0 for unset
    MaxCalls        \* bound on the number of creations

InfoDim == 1        \* of the registry entry
InfoLen == 1
DefaultLen == 2     \* LEMBED_DEFAULT_MAX_LENGTH
ContextLen == 3     \* of a GGUF model
Null == 0
Ids == 1..(2 * MaxCalls)     \* addresses: no creation allocates more than twice

VARIABLES
    heap,       \* live handles, by address
    caches,     \* addresses of the handles whose cache is allocated
    strings,    \* malloc'ed path strings not yet freed
    call,       \* the creation under way
    out,        \* the caller's *out
    owner,      \* the handle each wrapper holds
    calls

vars == <<heap, caches, strings, call, out, owner, calls>>

Idle == [ep |-> "none", at |-> 1, ctx |-> Null]

Init ==
    /\ heap = <<>> /\ caches = {} /\ strings = {}
    /\ call = Idle /\ out = Null
    /\ owner = [w \in Owners |-> Null]
    /\ calls = 0

-----------------------------------------------------------------------------
(* The entry points. *)

Registered == <<"info", "ensure">>

TextCreate == Registered \o <<"new", "session", "tokenizer", "cache", "desc", "publish">>
TextCustom == <<"new", "session", "tokenizer", "desc">>
TextPath == <<"read", "dim">> \o TextCustom \o <<"cache", "desc", "publish">>
TextGguf == <<"new", "llama", "cache", "desc", "publish">>
TextGgufModel == <<"fetch">> \o TextGguf \o <<"drop_cached">>

RerankOnnx == <<"new", "cache", "session", "tokenizer", "desc", "publish">>
RerankCreate == Registered \o RerankOnnx
RerankV2Auto == RerankCreate \o RerankCreate
RerankPath == <<"read">> \o RerankOnnx
RerankGguf == <<"resolve", "new", "llama", "drop_resolved", "desc", "publish">>
RerankLlama == <<"info", "find_gguf">> \o RerankGguf
RerankGgufModel == <<"fetch">> \o RerankGguf \o <<"drop_cached">>

SparseCreate == Registered \o <<"new", "session", "tokenizer", "desc", "publish">>
SparsePath == <<"read", "new", "session", "tokenizer", "desc", "publish">>
SparseGguf == <<"gguf_session", "new", "desc", "publish">>
SparseGgufModel == <<"fetch", "drop_cached">> \o SparseGguf

ImageCreate == Registered \o <<"new", "session", "desc", "publish">>
ImagePath == <<"read", "dim", "new", "session", "desc", "publish">>

Program ==
    [ text_create       |-> TextCreate,
      text_custom       |-> TextCustom \o <<"publish">>,
      text_path         |-> TextPath,
      text_gguf         |-> TextGguf,
      text_gguf_model   |-> TextGgufModel,
      rerank_create     |-> RerankCreate,      \* v2 with a given backend too
      rerank_v2_auto    |-> RerankV2Auto,
      rerank_path       |-> RerankPath,
      rerank_gguf       |-> RerankGguf,
      rerank_llama      |-> RerankLlama,       \* create with LEMBED_BACKEND_LLAMACPP
      rerank_gguf_model |-> RerankGgufModel,
      sparse_create     |-> SparseCreate,
      sparse_path       |-> SparsePath,
      sparse_gguf       |-> SparseGguf,
      sparse_gguf_model |-> SparseGgufModel,
      image_create      |-> ImageCreate,
      image_path        |-> ImagePath ]

EntryPoints == DOMAIN Program
Texts == {"text_create", "text_custom", "text_path", "text_gguf", "text_gguf_model"}
Rerankers == {"rerank_create", "rerank_v2_auto", "rerank_path", "rerank_gguf",
              "rerank_llama", "rerank_gguf_model"}
Images == {"image_create", "image_path"}

ASSUME OptionsAssumption ==
    \A o \in Options : /\ {o.cache, o.len, o.dim, o.cfgLen, o.cfgDim} \subseteq Nat
                       /\ o.auto_workers \in BOOLEAN
ASSUME CallsAssumption == MaxCalls \in Nat

(* What the catch block, or the error return, gives back. *)
CatchKeepingCache(ep) == {"ctx", "resolved", "cached"}
Catch(ep) ==
    CASE ep \in {"rerank_create", "rerank_v2_auto", "rerank_path"} -> {"ctx", "cache"}
      [] ep \in {"rerank_gguf", "rerank_llama"} -> {"ctx", "resolved"}
      [] ep = "rerank_gguf_model" -> {"ctx", "resolved", "cached"}
      [] ep = "text_gguf_model" -> {"cached"}
      [] OTHER -> {}

(* max_length and dim of the handle: the caller's, the directory's, the    *)
(* registry's or a default.                                                *)
First(a, b) == IF a > 0 THEN a ELSE b
MaxLength(ep, o) ==
    CASE ep \in {"text_create", "rerank_create", "rerank_v2_auto", "sparse_create"} -> First(o.len, InfoLen)
      [] ep \in {"text_path", "rerank_path", "sparse_path"} -> First(o.cfgLen, First(o.len, DefaultLen))
      [] ep \in {"text_custom", "rerank_gguf", "rerank_llama", "rerank_gguf_model"} -> First(o.len, DefaultLen)
      [] ep \in {"text_gguf", "text_gguf_model"} -> o.len
      [] ep \in {"sparse_gguf", "sparse_gguf_model"} ->
           IF o.len \in 1..ContextLen THEN o.len ELSE ContextLen
      [] ep \in Images -> 0
Dim(ep, o) ==
    CASE ep \in {"text_create", "image_create"} -> InfoDim
      [] ep \in {"text_path", "image_path"} -> First(o.cfgDim, o.dim)
      [] ep = "text_custom" -> o.dim
      [] OTHER -> 0

-----------------------------------------------------------------------------
NoCall == call.ep = "none"
At(step) == /\ ~NoCall /\ call.at <= Len(Program[call.ep])
            /\ Program[call.ep][call.at] = step
Onward == call' = [call EXCEPT !.at = @ + 1]
Without(h) == [i \in DOMAIN heap \ {h} |-> heap[i]]
Ctx == heap[call.ctx]
SetCtx(r) == heap' = [heap EXCEPT ![call.ctx] = r]

Call(w, ep, o) ==
    /\ NoCall /\ calls < MaxCalls /\ owner[w] = Null
    /\ call' = [ep |-> ep, at |-> 1, ctx |-> Null, opt |-> o, for |-> w]
    /\ calls' = calls + 1
    /\ out' = Null
    /\ UNCHANGED <<heap, caches, strings, owner>>

(* A step that fails: the catch block runs and an error is returned.       *)
(* Wrappers throw, or raise, and never look at *out.                       *)
Fails ==
    LET c == Catch(call.ep) IN
    /\ heap' = IF "ctx" \in c /\ call.ctx # Null THEN Without(call.ctx) ELSE heap
    /\ caches' = IF "cache" \in c THEN caches \ {call.ctx} ELSE caches
    /\ strings' = strings \ c
    /\ call' = Idle
    /\ UNCHANGED <<out, owner, calls>>

(* Steps that only look: the registry, the files, the GGUF registry. *)
Looks == {"info", "ensure", "read", "find_gguf", "gguf_session"}
Look ==
    /\ \E step \in Looks : At(step)
    /\ \/ Onward /\ UNCHANGED <<heap, caches, strings, out, owner, calls>>
       \/ Fails

(* A dimension of 0 is refused before anything is allocated. *)
CheckDim ==
    /\ At("dim")
    /\ IF Dim(call.ep, call.opt) > 0
       THEN Onward /\ UNCHANGED <<heap, caches, strings, out, owner, calls>>
       ELSE Fails

(* lembed_ensure_gguf_model and lembed_resolve_gguf_path hand over a       *)
(* malloc'ed path.                                                         *)
Path == IF At("fetch") THEN "cached" ELSE "resolved"
TakePath ==
    /\ At("fetch") \/ At("resolve")
    /\ \/ /\ strings' = strings \cup {Path}
          /\ Onward
          /\ UNCHANGED <<heap, caches, out, owner, calls>>
       \/ Fails

DropPath ==
    /\ At("drop_cached") \/ At("drop_resolved")
    /\ strings' = strings \ {IF At("drop_cached") THEN "cached" ELSE "resolved"}
    /\ Onward
    /\ UNCHANGED <<heap, caches, out, owner, calls>>

(* new, with the fields that are known before loading. *)
NewDesc == [len |-> 0, dim |-> 0, cache |-> 0]
Fresh == CHOOSE h \in Ids : h \notin DOMAIN heap
New ==
    /\ At("new") /\ Ids \ DOMAIN heap # {}
    /\ heap' = [i \in DOMAIN heap \cup {Fresh} |->
                  IF i # Fresh THEN heap[i]
                  ELSE [by |-> call.ep, loaded |-> call.ep \in {"sparse_gguf", "sparse_gguf_model"},
                        tok |-> 0, len |-> MaxLength(call.ep, call.opt),
                        dim |-> Dim(call.ep, call.opt), cache |-> 0, desc |-> NewDesc]]
    /\ call' = [call EXCEPT !.at = @ + 1, !.ctx = Fresh]
    /\ UNCHANGED <<caches, strings, out, owner, calls>>

LoadSession ==
    /\ At("session")
    /\ \/ /\ SetCtx([Ctx EXCEPT !.loaded = TRUE])
          /\ Onward
          /\ UNCHANGED <<caches, strings, out, owner, calls>>
       \/ Fails

LoadTokenizer ==
    /\ At("tokenizer")
    /\ \/ /\ SetCtx([Ctx EXCEPT !.tok = Ctx.len])
          /\ Onward
          /\ UNCHANGED <<caches, strings, out, owner, calls>>
       \/ Fails

(* The llama.cpp model.  The text handle takes dimension and context from  *)
(* `session', which auto_workers leaves unloaded.                          *)
LoadLlama ==
    /\ At("llama")
    /\ LET text == call.ep \in Texts
           inPool == text /\ call.opt.auto_workers IN
       \/ /\ SetCtx([Ctx EXCEPT !.loaded = ~inPool,
                                !.dim = IF text /\ ~inPool THEN InfoDim ELSE @,
                                !.len = First(@, IF inPool THEN 0 ELSE ContextLen)])
          /\ Onward
          /\ UNCHANGED <<caches, strings, out, owner, calls>>
       \/ Fails

NewCache ==
    /\ At("cache")
    /\ IF call.opt.cache > 0
       THEN /\ caches' = caches \cup {call.ctx}
            /\ SetCtx([Ctx EXCEPT !.cache = call.opt.cache])
       ELSE UNCHANGED <<heap, caches>>
    /\ Onward
    /\ UNCHANGED <<strings, out, owner, calls>>

(* lembed__text_update_desc, and the same assignments elsewhere. *)
UpdateDescOnce ==
    /\ At("desc")
    /\ SetCtx([Ctx EXCEPT !.desc = IF @ # NewDesc THEN @
                                   ELSE [len |-> Ctx.len, dim |-> Ctx.dim, cache |-> Ctx.cache]])
    /\ Onward
    /\ UNCHANGED <<caches, strings, out, owner, calls>>
UpdateDesc ==
    /\ At("desc")
    /\ SetCtx([Ctx EXCEPT !.desc = [len |-> Ctx.len, dim |-> Ctx.dim, cache |-> Ctx.cache]])
    /\ Onward
    /\ UNCHANGED <<caches, strings, out, owner, calls>>

Publish ==
    /\ At("publish")
    /\ out' = call.ctx
    /\ call' = [call EXCEPT !.at = @ + 1, !.ctx = Null]
    /\ UNCHANGED <<heap, caches, strings, owner, calls>>

(* LEMBED_OK: the wrapper keeps *out. *)
Return ==
    /\ ~NoCall /\ call.at > Len(Program[call.ep])
    /\ owner' = [owner EXCEPT ![call.for] = out]
    /\ call' = Idle
    /\ UNCHANGED <<heap, caches, strings, out, calls>>

-----------------------------------------------------------------------------
(* lembed_*_free of a handle, which takes its cache along. *)
Free(h) == heap' = Without(h) /\ caches' = caches \ {h}

(* close, the destructor, __exit__. *)
Close(w) ==
    /\ NoCall /\ owner[w] # Null
    /\ Free(owner[w])
    /\ owner' = [owner EXCEPT ![w] = Null]
    /\ UNCHANGED <<strings, call, out, calls>>

(* Move construction and move assignment. *)
MoveKeepingSource(v, w) ==
    /\ NoCall /\ v # w
    /\ IF owner[v] # Null THEN Free(owner[v]) ELSE UNCHANGED <<heap, caches>>
    /\ owner' = [owner EXCEPT ![v] = owner[w]]
    /\ UNCHANGED <<strings, call, out, calls>>
Move(v, w) ==
    /\ NoCall /\ v # w
    /\ IF owner[v] # Null THEN Free(owner[v]) ELSE UNCHANGED <<heap, caches>>
    /\ owner' = [owner EXCEPT ![v] = owner[w], ![w] = Null]
    /\ UNCHANGED <<strings, call, out, calls>>

Next ==
    \/ \E w \in Owners, ep \in EntryPoints, o \in Options : Call(w, ep, o)
    \/ Look \/ CheckDim \/ TakePath \/ DropPath \/ New
    \/ LoadSession \/ LoadTokenizer \/ LoadLlama \/ NewCache \/ UpdateDesc
    \/ Publish \/ Return
    \/ \E w \in Owners : Close(w)
    \/ \E v, w \in Owners : Move(v, w)

Spec == Init /\ [][Next]_vars

-----------------------------------------------------------------------------
Owned == {owner[w] : w \in Owners} \ {Null}

(* A wrapper that was created, moved to or not yet closed holds a live     *)
(* handle, and no two wrappers hold the same: no handle is freed twice or  *)
(* used after its free.                                                    *)
OwnersApart ==
    \A v, w \in Owners : owner[v] # Null =>
        /\ owner[v] \in DOMAIN heap
        /\ v # w => owner[v] # owner[w]

(* A handle that reached its caller is whole, whichever way it was made:   *)
(* its model is loaded, its tokenizer truncates at the length the handle   *)
(* reports, and its descriptor tells the handle's length, dimension and    *)
(* cache.  A text handle of a GGUF file is excepted from being loaded, as  *)
(* with auto_workers its session is empty; and the quantization that a     *)
(* descriptor reports is not among what is told here.                      *)
HandlesWhole ==
    \A h \in Owned :
        LET c == heap[h] IN
        /\ c.loaded \/ c.by \in {"text_gguf", "text_gguf_model"}
        /\ c.tok \in {0, c.len}
        /\ {"tokenizer"} \subseteq {Program[c.by][i] : i \in DOMAIN Program[c.by]} => c.tok = c.len
        /\ c.desc = [len |-> c.len, dim |-> c.dim, cache |-> c.cache]
        /\ c.cache > 0 <=> h \in caches

(* Between calls nothing is allocated but what a wrapper holds: no path    *)
(* string, no cache and no reranker, however a creation failed ("Allocated *)
(* after the model is loaded so no error path can leak it").  Excepted are *)
(* create_v2 with LEMBED_BACKEND_AUTO, which creates twice, and the text,  *)
(* sparse and image handles themselves: when loading throws they are out   *)
(* of reach of their catch blocks.                                         *)
NothingOrphaned ==
    NoCall =>
        /\ strings = {}
        /\ \A h \in caches : h \in Owned \/ (h \in DOMAIN heap /\ heap[h].by = "rerank_v2_auto")
        /\ \A h \in DOMAIN heap :
             heap[h].by \in Rerankers \ {"rerank_v2_auto"} => h \in Owned
=============================================================================
