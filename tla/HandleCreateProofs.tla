------------------------- MODULE HandleCreateProofs -------------------------
(***************************************************************************)
(* For any number of wrappers and calls and any options: no handle has two *)
(* owners or outlives its free, every handle that reached a caller is      *)
(* whole, and a creation that fails leaves nothing behind but what the     *)
(* property excepts.                                                       *)
(*                                                                         *)
(* The argument has two halves.  WellOrdered says what is right about the  *)
(* order of the steps of each entry point, and is shown entry point by     *)
(* entry point.  HandleInv says what the steps taken so far have achieved, *)
(* and is shown action by action from WellOrdered alone.                   *)
(***************************************************************************)
EXTENDS HandleCreate, TLAPS

(* Step s was taken since the last handle was published; a path was taken  *)
(* and not dropped; a handle was published: before step i of program P.    *)
Done(P, i, s) == \E j \in 1..(i - 1) : P[j] = s /\ \A k \in j..(i - 1) : P[k] # "publish"
Holding(P, i, take, drop) ==
    \E j \in 1..(i - 1) : P[j] = take /\ \A k \in j..(i - 1) : P[k] # drop
Published(P, i) == \E j \in 1..(i - 1) : P[j] = "publish"

MayFail == Looks \cup {"dim", "fetch", "resolve", "session", "tokenizer", "llama"}
OnHandle == {"session", "tokenizer", "llama", "cache", "desc", "publish"}
SparseGgufs == {"sparse_gguf", "sparse_gguf_model"}
TextGgufs == {"text_gguf", "text_gguf_model"}

(* The order inside one creation: new comes first and once, loading does   *)
(* not follow the tokenizer, and what is published has been loaded and has *)
(* had its descriptor updated last.                                        *)
BuildsInOrder(ep, P, i) ==
    /\ P[i] = "new" => \A s \in {"new", "session", "llama", "tokenizer"} : ~Done(P, i, s)
    /\ P[i] \in OnHandle => Done(P, i, "new")
    /\ P[i] = "llama" =>
         /\ ~Done(P, i, "session") /\ ~Done(P, i, "tokenizer")
         /\ ep \notin SparseGgufs /\ (ep \in Texts => ep \in TextGgufs)
    /\ P[i] = "publish" =>
         /\ i > 1 /\ P[i - 1] = "desc"
         /\ Done(P, i, "session") \/ Done(P, i, "llama") \/ ep \in SparseGgufs
         /\ (\E j \in 1..Len(P) : P[j] = "tokenizer") => Done(P, i, "tokenizer")

(* What a step that may fail finds allocated, the catch block gives back.  *)
FailsClean(ep, P, i) ==
    P[i] \in MayFail =>
        /\ Done(P, i, "cache") => "cache" \in Catch(ep)
        /\ Holding(P, i, "fetch", "drop_cached") => "cached" \in Catch(ep)
        /\ Holding(P, i, "resolve", "drop_resolved") => "resolved" \in Catch(ep)

(* Only create_v2 with AUTO goes on creating after it published a handle.  *)
PublishesOnce(ep, P, i) ==
    P[i] \in MayFail \cup {"publish"} /\ Published(P, i) => ep = "rerank_v2_auto"

EndsClean(P) ==
    LET end == Len(P) + 1 IN
    /\ ~Done(P, end, "new")
    /\ ~Holding(P, end, "fetch", "drop_cached")
    /\ ~Holding(P, end, "resolve", "drop_resolved")

WellOrdered(ep, P) ==
    /\ Len(P) \in Nat
    /\ \A i \in 1..Len(P) :
         BuildsInOrder(ep, P, i) /\ FailsClean(ep, P, i) /\ PublishesOnce(ep, P, i)
    /\ EndsClean(P)

-----------------------------------------------------------------------------
Handle == [by : EntryPoints, loaded : BOOLEAN, tok : Nat, len : Nat, dim : Nat,
           cache : Nat, desc : [len : Nat, dim : Nat, cache : Nat]]

Desc(c) == [len |-> c.len, dim |-> c.dim, cache |-> c.cache]
Tokenizes(ep) == \E j \in 1..Len(Program[ep]) : Program[ep][j] = "tokenizer"

WholeHandle(c) ==
    /\ c.loaded \/ c.by \in TextGgufs
    /\ c.tok \in {0, c.len}
    /\ Tokenizes(c.by) => c.tok = c.len
    /\ c.desc = Desc(c)

(* The handle under construction, before step i. *)
Building(c, P, i) ==
    /\ Done(P, i, "session") \/ c.by \in SparseGgufs => c.loaded
    /\ Done(P, i, "llama") => c.loaded \/ c.by \in TextGgufs
    /\ c.tok = IF Done(P, i, "tokenizer") THEN c.len ELSE 0
    /\ i > 1 /\ P[i - 1] = "desc" => c.desc = Desc(c)

HeapInv ==
    /\ DOMAIN heap \subseteq Ids
    /\ heap \in [DOMAIN heap -> Handle]
    /\ caches \subseteq DOMAIN heap
    /\ \A h \in DOMAIN heap : heap[h].cache > 0 <=> h \in caches

OwnerInv ==
    /\ owner \in [Owners -> DOMAIN heap \cup {Null}]
    /\ OwnersApart
    /\ \A h \in Owned : WholeHandle(heap[h])

(* The steps of the creation under way. *)
Steps == Program[call.ep]

CallInv ==
    /\ call = Idle \/ call \in [ep : EntryPoints, at : Nat \ {0}, ctx : DOMAIN heap \cup {Null},
                               opt : Options, for : Owners]
    /\ ~NoCall =>
         /\ call.at <= Len(Steps) + 1
         /\ owner[call.for] = Null
         /\ call.ctx # Null <=> Done(Steps, call.at, "new")
         /\ call.ctx # Null =>
              /\ call.ctx \notin Owned
              /\ heap[call.ctx].by = call.ep
              /\ Building(heap[call.ctx], Steps, call.at)
              /\ call.ctx \in caches => Done(Steps, call.at, "cache")
         /\ out # Null =>
              /\ out \in DOMAIN heap /\ out \notin Owned /\ out # call.ctx
              /\ heap[out].by = call.ep /\ WholeHandle(heap[out])
              /\ Published(Steps, call.at)

InUse == Owned \cup {h \in {call.ctx, out} : ~NoCall}

LeakInv ==
    /\ \A s \in strings :
         /\ ~NoCall
         /\ \/ s = "cached" /\ Holding(Steps, call.at, "fetch", "drop_cached")
            \/ s = "resolved" /\ Holding(Steps, call.at, "resolve", "drop_resolved")
    /\ \A h \in caches : h \in InUse \/ heap[h].by = "rerank_v2_auto"
    /\ \A h \in DOMAIN heap : heap[h].by \in Rerankers \ {"rerank_v2_auto"} => h \in InUse

HandleInv == HeapInv /\ OwnerInv /\ CallInv /\ LeakInv

-----------------------------------------------------------------------------
(* The order of each entry point's steps, read off the sequence. *)
LEMMA OrderOfSteps == \A ep \in EntryPoints : WellOrdered(ep, Program[ep])
<1>. USE DEF WellOrdered, BuildsInOrder, FailsClean, PublishesOnce, EndsClean, Done, Holding,
             Published, MayFail, Looks, OnHandle, SparseGgufs, TextGgufs, Texts, Catch
<1>1. WellOrdered("text_create", TextCreate)
  <2>. DEFINE P == TextCreate
  <2>1. /\ Len(P) = 8
        /\ P[1] = "info" /\ P[2] = "ensure" /\ P[3] = "new" /\ P[4] = "session"
        /\ P[5] = "tokenizer" /\ P[6] = "cache" /\ P[7] = "desc" /\ P[8] = "publish"
    BY DEF TextCreate, Registered
  <2>. HIDE DEF P
  <2>2. WellOrdered("text_create", P)
    BY <2>1
  <2>. QED  BY <2>2 DEF P
<1>2. WellOrdered("text_custom", TextCustom \o <<"publish">>)
  <2>. DEFINE P == TextCustom \o <<"publish">>
  <2>1. /\ Len(P) = 5
        /\ P[1] = "new" /\ P[2] = "session" /\ P[3] = "tokenizer" /\ P[4] = "desc"
        /\ P[5] = "publish"
    BY DEF TextCustom
  <2>. HIDE DEF P
  <2>2. WellOrdered("text_custom", P)
    BY <2>1
  <2>. QED  BY <2>2 DEF P
<1>3. WellOrdered("text_path", TextPath)
  <2>. DEFINE P == TextPath
  <2>1. /\ Len(P) = 9
        /\ P[1] = "read" /\ P[2] = "dim" /\ P[3] = "new" /\ P[4] = "session"
        /\ P[5] = "tokenizer" /\ P[6] = "desc" /\ P[7] = "cache" /\ P[8] = "desc"
        /\ P[9] = "publish"
    BY DEF TextPath, TextCustom
  <2>. HIDE DEF P
  <2>2. WellOrdered("text_path", P)
    BY <2>1
  <2>. QED  BY <2>2 DEF P
<1>4. WellOrdered("text_gguf", TextGguf)
  <2>. DEFINE P == TextGguf
  <2>1. /\ Len(P) = 5
        /\ P[1] = "new" /\ P[2] = "llama" /\ P[3] = "cache" /\ P[4] = "desc"
        /\ P[5] = "publish"
    BY DEF TextGguf
  <2>. HIDE DEF P
  <2>2. WellOrdered("text_gguf", P)
    BY <2>1
  <2>. QED  BY <2>2 DEF P
<1>5. WellOrdered("text_gguf_model", TextGgufModel)
  <2>. DEFINE P == TextGgufModel
  <2>1. /\ Len(P) = 7
        /\ P[1] = "fetch" /\ P[2] = "new" /\ P[3] = "llama" /\ P[4] = "cache"
        /\ P[5] = "desc" /\ P[6] = "publish" /\ P[7] = "drop_cached"
    BY DEF TextGgufModel, TextGguf
  <2>. HIDE DEF P
  <2>2. WellOrdered("text_gguf_model", P)
    BY <2>1
  <2>. QED  BY <2>2 DEF P
<1>6. WellOrdered("rerank_create", RerankCreate)
  <2>. DEFINE P == RerankCreate
  <2>1. /\ Len(P) = 8
        /\ P[1] = "info" /\ P[2] = "ensure" /\ P[3] = "new" /\ P[4] = "cache"
        /\ P[5] = "session" /\ P[6] = "tokenizer" /\ P[7] = "desc" /\ P[8] = "publish"
    BY DEF RerankCreate, Registered, RerankOnnx
  <2>. HIDE DEF P
  <2>2. WellOrdered("rerank_create", P)
    BY <2>1
  <2>. QED  BY <2>2 DEF P
<1>7. WellOrdered("rerank_v2_auto", RerankV2Auto)
  <2>. DEFINE P == RerankV2Auto
  <2>1. /\ Len(P) = 16
        /\ P[1] = "info" /\ P[2] = "ensure" /\ P[3] = "new" /\ P[4] = "cache"
        /\ P[5] = "session" /\ P[6] = "tokenizer" /\ P[7] = "desc" /\ P[8] = "publish"
        /\ P[9] = "info" /\ P[10] = "ensure" /\ P[11] = "new" /\ P[12] = "cache"
        /\ P[13] = "session" /\ P[14] = "tokenizer" /\ P[15] = "desc" /\ P[16] = "publish"
    BY DEF RerankV2Auto, RerankCreate, Registered, RerankOnnx
  <2>. HIDE DEF P
  <2>2. EndsClean(P)
    BY <2>1
  <2>3. ASSUME NEW i \in 1..16 PROVE BuildsInOrder("rerank_v2_auto", P, i)
    BY <2>1
  <2>4. ASSUME NEW i \in 1..16 PROVE FailsClean("rerank_v2_auto", P, i) /\ PublishesOnce("rerank_v2_auto", P, i)
    BY <2>1
  <2>. HIDE DEF EndsClean, BuildsInOrder, FailsClean, PublishesOnce
  <2>. QED  BY <2>1, <2>2, <2>3, <2>4 DEF P
<1>8. WellOrdered("rerank_path", RerankPath)
  <2>. DEFINE P == RerankPath
  <2>1. /\ Len(P) = 7
        /\ P[1] = "read" /\ P[2] = "new" /\ P[3] = "cache" /\ P[4] = "session"
        /\ P[5] = "tokenizer" /\ P[6] = "desc" /\ P[7] = "publish"
    BY DEF RerankPath, RerankOnnx
  <2>. HIDE DEF P
  <2>2. WellOrdered("rerank_path", P)
    BY <2>1
  <2>. QED  BY <2>2 DEF P
<1>9. WellOrdered("rerank_gguf", RerankGguf)
  <2>. DEFINE P == RerankGguf
  <2>1. /\ Len(P) = 6
        /\ P[1] = "resolve" /\ P[2] = "new" /\ P[3] = "llama" /\ P[4] = "drop_resolved"
        /\ P[5] = "desc" /\ P[6] = "publish"
    BY DEF RerankGguf
  <2>. HIDE DEF P
  <2>2. WellOrdered("rerank_gguf", P)
    BY <2>1
  <2>. QED  BY <2>2 DEF P
<1>10. WellOrdered("rerank_llama", RerankLlama)
  <2>. DEFINE P == RerankLlama
  <2>1. /\ Len(P) = 8
        /\ P[1] = "info" /\ P[2] = "find_gguf" /\ P[3] = "resolve" /\ P[4] = "new"
        /\ P[5] = "llama" /\ P[6] = "drop_resolved" /\ P[7] = "desc" /\ P[8] = "publish"
    BY DEF RerankLlama, RerankGguf
  <2>. HIDE DEF P
  <2>2. WellOrdered("rerank_llama", P)
    BY <2>1
  <2>. QED  BY <2>2 DEF P
<1>11. WellOrdered("rerank_gguf_model", RerankGgufModel)
  <2>. DEFINE P == RerankGgufModel
  <2>1. /\ Len(P) = 8
        /\ P[1] = "fetch" /\ P[2] = "resolve" /\ P[3] = "new" /\ P[4] = "llama"
        /\ P[5] = "drop_resolved" /\ P[6] = "desc" /\ P[7] = "publish" /\ P[8] = "drop_cached"
    BY DEF RerankGgufModel, RerankGguf
  <2>. HIDE DEF P
  <2>2. WellOrdered("rerank_gguf_model", P)
    BY <2>1
  <2>. QED  BY <2>2 DEF P
<1>12. WellOrdered("sparse_create", SparseCreate)
  <2>. DEFINE P == SparseCreate
  <2>1. /\ Len(P) = 7
        /\ P[1] = "info" /\ P[2] = "ensure" /\ P[3] = "new" /\ P[4] = "session"
        /\ P[5] = "tokenizer" /\ P[6] = "desc" /\ P[7] = "publish"
    BY DEF SparseCreate, Registered
  <2>. HIDE DEF P
  <2>2. WellOrdered("sparse_create", P)
    BY <2>1
  <2>. QED  BY <2>2 DEF P
<1>13. WellOrdered("sparse_path", SparsePath)
  <2>. DEFINE P == SparsePath
  <2>1. /\ Len(P) = 6
        /\ P[1] = "read" /\ P[2] = "new" /\ P[3] = "session" /\ P[4] = "tokenizer"
        /\ P[5] = "desc" /\ P[6] = "publish"
    BY DEF SparsePath
  <2>. HIDE DEF P
  <2>2. WellOrdered("sparse_path", P)
    BY <2>1
  <2>. QED  BY <2>2 DEF P
<1>14. WellOrdered("sparse_gguf", SparseGguf)
  <2>. DEFINE P == SparseGguf
  <2>1. /\ Len(P) = 4
        /\ P[1] = "gguf_session" /\ P[2] = "new" /\ P[3] = "desc" /\ P[4] = "publish"
    BY DEF SparseGguf
  <2>. HIDE DEF P
  <2>2. WellOrdered("sparse_gguf", P)
    BY <2>1
  <2>. QED  BY <2>2 DEF P
<1>15. WellOrdered("sparse_gguf_model", SparseGgufModel)
  <2>. DEFINE P == SparseGgufModel
  <2>1. /\ Len(P) = 6
        /\ P[1] = "fetch" /\ P[2] = "drop_cached" /\ P[3] = "gguf_session" /\ P[4] = "new"
        /\ P[5] = "desc" /\ P[6] = "publish"
    BY DEF SparseGgufModel, SparseGguf
  <2>. HIDE DEF P
  <2>2. WellOrdered("sparse_gguf_model", P)
    BY <2>1
  <2>. QED  BY <2>2 DEF P
<1>16. WellOrdered("image_create", ImageCreate)
  <2>. DEFINE P == ImageCreate
  <2>1. /\ Len(P) = 6
        /\ P[1] = "info" /\ P[2] = "ensure" /\ P[3] = "new" /\ P[4] = "session"
        /\ P[5] = "desc" /\ P[6] = "publish"
    BY DEF ImageCreate, Registered
  <2>. HIDE DEF P
  <2>2. WellOrdered("image_create", P)
    BY <2>1
  <2>. QED  BY <2>2 DEF P
<1>17. WellOrdered("image_path", ImagePath)
  <2>. DEFINE P == ImagePath
  <2>1. /\ Len(P) = 6
        /\ P[1] = "read" /\ P[2] = "dim" /\ P[3] = "new" /\ P[4] = "session"
        /\ P[5] = "desc" /\ P[6] = "publish"
    BY DEF ImagePath
  <2>. HIDE DEF P
  <2>2. WellOrdered("image_path", P)
    BY <2>1
  <2>. QED  BY <2>2 DEF P
<1>. HIDE DEF WellOrdered
<1>18. EntryPoints = {"text_create", "text_custom", "text_path", "text_gguf", "text_gguf_model",
          "rerank_create", "rerank_v2_auto", "rerank_path", "rerank_gguf",
          "rerank_llama", "rerank_gguf_model", "sparse_create", "sparse_path",
          "sparse_gguf", "sparse_gguf_model", "image_create", "image_path"}
  BY DEF EntryPoints, Program
<1>19. /\ Program["text_create"] = TextCreate /\ Program["text_custom"] = TextCustom \o <<"publish">>
       /\ Program["text_path"] = TextPath /\ Program["text_gguf"] = TextGguf
       /\ Program["text_gguf_model"] = TextGgufModel /\ Program["rerank_create"] = RerankCreate
       /\ Program["rerank_v2_auto"] = RerankV2Auto /\ Program["rerank_path"] = RerankPath
       /\ Program["rerank_gguf"] = RerankGguf /\ Program["rerank_llama"] = RerankLlama
       /\ Program["rerank_gguf_model"] = RerankGgufModel /\ Program["sparse_create"] = SparseCreate
       /\ Program["sparse_path"] = SparsePath /\ Program["sparse_gguf"] = SparseGguf
       /\ Program["sparse_gguf_model"] = SparseGgufModel /\ Program["image_create"] = ImageCreate
       /\ Program["image_path"] = ImagePath
  BY DEF Program
<1>. QED
  BY <1>1, <1>2, <1>3, <1>4, <1>5, <1>6, <1>7, <1>8, <1>9,
     <1>10, <1>11, <1>12, <1>13, <1>14, <1>15, <1>16, <1>17, <1>18, <1>19

LEMMA CatchFrees ==
  /\ \A ep \in Rerankers : "ctx" \in Catch(ep)
  /\ \A ep \in EntryPoints : "cache" \in Catch(ep) => "ctx" \in Catch(ep)
  BY DEF Catch, Rerankers

(* What has been done before the first step and after one more. *)
LEMMA DoneFirst == \A P, s : ~Done(P, 1, s)
  BY DEF Done

LEMMA HoldingFirst == \A P, s, t : ~Holding(P, 1, s, t)
  BY DEF Holding

LEMMA DoneNext ==
  ASSUME NEW P, NEW i \in Nat \ {0}, NEW s
  PROVE  Done(P, i + 1, s) <=> P[i] # "publish" /\ (P[i] = s \/ Done(P, i, s))
<1>1. (i + 1) - 1 = i /\ i \in 1..i /\ \A j \in 1..(i - 1) : j \in 1..i /\ i \in j..i
  OBVIOUS
<1>2. \A j \in 1..i : j = i \/ j \in 1..(i - 1)
  OBVIOUS
<1>3. \A j \in 1..(i - 1) : \A k \in j..i : k = i \/ k \in j..(i - 1)
  OBVIOUS
<1>4. \A j \in 1..(i - 1) : \A k \in j..(i - 1) : k \in j..i
  OBVIOUS
<1>5. \A k \in i..i : k = i
  OBVIOUS
<1>6. Done(P, i + 1, s) => P[i] # "publish" /\ (P[i] = s \/ Done(P, i, s))
  BY <1>1, <1>2, <1>4 DEF Done
<1>7. P[i] # "publish" /\ P[i] = s => Done(P, i + 1, s)
  BY <1>1, <1>5 DEF Done
<1>8. P[i] # "publish" /\ Done(P, i, s) => Done(P, i + 1, s)
  BY <1>1, <1>3 DEF Done
<1>. QED  BY <1>6, <1>7, <1>8

LEMMA HoldingNext ==
  ASSUME NEW P, NEW i \in Nat \ {0}, NEW s, NEW t
  PROVE  Holding(P, i + 1, s, t) <=> P[i] # t /\ (P[i] = s \/ Holding(P, i, s, t))
<1>1. (i + 1) - 1 = i /\ i \in 1..i /\ \A j \in 1..(i - 1) : j \in 1..i /\ i \in j..i
  OBVIOUS
<1>2. \A j \in 1..i : j = i \/ j \in 1..(i - 1)
  OBVIOUS
<1>3. \A j \in 1..(i - 1) : \A k \in j..i : k = i \/ k \in j..(i - 1)
  OBVIOUS
<1>4. \A j \in 1..(i - 1) : \A k \in j..(i - 1) : k \in j..i
  OBVIOUS
<1>5. \A k \in i..i : k = i
  OBVIOUS
<1>6. Holding(P, i + 1, s, t) => P[i] # t /\ (P[i] = s \/ Holding(P, i, s, t))
  BY <1>1, <1>2, <1>4 DEF Holding
<1>7. P[i] # t /\ P[i] = s => Holding(P, i + 1, s, t)
  BY <1>1, <1>5 DEF Holding
<1>8. P[i] # t /\ Holding(P, i, s, t) => Holding(P, i + 1, s, t)
  BY <1>1, <1>3 DEF Holding
<1>. QED  BY <1>6, <1>7, <1>8

LEMMA PublishedNext ==
  ASSUME NEW P, NEW i \in Nat \ {0}
  PROVE  Published(P, i + 1) <=> P[i] = "publish" \/ Published(P, i)
<1>1. (i + 1) - 1 = i /\ i \in 1..i /\ \A j \in 1..(i - 1) : j \in 1..i
  OBVIOUS
<1>2. \A j \in 1..i : j = i \/ j \in 1..(i - 1)
  OBVIOUS
<1>. QED  BY <1>1, <1>2 DEF Published

-----------------------------------------------------------------------------
Creating == ~NoCall /\ call.at <= Len(Steps)
Now == Steps[call.at]

LEMMA CallFacts ==
  ASSUME HandleInv, ~NoCall
  PROVE  /\ call \in [ep : EntryPoints, at : Nat \ {0}, ctx : DOMAIN heap \cup {Null},
                      opt : Options, for : Owners]
         /\ Len(Steps) \in Nat /\ WellOrdered(call.ep, Steps)
<1>1. call \in [ep : EntryPoints, at : Nat \ {0}, ctx : DOMAIN heap \cup {Null},
                opt : Options, for : Owners]
  BY DEF HandleInv, CallInv, NoCall, Idle
<1>. QED  BY <1>1, OrderOfSteps DEF Steps, WellOrdered

LEMMA StepFacts ==
  ASSUME HandleInv, Creating
  PROVE  /\ call.at \in 1..Len(Steps)
         /\ BuildsInOrder(call.ep, Steps, call.at)
         /\ FailsClean(call.ep, Steps, call.at)
         /\ PublishesOnce(call.ep, Steps, call.at)
<1>1. call.at \in 1..Len(Steps)
  BY CallFacts DEF Creating
<1>. QED  BY <1>1, CallFacts DEF WellOrdered, Creating

(* One step further, on the same handle or another. *)
LEMMA Moves ==
  ASSUME HandleInv, Creating, NEW c,
         call' = [call EXCEPT !.at = @ + 1, !.ctx = c]
  PROVE  /\ call' = [ep |-> call.ep, at |-> call.at + 1, ctx |-> c,
                     opt |-> call.opt, for |-> call.for]
         /\ ~NoCall' /\ Steps' = Steps
         /\ call'.at \in Nat \ {0} /\ call'.at <= Len(Steps') + 1
         /\ \A s : Done(Steps', call'.at, s) <=> Now # "publish" /\ (Now = s \/ Done(Steps, call.at, s))
         /\ \A s, t : Holding(Steps', call'.at, s, t) <=>
                         Now # t /\ (Now = s \/ Holding(Steps, call.at, s, t))
         /\ Published(Steps', call'.at) <=> Now = "publish" \/ Published(Steps, call.at)
<1>1. call \in [ep : EntryPoints, at : Nat \ {0}, ctx : DOMAIN heap \cup {Null},
                opt : Options, for : Owners]
  BY CallFacts DEF Creating
<1>2. call' = [ep |-> call.ep, at |-> call.at + 1, ctx |-> c,
               opt |-> call.opt, for |-> call.for]
  BY <1>1
<1>3. ~NoCall' /\ Steps' = Steps /\ call'.at = call.at + 1
  BY <1>2 DEF NoCall, Steps, Creating
<1>4. call'.at \in Nat \ {0} /\ call'.at <= Len(Steps') + 1
  BY <1>1, <1>3, CallFacts DEF Creating
<1>5. call.at \in Nat \ {0}
  BY <1>1
<1>6. \A s : Done(Steps', call'.at, s) <=> Now # "publish" /\ (Now = s \/ Done(Steps, call.at, s))
  BY <1>3, <1>5, DoneNext DEF Now
<1>7. \A s, t : Holding(Steps', call'.at, s, t) <=>
                   Now # t /\ (Now = s \/ Holding(Steps, call.at, s, t))
  BY <1>3, <1>5, HoldingNext DEF Now
<1>8. Published(Steps', call'.at) <=> Now = "publish" \/ Published(Steps, call.at)
  BY <1>3, <1>5, PublishedNext DEF Now
<1>. QED  BY <1>2, <1>3, <1>4, <1>6, <1>7, <1>8

LEMMA OnwardMoves ==
  ASSUME HandleInv, Creating, Onward
  PROVE  call' = [call EXCEPT !.at = @ + 1, !.ctx = call.ctx]
  BY CallFacts DEF Onward, Creating

-----------------------------------------------------------------------------
(* A step that only looks, or takes or drops a path. *)
LEMMA LooksOn ==
  ASSUME HandleInv, Creating, Onward, Now \notin OnHandle \cup {"new"},
         UNCHANGED <<heap, caches, out, owner>>,
         \A s \in strings' :
            \/ s = "cached" /\ Holding(Steps', call'.at, "fetch", "drop_cached")
            \/ s = "resolved" /\ Holding(Steps', call'.at, "resolve", "drop_resolved")
  PROVE  HandleInv'
<1>1. call' = [call EXCEPT !.at = @ + 1, !.ctx = call.ctx]
  BY OnwardMoves
<1>2. /\ call' = [ep |-> call.ep, at |-> call.at + 1, ctx |-> call.ctx,
                  opt |-> call.opt, for |-> call.for]
      /\ ~NoCall' /\ Steps' = Steps /\ call'.at \in Nat \ {0} /\ call'.at <= Len(Steps') + 1
  BY <1>1, Moves
<1>3. /\ \A s \in OnHandle \cup {"new"} : Done(Steps', call'.at, s) <=> Done(Steps, call.at, s)
      /\ Published(Steps', call'.at) <=> Published(Steps, call.at)
  BY <1>1, Moves DEF OnHandle
<1>4. Owned' = Owned /\ HeapInv' /\ OwnerInv'
  BY DEF HandleInv, HeapInv, OwnerInv, OwnersApart, Owned
<1>5. ~NoCall
  BY DEF Creating
<1>6. call.ctx # Null => Building(heap'[call'.ctx], Steps', call'.at)
  <2>1. call'.at - 1 = call.at /\ Steps'[call.at] # "desc"
    BY <1>2, CallFacts, <1>5 DEF Now, OnHandle
  <2>. QED
    BY <1>2, <1>3, <1>5, <2>1 DEF HandleInv, CallInv, Building, OnHandle
<1>7. CallInv'
  BY <1>2, <1>3, <1>4, <1>5, <1>6, CallFacts DEF HandleInv, CallInv, OnHandle
<1>8. InUse' = InUse
  BY <1>2, <1>4, <1>5 DEF InUse
<1>9. LeakInv'
  BY <1>2, <1>8 DEF HandleInv, LeakInv
<1>. QED  BY <1>4, <1>7, <1>9 DEF HandleInv

(* A step that works on the handle under construction. *)
LEMMA WorksOn ==
  ASSUME HandleInv, Creating, Onward, Now \in OnHandle \ {"publish"},
         NEW r \in Handle, r.by = call.ep, Building(r, Steps', call'.at),
         heap' = [heap EXCEPT ![call.ctx] = r],
         caches' \in {caches, caches \cup {call.ctx}},
         r.cache > 0 <=> call.ctx \in caches',
         Now # "cache" => caches' = caches,
         UNCHANGED <<strings, out, owner>>
  PROVE  HandleInv'
<1>1. call' = [call EXCEPT !.at = @ + 1, !.ctx = call.ctx]
  BY OnwardMoves
<1>2. /\ call' = [ep |-> call.ep, at |-> call.at + 1, ctx |-> call.ctx,
                  opt |-> call.opt, for |-> call.for]
      /\ ~NoCall' /\ Steps' = Steps /\ call'.at \in Nat \ {0} /\ call'.at <= Len(Steps') + 1
  BY <1>1, Moves
<1>3. /\ \A s : Done(Steps', call'.at, s) <=> Now = s \/ Done(Steps, call.at, s)
      /\ Published(Steps', call'.at) <=> Published(Steps, call.at)
      /\ Holding(Steps', call'.at, "fetch", "drop_cached") <=>
            Holding(Steps, call.at, "fetch", "drop_cached")
      /\ Holding(Steps', call'.at, "resolve", "drop_resolved") <=>
            Holding(Steps, call.at, "resolve", "drop_resolved")
  BY <1>1, Moves DEF OnHandle
<1>4. ~NoCall /\ Done(Steps, call.at, "new")
  BY StepFacts DEF Creating, BuildsInOrder, Now
<1>5. call.ctx # Null /\ call.ctx \in DOMAIN heap /\ call.ctx \notin Owned /\ call.ctx # out
  BY <1>4, CallFacts DEF HandleInv, CallInv
<1>6. DOMAIN heap' = DOMAIN heap /\ heap'[call.ctx] = r
      /\ \A h \in DOMAIN heap : h # call.ctx => heap'[h] = heap[h]
  BY <1>5 DEF HandleInv, HeapInv
<1>7. HeapInv'
  BY <1>5, <1>6 DEF HandleInv, HeapInv
<1>8. Owned' = Owned /\ OwnerInv'
  BY <1>5, <1>6 DEF HandleInv, OwnerInv, OwnersApart, Owned
<1>9. CallInv'
  <2>1. call' \in [ep : EntryPoints, at : Nat \ {0}, ctx : DOMAIN heap' \cup {Null},
                   opt : Options, for : Owners]
    BY <1>2, <1>4, <1>6, CallFacts
  <2>2. owner'[call'.for] = Null
    BY <1>2, <1>4 DEF HandleInv, CallInv
  <2>3. call'.ctx \in caches' => Done(Steps', call'.at, "cache")
    BY <1>2, <1>3, <1>4, <1>5 DEF HandleInv, CallInv
  <2>4. out' # Null =>
           /\ out' \in DOMAIN heap' /\ out' \notin Owned' /\ out' # call'.ctx
           /\ heap'[out'].by = call'.ep /\ WholeHandle(heap'[out'])
           /\ Published(Steps', call'.at)
    BY <1>2, <1>3, <1>4, <1>5, <1>6, <1>8 DEF HandleInv, CallInv
  <2>5. Done(Steps', call'.at, "new")
    BY <1>3, <1>4
  <2>. QED
    BY <1>2, <1>5, <1>6, <1>8, <2>1, <2>2, <2>3, <2>4, <2>5 DEF CallInv
<1>10. InUse' = InUse
  BY <1>2, <1>4, <1>8 DEF InUse
<1>11. LeakInv'
  <2>1. call.ctx \in InUse
    BY <1>4 DEF InUse
  <2>. QED
    BY <1>2, <1>3, <1>6, <1>10, <2>1 DEF HandleInv, LeakInv
<1>. QED  BY <1>7, <1>8, <1>9, <1>11 DEF HandleInv

(* The catch block. *)
LEMMA StepFails ==
  ASSUME HandleInv, Creating, Now \in MayFail, Fails
  PROVE  HandleInv'
<1>. DEFINE c == Catch(call.ep)
<1>1. /\ heap' = IF "ctx" \in c /\ call.ctx # Null THEN Without(call.ctx) ELSE heap
      /\ caches' = IF "cache" \in c THEN caches \ {call.ctx} ELSE caches
      /\ strings' = strings \ c
      /\ call' = Idle /\ UNCHANGED <<out, owner>>
  BY DEF Fails
<1>2. ~NoCall /\ NoCall' /\ FailsClean(call.ep, Steps, call.at)
  BY <1>1, StepFacts DEF Creating, NoCall, Idle
<1>3. /\ call.ep \in EntryPoints
      /\ call.ep \in Rerankers => "ctx" \in c
      /\ "cache" \in c => "ctx" \in c
      /\ Done(Steps, call.at, "cache") => "cache" \in c
      /\ Holding(Steps, call.at, "fetch", "drop_cached") => "cached" \in c
      /\ Holding(Steps, call.at, "resolve", "drop_resolved") => "resolved" \in c
      /\ out # Null => call.ep = "rerank_v2_auto"
  BY <1>2, CallFacts, CatchFrees, StepFacts
     DEF FailsClean, PublishesOnce, Now, HandleInv, CallInv
<1>. HIDE DEF c
<1>4. /\ DOMAIN heap' \subseteq DOMAIN heap
      /\ \A h \in DOMAIN heap' : heap'[h] = heap[h]
      /\ \A h \in DOMAIN heap : h # call.ctx => h \in DOMAIN heap'
      /\ "ctx" \in c /\ call.ctx # Null => call.ctx \notin DOMAIN heap'
      /\ heap' = [h \in DOMAIN heap' |-> heap[h]]
  BY <1>1 DEF Without, HandleInv, HeapInv
<1>5. /\ call.ctx \notin Owned /\ Null \notin DOMAIN heap
      /\ call.ctx \in caches => Done(Steps, call.at, "cache") /\ call.ctx # Null
  BY <1>2, CallsAssumption DEF HandleInv, HeapInv, CallInv, Owned, Ids, Null
<1>6. /\ call.ctx \notin caches'
      /\ caches' \subseteq caches /\ \A h \in caches : h # call.ctx => h \in caches'
  BY <1>1, <1>3, <1>5
<1>7. HeapInv'
  <2>1. caches' \subseteq DOMAIN heap'
    BY <1>4, <1>6 DEF HandleInv, HeapInv
  <2>2. ASSUME NEW h \in DOMAIN heap' PROVE heap'[h].cache > 0 <=> h \in caches'
    <3>1. CASE h # call.ctx
      BY <1>4, <1>6, <3>1 DEF HandleInv, HeapInv
    <3>2. CASE h = call.ctx
      <4>1. h \notin caches
        BY <1>3, <1>4, <1>5, <3>2
      <4>. QED  BY <1>4, <1>6, <4>1 DEF HandleInv, HeapInv
    <3>. QED  BY <3>1, <3>2
  <2>. QED  BY <1>4, <2>1, <2>2 DEF HandleInv, HeapInv
<1>8. Owned' = Owned /\ \A h \in Owned : h \in DOMAIN heap'
  BY <1>1, <1>4, <1>5 DEF HandleInv, OwnerInv, OwnersApart, Owned
<1>9. OwnerInv'
  BY <1>1, <1>4, <1>5, <1>8 DEF HandleInv, OwnerInv, OwnersApart, Owned
<1>10. CallInv'
  BY <1>1, <1>2 DEF CallInv
<1>11. InUse' = Owned
  BY <1>2, <1>8 DEF InUse
<1>12. LeakInv'
  <2>1. strings' = {}
    BY <1>1, <1>3 DEF HandleInv, LeakInv
  <2>2. ASSUME NEW h \in caches' PROVE h \in Owned \/ heap'[h].by = "rerank_v2_auto"
    <3>1. h \in caches /\ h # call.ctx /\ h \in DOMAIN heap'
      BY <1>6, <1>7 DEF HeapInv
    <3>2. CASE h = out
      BY <1>2, <1>3, <1>4, <1>5, <3>1, <3>2 DEF HandleInv, CallInv, HeapInv
    <3>3. CASE h # out
      BY <1>2, <1>4, <3>1, <3>3 DEF HandleInv, LeakInv, InUse
    <3>. QED  BY <3>2, <3>3
  <2>3. ASSUME NEW h \in DOMAIN heap', heap'[h].by \in Rerankers \ {"rerank_v2_auto"}
        PROVE  h \in Owned
    <3>1. h \in DOMAIN heap /\ heap[h].by \in Rerankers \ {"rerank_v2_auto"} /\ h # Null
      BY <1>4, <1>5, <2>3
    <3>2. h # out
      BY <1>2, <1>3, <3>1 DEF HandleInv, CallInv
    <3>3. h # call.ctx
      BY <1>2, <1>3, <1>4, <3>1, <2>3 DEF HandleInv, CallInv
    <3>. QED  BY <1>2, <3>1, <3>2, <3>3 DEF HandleInv, LeakInv, InUse
  <2>. QED  BY <1>11, <2>1, <2>2, <2>3 DEF LeakInv
<1>. QED  BY <1>7, <1>9, <1>10, <1>12 DEF HandleInv

-----------------------------------------------------------------------------
(* The actions.  At(step) says where a creation is.                        *)
LEMMA AtFacts ==
  ASSUME NEW step, At(step)
  PROVE  Creating /\ Now = step
  BY DEF At, Creating, Now, Steps

LEMMA StepLook ==
  ASSUME HandleInv, Look
  PROVE  HandleInv'
<1>1. PICK step \in Looks : At(step)
  BY DEF Look
<1>2. Creating /\ Now = step
  BY <1>1, AtFacts
<1>3. CASE Fails
  BY <1>2, <1>3, StepFails DEF MayFail
<1>4. CASE Onward /\ UNCHANGED <<heap, caches, strings, out, owner, calls>>
  <2>1. call' = [call EXCEPT !.at = @ + 1, !.ctx = call.ctx]
    BY <1>2, <1>4, OnwardMoves
  <2>2. \A s \in strings' :
           \/ s = "cached" /\ Holding(Steps', call'.at, "fetch", "drop_cached")
           \/ s = "resolved" /\ Holding(Steps', call'.at, "resolve", "drop_resolved")
    BY <1>2, <1>4, <2>1, Moves DEF Looks, HandleInv, LeakInv
  <2>. QED  BY <1>2, <1>4, <2>2, LooksOn DEF Looks, OnHandle
<1>. QED  BY <1>3, <1>4 DEF Look

LEMMA StepCheckDim ==
  ASSUME HandleInv, CheckDim
  PROVE  HandleInv'
<1>1. Creating /\ Now = "dim"
  BY AtFacts DEF CheckDim
<1>2. CASE Fails
  BY <1>1, <1>2, StepFails DEF MayFail
<1>3. CASE Onward /\ UNCHANGED <<heap, caches, strings, out, owner, calls>>
  <2>1. call' = [call EXCEPT !.at = @ + 1, !.ctx = call.ctx]
    BY <1>1, <1>3, OnwardMoves
  <2>2. \A s \in strings' :
           \/ s = "cached" /\ Holding(Steps', call'.at, "fetch", "drop_cached")
           \/ s = "resolved" /\ Holding(Steps', call'.at, "resolve", "drop_resolved")
    BY <1>1, <1>3, <2>1, Moves DEF HandleInv, LeakInv
  <2>. QED  BY <1>1, <1>3, <2>2, LooksOn DEF OnHandle
<1>. QED  BY <1>2, <1>3 DEF CheckDim

LEMMA StepTakePath ==
  ASSUME HandleInv, TakePath
  PROVE  HandleInv'
<1>1. Creating /\ Now \in {"fetch", "resolve"}
  BY AtFacts DEF TakePath
<1>2. CASE Fails
  BY <1>1, <1>2, StepFails DEF MayFail
<1>3. CASE /\ strings' = strings \cup {Path} /\ Onward
           /\ UNCHANGED <<heap, caches, out, owner, calls>>
  <2>1. call' = [call EXCEPT !.at = @ + 1, !.ctx = call.ctx]
    BY <1>1, <1>3, OnwardMoves
  <2>2. Path = IF Now = "fetch" THEN "cached" ELSE "resolved"
    BY <1>1 DEF Path, At, Now, Steps, Creating
  <2>3. \A s \in strings' :
           \/ s = "cached" /\ Holding(Steps', call'.at, "fetch", "drop_cached")
           \/ s = "resolved" /\ Holding(Steps', call'.at, "resolve", "drop_resolved")
    BY <1>1, <1>3, <2>1, <2>2, Moves DEF HandleInv, LeakInv
  <2>. QED  BY <1>1, <1>3, <2>3, LooksOn DEF OnHandle
<1>. QED  BY <1>2, <1>3 DEF TakePath

LEMMA StepDropPath ==
  ASSUME HandleInv, DropPath
  PROVE  HandleInv'
<1>1. Creating /\ Now \in {"drop_cached", "drop_resolved"}
  BY AtFacts DEF DropPath
<1>2. strings' = strings \ {IF Now = "drop_cached" THEN "cached" ELSE "resolved"}
  BY <1>1 DEF DropPath, At, Now, Steps, Creating
<1>3. call' = [call EXCEPT !.at = @ + 1, !.ctx = call.ctx]
  BY <1>1, OnwardMoves DEF DropPath
<1>4. \A s \in strings' :
         \/ s = "cached" /\ Holding(Steps', call'.at, "fetch", "drop_cached")
         \/ s = "resolved" /\ Holding(Steps', call'.at, "resolve", "drop_resolved")
  BY <1>1, <1>2, <1>3, Moves DEF HandleInv, LeakInv
<1>. QED  BY <1>1, <1>4, LooksOn DEF DropPath, OnHandle

(* The handle under construction, for the steps that work on it.           *)
LEMMA CtxFacts ==
  ASSUME HandleInv, Creating, Now \in OnHandle
  PROVE  /\ call.ctx \in DOMAIN heap /\ call.ctx # Null /\ call.ctx \notin Owned
         /\ Ctx \in Handle /\ Ctx.by = call.ep /\ Building(Ctx, Steps, call.at)
         /\ Ctx.cache > 0 <=> call.ctx \in caches
<1>1. ~NoCall /\ Done(Steps, call.at, "new")
  BY StepFacts DEF Creating, BuildsInOrder, Now
<1>2. call.ctx # Null /\ call.ctx \in DOMAIN heap
  BY <1>1, CallFacts DEF HandleInv, CallInv
<1>3. Ctx \in Handle
  BY <1>2 DEF HandleInv, HeapInv, Ctx
<1>. QED  BY <1>1, <1>2, <1>3 DEF HandleInv, CallInv, HeapInv, Ctx

(* How what was done changes with a step on the handle.                    *)
LEMMA WorkDone ==
  ASSUME HandleInv, Creating, Onward, Now \in OnHandle \ {"publish"}
  PROVE  /\ \A s : Done(Steps', call'.at, s) <=> Now = s \/ Done(Steps, call.at, s)
         /\ call'.at - 1 = call.at /\ Steps'[call.at] = Now
<1>1. call' = [call EXCEPT !.at = @ + 1, !.ctx = call.ctx]
  BY OnwardMoves
<1>2. call'.at = call.at + 1 /\ Steps' = Steps /\ call.at \in Nat
  BY <1>1, Moves, CallFacts DEF Creating
<1>3. \A s : Done(Steps', call'.at, s) <=> Now # "publish" /\ (Now = s \/ Done(Steps, call.at, s))
  BY <1>1, Moves
<1>4. call'.at - 1 = call.at /\ Steps'[call.at] = Now
  BY <1>2 DEF Now
<1>. QED  BY <1>3, <1>4

LEMMA StepLoadSession ==
  ASSUME HandleInv, LoadSession
  PROVE  HandleInv'
<1>1. Creating /\ Now = "session"
  BY AtFacts DEF LoadSession
<1>2. CASE Fails
  BY <1>1, <1>2, StepFails DEF MayFail
<1>3. CASE /\ SetCtx([Ctx EXCEPT !.loaded = TRUE]) /\ Onward
           /\ UNCHANGED <<caches, strings, out, owner, calls>>
  <2>. DEFINE r == [Ctx EXCEPT !.loaded = TRUE]
  <2>1. /\ Ctx \in Handle /\ Ctx.by = call.ep /\ Building(Ctx, Steps, call.at)
        /\ Ctx.cache > 0 <=> call.ctx \in caches
    BY <1>1, CtxFacts DEF OnHandle
  <2>2. r \in Handle /\ r.by = Ctx.by /\ r.loaded /\ r.tok = Ctx.tok /\ r.len = Ctx.len
        /\ r.cache = Ctx.cache
    BY <2>1 DEF Handle
  <2>3. Building(r, Steps', call'.at)
    BY <1>1, <1>3, <2>1, <2>2, WorkDone DEF Building, OnHandle
  <2>. HIDE DEF r
  <2>4. heap' = [heap EXCEPT ![call.ctx] = r]
    BY <1>3 DEF SetCtx, r
  <2>. QED  BY <1>1, <1>3, <2>1, <2>2, <2>3, <2>4, WorksOn DEF OnHandle
<1>. QED  BY <1>2, <1>3 DEF LoadSession

LEMMA StepLoadTokenizer ==
  ASSUME HandleInv, LoadTokenizer
  PROVE  HandleInv'
<1>1. Creating /\ Now = "tokenizer"
  BY AtFacts DEF LoadTokenizer
<1>2. CASE Fails
  BY <1>1, <1>2, StepFails DEF MayFail
<1>3. CASE /\ SetCtx([Ctx EXCEPT !.tok = Ctx.len]) /\ Onward
           /\ UNCHANGED <<caches, strings, out, owner, calls>>
  <2>. DEFINE r == [Ctx EXCEPT !.tok = Ctx.len]
  <2>1. /\ Ctx \in Handle /\ Ctx.by = call.ep /\ Building(Ctx, Steps, call.at)
        /\ Ctx.cache > 0 <=> call.ctx \in caches
    BY <1>1, CtxFacts DEF OnHandle
  <2>2. r \in Handle /\ r.by = Ctx.by /\ r.loaded = Ctx.loaded /\ r.tok = r.len /\ r.len = Ctx.len
        /\ r.cache = Ctx.cache
    BY <2>1 DEF Handle
  <2>3. Building(r, Steps', call'.at)
    BY <1>1, <1>3, <2>1, <2>2, WorkDone DEF Building, OnHandle
  <2>. HIDE DEF r
  <2>4. heap' = [heap EXCEPT ![call.ctx] = r]
    BY <1>3 DEF SetCtx, r
  <2>. QED  BY <1>1, <1>3, <2>1, <2>2, <2>3, <2>4, WorksOn DEF OnHandle
<1>. QED  BY <1>2, <1>3 DEF LoadTokenizer

LEMMA StepLoadLlama ==
  ASSUME HandleInv, LoadLlama
  PROVE  HandleInv'
<1>1. Creating /\ Now = "llama"
  BY AtFacts DEF LoadLlama
<1>2. CASE Fails
  BY <1>1, <1>2, StepFails DEF MayFail
<1>. DEFINE text == call.ep \in Texts
            inPool == text /\ call.opt.auto_workers
            dim == IF text /\ ~inPool THEN InfoDim ELSE Ctx.dim
            len == First(Ctx.len, IF inPool THEN 0 ELSE ContextLen)
            r == [Ctx EXCEPT !.loaded = ~inPool, !.dim = dim, !.len = len]
<1>3. CASE /\ SetCtx(r) /\ Onward
           /\ UNCHANGED <<caches, strings, out, owner, calls>>
  <2>1. /\ Ctx \in Handle /\ Ctx.by = call.ep /\ Building(Ctx, Steps, call.at)
        /\ Ctx.cache > 0 <=> call.ctx \in caches
    BY <1>1, CtxFacts DEF OnHandle
  <2>2. dim \in Nat /\ len \in Nat /\ inPool \in BOOLEAN
    BY <2>1 DEF Handle, First, InfoDim, ContextLen
  <2>. HIDE DEF inPool, dim, len
  <2>3. r \in Handle /\ r.by = Ctx.by /\ r.loaded = ~inPool /\ r.tok = Ctx.tok /\ r.cache = Ctx.cache
    BY <2>1, <2>2 DEF Handle
  <2>. HIDE DEF r
  <2>4. ~Done(Steps, call.at, "session") /\ ~Done(Steps, call.at, "tokenizer")
    BY <1>1, StepFacts DEF BuildsInOrder, Now
  <2>5. inPool => call.ep \in TextGgufs
    BY <1>1, StepFacts DEF BuildsInOrder, Now, inPool
  <2>6. call.ep \notin SparseGgufs
    BY <1>1, StepFacts DEF BuildsInOrder, Now
  <2>7. Building(r, Steps', call'.at)
    BY <1>1, <1>3, <2>1, <2>3, <2>4, <2>5, <2>6, WorkDone DEF Building, OnHandle
  <2>8. heap' = [heap EXCEPT ![call.ctx] = r]
    BY <1>3 DEF SetCtx
  <2>. QED  BY <1>1, <1>3, <2>1, <2>3, <2>7, <2>8, WorksOn DEF OnHandle
<1>4. ASSUME ~Fails
      PROVE  SetCtx(r) /\ Onward /\ UNCHANGED <<caches, strings, out, owner, calls>>
  <2>1. Ctx \in Handle
    BY <1>1, CtxFacts DEF OnHandle
  <2>. QED  BY <1>4, <2>1 DEF LoadLlama, Handle
<1>. QED  BY <1>2, <1>3, <1>4

LEMMA StepNewCache ==
  ASSUME HandleInv, NewCache
  PROVE  HandleInv'
<1>1. Creating /\ Now = "cache" /\ Onward /\ UNCHANGED <<strings, out, owner, calls>>
  BY AtFacts DEF NewCache
<1>2. /\ Ctx \in Handle /\ Ctx.by = call.ep /\ Building(Ctx, Steps, call.at)
      /\ Ctx.cache > 0 <=> call.ctx \in caches
      /\ call.ctx \in DOMAIN heap
  BY <1>1, CtxFacts DEF OnHandle
<1>3. call.opt.cache \in Nat
  BY <1>1, CallFacts, OptionsAssumption DEF Creating
<1>4. CASE call.opt.cache > 0
  <2>. DEFINE r == [Ctx EXCEPT !.cache = call.opt.cache]
  <2>1. r \in Handle /\ r.by = Ctx.by /\ r.loaded = Ctx.loaded /\ r.tok = Ctx.tok /\ r.len = Ctx.len
        /\ r.cache = call.opt.cache
    BY <1>2, <1>3 DEF Handle
  <2>2. Building(r, Steps', call'.at)
    BY <1>1, <1>2, <2>1, WorkDone DEF Building, OnHandle
  <2>. HIDE DEF r
  <2>3. caches' = caches \cup {call.ctx} /\ heap' = [heap EXCEPT ![call.ctx] = r]
    BY <1>4 DEF NewCache, SetCtx, r
  <2>. QED  BY <1>1, <1>2, <1>4, <2>1, <2>2, <2>3, WorksOn DEF OnHandle
<1>5. CASE ~(call.opt.cache > 0)
  <2>1. heap' = heap /\ caches' = caches
    BY <1>5 DEF NewCache
  <2>2. heap' = [heap EXCEPT ![call.ctx] = Ctx]
    BY <1>2, <2>1 DEF HandleInv, HeapInv, Ctx
  <2>3. Building(Ctx, Steps', call'.at)
    BY <1>1, <1>2, WorkDone DEF Building, OnHandle
  <2>. HIDE DEF Ctx
  <2>. QED  BY <1>1, <1>2, <2>1, <2>2, <2>3, WorksOn DEF OnHandle
<1>. QED  BY <1>4, <1>5

LEMMA StepUpdateDesc ==
  ASSUME HandleInv, UpdateDesc
  PROVE  HandleInv'
<1>1. /\ Creating /\ Now = "desc" /\ Onward
      /\ UNCHANGED <<caches, strings, out, owner, calls>>
  BY AtFacts DEF UpdateDesc
<1>2. /\ Ctx \in Handle /\ Ctx.by = call.ep /\ Building(Ctx, Steps, call.at)
      /\ Ctx.cache > 0 <=> call.ctx \in caches
  BY <1>1, CtxFacts DEF OnHandle
<1>. DEFINE d == [len |-> Ctx.len, dim |-> Ctx.dim, cache |-> Ctx.cache]
            r == [Ctx EXCEPT !.desc = d]
<1>3. d \in [len : Nat, dim : Nat, cache : Nat]
  BY <1>2 DEF Handle
<1>4. heap' = [heap EXCEPT ![call.ctx] = r]
  BY DEF UpdateDesc, SetCtx
<1>. HIDE DEF d
<1>5. r \in Handle /\ r.by = Ctx.by /\ r.loaded = Ctx.loaded /\ r.tok = Ctx.tok /\ r.len = Ctx.len
      /\ r.dim = Ctx.dim /\ r.cache = Ctx.cache /\ r.desc = d
  BY <1>2, <1>3 DEF Handle
<1>. HIDE DEF r
<1>6. r.desc = Desc(r)
  BY <1>5 DEF Desc, d
<1>7. Building(r, Steps', call'.at)
  BY <1>1, <1>2, <1>5, <1>6, WorkDone DEF Building, OnHandle
<1>. QED  BY <1>1, <1>2, <1>4, <1>5, <1>7, WorksOn DEF OnHandle

LEMMA OptionTypes ==
  ASSUME NEW ep \in EntryPoints, NEW o \in Options
  PROVE  MaxLength(ep, o) \in Nat /\ Dim(ep, o) \in Nat
<1>1. o.len \in Nat /\ o.cfgLen \in Nat /\ o.dim \in Nat /\ o.cfgDim \in Nat
  BY OptionsAssumption
<1>2. \A a, b \in Nat : First(a, b) \in Nat
  BY DEF First
<1>3. InfoLen \in Nat /\ DefaultLen \in Nat /\ ContextLen \in Nat /\ InfoDim \in Nat
  BY DEF InfoLen, DefaultLen, ContextLen, InfoDim
<1>4. ep \in {"text_create", "text_custom", "text_path", "text_gguf", "text_gguf_model",
              "rerank_create", "rerank_v2_auto", "rerank_path", "rerank_gguf",
              "rerank_llama", "rerank_gguf_model", "sparse_create", "sparse_path",
              "sparse_gguf", "sparse_gguf_model", "image_create", "image_path"}
  BY DEF EntryPoints, Program
<1>5. MaxLength(ep, o) \in Nat
  BY <1>1, <1>2, <1>3, <1>4 DEF MaxLength, Images
<1>6. Dim(ep, o) \in Nat
  BY <1>1, <1>2, <1>3, <1>4 DEF Dim
<1>. QED  BY <1>5, <1>6

LEMMA StepNew ==
  ASSUME HandleInv, New
  PROVE  HandleInv'
<1>. DEFINE r == [by |-> call.ep, loaded |-> call.ep \in {"sparse_gguf", "sparse_gguf_model"},
                  tok |-> 0, len |-> MaxLength(call.ep, call.opt),
                  dim |-> Dim(call.ep, call.opt), cache |-> 0, desc |-> NewDesc]
<1>1. /\ Creating /\ Now = "new" /\ ~NoCall
      /\ call' = [call EXCEPT !.at = @ + 1, !.ctx = Fresh]
      /\ heap' = [i \in DOMAIN heap \cup {Fresh} |-> IF i # Fresh THEN heap[i] ELSE r]
      /\ UNCHANGED <<caches, strings, out, owner>>
  BY AtFacts DEF New, Creating
<1>2. Fresh \in Ids /\ Fresh \notin DOMAIN heap /\ Fresh # Null
  <2>1. \E h \in Ids : h \notin DOMAIN heap
    BY DEF New
  <2>2. Fresh \in Ids /\ Fresh \notin DOMAIN heap
    BY <2>1 DEF Fresh
  <2>. QED  BY <2>2, CallsAssumption DEF Ids, Null
<1>3. call.ep \in EntryPoints /\ call.opt \in Options /\ call.for \in Owners
  BY <1>1, CallFacts
<1>4. r \in Handle
  <2>1. NewDesc \in [len : Nat, dim : Nat, cache : Nat]
    BY DEF NewDesc
  <2>. QED  BY <1>3, <2>1, OptionTypes DEF Handle
<1>5. /\ call' = [ep |-> call.ep, at |-> call.at + 1, ctx |-> Fresh,
                  opt |-> call.opt, for |-> call.for]
      /\ ~NoCall' /\ Steps' = Steps /\ call'.at \in Nat \ {0} /\ call'.at <= Len(Steps') + 1
      /\ \A s : Done(Steps', call'.at, s) <=> Now = s \/ Done(Steps, call.at, s)
      /\ Published(Steps', call'.at) <=> Published(Steps, call.at)
      /\ Holding(Steps', call'.at, "fetch", "drop_cached") <=>
            Holding(Steps, call.at, "fetch", "drop_cached")
      /\ Holding(Steps', call'.at, "resolve", "drop_resolved") <=>
            Holding(Steps, call.at, "resolve", "drop_resolved")
  BY <1>1, Moves
<1>6. ~Done(Steps, call.at, "new") /\ call.ctx = Null
      /\ ~Done(Steps, call.at, "session") /\ ~Done(Steps, call.at, "llama")
      /\ ~Done(Steps, call.at, "tokenizer")
  BY <1>1, StepFacts DEF BuildsInOrder, Now, HandleInv, CallInv
<1>7. /\ r.by = call.ep /\ r.tok = 0 /\ r.cache = 0
      /\ call.ep \in SparseGgufs => r.loaded
  BY DEF SparseGgufs
<1>. HIDE DEF r
<1>8. DOMAIN heap' = DOMAIN heap \cup {Fresh} /\ heap'[Fresh] = r
      /\ \A h \in DOMAIN heap : heap'[h] = heap[h]
  BY <1>1, <1>2
<1>9. HeapInv'
  <2>1. heap' \in [DOMAIN heap' -> Handle]
    BY <1>1, <1>4, <1>8 DEF HandleInv, HeapInv
  <2>2. \A h \in DOMAIN heap' : heap'[h].cache > 0 <=> h \in caches'
    BY <1>1, <1>2, <1>7, <1>8 DEF HandleInv, HeapInv
  <2>. QED  BY <1>1, <1>2, <1>8, <2>1, <2>2 DEF HandleInv, HeapInv
<1>10. Owned' = Owned /\ OwnerInv' /\ Fresh \notin Owned
  BY <1>1, <1>2, <1>8 DEF HandleInv, OwnerInv, OwnersApart, Owned
<1>11. CallInv'
  <2>1. call' \in [ep : EntryPoints, at : Nat \ {0}, ctx : DOMAIN heap' \cup {Null},
                   opt : Options, for : Owners]
    BY <1>3, <1>5, <1>8
  <2>2. owner'[call'.for] = Null
    BY <1>1, <1>5 DEF HandleInv, CallInv
  <2>3. Building(heap'[call'.ctx], Steps', call'.at)
    <3>1. call'.at - 1 = call.at /\ Steps'[call.at] # "desc"
      BY <1>1, <1>5, CallFacts DEF Now
    <3>. QED
      BY <1>1, <1>5, <1>6, <1>7, <1>8, <3>1 DEF Building
  <2>4. call'.ctx \notin caches'
    BY <1>1, <1>2, <1>5 DEF HandleInv, HeapInv
  <2>5. out' # Null =>
           /\ out' \in DOMAIN heap' /\ out' \notin Owned' /\ out' # call'.ctx
           /\ heap'[out'].by = call'.ep /\ WholeHandle(heap'[out'])
           /\ Published(Steps', call'.at)
    BY <1>1, <1>2, <1>5, <1>8, <1>10 DEF HandleInv, CallInv
  <2>6. Done(Steps', call'.at, "new") /\ call'.ctx # Null /\ call'.ctx \notin Owned'
        /\ heap'[call'.ctx].by = call'.ep
    BY <1>1, <1>2, <1>5, <1>7, <1>8, <1>10
  <2>. QED  BY <1>5, <2>1, <2>2, <2>3, <2>4, <2>5, <2>6 DEF CallInv
<1>12. LeakInv'
  <2>1. InUse \ {Null} \subseteq InUse' /\ Fresh \in InUse'
    BY <1>1, <1>5, <1>6, <1>10 DEF InUse
  <2>2. Null \notin DOMAIN heap /\ caches \subseteq DOMAIN heap
    BY CallsAssumption DEF HandleInv, HeapInv, Ids, Null
  <2>. QED  BY <1>1, <1>5, <1>8, <2>1, <2>2 DEF HandleInv, LeakInv
<1>. QED  BY <1>9, <1>10, <1>11, <1>12 DEF HandleInv

LEMMA StepPublish ==
  ASSUME HandleInv, Publish
  PROVE  HandleInv'
<1>1. /\ Creating /\ Now = "publish" /\ ~NoCall
      /\ call' = [call EXCEPT !.at = @ + 1, !.ctx = Null] /\ out' = call.ctx
      /\ UNCHANGED <<heap, caches, strings, owner>>
  BY AtFacts DEF Publish, Creating
<1>2. /\ call' = [ep |-> call.ep, at |-> call.at + 1, ctx |-> Null,
                  opt |-> call.opt, for |-> call.for]
      /\ ~NoCall' /\ Steps' = Steps /\ call'.at \in Nat \ {0} /\ call'.at <= Len(Steps') + 1
      /\ \A s : ~Done(Steps', call'.at, s)
      /\ Published(Steps', call'.at)
      /\ Holding(Steps', call'.at, "fetch", "drop_cached") <=>
            Holding(Steps, call.at, "fetch", "drop_cached")
      /\ Holding(Steps', call'.at, "resolve", "drop_resolved") <=>
            Holding(Steps, call.at, "resolve", "drop_resolved")
  BY <1>1, Moves
<1>3. /\ call.ctx \in DOMAIN heap /\ call.ctx # Null /\ call.ctx \notin Owned
      /\ Ctx \in Handle /\ Ctx.by = call.ep /\ Building(Ctx, Steps, call.at)
  BY <1>1, CtxFacts DEF OnHandle
<1>4. WholeHandle(Ctx)
  <2>1. /\ call.at > 1 /\ Steps[call.at - 1] = "desc"
        /\ Done(Steps, call.at, "session") \/ Done(Steps, call.at, "llama")
           \/ call.ep \in SparseGgufs
        /\ Tokenizes(call.ep) => Done(Steps, call.at, "tokenizer")
    BY <1>1, StepFacts DEF BuildsInOrder, Now, Tokenizes, Steps
  <2>. QED  BY <1>3, <2>1 DEF WholeHandle, Building
<1>5. out # Null => call.ep = "rerank_v2_auto"
  BY <1>1, StepFacts DEF PublishesOnce, Now, HandleInv, CallInv
<1>6. Owned' = Owned /\ HeapInv' /\ OwnerInv'
  BY <1>1 DEF HandleInv, HeapInv, OwnerInv, OwnersApart, Owned
<1>7. CallInv'
  <2>1. call' \in [ep : EntryPoints, at : Nat \ {0}, ctx : DOMAIN heap' \cup {Null},
                   opt : Options, for : Owners]
    BY <1>1, <1>2, CallFacts
  <2>2. owner'[call'.for] = Null
    BY <1>1, <1>2 DEF HandleInv, CallInv
  <2>3. /\ out' \in DOMAIN heap' /\ out' \notin Owned' /\ out' # call'.ctx
        /\ heap'[out'].by = call'.ep /\ WholeHandle(heap'[out'])
    BY <1>1, <1>2, <1>3, <1>4, <1>6 DEF Ctx
  <2>. QED  BY <1>2, <2>1, <2>2, <2>3 DEF CallInv
<1>8. LeakInv'
  <2>1. InUse \ {out} \subseteq InUse'
    BY <1>1, <1>2, <1>6 DEF InUse
  <2>2. out \in DOMAIN heap => heap[out].by = "rerank_v2_auto" \/ out \in InUse'
    <3>1. out \in DOMAIN heap => out # Null
      BY CallsAssumption DEF HandleInv, HeapInv, Ids, Null
    <3>. QED  BY <1>1, <1>5, <3>1 DEF HandleInv, CallInv
  <2>3. caches \subseteq DOMAIN heap
    BY DEF HandleInv, HeapInv
  <2>. QED  BY <1>1, <1>2, <2>1, <2>2, <2>3 DEF HandleInv, LeakInv
<1>. QED  BY <1>6, <1>7, <1>8 DEF HandleInv

-----------------------------------------------------------------------------
(* The caller's side. *)
LEMMA StepCall ==
  ASSUME HandleInv, NEW w \in Owners, NEW ep \in EntryPoints, NEW o \in Options, Call(w, ep, o)
  PROVE  HandleInv'
<1>1. /\ NoCall /\ owner[w] = Null /\ out' = Null
      /\ call' = [ep |-> ep, at |-> 1, ctx |-> Null, opt |-> o, for |-> w]
      /\ UNCHANGED <<heap, caches, strings, owner>>
  BY DEF Call
<1>2. ~NoCall' /\ Steps' = Program[ep] /\ Len(Steps') \in Nat
  <2>1. ep # "none"
    BY DEF EntryPoints, Program
  <2>. QED  BY <1>1, <2>1, OrderOfSteps DEF NoCall, Steps, WellOrdered
<1>3. Owned' = Owned /\ HeapInv' /\ OwnerInv'
  BY <1>1 DEF HandleInv, HeapInv, OwnerInv, OwnersApart, Owned
<1>4. CallInv'
  BY <1>1, <1>2, DoneFirst DEF CallInv
<1>5. Owned = InUse /\ strings = {} /\ Owned \subseteq InUse'
  BY <1>1, <1>3 DEF InUse, HandleInv, LeakInv
<1>6. LeakInv'
  BY <1>1, <1>5 DEF HandleInv, LeakInv
<1>. QED  BY <1>3, <1>4, <1>6 DEF HandleInv

LEMMA StepReturn ==
  ASSUME HandleInv, Return
  PROVE  HandleInv'
<1>1. /\ ~NoCall /\ call.at > Len(Steps) /\ call' = Idle
      /\ owner' = [owner EXCEPT ![call.for] = out]
      /\ UNCHANGED <<heap, caches, strings, out>>
  BY DEF Return, Steps
<1>2. call.at = Len(Steps) + 1 /\ NoCall' /\ call.for \in Owners /\ owner[call.for] = Null
  BY <1>1, CallFacts DEF HandleInv, CallInv, NoCall, Idle
<1>3. EndsClean(Steps)
  BY <1>1, CallFacts DEF WellOrdered
<1>4. call.ctx = Null /\ strings = {}
  BY <1>1, <1>2, <1>3 DEF EndsClean, HandleInv, CallInv, LeakInv
<1>5. out # Null => out \in DOMAIN heap /\ out \notin Owned /\ WholeHandle(heap[out])
  BY <1>1 DEF HandleInv, CallInv
<1>6. HeapInv'
  BY <1>1 DEF HandleInv, HeapInv
<1>7. Owned' = Owned \cup ({out} \ {Null})
  <2>1. \A w \in Owners : owner'[w] = IF w = call.for THEN out ELSE owner[w]
    BY <1>1, <1>2 DEF HandleInv, OwnerInv
  <2>. QED  BY <1>2, <2>1 DEF Owned
<1>8. OwnerInv'
  <2>1. owner' \in [Owners -> DOMAIN heap' \cup {Null}]
    BY <1>1, <1>5 DEF HandleInv, OwnerInv
  <2>2. OwnersApart'
    BY <1>1, <1>2, <1>5, <2>1 DEF HandleInv, OwnerInv, OwnersApart, Owned
  <2>3. \A h \in Owned' : WholeHandle(heap'[h])
    BY <1>1, <1>5, <1>7 DEF HandleInv, OwnerInv
  <2>. QED  BY <2>1, <2>2, <2>3 DEF OwnerInv
<1>9. CallInv'
  BY <1>1, <1>2 DEF CallInv
<1>10. InUse \ {Null} = Owned' /\ InUse' = Owned' /\ Null \notin DOMAIN heap
  BY <1>1, <1>2, <1>4, <1>7, CallsAssumption DEF InUse, Owned, HandleInv, HeapInv, Ids, Null
<1>11. LeakInv'
  BY <1>1, <1>4, <1>10 DEF HandleInv, HeapInv, LeakInv
<1>. QED  BY <1>6, <1>8, <1>9, <1>11 DEF HandleInv

LEMMA IdleCall ==
  ASSUME HandleInv, NoCall, UNCHANGED call
  PROVE  NoCall' /\ CallInv'
<1>1. "none" \notin EntryPoints
  BY DEF EntryPoints, Program
<1>2. call = Idle
  BY <1>1 DEF HandleInv, CallInv, NoCall
<1>. QED  BY <1>2 DEF NoCall, CallInv

(* Freeing an owned handle, which nobody else owns.                        *)
LEMMA Frees ==
  ASSUME HandleInv, NoCall, NEW w \in Owners, owner[w] # Null, Free(owner[w]),
         owner' \in [Owners -> DOMAIN heap' \cup {Null}],
         Owned' = Owned \ {owner[w]}, OwnersApart',
         UNCHANGED <<strings, call>>
  PROVE  HandleInv'
<1>1. /\ DOMAIN heap' = DOMAIN heap \ {owner[w]}
      /\ \A h \in DOMAIN heap' : heap'[h] = heap[h]
      /\ heap' = [h \in DOMAIN heap' |-> heap[h]]
      /\ caches' = caches \ {owner[w]}
  BY DEF Free, Without
<1>2. HeapInv'
  BY <1>1 DEF HandleInv, HeapInv
<1>3. OwnerInv'
  <2>1. \A h \in Owned' : h \in DOMAIN heap'
    BY DEF Owned
  <2>. QED  BY <1>1, <2>1 DEF HandleInv, OwnerInv
<1>4. NoCall' /\ CallInv' /\ InUse = Owned /\ InUse' = Owned'
  BY IdleCall DEF InUse
<1>5. LeakInv'
  BY <1>1, <1>2, <1>4 DEF HandleInv, LeakInv, HeapInv
<1>. QED  BY <1>2, <1>3, <1>4, <1>5 DEF HandleInv

LEMMA StepClose ==
  ASSUME HandleInv, NEW w \in Owners, Close(w)
  PROVE  HandleInv'
<1>1. /\ NoCall /\ owner[w] # Null /\ Free(owner[w])
      /\ owner' = [owner EXCEPT ![w] = Null] /\ UNCHANGED <<strings, call>>
  BY DEF Close
<1>2. \A v \in Owners : owner'[v] = IF v = w THEN Null ELSE owner[v]
  BY <1>1 DEF HandleInv, OwnerInv
<1>3. \A v \in Owners : v # w /\ owner[v] # Null => owner[v] \in DOMAIN heap' /\ owner[v] # owner[w]
  BY <1>1 DEF HandleInv, OwnerInv, OwnersApart, Free, Without
<1>4. owner' \in [Owners -> DOMAIN heap' \cup {Null}]
  BY <1>1, <1>2, <1>3 DEF HandleInv, OwnerInv
<1>5. Owned' = Owned \ {owner[w]}
  BY <1>2, <1>3 DEF Owned
<1>6. OwnersApart'
  BY <1>2, <1>3 DEF HandleInv, OwnerInv, OwnersApart
<1>. QED  BY <1>1, <1>4, <1>5, <1>6, Frees

LEMMA StepMove ==
  ASSUME HandleInv, NEW v \in Owners, NEW w \in Owners, Move(v, w)
  PROVE  HandleInv'
<1>1. /\ NoCall /\ v # w
      /\ owner' = [owner EXCEPT ![v] = owner[w], ![w] = Null] /\ UNCHANGED <<strings, call>>
  BY DEF Move
<1>2. \A u \in Owners : owner'[u] = IF u = v THEN owner[w] ELSE IF u = w THEN Null ELSE owner[u]
  BY <1>1 DEF HandleInv, OwnerInv
<1>3. CASE owner[v] # Null
  <2>1. Free(owner[v])
    BY <1>3 DEF Move
  <2>2. \A u \in Owners : u # v /\ owner[u] # Null => owner[u] \in DOMAIN heap' /\ owner[u] # owner[v]
    BY <1>3, <2>1 DEF HandleInv, OwnerInv, OwnersApart, Free, Without
  <2>3. owner' \in [Owners -> DOMAIN heap' \cup {Null}]
    BY <1>1, <1>2, <2>2 DEF HandleInv, OwnerInv
  <2>4. Owned' = Owned \ {owner[v]}
    <3>1. ASSUME NEW h \in Owned' PROVE h \in Owned \ {owner[v]}
      <4>1. PICK u \in Owners : owner'[u] = h /\ h # Null
        BY DEF Owned
      <4>2. \E x \in Owners : x # v /\ owner[x] = h
        BY <1>1, <1>2, <4>1
      <4>. QED  BY <2>2, <4>1, <4>2 DEF Owned
    <3>2. ASSUME NEW h \in Owned \ {owner[v]} PROVE h \in Owned'
      <4>1. PICK u \in Owners : owner[u] = h /\ h # Null /\ u # v
        BY DEF Owned
      <4>2. CASE u = w
        <5>1. owner'[v] = h
          BY <1>2, <4>1, <4>2
        <5>. QED  BY <4>1, <5>1 DEF Owned
      <4>3. CASE u # w
        <5>1. owner'[u] = h
          BY <1>2, <4>1, <4>3
        <5>. QED  BY <4>1, <5>1 DEF Owned
      <4>. QED  BY <4>2, <4>3
    <3>. QED  BY <3>1, <3>2
  <2>5. OwnersApart'
    BY <1>1, <1>2, <2>2 DEF HandleInv, OwnerInv, OwnersApart
  <2>. QED  BY <1>1, <1>3, <2>1, <2>3, <2>4, <2>5, Frees
<1>4. CASE owner[v] = Null
  <2>1. heap' = heap /\ caches' = caches
    BY <1>4 DEF Move
  <2>2. Owned' = Owned
    BY <1>1, <1>2, <1>4 DEF Owned
  <2>3. HeapInv'
    BY <2>1 DEF HandleInv, HeapInv
  <2>4. OwnersApart' /\ owner' \in [Owners -> DOMAIN heap' \cup {Null}]
    BY <1>1, <1>2, <1>4, <2>1 DEF HandleInv, OwnerInv, OwnersApart
  <2>5. OwnerInv'
    BY <2>1, <2>2, <2>4 DEF HandleInv, OwnerInv
  <2>6. NoCall' /\ CallInv' /\ InUse = Owned /\ InUse' = Owned'
    BY <1>1, IdleCall DEF InUse
  <2>7. LeakInv'
    BY <1>1, <2>1, <2>2, <2>6 DEF HandleInv, LeakInv
  <2>. QED  BY <2>3, <2>5, <2>6, <2>7 DEF HandleInv
<1>. QED  BY <1>3, <1>4

LEMMA InitHandleInv == Init => HandleInv
<1>. SUFFICES ASSUME Init PROVE HandleInv
  OBVIOUS
<1>1. DOMAIN heap = {} /\ caches = {} /\ strings = {} /\ call = Idle /\ NoCall
  BY DEF Init, Idle, NoCall
<1>2. HeapInv
  BY <1>1 DEF Init, HeapInv
<1>3. Owned = {}
  BY DEF Init, Owned
<1>4. OwnerInv
  BY <1>3 DEF Init, OwnerInv, OwnersApart
<1>5. CallInv
  BY <1>1 DEF CallInv
<1>6. LeakInv
  BY <1>1 DEF LeakInv
<1>. QED  BY <1>2, <1>4, <1>5, <1>6 DEF HandleInv

LEMMA StepHandleInv == HandleInv /\ [Next]_vars => HandleInv'
<1>. SUFFICES ASSUME HandleInv, [Next]_vars PROVE HandleInv'
  OBVIOUS
<1>1. CASE UNCHANGED vars
  BY <1>1 DEF vars, HandleInv, HeapInv, OwnerInv, OwnersApart, Owned, CallInv, LeakInv, InUse,
              NoCall, Steps
<1>2. CASE Next
  BY <1>2, StepCall, StepLook, StepCheckDim, StepTakePath, StepDropPath, StepNew,
     StepLoadSession, StepLoadTokenizer, StepLoadLlama, StepNewCache, StepUpdateDesc,
     StepPublish, StepReturn, StepClose, StepMove DEF Next
<1>. QED  BY <1>1, <1>2

LEMMA SpecHandleInv == Spec => []HandleInv
  BY InitHandleInv, StepHandleInv, PTL DEF Spec

(* No two wrappers hold one handle and none holds a freed one, however     *)
(* creations, moves and closes follow one another.                         *)
THEOREM HandlesHaveOneOwner == Spec => []OwnersApart
<1>1. HandleInv => OwnersApart
  BY DEF HandleInv, OwnerInv
<1>. QED  BY <1>1, SpecHandleInv, PTL

(* Every handle a caller got is loaded (a text handle of a GGUF file       *)
(* apart), truncates at the length it reports and has a descriptor that    *)
(* tells its length, dimension and cache.                                  *)
THEOREM HandlesAreWhole == Spec => []HandlesWhole
<1>1. HandleInv => HandlesWhole
  <2>. SUFFICES ASSUME HandleInv, NEW h \in Owned
                PROVE  /\ WholeHandle(heap[h]) /\ heap[h].by \in EntryPoints
                       /\ heap[h].cache > 0 <=> h \in caches
    <3>1. ASSUME NEW ep \in EntryPoints
          PROVE  DOMAIN Program[ep] = 1..Len(Program[ep])
      BY OrderOfSteps DEF WellOrdered
    <3>. QED  BY <3>1 DEF HandlesWhole, WholeHandle, Tokenizes, TextGgufs, Desc
  <2>1. h \in DOMAIN heap /\ WholeHandle(heap[h])
    BY DEF HandleInv, OwnerInv, OwnersApart, Owned
  <2>2. heap[h] \in Handle /\ (heap[h].cache > 0 <=> h \in caches)
    BY <2>1 DEF HandleInv, HeapInv
  <2>. QED  BY <2>1, <2>2 DEF Handle
<1>. QED  BY <1>1, SpecHandleInv, PTL

(* Between calls no path string, no cache and no reranker is allocated     *)
(* that no wrapper holds, but for what create_v2 with AUTO overwrites; of  *)
(* a text, sparse or image handle whose loading threw nothing is said.     *)
THEOREM FailuresLeaveNothing == Spec => []NothingOrphaned
<1>1. HandleInv => NothingOrphaned
  BY DEF HandleInv, HeapInv, LeakInv, InUse, NothingOrphaned
<1>. QED  BY <1>1, SpecHandleInv, PTL
=============================================================================
