------------------------ MODULE CachedHandlesProofs ------------------------
(***************************************************************************)
(* A handle answers with what its model computes: embedding returns every  *)
(* text its own vector, reranking every document once with its own score,  *)
(* best first, and the cache only holds right vectors or scores, for any   *)
(* texts, batch size, order of sorting, number of calls and contents of    *)
(* the cache.  And what a call used is cached when it ends, if it fits.    *)
(*                                                                         *)
(* The argument follows a call: after the lookups every position has its   *)
(* row or is among the misses (LookedUp); after b batches the first b *    *)
(* size positions of the sorted order have theirs in the buffer (InBuf);   *)
(* the order is onto, so in the end the whole buffer is right, and the     *)
(* write-back moves it to the positions that were missing (Stored).        *)
(***************************************************************************)
EXTENDS CachedHandles, FiniteSetTheorems, SequenceTheorems, TLAPS

-----------------------------------------------------------------------------
(* Arithmetic of batches. *)

LEMMA Quotient ==
  ASSUME NEW m \in Nat, NEW s \in Nat \ {0}
  PROVE  /\ m \div s \in Nat
         /\ (m \div s) * s <= m
         /\ m < (m \div s) * s + s
  OBVIOUS

LEMMA Times ==
  ASSUME NEW a \in Nat, NEW b \in Nat, NEW s \in Nat, a <= b
  PROVE  /\ a * s \in Nat
         /\ a * s <= b * s
         /\ (a + 1) * s = a * s + s
  OBVIOUS

(* The batches numbered up to BatchCount cover the rows, and each has one. *)
LEMMA BatchesCover ==
  ASSUME NEW n \in Nat, NEW s \in Nat \ {0}, NEW b \in Nat \ {0}
  PROVE  /\ (b - 1) * s \in Nat
         /\ b * s = (b - 1) * s + s
         /\ b > BatchCount(n, s) => n <= (b - 1) * s
         /\ b <= BatchCount(n, s) => (b - 1) * s < n
<1>. DEFINE q == BatchCount(n, s)
<1>1. n + s - 1 \in Nat
  OBVIOUS
<1>2. q \in Nat /\ q * s <= n + s - 1 /\ n + s - 1 < q * s + s
  BY <1>1, Quotient DEF BatchCount
<1>3. (b - 1) * s \in Nat /\ b * s = (b - 1) * s + s
  BY Times
<1>. HIDE DEF q
<1>4. ASSUME b > q PROVE n <= (b - 1) * s
  <2>1. q \in Nat /\ b - 1 \in Nat /\ q <= b - 1
    BY <1>2, <1>4
  <2>2. q * s \in Nat /\ q * s <= (b - 1) * s
    BY <2>1, Times
  <2>. QED  BY <1>2, <1>3, <2>2
<1>5. ASSUME b <= q PROVE (b - 1) * s < n
  <2>1. b * s \in Nat /\ b * s <= q * s /\ q * s \in Nat
    BY <1>2, <1>5, Times
  <2>. QED  BY <1>2, <1>3, <2>1
<1>. QED  BY <1>3, <1>4, <1>5 DEF q

(* An order without repetitions reaches every row. *)
LEMMA OrderIsOnto ==
  ASSUME NEW n \in Nat, NEW f \in [1..n -> 1..n],
         \A i, j \in 1..n : f[i] = f[j] => i = j
  PROVE  \A m \in 1..n : \E p \in 1..n : f[p] = m
<1>1. IsFiniteSet(1..n)
  BY FS_Interval
<1>2. f \in Injection(1..n, 1..n)
  BY DEF Injection, IsInjective
<1>3. f \in Surjection(1..n, 1..n)
  BY <1>1, <1>2, FS_Injection
<1>. QED  BY <1>3 DEF Surjection

-----------------------------------------------------------------------------
Row == Vecs \cup {Unset}

LookupCalls ==
    [at : {"lookup"}, texts : Seq(Keys), bs : Nat \ {0}, i : Nat \ {0},
     miss : Seq(Nat), data : Seq(Row), kept : BOOLEAN]
RunCalls ==
    [at : {"run", "store", "count", "ok", "failed"}, texts : Seq(Keys), bs : Nat \ {0},
     i : Nat \ {0}, miss : Seq(Nat), data : Seq(Row), kept : BOOLEAN,
     subset : Seq(Keys), order : Seq(Nat), next : Nat \ {0}, buf : Seq(Row)]
StreamCalls ==
    [at : {"stream", "streamed", "failed"}, texts : Seq(Keys), bs : Nat \ {0},
     next : Nat \ {0}, seen : Seq(Vecs)]

Shape ==
    /\ cfg \in [backend : Backends, strategy : Strategies, cache : BOOLEAN]
    /\ call \in {Idle} \cup LookupCalls \cup RunCalls \cup StreamCalls

RightAt(j) == call.data[j] = VecOf[call.texts[j]]
MissesFrom(m, j) == \E x \in m..Len(call.miss) : call.miss[x] = j

(* With a cache: the positions looked up so far have their row or miss.    *)
LookedUp ==
    call.at \in {"lookup", "run", "store"} =>
        /\ Len(call.data) = Len(call.texts)
        /\ \A x \in 1..Len(call.miss) : call.miss[x] \in 1..Len(call.texts)
        /\ cfg.cache => \A j \in 1..Len(call.texts) :
              \/ RightAt(j)
              \/ MissesFrom(IF call.at = "store" THEN call.i ELSE 1, j)
              \/ call.at = "lookup" /\ j >= call.i

Reach == (call.next - 1) * EffectiveBatch(call.bs)

InBuf ==
    call.at = "run" =>
        /\ Len(call.subset) = Len(call.miss) /\ Len(call.buf) = Len(call.miss)
        /\ \A x \in 1..Len(call.miss) : call.subset[x] = call.texts[call.miss[x]]
        /\ ~cfg.cache => call.miss = [j \in 1..Len(call.texts) |-> j]
        /\ call.order \in [1..Len(call.miss) -> 1..Len(call.miss)]
        /\ \A x, y \in 1..Len(call.miss) : call.order[x] = call.order[y] => x = y
        /\ \A p \in 1..Len(call.miss) :
              p <= Reach => call.buf[call.order[p]] = VecOf[call.subset[call.order[p]]]

Computed ==
    call.at = "store" =>
        /\ cfg.cache /\ Len(call.buf) = Len(call.miss)
        /\ \A x \in 1..Len(call.miss) : call.buf[x] = VecOf[call.texts[call.miss[x]]]

Finishing == call.at = "count" => \A j \in DOMAIN call.texts : RightAt(j)

Streamed ==
    call.at = "stream" =>
        LET reach == (call.next - 1) * StreamSize IN
        Len(call.seen) = IF reach < Len(call.texts) THEN reach ELSE Len(call.texts)

EmbedInv ==
    Shape /\ CacheIsRight /\ LookedUp /\ InBuf /\ Computed /\ Finishing /\ Streamed /\ EmbedsRight

-----------------------------------------------------------------------------
LEMMA CallKinds ==
  ASSUME Shape
  PROVE  /\ call.at = "lookup" => call \in LookupCalls
         /\ call.at \in {"run", "store", "count", "ok"} => call \in RunCalls
         /\ call.at \in {"stream", "streamed"} => call \in StreamCalls
         /\ call.at \in {"idle", "lookup", "run", "store", "count", "ok", "failed",
                         "stream", "streamed"}
  BY DEF Shape, LookupCalls, RunCalls, StreamCalls, Idle

LEMMA InitEmbedInv == EmbedInit => EmbedInv
  BY DEF EmbedInit, Init, Idle, EmbedInv, Shape, CacheIsRight, LookedUp, InBuf, Computed,
         Finishing, Streamed, EmbedsRight

LEMMA AbsentKeeps ==
  ASSUME CacheIsRight, NEW k, Absent(k)
  PROVE  CacheIsRight'
  BY DEF CacheIsRight, Absent, Only

LEMMA PutKeeps ==
  ASSUME CacheIsRight, NEW k, NEW v, v = VecOf[k], Overwrite(k, v) \/ Insert(k, v) \/ Dropped
  PROVE  CacheIsRight'
<1>1. CASE Overwrite(k, v)
  BY <1>1 DEF CacheIsRight, Overwrite, Store
<1>2. CASE Insert(k, v)
  <2>1. PICK gone \in SUBSET DOMAIN content :
           content' = [j \in (DOMAIN content \ gone) \cup {k} |->
                         IF j = k THEN Store(k, v) ELSE content[j]]
    BY <1>2 DEF Insert
  <2>. QED  BY <2>1 DEF CacheIsRight, Store
<1>3. CASE Dropped
  BY <1>3 DEF CacheIsRight, Dropped
<1>. QED  BY <1>1, <1>2, <1>3

LEMMA StepBegin ==
  ASSUME EmbedInv, NEW texts \in TextSeqs, NEW bs \in BatchSizes, Begin(texts, bs)
  PROVE  EmbedInv'
<1>1. texts \in Seq(Keys) /\ bs \in Nat \ {0}
  BY CallAssumption
<1>2. [j \in DOMAIN texts |-> Unset] \in Seq(Row) /\ Len([j \in DOMAIN texts |-> Unset]) = Len(texts)
  BY <1>1 DEF Row
<1>3. call' \in LookupCalls /\ UNCHANGED <<cfg, content>>
  BY <1>1, <1>2 DEF Begin, LookupCalls, cacheVars
<1>4. /\ call'.at = "lookup" /\ call'.texts = texts /\ call'.i = 1 /\ call'.miss = <<>>
      /\ Len(call'.data) = Len(texts)
  BY <1>2 DEF Begin
<1>5. Shape' /\ CacheIsRight'
  BY <1>3 DEF EmbedInv, Shape, CacheIsRight
<1>6. LookedUp'
  BY <1>1, <1>3, <1>4 DEF LookedUp
<1>. QED  BY <1>4, <1>5, <1>6 DEF EmbedInv, InBuf, Computed, Finishing, Streamed, EmbedsRight

LEMMA StepLookup ==
  ASSUME EmbedInv, LookupOne
  PROVE  EmbedInv'
<1>. DEFINE k == call.texts[call.i]
<1>1. /\ call \in LookupCalls /\ call.i \in 1..Len(call.texts) /\ k \in Keys
      /\ Len(call.data) = Len(call.texts) /\ call.i + 1 \in Nat \ {0}
  BY CallKinds DEF EmbedInv, LookupOne, LookupCalls, LookedUp
<1>2. CASE Hit(k) /\ call' = [call EXCEPT !.i = @ + 1, !.data[call.i] = content[k].val]
  <2>. DEFINE d == [call.data EXCEPT ![call.i] = VecOf[k]]
  <2>1. content[k].val = VecOf[k] /\ VecOf[k] \in Row /\ UNCHANGED <<content, cfg>>
    BY <1>1, <1>2, VecAssumption DEF EmbedInv, CacheIsRight, Hit, Fresh, LookupOne, Row
  <2>2. call.data \in Seq(Row)
    BY <1>1 DEF LookupCalls
  <2>3. /\ d \in Seq(Row) /\ Len(d) = Len(call.texts)
        /\ \A j \in 1..Len(call.texts) : d[j] = IF j = call.i THEN VecOf[k] ELSE call.data[j]
    BY <1>1, <2>1, <2>2, ExceptSeq
  <2>4. call' = [call EXCEPT !.i = @ + 1, !.data = d]
    BY <1>1, <1>2, <2>1 DEF LookupCalls
  <2>. HIDE DEF d, k
  <2>5. /\ call' \in LookupCalls /\ call'.at = "lookup" /\ call'.i = call.i + 1
        /\ call'.texts = call.texts /\ call'.miss = call.miss /\ call'.data = d
    BY <1>1, <2>3, <2>4 DEF LookupCalls
  <2>6. Shape' /\ CacheIsRight'
    BY <2>1, <2>5 DEF EmbedInv, Shape, CacheIsRight
  <2>7. LookedUp'
    <3>1. \A j \in 1..Len(call.texts) : j >= call.i + 1 \/ j = call.i \/ ~(j >= call.i)
      BY <1>1
    <3>2. d[call.i] = VecOf[call.texts[call.i]]
      BY <1>1, <2>3 DEF k
    <3>3. cfg.cache => \A j \in 1..Len(call.texts) :
             d[j] = VecOf[call.texts[j]] \/ MissesFrom(1, j) \/ j >= call.i + 1
      <4>1. cfg.cache => \A j \in 1..Len(call.texts) :
               RightAt(j) \/ MissesFrom(1, j) \/ j >= call.i
        BY <1>1 DEF EmbedInv, LookedUp, LookupCalls
      <4>. QED  BY <2>3, <3>1, <3>2, <4>1 DEF RightAt
    <3>4. \A x \in 1..Len(call.miss) : call.miss[x] \in 1..Len(call.texts)
      BY <1>1 DEF EmbedInv, LookedUp, LookupCalls
    <3>. QED  BY <2>1, <2>3, <2>5, <3>3, <3>4 DEF LookedUp, RightAt, MissesFrom
  <2>. QED  BY <2>5, <2>6, <2>7 DEF EmbedInv, InBuf, Computed, Finishing, Streamed, EmbedsRight
<1>3. CASE Absent(k) /\ call' = [call EXCEPT !.i = @ + 1, !.miss = Append(@, call.i)]
  <2>. DEFINE m == Append(call.miss, call.i)
  <2>1. CacheIsRight' /\ UNCHANGED cfg
    BY <1>3, AbsentKeeps DEF EmbedInv, LookupOne
  <2>2. /\ m \in Seq(Nat) /\ Len(m) = Len(call.miss) + 1 /\ Len(call.miss) \in Nat
        /\ m[Len(m)] = call.i
        /\ \A x \in 1..Len(call.miss) : m[x] = call.miss[x]
    BY <1>1 DEF LookupCalls
  <2>3. /\ call' \in LookupCalls /\ call'.at = "lookup" /\ call'.i = call.i + 1
        /\ call'.texts = call.texts /\ call'.miss = m /\ call'.data = call.data
    <3>1. call' = [call EXCEPT !.i = @ + 1, !.miss = m]
      BY <1>1, <1>3 DEF LookupCalls
    <3>. HIDE DEF m
    <3>. QED  BY <1>1, <2>2, <3>1 DEF LookupCalls
  <2>4. Shape'
    BY <2>1, <2>3 DEF EmbedInv, Shape
  <2>5. LookedUp'
    <3>. HIDE DEF m
    <3>1. \A x \in 1..Len(m) : m[x] \in 1..Len(call.texts)
      <4>1. \A x \in 1..Len(m) : x \in 1..Len(call.miss) \/ x = Len(m)
        BY <2>2
      <4>. QED  BY <1>1, <2>2, <4>1 DEF EmbedInv, LookedUp, LookupCalls
    <3>2. \A j \in 1..Len(call.texts) :
             MissesFrom(1, j) \/ j = call.i => \E x \in 1..Len(m) : m[x] = j
      <4>1. Len(m) \in 1..Len(m) /\ \A x \in 1..Len(call.miss) : x \in 1..Len(m)
        BY <2>2
      <4>. QED  BY <2>2, <4>1 DEF MissesFrom
    <3>3. \A j \in 1..Len(call.texts) : j >= call.i + 1 \/ j = call.i \/ ~(j >= call.i)
      BY <1>1
    <3>4. cfg.cache => \A j \in 1..Len(call.texts) :
             RightAt(j) \/ MissesFrom(1, j) \/ j >= call.i
      BY <1>1 DEF EmbedInv, LookedUp, LookupCalls
    <3>. QED  BY ZenonT(40), <1>1, <2>1, <2>3, <3>1, <3>2, <3>3, <3>4 DEF LookedUp, RightAt, MissesFrom
  <2>. QED  BY <2>1, <2>3, <2>4, <2>5
         DEF EmbedInv, InBuf, Computed, Finishing, Streamed, EmbedsRight
<1>. QED  BY <1>2, <1>3 DEF LookupOne

LEMMA StepPlan ==
  ASSUME EmbedInv, Plan
  PROVE  EmbedInv'
<1>. DEFINE where == IF cfg.cache THEN call.miss ELSE [i \in DOMAIN call.texts |-> i]
            subset == [m \in DOMAIN where |-> call.texts[where[m]]]
            buf == [m \in DOMAIN subset |-> Unset]
<1>1. call \in LookupCalls /\ UNCHANGED <<cfg, content>>
  BY CallKinds DEF EmbedInv, Plan, cacheVars
<1>2. PICK ord \in Orders(subset) :
        call' = [at |-> "run", texts |-> call.texts, bs |-> call.bs, i |-> 1,
                 miss |-> where, data |-> call.data, kept |-> call.kept,
                 subset |-> subset, order |-> ord, next |-> 1, buf |-> buf]
  BY DEF Plan
<1>3. /\ Len(call.texts) \in Nat /\ Len(call.miss) \in Nat
      /\ DOMAIN call.texts = 1..Len(call.texts) /\ DOMAIN call.miss = 1..Len(call.miss)
      /\ \A j \in 1..Len(call.texts) : call.texts[j] \in Keys
  BY <1>1 DEF LookupCalls
<1>4. /\ where \in Seq(Nat) /\ Len(where) \in Nat /\ DOMAIN where = 1..Len(where)
      /\ \A x \in 1..Len(where) : where[x] \in 1..Len(call.texts)
  <2>1. CASE cfg.cache
    BY <1>1, <1>3, <2>1 DEF EmbedInv, LookedUp, LookupCalls
  <2>2. CASE ~cfg.cache
    BY <1>3, <2>2
  <2>. QED  BY <2>1, <2>2
<1>. HIDE DEF where
<1>5. /\ subset \in Seq(Keys) /\ Len(subset) = Len(where) /\ DOMAIN subset = 1..Len(where)
      /\ \A x \in 1..Len(where) : subset[x] = call.texts[where[x]]
  BY <1>3, <1>4
<1>. HIDE DEF subset
<1>6. buf \in Seq(Row) /\ Len(buf) = Len(where)
  BY <1>4, <1>5 DEF Row
<1>. HIDE DEF buf
<1>7. /\ ord \in [1..Len(where) -> 1..Len(where)] /\ ord \in Seq(Nat)
      /\ \A x, y \in 1..Len(where) : ord[x] = ord[y] => x = y
  <2>1. /\ ord \in [1..Len(where) -> 1..Len(where)]
        /\ \A x, y \in 1..Len(where) : ord[x] = ord[y] => x = y
    <3>1. CASE cfg.backend = "onnx" /\ cfg.strategy = "bucket"
      BY <1>4, <1>5, <3>1 DEF Orders
    <3>2. CASE ~(cfg.backend = "onnx" /\ cfg.strategy = "bucket")
      <4>1. ord = [x \in 1..Len(where) |-> x]
        BY <1>5, <3>2 DEF Orders
      <4>. QED  BY <1>4, <4>1
    <3>. QED  BY <3>1, <3>2
  <2>2. [x \in 1..Len(where) |-> ord[x]] \in Seq(Nat)
    BY SMTT(20), <1>4, <2>1
  <2>3. ord = [x \in 1..Len(where) |-> ord[x]]
    BY <2>1
  <2>. QED  BY <2>1, <2>2, <2>3
<1>8. call' \in RunCalls
  BY <1>1, <1>2, <1>4, <1>5, <1>6, <1>7 DEF LookupCalls, RunCalls
<1>9. Shape' /\ CacheIsRight'
  BY <1>1, <1>8 DEF EmbedInv, Shape, CacheIsRight
<1>10. LookedUp'
  <2>1. Len(call.data) = Len(call.texts)
    BY <1>1 DEF EmbedInv, LookedUp, LookupCalls
  <2>2. cfg.cache => \A j \in 1..Len(call.texts) :
           RightAt(j) \/ \E x \in 1..Len(where) : where[x] = j
    <3>1. cfg.cache => \A j \in 1..Len(call.texts) : ~(j >= call.i)
      BY <1>1, <1>3 DEF Plan, LookupCalls
    <3>2. cfg.cache => \A j \in 1..Len(call.texts) :
             RightAt(j) \/ MissesFrom(1, j) \/ j >= call.i
      BY <1>1 DEF EmbedInv, LookedUp, LookupCalls
    <3>. QED  BY <3>1, <3>2 DEF MissesFrom, where
  <2>. QED  BY <1>1, <1>2, <1>4, <2>1, <2>2 DEF LookedUp, RightAt, MissesFrom
<1>11. InBuf'
  <2>1. ~cfg.cache => where = [j \in 1..Len(call.texts) |-> j]
    BY <1>3 DEF where
  <2>2. Reach' = 0
    <3>1. call'.next = 1 /\ call'.bs = call.bs /\ call.bs \in Nat
      BY <1>1, <1>2 DEF LookupCalls
    <3>2. EffectiveBatch(call.bs)' \in Nat
      BY <3>1 DEF EffectiveBatch
    <3>. QED  BY <3>1, <3>2 DEF Reach, EffectiveBatch
  <2>3. \A p \in 1..Len(where) : ~(p <= 0)
    OBVIOUS
  <2>. QED  BY <1>1, <1>2, <1>5, <1>6, <1>7, <2>1, <2>2, <2>3 DEF InBuf
<1>. QED  BY <1>2, <1>9, <1>10, <1>11 DEF EmbedInv, Computed, Finishing, Streamed, EmbedsRight

LEMMA StepRun ==
  ASSUME EmbedInv, RunBatch
  PROVE  EmbedInv'
<1>. DEFINE n == Len(call.miss)
            size == EffectiveBatch(call.bs)
            ps == Batch(call.next, Len(call.subset), size)
            buf == Rows(ps)
<1>1. /\ call \in RunCalls /\ call.at = "run" /\ UNCHANGED <<cfg, content>>
      /\ call' = [call EXCEPT !.buf = buf, !.next = @ + 1]
  BY CallKinds DEF EmbedInv, RunBatch, cacheVars
<1>2. /\ n \in Nat /\ size \in Nat \ {0} /\ call.next \in Nat \ {0}
      /\ call.next + 1 \in Nat \ {0}
  BY <1>1 DEF RunCalls, EffectiveBatch
<1>3. /\ Len(call.subset) = n /\ Len(call.buf) = n /\ DOMAIN call.buf = 1..n
      /\ call.order \in [1..n -> 1..n]
  BY <1>1 DEF EmbedInv, InBuf, RunCalls
<1>4. /\ Reach \in Nat /\ call.next * size = Reach + size
      /\ ps = {p \in 1..n : Reach < p /\ p <= Reach + size}
  BY <1>2, <1>3, BatchesCover DEF Reach, Batch
<1>5. \A x \in 1..n : call.subset[x] \in Keys /\ VecOf[call.subset[x]] \in Row /\ call.buf[x] \in Row
  BY SMTT(20), <1>1, <1>3, VecAssumption DEF RunCalls, Row
<1>. HIDE DEF ps
<1>6. /\ buf \in Seq(Row) /\ Len(buf) = n
      /\ \A x \in 1..n : buf[x] = IF \E p \in ps : call.order[p] = x
                                  THEN VecOf[call.subset[x]] ELSE call.buf[x]
  BY <1>2, <1>3, <1>5 DEF Rows
<1>. HIDE DEF buf
<1>7. /\ call' \in RunCalls /\ call'.at = "run" /\ call'.next = call.next + 1
      /\ call'.buf = buf /\ call'.bs = call.bs /\ call'.texts = call.texts
      /\ call'.miss = call.miss /\ call'.data = call.data
      /\ call'.subset = call.subset /\ call'.order = call.order
  BY <1>1, <1>2, <1>6 DEF RunCalls
<1>8. Shape' /\ CacheIsRight' /\ LookedUp'
  BY <1>1, <1>7 DEF EmbedInv, Shape, CacheIsRight, LookedUp, RightAt, MissesFrom
<1>9. InBuf'
  <2>1. Reach' = Reach + size
    BY <1>1, <1>2, <1>4, <1>7 DEF Reach, EffectiveBatch
  <2>2. ASSUME NEW p \in 1..n, p <= Reach + size
        PROVE  buf[call.order[p]] = VecOf[call.subset[call.order[p]]]
    <3>1. call.order[p] \in 1..n
      BY <1>3
    <3>2. CASE p <= Reach
      BY <1>1, <1>6, <3>1, <3>2 DEF EmbedInv, InBuf
    <3>3. CASE ~(p <= Reach)
      <4>1. p \in ps
        BY <1>4, <2>2, <3>3
      <4>. QED  BY <1>6, <3>1, <4>1
    <3>. QED  BY <3>2, <3>3
  <2>. QED  BY <1>1, <1>3, <1>6, <1>7, <2>1, <2>2 DEF EmbedInv, InBuf
<1>. QED  BY <1>7, <1>8, <1>9 DEF EmbedInv, Computed, Finishing, Streamed, EmbedsRight

(* A call that fails leaves its cache as it was. *)
LEMMA StepFails ==
  ASSUME EmbedInv, RunFails \/ StreamFails
  PROVE  EmbedInv'
<1>1. /\ call' = [call EXCEPT !.at = "failed"] /\ UNCHANGED <<cfg, content>>
      /\ call \in RunCalls \cup StreamCalls
  BY CallKinds DEF EmbedInv, RunFails, StreamFails, cacheVars
<1>2. call' \in RunCalls \cup StreamCalls /\ call'.at = "failed"
  BY <1>1 DEF RunCalls, StreamCalls
<1>. QED  BY <1>1, <1>2 DEF EmbedInv, Shape, CacheIsRight, LookedUp, InBuf, Computed, Finishing,
                       Streamed, EmbedsRight

LEMMA StepRunEnds ==
  ASSUME EmbedInv, RunEnds
  PROVE  EmbedInv'
<1>. DEFINE n == Len(call.miss)
            size == EffectiveBatch(call.bs)
<1>1. /\ call \in RunCalls /\ call.at = "run" /\ UNCHANGED <<cfg, content>>
  BY CallKinds DEF EmbedInv, RunEnds, cacheVars
<1>2. n \in Nat /\ size \in Nat \ {0} /\ call.next \in Nat \ {0}
  BY <1>1 DEF RunCalls, EffectiveBatch
<1>3. n <= Reach
  BY <1>1, <1>2, BatchesCover DEF EmbedInv, InBuf, RunEnds, Batches, Reach
<1>4. Reach \in Nat
  BY <1>2, BatchesCover DEF Reach
<1>5. \A x \in 1..n : call.buf[x] = VecOf[call.subset[x]]
  <2>1. \A x \in 1..n : \E p \in 1..n : call.order[p] = x
    BY <1>1, <1>2, OrderIsOnto DEF EmbedInv, InBuf
  <2>2. \A p \in 1..n : p <= Reach
    BY <1>2, <1>3, <1>4
  <2>3. \A p \in 1..n : call.buf[call.order[p]] = VecOf[call.subset[call.order[p]]]
    BY <1>1, <2>2 DEF EmbedInv, InBuf
  <2>. QED  BY <2>1, <2>3
<1>6. /\ Len(call.buf) = n /\ Len(call.subset) = n
      /\ \A x \in 1..n : call.subset[x] = call.texts[call.miss[x]]
  BY <1>1 DEF EmbedInv, InBuf
<1>7. CASE cfg.cache
  <2>1. call' = [call EXCEPT !.at = "store", !.i = 1]
    BY <1>7 DEF RunEnds
  <2>. 1 \in Nat \ {0}
    OBVIOUS
  <2>2. /\ call' \in RunCalls /\ call'.at = "store" /\ call'.i = 1 /\ call'.buf = call.buf
        /\ call'.miss = call.miss /\ call'.data = call.data /\ call'.texts = call.texts
    BY <1>1, <2>1 DEF RunCalls
  <2>3. Shape' /\ CacheIsRight'
    BY <1>1, <2>2 DEF EmbedInv, Shape, CacheIsRight
  <2>4. LookedUp' /\ Computed'
    BY <1>1, <1>5, <1>6, <1>7, <2>2 DEF EmbedInv, LookedUp, Computed, RightAt, MissesFrom
  <2>. QED  BY <2>2, <2>3, <2>4 DEF EmbedInv, InBuf, Finishing, Streamed, EmbedsRight
<1>8. CASE ~cfg.cache
  <2>1. call' = [call EXCEPT !.at = "count", !.data = call.buf]
    BY <1>1, <1>8 DEF RunEnds, RunCalls
  <2>2. /\ call' \in RunCalls /\ call'.at = "count" /\ call'.data = call.buf
        /\ call'.texts = call.texts
    BY <1>1, <2>1 DEF RunCalls
  <2>3. Shape' /\ CacheIsRight'
    BY <1>1, <2>2 DEF EmbedInv, Shape, CacheIsRight
  <2>4. Finishing'
    <3>1. DOMAIN call.texts = 1..Len(call.texts) /\ Len(call.texts) \in Nat
      BY <1>1 DEF RunCalls
    <3>2. call.miss = [j \in 1..Len(call.texts) |-> j]
      BY <1>1, <1>8 DEF EmbedInv, InBuf
    <3>3. n = Len(call.texts) /\ \A j \in 1..n : call.miss[j] = j
      BY <3>1, <3>2
    <3>. HIDE DEF n
    <3>4. \A j \in 1..n : call.buf[j] = VecOf[call.texts[j]]
      BY <1>5, <1>6, <3>3
    <3>. QED  BY <2>2, <3>1, <3>3, <3>4 DEF Finishing, RightAt
  <2>. QED  BY <2>2, <2>3, <2>4 DEF EmbedInv, LookedUp, InBuf, Computed, Streamed, EmbedsRight
<1>. QED  BY <1>1, <1>7, <1>8 DEF EmbedInv, Shape

LEMMA StepStore ==
  ASSUME EmbedInv, StoreOne
  PROVE  EmbedInv'
<1>. DEFINE where == call.miss[call.i]
            k == call.texts[where]
            v == call.buf[call.i]
            d == [call.data EXCEPT ![where] = v]
<1>1. /\ call \in RunCalls /\ call.at = "store" /\ UNCHANGED cfg /\ cfg.cache
      /\ call.i \in 1..Len(call.miss) /\ call.i + 1 \in Nat \ {0}
  BY CallKinds DEF EmbedInv, StoreOne, RunCalls, Computed
<1>2. /\ where \in 1..Len(call.texts) /\ Len(call.data) = Len(call.texts) /\ v = VecOf[k]
      /\ Len(call.buf) = Len(call.miss)
  BY <1>1 DEF EmbedInv, LookedUp, Computed
<1>3. v \in Row /\ call.data \in Seq(Row)
  BY <1>1, <1>2 DEF RunCalls
<1>4. /\ d \in Seq(Row) /\ Len(d) = Len(call.texts)
      /\ \A j \in 1..Len(call.texts) : d[j] = IF j = where THEN v ELSE call.data[j]
  <2>1. where \in 1..Len(call.data) /\ DOMAIN call.data = 1..Len(call.data)
    BY <1>2, <1>3
  <2>. HIDE DEF where, v
  <2>2. d \in Seq(Row) /\ Len(d) = Len(call.data)
    BY <1>3, <2>1, ExceptSeq
  <2>3. \A j \in 1..Len(call.data) : d[j] = IF j = where THEN v ELSE call.data[j]
    BY <2>1
  <2>. QED  BY <1>2, <2>2, <2>3
<1>5. /\ Overwrite(k, v) \/ Insert(k, v) \/ Dropped
      /\ \E kept \in BOOLEAN : call' = [call EXCEPT !.i = @ + 1, !.data = d, !.kept = kept]
  <2>1. CASE /\ Overwrite(k, v) \/ Insert(k, v)
             /\ call' = [call EXCEPT !.i = @ + 1, !.data[where] = v]
    <3>1. call.kept \in BOOLEAN
      BY <1>1 DEF RunCalls
    <3>2. call' = [call EXCEPT !.i = @ + 1, !.data = d, !.kept = call.kept]
      BY <1>1, <2>1 DEF RunCalls
    <3>. QED  BY <2>1, <3>1, <3>2
  <2>2. CASE /\ Dropped
             /\ call' = [call EXCEPT !.i = @ + 1, !.data[where] = v, !.kept = FALSE]
    <3>1. call' = [call EXCEPT !.i = @ + 1, !.data = d, !.kept = FALSE]
      BY <1>1, <2>2 DEF RunCalls
    <3>. QED  BY <2>2, <3>1
  <2>. QED  BY <1>1, <2>1, <2>2 DEF StoreOne
<1>6. CacheIsRight'
  BY <1>2, <1>5, PutKeeps DEF EmbedInv
<1>7. v = VecOf[call.texts[where]]
  BY <1>2
<1>. HIDE DEF d, v, k
<1>8. /\ call' \in RunCalls /\ call'.at = "store" /\ call'.i = call.i + 1 /\ call'.data = d
      /\ call'.miss = call.miss /\ call'.texts = call.texts /\ call'.buf = call.buf
  <2>1. PICK kept \in BOOLEAN : call' = [call EXCEPT !.i = @ + 1, !.data = d, !.kept = kept]
    BY <1>5
  <2>. QED  BY <1>1, <1>4, <2>1 DEF RunCalls
<1>9. Shape' /\ Computed'
  BY <1>1, <1>8 DEF EmbedInv, Shape, Computed
<1>10. LookedUp'
  <2>1. \A j \in 1..Len(call.texts) :
           RightAt(j) \/ \E x \in call.i..Len(call.miss) : call.miss[x] = j
    BY <1>1 DEF EmbedInv, LookedUp, MissesFrom
  <2>2. \A x \in call.i..Len(call.miss) : x = call.i \/ x \in (call.i + 1)..Len(call.miss)
    BY <1>1
  <2>3. \A j \in 1..Len(call.texts) :
           d[j] = VecOf[call.texts[j]] \/ \E x \in (call.i + 1)..Len(call.miss) : call.miss[x] = j
    BY <1>4, <1>7, <2>1, <2>2 DEF RightAt
  <2>4. \A x \in 1..Len(call.miss) : call.miss[x] \in 1..Len(call.texts)
    BY <1>1 DEF EmbedInv, LookedUp
  <2>. QED  BY <1>4, <1>8, <2>3, <2>4 DEF LookedUp, RightAt, MissesFrom
<1>. QED  BY <1>6, <1>8, <1>9, <1>10 DEF EmbedInv, InBuf, Finishing, Streamed, EmbedsRight

LEMMA StepStoreEnds ==
  ASSUME EmbedInv, StoreEnds
  PROVE  EmbedInv'
<1>1. /\ call \in RunCalls /\ call.at = "store" /\ cfg.cache /\ call.i > Len(call.miss)
      /\ call' = [call EXCEPT !.at = "count"] /\ UNCHANGED <<cfg, content>>
  BY CallKinds DEF EmbedInv, StoreEnds, cacheVars, Computed
<1>2. call' \in RunCalls /\ call'.at = "count" /\ call'.data = call.data /\ call'.texts = call.texts
  BY <1>1 DEF RunCalls
<1>3. Shape' /\ CacheIsRight'
  BY <1>1, <1>2 DEF EmbedInv, Shape, CacheIsRight
<1>4. Finishing'
  <2>1. DOMAIN call.texts = 1..Len(call.texts)
    BY <1>1 DEF RunCalls
  <2>2. \A x \in call.i..Len(call.miss) : FALSE
    BY <1>1 DEF RunCalls
  <2>. QED  BY <1>1, <1>2, <2>1, <2>2 DEF EmbedInv, LookedUp, MissesFrom, Finishing, RightAt
<1>. QED  BY <1>2, <1>3, <1>4 DEF EmbedInv, LookedUp, InBuf, Computed, Streamed, EmbedsRight

LEMMA StepCount ==
  ASSUME EmbedInv, Count
  PROVE  EmbedInv'
<1>1. /\ call \in RunCalls /\ call.at = "count" /\ call' = [call EXCEPT !.at = "ok"]
      /\ UNCHANGED <<cfg, content>>
  BY CallKinds DEF EmbedInv, Count, cacheVars
<1>2. call' \in RunCalls /\ call'.at = "ok" /\ call'.data = call.data /\ call'.texts = call.texts
  BY <1>1 DEF RunCalls
<1>3. Shape' /\ CacheIsRight'
  BY <1>1, <1>2 DEF EmbedInv, Shape, CacheIsRight
<1>4. EmbedsRight'
  BY <1>1, <1>2 DEF EmbedInv, Finishing, RightAt, EmbedsRight
<1>. QED  BY <1>2, <1>3, <1>4 DEF EmbedInv, LookedUp, InBuf, Computed, Finishing, Streamed

-----------------------------------------------------------------------------
(* Streams. *)

LEMMA StepBeginStream ==
  ASSUME EmbedInv, NEW texts \in TextSeqs, NEW bs \in BatchSizes, BeginStream(texts, bs)
  PROVE  EmbedInv'
<1>1. texts \in Seq(Keys) /\ bs \in Nat \ {0} /\ <<>> \in Seq(Vecs) /\ 1 \in Nat \ {0}
  BY CallAssumption
<1>2. /\ call' = [at |-> "stream", texts |-> texts, bs |-> bs, next |-> 1, seen |-> <<>>]
      /\ UNCHANGED <<cfg, content>>
  BY DEF BeginStream, cacheVars
<1>3. call' \in StreamCalls
  BY <1>1, <1>2 DEF StreamCalls
<1>4. Shape' /\ CacheIsRight'
  BY <1>2, <1>3 DEF EmbedInv, Shape, CacheIsRight
<1>5. Streamed'
  <2>1. StreamSize' \in Nat /\ Len(texts) \in Nat
    BY <1>1, <1>2 DEF StreamSize
  <2>2. (call'.next - 1) * StreamSize' = 0
    <3>1. \A x \in Nat : (1 - 1) * x = 0
      OBVIOUS
    <3>. QED  BY <1>2, <2>1, <3>1
  <2>3. Len(call'.seen) = 0 /\ call'.texts = texts
    BY <1>2
  <2>. QED  BY <2>1, <2>2, <2>3 DEF Streamed
<1>6. EmbedsRight'
  BY <1>1, <1>2 DEF EmbedsRight
<1>. QED  BY <1>2, <1>4, <1>5, <1>6 DEF EmbedInv, LookedUp, InBuf, Computed, Finishing

LEMMA StepStream ==
  ASSUME EmbedInv, StreamBatch
  PROVE  EmbedInv'
<1>. DEFINE n == Len(call.texts)
            start == (call.next - 1) * StreamSize
            ps == Batch(call.next, n, StreamSize)
            len == Cardinality(ps)
            rows == [j \in 1..len |-> VecOf[call.texts[start + j]]]
            seen == call.seen \o rows
<1>1. /\ call \in StreamCalls /\ call.at = "stream" /\ UNCHANGED <<cfg, content>>
      /\ call' = [call EXCEPT !.next = @ + 1, !.seen = seen]
  BY CallKinds DEF EmbedInv, StreamBatch, cacheVars
<1>2. /\ n \in Nat /\ StreamSize \in Nat \ {0} /\ call.next \in Nat \ {0}
      /\ call.next + 1 \in Nat \ {0} /\ call.seen \in Seq(Vecs)
  BY <1>1 DEF StreamCalls, StreamSize
<1>3. start \in Nat /\ start < n /\ call.next * StreamSize = start + StreamSize
  BY <1>2, BatchesCover DEF StreamBatch, StreamBatches
<1>4. Len(call.seen) = start
  BY <1>1, <1>3 DEF EmbedInv, Streamed
<1>. DEFINE end == IF start + StreamSize < n THEN start + StreamSize ELSE n
<1>5. len = end - start
  <2>1. ps = {p \in 1..n : start < p /\ p <= start + StreamSize}
    BY DEF Batch
  <2>. HIDE DEF ps, start
  <2>2. end \in Int /\ end > start /\ start + 1 \in Int
    BY <1>2, <1>3
  <2>3. ps = (start + 1)..end
    BY <1>2, <1>3, <2>1
  <2>. HIDE DEF end
  <2>4. Cardinality((start + 1)..end) = end - (start + 1) + 1
    <3>1. ~(start + 1 > end)
      BY <1>3, <2>2
    <3>. QED  BY <2>2, <3>1, FS_Interval
  <2>. QED  BY <1>3, <2>2, <2>3, <2>4
<1>. HIDE DEF len, start
<1>6. len \in Nat /\ start + len = end /\ start + len <= n
  BY <1>2, <1>3, <1>5
<1>7. /\ rows \in Seq(Vecs) /\ Len(rows) = len
      /\ \A j \in 1..len : rows[j] = VecOf[call.texts[start + j]]
  <2>1. \A j \in 1..len : start + j \in 1..n
    BY <1>2, <1>3, <1>6
  <2>2. \A j \in 1..n : VecOf[call.texts[j]] \in Vecs
    BY <1>1, VecAssumption DEF StreamCalls
  <2>. QED  BY <1>6, <2>1, <2>2
<1>. HIDE DEF rows
<1>8. /\ seen \in Seq(Vecs) /\ Len(seen) = start + len
      /\ \A j \in 1..(start + len) : seen[j] = IF j <= start THEN call.seen[j] ELSE rows[j - start]
  <2>. HIDE DEF end
  <2>1. /\ seen \in Seq(Vecs) /\ Len(seen) = Len(call.seen) + Len(rows)
        /\ \A j \in 1..(Len(call.seen) + Len(rows)) :
              seen[j] = IF j <= Len(call.seen) THEN call.seen[j] ELSE rows[j - Len(call.seen)]
    BY ZenonT(40), <1>2, <1>7, ConcatProperties
  <2>. QED  BY <1>4, <1>7, <2>1
<1>9. \A j \in 1..(start + len) : seen[j] = VecOf[call.texts[j]]
  <2>. SUFFICES ASSUME NEW j \in 1..(start + len) PROVE seen[j] = VecOf[call.texts[j]]
    OBVIOUS
  <2>1. CASE j <= start
    <3>1. j \in DOMAIN call.seen
      BY <1>2, <1>3, <1>4, <2>1
    <3>2. call.seen[j] = VecOf[call.texts[j]]
      BY <1>1, <3>1 DEF EmbedInv, EmbedsRight
    <3>. QED  BY <1>8, <2>1, <3>2
  <2>2. CASE ~(j <= start)
    <3>1. j - start \in 1..len /\ start + (j - start) = j
      BY <1>3, <1>6, <2>2
    <3>. QED  BY <1>7, <1>8, <2>2, <3>1
  <2>. QED  BY <2>1, <2>2
<1>. HIDE DEF seen
<1>10. /\ call' \in StreamCalls /\ call'.at = "stream" /\ call'.next = call.next + 1
       /\ call'.seen = seen /\ call'.texts = call.texts /\ call'.bs = call.bs
  BY <1>1, <1>2, <1>8 DEF StreamCalls
<1>11. Shape' /\ CacheIsRight'
  BY <1>1, <1>10 DEF EmbedInv, Shape, CacheIsRight
<1>12. Streamed'
  <2>1. StreamSize' = StreamSize
    BY <1>1, <1>10 DEF StreamSize
  <2>2. ((call.next + 1) - 1) * StreamSize = start + StreamSize
    BY <1>2, <1>3
  <2>. QED  BY <1>2, <1>3, <1>6, <1>8, <1>10, <2>1, <2>2 DEF Streamed
<1>13. EmbedsRight'
  <2>1. DOMAIN seen = 1..(start + len)
    BY <1>8
  <2>. QED  BY <1>6, <1>8, <1>9, <1>10, <2>1 DEF EmbedsRight
<1>. QED  BY <1>10, <1>11, <1>12, <1>13 DEF EmbedInv, LookedUp, InBuf, Computed, Finishing

LEMMA StepStreamEnds ==
  ASSUME EmbedInv, StreamEnds
  PROVE  EmbedInv'
<1>1. /\ call \in StreamCalls /\ call.at = "stream" /\ call' = [call EXCEPT !.at = "streamed"]
      /\ UNCHANGED <<cfg, content>>
  BY CallKinds DEF EmbedInv, StreamEnds, cacheVars
<1>2. /\ call' \in StreamCalls /\ call'.at = "streamed" /\ call'.seen = call.seen
      /\ call'.texts = call.texts
  BY <1>1 DEF StreamCalls
<1>3. Shape' /\ CacheIsRight'
  BY <1>1, <1>2 DEF EmbedInv, Shape, CacheIsRight
<1>4. Len(call.texts) \in Nat /\ StreamSize \in Nat \ {0} /\ call.next \in Nat \ {0}
  BY <1>1 DEF StreamCalls, StreamSize
<1>5. Len(call.texts) <= (call.next - 1) * StreamSize /\ (call.next - 1) * StreamSize \in Nat
  BY <1>4, BatchesCover DEF StreamEnds, StreamBatches
<1>6. Len(call.seen) = Len(call.texts)
  BY <1>1, <1>4, <1>5 DEF EmbedInv, Streamed
<1>7. EmbedsRight'
  BY <1>1, <1>2, <1>4, <1>6 DEF EmbedInv, EmbedsRight
<1>. QED  BY <1>2, <1>3, <1>7 DEF EmbedInv, LookedUp, InBuf, Computed, Finishing, Streamed

-----------------------------------------------------------------------------
LEMMA StepEmbedInv == EmbedInv /\ [EmbedNext]_embedVars => EmbedInv'
<1>. SUFFICES ASSUME EmbedInv, [EmbedNext]_embedVars PROVE EmbedInv'
  OBVIOUS
<1>1. CASE UNCHANGED embedVars
  BY SMTT(20), <1>1 DEF embedVars, EmbedInv, Shape, CacheIsRight, LookedUp, InBuf, Computed, Finishing,
              Streamed, EmbedsRight, RightAt, MissesFrom, Reach, EffectiveBatch, StreamSize
<1>2. ASSUME NEW texts \in TextSeqs, NEW bs \in BatchSizes,
             Begin(texts, bs) \/ BeginStream(texts, bs)
      PROVE  EmbedInv'
  BY <1>2, StepBegin, StepBeginStream
<1>. QED
  BY <1>1, <1>2, StepLookup, StepPlan, StepRun, StepFails, StepRunEnds, StepStore,
     StepStoreEnds, StepCount, StepStream, StepStreamEnds DEF EmbedNext

LEMMA SpecEmbedInv == EmbedSpec => []EmbedInv
  BY InitEmbedInv, StepEmbedInv, PTL DEF EmbedSpec

(* A successful call gives every text its own vector in its own place, and *)
(* a stream hands them over in order and completely.                       *)
THEOREM RowsAreRight == EmbedSpec => []EmbedsRight
<1>1. EmbedInv => EmbedsRight
  BY DEF EmbedInv
<1>. QED  BY <1>1, SpecEmbedInv, PTL

(* Failed calls included, the cache holds no text under another's vector.  *)
THEOREM CachedIsRight == EmbedSpec => []CacheIsRight
<1>1. EmbedInv => CacheIsRight
  BY DEF EmbedInv
<1>. QED  BY <1>1, SpecEmbedInv, PTL

-----------------------------------------------------------------------------
(* The reranker.  A position is right from the moment its pair was found   *)
(* or scored; until then it is still to be looked up, or among the misses  *)
(* no batch has reached (Scored).  What waits to be stored is right.       *)

RerankCalls ==
    [at : {"lookup", "run", "ranked", "failed"}, query : Queries, docs : Seq(Documents),
     bs : Nat \ {0}, i : Nat \ {0}, next : Nat \ {0}, todo : Seq(Nat), miss : Seq(Nat),
     scores : Seq(Nat), items : Seq([index : Nat, score : Nat])]

RerankShape ==
    /\ cfg \in [backend : Backends, cache : BOOLEAN]
    /\ call \in {Idle} \cup RerankCalls

ScoreAt(j) == Score[<<call.query, call.docs[j]>>]
RankReach == (call.next - 1) * R!Step

Scored ==
    call.at \in {"lookup", "run"} =>
        /\ Len(call.scores) = Len(call.docs)
        /\ \A x \in 1..Len(call.miss) : call.miss[x] \in 1..Len(call.docs)
        /\ call.at = "lookup" => call.next = 1 /\ call.todo = <<>>
        /\ \A j \in 1..Len(call.docs) :
              \/ call.scores[j] = ScoreAt(j)
              \/ call.at = "lookup" /\ j >= call.i
              \/ \E x \in 1..Len(call.miss) : x > RankReach /\ call.miss[x] = j
        /\ \A x \in 1..Len(call.todo) :
              /\ call.todo[x] \in 1..Len(call.docs)
              /\ call.scores[call.todo[x]] = ScoreAt(call.todo[x])

RerankInv == RerankShape /\ R!CacheIsRight /\ Scored /\ R!RanksRight
HandleInv == IF Embedding THEN EmbedInv ELSE RerankInv

LEMMA RerankKinds ==
  ASSUME RerankShape
  PROVE  /\ call.at # "idle" => call \in RerankCalls
         /\ call.at \in {"idle", "lookup", "run", "ranked", "failed"}
  BY DEF RerankShape, RerankCalls, Idle

LEMMA EndOfBatch ==
  ASSUME NEW n \in Nat, NEW s \in Nat \ {0}, NEW start \in Nat, start < n,
         NEW end, end = IF start + s < n THEN start + s ELSE n
  PROVE  /\ end \in Nat /\ start < end /\ end <= n
         /\ (end = start + s \/ (end = n /\ n <= start + s))
<1>1. CASE start + s < n
  BY <1>1
<1>2. CASE ~(start + s < n)
  BY <1>2
<1>. QED  BY <1>1, <1>2

LEMMA OneMore ==
  ASSUME NEW n \in Nat, NEW l, l = n + 1
  PROVE  /\ l \in 1..l /\ l > 0
         /\ \A x \in 1..n : x \in 1..l
         /\ \A x \in 1..l : x \in 1..n \/ x = l
  OBVIOUS

(* A batch is an interval of the rows, and not an empty one.               *)
LEMMA BatchIsInterval ==
  ASSUME NEW n \in Nat, NEW s \in Nat \ {0}, NEW b \in Nat \ {0}, b <= BatchCount(n, s),
         NEW start, start = (b - 1) * s
  PROVE  \E end \in Nat :
           /\ start < end /\ end <= n /\ (end = start + s \/ (end = n /\ n <= start + s))
           /\ Batch(b, n, s) = (start + 1)..end
           /\ Cardinality(Batch(b, n, s)) = end - start
<1>1. start \in Nat /\ start < n
  BY BatchesCover
<1>. DEFINE end == IF start + s < n THEN start + s ELSE n
<1>2. /\ end \in Nat /\ start < end /\ end <= n
      /\ (end = start + s \/ (end = n /\ n <= start + s))
  BY <1>1, EndOfBatch
<1>3. Batch(b, n, s) = {p \in 1..n : start < p /\ p <= start + s}
  BY DEF Batch
<1>4. {p \in 1..n : start < p /\ p <= start + s} = (start + 1)..end
  BY <1>1
<1>. HIDE DEF end
<1>5. Cardinality((start + 1)..end) = end - (start + 1) + 1
  <2>1. start + 1 \in Int /\ end \in Int /\ ~(start + 1 > end)
    BY <1>1, <1>2
  <2>. QED  BY <2>1, FS_Interval
<1>6. end - (start + 1) + 1 = end - start
  BY <1>1, <1>2
<1>. QED  BY <1>2, <1>3, <1>4, <1>5, <1>6

LEMMA InitRerankInv == R!RerankInit => RerankInv
  BY DEF R!RerankInit, R!Init, Idle, RerankInv, RerankShape, R!CacheIsRight, Scored, R!RanksRight

LEMMA RankAbsentKeeps ==
  ASSUME R!CacheIsRight, NEW k, R!Absent(k)
  PROVE  R!CacheIsRight'
  BY DEF R!CacheIsRight, R!Absent, R!Only, R!Key

LEMMA RankPutKeeps ==
  ASSUME R!CacheIsRight, NEW q \in Queries, NEW t \in Documents, NEW k, k = R!Key(q, t),
         NEW v, v = Score[<<q, t>>],
         R!Overwrite(k, v) \/ R!Insert(k, v) \/ R!Dropped
  PROVE  R!CacheIsRight'
<1>1. \A q2 \in Queries, t2 \in Documents : R!Key(q2, t2) = k => Score[<<q2, t2>>] = v
  BY BorderAssumption DEF R!Key
<1>2. CASE R!Overwrite(k, v)
  BY <1>1, <1>2 DEF R!CacheIsRight, R!Overwrite, R!Store, R!Key
<1>3. CASE R!Insert(k, v)
  <2>1. PICK gone \in SUBSET DOMAIN content :
           content' = [j \in (DOMAIN content \ gone) \cup {k} |->
                         IF j = k THEN R!Store(k, v) ELSE content[j]]
    BY <1>3 DEF R!Insert
  <2>. QED  BY <1>1, <2>1 DEF R!CacheIsRight, R!Store, R!Key
<1>4. CASE R!Dropped
  BY <1>4 DEF R!CacheIsRight, R!Dropped, R!Key
<1>. QED  BY <1>2, <1>3, <1>4

LEMMA StepRankBegin ==
  ASSUME RerankInv, NEW q \in Queries, NEW docs \in DocSeqs, NEW bs \in BatchSizes,
         R!Begin(q, docs, bs)
  PROVE  RerankInv'
<1>1. docs \in Seq(Documents) /\ bs \in Nat \ {0} /\ Len(docs) \in Nat /\ DOMAIN docs = 1..Len(docs)
  BY DocsAssumption, CallAssumption
<1>. DEFINE zeros == [j \in DOMAIN docs |-> 0]
            miss == IF cfg.cache THEN <<>> ELSE [j \in DOMAIN docs |-> j]
<1>2. zeros \in Seq(Nat) /\ Len(zeros) = Len(docs)
  BY <1>1
<1>3. /\ miss \in Seq(Nat) /\ Len(miss) \in Nat
      /\ \A x \in 1..Len(miss) : miss[x] \in 1..Len(docs)
      /\ ~cfg.cache => Len(miss) = Len(docs) /\ \A x \in 1..Len(docs) : miss[x] = x
  <2>1. CASE cfg.cache
    BY <2>1
  <2>2. CASE ~cfg.cache
    BY <1>1, <2>2
  <2>. QED  BY <2>1, <2>2
<1>. HIDE DEF zeros, miss
<1>4. /\ call' = [at |-> IF cfg.cache THEN "lookup" ELSE "run", query |-> q, docs |-> docs,
                  bs |-> bs, i |-> 1, next |-> 1, todo |-> <<>>, miss |-> miss,
                  scores |-> zeros, items |-> <<>>]
      /\ UNCHANGED <<cfg, content>>
  BY DEF R!Begin, R!cacheVars, zeros, miss
<1>5. call' \in RerankCalls
  BY <1>1, <1>2, <1>3, <1>4 DEF RerankCalls
<1>6. RerankShape' /\ R!CacheIsRight'
  BY <1>4, <1>5 DEF RerankInv, RerankShape, R!CacheIsRight, R!Key
<1>7. RankReach' = 0
  <2>1. R!Step' \in Nat
    BY <1>1, <1>3, <1>4 DEF R!Step
  <2>2. \A x \in Nat : (1 - 1) * x = 0
    OBVIOUS
  <2>. QED  BY <1>4, <2>1, <2>2 DEF RankReach
<1>8. Scored'
  <2>1. \A j \in 1..Len(docs) : (cfg.cache /\ j >= 1) \/ \E x \in 1..Len(miss) : x > 0 /\ miss[x] = j
    <3>1. \A j \in 1..Len(docs) : j >= 1 /\ j > 0
      OBVIOUS
    <3>. QED  BY <1>3, <3>1
  <2>. QED  BY <1>1, <1>2, <1>3, <1>4, <1>7, <2>1 DEF Scored
<1>. QED  BY <1>4, <1>6, <1>8 DEF RerankInv, R!RanksRight

LEMMA StepRankLookup ==
  ASSUME RerankInv, R!LookupOne
  PROVE  RerankInv'
<1>. DEFINE t == call.docs[call.i]
            k == R!Key(call.query, t)
<1>1. /\ call \in RerankCalls /\ call.at = "lookup" /\ call.i \in 1..Len(call.docs)
      /\ call.query \in Queries /\ t \in Documents /\ call.i + 1 \in Nat \ {0}
      /\ call.scores \in Seq(Nat) /\ Len(call.scores) = Len(call.docs)
      /\ call.next = 1 /\ call.todo = <<>> /\ UNCHANGED cfg
      /\ call.miss \in Seq(Nat) /\ Len(call.miss) \in Nat
  <2>1. call \in RerankCalls /\ call.at = "lookup" /\ call.i <= Len(call.docs) /\ UNCHANGED cfg
    BY RerankKinds DEF RerankInv, R!LookupOne
  <2>2. /\ call.i \in Nat \ {0} /\ call.docs \in Seq(Documents) /\ call.query \in Queries
        /\ call.scores \in Seq(Nat) /\ call.miss \in Seq(Nat)
    BY <2>1 DEF RerankCalls
  <2>3. Len(call.scores) = Len(call.docs) /\ call.next = 1 /\ call.todo = <<>>
    BY <2>1 DEF RerankInv, Scored
  <2>4. call.i \in 1..Len(call.docs) /\ call.i + 1 \in Nat \ {0}
    BY <2>1, <2>2
  <2>5. t \in Documents /\ Len(call.miss) \in Nat
    BY <2>2, <2>4
  <2>. QED  BY <2>1, <2>2, <2>3, <2>4, <2>5
<1>2. \A x \in Nat : (1 - 1) * x = 0
  OBVIOUS
<1>3. RankReach = 0
  <2>1. R!Step \in Nat
    BY <1>1 DEF R!Step, RerankCalls
  <2>. QED  BY <1>1, <1>2, <2>1 DEF RankReach
<1>4. \A j \in 1..Len(call.docs) : j >= call.i + 1 \/ j = call.i \/ ~(j >= call.i)
  BY <1>1
<1>5. /\ \A j \in 1..Len(call.docs) :
              \/ call.scores[j] = ScoreAt(j) \/ j >= call.i
              \/ \E x \in 1..Len(call.miss) : x > 0 /\ call.miss[x] = j
      /\ \A x \in 1..Len(call.miss) : call.miss[x] \in 1..Len(call.docs)
  BY <1>1, <1>3 DEF RerankInv, Scored
<1>6. CASE /\ R!Hit(k)
           /\ call' = [call EXCEPT !.i = @ + 1, !.scores[call.i] = content[k].val]
  <2>. DEFINE s == [call.scores EXCEPT ![call.i] = ScoreAt(call.i)]
  <2>1. content[k].val = ScoreAt(call.i) /\ ScoreAt(call.i) \in Nat /\ UNCHANGED content
    BY <1>1, <1>6, ScoreAssumption DEF RerankInv, R!CacheIsRight, R!Hit, R!Fresh, ScoreAt
  <2>2. /\ s \in Seq(Nat) /\ Len(s) = Len(call.docs)
        /\ \A j \in 1..Len(call.docs) : s[j] = IF j = call.i THEN ScoreAt(j) ELSE call.scores[j]
    BY <1>1, <2>1, ExceptSeq
  <2>3. call' = [call EXCEPT !.i = @ + 1, !.scores = s]
    BY <1>1, <1>6, <2>1 DEF RerankCalls
  <2>. HIDE DEF s, k, t
  <2>4. /\ call' \in RerankCalls /\ call'.at = "lookup" /\ call'.i = call.i + 1
        /\ call'.docs = call.docs /\ call'.query = call.query /\ call'.miss = call.miss
        /\ call'.scores = s /\ call'.next = 1 /\ call'.todo = <<>> /\ call'.bs = call.bs
    BY <1>1, <2>2, <2>3 DEF RerankCalls
  <2>5. RankReach' = 0
    <3>1. R!Step' \in Nat
      BY <1>1, <2>4 DEF R!Step, RerankCalls
    <3>. QED  BY <1>2, <2>4, <3>1 DEF RankReach
  <2>6. \A j \in 1..Len(call.docs) :
              \/ s[j] = ScoreAt(j) \/ j >= call.i + 1
              \/ \E x \in 1..Len(call.miss) : x > 0 /\ call.miss[x] = j
    BY <1>4, <1>5, <2>2
  <2>7. Scored'
    BY <1>1, <1>5, <2>2, <2>4, <2>5, <2>6 DEF Scored, ScoreAt
  <2>. QED  BY <1>1, <2>1, <2>4, <2>7
         DEF RerankInv, RerankShape, R!CacheIsRight, R!Key, R!RanksRight
<1>7. CASE R!Absent(k) /\ call' = [call EXCEPT !.i = @ + 1, !.miss = Append(@, call.i)]
  <2>. DEFINE m == Append(call.miss, call.i)
  <2>1. R!CacheIsRight'
    BY <1>7, RankAbsentKeeps DEF RerankInv
  <2>2. /\ m \in Seq(Nat) /\ Len(m) = Len(call.miss) + 1 /\ m[Len(m)] = call.i
        /\ \A x \in 1..Len(call.miss) : m[x] = call.miss[x]
    BY <1>1
  <2>3. call' = [call EXCEPT !.i = @ + 1, !.miss = m]
    BY <1>1, <1>7 DEF RerankCalls
  <2>. HIDE DEF m, k, t
  <2>4. /\ call' \in RerankCalls /\ call'.at = "lookup" /\ call'.i = call.i + 1
        /\ call'.docs = call.docs /\ call'.query = call.query /\ call'.miss = m
        /\ call'.scores = call.scores /\ call'.next = 1 /\ call'.todo = <<>> /\ call'.bs = call.bs
    BY <1>1, <2>2, <2>3 DEF RerankCalls
  <2>5. RankReach' = 0
    <3>1. R!Step' \in Nat
      BY <1>1, <2>2, <2>4 DEF R!Step, RerankCalls
    <3>. QED  BY <1>2, <2>4, <3>1 DEF RankReach
  <2>6. /\ Len(m) \in 1..Len(m) /\ Len(m) > 0
        /\ \A x \in 1..Len(call.miss) : x \in 1..Len(m)
        /\ \A x \in 1..Len(m) : x \in 1..Len(call.miss) \/ x = Len(m)
    BY <1>1, <2>2, OneMore
  <2>7. \A x \in 1..Len(m) : m[x] \in 1..Len(call.docs)
    <3>. SUFFICES ASSUME NEW x \in 1..Len(m) PROVE m[x] \in 1..Len(call.docs)
      OBVIOUS
    <3>1. CASE x = Len(m)
      BY <1>1, <2>2, <3>1
    <3>2. CASE x \in 1..Len(call.miss)
      BY <1>5, <2>2, <3>2
    <3>. QED  BY <2>6, <3>1, <3>2
  <2>8. \A j \in 1..Len(call.docs) :
              \/ call.scores[j] = ScoreAt(j) \/ j >= call.i + 1
              \/ \E x \in 1..Len(m) : x > 0 /\ m[x] = j
    <3>. SUFFICES ASSUME NEW j \in 1..Len(call.docs)
                  PROVE  \/ call.scores[j] = ScoreAt(j) \/ j >= call.i + 1
                         \/ \E x \in 1..Len(m) : x > 0 /\ m[x] = j
      OBVIOUS
    <3>1. CASE j = call.i
      BY <2>2, <2>6, <3>1
    <3>2. CASE \E x \in 1..Len(call.miss) : x > 0 /\ call.miss[x] = j
      BY <2>2, <2>6, <3>2
    <3>. QED  BY <1>4, <1>5, <3>1, <3>2
  <2>9. Scored'
    BY <1>1, <2>2, <2>4, <2>5, <2>7, <2>8 DEF Scored, ScoreAt
  <2>. QED  BY <1>1, <2>1, <2>4, <2>9 DEF RerankInv, RerankShape, R!RanksRight
<1>. QED  BY <1>6, <1>7 DEF R!LookupOne

LEMMA StepRankLookupEnds ==
  ASSUME RerankInv, R!LookupEnds
  PROVE  RerankInv'
<1>1. /\ call \in RerankCalls /\ call.at = "lookup" /\ call.i > Len(call.docs)
      /\ call' = [call EXCEPT !.at = "run"] /\ UNCHANGED <<cfg, content>>
  BY RerankKinds DEF RerankInv, R!LookupEnds, R!cacheVars
<1>2. /\ call' \in RerankCalls /\ call'.at = "run" /\ call'.docs = call.docs
      /\ call'.query = call.query /\ call'.miss = call.miss /\ call'.scores = call.scores
      /\ call'.next = call.next /\ call'.todo = call.todo /\ call'.bs = call.bs
  BY <1>1 DEF RerankCalls
<1>3. RankReach' = RankReach
  BY <1>1, <1>2 DEF RankReach, R!Step
<1>4. \A j \in 1..Len(call.docs) : ~(j >= call.i)
  BY <1>1 DEF RerankCalls
<1>5. Scored'
  BY <1>1, <1>2, <1>3, <1>4 DEF RerankInv, Scored, ScoreAt
<1>. QED  BY <1>1, <1>2, <1>5
       DEF RerankInv, RerankShape, R!CacheIsRight, R!Key, R!RanksRight

(* The batches of a call that has misses cover them, and none is empty.    *)
LEMMA RankBatches ==
  ASSUME call \in RerankCalls
  PROVE  /\ Len(call.miss) \in Nat /\ RankReach \in Nat
         /\ call.next > R!Batches => Len(call.miss) <= RankReach
         /\ call.next <= R!Batches =>
              /\ R!Step \in Nat \ {0} /\ call.next <= BatchCount(Len(call.miss), R!Step)
              /\ R!Batch(call.next, Len(call.miss), R!Step)
                   = Batch(call.next, Len(call.miss), R!Step)
<1>1. /\ call.miss \in Seq(Nat) /\ Len(call.miss) \in Nat /\ call.bs \in Nat \ {0}
      /\ call.next \in Nat \ {0}
  BY DEF RerankCalls
<1>2. call.miss = <<>> <=> Len(call.miss) = 0
  BY <1>1, EmptySeq
<1>3. R!Step \in Nat /\ (call.miss # <<>> => R!Step \in Nat \ {0})
  BY <1>1, <1>2 DEF R!Step
<1>4. RankReach \in Nat
  <2>1. \A x, y \in Nat : x * y \in Nat
    OBVIOUS
  <2>2. call.next - 1 \in Nat
    BY <1>1
  <2>. QED  BY <1>3, <2>1, <2>2 DEF RankReach
<1>5. R!BatchCount(Len(call.miss), R!Step) = BatchCount(Len(call.miss), R!Step)
  BY DEF R!BatchCount, BatchCount
<1>6. CASE call.miss = <<>>
  BY <1>1, <1>2, <1>4, <1>6 DEF R!Batches
<1>7. CASE call.miss # <<>>
  <2>1. R!Batches = BatchCount(Len(call.miss), R!Step)
    BY <1>5, <1>7 DEF R!Batches
  <2>2. call.next > R!Batches => Len(call.miss) <= RankReach
    BY <1>1, <1>3, <1>7, <2>1, BatchesCover DEF RankReach
  <2>3. R!Batch(call.next, Len(call.miss), R!Step) = Batch(call.next, Len(call.miss), R!Step)
    BY DEF R!Batch, Batch
  <2>. QED  BY <1>1, <1>3, <1>4, <1>7, <2>1, <2>2, <2>3
<1>. QED  BY <1>6, <1>7

LEMMA SameCardinality == \A S : R!Cardinality(S) = Cardinality(S)
  BY Zenon DEF R!Cardinality, Cardinality

LEMMA StepRankRun ==
  ASSUME RerankInv, R!RunBatch
  PROVE  RerankInv'
<1>. DEFINE n == Len(call.miss)
            l == Len(call.docs)
            ps == R!Batch(call.next, Len(call.miss), R!Step)
            first == (call.next - 1) * R!Step
            s == [j \in DOMAIN call.scores |->
                    IF \E p \in ps : call.miss[p] = j
                    THEN Score[<<call.query, call.docs[j]>>] ELSE call.scores[j]]
            todo == IF cfg.cache THEN SubSeq(call.miss, first + 1, first + Cardinality(ps)) ELSE <<>>
<1>1. /\ call \in RerankCalls /\ call.at = "run" /\ UNCHANGED <<cfg, content>>
      /\ call.next <= R!Batches
      /\ call' = [call EXCEPT !.scores = s, !.todo = todo, !.next = @ + 1]
  BY RerankKinds, SameCardinality DEF RerankInv, R!RunBatch, R!cacheVars
<1>2. /\ call.miss \in Seq(Nat) /\ n \in Nat /\ call.next \in Nat \ {0} /\ call.next + 1 \in Nat \ {0}
      /\ call.docs \in Seq(Documents) /\ l \in Nat /\ call.scores \in Seq(Nat)
      /\ call.query \in Queries
  BY <1>1 DEF RerankCalls
<1>3. /\ Len(call.scores) = l /\ DOMAIN call.scores = 1..l
      /\ \A x \in 1..n : call.miss[x] \in 1..l
      /\ \A j \in 1..l : \/ call.scores[j] = ScoreAt(j)
                         \/ \E x \in 1..n : x > RankReach /\ call.miss[x] = j
  BY <1>1, <1>2 DEF RerankInv, Scored
<1>4. /\ R!Step \in Nat \ {0} /\ call.next <= BatchCount(n, R!Step)
      /\ ps = Batch(call.next, n, R!Step) /\ first = RankReach /\ first \in Nat
  BY <1>1, RankBatches DEF RankReach
<1>5. PICK end \in Nat :
        /\ first < end /\ end <= n
        /\ (end = first + R!Step \/ (end = n /\ n <= first + R!Step))
        /\ ps = (first + 1)..end /\ Cardinality(ps) = end - first
  <2>. HIDE DEF ps
  <2>1. first = (call.next - 1) * R!Step
    OBVIOUS
  <2>. HIDE DEF first, n
  <2>2. \E end \in Nat :
           /\ first < end /\ end <= n /\ (end = first + R!Step \/ (end = n /\ n <= first + R!Step))
           /\ Batch(call.next, n, R!Step) = (first + 1)..end
           /\ Cardinality(Batch(call.next, n, R!Step)) = end - first
    <3>. DEFINE z == R!Step
                b == call.next
    <3>1. /\ n \in Nat /\ z \in Nat \ {0} /\ b \in Nat \ {0} /\ b <= BatchCount(n, z)
          /\ first = (b - 1) * z
      BY <1>2, <1>4, <2>1
    <3>. HIDE DEF z, b
    <3>2. \E end \in Nat :
             /\ first < end /\ end <= n /\ (end = first + z \/ (end = n /\ n <= first + z))
             /\ Batch(b, n, z) = (first + 1)..end
             /\ Cardinality(Batch(b, n, z)) = end - first
      BY <3>1, BatchIsInterval
    <3>. QED  BY <3>2 DEF z, b
  <2>. QED  BY Zenon, <1>4, <2>2
<1>6. RankReach' = RankReach + R!Step
  <2>1. /\ call'.next = call.next + 1 /\ call'.miss = call.miss /\ call'.bs = call.bs
    BY <1>1, <1>2 DEF RerankCalls
  <2>2. R!Step' = R!Step
    BY <1>1, <2>1 DEF R!Step
  <2>3. (call.next + 1) - 1 = call.next /\ call.next * R!Step = (call.next - 1) * R!Step + R!Step
    BY SMTT(20), <1>2, <1>4, BatchesCover
  <2>. QED  BY <2>1, <2>2, <2>3 DEF RankReach
<1>. HIDE DEF first, ps
<1>7. /\ s \in Seq(Nat) /\ Len(s) = l
      /\ \A j \in 1..l : s[j] = IF \E p \in ps : call.miss[p] = j
                                THEN ScoreAt(j) ELSE call.scores[j]
  <2>1. \A j \in 1..l : call.docs[j] \in Documents /\ call.scores[j] \in Nat
    BY <1>2, <1>3
  <2>2. \A j \in 1..l : Score[<<call.query, call.docs[j]>>] \in Nat
    BY <1>2, <2>1, ScoreAssumption
  <2>. QED  BY <1>2, <1>3, <2>1, <2>2 DEF ScoreAt
<1>8. \A j \in 1..l : call.scores[j] = ScoreAt(j) => s[j] = ScoreAt(j)
  BY <1>7
<1>9. \A p \in ps : p \in 1..n
  BY <1>2, <1>4, <1>5
<1>10. \A p \in ps : call.miss[p] \in 1..l /\ s[call.miss[p]] = ScoreAt(call.miss[p])
  BY <1>3, <1>7, <1>9
<1>11. /\ todo \in Seq(Nat)
       /\ \A x \in 1..Len(todo) : todo[x] \in 1..l /\ s[todo[x]] = ScoreAt(todo[x])
  <2>1. CASE ~cfg.cache
    BY <2>1
  <2>2. CASE cfg.cache
    <3>1. /\ first + Cardinality(ps) = end /\ first + 1 \in Int /\ end \in Int
          /\ first + 1 <= end
      BY <1>4, <1>5
    <3>2. todo = SubSeq(call.miss, first + 1, end)
      BY <2>2, <3>1
    <3>. HIDE DEF todo, s
    <3>3. /\ todo \in Seq(Nat)
          /\ Len(todo) = end - (first + 1) + 1
          /\ \A x \in 1..(end - (first + 1) + 1) : todo[x] = call.miss[first + 1 + x - 1]
      <4>1. \A p \in (first + 1)..end : call.miss[p] \in Nat
        BY <1>2, <1>5, <1>9
      <4>. QED  BY <3>1, <3>2, <4>1, SubSeqProperties
    <3>4. \A x \in 1..(end - (first + 1) + 1) : first + 1 + x - 1 \in (first + 1)..end
      BY <1>4
    <3>5. \A x \in 1..Len(todo) : \E p \in ps : todo[x] = call.miss[p]
      BY <1>5, <3>3, <3>4
    <3>. QED  BY Zenon, <1>10, <3>3, <3>5
  <2>. QED  BY <1>1, <2>1, <2>2 DEF RerankInv, RerankShape
<1>. HIDE DEF s, todo
<1>12. /\ call' \in RerankCalls /\ call'.at = "run" /\ call'.docs = call.docs
       /\ call'.query = call.query /\ call'.miss = call.miss /\ call'.scores = s
       /\ call'.todo = todo
  BY <1>1, <1>2, <1>7, <1>11 DEF RerankCalls
<1>13. \A j \in 1..l : \/ s[j] = ScoreAt(j)
                       \/ \E x \in 1..n : x > RankReach + R!Step /\ call.miss[x] = j
  <2>. SUFFICES ASSUME NEW j \in 1..l, s[j] # ScoreAt(j)
                PROVE  \E x \in 1..n : x > RankReach + R!Step /\ call.miss[x] = j
    OBVIOUS
  <2>1. PICK x \in 1..n : x > RankReach /\ call.miss[x] = j
    BY <1>3, <1>8
  <2>2. x \notin ps
    BY <1>10, <2>1
  <2>3. x > first + R!Step
    <3>. DEFINE z == R!Step
    <3>1. z \in Nat /\ first \in Nat /\ x \in Nat /\ x <= n /\ x > first
      BY <1>2, <1>4, <2>1
    <3>2. ~(first + 1 <= x /\ x <= end)
      BY <1>5, <2>2, <3>1
    <3>. HIDE DEF z
    <3>3. end = first + z \/ end = n
      BY <1>5 DEF z
    <3>4. x > first + z
      BY <1>2, <3>1, <3>2, <3>3
    <3>. QED  BY <3>4 DEF z
  <2>. QED  BY <1>4, <2>1, <2>3
<1>14. Scored'
  BY <1>3, <1>6, <1>7, <1>11, <1>12, <1>13 DEF Scored, ScoreAt
<1>. QED  BY <1>1, <1>12, <1>14 DEF RerankInv, RerankShape, R!CacheIsRight, R!Key, R!RanksRight

LEMMA StepRankFails ==
  ASSUME RerankInv, R!RunFails \/ R!NoResult
  PROVE  RerankInv'
<1>1. /\ call' = [call EXCEPT !.at = "failed"] /\ UNCHANGED <<cfg, content>> /\ call \in RerankCalls
  BY RerankKinds DEF RerankInv, R!RunFails, R!NoResult, R!cacheVars
<1>2. call' \in RerankCalls /\ call'.at = "failed"
  BY <1>1 DEF RerankCalls
<1>. QED  BY <1>1, <1>2 DEF RerankInv, RerankShape, R!CacheIsRight, R!Key, Scored, R!RanksRight

LEMMA StepRankStore ==
  ASSUME RerankInv, R!StoreOne
  PROVE  RerankInv'
<1>. DEFINE h == Head(call.todo)
            k == R!Key(call.query, call.docs[h])
<1>1. /\ call \in RerankCalls /\ call.at = "run" /\ UNCHANGED cfg /\ call.todo # <<>>
      /\ call' = [call EXCEPT !.todo = Tail(call.todo)]
      /\ R!Overwrite(k, call.scores[h]) \/ R!Insert(k, call.scores[h]) \/ R!Dropped
  BY RerankKinds DEF RerankInv, R!StoreOne
<1>2. /\ call.todo \in Seq(Nat) /\ call.docs \in Seq(Documents) /\ call.query \in Queries
  BY <1>1 DEF RerankCalls
<1>3. /\ Len(call.todo) \in Nat /\ Len(call.todo) >= 1 /\ h = call.todo[1]
      /\ Tail(call.todo) \in Seq(Nat) /\ Len(Tail(call.todo)) = Len(call.todo) - 1
      /\ \A x \in 1..Len(Tail(call.todo)) : Tail(call.todo)[x] = call.todo[x + 1]
  BY <1>1, <1>2, HeadTailProperties
<1>4. \A x \in 1..Len(call.todo) :
         /\ call.todo[x] \in 1..Len(call.docs)
         /\ call.scores[call.todo[x]] = ScoreAt(call.todo[x])
  BY <1>1 DEF RerankInv, Scored
<1>. DEFINE rest == Tail(call.todo)
<1>. HIDE DEF h, rest
<1>5. h \in 1..Len(call.docs) /\ call.scores[h] = ScoreAt(h)
  BY <1>3, <1>4
<1>6. R!CacheIsRight'
  <2>1. call.docs[h] \in Documents
    BY <1>2, <1>5
  <2>. QED  BY <1>1, <1>2, <1>5, <2>1, RankPutKeeps DEF RerankInv, ScoreAt
<1>7. /\ call' \in RerankCalls /\ call'.at = "run" /\ call'.docs = call.docs
      /\ call'.query = call.query /\ call'.miss = call.miss /\ call'.scores = call.scores
      /\ call'.todo = rest /\ call'.next = call.next /\ call'.bs = call.bs
  BY <1>1, <1>3 DEF RerankCalls, rest
<1>8. RankReach' = RankReach
  BY <1>1, <1>7 DEF RankReach, R!Step
<1>9. \A x \in 1..Len(rest) :
         rest[x] \in 1..Len(call.docs) /\ call.scores[rest[x]] = ScoreAt(rest[x])
  <2>1. \A x \in 1..Len(rest) : x + 1 \in 1..Len(call.todo)
    BY <1>3 DEF rest
  <2>. QED  BY <1>3, <1>4, <2>1 DEF rest
<1>10. Scored'
  BY SMTT(20), <1>1, <1>7, <1>8, <1>9 DEF RerankInv, Scored, ScoreAt
<1>. QED  BY <1>1, <1>6, <1>7, <1>10 DEF RerankInv, RerankShape, R!RanksRight

LEMMA StepRankFinish ==
  ASSUME RerankInv, R!Finish
  PROVE  RerankInv'
<1>. DEFINE l == Len(call.docs)
<1>1. /\ call \in RerankCalls /\ call.at = "run" /\ call.next > R!Batches
      /\ UNCHANGED <<cfg, content>>
  BY RerankKinds DEF RerankInv, R!Finish, R!cacheVars
<1>2. /\ call.docs \in Seq(Documents) /\ l \in Nat /\ DOMAIN call.docs = 1..l
      /\ call.scores \in Seq(Nat) /\ Len(call.scores) = l
  BY <1>1 DEF RerankCalls, RerankInv, Scored
<1>3. \A j \in 1..l : call.scores[j] = ScoreAt(j) /\ call.scores[j] \in Nat
  <2>1. /\ Len(call.miss) \in Nat /\ RankReach \in Nat /\ Len(call.miss) <= RankReach
    BY <1>1, RankBatches
  <2>2. \A x \in 1..Len(call.miss) : ~(x > RankReach)
    BY <2>1
  <2>. QED  BY <1>1, <1>2, <2>2 DEF RerankInv, Scored
<1>4. PICK order \in [1..l -> 1..l] :
        /\ R!Sorted(order)
        /\ call' = [call EXCEPT !.at = "ranked", !.items =
             [r \in DOMAIN order |-> [index |-> order[r], score |-> call.scores[order[r]]]]]
  BY <1>2 DEF R!Finish
<1>. DEFINE items == [r \in 1..l |-> [index |-> order[r], score |-> call.scores[order[r]]]]
<1>5. /\ items \in Seq([index : Nat, score : Nat]) /\ Len(items) = l /\ DOMAIN items = 1..l
      /\ \A r \in 1..l : items[r].index = order[r] /\ items[r].score = ScoreAt(order[r])
  <2>1. \A r \in 1..l : order[r] \in 1..l /\ order[r] \in Nat /\ call.scores[order[r]] \in Nat
    BY <1>2, <1>3, <1>4
  <2>2. \A r \in 1..l : [index |-> order[r], score |-> call.scores[order[r]]] \in [index : Nat, score : Nat]
    BY <2>1
  <2>3. items \in Seq([index : Nat, score : Nat]) /\ Len(items) = l /\ DOMAIN items = 1..l
    BY <1>2, <2>2
  <2>4. \A r \in 1..l : items[r].index = order[r] /\ items[r].score = call.scores[order[r]]
    OBVIOUS
  <2>. QED  BY <1>3, <2>1, <2>3, <2>4
<1>6. call' = [call EXCEPT !.at = "ranked", !.items = items]
  BY <1>4
<1>. HIDE DEF items
<1>7. /\ call' \in RerankCalls /\ call'.at = "ranked" /\ call'.docs = call.docs
      /\ call'.query = call.query /\ call'.items = items
  BY <1>1, <1>5, <1>6 DEF RerankCalls
<1>8. {items[r].index : r \in DOMAIN items} = 1..l
  <2>1. \A i, j \in 1..l : order[i] = order[j] => i = j
    BY <1>4 DEF R!Sorted
  <2>2. \A m \in 1..l : \E p \in 1..l : order[p] = m
    BY <1>2, <1>4, <2>1, OrderIsOnto
  <2>. QED  BY <1>4, <1>5, <2>2
<1>9. \A r \in DOMAIN items : r > 1 => items[r - 1].score >= items[r].score
  <2>. SUFFICES ASSUME NEW r \in 1..l, r > 1 PROVE items[r - 1].score >= items[r].score
    BY <1>5
  <2>1. r - 1 \in 1..l /\ r - 1 < r
    BY <1>2
  <2>2. call.scores[order[r - 1]] >= call.scores[order[r]]
    BY <1>4, <2>1 DEF R!Sorted
  <2>3. order[r - 1] \in 1..l /\ order[r] \in 1..l
    BY <1>4, <2>1
  <2>. QED  BY <1>3, <1>5, <2>1, <2>2, <2>3
<1>10. R!RanksRight'
  <2>1. \A r \in 1..l : items[r].score = Score[<<call.query, call.docs[items[r].index]>>]
    BY <1>5 DEF ScoreAt
  <2>2. {call'.items[r].index : r \in DOMAIN call'.items} = DOMAIN call'.docs
    BY <1>2, <1>7, <1>8
  <2>3. Len(call'.items) = Len(call'.docs)
    BY <1>5, <1>7
  <2>4. \A r \in DOMAIN call'.items :
           /\ call'.items[r].score = Score[<<call'.query, call'.docs[call'.items[r].index]>>]
           /\ r > 1 => call'.items[r - 1].score >= call'.items[r].score
    BY <1>5, <1>7, <1>9, <2>1
  <2>. QED  BY <2>2, <2>3, <2>4 DEF R!RanksRight
<1>. QED  BY <1>1, <1>7, <1>10 DEF RerankInv, RerankShape, R!CacheIsRight, R!Key, Scored

LEMMA StepRerankInv == RerankInv /\ [R!RerankNext]_embedVars => RerankInv'
<1>. SUFFICES ASSUME RerankInv, [R!RerankNext]_embedVars PROVE RerankInv'
  OBVIOUS
<1>1. CASE UNCHANGED embedVars
  <2>1. UNCHANGED <<call, cfg, content>>
    BY <1>1 DEF embedVars
  <2>2. RerankShape' /\ R!CacheIsRight'
    BY <2>1 DEF RerankInv, RerankShape, R!CacheIsRight, R!Key
  <2>3. Scored'
    BY <2>1 DEF RerankInv, Scored, ScoreAt, RankReach, R!Step
  <2>4. R!RanksRight'
    BY <2>1 DEF RerankInv, R!RanksRight
  <2>. QED  BY <2>2, <2>3, <2>4 DEF RerankInv
<1>2. ASSUME NEW q \in Queries, NEW docs \in DocSeqs, NEW bs \in BatchSizes, R!Begin(q, docs, bs)
      PROVE  RerankInv'
  BY <1>2, StepRankBegin
<1>. QED
  BY <1>1, <1>2, StepRankLookup, StepRankLookupEnds, StepRankRun, StepRankFails, StepRankStore,
     StepRankFinish DEF R!RerankNext

LEMMA KindOfHandle ==
  /\ EmbedInv => Embedding
  /\ RerankInv => ~Embedding
  BY DEF Embedding, EmbedInv, Shape, RerankInv, RerankShape

LEMMA SpecHandleInv == HandleSpec => []HandleInv
<1>1. HandleInit => HandleInv
  BY InitEmbedInv, InitRerankInv, KindOfHandle DEF HandleInit, HandleInv
<1>2. HandleInv /\ [HandleNext]_embedVars => HandleInv'
  <2>. SUFFICES ASSUME HandleInv, [HandleNext]_embedVars PROVE HandleInv'
    OBVIOUS
  <2>1. CASE Embedding
    <3>1. EmbedInv /\ [EmbedNext]_embedVars
      BY <2>1 DEF HandleInv, HandleNext
    <3>2. EmbedInv'
      BY <3>1, StepEmbedInv
    <3>3. EmbedInv' => Embedding'
      BY DEF Embedding, EmbedInv, Shape
    <3>. QED  BY <3>2, <3>3 DEF HandleInv
  <2>2. CASE ~Embedding
    <3>1. RerankInv /\ [R!RerankNext]_embedVars
      BY <2>2 DEF HandleInv, HandleNext
    <3>2. RerankInv'
      BY <3>1, StepRerankInv
    <3>3. RerankInv' => ~Embedding'
      BY DEF Embedding, RerankInv, RerankShape
    <3>. QED  BY <3>2, <3>3 DEF HandleInv
  <2>. QED  BY <2>1, <2>2
<1>. QED  BY <1>1, <1>2, PTL DEF HandleSpec

(* lembed_reranker_rerank: a result names every document once, with its    *)
(* own score for this query, best first, whatever mixture of cached scores *)
(* and batches it was put together from.                                   *)
THEOREM RanksAreRight == HandleSpec => []RanksRight
<1>1. HandleInv => RanksRight
  BY DEF HandleInv, RerankInv, RanksRight
<1>. QED  BY <1>1, SpecHandleInv, PTL

(* What a handle's cache holds under a key is what its model computes for  *)
(* the text or pair of that key, after calls that failed half-way too; for *)
(* a reranker, on BorderAssumption: that no joined key stands for pairs of *)
(* different scores is supposed, the code does not see to it.              *)
THEOREM CachesAreRight == HandleSpec => []CachesRight
<1>1. HandleInv => CachesRight
  BY DEF HandleInv, EmbedInv, RerankInv, CachesRight
<1>. QED  BY <1>1, SpecHandleInv, PTL

-----------------------------------------------------------------------------
(* A repeated call is served.  Among the texts kept, those the call has    *)
(* used are younger than the others (UsedAreYoung), and `older' never      *)
(* holds both ways (OlderOneWay).  So while the oldest text is one of the  *)
(* call's own, all the texts kept are; the text being stored is yet        *)
(* another, and the distinct texts of the call fit the capacity: nothing   *)
(* has to make room.                                                       *)

Used == {call.texts[j] : j \in DOMAIN call.texts}
UsedSoFar == {call.texts[j] : j \in {x \in DOMAIN call.texts : call.at = "lookup" => x < call.i}}

OlderOneWay == \A x, y : <<x, y>> \in older => <<y, x>> \notin older

Fitting ==
    /\ call.at \in {"lookup", "run", "store", "count", "ok"}
    /\ cfg.cache /\ call.kept /\ Cardinality(Used) <= Capacity

UsedAreYoung ==
    Fitting => \A x \in DOMAIN content \ UsedSoFar, y \in DOMAIN content \cap UsedSoFar :
                  <<x, y>> \in older

UsedAreKept ==
    Fitting => \A j \in 1..Len(call.texts) :
        \/ call.texts[j] \in DOMAIN content
        \/ call.at = "lookup" /\ j >= call.i
        \/ /\ call.at \in {"lookup", "run", "store"}
           /\ MissesFrom(IF call.at = "store" THEN call.i ELSE 1, j)

ServedInv == EmbedInv /\ OlderOneWay /\ UsedAreYoung /\ UsedAreKept

LEMMA UsedNowIs ==
  ASSUME NEW rel, NEW kept, NEW k
  PROVE  \A x, y : <<x, y>> \in UsedNow(rel, kept, k) <=>
                      \/ <<x, y>> \in rel /\ x # k /\ y # k
                      \/ y = k /\ x \in kept /\ x # k
<1>. SUFFICES ASSUME NEW x, NEW y
              PROVE  <<x, y>> \in UsedNow(rel, kept, k) <=>
                        \/ <<x, y>> \in rel /\ x # k /\ y # k
                        \/ y = k /\ x \in kept /\ x # k
  OBVIOUS
<1>. QED  BY DEF UsedNow

LEMMA UseIsOneWay ==
  ASSUME NEW rel, \A x, y : <<x, y>> \in rel => <<y, x>> \notin rel, NEW kept, NEW k
  PROVE  \A x, y : <<x, y>> \in UsedNow(rel, kept, k) => <<y, x>> \notin UsedNow(rel, kept, k)
<1>1. \A x, y : <<x, y>> \in UsedNow(rel, kept, k) <=>
                   \/ <<x, y>> \in rel /\ x # k /\ y # k
                   \/ y = k /\ x \in kept /\ x # k
  BY Zenon, UsedNowIs
<1>. QED  BY Zenon, <1>1

LEMMA UsedIsFinite ==
  ASSUME Shape, Fitting
  PROVE  IsFiniteSet(Used) /\ Cardinality(Used) \in Nat
<1>1. call.texts \in Seq(Keys)
  BY CallKinds DEF Fitting, LookupCalls, RunCalls
<1>. DEFINE D == 1..Len(call.texts)
<1>2. DOMAIN call.texts = D /\ Len(call.texts) \in Nat
  BY <1>1
<1>3. call.texts \in Surjection(D, Used)
  <2>1. call.texts \in [D -> Used]
    BY <1>1, <1>2 DEF Used
  <2>2. \A u \in Used : \E j \in D : call.texts[j] = u
    BY <1>2 DEF Used
  <2>. QED  BY <2>1, <2>2 DEF Surjection
<1>4. IsFiniteSet(D)
  BY <1>2, FS_Interval
<1>5. IsFiniteSet(Used)
  BY <1>3, <1>4, FS_Surjection
<1>. QED  BY <1>5, FS_CardinalityType

(* Storing a text of the call never takes the room of another of them.     *)
LEMMA OldestIsNotUsed ==
  ASSUME ServedInv, Fitting, UsedSoFar = Used, NEW k \in Used, k \notin DOMAIN content,
         ~(Cardinality(DOMAIN content) < Capacity), NEW x, Oldest(x)
  PROVE  x \notin Used
<1>. SUFFICES ASSUME x \in Used PROVE FALSE
  OBVIOUS
<1>1. DOMAIN content \subseteq Used
  <2>. SUFFICES ASSUME NEW y \in DOMAIN content, y \notin Used PROVE FALSE
    OBVIOUS
  <2>1. <<y, x>> \in older
    BY DEF ServedInv, UsedAreYoung, Oldest
  <2>2. <<x, y>> \in older
    BY DEF Oldest
  <2>. QED  BY <2>1, <2>2 DEF ServedInv, OlderOneWay
<1>2. IsFiniteSet(Used) /\ Cardinality(Used) \in Nat /\ Cardinality(Used) <= Capacity
  BY UsedIsFinite DEF ServedInv, EmbedInv, Fitting
<1>. DEFINE C == DOMAIN content
<1>3. C \in SUBSET Used /\ C # Used
  BY <1>1
<1>. HIDE DEF C
<1>4. IsFiniteSet(C) /\ Cardinality(C) <= Cardinality(Used) /\ Cardinality(C) # Cardinality(Used)
  BY <1>2, <1>3, FS_Subset
<1>5. Cardinality(C) \in Nat
  BY <1>4, FS_CardinalityType
<1>6. Cardinality(C) < Capacity
  BY <1>2, <1>4, <1>5, CacheAssumption
<1>. QED  BY <1>6 DEF C

(* A put of a text of the call keeps the texts of the call, and adds it.   *)
LEMMA PutServes ==
  ASSUME ServedInv, Fitting, UsedSoFar = Used, NEW k \in Used, NEW v,
         Overwrite(k, v) \/ Insert(k, v)
  PROVE  /\ OlderOneWay'
         /\ k \in DOMAIN content'
         /\ \A u \in Used : u \in DOMAIN content => u \in DOMAIN content'
         /\ \A x \in DOMAIN content' \ Used, y \in DOMAIN content' \cap Used : <<x, y>> \in older'
<1>1. /\ \A x, y : <<x, y>> \in older => <<y, x>> \notin older
      /\ \A x \in DOMAIN content \ Used, y \in DOMAIN content \cap Used : <<x, y>> \in older
  BY DEF ServedInv, OlderOneWay, UsedAreYoung
<1>2. CASE Overwrite(k, v)
  <2>1. DOMAIN content' = DOMAIN content /\ k \in DOMAIN content
        /\ older' = UsedNow(older, DOMAIN content, k)
    BY <1>2 DEF Overwrite
  <2>2. OlderOneWay'
    BY <1>1, <2>1, UseIsOneWay DEF OlderOneWay
  <2>3. \A x, y : <<x, y>> \in older' <=> \/ <<x, y>> \in older /\ x # k /\ y # k
                                          \/ y = k /\ x \in DOMAIN content /\ x # k
    <3>1. \A x, y : <<x, y>> \in UsedNow(older, DOMAIN content, k) <=>
                       \/ <<x, y>> \in older /\ x # k /\ y # k
                       \/ y = k /\ x \in DOMAIN content /\ x # k
      BY Zenon, UsedNowIs
    <3>. QED  BY <2>1, <3>1
  <2>. QED  BY <1>1, <2>1, <2>2, <2>3
<1>3. CASE Insert(k, v)
  <2>1. PICK gone \in SUBSET DOMAIN content :
          /\ IF Cardinality(DOMAIN content) < Capacity
             THEN gone = {}
             ELSE \E x \in DOMAIN content : Oldest(x) /\ gone = {x}
          /\ DOMAIN content' = (DOMAIN content \ gone) \cup {k}
          /\ older' = UsedNow({p \in older : {p[1], p[2]} \cap gone = {}}, DOMAIN content \ gone, k)
    BY <1>3 DEF Insert
  <2>. DEFINE rel == {p \in older : {p[1], p[2]} \cap gone = {}}
              kept == DOMAIN content \ gone
  <2>2. k \notin DOMAIN content
    BY <1>3 DEF Insert
  <2>3. gone \cap Used = {}
    <3>1. CASE Cardinality(DOMAIN content) < Capacity
      BY <2>1, <3>1
    <3>2. CASE ~(Cardinality(DOMAIN content) < Capacity)
      BY <2>1, <2>2, <3>2, OldestIsNotUsed
    <3>. QED  BY <3>1, <3>2
  <2>4. \A x, y : <<x, y>> \in rel <=> <<x, y>> \in older /\ x \notin gone /\ y \notin gone
    OBVIOUS
  <2>5. older' = UsedNow(rel, kept, k) /\ DOMAIN content' = kept \cup {k}
    BY <2>1
  <2>. HIDE DEF rel
  <2>6. OlderOneWay'
    <3>1. \A x, y : <<x, y>> \in rel => <<y, x>> \notin rel
      BY <1>1, <2>4
    <3>. QED  BY <2>5, <3>1, UseIsOneWay DEF OlderOneWay
  <2>7. \A x, y : <<x, y>> \in older' <=> \/ <<x, y>> \in rel /\ x # k /\ y # k
                                          \/ y = k /\ x \in kept /\ x # k
    <3>. HIDE DEF kept
    <3>1. \A x, y : <<x, y>> \in UsedNow(rel, kept, k) <=>
                       \/ <<x, y>> \in rel /\ x # k /\ y # k
                       \/ y = k /\ x \in kept /\ x # k
      BY Zenon, UsedNowIs
    <3>. QED  BY <2>5, <3>1
  <2>8. \A u \in Used : u \in DOMAIN content => u \in DOMAIN content'
    BY <2>3, <2>5
  <2>9. ASSUME NEW x \in DOMAIN content' \ Used, NEW y \in DOMAIN content' \cap Used
        PROVE  <<x, y>> \in older'
    <3>1. x \in kept /\ x # k
      BY <2>5, <2>9
    <3>2. CASE y = k
      BY <2>7, <3>1, <3>2
    <3>3. CASE y # k
      <4>1. y \in kept
        BY <2>5, <2>9, <3>3
      <4>2. <<x, y>> \in rel
        BY <1>1, <2>4, <2>9, <3>1, <4>1
      <4>. QED  BY <2>7, <3>1, <3>3, <4>2
    <3>. QED  BY <3>2, <3>3
  <2>. QED  BY <2>5, <2>6, <2>8, <2>9
<1>. QED  BY <1>2, <1>3

LEMMA PutIsOneWay ==
  ASSUME OlderOneWay, NEW k, NEW v, Overwrite(k, v) \/ Insert(k, v)
  PROVE  OlderOneWay'
<1>1. CASE Overwrite(k, v)
  BY <1>1, UseIsOneWay DEF OlderOneWay, Overwrite
<1>2. CASE Insert(k, v)
  <2>1. PICK gone \in SUBSET DOMAIN content :
           older' = UsedNow({p \in older : {p[1], p[2]} \cap gone = {}}, DOMAIN content \ gone, k)
    BY <1>2 DEF Insert
  <2>. DEFINE rel == {p \in older : {p[1], p[2]} \cap gone = {}}
  <2>2. \A x, y : <<x, y>> \in rel => <<y, x>> \notin rel
    BY DEF OlderOneWay
  <2>. HIDE DEF rel
  <2>3. older' = UsedNow(rel, DOMAIN content \ gone, k)
    BY <2>1 DEF rel
  <2>. QED  BY <2>2, <2>3, UseIsOneWay DEF OlderOneWay
<1>. QED  BY <1>1, <1>2

LEMMA ServedBegin ==
  ASSUME ServedInv, EmbedInv', NEW texts \in TextSeqs, NEW bs \in BatchSizes, Begin(texts, bs)
  PROVE  ServedInv'
<1>1. texts \in Seq(Keys) /\ DOMAIN texts = 1..Len(texts)
  BY CallAssumption
<1>2. /\ call'.at = "lookup" /\ call'.texts = texts /\ call'.i = 1 /\ UNCHANGED <<content, older>>
  BY DEF Begin, cacheVars
<1>3. \A j \in 1..Len(texts) : ~(j < 1) /\ j >= 1
  BY <1>1
<1>4. UsedSoFar' = {}
  BY <1>1, <1>2, <1>3 DEF UsedSoFar
<1>. QED  BY <1>1, <1>2, <1>3, <1>4 DEF ServedInv, OlderOneWay, UsedAreYoung, UsedAreKept

LEMMA ServedLookup ==
  ASSUME ServedInv, EmbedInv', LookupOne
  PROVE  ServedInv'
<1>. DEFINE k == call.texts[call.i]
<1>1. /\ call \in LookupCalls /\ call.at = "lookup" /\ call.i \in 1..Len(call.texts)
      /\ call.i \in Nat /\ UNCHANGED cfg /\ cfg.cache
      /\ call.texts \in Seq(Keys) /\ DOMAIN call.texts = 1..Len(call.texts)
      /\ call.miss \in Seq(Nat)
  BY CallKinds DEF ServedInv, EmbedInv, LookupOne, LookupCalls
<1>2. /\ call'.at = "lookup" /\ call'.i = call.i + 1 /\ call'.texts = call.texts
      /\ call'.kept = call.kept
  BY <1>1 DEF LookupOne, LookupCalls
<1>3. UsedSoFar' = UsedSoFar \cup {k}
  <2>1. \A x \in 1..Len(call.texts) : x < call.i + 1 <=> x < call.i \/ x = call.i
    BY <1>1
  <2>. QED  BY <1>1, <1>2, <2>1 DEF UsedSoFar
<1>4. Fitting' => Fitting
  BY <1>1, <1>2 DEF Fitting, Used
<1>5. DOMAIN content' = DOMAIN content
  BY CacheAssumption DEF LookupOne, Hit, Absent, Fresh, Only
<1>6. \A j \in 1..Len(call.texts) : j >= call.i => j >= call.i + 1 \/ j = call.i
  BY <1>1
<1>7. CASE Hit(k) /\ call' = [call EXCEPT !.i = @ + 1, !.data[call.i] = content[k].val]
  <2>1. k \in DOMAIN content /\ older' = UsedNow(older, DOMAIN content, k) /\ call'.miss = call.miss
    BY <1>1, <1>7 DEF Hit, Fresh, LookupCalls
  <2>2. OlderOneWay'
    BY <2>1, UseIsOneWay DEF ServedInv, OlderOneWay
  <2>3. \A x, y : <<x, y>> \in older' <=> \/ <<x, y>> \in older /\ x # k /\ y # k
                                          \/ y = k /\ x \in DOMAIN content /\ x # k
    <3>. HIDE DEF k
    <3>1. \A x, y : <<x, y>> \in UsedNow(older, DOMAIN content, k) <=>
                       \/ <<x, y>> \in older /\ x # k /\ y # k
                       \/ y = k /\ x \in DOMAIN content /\ x # k
      BY Zenon, UsedNowIs
    <3>. QED  BY <2>1, <3>1
  <2>. HIDE DEF k
  <2>4. UsedAreYoung'
    BY <1>3, <1>4, <1>5, <2>3 DEF ServedInv, UsedAreYoung
  <2>5. UsedAreKept'
    BY <1>1, <1>2, <1>4, <1>5, <1>6, <2>1 DEF ServedInv, UsedAreKept, MissesFrom, k
  <2>. QED  BY <2>2, <2>4, <2>5 DEF ServedInv
<1>8. CASE Absent(k) /\ call' = [call EXCEPT !.i = @ + 1, !.miss = Append(@, call.i)]
  <2>1. k \notin DOMAIN content /\ older' = Without(older, k)
    BY <1>8, CacheAssumption DEF Absent, Fresh
  <2>2. \A x, y : <<x, y>> \in older' <=> <<x, y>> \in older /\ x # k /\ y # k
    BY <2>1 DEF Without
  <2>3. OlderOneWay'
    BY <2>2 DEF ServedInv, OlderOneWay
  <2>4. UsedAreYoung'
    <3>. HIDE DEF k
    <3>. QED  BY <1>3, <1>4, <1>5, <2>1, <2>2 DEF ServedInv, UsedAreYoung
  <2>. DEFINE m == Append(call.miss, call.i)
  <2>5. /\ Len(call.miss) \in Nat /\ Len(m) = Len(call.miss) + 1 /\ m[Len(m)] = call.i
        /\ \A x \in 1..Len(call.miss) : m[x] = call.miss[x]
    BY <1>1
  <2>6. call'.miss = m
    BY <1>1, <1>8 DEF LookupCalls
  <2>. HIDE DEF m, k
  <2>7. Len(m) \in 1..Len(m) /\ \A x \in 1..Len(call.miss) : x \in 1..Len(m)
    BY <2>5, OneMore
  <2>8. \A j \in 1..Len(call.texts) : MissesFrom(1, j) \/ j = call.i => \E x \in 1..Len(m) : m[x] = j
    BY <2>5, <2>7 DEF MissesFrom
  <2>9. UsedAreKept'
    BY <1>1, <1>2, <1>4, <1>5, <1>6, <2>6, <2>8 DEF ServedInv, UsedAreKept, MissesFrom
  <2>. QED  BY <2>3, <2>4, <2>9 DEF ServedInv
<1>. QED  BY <1>7, <1>8 DEF LookupOne

LEMMA ServedPlan ==
  ASSUME ServedInv, EmbedInv', Plan
  PROVE  ServedInv'
<1>1. /\ call \in LookupCalls /\ call.at = "lookup" /\ UNCHANGED <<content, older, cfg>>
      /\ call.texts \in Seq(Keys) /\ DOMAIN call.texts = 1..Len(call.texts) /\ call.i \in Nat
      /\ cfg.cache => call.i > Len(call.texts)
  BY CallKinds DEF ServedInv, EmbedInv, Plan, LookupCalls, cacheVars
<1>2. /\ call'.at = "run" /\ call'.texts = call.texts /\ call'.kept = call.kept
      /\ cfg.cache => call'.miss = call.miss
  BY DEF Plan
<1>3. Fitting' => Fitting
  BY <1>1, <1>2 DEF Fitting, Used
<1>4. cfg.cache => \A j \in 1..Len(call.texts) : j < call.i /\ ~(j >= call.i)
  BY <1>1
<1>5. Fitting' => UsedSoFar' = UsedSoFar
  BY <1>1, <1>2, <1>4 DEF UsedSoFar, Fitting
<1>6. UsedAreYoung'
  BY <1>1, <1>3, <1>5 DEF ServedInv, UsedAreYoung
<1>7. UsedAreKept'
  <2>. SUFFICES ASSUME Fitting' PROVE UsedAreKept'
    BY DEF UsedAreKept
  <2>1. Fitting /\ cfg.cache
    BY <1>1, <1>3 DEF Fitting
  <2>2. \A j \in 1..Len(call.texts) : call.texts[j] \in DOMAIN content \/ MissesFrom(1, j)
    BY <1>1, <1>4, <2>1 DEF ServedInv, UsedAreKept
  <2>. QED  BY <1>1, <1>2, <2>1, <2>2 DEF UsedAreKept, MissesFrom
<1>. QED  BY <1>1, <1>6, <1>7 DEF ServedInv, OlderOneWay

LEMMA ServedRun ==
  ASSUME ServedInv, EmbedInv', RunBatch \/ RunEnds
  PROVE  ServedInv'
<1>1. /\ call \in RunCalls /\ call.at = "run" /\ UNCHANGED <<content, older, cfg>>
  BY CallKinds DEF ServedInv, EmbedInv, RunBatch, RunEnds, cacheVars
<1>2. /\ call'.texts = call.texts /\ call'.kept = call.kept /\ call'.miss = call.miss
      /\ \/ call'.at = "run"
         \/ call'.at = "store" /\ call'.i = 1
         \/ call'.at = "count" /\ ~cfg.cache
  BY <1>1 DEF RunBatch, RunEnds, RunCalls
<1>3. Fitting' => Fitting
  BY <1>1, <1>2 DEF Fitting, Used
<1>4. UsedSoFar' = UsedSoFar
  BY <1>1, <1>2 DEF UsedSoFar
<1>5. UsedAreYoung'
  BY <1>1, <1>3, <1>4 DEF ServedInv, UsedAreYoung
<1>6. UsedAreKept'
  <2>. SUFFICES ASSUME Fitting' PROVE UsedAreKept'
    BY DEF UsedAreKept
  <2>1. Fitting /\ cfg.cache
    BY <1>1, <1>3 DEF Fitting
  <2>2. \A j \in 1..Len(call.texts) : call.texts[j] \in DOMAIN content \/ MissesFrom(1, j)
    BY <1>1, <2>1 DEF ServedInv, UsedAreKept
  <2>. QED  BY <1>1, <1>2, <2>1, <2>2 DEF UsedAreKept, MissesFrom
<1>. QED  BY <1>1, <1>5, <1>6 DEF ServedInv, OlderOneWay

LEMMA ServedStore ==
  ASSUME ServedInv, EmbedInv', StoreOne
  PROVE  ServedInv'
<1>. DEFINE where == call.miss[call.i]
            k == call.texts[where]
            v == call.buf[call.i]
<1>1. /\ call \in RunCalls /\ call.at = "store" /\ UNCHANGED cfg /\ call.i \in 1..Len(call.miss)
      /\ call.texts \in Seq(Keys) /\ DOMAIN call.texts = 1..Len(call.texts)
  BY CallKinds DEF ServedInv, EmbedInv, StoreOne, RunCalls
<1>2. where \in 1..Len(call.texts)
  BY <1>1 DEF ServedInv, EmbedInv, LookedUp
<1>3. /\ call'.at = "store" /\ call'.i = call.i + 1 /\ call'.texts = call.texts
      /\ call'.miss = call.miss /\ (call'.kept => call.kept)
  BY <1>1 DEF StoreOne, RunCalls
<1>4. k \in Used /\ UsedSoFar = Used /\ UsedSoFar' = Used
  BY <1>1, <1>2, <1>3 DEF Used, UsedSoFar
<1>5. CASE Overwrite(k, v) \/ Insert(k, v)
  <2>1. CASE ~Fitting
    <3>1. ~Fitting'
      BY <1>1, <1>3, <2>1 DEF Fitting, Used
    <3>2. OlderOneWay'
      BY <1>5, PutIsOneWay DEF ServedInv
    <3>. QED  BY <3>1, <3>2 DEF ServedInv, UsedAreYoung, UsedAreKept
  <2>2. CASE Fitting
    <3>. HIDE DEF k, v, where
    <3>1. /\ OlderOneWay' /\ k \in DOMAIN content'
          /\ \A u \in Used : u \in DOMAIN content => u \in DOMAIN content'
          /\ \A x \in DOMAIN content' \ Used, y \in DOMAIN content' \cap Used : <<x, y>> \in older'
      BY <1>4, <1>5, <2>2, PutServes
    <3>2. UsedAreYoung'
      BY <1>4, <3>1 DEF UsedAreYoung
    <3>3. \A x \in call.i..Len(call.miss) : x = call.i \/ x \in (call.i + 1)..Len(call.miss)
      BY <1>1
    <3>4. \A j \in 1..Len(call.texts) :
             \/ call.texts[j] \in DOMAIN content'
             \/ \E x \in (call.i + 1)..Len(call.miss) : call.miss[x] = j
      <4>. SUFFICES ASSUME NEW j \in 1..Len(call.texts)
                    PROVE  \/ call.texts[j] \in DOMAIN content'
                           \/ \E x \in (call.i + 1)..Len(call.miss) : call.miss[x] = j
        OBVIOUS
      <4>1. call.texts[j] \in Used
        BY <1>1 DEF Used
      <4>2. CASE call.texts[j] \in DOMAIN content
        BY <3>1, <4>1, <4>2
      <4>3. CASE \E x \in call.i..Len(call.miss) : call.miss[x] = j
        BY <3>1, <3>3, <4>3 DEF k, where
      <4>. QED  BY <1>1, <2>2, <4>2, <4>3 DEF ServedInv, UsedAreKept, MissesFrom
    <3>5. UsedAreKept'
      BY <1>3, <3>4 DEF UsedAreKept, MissesFrom
    <3>. QED  BY <3>1, <3>2, <3>5 DEF ServedInv
  <2>. QED  BY <2>1, <2>2
<1>6. CASE /\ Dropped
           /\ call' = [call EXCEPT !.i = @ + 1, !.data[where] = v, !.kept = FALSE]
  <2>1. ~call'.kept /\ UNCHANGED older
    BY <1>1, <1>6 DEF Dropped, RunCalls
  <2>. QED  BY <2>1 DEF ServedInv, Fitting, UsedAreYoung, UsedAreKept, OlderOneWay
<1>. QED  BY <1>5, <1>6 DEF StoreOne

LEMMA ServedEnds ==
  ASSUME ServedInv, EmbedInv', StoreEnds \/ Count
  PROVE  ServedInv'
<1>1. /\ call \in RunCalls /\ call.at \in {"store", "count"} /\ UNCHANGED <<content, older, cfg>>
      /\ call.i \in Nat /\ Len(call.miss) \in Nat
      /\ call.at = "store" => call.i > Len(call.miss)
  BY CallKinds DEF ServedInv, EmbedInv, StoreEnds, Count, cacheVars, RunCalls
<1>2. /\ call'.texts = call.texts /\ call'.kept = call.kept /\ call'.at \in {"count", "ok"}
  BY <1>1 DEF StoreEnds, Count, RunCalls
<1>3. Fitting' => Fitting
  BY <1>1, <1>2 DEF Fitting, Used
<1>4. UsedSoFar' = UsedSoFar
  BY <1>1, <1>2 DEF UsedSoFar
<1>5. UsedAreYoung'
  BY <1>1, <1>3, <1>4 DEF ServedInv, UsedAreYoung
<1>6. call.at = "store" => \A x \in call.i..Len(call.miss) : FALSE
  BY <1>1
<1>7. UsedAreKept'
  BY <1>1, <1>2, <1>3, <1>6 DEF ServedInv, UsedAreKept, MissesFrom
<1>. QED  BY <1>1, <1>5, <1>7 DEF ServedInv, OlderOneWay

(* A call that failed, and a stream, promise nothing of the cache.         *)
LEMMA ServedOthers ==
  ASSUME ServedInv, EmbedInv',
         \/ RunFails \/ StreamBatch \/ StreamFails \/ StreamEnds
         \/ \E texts \in TextSeqs, bs \in BatchSizes : BeginStream(texts, bs)
  PROVE  ServedInv'
<1>1. UNCHANGED older
  BY DEF RunFails, StreamBatch, StreamFails, StreamEnds, BeginStream, cacheVars
<1>2. call'.at \in {"failed", "stream", "streamed"}
  <2>1. CASE RunFails \/ StreamFails \/ StreamBatch \/ StreamEnds
    <3>1. call \in RunCalls \cup StreamCalls
      BY <2>1, CallKinds DEF ServedInv, EmbedInv, RunFails, StreamBatch, StreamFails, StreamEnds
    <3>2. \/ call' = [call EXCEPT !.at = "failed"]
          \/ call' = [call EXCEPT !.at = "streamed"]
          \/ call.at = "stream" /\ StreamBatch
      BY <2>1 DEF RunFails, StreamBatch, StreamFails, StreamEnds
    <3>. QED  BY <3>1, <3>2 DEF RunCalls, StreamCalls, StreamBatch
  <2>2. CASE \E texts \in TextSeqs, bs \in BatchSizes : BeginStream(texts, bs)
    BY <2>2 DEF BeginStream
  <2>. QED  BY <2>1, <2>2
<1>. QED  BY <1>1, <1>2 DEF ServedInv, OlderOneWay, UsedAreYoung, UsedAreKept, Fitting

LEMMA SpecServedInv == EmbedSpec => []ServedInv
<1>1. EmbedInit => ServedInv
  BY InitEmbedInv DEF EmbedInit, Init, Idle, ServedInv, OlderOneWay, UsedAreYoung, UsedAreKept, Fitting
<1>2. ServedInv /\ [EmbedNext]_embedVars => ServedInv'
  <2>. SUFFICES ASSUME ServedInv, [EmbedNext]_embedVars PROVE ServedInv'
    OBVIOUS
  <2>1. EmbedInv'
    BY StepEmbedInv DEF ServedInv
  <2>2. CASE UNCHANGED embedVars
    <3>1. UNCHANGED <<content, older, cfg, call>>
      BY <2>2 DEF embedVars
    <3>. QED  BY <2>1, <3>1 DEF ServedInv, OlderOneWay, UsedAreYoung, UsedAreKept, Fitting, Used,
                                UsedSoFar, MissesFrom
  <2>3. ASSUME NEW texts \in TextSeqs, NEW bs \in BatchSizes,
               Begin(texts, bs) \/ BeginStream(texts, bs)
        PROVE  ServedInv'
    BY <2>1, <2>3, ServedBegin, ServedOthers
  <2>. QED  BY <2>1, <2>2, <2>3, ServedLookup, ServedPlan, ServedRun, ServedStore, ServedEnds,
               ServedOthers DEF EmbedNext
<1>. QED  BY <1>1, <1>2, PTL DEF EmbedSpec

(* After a successful call whose distinct texts fit the capacity, all of   *)
(* them are cached, so the same call again runs no model: no put evicted a *)
(* text that the call had found or stored.                                 *)
THEOREM RepeatsAreServed == EmbedSpec => []RepeatIsServed
<1>1. ServedInv => RepeatIsServed
  <2>. SUFFICES ASSUME ServedInv, call.at = "ok", cfg.cache, call.kept, Cardinality(Used) <= Capacity
                PROVE  Used \subseteq DOMAIN content
    BY DEF RepeatIsServed, Used
  <2>1. call.texts \in Seq(Keys) /\ DOMAIN call.texts = 1..Len(call.texts)
    BY CallKinds DEF ServedInv, EmbedInv, RunCalls
  <2>. QED  BY <2>1 DEF ServedInv, UsedAreKept, Fitting, Used
<1>. QED  BY <1>1, SpecServedInv, PTL
=============================================================================
