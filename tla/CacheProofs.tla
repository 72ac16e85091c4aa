---------------------------- MODULE CacheProofs -----------------------------
(***************************************************************************)
(* Proofs about the cache, for every set of texts, vectors and addresses,  *)
(* every capacity and every time to live: LRUCache on its own, its         *)
(* refinement of CachePromise, and the threads of CacheClients that share  *)
(* it, of which there may be any number.                                   *)
(***************************************************************************)
EXTENDS CacheClients, TLAPS, FiniteSetTheorems

(* splice to the front reorders the list: the same texts, still distinct.  *)
LEMMA SpliceFacts ==
    ASSUME NEW K, NEW s \in Seq(K), NEW i \in DOMAIN s, Distinct(s)
    PROVE  /\ SpliceToFront(s, i) \in Seq(K)
           /\ Distinct(SpliceToFront(s, i))
           /\ Elems(SpliceToFront(s, i)) = Elems(s)
<1> DEFINE r == SpliceToFront(s, i)
<1>1. Len(s) \in Nat /\ DOMAIN s = 1..Len(s) /\ i \in 1..Len(s)
  OBVIOUS
<1>2. DOMAIN r = 1..Len(s)
  BY DEF SpliceToFront
<1>3. \A j \in 1..Len(s) : r[j] = IF j = 1 THEN s[i] ELSE IF j <= i THEN s[j-1] ELSE s[j]
  BY DEF SpliceToFront
<1>4. r \in Seq(K)
  <2>1. \A j \in 1..Len(s) : r[j] \in K
    BY <1>1, <1>3
  <2>. QED
    BY <1>1, <1>2, <2>1 DEF SpliceToFront
<1>5. Distinct(r)
  BY <1>1, <1>2, <1>3 DEF Distinct
<1>6. Elems(r) = Elems(s)
  <2>1. \A j \in 1..Len(s) : \E m \in 1..Len(s) : r[j] = s[m]
    BY <1>1, <1>3
  <2>2. ASSUME NEW m \in 1..Len(s) PROVE \E j \in 1..Len(s) : r[j] = s[m]
    <3>1. CASE m = i
      BY <3>1, <1>1, <1>3
    <3>2. CASE m < i
      <4>1. m + 1 \in 1..Len(s) /\ m + 1 # 1 /\ m + 1 <= i /\ (m + 1) - 1 = m
        BY <3>2, <1>1
      <4>. QED  BY <4>1, <1>3
    <3>3. CASE m > i
      <4>1. m # 1 /\ ~(m <= i)
        BY <3>3, <1>1
      <4>. QED  BY <4>1, <1>3
    <3>. QED  BY <3>1, <3>2, <3>3, <1>1
  <2>3. \A x : x \in Elems(s) <=> \E m \in 1..Len(s) : x = s[m]
    BY <1>1 DEF Elems
  <2>4. \A x : x \in Elems(r) <=> \E j \in 1..Len(s) : x = r[j]
    BY <1>2 DEF Elems
  <2>5. ASSUME NEW x PROVE x \in Elems(r) <=> x \in Elems(s)
    <3>1. ASSUME x \in Elems(r) PROVE x \in Elems(s)
      <4>. PICK j \in 1..Len(s) : x = r[j]
        BY <3>1, <2>4
      <4>. QED  BY <2>1, <2>3
    <3>2. ASSUME x \in Elems(s) PROVE x \in Elems(r)
      <4>. PICK m \in 1..Len(s) : x = s[m]
        BY <3>2, <2>3
      <4>. QED  BY <2>2, <2>4
    <3>. QED  BY <3>1, <3>2
  <2>. QED
    BY <2>5
<1>. QED
  BY <1>4, <1>5, <1>6

(* erase takes one text off the list and keeps the others distinct.        *)
LEMMA EraseFacts ==
    ASSUME NEW K, NEW s \in Seq(K), NEW i \in DOMAIN s, Distinct(s)
    PROVE  /\ Erase(s, i) \in Seq(K)
           /\ Distinct(Erase(s, i))
           /\ Elems(Erase(s, i)) = Elems(s) \ {s[i]}
<1> DEFINE r == Erase(s, i)
<1>1. Len(s) \in Nat /\ DOMAIN s = 1..Len(s) /\ i \in 1..Len(s) /\ Len(s) - 1 \in Nat
  OBVIOUS
<1>2. DOMAIN r = 1..(Len(s) - 1)
  BY DEF Erase
<1>3. \A j \in 1..(Len(s) - 1) : r[j] = IF j < i THEN s[j] ELSE s[j+1]
  BY DEF Erase
<1>4. r \in Seq(K)
  <2>1. \A j \in 1..(Len(s) - 1) : r[j] \in K
    BY <1>1, <1>3
  <2>. QED
    BY <1>1, <1>2, <2>1 DEF Erase
<1>5. Distinct(r)
  <2>. SUFFICES ASSUME NEW x \in 1..(Len(s) - 1), NEW y \in 1..(Len(s) - 1), r[x] = r[y]
                PROVE  x = y
    BY <1>2 DEF Distinct
  <2>. DEFINE At(j) == IF j < i THEN j ELSE j + 1
  <2>1. At(x) \in 1..Len(s) /\ At(y) \in 1..Len(s)
    BY <1>1
  <2>2. s[At(x)] = s[At(y)]
    BY <1>3
  <2>3. At(x) = At(y)
    BY <2>1, <2>2, <1>1 DEF Distinct
  <2>. QED  BY <2>3, <1>1
<1>6. Elems(r) = Elems(s) \ {s[i]}
  <2>1. \A j \in 1..(Len(s) - 1) : \E m \in 1..Len(s) : m # i /\ r[j] = s[m]
    BY <1>1, <1>3
  <2>2. ASSUME NEW m \in 1..Len(s), m # i PROVE \E j \in 1..(Len(s) - 1) : r[j] = s[m]
    <3>1. CASE m < i
      <4>1. m \in 1..(Len(s) - 1)
        BY <3>1, <1>1
      <4>. QED  BY <4>1, <3>1, <1>3
    <3>2. CASE m > i
      <4>1. m - 1 \in 1..(Len(s) - 1) /\ ~(m - 1 < i) /\ (m - 1) + 1 = m
        BY <3>2, <1>1
      <4>. QED  BY <4>1, <1>3
    <3>. QED  BY <3>1, <3>2, <2>2, <1>1
  <2>3. \A m \in 1..Len(s) : m # i => s[m] # s[i]
    BY <1>1 DEF Distinct
  <2>4. \A x : x \in Elems(s) <=> \E m \in 1..Len(s) : x = s[m]
    BY <1>1 DEF Elems
  <2>5. \A x : x \in Elems(r) <=> \E j \in 1..(Len(s) - 1) : x = r[j]
    BY <1>2 DEF Elems
  <2>6. ASSUME NEW x \in Elems(r) PROVE x \in Elems(s) /\ x # s[i]
    <3>1. PICK j \in 1..(Len(s) - 1) : x = r[j]
      BY <2>5
    <3>2. PICK m \in 1..Len(s) : m # i /\ r[j] = s[m]
      BY <2>1
    <3>. QED  BY <3>1, <3>2, <2>3, <2>4
  <2>7. ASSUME NEW x \in Elems(s), x # s[i] PROVE x \in Elems(r)
    <3>1. PICK m \in 1..Len(s) : x = s[m]
      BY <2>4
    <3>2. m # i
      BY <3>1, <2>7
    <3>. QED  BY <3>1, <3>2, <2>2, <2>5
  <2>. QED
    BY <2>6, <2>7
<1>. QED
  BY <1>4, <1>5, <1>6

(* push_front of a text that is not on the list adds exactly that text.    *)
LEMMA PushFacts ==
    ASSUME NEW K, NEW s \in Seq(K), NEW k \in K, Distinct(s), k \notin Elems(s)
    PROVE  /\ PushFront(s, k) \in Seq(K)
           /\ Distinct(PushFront(s, k))
           /\ Elems(PushFront(s, k)) = Elems(s) \cup {k}
<1> DEFINE r == PushFront(s, k)
<1>1. Len(s) \in Nat /\ DOMAIN s = 1..Len(s) /\ Len(s) + 1 \in Nat
  OBVIOUS
<1>2. DOMAIN r = 1..(Len(s) + 1)
  BY DEF PushFront
<1>3. \A j \in 1..(Len(s) + 1) : r[j] = IF j = 1 THEN k ELSE s[j-1]
  BY DEF PushFront
<1>4. r \in Seq(K)
  <2>1. \A j \in 1..(Len(s) + 1) : r[j] \in K
    BY <1>1, <1>3
  <2>. QED
    BY <1>1, <1>2, <2>1 DEF PushFront
<1>5. Distinct(r)
  <2>1. \A m \in 1..Len(s) : s[m] # k
    BY <1>1 DEF Elems
  <2>. QED
    BY <2>1, <1>1, <1>2, <1>3 DEF Distinct
<1>6. Elems(r) = Elems(s) \cup {k}
  <2>1. \A j \in 1..(Len(s) + 1) : r[j] = k \/ \E m \in 1..Len(s) : r[j] = s[m]
    BY <1>1, <1>3
  <2>2. ASSUME NEW m \in 1..Len(s) PROVE \E j \in 1..(Len(s) + 1) : r[j] = s[m]
    <3>1. m + 1 \in 1..(Len(s) + 1) /\ m + 1 # 1 /\ (m + 1) - 1 = m
      BY <1>1
    <3>. QED  BY <3>1, <1>3
  <2>3. 1 \in 1..(Len(s) + 1) /\ r[1] = k
    BY <1>1, <1>3
  <2>4. \A x : x \in Elems(s) <=> \E m \in 1..Len(s) : x = s[m]
    BY <1>1 DEF Elems
  <2>5. \A x : x \in Elems(r) <=> \E j \in 1..(Len(s) + 1) : x = r[j]
    BY <1>2 DEF Elems
  <2>6. \A x : x \in Elems(r) <=> x \in Elems(s) \/ x = k
    BY <2>1, <2>2, <2>3, <2>4, <2>5
  <2>. QED
    BY <2>6
<1>. QED
  BY <1>4, <1>5, <1>6

-----------------------------------------------------------------------------
(* The inductive invariant.  Ownership needs the list and the map to agree *)
(* (eviction frees the buffer of the text at the back of the list), and    *)
(* the bound needs the map to be finite.                                   *)
Shape ==
    /\ DOMAIN map_ \subseteq Keys
    /\ map_ \in [DOMAIN map_ -> Entry]
    /\ list_ \in Seq(Keys)
    /\ heap \in [Bufs -> Vecs \cup {Free}]
    /\ now \in Nat

Core ==
    /\ Shape
    /\ ListMatchesMap
    /\ OwnedBuffers
    /\ DimsAgree
    /\ IsFiniteSet(DOMAIN map_)
    /\ WithinCapacity

IInv == Core /\ ret \in Answers

(* The position of a cached text exists. *)
LEMMA ItFacts ==
    ASSUME Core, NEW k \in DOMAIN map_
    PROVE  It(k) \in DOMAIN list_ /\ list_[It(k)] = k
<1>1. \E i \in DOMAIN list_ : list_[i] = k
  BY DEF Core, ListMatchesMap, Elems
<1>. QED
  BY <1>1 DEF It

(* A buffer under a cached text holds a vector, so an answer is one.       *)
LEMMA HeapFacts ==
    ASSUME Core, NEW k \in DOMAIN map_
    PROVE  map_[k] \in Entry /\ map_[k].vec \in Bufs /\ heap[map_[k].vec] \in Vecs
BY DEF Core, Shape, OwnedBuffers, Entry

(* The entry put builds is well formed and describes the new buffer.       *)
LEMMA NewEntryType ==
    ASSUME Core, NEW v \in Vecs, NEW b \in Bufs
    PROVE  /\ NewEntry(v, b) \in Entry
           /\ NewEntry(v, b).vec = b /\ NewEntry(v, b).dim = DimOf[v]
BY TTLAssumption, DimAssumption DEF Core, Shape, NewEntry, Entry

(* remove keeps the invariant. *)
LEMMA RemoveStep ==
    ASSUME Core, NEW k \in DOMAIN map_, Remove(k), now' = now
    PROVE  Core'
<1>1. It(k) \in DOMAIN list_ /\ list_[It(k)] = k
  BY ItFacts
<1>2. /\ list_' \in Seq(Keys) /\ Distinct(list_')
      /\ Elems(list_') = Elems(list_) \ {k}
  BY <1>1, EraseFacts DEF Core, Shape, ListMatchesMap, Remove
<1>3. DOMAIN map_' = DOMAIN map_ \ {k}
  BY DEF Remove
<1>4. \A j \in DOMAIN map_' : map_'[j] = map_[j]
  BY <1>3 DEF Remove
<1>5. \A b \in Bufs : heap'[b] = IF b = map_[k].vec THEN Free ELSE heap[b]
  BY DEF Remove, Core, Shape
<1>6. Shape'
  <2>1. heap' \in [Bufs -> Vecs \cup {Free}]
    BY HeapFacts DEF Remove, Core, Shape
  <2>2. map_' \in [DOMAIN map_' -> Entry]
    BY <1>3 DEF Remove, Core, Shape
  <2>. QED
    BY <1>2, <1>3, <2>1, <2>2 DEF Core, Shape
<1>7. ListMatchesMap'
  BY <1>2, <1>3 DEF Core, ListMatchesMap
<1>8. OwnedBuffers'
  <2>1. \A j \in DOMAIN map_' : map_[j].vec # map_[k].vec /\ map_[j].vec \in Bufs
    BY <1>3, HeapFacts DEF Core, OwnedBuffers
  <2>. QED
    BY <1>3, <1>4, <1>5, <2>1 DEF Core, OwnedBuffers
<1>9. DimsAgree'
  <2>1. \A j \in DOMAIN map_' : map_[j].vec # map_[k].vec /\ map_[j].vec \in Bufs
    BY <1>3, HeapFacts DEF Core, OwnedBuffers
  <2>. QED
    BY <1>3, <1>4, <1>5, <2>1 DEF Core, DimsAgree
<1>10. IsFiniteSet(DOMAIN map_') /\ WithinCapacity'
  <2>1. /\ IsFiniteSet(DOMAIN map_ \ {k})
        /\ Cardinality(DOMAIN map_ \ {k}) = Cardinality(DOMAIN map_) - 1
        /\ Cardinality(DOMAIN map_) \in Nat
    BY FS_RemoveElement, FS_CardinalityType DEF Core
  <2>. QED
    BY <1>3, <2>1, CapacityAssumption DEF Core, WithinCapacity
<1>. QED
  BY <1>6, <1>7, <1>8, <1>9, <1>10 DEF Core

(* touch, the common part of every lookup, keeps the invariant. *)
LEMMA TouchStep ==
    ASSUME Core, NEW k \in Keys, Touch(k), now' = now
    PROVE  Core'
<1>1. CASE k \notin DOMAIN map_ /\ UNCHANGED <<map_, list_, heap>>
  BY <1>1 DEF Core, Shape, ListMatchesMap, OwnedBuffers, DimsAgree, WithinCapacity
<1>2. CASE k \in DOMAIN map_ /\ Expired(k) /\ Remove(k)
  BY <1>2, RemoveStep
<1>3. CASE Found(k) /\ list_' = SpliceToFront(list_, It(k)) /\ UNCHANGED <<map_, heap>>
  <2>1. It(k) \in DOMAIN list_
    BY <1>3, ItFacts DEF Found
  <2>2. list_' \in Seq(Keys) /\ Distinct(list_') /\ Elems(list_') = Elems(list_)
    BY <1>3, <2>1, SpliceFacts DEF Core, Shape, ListMatchesMap
  <2>. QED
    BY <1>3, <2>2
       DEF Core, Shape, ListMatchesMap, OwnedBuffers, DimsAgree, WithinCapacity
<1>. QED
  BY <1>1, <1>2, <1>3 DEF Touch

(* Overwriting a cached text frees the old buffer and keeps the invariant. *)
LEMMA PutExistingStep ==
    ASSUME Core, NEW k \in DOMAIN map_, NEW v \in Vecs, NEW b \in Bufs,
           heap[b] = Free, PutExisting(k, v, b), now' = now
    PROVE  Core'
<1>1. It(k) \in DOMAIN list_
  BY ItFacts
<1>2. list_' \in Seq(Keys) /\ Distinct(list_') /\ Elems(list_') = Elems(list_)
  BY <1>1, SpliceFacts DEF Core, Shape, ListMatchesMap, PutExisting
<1>3. DOMAIN map_' = DOMAIN map_
  BY DEF Core, Shape, PutExisting
<1>4. \A j \in DOMAIN map_ : map_'[j] = IF j = k THEN NewEntry(v, b) ELSE map_[j]
  BY DEF Core, Shape, PutExisting
<1>5. \A a \in Bufs : heap'[a] = IF a = b THEN v
                                 ELSE IF a = map_[k].vec THEN Free ELSE heap[a]
  BY DEF Core, Shape, PutExisting
<1>6. Shape'
  <2>1. heap' \in [Bufs -> Vecs \cup {Free}]
    BY HeapFacts DEF PutExisting, Core, Shape
  <2>2. map_' \in [DOMAIN map_' -> Entry]
    BY <1>3, NewEntryType DEF PutExisting, Core, Shape
  <2>. QED
    BY <1>2, <1>3, <2>1, <2>2 DEF Core, Shape
<1>7. \A j \in DOMAIN map_ : /\ map_[j].vec \in Bufs /\ map_[j].vec # b
                             /\ j # k => map_[j].vec # map_[k].vec
  BY HeapFacts, FreeAssumption DEF Core, OwnedBuffers
<1>8. OwnedBuffers'
  BY <1>3, <1>4, <1>5, <1>7, NewEntryType, FreeAssumption DEF Core, OwnedBuffers
<1>9. DimsAgree'
  BY <1>3, <1>4, <1>5, <1>7, NewEntryType DEF Core, DimsAgree
<1>. QED
  BY <1>2, <1>3, <1>6, <1>8, <1>9 DEF Core, ListMatchesMap, WithinCapacity

(* When the map is full the back of the list is a cached text. *)
LEMMA BackFacts ==
    ASSUME Core, MustEvict
    PROVE  Len(list_) \in DOMAIN list_ /\ list_[Len(list_)] \in DOMAIN map_
<1>1. DOMAIN map_ # {}
  BY FS_EmptySet, CapacityAssumption DEF MustEvict
<1>2. DOMAIN list_ = 1..Len(list_) /\ Len(list_) \in Nat
  BY DEF Core, Shape
<1>3. DOMAIN list_ # {}
  BY <1>1 DEF Core, ListMatchesMap, Elems
<1>. QED
  BY <1>2, <1>3 DEF Core, ListMatchesMap, Elems

(* Inserting a text, with or without an eviction, keeps the invariant.     *)
LEMMA PutNewStep ==
    ASSUME Core, NEW k \in Keys \ DOMAIN map_, NEW v \in Vecs, NEW b \in Bufs,
           heap[b] = Free, PutNew(k, v, b), now' = now
    PROVE  Core'
<1> DEFINE gone == IF MustEvict THEN {list_[Len(list_)]} ELSE {}
           kept == DOMAIN map_ \ gone
           rest == IF MustEvict THEN Erase(list_, Len(list_)) ELSE list_
<1>1. gone \subseteq DOMAIN map_
  BY BackFacts
<1>2. rest \in Seq(Keys) /\ Distinct(rest) /\ Elems(rest) = kept
  <2>1. CASE MustEvict
    BY <2>1, BackFacts, EraseFacts DEF Core, Shape, ListMatchesMap
  <2>2. CASE ~MustEvict
    BY <2>2 DEF Core, Shape, ListMatchesMap
  <2>. QED  BY <2>1, <2>2
<1>3. /\ DOMAIN map_' = kept \cup {k}
      /\ map_'[k] = NewEntry(v, b)
      /\ \A j \in kept : map_'[j] = map_[j]
  BY DEF PutNew
<1>4. list_' = PushFront(rest, k)
  BY DEF PutNew
<1>5. heap' = [a \in Bufs |-> IF a = b THEN v
                              ELSE IF \E j \in gone : a = map_[j].vec THEN Free
                              ELSE heap[a]]
  BY DEF PutNew
<1>6. list_' \in Seq(Keys) /\ Distinct(list_') /\ Elems(list_') = kept \cup {k}
  <2>1. k \notin Elems(rest)
    BY <1>2
  <2> HIDE DEF rest, kept
  <2>. QED  BY <1>2, <1>4, <2>1, PushFacts
<1> HIDE DEF gone, kept, rest
<1>7. /\ kept \subseteq DOMAIN map_ /\ k \notin kept
      /\ \A j \in DOMAIN map_ : j \in kept \/ j \in gone
      /\ \A j \in kept : j \notin gone
  BY DEF kept
<1>8. Shape'
  <2>1. heap' \in [Bufs -> Vecs \cup {Free}]
    BY <1>5 DEF Core, Shape
  <2>2. \A j \in DOMAIN map_' : map_'[j] \in Entry
    BY <1>3, <1>7, NewEntryType, HeapFacts
  <2>3. map_' \in [DOMAIN map_' -> Entry]
    BY <2>2 DEF PutNew
  <2>. QED
    BY <1>3, <1>6, <1>7, <2>1, <2>3 DEF Core, Shape
<1>9. \A j \in DOMAIN map_ : map_[j].vec \in Bufs /\ map_[j].vec # b
  BY HeapFacts, FreeAssumption
<1>10. \A j \in kept, i \in gone : map_[j].vec # map_[i].vec
  BY <1>1, <1>7 DEF Core, OwnedBuffers
<1>11. \A j \in kept : heap'[map_'[j].vec] = heap[map_[j].vec]
  BY <1>3, <1>5, <1>7, <1>9, <1>10
<1>12. NewEntry(v, b).vec = b /\ NewEntry(v, b).dim = DimOf[v] /\ heap'[b] = v
  BY <1>5, NewEntryType
<1>13. OwnedBuffers'
  <2>1. ASSUME NEW j \in DOMAIN map_' PROVE heap'[map_'[j].vec] # Free
    BY <1>3, <1>7, <1>11, <1>12, FreeAssumption DEF Core, OwnedBuffers
  <2>2. ASSUME NEW i \in DOMAIN map_', NEW j \in DOMAIN map_',
               map_'[i].vec = map_'[j].vec
        PROVE  i = j
    BY <2>2, <1>3, <1>7, <1>9, <1>12 DEF Core, OwnedBuffers
  <2>3. ASSUME NEW a \in Bufs, heap'[a] # Free
        PROVE  \E j \in DOMAIN map_' : map_'[j].vec = a
    <3>1. CASE a = b
      BY <3>1, <1>3, <1>12
    <3>2. CASE a # b
      <4>1. heap[a] # Free /\ ~ \E j \in gone : a = map_[j].vec
        BY <2>3, <3>2, <1>5
      <4>2. PICK j \in DOMAIN map_ : map_[j].vec = a
        BY <4>1 DEF Core, OwnedBuffers
      <4>3. j \in kept
        BY <4>1, <4>2, <1>7
      <4>. QED  BY <4>2, <4>3, <1>3
    <3>. QED  BY <3>1, <3>2
  <2>. QED
    BY <2>1, <2>2, <2>3 DEF OwnedBuffers
<1>14. DimsAgree'
  <2>1. ASSUME NEW j \in DOMAIN map_' PROVE map_'[j].dim = DimOf[heap'[map_'[j].vec]]
    <3>1. CASE j = k
      BY <3>1, <1>3, <1>12
    <3>2. CASE j \in kept
      BY <3>2, <1>3, <1>7, <1>11 DEF Core, DimsAgree, OwnedBuffers
    <3>. QED  BY <3>1, <3>2, <1>3
  <2>. QED  BY <2>1 DEF DimsAgree
<1>15. IsFiniteSet(DOMAIN map_') /\ WithinCapacity'
  <2>1. IsFiniteSet(kept) /\ Cardinality(kept) \in Nat /\ Cardinality(kept) + 1 <= Capacity
    <3>0. IsFiniteSet(DOMAIN map_) /\ Cardinality(DOMAIN map_) \in Nat
      BY FS_CardinalityType DEF Core
    <3>1. CASE MustEvict
      <4>1. kept = DOMAIN map_ \ {list_[Len(list_)]}
        BY <3>1 DEF kept, gone
      <4>2. IsFiniteSet(kept) /\ Cardinality(kept) = Cardinality(DOMAIN map_) - 1
        BY <3>0, <3>1, <4>1, BackFacts, FS_RemoveElement
      <4>3. Cardinality(kept) \in Nat
        BY <4>2, FS_CardinalityType
      <4>. QED
        BY <3>0, <4>2, <4>3, CapacityAssumption DEF Core, WithinCapacity
    <3>2. CASE ~MustEvict
      <4>1. kept = DOMAIN map_
        BY <3>2 DEF kept, gone
      <4>. QED  BY <3>0, <3>2, <4>1, CapacityAssumption DEF MustEvict
    <3>. QED  BY <3>1, <3>2
  <2>2. IsFiniteSet(kept \cup {k}) /\ Cardinality(kept \cup {k}) = Cardinality(kept) + 1
    BY <2>1, <1>7, FS_AddElement
  <2>. QED  BY <1>3, <2>1, <2>2 DEF WithinCapacity
<1>16. ListMatchesMap'
  BY <1>3, <1>6 DEF ListMatchesMap
<1>. QED
  BY <1>8, <1>13, <1>14, <1>15, <1>16 DEF Core

(* clear frees every buffer and keeps the invariant.                       *)
LEMMA ClearStep ==
    ASSUME Core, Clear
    PROVE  Core'
<1>1. DOMAIN map_' = {} /\ list_' = <<>> /\ now' = now
  BY DEF Clear
<1>2. heap' = [b \in Bufs |-> Free]
  BY DEF Clear, Core, Shape, OwnedBuffers
<1>3. map_' \in [DOMAIN map_' -> Entry]
  BY DEF Clear
<1>4. IsFiniteSet(DOMAIN map_') /\ WithinCapacity'
  BY <1>1, FS_EmptySet, CapacityAssumption DEF WithinCapacity
<1>5. ListMatchesMap'
  BY <1>1 DEF ListMatchesMap, Distinct, Elems
<1>. QED
  BY <1>1, <1>2, <1>3, <1>4, <1>5 DEF Core, Shape, OwnedBuffers, DimsAgree

-----------------------------------------------------------------------------
(* An empty cache satisfies the invariant.                                 *)
LEMMA InitIInv == Init => IInv
<1>. SUFFICES ASSUME Init PROVE IInv
  OBVIOUS
<1>1. DOMAIN map_ = {} /\ list_ = <<>> /\ heap = [b \in Bufs |-> Free] /\ now = 0
  BY DEF Init
<1>2. map_ \in [DOMAIN map_ -> Entry]
  BY DEF Init
<1>3. IsFiniteSet(DOMAIN map_) /\ WithinCapacity
  BY <1>1, FS_EmptySet, CapacityAssumption DEF WithinCapacity
<1>4. ListMatchesMap
  BY <1>1 DEF ListMatchesMap, Distinct, Elems
<1>5. Core
  BY <1>1, <1>2, <1>3, <1>4 DEF Core, Shape, OwnedBuffers, DimsAgree
<1>. QED
  BY <1>5 DEF IInv, Answers, Init

(* Every method, and the passing of time, keeps the invariant.             *)
LEMMA NextIInv == IInv /\ [Next]_vars => IInv'
<1>. SUFFICES ASSUME IInv, [Next]_vars PROVE IInv'
  OBVIOUS
<1>0. Core
  BY DEF IInv
<1>1. ASSUME NEW k \in Keys, Get(k) PROVE IInv'
  <2>1. Core'
    BY <1>0, <1>1, TouchStep DEF Get
  <2>2. ret' \in Answers
    BY <1>0, <1>1, HeapFacts DEF Get, Found, Answers
  <2>. QED  BY <2>1, <2>2 DEF IInv, Answers
<1>2. ASSUME NEW k \in Keys, NEW hasOut \in BOOLEAN, NEW room \in Rooms,
             GetCopy(k, hasOut, room)
      PROVE  IInv'
  <2>1. Core'
    BY <1>0, <1>2, TouchStep DEF GetCopy
  <2>2. ret' \in Answers
    BY <1>0, <1>2, HeapFacts DEF GetCopy, Found, Answers
  <2>. QED  BY <2>1, <2>2 DEF IInv, Answers
<1>3. ASSUME NEW k \in Keys, NEW v \in Vecs, Put(k, v) PROVE IInv'
  <2>1. PICK b \in Bufs :
          /\ heap[b] = Free
          /\ \/ k \in DOMAIN map_ /\ PutExisting(k, v, b)
             \/ k \notin DOMAIN map_ /\ PutNew(k, v, b)
    BY <1>3 DEF Put
  <2>2. now' = now /\ ret' = Done
    BY <1>3 DEF Put
  <2>3. Core'
    BY <1>0, <2>1, <2>2, PutExistingStep, PutNewStep
  <2>. QED  BY <2>2, <2>3 DEF IInv, Answers
<1>4. ASSUME NEW k \in Keys, NEW v \in Vecs, PutNoMemory(k, v) PROVE IInv'
  BY <1>0, <1>4 DEF PutNoMemory, IInv, Answers, Core, Shape, ListMatchesMap,
                    OwnedBuffers, DimsAgree, WithinCapacity
<1>5. ASSUME Clear PROVE IInv'
  BY <1>0, <1>5, ClearStep DEF IInv, Answers, Clear
<1>6. ASSUME Tick PROVE IInv'
  BY <1>0, <1>6 DEF Tick, IInv, Answers, Core, Shape, ListMatchesMap,
                    OwnedBuffers, DimsAgree, WithinCapacity
<1>7. ASSUME UNCHANGED vars PROVE IInv'
  BY <1>0, <1>7 DEF vars, IInv, Answers, Core, Shape, ListMatchesMap,
                    OwnedBuffers, DimsAgree, WithinCapacity
<1>. QED
  BY <1>1, <1>2, <1>3, <1>4, <1>5, <1>6, <1>7 DEF Next

(* The inductive invariant holds in every state of every execution.        *)
LEMMA SpecIInv == Spec => []IInv
BY InitIInv, NextIInv, PTL DEF Spec

(* Type correctness of the cache, for every capacity and time to live.     *)
THEOREM TypeCorrect == Spec => []TypeOK
<1>1. IInv => TypeOK
  BY DEF IInv, Core, Shape, TypeOK
<1>. QED
  BY <1>1, SpecIInv, PTL

(* map_ and list_ always hold the same texts, each once. *)
THEOREM ListAndMapAgree == Spec => []ListMatchesMap
<1>1. IInv => ListMatchesMap
  BY DEF IInv, Core
<1>. QED
  BY <1>1, SpecIInv, PTL

(* No method frees a buffer twice, leaks one or reads one it does not own, *)
(* and the copy in get_copy never leaves the buffer.                       *)
THEOREM BuffersAreOwned == Spec => []BuffersSound
<1>1. IInv => BuffersSound
  BY DEF IInv, Core, BuffersSound
<1>. QED
  BY <1>1, SpecIInv, PTL

(* The cache never exceeds its capacity. *)
THEOREM NeverOverCapacity == Spec => []WithinCapacity
<1>1. IInv => WithinCapacity
  BY DEF IInv, Core
<1>. QED
  BY <1>1, SpecIInv, PTL

-----------------------------------------------------------------------------
(* The refinement: the list-and-buffer cache implements CachePromise, each *)
(* locked method being one step of the promise.                            *)

(* x was used before y: it lies behind y in the list.                      *)
Behind(s, x, y) == \E i, j \in DOMAIN s : i < j /\ s[j] = x /\ s[i] = y

LEMMA OlderMember ==
    /\ OlderBar \subseteq Keys \X Keys
    /\ \A x, y \in Keys : <<x, y>> \in OlderBar <=> Behind(list_, x, y)
BY DEF OlderBar, Behind

LEMMA OlderMemberNext ==
    /\ OlderBar' \subseteq Keys \X Keys
    /\ \A x, y \in Keys : <<x, y>> \in OlderBar' <=> Behind(list_', x, y)
BY DEF OlderBar, Behind

LEMMA SamePairs ==
    ASSUME NEW K, NEW A, NEW B, A \subseteq K \X K, B \subseteq K \X K,
           \A x, y \in K : <<x, y>> \in A <=> <<x, y>> \in B
    PROVE  A = B
OBVIOUS

LEMMA UsedNowMember ==
    ASSUME NEW rel, NEW kept, NEW k, NEW x, NEW y
    PROVE  <<x, y>> \in Promise!UsedNow(rel, kept, k) <=>
             \/ <<x, y>> \in rel /\ x # k /\ y # k
             \/ x \in kept /\ x # k /\ y = k
BY DEF Promise!UsedNow

(* What the list operations do to the order of the texts.                  *)
LEMMA SpliceBehind ==
    ASSUME NEW K, NEW s \in Seq(K), NEW i \in DOMAIN s, Distinct(s), NEW x, NEW y
    PROVE  Behind(SpliceToFront(s, i), x, y) <=>
             \/ Behind(s, x, y) /\ x # s[i] /\ y # s[i]
             \/ x \in Elems(s) /\ x # s[i] /\ y = s[i]
<1> DEFINE r == SpliceToFront(s, i)
           n == Len(s)
           To(m) == IF m < i THEN m + 1 ELSE m
           From(b) == IF b <= i THEN b - 1 ELSE b
<1>1. n \in Nat /\ DOMAIN s = 1..n /\ i \in 1..n /\ DOMAIN r = 1..n
  BY DEF SpliceToFront
<1>2. \A j \in 1..n : r[j] = IF j = 1 THEN s[i] ELSE IF j <= i THEN s[j-1] ELSE s[j]
  BY <1>1 DEF SpliceToFront
<1>3. \A m \in 1..n : m # i => To(m) \in 2..n /\ r[To(m)] = s[m]
  BY <1>1, <1>2
<1>4. \A b \in 2..n : From(b) \in 1..n /\ From(b) # i /\ r[b] = s[From(b)]
  BY <1>1, <1>2
<1>5. \A m \in 1..n : s[m] = s[i] => m = i
  BY <1>1 DEF Distinct
<1>6. r[1] = s[i]
  BY <1>1, <1>2
<1>7. ASSUME Behind(r, x, y)
      PROVE  \/ Behind(s, x, y) /\ x # s[i] /\ y # s[i]
             \/ x \in Elems(s) /\ x # s[i] /\ y = s[i]
  <2>1. PICK a, b \in 1..n : a < b /\ r[b] = x /\ r[a] = y
    BY <1>1, <1>7 DEF Behind
  <2>2. b \in 2..n /\ From(b) \in 1..n /\ x = s[From(b)] /\ x # s[i]
    BY <1>1, <1>4, <1>5, <2>1
  <2>3. CASE a = 1
    BY <1>1, <1>6, <2>1, <2>2, <2>3 DEF Elems
  <2>4. CASE a # 1
    <3>1. a \in 2..n /\ From(a) \in 1..n /\ y = s[From(a)] /\ y # s[i]
      BY <1>1, <1>4, <1>5, <2>1, <2>4
    <3>2. From(a) < From(b)
      BY <1>1, <2>1, <2>2, <3>1
    <3>. QED  BY <1>1, <2>2, <3>1, <3>2 DEF Behind
  <2>. QED  BY <2>3, <2>4
<1>8. ASSUME Behind(s, x, y), x # s[i], y # s[i] PROVE Behind(r, x, y)
  <2>1. PICK a, b \in 1..n : a < b /\ s[b] = x /\ s[a] = y
    BY <1>1, <1>8 DEF Behind
  <2>2. /\ To(a) \in 2..n /\ To(b) \in 2..n /\ r[To(a)] = y /\ r[To(b)] = x
        /\ a # i /\ b # i
    BY <1>3, <1>8, <2>1
  <2>3. To(a) < To(b) /\ To(a) \in 1..n /\ To(b) \in 1..n
    BY <1>1, <2>1, <2>2
  <2>. QED  BY <1>1, <2>2, <2>3 DEF Behind
<1>9. ASSUME x \in Elems(s), x # s[i], y = s[i] PROVE Behind(r, x, y)
  <2>1. PICK m \in 1..n : s[m] = x
    BY <1>1, <1>9 DEF Elems
  <2>2. To(m) \in 2..n /\ r[To(m)] = x /\ 1 \in 1..n /\ To(m) \in 1..n /\ 1 < To(m)
    BY <1>1, <1>3, <1>9, <2>1
  <2>. QED  BY <1>1, <1>6, <1>9, <2>2 DEF Behind
<1>. QED  BY <1>7, <1>8, <1>9

LEMMA EraseBehind ==
    ASSUME NEW K, NEW s \in Seq(K), NEW i \in DOMAIN s, Distinct(s), NEW x, NEW y
    PROVE  Behind(Erase(s, i), x, y) <=> Behind(s, x, y) /\ x # s[i] /\ y # s[i]
<1> DEFINE r == Erase(s, i)
           n == Len(s)
           To(m) == IF m < i THEN m ELSE m - 1
           From(b) == IF b < i THEN b ELSE b + 1
<1>1. n \in Nat /\ DOMAIN s = 1..n /\ i \in 1..n /\ DOMAIN r = 1..(n - 1)
  BY DEF Erase
<1>2. \A j \in 1..(n - 1) : r[j] = IF j < i THEN s[j] ELSE s[j+1]
  BY <1>1 DEF Erase
<1>3. \A m \in 1..n : m # i => To(m) \in 1..(n - 1) /\ r[To(m)] = s[m]
  BY <1>1, <1>2
<1>4. \A b \in 1..(n - 1) : From(b) \in 1..n /\ From(b) # i /\ r[b] = s[From(b)]
  BY <1>1, <1>2
<1>5. \A m \in 1..n : s[m] = s[i] => m = i
  BY <1>1 DEF Distinct
<1>6. ASSUME Behind(r, x, y) PROVE Behind(s, x, y) /\ x # s[i] /\ y # s[i]
  <2>1. PICK a, b \in 1..(n - 1) : a < b /\ r[b] = x /\ r[a] = y
    BY <1>1, <1>6 DEF Behind
  <2>2. /\ From(a) \in 1..n /\ From(b) \in 1..n /\ s[From(a)] = y /\ s[From(b)] = x
        /\ x # s[i] /\ y # s[i]
    BY <1>4, <1>5, <2>1
  <2>3. From(a) < From(b)
    BY <1>1, <2>1
  <2>. QED  BY <1>1, <2>2, <2>3 DEF Behind
<1>7. ASSUME Behind(s, x, y), x # s[i], y # s[i] PROVE Behind(r, x, y)
  <2>1. PICK a, b \in 1..n : a < b /\ s[b] = x /\ s[a] = y
    BY <1>1, <1>7 DEF Behind
  <2>2. /\ To(a) \in 1..(n - 1) /\ To(b) \in 1..(n - 1)
        /\ r[To(a)] = y /\ r[To(b)] = x /\ a # i /\ b # i
    BY <1>3, <1>7, <2>1
  <2>3. To(a) < To(b)
    BY <1>1, <2>1, <2>2
  <2>. QED  BY <1>1, <2>2, <2>3 DEF Behind
<1>. QED  BY <1>6, <1>7

LEMMA PushBehind ==
    ASSUME NEW K, NEW s \in Seq(K), NEW k, k \notin Elems(s), NEW x, NEW y
    PROVE  Behind(PushFront(s, k), x, y) <=>
             \/ Behind(s, x, y) /\ x # k /\ y # k
             \/ x \in Elems(s) /\ x # k /\ y = k
<1> DEFINE r == PushFront(s, k)
           n == Len(s)
<1>1. n \in Nat /\ DOMAIN s = 1..n /\ DOMAIN r = 1..(n + 1)
  BY DEF PushFront
<1>2. \A j \in 1..(n + 1) : r[j] = IF j = 1 THEN k ELSE s[j-1]
  BY <1>1 DEF PushFront
<1>3. \A m \in 1..n : s[m] # k /\ m + 1 \in 1..(n + 1) /\ r[m + 1] = s[m]
  BY <1>1, <1>2 DEF Elems
<1>4. ASSUME Behind(r, x, y)
      PROVE  \/ Behind(s, x, y) /\ x # k /\ y # k
             \/ x \in Elems(s) /\ x # k /\ y = k
  <2>1. PICK a, b \in 1..(n + 1) : a < b /\ r[b] = x /\ r[a] = y
    BY <1>1, <1>4 DEF Behind
  <2>2. b - 1 \in 1..n /\ x = s[b - 1] /\ x # k
    BY <1>1, <1>2, <1>3, <2>1
  <2>3. CASE a = 1
    BY <1>1, <1>2, <2>1, <2>2, <2>3 DEF Elems
  <2>4. CASE a # 1
    <3>1. a - 1 \in 1..n /\ y = s[a - 1] /\ y # k /\ a - 1 < b - 1
      BY <1>1, <1>2, <1>3, <2>1, <2>4
    <3>. QED  BY <1>1, <2>2, <3>1 DEF Behind
  <2>. QED  BY <2>3, <2>4
<1>5. ASSUME Behind(s, x, y) PROVE Behind(r, x, y)
  <2>1. PICK a, b \in 1..n : a < b /\ s[b] = x /\ s[a] = y
    BY <1>1, <1>5 DEF Behind
  <2>2. a + 1 < b + 1
    BY <1>1, <2>1
  <2>. QED  BY <1>1, <1>3, <2>1, <2>2 DEF Behind
<1>6. ASSUME x \in Elems(s), y = k PROVE Behind(r, x, y)
  <2>1. PICK m \in 1..n : s[m] = x
    BY <1>1, <1>6 DEF Elems
  <2>2. 1 \in 1..(n + 1) /\ r[1] = y /\ m + 1 \in 1..(n + 1) /\ r[m + 1] = x /\ 1 < m + 1
    BY <1>1, <1>2, <1>3, <1>6, <2>1
  <2>. QED  BY <1>1, <2>2 DEF Behind
<1>. QED  BY <1>4, <1>5, <1>6

-----------------------------------------------------------------------------
(* The refinement mapping of the entries.                                  *)
Kept(k) == [val |-> heap[map_[k].vec], until |-> map_[k].expires_at]

LEMMA ContentFacts ==
    /\ ContentBar = [k \in DOMAIN map_ |-> Kept(k)]
    /\ DOMAIN ContentBar = DOMAIN map_
    /\ \A k \in DOMAIN map_ : ContentBar[k] = Kept(k)
BY DEF ContentBar, Kept

LEMMA ContentFactsNext ==
    /\ ContentBar' = [k \in DOMAIN map_' |-> Kept(k)']
    /\ DOMAIN ContentBar' = DOMAIN map_'
BY DEF ContentBar, Kept

LEMMA FreshIsFound ==
    ASSUME Core, NEW k \in Keys
    PROVE  Promise!Fresh(k) <=> Found(k)
<1>1. CASE k \in DOMAIN map_
  <2>1. map_[k].expires_at \in Nat /\ now \in Nat
    BY <1>1 DEF Core, Shape, Entry
  <2>2. ContentBar[k].until = map_[k].expires_at
    BY <1>1, ContentFacts DEF Kept
  <2>. QED
    BY <1>1, <2>1, <2>2, ContentFacts, TTLAssumption DEF Promise!Fresh, Found, Expired
<1>2. CASE k \notin DOMAIN map_
  BY <1>2, ContentFacts DEF Promise!Fresh, Found
<1>. QED  BY <1>1, <1>2

(* Moving a text to the front makes it the one used last.                  *)
LEMMA SpliceUses ==
    ASSUME Core, NEW k \in DOMAIN map_, list_' = SpliceToFront(list_, It(k))
    PROVE  OlderBar' = Promise!UsedNow(OlderBar, DOMAIN map_, k)
<1>1. It(k) \in DOMAIN list_ /\ list_[It(k)] = k
  BY ItFacts
<1>2. /\ list_ \in Seq(Keys) /\ Distinct(list_) /\ Elems(list_) = DOMAIN map_
      /\ DOMAIN map_ \subseteq Keys
  BY DEF Core, Shape, ListMatchesMap
<1>3. ASSUME NEW x \in Keys, NEW y \in Keys
      PROVE  <<x, y>> \in OlderBar' <=> <<x, y>> \in Promise!UsedNow(OlderBar, DOMAIN map_, k)
  BY <1>1, <1>2, SpliceBehind, OlderMember, OlderMemberNext, UsedNowMember
<1>4. Promise!UsedNow(OlderBar, DOMAIN map_, k) \subseteq Keys \X Keys
  BY <1>2, OlderMember DEF Promise!UsedNow
<1>. QED  BY <1>3, <1>4, OlderMemberNext, SamePairs

(* A lookup of a text that is cached and alive is a use of it.             *)
LEMMA TouchHits ==
    ASSUME Core, NEW k \in Keys, Touch(k), Found(k), now' = now
    PROVE  Promise!Hit(k)
<1>1. list_' = SpliceToFront(list_, It(k)) /\ UNCHANGED <<map_, heap>> /\ k \in DOMAIN map_
  BY DEF Touch, Found
<1>2. ContentBar' = ContentBar
  BY <1>1 DEF ContentBar
<1>3. OlderBar' = Promise!UsedNow(OlderBar, DOMAIN ContentBar, k)
  BY <1>1, SpliceUses, ContentFacts
<1>. QED  BY <1>2, <1>3, FreshIsFound DEF Promise!Hit

(* Any other lookup drops at most this text. *)
LEMMA TouchMisses ==
    ASSUME Core, NEW k \in Keys, Touch(k), ~Found(k), now' = now, ret' = Miss
    PROVE  Promise!Absent(k)
<1>1. /\ list_ \in Seq(Keys) /\ Distinct(list_) /\ Elems(list_) = DOMAIN map_
  BY DEF Core, Shape, ListMatchesMap
<1>2. \A x, y \in Keys : Behind(list_, x, y) => x \in DOMAIN map_ /\ y \in DOMAIN map_
  BY <1>1 DEF Behind, Elems
<1>3. ASSUME NEW x, NEW y
      PROVE  <<x, y>> \in Promise!Without(OlderBar, k) <=> <<x, y>> \in OlderBar /\ x # k /\ y # k
  BY DEF Promise!Without
<1>4. Promise!Without(OlderBar, k) \subseteq Keys \X Keys
  BY OlderMember DEF Promise!Without
<1>5. CASE k \notin DOMAIN map_ /\ UNCHANGED <<map_, list_, heap>>
  <2>1. ContentBar' = Promise!Only(ContentBar, DOMAIN ContentBar \ {k})
    BY <1>5, ContentFacts DEF Promise!Only, ContentBar
  <2>2. OlderBar' = Promise!Without(OlderBar, k)
    <3>1. OlderBar' = OlderBar
      BY <1>5 DEF OlderBar
    <3>2. \A x, y \in Keys : <<x, y>> \in OlderBar <=> <<x, y>> \in Promise!Without(OlderBar, k)
      BY <1>2, <1>3, <1>5, OlderMember
    <3>3. OlderBar = Promise!Without(OlderBar, k)
      BY <1>4, <3>2, OlderMember, SamePairs
    <3>. QED  BY <3>1, <3>3
  <2>. QED  BY <2>1, <2>2, FreshIsFound DEF Promise!Absent
<1>6. CASE k \in DOMAIN map_ /\ Remove(k)
  <2>1. It(k) \in DOMAIN list_ /\ list_[It(k)] = k /\ list_' = Erase(list_, It(k))
    BY <1>6, ItFacts DEF Remove
  <2>2. DOMAIN map_' = DOMAIN map_ \ {k} /\ \A j \in DOMAIN map_' : map_'[j] = map_[j]
    BY <1>6 DEF Remove
  <2>3. \A j \in DOMAIN map_' : map_[j].vec \in Bufs /\ map_[j].vec # map_[k].vec
    BY <1>6, <2>2, HeapFacts DEF Core, OwnedBuffers
  <2>4. \A j \in DOMAIN map_' : heap'[map_[j].vec] = heap[map_[j].vec]
    BY <1>6, <2>3 DEF Remove, Core, Shape
  <2>5. ContentBar' = Promise!Only(ContentBar, DOMAIN ContentBar \ {k})
    <3>1. \A j \in DOMAIN map_' : Kept(j)' = Kept(j) /\ ContentBar[j] = Kept(j)
      BY <2>2, <2>4, ContentFacts DEF Kept
    <3>. QED  BY <2>2, <3>1, ContentFacts, ContentFactsNext DEF Promise!Only
  <2>6. \A x, y \in Keys : <<x, y>> \in OlderBar' <=> <<x, y>> \in Promise!Without(OlderBar, k)
    BY <1>1, <1>3, <2>1, EraseBehind, OlderMember, OlderMemberNext
  <2>7. OlderBar' = Promise!Without(OlderBar, k)
    BY <1>4, <2>6, OlderMemberNext, SamePairs
  <2>. QED  BY <2>5, <2>7, FreshIsFound DEF Promise!Absent
<1>. QED  BY <1>5, <1>6 DEF Touch

LEMMA LookupKeeps ==
    ASSUME Core, NEW k \in Keys, Touch(k), now' = now,
           \/ ~Found(k) /\ ret' = Miss
           \/ Found(k) /\ ret' \in {TooSmall, heap[map_[k].vec]}
    PROVE  Promise!Lookup(k)
<1>1. CASE ~Found(k)
  BY <1>1, TouchMisses DEF Promise!Lookup
<1>2. CASE Found(k)
  <2>1. ContentBar[k].val = heap[map_[k].vec]
    BY <1>2, ContentFacts DEF Found, Kept
  <2>. QED  BY <1>2, <2>1, TouchHits DEF Promise!Lookup
<1>. QED  BY <1>1, <1>2

-----------------------------------------------------------------------------
(* What put stores is what the promise stores. *)
LEMMA StoreFacts ==
    ASSUME NEW k, NEW v, NEW b, heap'[b] = v
    PROVE  /\ NewEntry(v, b).vec = b
           /\ [val |-> heap'[NewEntry(v, b).vec], until |-> NewEntry(v, b).expires_at]
                = Promise!Store(k, v)
BY DEF NewEntry, Promise!Store

(* Both modules count alike. *)
LEMMA PromiseCounts == \A S : Promise!Cardinality(S) = Cardinality(S)
BY DEF Promise!Cardinality, Cardinality

(* Overwriting keeps every other text's entry. *)
LEMMA PutExistingOverwrites ==
    ASSUME Core, NEW k \in DOMAIN map_, NEW v \in Vecs, NEW b \in Bufs,
           heap[b] = Free, PutExisting(k, v, b), now' = now, ret' = Done
    PROVE  Promise!Overwrite(k, v)
<1>1. \A j \in DOMAIN map_ : map_[j].vec \in Bufs /\ map_[j].vec # b
  BY HeapFacts, FreeAssumption
<1>2. \A j \in DOMAIN map_ : j # k => map_[j].vec # map_[k].vec
  BY DEF Core, OwnedBuffers
<1>3. /\ DOMAIN map_' = DOMAIN map_
      /\ \A j \in DOMAIN map_ : map_'[j] = IF j = k THEN NewEntry(v, b) ELSE map_[j]
  BY DEF PutExisting, Core, Shape
<1>4. heap'[b] = v /\ \A j \in DOMAIN map_ : j # k => heap'[map_[j].vec] = heap[map_[j].vec]
  BY <1>1, <1>2 DEF PutExisting, Core, Shape
<1>5. ContentBar' = [ContentBar EXCEPT ![k] = Promise!Store(k, v)]
  <2>1. Kept(k)' = Promise!Store(k, v)
    BY <1>3, <1>4, StoreFacts DEF Kept
  <2>2. \A j \in DOMAIN map_ : j # k => Kept(j)' = ContentBar[j]
    BY <1>3, <1>4, ContentFacts DEF Kept
  <2>. QED  BY <1>3, <2>1, <2>2, ContentFacts, ContentFactsNext
<1>6. OlderBar' = Promise!UsedNow(OlderBar, DOMAIN ContentBar, k)
  BY SpliceUses, ContentFacts DEF PutExisting
<1>. QED  BY <1>5, <1>6, ContentFacts DEF Promise!Overwrite

(* The text at the back of the list is the one used longest ago.           *)
LEMMA BackIsOldest ==
    ASSUME Core, MustEvict
    PROVE  Promise!Oldest(list_[Len(list_)])
<1> DEFINE x == list_[Len(list_)]
<1>1. Len(list_) \in DOMAIN list_ /\ x \in DOMAIN map_
  BY BackFacts
<1>2. /\ DOMAIN list_ = 1..Len(list_) /\ Len(list_) \in Nat /\ DOMAIN map_ = Elems(list_)
      /\ DOMAIN map_ \subseteq Keys
  BY DEF Core, Shape, ListMatchesMap
<1>3. ASSUME NEW y \in DOMAIN map_ \ {x} PROVE <<x, y>> \in OlderBar
  <2>1. PICK i \in 1..Len(list_) : list_[i] = y
    BY <1>2 DEF Elems
  <2>2. i < Len(list_)
    BY <1>2, <1>3, <2>1
  <2>3. Behind(list_, x, y)
    BY <1>1, <1>2, <2>1, <2>2 DEF Behind
  <2>. QED  BY <1>1, <1>2, <2>3, OlderMember
<1>. QED  BY <1>1, <1>3, ContentFacts DEF Promise!Oldest

(* Inserting takes the room of the oldest text only, and only when full.   *)
LEMMA PutNewInserts ==
    ASSUME Core, NEW k \in Keys \ DOMAIN map_, NEW v \in Vecs, NEW b \in Bufs,
           heap[b] = Free, PutNew(k, v, b), now' = now, ret' = Done
    PROVE  Promise!Insert(k, v)
<1> DEFINE last == list_[Len(list_)]
           gone == IF MustEvict THEN {last} ELSE {}
           kept == DOMAIN map_ \ gone
           rest == IF MustEvict THEN Erase(list_, Len(list_)) ELSE list_
<1>1. gone \subseteq DOMAIN map_
  BY BackFacts
<1>2. /\ DOMAIN map_' = kept \cup {k} /\ map_'[k] = NewEntry(v, b)
      /\ \A j \in kept : j # k /\ map_'[j] = map_[j]
  BY DEF PutNew
<1>3. heap' = [a \in Bufs |-> IF a = b THEN v
                              ELSE IF \E j \in gone : a = map_[j].vec THEN Free ELSE heap[a]]
  BY DEF PutNew
<1>4. list_' = PushFront(rest, k)
  BY DEF PutNew
<1>5. IF Cardinality(DOMAIN ContentBar) < Capacity THEN gone = {}
      ELSE \E x \in DOMAIN ContentBar : Promise!Oldest(x) /\ gone = {x}
  <2>1. Cardinality(DOMAIN map_) \in Nat /\ Capacity \in Nat
    BY FS_CardinalityType, CapacityAssumption DEF Core
  <2>2. Cardinality(DOMAIN map_) < Capacity <=> ~MustEvict
    BY <2>1 DEF MustEvict
  <2>3. MustEvict => last \in DOMAIN map_ /\ Promise!Oldest(last)
    BY BackFacts, BackIsOldest
  <2>. QED  BY <2>2, <2>3, ContentFacts
<1>6. /\ rest \in Seq(Keys) /\ Elems(rest) = kept
      /\ \A x, y : Behind(rest, x, y) <=> Behind(list_, x, y) /\ x \notin gone /\ y \notin gone
  <2>1. list_ \in Seq(Keys) /\ Distinct(list_) /\ Elems(list_) = DOMAIN map_
    BY DEF Core, Shape, ListMatchesMap
  <2>2. CASE MustEvict
    <3>1. Len(list_) \in DOMAIN list_
      BY <2>2, BackFacts
    <3>. QED  BY <2>1, <2>2, <3>1, EraseFacts, EraseBehind
  <2>3. CASE ~MustEvict
    BY <2>1, <2>3
  <2>. QED  BY <2>2, <2>3
<1>7. kept = DOMAIN ContentBar \ gone /\ kept \subseteq Keys
  BY ContentFacts DEF Core, Shape
<1> HIDE DEF gone, kept, rest
<1>8. ASSUME NEW j \in kept PROVE Kept(j)' = ContentBar[j]
  <2>1. j \in DOMAIN map_ /\ j \notin gone
    BY <1>7, <1>8, ContentFacts
  <2>2. map_[j].vec \in Bufs /\ map_[j].vec # b /\ \A i \in gone : map_[j].vec # map_[i].vec
    BY <1>1, <2>1, HeapFacts, FreeAssumption DEF Core, OwnedBuffers
  <2>3. heap'[map_[j].vec] = heap[map_[j].vec]
    BY <1>3, <2>2
  <2>. QED  BY <1>2, <2>1, <2>3, ContentFacts DEF Kept
<1>9. Kept(k)' = Promise!Store(k, v)
  <2>1. heap'[b] = v
    BY <1>3
  <2>. QED  BY <1>2, <2>1, StoreFacts DEF Kept
<1>10. ContentBar' = [j \in kept \cup {k} |-> IF j = k THEN Promise!Store(k, v) ELSE ContentBar[j]]
  BY <1>2, <1>8, <1>9, ContentFactsNext
<1> DEFINE before == {p \in OlderBar : {p[1], p[2]} \cap gone = {}}
<1>11. OlderBar' = Promise!UsedNow(before, kept, k)
  <2>1. \A x, y : <<x, y>> \in before <=> <<x, y>> \in OlderBar /\ x \notin gone /\ y \notin gone
    OBVIOUS
  <2>2. before \subseteq Keys \X Keys
    BY OlderMember
  <2> HIDE DEF before
  <2>3. k \notin Elems(rest)
    BY <1>2, <1>6
  <2>4. ASSUME NEW x \in Keys, NEW y \in Keys
        PROVE  <<x, y>> \in OlderBar' <=> <<x, y>> \in Promise!UsedNow(before, kept, k)
    <3>1. Behind(list_', x, y) <=> \/ Behind(rest, x, y) /\ x # k /\ y # k
                                   \/ x \in kept /\ x # k /\ y = k
      BY <1>4, <1>6, <2>3, PushBehind
    <3>2. Behind(rest, x, y) <=> <<x, y>> \in before
      BY <1>6, <2>1, OlderMember
    <3>. QED  BY <3>1, <3>2, OlderMemberNext, UsedNowMember
  <2>5. Promise!UsedNow(before, kept, k) \subseteq Keys \X Keys
    BY <1>7, <2>2 DEF Promise!UsedNow
  <2>6. OlderBar' \subseteq Keys \X Keys
    BY OlderMemberNext
  <2>. QED  BY <2>4, <2>5, <2>6, SamePairs
<1>12. k \notin DOMAIN ContentBar /\ gone \in SUBSET DOMAIN ContentBar
  BY <1>1, ContentFacts
<1>13. LET rem == DOMAIN ContentBar \ gone IN
      /\ ContentBar' = [j \in rem \cup {k} |-> IF j = k THEN Promise!Store(k, v) ELSE ContentBar[j]]
      /\ OlderBar' = Promise!UsedNow(before, rem, k)
  BY <1>7, <1>10, <1>11
<1>. HIDE DEF before
<1>14. \E g \in SUBSET DOMAIN ContentBar :
         /\ IF Cardinality(DOMAIN ContentBar) < Capacity THEN g = {}
            ELSE \E x \in DOMAIN ContentBar : Promise!Oldest(x) /\ g = {x}
         /\ LET rem == DOMAIN ContentBar \ g IN
            /\ ContentBar' = [j \in rem \cup {k} |-> IF j = k THEN Promise!Store(k, v) ELSE ContentBar[j]]
            /\ OlderBar' = Promise!UsedNow({p \in OlderBar : {p[1], p[2]} \cap g = {}}, rem, k)
  <2>. WITNESS gone \in SUBSET DOMAIN ContentBar
  <2>. QED  BY <1>5, <1>13 DEF before
<1>. QED  BY <1>12, <1>14, PromiseCounts DEF Promise!Insert

-----------------------------------------------------------------------------
LEMMA InitPromise == Init => Promise!Init
<1>. SUFFICES ASSUME Init PROVE Promise!Init
  OBVIOUS
<1>1. DOMAIN map_ = {} /\ list_ = <<>> /\ now = 0 /\ ret = Done
  BY DEF Init
<1>2. ContentBar = <<>>
  BY <1>1 DEF ContentBar
<1>3. OlderBar = {}
  BY <1>1 DEF OlderBar
<1>. QED  BY <1>1, <1>2, <1>3 DEF Promise!Init

(* Every locked method is a step of the promise. *)
LEMMA NextPromise ==
    ASSUME Core, [Next]_vars
    PROVE  Promise!Next \/ UNCHANGED Promise!vars
<1>1. ASSUME NEW k \in Keys, Get(k) PROVE Promise!Lookup(k)
  BY <1>1, LookupKeeps DEF Get
<1>2. ASSUME NEW k \in Keys, NEW hasOut \in BOOLEAN, NEW room \in Rooms,
             GetCopy(k, hasOut, room)
      PROVE  Promise!Lookup(k)
  BY <1>2, LookupKeeps DEF GetCopy
<1>3. ASSUME NEW k \in Keys, NEW v \in Vecs, Put(k, v)
      PROVE  Promise!Overwrite(k, v) \/ Promise!Insert(k, v)
  <2>1. PICK b \in Bufs :
          /\ heap[b] = Free
          /\ \/ k \in DOMAIN map_ /\ PutExisting(k, v, b)
             \/ k \notin DOMAIN map_ /\ PutNew(k, v, b)
    BY <1>3 DEF Put
  <2>2. now' = now /\ ret' = Done
    BY <1>3 DEF Put
  <2>. QED  BY <2>1, <2>2, PutExistingOverwrites, PutNewInserts
<1>4. ASSUME NEW k \in Keys, NEW v \in Vecs, PutNoMemory(k, v) PROVE Promise!Dropped
  BY <1>4 DEF PutNoMemory, Promise!Dropped, ContentBar, OlderBar
<1>5. CASE Clear
  <2>1. DOMAIN map_' = {} /\ list_' = <<>> /\ now' = now /\ ret' = Done
    BY <1>5 DEF Clear
  <2>2. ContentBar' = <<>>
    BY <2>1 DEF ContentBar
  <2>3. OlderBar' = {}
    BY <2>1 DEF OlderBar
  <2>. QED  BY <2>1, <2>2, <2>3 DEF Promise!Next, Promise!Clear
<1>6. CASE Tick
  BY <1>6 DEF Tick, Promise!Next, Promise!Tick, ContentBar, OlderBar
<1>7. CASE UNCHANGED vars
  BY <1>7 DEF vars, Promise!vars, ContentBar, OlderBar
<1>. QED
  BY <1>1, <1>2, <1>3, <1>4, <1>5, <1>6, <1>7 DEF Next, Promise!Next

(* The cache is the bounded, least-recently-used map of CachePromise.      *)
THEOREM CacheImplementsPromise == Spec => KeepsPromise
<1>1. IInv /\ [Next]_vars => [Promise!Next]_Promise!vars
  BY NextPromise DEF IInv
<1>. QED
  BY <1>1, InitPromise, SpecIInv, PTL DEF Spec, KeepsPromise, Promise!Spec

-----------------------------------------------------------------------------
(* Threads that share the cache: a lookup through the locked calls never   *)
(* answers with what was not stored, and the cache keeps its promise under *)
(* all of them.                                                            *)

(* Each entry's buffer holds a vector that callers store under its text.   *)
Stored == \A k \in DOMAIN map_ : heap[map_[k].vec] \in VecsFor[k]

(* A thread between the two passes knows its text and the dimension of a   *)
(* vector that was stored under it, though perhaps no longer is.           *)
SecondPass(k, d) == [at |-> "pass2", key |-> k, dim |-> d]

Pending ==
    /\ DOMAIN pc = Threads
    /\ \A t \in Threads : pc[t] = Idle \/
          \E k \in Keys : \E v \in VecsFor[k] : pc[t] = SecondPass(k, DimOf[v])

ClientInv == Core /\ Stored /\ Pending /\ AnswersAreStored

-----------------------------------------------------------------------------
(* A lookup leaves the buffers of the texts that stay as they were.        *)
LEMMA TouchStored ==
    ASSUME Core, Stored, NEW k \in Keys, Touch(k)
    PROVE  Stored'
<1>1. CASE UNCHANGED <<map_, heap>>
  BY <1>1 DEF Stored
<1>2. CASE k \in DOMAIN map_ /\ Remove(k)
  <2>1. DOMAIN map_' = DOMAIN map_ \ {k} /\ \A j \in DOMAIN map_' : map_'[j] = map_[j]
    BY <1>2 DEF Remove
  <2>2. \A j \in DOMAIN map_' : map_[j].vec \in Bufs /\ map_[j].vec # map_[k].vec
    BY <1>2, <2>1, HeapFacts DEF Core, OwnedBuffers
  <2>3. \A j \in DOMAIN map_' : heap'[map_[j].vec] = heap[map_[j].vec]
    BY <1>2, <2>2 DEF Remove, Core, Shape
  <2>. QED  BY <2>1, <2>3 DEF Stored
<1>. QED  BY <1>1, <1>2 DEF Touch

(* A put stores the vector under its text and moves no other.              *)
LEMMA PutStored ==
    ASSUME Core, Stored, NEW k \in Keys, NEW v \in VecsFor[k], Put(k, v)
    PROVE  Core' /\ Stored'
<1>1. PICK b \in Bufs :
        /\ heap[b] = Free
        /\ \/ k \in DOMAIN map_ /\ PutExisting(k, v, b)
           \/ k \notin DOMAIN map_ /\ PutNew(k, v, b)
  BY DEF Put
<1>2. v \in Vecs /\ now' = now
  BY StoredAssumption DEF Put
<1>3. Core'
  BY <1>1, <1>2, PutExistingStep, PutNewStep
<1>4. NewEntry(v, b).vec = b
  BY <1>2, NewEntryType
<1>5. \A j \in DOMAIN map_ : map_[j].vec \in Bufs /\ map_[j].vec # b
  BY <1>1, HeapFacts, FreeAssumption
<1>6. CASE k \in DOMAIN map_ /\ PutExisting(k, v, b)
  <2>1. \A j \in DOMAIN map_ : j # k => map_[j].vec # map_[k].vec
    BY <1>6 DEF Core, OwnedBuffers
  <2>2. /\ DOMAIN map_' = DOMAIN map_
        /\ \A j \in DOMAIN map_ : map_'[j] = IF j = k THEN NewEntry(v, b) ELSE map_[j]
    BY <1>6 DEF PutExisting, Core, Shape
  <2>3. heap'[b] = v /\ \A j \in DOMAIN map_ : j # k => heap'[map_[j].vec] = heap[map_[j].vec]
    BY <1>5, <1>6, <2>1 DEF PutExisting, Core, Shape
  <2>4. Stored'
    BY <1>4, <2>2, <2>3 DEF Stored
  <2>. QED  BY <1>3, <2>4
<1>7. CASE k \notin DOMAIN map_ /\ PutNew(k, v, b)
  <2> DEFINE gone == IF MustEvict THEN {list_[Len(list_)]} ELSE {}
  <2>1. gone \subseteq DOMAIN map_
    BY BackFacts
  <2>2. /\ DOMAIN map_' = (DOMAIN map_ \ gone) \cup {k} /\ map_'[k] = NewEntry(v, b)
        /\ \A j \in DOMAIN map_ \ gone : j # k /\ map_'[j] = map_[j]
    BY <1>7 DEF PutNew
  <2>3. heap' = [a \in Bufs |-> IF a = b THEN v
                                ELSE IF \E j \in gone : a = map_[j].vec THEN Free ELSE heap[a]]
    BY <1>7 DEF PutNew
  <2> HIDE DEF gone
  <2>4. \A j \in DOMAIN map_ \ gone, i \in gone : map_[j].vec # map_[i].vec
    BY <2>1 DEF Core, OwnedBuffers
  <2>5. heap'[b] = v /\ \A j \in DOMAIN map_ \ gone : heap'[map_[j].vec] = heap[map_[j].vec]
    BY <1>5, <2>3, <2>4
  <2>6. Stored'
    BY <1>4, <2>2, <2>5 DEF Stored
  <2>. QED  BY <1>3, <2>6
<1>. QED  BY <1>1, <1>6, <1>7

(* A copy that returned a vector copied the entry's, of its own dimension. *)
LEMMA CopiedIsStored ==
    ASSUME Core, Stored, NEW k \in Keys, NEW hasOut \in BOOLEAN, NEW room,
           GetCopy(k, hasOut, room), ret' \in Vecs
    PROVE  /\ k \in DOMAIN map_ /\ ret' \in VecsFor[k]
           /\ map_[k].dim = DimOf[ret']
<1>1. k \in DOMAIN map_ /\ ret' = heap[map_[k].vec]
  BY AnswerAssumption DEF GetCopy, Found
<1>2. map_[k].dim = DimOf[heap[map_[k].vec]]
  BY <1>1 DEF Core, DimsAgree, OwnedBuffers
<1>. QED  BY <1>1, <1>2 DEF Stored

(* The other answers of the copy. *)
LEMMA CopyAnswers ==
    ASSUME Core, Stored, NEW k \in Keys, NEW hasOut \in BOOLEAN, NEW room,
           GetCopy(k, hasOut, room)
    PROVE  ret' \in VecsFor[k] \cup {Miss, TooSmall}
BY DEF GetCopy, Found, Stored

-----------------------------------------------------------------------------
LEMMA InitClientInv == ClientInit => ClientInv
BY InitIInv DEF ClientInit, ClientInv, IInv, Init, Stored, Pending, AnswersAreStored

LEMMA GetCopyKeeps ==
    ASSUME Core, Stored, NEW k \in Keys, NEW hasOut \in BOOLEAN, NEW room,
           GetCopy(k, hasOut, room)
    PROVE  Core' /\ Stored'
BY TouchStep, TouchStored DEF GetCopy

(* What a thread answers and where it goes on, for each of its calls.      *)
LEMMA StepClientInv == ClientInv /\ [LockedNext]_clientVars => ClientInv'
<1>. SUFFICES ASSUME ClientInv, [LockedNext]_clientVars PROVE ClientInv'
  OBVIOUS
<1>0. Core /\ Stored /\ Pending
  BY DEF ClientInv
<1>1. ASSUME Unanswered PROVE Pending' /\ AnswersAreStored'
  BY <1>0, <1>1 DEF Unanswered, Pending, AnswersAreStored
<1>2. ASSUME NEW t \in Threads, NEW k \in Keys, NEW val, Answer(t, k, val),
             \/ val \in VecsFor[k] \cup {Miss, TooSmall}
             \/ val = Garbage /\ ~OneDimension(k)
      PROVE  Pending' /\ AnswersAreStored'
  BY <1>0, <1>2 DEF Answer, Pending, AnswersAreStored
<1>3. ASSUME NEW t \in Threads, NEW k \in Keys, DoGet(t, k) PROVE ClientInv'
  <2>1. Core' /\ Stored'
    BY <1>0, <1>3, TouchStep, TouchStored DEF DoGet, Get
  <2>. QED  BY <1>1, <1>3, <2>1 DEF DoGet, ClientInv
<1>4. ASSUME NEW t \in Threads, NEW k \in Keys, NEW v \in VecsFor[k], DoPut(t, k, v)
      PROVE  ClientInv'
  <2>1. CASE Put(k, v)
    BY <1>0, <1>1, <1>4, <2>1, PutStored DEF DoPut, ClientInv
  <2>2. CASE PutNoMemory(k, v)
    <3>1. Core' /\ Stored'
      BY <1>0, <2>2 DEF PutNoMemory, Core, Shape, ListMatchesMap, OwnedBuffers, DimsAgree,
                        WithinCapacity, Stored
    <3>. QED  BY <1>1, <1>4, <3>1 DEF DoPut, ClientInv
  <2>. QED  BY <1>4, <2>1, <2>2 DEF DoPut
<1>5. ASSUME NEW t \in Threads, NEW k \in Keys, NEW room \in Rooms, DoGetCopy(t, k, room)
      PROVE  ClientInv'
  <2>1. Core' /\ Stored'
    BY <1>0, <1>5, GetCopyKeeps DEF DoGetCopy
  <2>2. ret' \in VecsFor[k] \cup {Miss, TooSmall}
    BY <1>0, <1>5, CopyAnswers DEF DoGetCopy
  <2>. QED  BY <1>2, <1>5, <2>1, <2>2 DEF DoGetCopy, ClientInv
<1>6. ASSUME NEW t \in Threads, NEW k \in Keys, NEW expected \in Rooms, PyPass1(t, k, expected)
      PROVE  ClientInv'
  <2>1. Core' /\ Stored'
    BY <1>0, <1>6, GetCopyKeeps DEF PyPass1
  <2>2. CASE Answer(t, k, Miss)
    BY <1>2, <2>1, <2>2 DEF ClientInv
  <2>3. CASE Found(k) /\ Answer(t, k, heap[map_[k].vec])
    <3>1. heap[map_[k].vec] \in VecsFor[k]
      BY <1>0, <2>3 DEF Found, Stored
    <3>. QED  BY <1>2, <2>1, <2>3, <3>1 DEF ClientInv
  <2>4. CASE Found(k) /\ Continue(t, SecondPass(k, map_[k].dim))
    <3>1. heap[map_[k].vec] \in VecsFor[k] /\ map_[k].dim = DimOf[heap[map_[k].vec]]
      BY <1>0, <2>4 DEF Found, Stored, Core, DimsAgree, OwnedBuffers
    <3>2. Pending'
      BY <1>0, <2>4, <3>1 DEF Continue, Pending
    <3>. QED  BY <2>1, <2>4, <3>2 DEF Continue, ClientInv, AnswersAreStored
  <2>. QED  BY <1>6, <2>2, <2>3, <2>4 DEF PyPass1, SecondPass
<1>7. ASSUME NEW t \in Threads, DoClear(t) PROVE ClientInv'
  <2>1. Core' /\ Stored'
    BY <1>0, <1>7, ClearStep DEF DoClear, Clear, Stored
  <2>. QED  BY <1>1, <1>7, <2>1 DEF DoClear, ClientInv
<1>8. ASSUME NEW t \in Threads, PyPass2(t) PROVE ClientInv'
  <2>0. PICK k \in Keys : \E v \in VecsFor[k] : pc[t] = SecondPass(k, DimOf[v])
    BY <1>0, <1>8 DEF PyPass2, Pending, Idle
  <2>1. PICK v \in VecsFor[k] : pc[t] = SecondPass(k, DimOf[v])
    BY <2>0
  <2>2. pc[t].key = k /\ pc[t].dim = DimOf[v]
    BY <2>1 DEF SecondPass
  <2>3. GetCopy(k, TRUE, DimOf[v])
    BY <1>8, <2>2 DEF PyPass2
  <2>4. Core' /\ Stored'
    BY <1>0, <2>3, GetCopyKeeps
  <2>5. CASE ret' \notin Vecs
    <3>1. Answer(t, k, Miss)
      BY <1>8, <2>2, <2>5 DEF PyPass2
    <3>. QED  BY <1>2, <2>4, <3>1 DEF ClientInv
  <2>6. CASE ret' \in Vecs
    <3>1. ret' \in VecsFor[k] /\ map_[k].dim = DimOf[ret']
      BY <1>0, <2>3, <2>6, CopiedIsStored
    <3>2. CASE map_[k].dim = DimOf[v]
      <4>1. Answer(t, k, ret')
        BY <1>8, <2>2, <2>6, <3>2 DEF PyPass2
      <4>. QED  BY <1>2, <2>4, <3>1, <4>1 DEF ClientInv
    <3>3. CASE map_[k].dim # DimOf[v]
      <4>1. Answer(t, k, Garbage)
        BY <1>8, <2>2, <2>6, <3>3 DEF PyPass2
      <4>2. ~OneDimension(k)
        BY <3>1, <3>3 DEF OneDimension
      <4>. QED  BY <1>2, <2>4, <4>1, <4>2 DEF ClientInv
    <3>. QED  BY <3>2, <3>3
  <2>. QED  BY <2>5, <2>6
<1>9. ASSUME Tick, Unanswered PROVE ClientInv'
  <2>1. Core' /\ Stored'
    BY <1>0, <1>9 DEF Tick, Core, Shape, ListMatchesMap, OwnedBuffers, DimsAgree,
                      WithinCapacity, Stored
  <2>. QED  BY <1>1, <1>9, <2>1 DEF ClientInv
<1>10. ASSUME UNCHANGED clientVars PROVE ClientInv'
  BY <1>10 DEF clientVars, ClientInv, Core, Shape, ListMatchesMap, OwnedBuffers, DimsAgree,
              WithinCapacity, Stored, Pending, AnswersAreStored
<1>. QED
  BY <1>3, <1>4, <1>5, <1>6, <1>7, <1>8, <1>9, <1>10 DEF LockedNext

(* Whatever other threads do between the two passes of a lookup, it        *)
(* answers with a vector stored under its text, or with none.              *)
THEOREM LookupsAnswerWhatWasStored == LockedSpec => []AnswersAreStored
<1>1. ClientInv => AnswersAreStored
  BY DEF ClientInv
<1>. QED  BY <1>1, InitClientInv, StepClientInv, PTL DEF LockedSpec

(* The threads' calls are the cache's methods, so shared use keeps the     *)
(* promise of a bounded, least-recently-used map.                          *)
THEOREM SharedCacheKeepsPromise == LockedSpec => KeepsPromise
<1>1. ASSUME ClientInv, [LockedNext]_clientVars
      PROVE  [Next]_vars
  <2>1. ASSUME NEW t \in Threads, PyPass2(t) PROVE Next
    <3>1. PICK k \in Keys : \E v \in VecsFor[k] : pc[t] = SecondPass(k, DimOf[v])
      BY <1>1, <2>1 DEF PyPass2, ClientInv, Pending, Idle
    <3>2. pc[t].key = k /\ pc[t].dim \in Rooms
      BY <3>1, StoredAssumption DEF SecondPass, Rooms
    <3>3. GetCopy(k, TRUE, pc[t].dim)
      BY <2>1, <3>2 DEF PyPass2
    <3>. QED  BY <3>2, <3>3 DEF Next
  <2>2. ASSUME NEW t \in Threads, NEW k \in Keys,
               \/ DoGet(t, k)
               \/ \E v \in VecsFor[k] : DoPut(t, k, v)
               \/ \E room \in Rooms : DoGetCopy(t, k, room)
               \/ \E expected \in Rooms : PyPass1(t, k, expected)
        PROVE  Next
    BY <2>2, StoredAssumption DEF DoGet, DoPut, DoGetCopy, PyPass1, Next, Rooms
  <2>3. ASSUME NEW t \in Threads, DoClear(t) PROVE Next
    BY <2>3 DEF DoClear, Next
  <2>4. ASSUME Tick PROVE Next
    BY <2>4 DEF Next
  <2>5. ASSUME UNCHANGED clientVars PROVE UNCHANGED vars
    BY <2>5 DEF clientVars, vars
  <2>. QED  BY <1>1, <2>1, <2>2, <2>3, <2>4, <2>5 DEF LockedNext
<1>2. ClientInv /\ [LockedNext]_clientVars => [Promise!Next]_Promise!vars
  BY <1>1, NextPromise DEF ClientInv
<1>3. ClientInit => Promise!Init
  BY InitPromise DEF ClientInit
<1>. QED
  BY <1>2, <1>3, InitClientInv, StepClientInv, PTL DEF LockedSpec, KeepsPromise, Promise!Spec
=============================================================================
