------------------------------ MODULE LRUCache ------------------------------
(***************************************************************************)
(* The embedding cache of detail/embedding_cache_impl.hpp: a hash map from *)
(* text to entry, a list of the texts from the most to the least recently  *)
(* used, and one malloc'ed buffer per entry.  Every public method holds    *)
(* mtx_ for its whole body, so each is one action here; what callers do    *)
(* with a pointer after the lock is released is in CacheClients.           *)
(*                                                                         *)
(* The vector itself is abstract: a buffer holds a member of Vecs, and     *)
(* DimOf gives its number of floats.  The entry's list iterator `it' is    *)
(* the position of its key in list_.                                       *)
(***************************************************************************)
EXTENDS Naturals, Sequences, FiniteSets

CONSTANTS
    Keys,       \* texts
    Vecs,       \* embedding vectors
    DimOf,      \* the dimension of each vector
    Bufs,       \* addresses malloc can return
    Capacity,   \* capacity_: lembed_cache_create and the models refuse 0
    TTL,        \* ttl_seconds_, 0 for none
    MaxTime,    \* bound on the clock
    Free,       \* content of a buffer that is not allocated
    Miss, TooSmall, Done    \* answers without a vector

ASSUME CapacityAssumption == Capacity \in Nat \ {0}
ASSUME TTLAssumption == TTL \in Nat /\ MaxTime \in Nat
ASSUME DimAssumption == DimOf \in [Vecs -> Nat]
ASSUME FreeAssumption == Free \notin Vecs

VARIABLES
    map_,       \* std::unordered_map<std::string, Entry*>
    list_,      \* std::list<std::string>, front first
    heap,       \* what each address holds: a vector, or Free
    now,        \* time(nullptr)
    ret         \* the answer of the last call

vars == <<map_, list_, heap, now, ret>>

Entry == [vec : Bufs, dim : Nat, expires_at : Nat]

Init ==
    /\ map_ = [k \in {} |-> Free]
    /\ list_ = <<>>
    /\ heap = [b \in Bufs |-> Free]
    /\ now = 0
    /\ ret = Done

-----------------------------------------------------------------------------
(* The list operations the code uses. *)

Distinct(s) == \A i, j \in DOMAIN s : s[i] = s[j] => i = j
Elems(s) == {s[i] : i \in DOMAIN s}

It(k) == CHOOSE i \in DOMAIN list_ : list_[i] = k

SpliceToFront(s, i) ==
    [j \in 1..Len(s) |-> IF j = 1 THEN s[i] ELSE IF j <= i THEN s[j-1] ELSE s[j]]

Erase(s, i) ==
    [j \in 1..(Len(s) - 1) |-> IF j < i THEN s[j] ELSE s[j+1]]

PushFront(s, k) ==
    [j \in 1..(Len(s) + 1) |-> IF j = 1 THEN k ELSE s[j-1]]

-----------------------------------------------------------------------------
Expired(k) == TTL > 0 /\ now > map_[k].expires_at

Found(k) == k \in DOMAIN map_ /\ ~Expired(k)

(* remove: the entry's buffer, its list node and the entry itself. *)
RemoveKeepingNode(k) ==
    /\ map_' = [j \in DOMAIN map_ \ {k} |-> map_[j]]
    /\ list_' = list_
    /\ heap' = [heap EXCEPT ![map_[k].vec] = Free]
Remove(k) ==
    /\ map_' = [j \in DOMAIN map_ \ {k} |-> map_[j]]
    /\ list_' = Erase(list_, It(k))
    /\ heap' = [heap EXCEPT ![map_[k].vec] = Free]

(* touch: a miss leaves everything, an expired entry is removed, a live    *)
(* one moves to the front.                                                 *)
Touch(k) ==
    \/ /\ k \notin DOMAIN map_
       /\ UNCHANGED <<map_, list_, heap>>
    \/ /\ k \in DOMAIN map_
       /\ Expired(k)
       /\ Remove(k)
    \/ /\ Found(k)
       /\ list_' = SpliceToFront(list_, It(k))
       /\ UNCHANGED <<map_, heap>>

(* get: the borrowed pointer, recorded as the vector it leads to when the  *)
(* call returns.                                                           *)
Get(k) ==
    /\ Touch(k)
    /\ ret' = IF Found(k) THEN heap[map_[k].vec] ELSE Miss
    /\ UNCHANGED now

(* get_copy into `room' floats of caller storage; hasOut is FALSE when the *)
(* caller passes NULL to learn the dimension.                              *)
GetCopy(k, hasOut, room) ==
    /\ Touch(k)
    /\ ret' = IF ~Found(k) THEN Miss
              ELSE IF ~hasOut \/ room < map_[k].dim THEN TooSmall
              ELSE heap[map_[k].vec]
    /\ UNCHANGED now

NewEntry(v, b) ==
    [vec |-> b, dim |-> DimOf[v],
     expires_at |-> IF TTL > 0 THEN now + TTL ELSE 0]

(* put, when malloc returns address b: overwrite in place ... *)
PutExistingOldDim(k, v, b) ==
    /\ map_' = [map_ EXCEPT ![k] = [NewEntry(v, b) EXCEPT !.dim = map_[k].dim]]
    /\ list_' = SpliceToFront(list_, It(k))
    /\ heap' = [heap EXCEPT ![map_[k].vec] = Free, ![b] = v]
PutExistingStale(k, v, b) ==
    /\ map_' = [map_ EXCEPT ![k] = [NewEntry(v, b) EXCEPT !.vec = map_[k].vec]]
    /\ list_' = SpliceToFront(list_, It(k))
    /\ heap' = [heap EXCEPT ![map_[k].vec] = Free, ![b] = v]
PutExisting(k, v, b) ==
    /\ map_' = [map_ EXCEPT ![k] = NewEntry(v, b)]
    /\ list_' = SpliceToFront(list_, It(k))
    /\ heap' = [heap EXCEPT ![map_[k].vec] = Free, ![b] = v]

(* ... or insert, evicting the back of the list first when full.           *)
MustEvict == Cardinality(DOMAIN map_) >= Capacity

PutNewAtBack(k, v, b) ==
    LET gone == IF MustEvict THEN {list_[Len(list_)]} ELSE {} IN
    /\ map_' = [j \in (DOMAIN map_ \ gone) \cup {k} |->
                  IF j = k THEN NewEntry(v, b) ELSE map_[j]]
    /\ list_' = Append(IF MustEvict THEN Erase(list_, Len(list_)) ELSE list_, k)
    /\ heap' = [a \in Bufs |->
                  IF a = b THEN v
                  ELSE IF \E j \in gone : a = map_[j].vec THEN Free
                  ELSE heap[a]]
PutNew(k, v, b) ==
    LET gone == IF MustEvict THEN {list_[Len(list_)]} ELSE {} IN
    /\ map_' = [j \in (DOMAIN map_ \ gone) \cup {k} |->
                  IF j = k THEN NewEntry(v, b) ELSE map_[j]]
    /\ list_' = PushFront(IF MustEvict THEN Erase(list_, Len(list_)) ELSE list_, k)
    /\ heap' = [a \in Bufs |->
                  IF a = b THEN v
                  ELSE IF \E j \in gone : a = map_[j].vec THEN Free
                  ELSE heap[a]]

Put(k, v) ==
    /\ \E b \in Bufs :
         /\ heap[b] = Free
         /\ \/ k \in DOMAIN map_ /\ PutExisting(k, v, b)
            \/ k \notin DOMAIN map_ /\ PutNew(k, v, b)
    /\ ret' = Done
    /\ UNCHANGED now

(* malloc returned NULL: put returns and an older vector of k stays.       *)
PutNoMemory(k, v) ==
    /\ ret' = Done
    /\ UNCHANGED <<map_, list_, heap, now>>

(* clear, which is also all the destructor does. *)
Clear ==
    /\ map_' = [k \in {} |-> Free]
    /\ list_' = <<>>
    /\ heap' = [b \in Bufs |-> IF \E k \in DOMAIN map_ : map_[k].vec = b
                               THEN Free ELSE heap[b]]
    /\ ret' = Done
    /\ UNCHANGED now

Tick == now < MaxTime /\ now' = now + 1 /\ UNCHANGED <<map_, list_, heap, ret>>

Rooms == {DimOf[v] : v \in Vecs} \cup {0}

Next ==
    \/ \E k \in Keys : Get(k)
    \/ \E k \in Keys, hasOut \in BOOLEAN, room \in Rooms : GetCopy(k, hasOut, room)
    \/ \E k \in Keys, v \in Vecs : Put(k, v)
    \/ \E k \in Keys, v \in Vecs : PutNoMemory(k, v)
    \/ Clear
    \/ Tick

Spec == Init /\ [][Next]_vars

-----------------------------------------------------------------------------
Answers == Vecs \cup {Miss, TooSmall, Done}

(* Type correctness of the cache's state. *)
TypeOK ==
    /\ DOMAIN map_ \subseteq Keys
    /\ map_ \in [DOMAIN map_ -> Entry]
    /\ list_ \in Seq(Keys)
    /\ heap \in [Bufs -> Vecs \cup {Free}]
    /\ now \in Nat
    /\ ret \in Answers

(* The list holds each cached text exactly once and nothing else: splice,  *)
(* erase and eviction never lose or duplicate a node.                      *)
ListMatchesMap ==
    /\ Distinct(list_)
    /\ DOMAIN map_ = Elems(list_)

(* Each entry owns one allocated buffer, no two entries share one, and     *)
(* every allocated buffer has an owner: nothing is freed twice, read after *)
(* being freed under the lock, or leaked.                                  *)
OwnedBuffers ==
    /\ \A k \in DOMAIN map_ : heap[map_[k].vec] # Free
    /\ \A j, k \in DOMAIN map_ : map_[j].vec = map_[k].vec => j = k
    /\ \A b \in Bufs : heap[b] # Free => \E k \in DOMAIN map_ : map_[k].vec = b

(* The dimension an entry records is that of the vector in its buffer, so  *)
(* the memcpy in get_copy stays inside the allocation.                     *)
DimsAgree == \A k \in DOMAIN map_ : heap[map_[k].vec] # Free
                 => map_[k].dim = DimOf[heap[map_[k].vec]]

(* Both: every lookup under the lock reads an allocated buffer, that no    *)
(* other text owns, and no further than its end; and none is leaked.       *)
BuffersSound == OwnedBuffers /\ DimsAgree

(* The cache never holds more texts than its capacity. *)
WithinCapacity == Cardinality(DOMAIN map_) <= Capacity

-----------------------------------------------------------------------------
(* The refinement mapping: what the buffers hold, and the list as the      *)
(* relation "used before".                                                 *)
ContentBar == [k \in DOMAIN map_ |->
                 [val |-> heap[map_[k].vec], until |-> map_[k].expires_at]]
OlderBar == {p \in Keys \X Keys : \E i, j \in DOMAIN list_ :
               i < j /\ p = <<list_[j], list_[i]>>}

Promise == INSTANCE CachePromise WITH content <- ContentBar, older <- OlderBar

(* The list-and-buffer cache implements the bounded, least-recently-used   *)
(* partial map that CachePromise describes.                                *)
KeepsPromise == Promise!Spec
=============================================================================
