---------------------------- MODULE CacheClients ----------------------------
(***************************************************************************)
(* Threads that share one LRUCache.  A locked method is one step; what a   *)
(* caller does between two locked methods, or with a borrowed pointer once *)
(* the lock is released, is a step of its own:                             *)
(*   - the std::vector overload of get_copy, which calls get() and copies  *)
(*     from the borrowed pointer afterwards;                               *)
(*   - EmbeddingCache.get in Python, which asks for the dimension first    *)
(*     and copies in a second call.                                        *)
(***************************************************************************)
EXTENDS LRUCache

CONSTANTS
    Threads,
    VecsFor,    \* the vectors callers store under each text
    Garbage     \* an array of floats that nobody stored

ASSUME StoredAssumption == VecsFor \in [Keys -> SUBSET Vecs]
ASSUME AnswerAssumption == Miss \notin Vecs /\ TooSmall \notin Vecs

VARIABLES
    pc,         \* pc[t]: where thread t is in its call, and its locals
    ans         \* the answer of the lookup that has just ended, if one has

clientVars == <<map_, list_, heap, now, ret, pc, ans>>

Idle == [at |-> "idle"]

ClientInit == Init /\ pc = [t \in Threads |-> Idle] /\ ans = {}

Ready(t) == pc[t] = Idle

Answer(t, k, val) ==
    /\ pc' = [pc EXCEPT ![t] = Idle]
    /\ ans' = {[key |-> k, val |-> val]}

Continue(t, locals) == pc' = [pc EXCEPT ![t] = locals] /\ ans' = {}

Unanswered == UNCHANGED pc /\ ans' = {}

-----------------------------------------------------------------------------
(* One locked call each: lembed_cache_put, lembed_cache_clear,             *)
(* lembed_cache_get and lembed_cache_get_copy.                             *)
DoPut(t, k, v) ==
    /\ Ready(t)
    /\ Put(k, v) \/ PutNoMemory(k, v)
    /\ Unanswered

DoClear(t) == Ready(t) /\ Clear /\ Unanswered

(* get, whose borrowed pointer is only compared with NULL here.            *)
DoGet(t, k) == Ready(t) /\ Get(k) /\ Unanswered

DoGetCopy(t, k, room) ==
    /\ Ready(t)
    /\ GetCopy(k, TRUE, room)
    /\ Answer(t, k, ret')

-----------------------------------------------------------------------------
(* get_copy(key, std::vector&): the locked half ... *)
VecCall(t, k) ==
    /\ Ready(t)
    /\ Get(k)
    /\ IF Found(k) /\ map_[k].dim > 0
       THEN Continue(t, [at |-> "reading", key |-> k,
                         buf |-> map_[k].vec, dim |-> map_[k].dim])
       ELSE Answer(t, k, Miss)

(* ... and out.assign(vec, vec + dim), from whatever the buffer holds now. *)
VecRead(t) ==
    /\ pc[t].at = "reading"
    /\ LET v == heap[pc[t].buf] IN
       Answer(t, pc[t].key,
              IF v # Free /\ DimOf[v] = pc[t].dim THEN v ELSE Garbage)
    /\ UNCHANGED <<map_, list_, heap, now, ret>>

-----------------------------------------------------------------------------
(* EmbeddingCache.get, pass 1: the dimension only. *)
PyPass1(t, k, expected) ==
    /\ Ready(t)
    /\ GetCopy(k, FALSE, 0)
    /\ IF ~Found(k) \/ (expected > 0 /\ map_[k].dim # expected)
       THEN Answer(t, k, Miss)
       ELSE IF map_[k].dim = 0 THEN Answer(t, k, heap[map_[k].vec])
       ELSE Continue(t, [at |-> "pass2", key |-> k, dim |-> map_[k].dim])

(* Pass 2: copy into `dim' zeroed floats.  A shorter vector fills only the *)
(* head of the array that is returned.                                     *)
PyPass2NoStatus(t) ==
    /\ pc[t].at = "pass2"
    /\ LET k == pc[t].key IN
       /\ GetCopy(k, TRUE, pc[t].dim)
       /\ Answer(t, k, IF Found(k) /\ map_[k].dim = pc[t].dim THEN ret' ELSE Garbage)
PyPass2(t) ==
    /\ pc[t].at = "pass2"
    /\ LET k == pc[t].key IN
       /\ GetCopy(k, TRUE, pc[t].dim)
       /\ Answer(t, k, IF ret' \notin Vecs THEN Miss
                       ELSE IF map_[k].dim = pc[t].dim THEN ret'
                       ELSE Garbage)

-----------------------------------------------------------------------------
ClientNext ==
    \/ \E t \in Threads, k \in Keys :
         \/ \E v \in VecsFor[k] : DoPut(t, k, v)
         \/ \E room \in Rooms : DoGetCopy(t, k, room)
         \/ VecCall(t, k)
         \/ \E expected \in Rooms : PyPass1(t, k, expected)
    \/ \E t \in Threads : DoClear(t) \/ VecRead(t) \/ PyPass2(t)
    \/ Tick /\ Unanswered

ClientSpec == ClientInit /\ [][ClientNext]_clientVars

(* The same threads without the std::vector overload: what is left when    *)
(* every lookup goes through lembed_cache_get_copy.                        *)
LockedNext ==
    \/ \E t \in Threads, k \in Keys :
         \/ DoGet(t, k)
         \/ \E v \in VecsFor[k] : DoPut(t, k, v)
         \/ \E room \in Rooms : DoGetCopy(t, k, room)
         \/ \E expected \in Rooms : PyPass1(t, k, expected)
    \/ \E t \in Threads : DoClear(t) \/ PyPass2(t)
    \/ Tick /\ Unanswered

LockedSpec == ClientInit /\ [][LockedNext]_clientVars

-----------------------------------------------------------------------------
(* A lookup answers with a vector that some caller stored under that very  *)
(* text, or with no vector: never with another text's vector and never     *)
(* with floats nobody stored (embedding_cache.h: "safe against a           *)
(* concurrent eviction, overwrite or clear()").  Only a text stored with   *)
(* vectors of several dimensions can get an array of another length than   *)
(* its vector; the cache of one model has one dimension.                   *)
OneDimension(k) == \A u, v \in VecsFor[k] : DimOf[u] = DimOf[v]

AnswersAreStored ==
    \A a \in ans :
        \/ a.val \in VecsFor[a.key] \cup {Miss, TooSmall}
        \/ a.val = Garbage /\ ~OneDimension(a.key)

=============================================================================
