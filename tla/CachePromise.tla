---------------------------- MODULE CachePromise ----------------------------
(***************************************************************************)
(* What the embedding cache promises its callers, without lists, buffers   *)
(* or locks: a partial map from texts to vectors that is bounded, that     *)
(* answers a lookup with the vector stored last under that text, that      *)
(* drops an entry only because it expired, because everything was cleared, *)
(* or because a new text needs the room, and then drops the text whose     *)
(* last use lies furthest back.                                            *)
(***************************************************************************)
EXTENDS Naturals, FiniteSets

CONSTANTS
    Keys,       \* texts
    Vecs,       \* embedding vectors
    Capacity,   \* the maximum number of texts kept
    TTL,        \* time to live in seconds, 0 when entries never expire
    MaxTime,    \* bound on the clock
    Miss, TooSmall, Done    \* the answers that carry no vector

VARIABLES
    content,    \* a partial function: text -> [val, until]
    older,      \* <<a, b>> is in older when a was used before b
    now,        \* the wall clock, in seconds
    ret         \* the answer of the last call

vars == <<content, older, now, ret>>

Fresh(k) == k \in DOMAIN content /\ (TTL > 0 => now <= content[k].until)

(* k becomes the text used last, among the texts kept. *)
UsedNow(rel, kept, k) ==
    {p \in rel : k \notin {p[1], p[2]}} \cup {<<a, k>> : a \in kept \ {k}}

Without(rel, k) == {p \in rel : k \notin {p[1], p[2]}}

Only(f, S) == [k \in S |-> f[k]]

Store(k, v) ==
    [val |-> v, until |-> IF TTL > 0 THEN now + TTL ELSE 0]

Init == content = <<>> /\ older = {} /\ now = 0 /\ ret = Done

(* A lookup of a text that is kept and has not expired counts as a use.    *)
HitNoUse(k) == Fresh(k) /\ UNCHANGED <<content, older, now>>
Hit(k) ==
    /\ Fresh(k)
    /\ older' = UsedNow(older, DOMAIN content, k)
    /\ UNCHANGED <<content, now>>

(* A lookup that misses drops nothing but an expired entry of that text.   *)
Absent(k) ==
    /\ ~Fresh(k)
    /\ content' = Only(content, DOMAIN content \ {k})
    /\ older' = Without(older, k)
    /\ ret' = Miss
    /\ UNCHANGED now

Lookup(k) ==
    \/ Hit(k) /\ ret' = content[k].val
    \/ Hit(k) /\ ret' = TooSmall
    \/ Absent(k)

Overwrite(k, v) ==
    /\ k \in DOMAIN content
    /\ content' = [content EXCEPT ![k] = Store(k, v)]
    /\ older' = UsedNow(older, DOMAIN content, k)
    /\ ret' = Done
    /\ UNCHANGED now

Oldest(x) == x \in DOMAIN content /\ \A y \in DOMAIN content \ {x} : <<x, y>> \in older

(* A new text takes the room of at most one other, and only of the oldest. *)
Insert(k, v) ==
    /\ k \notin DOMAIN content
    /\ \E gone \in SUBSET DOMAIN content :
         /\ IF Cardinality(DOMAIN content) < Capacity
            THEN gone = {}
            ELSE \E x \in DOMAIN content : Oldest(x) /\ gone = {x}
         /\ LET kept == DOMAIN content \ gone IN
            /\ content' = [j \in kept \cup {k} |->
                             IF j = k THEN Store(k, v) ELSE content[j]]
            /\ older' = UsedNow({p \in older : {p[1], p[2]} \cap gone = {}}, kept, k)
    /\ ret' = Done
    /\ UNCHANGED now

(* Out of memory: the store is dropped as a whole. *)
Dropped == ret' = Done /\ UNCHANGED <<content, older, now>>

Clear == content' = <<>> /\ older' = {} /\ ret' = Done /\ UNCHANGED now

Tick == now < MaxTime /\ now' = now + 1 /\ UNCHANGED <<content, older, ret>>

Next ==
    \/ \E k \in Keys : Lookup(k)
    \/ \E k \in Keys, v \in Vecs : Overwrite(k, v) \/ Insert(k, v)
    \/ Dropped
    \/ Clear
    \/ Tick

Spec == Init /\ [][Next]_vars
=============================================================================
