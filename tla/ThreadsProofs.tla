--------------------------- MODULE ThreadsProofs ---------------------------
(***************************************************************************)
(* The two places where the library starts threads of its own: the pools   *)
(* and the llama.cpp scheduler.                                            *)
(*                                                                         *)
(* What the pools hand over is in order and, where the code can promise    *)
(* it, complete: for any number of workers, texts and texts per batch.     *)
(* A list of vectors is Tight between two texts when it increases and      *)
(* leaves room on both sides for what may be missing.  Tight lists of      *)
(* neighbouring subsets join to tight lists, and one whose length is that  *)
(* of its range misses nothing, so the proof only has to follow bounds and *)
(* lengths: of each worker's subset (PartsInv), of what the caller has     *)
(* received (OutInv), and of what a stream still owes (StreamInv).         *)
(*                                                                         *)
(* The scheduler settles every promise once, in order and with its own     *)
(* embedding, for any callers and batch limits.  What arrived is what is   *)
(* settled, in hand and queued, in that order (InLine, InPace), as long as *)
(* the scheduler serves.                                                   *)
(***************************************************************************)
EXTENDS EmbeddingPool, LlamaScheduler, WellFoundedInduction, SequenceTheorems, TLAPS

Tight(s, lo, hi) ==
    /\ \A i \in DOMAIN s : lo + i - 1 <= s[i] /\ s[i] + Len(s) - i < hi
    /\ \A i, j \in DOMAIN s : i < j => s[i] < s[j]

(* The texts before worker w's subset; those up to its end are Lim(w + 1). *)
Lim(w) == Min2(Start(w), call.total)
Full(w) == HasWork(w) => Len(partial[w]) = End(w) - Start(w)

Places == {"idle", "launch", "store", "wait", "returned", "raised"}
Calls == [at : Places, mode : {"embed", "stream", "py"}, total : Nat, bs : Nat,
          w : 0..NumWorkers, word : SUBSET Workers]

TypeInv ==
    /\ call \in Calls \/ call = [at |-> "idle"]
    /\ th \in [Workers -> {"none", "running", "yielding", "ended", "raised"}]
    /\ pos \in [Workers -> Nat] /\ partial \in [Workers -> Seq(Nat)]
    /\ done \subseteq Workers /\ next_to_yield \in 0..NumWorkers /\ out \in Seq(Nat)

(* Who was launched. *)
LaunchInv ==
    /\ call.at = "idle" =>
         /\ \A w \in Workers : th[w] = "none" /\ partial[w] = <<>>
         /\ done = {} /\ next_to_yield = 0 /\ out = <<>>
    /\ call.at # "idle" =>
         /\ call \in Calls
         /\ \A w \in Workers : ~HasWork(w) => th[w] = "none" /\ partial[w] = <<>>
         /\ \A w \in Workers : th[w] = "raised" => call.mode = "py"
         /\ \A w \in Workers : th[w] = "yielding" => call.mode = "stream"
    /\ call.at \in {"launch", "store"} =>
         \A w \in Workers : IF w < call.w THEN HasWork(w) => th[w] # "none"
                            ELSE th[w] = "none" /\ partial[w] = <<>>
    /\ call.at = "store" => call.w \in Workers /\ ~HasWork(call.w) /\ call.mode = "stream"
    /\ call.at = "wait" =>
         \A w \in Workers : IF call.mode = "embed" /\ w < call.w THEN th[w] = "none"
                            ELSE HasWork(w) => th[w] # "none"
    /\ call.at \in {"returned", "raised"} => \A w \in Workers : th[w] \notin {"running", "yielding"}

(* A worker's vectors are those of its own texts, up to where it is. *)
PartsInv ==
    call.at # "idle" => \A w \in Workers :
        /\ th[w] # "none" \/ partial[w] # <<>> => Start(w) <= pos[w] /\ pos[w] <= End(w)
        /\ Tight(partial[w], Start(w), pos[w])

(* A bit is only ever set for a worker that is through or has no texts. *)
Through(w) == th[w] \in {"yielding", "ended"} \/ ~HasWork(w)
DoneInv ==
    call.at # "idle" =>
        /\ \A w \in Workers : w \in done \/ w < next_to_yield => Through(w)
        /\ call.at = "store" => \A w \in call.word : Through(w)
        /\ call.mode # "stream" => done = {} /\ next_to_yield = 0

(* The subsets of the workers before c were handed over. *)
Received(c) ==
    /\ Tight(out, 0, Lim(c))
    /\ (\A w \in Workers : w < c => Full(w)) => Len(out) = Lim(c)
OutInv ==
    /\ call.at \in {"launch", "store", "wait"} =>
         CASE call.mode = "embed" -> IF call.at = "wait" THEN Received(call.w) ELSE out = <<>>
           [] call.mode = "stream" -> Received(next_to_yield)
           [] call.mode = "py" -> out = <<>>
    /\ call.at = "raised" => out = <<>>
    /\ call.at = "returned" =>
         /\ Tight(out, 0, call.total)
         /\ NoBatchFailed /\ (call.mode = "stream" => \A w \in Workers : HasWork(w))
              => Len(out) = call.total

(* When every worker has texts no bit is lost, and whoever holds mtx last  *)
(* hands over all that is due.                                             *)
StreamInv ==
    call.at # "idle" /\ call.mode = "stream" /\ (\A w \in Workers : HasWork(w)) =>
        /\ \A w \in Workers : th[w] \in {"yielding", "ended"} => w \in done
        /\ ~Locked => next_to_yield \notin done

PoolInv == TypeInv /\ LaunchInv /\ PartsInv /\ DoneInv /\ OutInv /\ StreamInv

-----------------------------------------------------------------------------
(* Tight lists. *)

LEMMA TightFits ==
    ASSUME NEW s \in Seq(Nat), NEW lo \in Nat, NEW hi \in Nat, Tight(s, lo, hi), lo <= hi
    PROVE  Len(s) <= hi - lo
<1>1. CASE s = <<>>
    BY <1>1
<1>2. CASE s # <<>>
    <2>1. 1 \in DOMAIN s /\ s[1] \in Nat /\ Len(s) \in Nat
        BY <1>2
    <2>2. lo + 1 - 1 <= s[1] /\ s[1] + Len(s) - 1 < hi
        BY <2>1 DEF Tight
    <2> QED  BY <2>1, <2>2
<1> QED  BY <1>1, <1>2

(* The numbers behind joining: k and l are the lengths, x and y elements.  *)
LEMMA Bounds ==
    ASSUME NEW lo \in Nat, NEW m \in Nat, NEW n \in Nat, NEW hi \in Nat, m <= n,
           NEW k \in Nat, NEW l \in Nat, k <= m - lo, l <= hi - n,
           NEW i \in Nat, NEW j \in Nat, NEW x \in Nat, NEW y \in Nat
    PROVE  /\ x + k - i < m => x + (k + l) - i < hi
           /\ n + (j - k) - 1 <= y => lo + j - 1 <= y
           /\ y + l - (j - k) < hi => y + (k + l) - j < hi
OBVIOUS

LEMMA Crosses ==
    ASSUME NEW m \in Nat, NEW n \in Nat, m <= n, NEW k \in Nat, NEW i \in Nat, NEW j \in Nat,
           NEW x \in Nat, NEW y \in Nat, i <= k, j > k, x + k - i < m, n + (j - k) - 1 <= y
    PROVE  x < y
OBVIOUS

LEMMA TightJoins ==
    ASSUME NEW s \in Seq(Nat), NEW t \in Seq(Nat),
           NEW lo \in Nat, NEW m \in Nat, NEW n \in Nat, NEW hi \in Nat,
           lo <= m, m <= n, n <= hi, Tight(s, lo, m), Tight(t, n, hi)
    PROVE  s \o t \in Seq(Nat) /\ Len(s \o t) = Len(s) + Len(t) /\ Tight(s \o t, lo, hi)
<1> DEFINE u == s \o t
<1>1. u \in Seq(Nat) /\ Len(u) = Len(s) + Len(t)
    OBVIOUS
<1>2. PICK k \in Nat, l \in Nat : k = Len(s) /\ l = Len(t) /\ k <= m - lo /\ l <= hi - n
    BY TightFits
<1>3. \A i \in DOMAIN u :
        /\ i \in Nat
        /\ \/ i \in DOMAIN s /\ u[i] = s[i] /\ i <= k
           \/ i - k \in DOMAIN t /\ u[i] = t[i - k] /\ i > k
    BY <1>1, <1>2
<1> HIDE DEF u
<1>4. \A i \in DOMAIN s : \E x \in Nat : s[i] = x /\ lo + i - 1 <= x /\ x + k - i < m
    BY <1>2 DEF Tight
<1>5. \A i \in DOMAIN t : \E y \in Nat : t[i] = y /\ n + i - 1 <= y /\ y + l - i < hi
    BY <1>2 DEF Tight
<1>6. ASSUME NEW i \in DOMAIN u
      PROVE  lo + i - 1 <= u[i] /\ u[i] + (k + l) - i < hi
    <2>1. CASE i \in DOMAIN s /\ u[i] = s[i] /\ i <= k
        <3>1. PICK x \in Nat : s[i] = x /\ lo + i - 1 <= x /\ x + k - i < m
            BY <2>1, <1>4
        <3>2. x + (k + l) - i < hi
            BY SMTT(20), <3>1, <1>2, <1>3, Bounds
        <3> QED  BY <2>1, <3>1, <3>2
    <2>2. CASE i - k \in DOMAIN t /\ u[i] = t[i - k] /\ i > k
        <3>1. PICK y \in Nat : t[i - k] = y /\ n + (i - k) - 1 <= y /\ y + l - (i - k) < hi
            BY <2>2, <1>5
        <3>2. i \in Nat
            BY <1>3
        <3>3. lo + i - 1 <= y
            BY SMTT(20), <3>1, <3>2, <1>2, Bounds
        <3>4. y + (k + l) - i < hi
            BY SMTT(20), <3>1, <3>2, <1>2, Bounds
        <3> QED  BY <2>2, <3>1, <3>3, <3>4
    <2> QED  BY <2>1, <2>2, <1>3
<1>7. ASSUME NEW i \in DOMAIN u, NEW j \in DOMAIN u, i < j
      PROVE  u[i] < u[j]
    <2>0. i \in Nat /\ j \in Nat
        BY <1>3
    <2>1. CASE j \in DOMAIN s /\ u[j] = s[j] /\ j <= k
        <3>1. i \in DOMAIN s /\ u[i] = s[i]
            BY <2>0, <2>1, <1>2, <1>3, <1>7
        <3> QED  BY <2>1, <3>1, <1>7 DEF Tight
    <2>2. CASE j - k \in DOMAIN t /\ u[j] = t[j - k] /\ j > k
        <3>1. CASE i \in DOMAIN s /\ u[i] = s[i] /\ i <= k
            <4>1. PICK x \in Nat : s[i] = x /\ x + k - i < m
                BY <3>1, <1>4
            <4>2. PICK y \in Nat : t[j - k] = y /\ n + (j - k) - 1 <= y
                BY <2>2, <1>5
            <4>3. x < y
                BY <2>0, <2>2, <3>1, <4>1, <4>2, <1>2, Crosses
            <4> QED  BY <2>2, <3>1, <4>1, <4>2, <4>3
        <3>2. CASE i - k \in DOMAIN t /\ u[i] = t[i - k] /\ i > k
            <4>1. i - k < j - k
                BY <2>0, <1>2, <1>7
            <4> QED  BY <2>2, <3>2, <4>1 DEF Tight
        <3> QED  BY <3>1, <3>2, <1>3
    <2> QED  BY <2>1, <2>2, <1>3
<1>8. Tight(u, lo, hi)
    BY <1>1, <1>2, <1>6, <1>7 DEF Tight
<1> QED  BY <1>1, <1>8 DEF u

LEMMA TightWidens ==
    ASSUME NEW s \in Seq(Nat), NEW lo \in Nat, NEW m \in Nat, NEW hi \in Nat,
           m <= hi, Tight(s, lo, m)
    PROVE  Tight(s, lo, hi)
<1>1. \A i \in DOMAIN s : s[i] \in Nat /\ i \in Nat /\ Len(s) \in Nat
    OBVIOUS
<1> QED  BY <1>1 DEF Tight

LEMMA TightWhole ==
    ASSUME NEW s \in Seq(Nat), NEW n \in Nat, Tight(s, 0, n), Len(s) = n
    PROVE  s = [i \in 1..n |-> i - 1]
<1>1. \A i \in 1..n : s[i] = i - 1
    BY SMTT(20) DEF Tight
<1> QED  BY <1>1

-----------------------------------------------------------------------------
(* The split of the texts. *)

LEMMA Shares ==
    ASSUME NEW t \in Nat, NEW n \in Nat \ {0}
    PROVE  LET p == (t + n - 1) \div n IN p \in Nat /\ t <= n * p /\ (t > 0 => p > 0)
OBVIOUS

LEMMA Multiples ==
    ASSUME NEW p \in Nat, NEW w \in Nat
    PROVE  w * p \in Nat /\ (w + 1) * p = w * p + p
OBVIOUS

(* The subsets follow one another and leave nothing over. *)
LEMMA Split ==
    ASSUME call \in Calls
    PROVE  /\ Lim(0) = 0 /\ Lim(NumWorkers) = call.total
           /\ \A w \in 0..NumWorkers : Lim(w) \in Nat /\ Lim(w) <= call.total /\ Start(w) \in Nat
           /\ \A w \in Workers :
                /\ End(w) \in Nat /\ Lim(w + 1) = End(w) /\ Lim(w) <= Lim(w + 1)
                /\ IF HasWork(w) THEN Lim(w) = Start(w) /\ Start(w) < End(w)
                                 ELSE Lim(w) = call.total
<1>1. call.total \in Nat
    BY DEF Calls
<1>2. PerWorker \in Nat /\ call.total <= NumWorkers * PerWorker
      /\ (call.total > 0 => PerWorker > 0)
    BY <1>1, WorkersAssumption, Shares DEF PerWorker
<1>3. \A w \in Nat : Start(w) \in Nat /\ Start(w + 1) = Start(w) + PerWorker
    BY <1>2, Multiples DEF Start
<1>4. Start(0) = 0 /\ Start(NumWorkers) >= call.total
    BY <1>2 DEF Start
<1>5. \A w \in Workers : w \in Nat /\ w + 1 \in 0..NumWorkers
    BY WorkersAssumption DEF Workers
<1>6. Lim(0) = 0 /\ Lim(NumWorkers) = call.total
    BY <1>1, <1>3, <1>4, WorkersAssumption DEF Lim, Min2
<1>7. \A w \in 0..NumWorkers : Lim(w) \in Nat /\ Lim(w) <= call.total /\ Start(w) \in Nat
    BY <1>1, <1>3, WorkersAssumption DEF Lim, Min2
<1>8. ASSUME NEW w \in Workers
      PROVE  /\ End(w) \in Nat /\ Lim(w + 1) = End(w) /\ Lim(w) <= Lim(w + 1)
             /\ IF HasWork(w) THEN Lim(w) = Start(w) /\ Start(w) < End(w)
                              ELSE Lim(w) = call.total
    BY <1>1, <1>2, <1>3, <1>5 DEF End, Lim, Min2, HasWork
<1> QED  BY <1>6, <1>7, <1>8

(* Appending worker w's subset to what came before it. *)
LEMMA HandOver ==
    ASSUME call \in Calls, NEW w \in Workers, NEW s \in Seq(Nat), NEW q \in Seq(Nat), NEW n \in Nat,
           Tight(s, 0, Lim(w)), Tight(q, Start(w), n),
           q # <<>> => Start(w) <= n /\ n <= End(w),
           ~HasWork(w) => q = <<>>
    PROVE  /\ s \o q \in Seq(Nat) /\ Tight(s \o q, 0, Lim(w + 1))
           /\ Len(s) = Lim(w) /\ (HasWork(w) => Len(q) = End(w) - Start(w))
                => Len(s \o q) = Lim(w + 1)
<1>1. /\ Lim(w) \in Nat /\ Lim(w + 1) = End(w) /\ Lim(w) <= End(w) /\ End(w) \in Nat
      /\ Start(w) \in Nat /\ Lim(w + 1) <= call.total
      /\ IF HasWork(w) THEN Lim(w) = Start(w) /\ Start(w) < End(w) ELSE Lim(w) = call.total
    BY Split, WorkersAssumption DEF Workers
<1>2. CASE q = <<>>
    <2>1. s \o q = s /\ Len(q) = 0
        BY <1>2
    <2>2. Tight(s, 0, Lim(w + 1))
        BY <1>1, TightWidens
    <2>3. call.total \in Nat
        BY DEF Calls
    <2> QED  BY <1>1, <2>1, <2>2, <2>3
<1>3. CASE q # <<>>
    <2>1. HasWork(w) /\ Start(w) <= n /\ n <= End(w)
        BY <1>3
    <2>2. Tight(q, Start(w), End(w))
        BY <1>1, <2>1, TightWidens
    <2>3. s \o q \in Seq(Nat) /\ Len(s \o q) = Len(s) + Len(q) /\ Tight(s \o q, 0, End(w))
        BY <1>1, <2>1, <2>2, TightJoins
    <2> QED  BY <1>1, <2>1, <2>3
<1> QED  BY <1>2, <1>3

-----------------------------------------------------------------------------
(* The Python pool's concatenation.  Induction is by the least number of   *)
(* workers for which a statement fails.                                    *)

LEMMA Least ==
    ASSUME NEW S \in SUBSET Nat, S # {}
    PROVE  \E x \in S : \A y \in S : x <= y
<1>1. PICK x \in S : \A y \in S : ~(<<y, x>> \in OpToRel(<, Nat))
    BY NatLessThanWellFounded, WFMin, Zenon
<1>2. \A y \in S : ~(y < x)
    BY <1>1 DEF OpToRel
<1> QED  BY <1>2

LEMMA ConcatUnfolds ==
    Concat = [w \in 0..NumWorkers |-> IF w = 0 THEN <<>> ELSE Concat[w - 1] \o partial[w - 1]]
<1> DEFINE IsConcat(f, n) == f = [w \in 0..n |-> IF w = 0 THEN <<>> ELSE f[w - 1] \o partial[w - 1]]
           bad == {n \in Nat : ~\E f : IsConcat(f, n)}
<1>1. bad = {}
    <2> SUFFICES ASSUME bad # {} PROVE FALSE
        OBVIOUS
    <2>1. PICK n \in bad : \A m \in bad : n <= m
        BY Least
    <2>2. n # 0
        <3>1. IsConcat([w \in 0..0 |-> <<>>], 0)
            OBVIOUS
        <3> QED  BY <3>1
    <2>3. n - 1 \in Nat /\ n - 1 \notin bad
        <3>1. n \in Nat
            OBVIOUS
        <3> HIDE DEF bad
        <3> QED  BY <2>1, <2>2, <3>1
    <2>4. PICK f : IsConcat(f, n - 1)
        BY <2>3
    <2> DEFINE g == [w \in 0..n |-> IF w = n THEN f[n - 1] \o partial[n - 1] ELSE f[w]]
    <2>5. IsConcat(g, n)
        <3>1. \A w \in 0..(n - 1) : f[w] = IF w = 0 THEN <<>> ELSE f[w - 1] \o partial[w - 1]
            BY <2>4
        <3>2. \A w \in 0..n : g[w] = IF w = 0 THEN <<>> ELSE g[w - 1] \o partial[w - 1]
            <4> TAKE w \in 0..n
            <4>1. CASE w = n
                <5>1. g[n] = f[n - 1] \o partial[n - 1] /\ g[n - 1] = f[n - 1]
                    BY <2>2, <2>3
                <5> HIDE DEF g
                <5> QED  BY <4>1, <5>1, <2>2
            <4>2. CASE w # n
                BY <4>2, <3>1, <2>2, <2>1
            <4> QED  BY <4>1, <4>2
        <3> HIDE DEF g
        <3>3. g = [w \in 0..n |-> g[w]]
            BY DEF g
        <3> QED  BY <3>2, <3>3
    <2> QED  BY <2>1, <2>5
<1>2. \E f : IsConcat(f, NumWorkers)
    BY <1>1, WorkersAssumption
<1>3. Concat = CHOOSE f : IsConcat(f, NumWorkers)
    BY DEF Concat
<1> HIDE DEF IsConcat
<1>4. IsConcat(Concat, NumWorkers)
    BY <1>2, <1>3, Zenon
<1> QED  BY <1>4 DEF IsConcat

(* What is concatenated up to worker w is tight, and whole if they all are. *)
LEMMA ConcatHandsOver ==
    ASSUME TypeInv, LaunchInv, PartsInv, call.at # "idle"
    PROVE  \A w \in 0..NumWorkers :
             /\ Concat[w] \in Seq(Nat) /\ Tight(Concat[w], 0, Lim(w))
             /\ (\A v \in Workers : v < w => Full(v)) => Len(Concat[w]) = Lim(w)
<1> DEFINE Whole(w) ==
             /\ Concat[w] \in Seq(Nat) /\ Tight(Concat[w], 0, Lim(w))
             /\ (\A v \in Workers : v < w => Full(v)) => Len(Concat[w]) = Lim(w)
           bad == {w \in 0..NumWorkers : ~Whole(w)}
<1>0. call \in Calls
    BY DEF LaunchInv
<1>1. Whole(0)
    <2>1. Concat[0] = <<>>
        BY ConcatUnfolds, WorkersAssumption
    <2>2. Lim(0) = 0
        BY <1>0, Split
    <2> QED  BY <2>1, <2>2 DEF Tight
<1>2. ASSUME NEW w \in Workers, Whole(w)
      PROVE  Whole(w + 1)
    <2>1. Concat[w + 1] = Concat[w] \o partial[w]
        <3>1. w + 1 \in 0..NumWorkers /\ w + 1 # 0 /\ (w + 1) - 1 = w
            BY WorkersAssumption DEF Workers
        <3> QED  BY <3>1, ConcatUnfolds
    <2>2. partial[w] \in Seq(Nat) /\ pos[w] \in Nat
        BY DEF TypeInv
    <2>3. /\ Tight(partial[w], Start(w), pos[w])
          /\ partial[w] # <<>> => Start(w) <= pos[w] /\ pos[w] <= End(w)
          /\ ~HasWork(w) => partial[w] = <<>>
        BY DEF PartsInv, LaunchInv
    <2>4. /\ Concat[w] \o partial[w] \in Seq(Nat) /\ Tight(Concat[w] \o partial[w], 0, Lim(w + 1))
          /\ Len(Concat[w]) = Lim(w) /\ Full(w) => Len(Concat[w] \o partial[w]) = Lim(w + 1)
        BY <1>0, <1>2, <2>2, <2>3, HandOver DEF Full
    <2>5. ASSUME \A v \in Workers : v < w + 1 => Full(v)
          PROVE  Len(Concat[w]) = Lim(w) /\ Full(w)
        <3>1. w \in Nat /\ w < w + 1 /\ \A v \in Workers : v < w => v < w + 1
            BY WorkersAssumption DEF Workers
        <3> QED  BY <1>2, <2>5, <3>1
    <2> QED  BY <2>1, <2>4, <2>5
<1>3. bad = {}
    <2> SUFFICES ASSUME bad # {} PROVE FALSE
        OBVIOUS
    <2>1. bad \in SUBSET Nat
        BY WorkersAssumption
    <2>2. PICK n \in bad : \A m \in bad : n <= m
        BY <2>1, Least
    <2>3. n \in 0..NumWorkers /\ ~Whole(n)
        BY <2>2
    <2>4. n # 0
        BY <2>3, <1>1
    <2>5. n - 1 \in Workers /\ n - 1 \in 0..NumWorkers /\ (n - 1) + 1 = n /\ ~(n <= n - 1)
        BY <2>3, <2>4, WorkersAssumption DEF Workers
    <2>6. n - 1 \notin bad
        BY <2>2, <2>5
    <2> HIDE DEF Whole
    <2>7. Whole(n - 1)
        BY <2>5, <2>6
    <2>8. Whole((n - 1) + 1)
        BY <1>2, <2>5, <2>7
    <2> QED  BY <2>3, <2>5, <2>8
<1> QED  BY <1>3

-----------------------------------------------------------------------------
(* What the steps have in common. *)

LEMMA SameSplit ==
    ASSUME call'.total = call.total
    PROVE  \A w : /\ Start(w)' = Start(w) /\ End(w)' = End(w)
                  /\ HasWork(w)' = HasWork(w) /\ Lim(w)' = Lim(w)
<1> USE DEF Start, End, HasWork, Lim, PerWorker, Min2
<1>1. PerWorker' = PerWorker
    OBVIOUS
<1> QED  BY <1>1

LEMMA SameParts ==
    ASSUME PartsInv, call.at # "idle", call'.total = call.total,
           UNCHANGED <<pos, partial>>, \A w \in Workers : th'[w] # "none" => th[w] # "none"
    PROVE  PartsInv'
BY SameSplit DEF PartsInv

LEMMA SameReceived ==
    ASSUME NEW c, Received(c), call'.total = call.total, UNCHANGED out,
           \A w \in Workers : w < c => partial'[w] = partial[w]
    PROVE  /\ Tight(out', 0, Lim(c)')
           /\ (\A w \in Workers : w < c => Full(w)') => Len(out') = Lim(c)'
BY SameSplit DEF Received, Full

LEMMA SameStream ==
    ASSUME StreamInv, call.at # "idle", call'.total = call.total, call'.mode = call.mode,
           UNCHANGED <<th, done, next_to_yield>>
    PROVE  StreamInv'
BY SameSplit DEF StreamInv, Locked

(* The record of a call in progress. *)
LEMMA CallFields ==
    ASSUME PoolInv, call.at # "idle"
    PROVE  /\ call \in Calls /\ call.at \in Places /\ call.mode \in {"embed", "stream", "py"}
           /\ call.total \in Nat /\ call.bs \in Nat /\ call.w \in 0..NumWorkers
           /\ call.word \subseteq Workers
<1>1. call \in Calls
    BY DEF PoolInv, LaunchInv
<1> QED  BY <1>1 DEF Calls

(* Once a worker has no texts, those after it have none. *)
LEMMA LaterIdle ==
    ASSUME call \in Calls, NEW c \in Workers, NEW w \in Workers, c <= w, ~HasWork(c)
    PROVE  ~HasWork(w)
<1>1. c \in Nat /\ w \in Nat /\ call.total \in Nat /\ PerWorker \in Nat
    <2>1. call.total \in Nat
        BY DEF Calls
    <2> QED  BY <2>1, WorkersAssumption, Shares DEF Workers, PerWorker
<1>2. Lim(c) = call.total /\ Start(c) \in Nat /\ Start(w) \in Nat
    BY Split, WorkersAssumption DEF Workers
<1>3. Start(c) >= call.total
    BY <1>1, <1>2 DEF Lim, Min2
<1>4. c * PerWorker <= w * PerWorker
    BY <1>1
<1>5. Start(w) >= call.total
    BY <1>1, <1>2, <1>3, <1>4 DEF Start
<1> QED  BY <1>1, <1>2, <1>5 DEF HasWork, End, Min2

-----------------------------------------------------------------------------
(* The launching thread. *)

LEMMA InitHolds == Init => PoolInv
<1> SUFFICES ASSUME Init PROVE PoolInv
    OBVIOUS
<1> USE WorkersAssumption DEF Init
<1>1. TypeInv
    BY DEF TypeInv, Workers
<1>2. LaunchInv
    BY DEF LaunchInv
<1>3. PartsInv /\ DoneInv /\ OutInv /\ StreamInv
    BY DEF PartsInv, DoneInv, OutInv, StreamInv
<1> QED  BY <1>1, <1>2, <1>3 DEF PoolInv

LEMMA CallKeeps ==
    ASSUME PoolInv, NEW mode \in Modes, NEW total \in Totals, NEW bs \in BatchSizes,
           Call(mode, total, bs)
    PROVE  PoolInv'
<1>1. /\ call.at = "idle" /\ call'.at = "launch" /\ call'.mode = mode /\ call'.w = 0
      /\ call' \in Calls /\ call'.total \in Nat
    BY ArgumentsAssumption, WorkersAssumption DEF Call, Calls, Places
<1>2. UNCHANGED <<th, pos, partial, done, next_to_yield, out>>
    BY DEF Call
<1>3. /\ \A w \in Workers : th[w] = "none" /\ partial[w] = <<>>
      /\ done = {} /\ next_to_yield = 0 /\ out = <<>>
    BY <1>1 DEF PoolInv, LaunchInv
<1>4. TypeInv'
    BY <1>1, <1>2 DEF PoolInv, TypeInv
<1>5. LaunchInv'
    BY <1>1, <1>2, <1>3 DEF LaunchInv, Workers
<1>6. PartsInv'
    BY <1>1, <1>2, <1>3 DEF PartsInv, Tight
<1>7. DoneInv'
    BY <1>1, <1>2, <1>3 DEF DoneInv, Workers
<1>8. OutInv'
    <2>1. PerWorker' \in Nat
        BY <1>1, WorkersAssumption, Shares DEF PerWorker
    <2>2. Lim(0)' = 0
        <3>0. Start(0)' = 0 * PerWorker'
            BY DEF Start
        <3>1. Start(0)' = 0
            BY <2>1, <3>0
        <3> QED  BY <1>1, <3>1 DEF Lim, Min2
    <2>3. Received(next_to_yield)'
        BY <1>2, <1>3, <2>2 DEF Received, Tight
    <2>4. call'.mode \in {"embed", "stream", "py"}
        BY <1>1, ArgumentsAssumption
    <2> QED  BY <1>1, <1>2, <1>3, <2>3, <2>4 DEF OutInv
<1>9. StreamInv'
    BY <1>1, <1>2, <1>3 DEF StreamInv
<1> QED  BY <1>4, <1>5, <1>6, <1>7, <1>8, <1>9 DEF PoolInv

LEMMA LaunchKeeps ==
    ASSUME PoolInv, Launch
    PROVE  PoolInv'
<1> DEFINE w == call.w
<1>1. /\ call.at = "launch" /\ w < NumWorkers /\ HasWork(w)
      /\ th' = [th EXCEPT ![w] = "running"] /\ pos' = [pos EXCEPT ![w] = Start(w)]
      /\ call' = [call EXCEPT !.w = w + 1]
      /\ UNCHANGED <<partial, done, next_to_yield, out>>
    BY DEF Launch
<1>2. call \in Calls /\ call.w \in 0..NumWorkers /\ call.mode \in {"embed", "stream", "py"}
    BY <1>1, CallFields
<1>3. w \in Workers /\ w + 1 \in 0..NumWorkers /\ w \in Nat
    BY <1>1, <1>2, WorkersAssumption DEF Workers
<1>4. /\ call' \in Calls /\ call'.at = "launch" /\ call'.mode = call.mode /\ call'.w = w + 1
      /\ call'.total = call.total /\ call'.word = call.word
    BY <1>1, <1>2, <1>3 DEF Calls
<1>5. th[w] = "none" /\ partial[w] = <<>>
    BY <1>1, <1>3 DEF PoolInv, LaunchInv
<1>6. Start(w) \in Nat /\ End(w) \in Nat /\ Start(w) <= End(w)
    BY <1>1, <1>2, <1>3, Split
<1>6a. Workers \subseteq Nat
    BY WorkersAssumption DEF Workers
<1> HIDE DEF w
<1>7. TypeInv'
    BY <1>1, <1>3, <1>4, <1>6 DEF PoolInv, TypeInv
<1>8. LaunchInv'
    <2>1. \A v \in Workers : th'[v] = IF v = w THEN "running" ELSE th[v]
        BY <1>1 DEF PoolInv, TypeInv
    <2>2. \A v \in Workers : v < w + 1 <=> v < w \/ v = w
        BY <1>3, <1>6a
    <2> QED  BY <1>1, <1>3, <1>4, <2>1, <2>2, SameSplit DEF PoolInv, LaunchInv, w
<1>9. PartsInv'
    <2>1. \A v \in Workers : v # w => th'[v] = th[v] /\ pos'[v] = pos[v]
        BY <1>1 DEF PoolInv, TypeInv
    <2>2. pos'[w] = Start(w)
        BY <1>1, <1>3 DEF PoolInv, TypeInv
    <2> QED  BY <1>1, <1>3, <1>4, <1>5, <1>6, <2>1, <2>2, SameSplit DEF PoolInv, PartsInv, Tight
<1>10. DoneInv'
    <2>1. \A v \in Workers : v # w => th'[v] = th[v]
        BY <1>1 DEF PoolInv, TypeInv
    <2>2. ~Through(w)
        BY <1>1, <1>5 DEF Through, w
    <2> QED  BY <1>1, <1>4, <2>1, <2>2, SameSplit DEF PoolInv, DoneInv, Through
<1>11. OutInv'
    <2>1. Received(next_to_yield) => Received(next_to_yield)'
        BY <1>1, <1>4, SameReceived DEF Received
    <2> QED  BY <1>1, <1>4, <2>1, <1>2 DEF PoolInv, OutInv
<1>12. StreamInv'
    <2>1. \A v \in Workers : th'[v] = IF v = w THEN "running" ELSE th[v]
        BY <1>1 DEF PoolInv, TypeInv
    <2>2. Locked' = Locked
        BY <2>1, <1>3, <1>5 DEF Locked
    <2> QED  BY <1>1, <1>4, <2>1, <2>2, SameSplit DEF PoolInv, StreamInv
<1> QED  BY <1>7, <1>8, <1>9, <1>10, <1>11, <1>12 DEF PoolInv

(* A worker without texts is passed over. *)
LEMMA SkipIdleKeeps ==
    ASSUME PoolInv, SkipIdle \/ IdleLoad
    PROVE  PoolInv'
<1>1. /\ call.at = "launch" /\ call.w < NumWorkers /\ ~HasWork(call.w)
      /\ \/ call.mode # "stream" /\ call' = [call EXCEPT !.w = @ + 1]
         \/ call.mode = "stream" /\ call' = [call EXCEPT !.at = "store", !.word = done]
      /\ UNCHANGED <<th, pos, partial, done, next_to_yield, out>>
    BY DEF SkipIdle, IdleLoad
<1>2. call \in Calls /\ call.w \in 0..NumWorkers /\ call.mode \in {"embed", "stream", "py"}
    BY <1>1, CallFields
<1>3. call.w \in Workers /\ call.w + 1 \in 0..NumWorkers /\ call.w \in Nat
    BY <1>1, <1>2, WorkersAssumption DEF Workers
<1>4. /\ call' \in Calls /\ call'.mode = call.mode /\ call'.total = call.total
      /\ \/ /\ call.mode # "stream" /\ call'.at = "launch" /\ call'.w = call.w + 1
         \/ /\ call.mode = "stream" /\ call'.at = "store" /\ call'.w = call.w /\ call'.word = done
    <2>0. done \subseteq Workers
        BY DEF PoolInv, TypeInv
    <2>1. CASE call.mode # "stream" /\ call' = [call EXCEPT !.w = @ + 1]
        BY <1>1, <1>2, <1>3, <2>1 DEF Calls
    <2>2. CASE call.mode = "stream" /\ call' = [call EXCEPT !.at = "store", !.word = done]
        BY <1>1, <1>2, <1>3, <2>0, <2>2 DEF Calls, Places
    <2> QED  BY <1>1, <2>1, <2>2
<1>5. Workers \subseteq Nat
    BY WorkersAssumption DEF Workers
<1>6. TypeInv'
    BY <1>1, <1>4 DEF PoolInv, TypeInv
<1>7. LaunchInv'
    <2>1. \A v \in Workers : v < call.w + 1 <=> v < call.w \/ v = call.w
        BY <1>3, <1>5
    <2> QED  BY <1>1, <1>3, <1>4, <2>1, SameSplit DEF PoolInv, LaunchInv
<1>8. PartsInv'
    BY <1>1, <1>4, SameParts DEF PoolInv
<1>9. DoneInv'
    <2>0. done \subseteq Workers
        BY DEF PoolInv, TypeInv
    <2> QED  BY <1>1, <1>4, <2>0, SameSplit DEF PoolInv, DoneInv, Through
<1>10. OutInv'
    <2>1. Received(next_to_yield) => Received(next_to_yield)'
        BY <1>1, <1>4, SameReceived DEF Received
    <2> QED  BY <1>1, <1>2, <1>4, <2>1 DEF PoolInv, OutInv
<1>11. StreamInv'
    BY <1>1, <1>4, SameStream DEF PoolInv
<1> QED  BY <1>6, <1>7, <1>8, <1>9, <1>10, <1>11 DEF PoolInv

(* Writing the word back can lose the bits of others, but sets none that   *)
(* is not due.                                                             *)
LEMMA IdleStoreKeeps ==
    ASSUME PoolInv, IdleStore
    PROVE  PoolInv'
<1>1. /\ call.at = "store" /\ done' = call.word \cup {call.w}
      /\ call' = [call EXCEPT !.at = "launch", !.w = @ + 1]
      /\ UNCHANGED <<th, pos, partial, next_to_yield, out>>
    BY DEF IdleStore
<1>2. /\ call \in Calls /\ call.w \in 0..NumWorkers /\ call.mode \in {"embed", "stream", "py"}
      /\ call.word \subseteq Workers
    BY <1>1, CallFields
<1>3. call.w \in Workers /\ ~HasWork(call.w) /\ call.mode = "stream"
    BY <1>1 DEF PoolInv, LaunchInv
<1>3a. call.w + 1 \in 0..NumWorkers /\ call.w \in Nat /\ Workers \subseteq Nat
    BY <1>3, WorkersAssumption DEF Workers
<1>4. /\ call' \in Calls /\ call'.mode = call.mode /\ call'.total = call.total
      /\ call'.at = "launch" /\ call'.w = call.w + 1
    BY <1>1, <1>2, <1>3a DEF Calls, Places
<1>6. TypeInv'
    BY <1>1, <1>2, <1>3, <1>4 DEF PoolInv, TypeInv
<1>7. LaunchInv'
    <2>1. \A v \in Workers : v < call.w + 1 <=> v < call.w \/ v = call.w
        BY <1>3a
    <2> QED  BY <1>1, <1>3, <1>4, <2>1, SameSplit DEF PoolInv, LaunchInv
<1>8. PartsInv'
    BY <1>1, <1>4, SameParts DEF PoolInv
<1>9. DoneInv'
    BY <1>1, <1>3, <1>4, SameSplit DEF PoolInv, DoneInv, Through
<1>10. OutInv'
    <2>1. Received(next_to_yield) => Received(next_to_yield)'
        BY <1>1, <1>4, SameReceived DEF Received
    <2> QED  BY <1>1, <1>3, <1>4, <2>1 DEF PoolInv, OutInv
<1>11. StreamInv'
    BY <1>3, <1>4, SameSplit DEF StreamInv
<1> QED  BY <1>6, <1>7, <1>8, <1>9, <1>10, <1>11 DEF PoolInv

LEMMA LaunchEndsKeeps ==
    ASSUME PoolInv, LaunchEnds
    PROVE  PoolInv'
<1>1. /\ call.at = "launch" /\ call.w = NumWorkers
      /\ call' = [call EXCEPT !.at = "wait", !.w = 0]
      /\ UNCHANGED <<th, pos, partial, done, next_to_yield, out>>
    BY DEF LaunchEnds
<1>2. call \in Calls /\ call.mode \in {"embed", "stream", "py"}
    BY <1>1, CallFields
<1>3. \A w \in Workers : w < NumWorkers /\ ~(w < 0)
    BY WorkersAssumption DEF Workers
<1>4. /\ call' \in Calls /\ call'.mode = call.mode /\ call'.total = call.total
      /\ call'.at = "wait" /\ call'.w = 0
    <2>1. 0 \in 0..NumWorkers
        BY WorkersAssumption
    <2> QED  BY <1>1, <1>2, <2>1 DEF Calls, Places
<1>6. TypeInv'
    BY <1>1, <1>4 DEF PoolInv, TypeInv
<1>7. LaunchInv'
    BY <1>1, <1>3, <1>4, SameSplit DEF PoolInv, LaunchInv
<1>8. PartsInv'
    BY <1>1, <1>4, SameParts DEF PoolInv
<1>9. DoneInv'
    BY <1>1, <1>4, SameSplit DEF PoolInv, DoneInv, Through
<1>10. OutInv'
    <2>1. Received(next_to_yield) => Received(next_to_yield)'
        BY <1>1, <1>4, SameReceived DEF Received
    <2>2. Lim(0)' = 0
        BY <1>2, <1>4, Split, SameSplit
    <2>3. out = <<>> => Received(call.w)'
        BY <1>1, <1>4, <2>2 DEF Received, Tight
    <2> QED  BY <1>1, <1>2, <1>4, <2>1, <2>3 DEF PoolInv, OutInv
<1>11. StreamInv'
    BY <1>1, <1>4, SameStream DEF PoolInv
<1> QED  BY <1>6, <1>7, <1>8, <1>9, <1>10, <1>11 DEF PoolInv

-----------------------------------------------------------------------------
(* The caller collects, joins or concatenates. *)

(* Handing over worker w's subset: out' is whole up to w + 1. *)
LEMMA ReceivesNext ==
    ASSUME PoolInv, call.at # "idle", NEW w \in Workers, Received(w),
           call'.total = call.total, UNCHANGED partial, out' = out \o partial[w]
    PROVE  /\ out' \in Seq(Nat) /\ Tight(out', 0, Lim(w + 1)')
           /\ (\A v \in Workers : v < w + 1 => Full(v)') => Len(out') = Lim(w + 1)'
<1>1. call \in Calls /\ partial[w] \in Seq(Nat) /\ pos[w] \in Nat /\ out \in Seq(Nat)
    BY CallFields DEF PoolInv, TypeInv
<1>2. /\ Tight(partial[w], Start(w), pos[w])
      /\ partial[w] # <<>> => Start(w) <= pos[w] /\ pos[w] <= End(w)
      /\ ~HasWork(w) => partial[w] = <<>>
    BY DEF PoolInv, PartsInv, LaunchInv
<1>3. /\ out \o partial[w] \in Seq(Nat) /\ Tight(out \o partial[w], 0, Lim(w + 1))
      /\ Len(out) = Lim(w) /\ Full(w) => Len(out \o partial[w]) = Lim(w + 1)
    BY <1>1, <1>2, HandOver DEF Received, Full
<1>4. ASSUME \A v \in Workers : v < w + 1 => Full(v)'
      PROVE  Len(out) = Lim(w) /\ Full(w)
    <2>1. w \in Nat /\ w < w + 1 /\ \A v \in Workers : v < w => v < w + 1
        BY WorkersAssumption DEF Workers
    <2>2. \A v \in Workers : v < w + 1 => Full(v)
        BY <1>4, SameSplit DEF Full
    <2> QED  BY <2>1, <2>2 DEF Received
<1> QED  BY <1>3, <1>4, SameSplit

LEMMA CollectKeeps ==
    ASSUME PoolInv, Collect
    PROVE  PoolInv'
<1> DEFINE w == call.w
<1>1. /\ call.at = "wait" /\ call.mode = "embed" /\ w < NumWorkers /\ th[w] = "ended"
      /\ out' = out \o partial[w] /\ th' = [th EXCEPT ![w] = "none"]
      /\ call' = [call EXCEPT !.w = @ + 1]
      /\ UNCHANGED <<pos, partial, done, next_to_yield>>
    BY DEF Collect
<1>2. call \in Calls /\ call.w \in 0..NumWorkers
    BY <1>1, CallFields
<1>3. w \in Workers /\ w + 1 \in 0..NumWorkers /\ w \in Nat /\ Workers \subseteq Nat
    BY <1>1, <1>2, WorkersAssumption DEF Workers
<1>4. /\ call' \in Calls /\ call'.at = "wait" /\ call'.mode = "embed" /\ call'.w = w + 1
      /\ call'.total = call.total
    BY <1>1, <1>2, <1>3 DEF Calls
<1>5. Received(w)
    BY <1>1 DEF PoolInv, OutInv
<1> HIDE DEF w
<1>6. out' \in Seq(Nat) /\ Received(call.w)'
    <2>1. PICK k \in Workers : k = w
        BY <1>3
    <2>2. /\ out' \in Seq(Nat) /\ Tight(out', 0, Lim(k + 1)')
          /\ (\A v \in Workers : v < k + 1 => Full(v)') => Len(out') = Lim(k + 1)'
        BY <1>1, <1>4, <1>5, <2>1, ReceivesNext
    <2>3. call'.w = k + 1
        BY <1>4, <2>1
    <2> QED  BY <2>2, <2>3 DEF Received
<1>7. \A v \in Workers : th'[v] = IF v = w THEN "none" ELSE th[v]
    BY <1>1 DEF PoolInv, TypeInv
<1>8. TypeInv'
    BY <1>1, <1>3, <1>4, <1>6 DEF PoolInv, TypeInv
<1>9. LaunchInv'
    <2>1. \A v \in Workers : v < w + 1 <=> v < w \/ v = w
        BY <1>3
    <2> QED  BY <1>1, <1>3, <1>4, <1>7, <2>1, SameSplit DEF PoolInv, LaunchInv, w
<1>10. PartsInv'
    BY <1>1, <1>4, <1>7, SameParts DEF PoolInv
<1>11. DoneInv'
    BY <1>1, <1>3, <1>4 DEF PoolInv, DoneInv
<1>12. OutInv'
    BY <1>4, <1>6 DEF OutInv
<1>13. StreamInv'
    BY <1>4 DEF StreamInv
<1> QED  BY <1>8, <1>9, <1>10, <1>11, <1>12, <1>13 DEF PoolInv

(* The call returns when no thread is left that could change anything. *)
LEMMA ReturnKeeps ==
    ASSUME PoolInv, call.at = "wait", call' = [call EXCEPT !.at = "returned"],
           \A w \in Workers : th[w] \notin {"running", "yielding"},
           UNCHANGED <<th, pos, partial, done, next_to_yield>>,
           out' \in Seq(Nat), Tight(out', 0, call.total),
           NoBatchFailed /\ (call.mode = "stream" => \A w \in Workers : HasWork(w))
             => Len(out') = call.total
    PROVE  PoolInv'
<1>2. call \in Calls /\ call.mode \in {"embed", "stream", "py"}
    BY CallFields
<1>4. /\ call' \in Calls /\ call'.mode = call.mode /\ call'.total = call.total
      /\ call'.at = "returned" /\ call'.w = call.w
    BY <1>2 DEF Calls, Places
<1>6. TypeInv'
    BY <1>4 DEF PoolInv, TypeInv
<1>7. LaunchInv'
    BY <1>4, SameSplit DEF PoolInv, LaunchInv
<1>8. PartsInv'
    BY <1>4, SameParts DEF PoolInv
<1>9. DoneInv'
    BY <1>4, SameSplit DEF PoolInv, DoneInv, Through
<1>10. OutInv'
    BY <1>4, SameSplit DEF OutInv, NoBatchFailed
<1>11. StreamInv'
    BY <1>4, SameStream DEF PoolInv
<1> QED  BY <1>6, <1>7, <1>8, <1>9, <1>10, <1>11 DEF PoolInv

LEMMA CollectEndsKeeps ==
    ASSUME PoolInv, CollectEnds
    PROVE  PoolInv'
<1> DEFINE c == call.w
<1>1. /\ call.at = "wait" /\ call.mode = "embed" /\ (c < NumWorkers => th[c] = "none")
      /\ call' = [call EXCEPT !.at = "returned"]
      /\ UNCHANGED <<th, pos, partial, done, next_to_yield, out>>
    BY DEF CollectEnds
<1>2. call \in Calls /\ c \in 0..NumWorkers /\ c \in Nat /\ call.total \in Nat /\ out \in Seq(Nat)
    BY <1>1, CallFields, WorkersAssumption DEF PoolInv, TypeInv
<1>3. Received(c)
    BY <1>1 DEF PoolInv, OutInv
<1>4. c < NumWorkers => c \in Workers /\ ~HasWork(c)
    <2>1. c < NumWorkers => c \in Workers /\ ~(c < c)
        BY <1>2, WorkersAssumption DEF Workers
    <2> QED  BY <1>1, <2>1 DEF PoolInv, LaunchInv
<1>5. Lim(c) = call.total
    <2>1. CASE c = NumWorkers
        BY <1>2, <2>1, Split
    <2>2. CASE c < NumWorkers
        BY <1>2, <1>4, <2>2, Split
    <2> QED  BY <1>2, <2>1, <2>2, WorkersAssumption
<1>6. ASSUME NEW w \in Workers
      PROVE  th[w] \notin {"running", "yielding"}
    <2>0. w \in Nat /\ w < NumWorkers
        BY WorkersAssumption DEF Workers
    <2>1. CASE w < c
        BY <1>1, <2>1 DEF PoolInv, LaunchInv
    <2>2. CASE c <= w
        <3>1. c \in Workers /\ ~HasWork(c)
            BY <1>2, <1>4, <2>0, <2>2, WorkersAssumption
        <3>2. ~HasWork(w)
            BY <1>2, <2>2, <3>1, LaterIdle
        <3> QED  BY <1>1, <3>2 DEF PoolInv, LaunchInv
    <2> QED  BY <1>2, <2>0, <2>1, <2>2
<1> HIDE DEF c
<1>7. Tight(out, 0, call.total) /\ (NoBatchFailed => Len(out) = call.total)
    BY <1>3, <1>5 DEF Received, NoBatchFailed, Full
<1> QED  BY <1>1, <1>2, <1>6, <1>7, ReturnKeeps

LEMMA JoinKeeps ==
    ASSUME PoolInv, Join
    PROVE  PoolInv'
<1>1. /\ call.at = "wait" /\ call.mode = "stream" /\ AllEnded
      /\ call' = [call EXCEPT !.at = "returned"]
      /\ UNCHANGED <<th, pos, partial, done, next_to_yield, out>>
    BY DEF Join
<1>2. call \in Calls /\ call.total \in Nat /\ out \in Seq(Nat) /\ next_to_yield \in 0..NumWorkers
    BY <1>1, CallFields DEF PoolInv, TypeInv
<1>3. Received(next_to_yield)
    BY <1>1 DEF PoolInv, OutInv
<1>4. \A w \in Workers : th[w] \notin {"running", "yielding"}
    BY <1>1 DEF AllEnded
<1>5. Tight(out, 0, call.total)
    <2>1. Lim(next_to_yield) \in Nat /\ Lim(next_to_yield) <= call.total
        BY <1>2, Split
    <2> QED  BY <1>2, <1>3, <2>1, TightWidens DEF Received
<1>6. ASSUME NoBatchFailed, \A w \in Workers : HasWork(w)
      PROVE  Len(out) = call.total
    <2>1. \A w \in Workers : th[w] = "ended"
        BY <1>1, <1>6 DEF PoolInv, LaunchInv, AllEnded
    <2>2. ~Locked /\ \A w \in Workers : w \in done
        BY <1>1, <1>6, <2>1 DEF PoolInv, StreamInv, Locked
    <2>3. next_to_yield \notin Workers
        BY <1>1, <1>6, <2>2 DEF PoolInv, StreamInv
    <2>4. next_to_yield = NumWorkers
        BY <1>2, <2>3, WorkersAssumption DEF Workers
    <2>5. Lim(next_to_yield) = call.total
        BY <1>2, <2>4, Split
    <2> QED  BY <1>3, <1>6, <2>5 DEF Received, NoBatchFailed, Full
<1> QED  BY <1>1, <1>2, <1>4, <1>5, <1>6, ReturnKeeps

LEMMA PyReturnKeeps ==
    ASSUME PoolInv, PyReturn
    PROVE  PoolInv'
<1>1. /\ call.at = "wait" /\ call.mode = "py" /\ AllEnded
      /\ UNCHANGED <<th, pos, partial, done, next_to_yield>>
      /\ \/ call' = [call EXCEPT !.at = "raised"] /\ UNCHANGED out
         \/ call' = [call EXCEPT !.at = "returned"] /\ out' = Concat[NumWorkers]
    BY DEF PyReturn
<1>2. call \in Calls
    BY <1>1, CallFields
<1>3. \A w \in Workers : th[w] \notin {"running", "yielding"}
    BY <1>1 DEF AllEnded
<1>4. CASE call' = [call EXCEPT !.at = "raised"] /\ UNCHANGED out
    <2>1. /\ call' \in Calls /\ call'.mode = "py" /\ call'.total = call.total
          /\ call'.at = "raised" /\ call'.w = call.w
        BY <1>1, <1>2, <1>4 DEF Calls, Places
    <2>2. TypeInv'
        BY <1>1, <1>4, <2>1 DEF PoolInv, TypeInv
    <2>3. LaunchInv'
        BY <1>1, <1>3, <2>1, SameSplit DEF PoolInv, LaunchInv
    <2>4. PartsInv'
        BY <1>1, <2>1, SameParts DEF PoolInv
    <2>5. DoneInv'
        BY <1>1, <2>1, SameSplit DEF PoolInv, DoneInv, Through
    <2>6. OutInv' /\ StreamInv'
        BY <1>1, <1>4, <2>1 DEF PoolInv, OutInv, StreamInv
    <2> QED  BY <2>2, <2>3, <2>4, <2>5, <2>6 DEF PoolInv
<1>5. CASE call' = [call EXCEPT !.at = "returned"] /\ out' = Concat[NumWorkers]
    <2>1. NumWorkers \in 0..NumWorkers /\ \A w \in Workers : w < NumWorkers
        BY WorkersAssumption DEF Workers
    <2>2. /\ Concat[NumWorkers] \in Seq(Nat) /\ Tight(Concat[NumWorkers], 0, Lim(NumWorkers))
          /\ (\A w \in Workers : Full(w)) => Len(Concat[NumWorkers]) = Lim(NumWorkers)
        BY <1>1, <2>1, ConcatHandsOver DEF PoolInv
    <2>3. Lim(NumWorkers) = call.total
        BY <1>2, Split
    <2>4. /\ out' \in Seq(Nat) /\ Tight(out', 0, call.total)
          /\ NoBatchFailed => Len(out') = call.total
        BY <1>5, <2>2, <2>3 DEF NoBatchFailed, Full
    <2> QED  BY <1>1, <1>3, <1>5, <2>4, ReturnKeeps
<1> QED  BY <1>1, <1>4, <1>5

-----------------------------------------------------------------------------
(* The workers. *)

(* A worker at work is not among those whose subset was handed over. *)
LEMMA RunningIsAhead ==
    ASSUME PoolInv, NEW w \in Workers, th[w] = "running"
    PROVE  /\ call.at \in {"launch", "store", "wait"} /\ HasWork(w) /\ ~Through(w)
           /\ ~(w < next_to_yield) /\ w \notin done
           /\ call.at = "wait" /\ call.mode = "embed" => ~(w < call.w)
           /\ call.at \in {"launch", "store"} => w < call.w
<1>1. call.at # "idle" /\ call.at \notin {"returned", "raised"}
    BY DEF PoolInv, LaunchInv
<1>2. call.at \in {"launch", "store", "wait"}
    BY <1>1, CallFields DEF Places
<1>3. HasWork(w)
    BY <1>1 DEF PoolInv, LaunchInv
<1>4. ~Through(w)
    BY <1>3 DEF Through
<1>5. ~(w < next_to_yield) /\ w \notin done
    BY <1>1, <1>4 DEF PoolInv, DoneInv
<1>6. call.at = "wait" /\ call.mode = "embed" => ~(w < call.w)
    BY DEF PoolInv, LaunchInv
<1>7. call.at \in {"launch", "store"} => w < call.w
    BY DEF PoolInv, LaunchInv
<1> QED  BY <1>2, <1>3, <1>4, <1>5, <1>6, <1>7

(* A worker that is not through changes nothing of what was received. *)
LEMMA OutStays ==
    ASSUME PoolInv, NEW w \in Workers, th[w] = "running", UNCHANGED <<call, next_to_yield, out>>,
           \A v \in Workers : v # w => partial'[v] = partial[v]
    PROVE  OutInv'
<1>1. /\ call.at \in {"launch", "store", "wait"} /\ ~(w < next_to_yield)
      /\ call.at = "wait" /\ call.mode = "embed" => ~(w < call.w)
    BY RunningIsAhead
<1>2. call.mode \in {"embed", "stream", "py"}
    BY <1>1, CallFields
<1>3. Received(next_to_yield) => Received(next_to_yield)'
    BY <1>1, SameReceived DEF Received
<1>4. call.at = "wait" /\ call.mode = "embed" /\ Received(call.w) => Received(call.w)'
    BY <1>1, SameReceived DEF Received
<1> QED  BY <1>1, <1>2, <1>3, <1>4 DEF PoolInv, OutInv

(* What a batch adds: the vectors of the next texts. *)
LEMMA BatchIsTight ==
    ASSUME NEW p \in Nat, NEW e \in Nat, p <= e
    PROVE  LET b == [i \in 1..(e - p) |-> p + i - 1] IN b \in Seq(Nat) /\ Tight(b, p, e)
<1> DEFINE b == [i \in 1..(e - p) |-> p + i - 1]
<1>1. e - p \in Nat /\ \A i \in 1..(e - p) : p + i - 1 \in Nat
    OBVIOUS
<1>2. b \in Seq(Nat) /\ Len(b) = e - p /\ DOMAIN b = 1..(e - p)
    BY <1>1
<1>3. \A i \in 1..(e - p) : b[i] = p + i - 1
    OBVIOUS
<1> HIDE DEF b
<1>4. Tight(b, p, e)
    BY <1>2, <1>3 DEF Tight
<1> QED  BY <1>2, <1>4 DEF b

LEMMA BatchEndInside ==
    ASSUME PoolInv, NEW w \in Workers, th[w] = "running"
    PROVE  /\ BatchEnd(w) \in Nat /\ pos[w] <= BatchEnd(w) /\ BatchEnd(w) <= End(w)
           /\ pos[w] \in Nat /\ Start(w) \in Nat /\ End(w) \in Nat /\ Start(w) <= pos[w]
<1>1. call.at # "idle"
    BY RunningIsAhead
<1>2. call \in Calls /\ call.bs \in Nat /\ pos[w] \in Nat
    BY <1>1, CallFields DEF PoolInv, TypeInv
<1>3. Start(w) \in Nat /\ End(w) \in Nat
    BY <1>2, Split, WorkersAssumption DEF Workers
<1>4. Start(w) <= pos[w] /\ pos[w] <= End(w)
    BY <1>1 DEF PoolInv, PartsInv
<1> QED  BY <1>2, <1>3, <1>4 DEF BatchEnd, Min2

LEMMA WorkBatchKeeps ==
    ASSUME PoolInv, NEW w \in Workers, WorkBatch(w)
    PROVE  PoolInv'
<1> DEFINE b == [i \in 1..(BatchEnd(w) - pos[w]) |-> pos[w] + i - 1]
<1>1. /\ th[w] = "running" /\ pos' = [pos EXCEPT ![w] = BatchEnd(w)]
      /\ partial' = [partial EXCEPT ![w] = partial[w] \o b]
      /\ UNCHANGED <<call, th, done, next_to_yield, out>>
    BY DEF WorkBatch
<1>2. call.at \in {"launch", "store", "wait"} /\ HasWork(w)
      /\ (call.at \in {"launch", "store"} => w < call.w)
    BY <1>1, RunningIsAhead
<1>3. /\ BatchEnd(w) \in Nat /\ pos[w] <= BatchEnd(w) /\ BatchEnd(w) <= End(w)
      /\ pos[w] \in Nat /\ Start(w) \in Nat /\ End(w) \in Nat /\ Start(w) <= pos[w]
    BY <1>1, BatchEndInside
<1>4. b \in Seq(Nat) /\ Tight(b, pos[w], BatchEnd(w))
    BY <1>3, BatchIsTight
<1>5. partial[w] \in Seq(Nat) /\ Tight(partial[w], Start(w), pos[w])
    BY <1>2 DEF PoolInv, TypeInv, PartsInv
<1> HIDE DEF b
<1>6. partial[w] \o b \in Seq(Nat) /\ Tight(partial[w] \o b, Start(w), BatchEnd(w))
    BY <1>3, <1>4, <1>5, TightJoins
<1>7. /\ \A v \in Workers : v # w => partial'[v] = partial[v] /\ pos'[v] = pos[v]
      /\ partial'[w] = partial[w] \o b /\ pos'[w] = BatchEnd(w)
    BY <1>1 DEF PoolInv, TypeInv
<1>8. TypeInv'
    BY <1>1, <1>3, <1>6 DEF PoolInv, TypeInv
<1>9. LaunchInv'
    <2>1. w \in Nat /\ (call.at \in {"launch", "store"} => call.w \in Nat)
        BY <1>2, CallFields, WorkersAssumption DEF Workers
    <2> QED  BY <1>1, <1>2, <1>7, <2>1, SameSplit DEF PoolInv, LaunchInv
<1>10. PartsInv'
    <2>1. \A v \in Workers : Start(v)' = Start(v) /\ End(v)' = End(v)
        BY <1>1, SameSplit
    <2>2. \A v \in Workers : v # w =>
            /\ th'[v] # "none" \/ partial'[v] # <<>> => Start(v)' <= pos'[v] /\ pos'[v] <= End(v)'
            /\ Tight(partial'[v], Start(v)', pos'[v])
        BY <1>1, <1>2, <1>7, <2>1 DEF PoolInv, PartsInv
    <2>3. /\ Start(w)' <= pos'[w] /\ pos'[w] <= End(w)'
          /\ Tight(partial'[w], Start(w)', pos'[w])
        BY <1>3, <1>6, <1>7, <2>1
    <2> QED  BY <2>2, <2>3 DEF PartsInv
<1>11. DoneInv'
    BY <1>1, SameSplit DEF PoolInv, DoneInv, Through
<1>12. OutInv'
    BY <1>1, <1>7, OutStays
<1>13. StreamInv'
    BY <1>1, <1>2, SameStream DEF PoolInv
<1> QED  BY <1>8, <1>9, <1>10, <1>11, <1>12, <1>13 DEF PoolInv

LEMMA WorkFailsKeeps ==
    ASSUME PoolInv, NEW w \in Workers, WorkFails(w)
    PROVE  PoolInv'
<1>1. /\ th[w] = "running" /\ UNCHANGED <<call, partial, done, next_to_yield, out>>
      /\ \/ call.mode = "py" /\ th' = [th EXCEPT ![w] = "raised"] /\ UNCHANGED pos
         \/ call.mode # "py" /\ pos' = [pos EXCEPT ![w] = BatchEnd(w)] /\ UNCHANGED th
    BY DEF WorkFails
<1>2. /\ call.at \in {"launch", "store", "wait"} /\ HasWork(w) /\ ~Through(w)
      /\ ~(w < next_to_yield) /\ w \notin done
      /\ (call.at \in {"launch", "store"} => w < call.w)
      /\ (call.at = "wait" /\ call.mode = "embed" => ~(w < call.w))
    BY <1>1, RunningIsAhead
<1>3. /\ BatchEnd(w) \in Nat /\ pos[w] <= BatchEnd(w) /\ BatchEnd(w) <= End(w)
      /\ pos[w] \in Nat /\ Start(w) \in Nat /\ End(w) \in Nat /\ Start(w) <= pos[w]
    BY <1>1, BatchEndInside
<1>4. OutInv'
    BY <1>1, OutStays
<1>5. CASE call.mode = "py" /\ th' = [th EXCEPT ![w] = "raised"] /\ UNCHANGED pos
    <2>1. \A v \in Workers : th'[v] = IF v = w THEN "raised" ELSE th[v]
        BY <1>5 DEF PoolInv, TypeInv
    <2>2. TypeInv'
        BY <1>1, <1>5 DEF PoolInv, TypeInv
    <2>3. LaunchInv'
        BY <1>1, <1>2, <1>5, <2>1, SameSplit DEF PoolInv, LaunchInv
    <2>4. PartsInv'
        BY <1>1, <1>2, <1>5, <2>1, SameParts DEF PoolInv
    <2>5. DoneInv'
        BY <1>1, <1>2, <1>5, <2>1, SameSplit DEF PoolInv, DoneInv, Through
    <2>6. StreamInv'
        BY <1>1, <1>5 DEF StreamInv
    <2> QED  BY <1>4, <2>2, <2>3, <2>4, <2>5, <2>6 DEF PoolInv
<1>6. CASE call.mode # "py" /\ pos' = [pos EXCEPT ![w] = BatchEnd(w)] /\ UNCHANGED th
    <2>1. /\ \A v \in Workers : v # w => pos'[v] = pos[v]
          /\ pos'[w] = BatchEnd(w)
        BY <1>6 DEF PoolInv, TypeInv
    <2>2. TypeInv'
        BY <1>1, <1>3, <1>6 DEF PoolInv, TypeInv
    <2>3. LaunchInv'
        BY <1>1, <1>6, SameSplit DEF PoolInv, LaunchInv
    <2>4. PartsInv'
        <3>1. \A v \in Workers : Start(v)' = Start(v) /\ End(v)' = End(v)
            BY <1>1, SameSplit
        <3>2. \A v \in Workers : v # w =>
                /\ th'[v] # "none" \/ partial'[v] # <<>> => Start(v)' <= pos'[v] /\ pos'[v] <= End(v)'
                /\ Tight(partial'[v], Start(v)', pos'[v])
            BY <1>1, <1>2, <1>6, <2>1, <3>1 DEF PoolInv, PartsInv
        <3>3. partial[w] \in Seq(Nat) /\ Tight(partial[w], Start(w), pos[w])
            BY <1>2 DEF PoolInv, TypeInv, PartsInv
        <3>4. Tight(partial[w], Start(w), BatchEnd(w))
            BY <1>3, <3>3, TightWidens
        <3>5. /\ Start(w)' <= pos'[w] /\ pos'[w] <= End(w)'
              /\ Tight(partial'[w], Start(w)', pos'[w])
            BY <1>1, <1>3, <2>1, <3>1, <3>4
        <3> QED  BY <3>2, <3>5 DEF PartsInv
    <2>5. DoneInv'
        BY <1>1, <1>6, SameSplit DEF PoolInv, DoneInv, Through
    <2>6. StreamInv'
        BY <1>1, <1>2, <1>6, SameStream DEF PoolInv
    <2> QED  BY <1>4, <2>2, <2>3, <2>4, <2>5, <2>6 DEF PoolInv
<1> QED  BY <1>1, <1>5, <1>6

(* A worker that is through: of embed and of the Python pool it ends, of a *)
(* stream it sets its bit and keeps mtx.                                   *)
LEMMA WorkEndsKeeps ==
    ASSUME PoolInv, NEW w \in Workers, WorkEnds(w) \/ Publish(w)
    PROVE  PoolInv'
<1>1. /\ th[w] = "running" /\ UNCHANGED <<call, pos, partial, next_to_yield, out>>
      /\ \/ call.mode # "stream" /\ th' = [th EXCEPT ![w] = "ended"] /\ UNCHANGED done
         \/ call.mode = "stream" /\ th' = [th EXCEPT ![w] = "yielding"] /\ done' = done \cup {w}
    BY DEF WorkEnds, Publish
<1>2. /\ call.at \in {"launch", "store", "wait"} /\ HasWork(w)
      /\ (call.at \in {"launch", "store"} => w < call.w)
      /\ (call.at = "wait" /\ call.mode = "embed" => ~(w < call.w))
    BY <1>1, RunningIsAhead
<1>3. /\ \A v \in Workers : v # w => th'[v] = th[v]
      /\ IF call.mode = "stream" THEN th'[w] = "yielding" ELSE th'[w] = "ended"
    BY <1>1 DEF PoolInv, TypeInv
<1>4. TypeInv'
    BY <1>1 DEF PoolInv, TypeInv
<1>5. LaunchInv'
    BY <1>1, <1>2, <1>3, SameSplit DEF PoolInv, LaunchInv
<1>6. PartsInv'
    BY <1>1, <1>2, <1>3, SameParts DEF PoolInv
<1>7. DoneInv'
    <2>1. Through(w)'
        BY <1>3 DEF Through
    <2>2. \A v \in Workers : Through(v) => Through(v)'
        BY <1>1, <1>3, <2>1, SameSplit DEF Through
    <2>3. call.at = "store" => call.word \subseteq Workers
        BY CallFields
    <2> QED  BY <1>1, <1>2, <2>1, <2>2, <2>3 DEF PoolInv, DoneInv
<1>8. OutInv'
    BY <1>1, OutStays
<1>9. StreamInv'
    <2>1. call.mode = "stream" => Locked'
        BY <1>3 DEF Locked
    <2> QED  BY <1>1, <1>2, <1>3, <2>1, SameSplit DEF PoolInv, StreamInv
<1> QED  BY <1>4, <1>5, <1>6, <1>7, <1>8, <1>9 DEF PoolInv

(* The holder of mtx hands over the subset that is due ... *)
LEMMA YieldKeeps ==
    ASSUME PoolInv, NEW w \in Workers, Yield(w)
    PROVE  PoolInv'
<1>1. /\ th[w] = "yielding" /\ next_to_yield < NumWorkers /\ next_to_yield \in done
      /\ out' = out \o partial[next_to_yield] /\ next_to_yield' = next_to_yield + 1
      /\ UNCHANGED <<call, th, pos, partial, done>>
    BY DEF Yield
<1>2. call.at # "idle" /\ call.at \notin {"returned", "raised"} /\ call.mode = "stream"
    BY <1>1 DEF PoolInv, LaunchInv
<1>3. call.at \in {"launch", "store", "wait"}
    BY <1>2, CallFields DEF Places
<1>4. Received(next_to_yield) /\ next_to_yield \in Workers
    BY <1>1, <1>2, <1>3 DEF PoolInv, OutInv, TypeInv
<1>5. PICK k \in Workers : k = next_to_yield
    BY <1>4
<1>6. k \in Nat /\ k + 1 \in 0..NumWorkers /\ Workers \subseteq Nat
    BY WorkersAssumption DEF Workers
<1>7. /\ out' \in Seq(Nat) /\ Tight(out', 0, Lim(k + 1)')
      /\ (\A v \in Workers : v < k + 1 => Full(v)') => Len(out') = Lim(k + 1)'
    BY <1>1, <1>2, <1>4, <1>5, ReceivesNext
<1>8. Received(next_to_yield)'
    BY <1>1, <1>5, <1>7 DEF Received
<1>9. TypeInv'
    BY <1>1, <1>5, <1>6, <1>7 DEF PoolInv, TypeInv
<1>10. LaunchInv'
    BY <1>1, <1>2, SameSplit DEF PoolInv, LaunchInv
<1>11. PartsInv'
    BY <1>1, <1>2, SameParts DEF PoolInv
<1>12. DoneInv'
    <2>1. \A v \in Workers : v < k + 1 <=> v < k \/ v = k
        BY <1>6
    <2> QED  BY <1>1, <1>2, <1>5, <2>1, SameSplit DEF PoolInv, DoneInv, Through
<1>13. OutInv'
    BY <1>1, <1>2, <1>3, <1>8 DEF OutInv
<1>14. StreamInv'
    <2>1. Locked'
        BY <1>1 DEF Locked
    <2> QED  BY <1>1, <1>2, <2>1, SameSplit DEF PoolInv, StreamInv
<1> QED  BY <1>9, <1>10, <1>11, <1>12, <1>13, <1>14 DEF PoolInv

(* ... and releases mtx when none is due. *)
LEMMA YieldEndsKeeps ==
    ASSUME PoolInv, NEW w \in Workers, YieldEnds(w)
    PROVE  PoolInv'
<1>1. /\ th[w] = "yielding" /\ ~(next_to_yield < NumWorkers /\ next_to_yield \in done)
      /\ th' = [th EXCEPT ![w] = "ended"]
      /\ UNCHANGED <<call, pos, partial, done, next_to_yield, out>>
    BY DEF YieldEnds
<1>2. call.at # "idle" /\ call.at \notin {"returned", "raised"} /\ call.mode = "stream"
    BY <1>1 DEF PoolInv, LaunchInv
<1>3. \A v \in Workers : th'[v] = IF v = w THEN "ended" ELSE th[v]
    BY <1>1 DEF PoolInv, TypeInv
<1>4. TypeInv'
    BY <1>1 DEF PoolInv, TypeInv
<1>5. LaunchInv'
    BY <1>1, <1>2, <1>3, SameSplit DEF PoolInv, LaunchInv
<1>6. PartsInv'
    BY <1>1, <1>2, <1>3, SameParts DEF PoolInv
<1>7. DoneInv'
    <2>1. \A v \in Workers : Through(v) => Through(v)'
        BY <1>1, <1>3, SameSplit DEF Through
    <2>2. call.at = "store" => call.word \subseteq Workers
        BY CallFields
    <2> QED  BY <1>1, <1>2, <2>1, <2>2 DEF PoolInv, DoneInv
<1>8. OutInv'
    <2>1. Received(next_to_yield) => Received(next_to_yield)'
        BY <1>1, SameReceived DEF Received
    <2> QED  BY <1>1, <1>2, <2>1 DEF PoolInv, OutInv
<1>9. StreamInv'
    <2>1. next_to_yield \notin done
        <3>1. done \subseteq Workers /\ \A v \in Workers : v < NumWorkers
            BY WorkersAssumption DEF PoolInv, TypeInv, Workers
        <3> QED  BY <1>1, <3>1
    <2> QED  BY <1>1, <1>2, <1>3, <2>1, SameSplit DEF PoolInv, StreamInv
<1> QED  BY <1>4, <1>5, <1>6, <1>7, <1>8, <1>9 DEF PoolInv

-----------------------------------------------------------------------------
LEMMA StutterKeeps ==
    ASSUME PoolInv, UNCHANGED vars
    PROVE  PoolInv'
<1>1. UNCHANGED <<call, th, pos, partial, done, next_to_yield, out>>
    BY DEF vars
<1>2. TypeInv' /\ LaunchInv'
    BY <1>1, SameSplit DEF PoolInv, TypeInv, LaunchInv
<1>3. PartsInv' /\ DoneInv'
    BY <1>1, SameSplit DEF PoolInv, PartsInv, DoneInv, Through
<1>4. OutInv'
    <2>1. /\ Received(next_to_yield) => Received(next_to_yield)'
          /\ Received(call.w) => Received(call.w)'
        BY <1>1, SameReceived DEF Received
    <2>2. call.at \in {"launch", "store", "wait"} => call.mode \in {"embed", "stream", "py"}
        BY CallFields
    <2> QED  BY <1>1, <2>1, <2>2, SameSplit DEF PoolInv, OutInv, NoBatchFailed
<1>5. StreamInv'
    BY <1>1, SameSplit DEF PoolInv, StreamInv, Locked
<1> QED  BY <1>2, <1>3, <1>4, <1>5 DEF PoolInv

LEMMA PoolInvIsInvariant == Spec => []PoolInv
<1>1. ASSUME PoolInv, [Next]_vars
      PROVE  PoolInv'
    <2>1. CASE \E mode \in Modes, total \in Totals, bs \in BatchSizes : Call(mode, total, bs)
        BY <1>1, <2>1, CallKeeps
    <2>2. CASE Launch \/ SkipIdle \/ IdleLoad \/ IdleStore \/ LaunchEnds
        BY <1>1, <2>2, LaunchKeeps, SkipIdleKeeps, IdleStoreKeeps, LaunchEndsKeeps
    <2>3. CASE Collect \/ CollectEnds \/ Join \/ PyReturn
        BY <1>1, <2>3, CollectKeeps, CollectEndsKeeps, JoinKeeps, PyReturnKeeps
    <2>4. CASE \E w \in Workers : Worker(w)
        BY <1>1, <2>4, WorkBatchKeeps, WorkFailsKeeps, WorkEndsKeeps, YieldKeeps, YieldEndsKeeps
           DEF Worker
    <2>5. CASE UNCHANGED vars
        BY <1>1, <2>5, StutterKeeps
    <2> QED  BY <1>1, <2>1, <2>2, <2>3, <2>4, <2>5 DEF Next, Main
<1> QED  BY <1>1, InitHolds, PTL DEF Spec

(* For any number of workers, texts and batch sizes, and whichever batches *)
(* fail, what a pool's caller has received at any moment is in the order   *)
(* of the texts, although the subsets are finished in any order.           *)
THEOREM PoolKeepsOrder == Spec => []OutIncreases
<1>1. PoolInv => OutIncreases
    <2> SUFFICES ASSUME PoolInv PROVE \E hi : Tight(out, 0, hi)
        BY DEF OutIncreases, Tight
    <2>1. CASE out = <<>>
        BY <2>1 DEF Tight
    <2>2. CASE out # <<>>
        <3>1. call.at # "idle" /\ call.at # "raised"
            BY <2>2 DEF PoolInv, LaunchInv, OutInv
        <3>2. call.at \in Places /\ call.mode \in {"embed", "stream", "py"}
            BY <3>1, CallFields
        <3> QED  BY <2>2, <3>1, <3>2 DEF PoolInv, OutInv, Received, Places
    <2> QED  BY <2>1, <2>2
<1> QED  BY <1>1, PoolInvIsInvariant, PTL

(* For any number of workers, texts and batch sizes, a call of embed, of   *)
(* embed_stream (when every worker has texts) or of the Python pool that   *)
(* returns without a failed batch has delivered the vector of every text,  *)
(* at its place.                                                           *)
THEOREM PoolDeliversAll == Spec => []DeliversAll
<1>1. PoolInv => DeliversAll
    <2> SUFFICES ASSUME PoolInv, call.at = "returned", NoBatchFailed,
                        call.mode = "stream" => \A w \in Workers : HasWork(w)
                 PROVE  out = [i \in 1..call.total |-> i - 1]
        BY DEF DeliversAll, OnePerText
    <2>1. Tight(out, 0, call.total) /\ Len(out) = call.total
        BY DEF PoolInv, OutInv
    <2>2. out \in Seq(Nat) /\ call.total \in Nat
        BY CallFields DEF PoolInv, TypeInv
    <2> QED  BY <2>1, <2>2, TightWhole
<1> QED  BY <1>1, PoolInvIsInvariant, PTL

-----------------------------------------------------------------------------
(* The llama.cpp scheduler. *)

Given == {Value(c) : c \in Callers} \cup {Error, <<"empty">>, <<"garbage">>}
Outcomes == Given \cup {<<"none">>, <<"queued">>, Broken}

(* Types, and what each place of the worker and of the owner implies: the  *)
(* worker holds a batch only between taking and settling it, and the owner *)
(* is past its join only when the worker has left.                         *)
Shape ==
    /\ requests_ \in Seq(Callers) /\ batch \in Seq(Callers) /\ arrived \in Seq(Callers)
    /\ max_batch_size_ \in Nat \ {0}
    /\ turn \in Nat \ {0}
    /\ embeddings \in Seq(Given)
    /\ outcome \in [Callers -> Outcomes]
    /\ worker \in {"top", "waiting", "process", "settle", "exited"}
    /\ worker \in {"top", "waiting", "exited"} => batch = <<>>
    /\ worker = "settle" => Len(embeddings) = Len(batch) /\ turn <= Len(batch) + 1
    /\ owner \in [at : {"idle", "joining", "joined", "reset", "freed", "gone"},
                  first : {"none", "disable", "free"}]
    /\ owner.at = "idle" <=> owner.first = "none"
    /\ worker # "exited" => owner.at \in {"idle", "joining", "freed"}
    /\ contexts = "live" \/ owner.first = "free" \/ owner.at = "gone"

(* How many of the requests that arrived have been taken, and settled.     *)
Taken == Len(arrived) - Len(requests_)
Finished == Taken - Len(batch) + IF worker = "settle" THEN turn - 1 ELSE 0

(* Until the scheduler is destroyed the queue is the end of what arrived,  *)
(* and the batch lies just before it.                                      *)
InLine ==
    /\ Len(requests_) + Len(batch) <= Len(arrived)
    /\ \A j \in 1..Len(requests_) : requests_[j] = arrived[Taken + j]
    /\ \A j \in 1..Len(batch) : batch[j] = arrived[Taken - Len(batch) + j]

Open == {<<"none">>, <<"queued">>}

(* No caller arrived twice, the first Finished requests are settled, and   *)
(* the others wait.                                                        *)
InPace ==
    /\ \A x, y \in 1..Len(arrived) : arrived[x] = arrived[y] => x = y
    /\ \A x \in 1..Len(arrived) :
         IF x <= Finished THEN outcome[arrived[x]] \notin Open ELSE outcome[arrived[x]] = <<"queued">>

Serving == owner.at \notin {"reset", "gone"}

(* The embeddings in hand are those of the batch's texts, in order.        *)
OwnBatch ==
    owner.first # "free" /\ worker = "settle" =>
        \A j \in 1..Len(batch) : embeddings[j] \in {Value(batch[j]), <<"empty">>}

SchedInv == Shape /\ (Serving => InLine /\ InPace) /\ OwnBatch /\ OwnEmbedding

-----------------------------------------------------------------------------
LEMMA Distinguished ==
    /\ \A c : Value(c) \notin {<<"none">>, <<"queued">>}
    /\ {Error, Broken, <<"empty">>, <<"garbage">>} \cap {<<"none">>, <<"queued">>} = {}
    /\ <<"none">> # <<"queued">>
BY DEF Value, Error, Broken

LEMMA InitSchedInv == SchedInit => SchedInv
BY LimitAssumption
DEF SchedInit, SchedInv, Shape, Serving, InLine, InPace, OwnBatch, OwnEmbedding, Settled,
    Given, Outcomes, Taken, Finished

(* The shape is kept by every step. *)
LEMMA StepShape == Shape /\ [SchedNext]_schedVars => Shape'
<1>. SUFFICES ASSUME Shape, [SchedNext]_schedVars PROVE Shape'
  OBVIOUS
<1>. USE DEF Shape, workerVars, ownerVars
<1>1. ASSUME NEW c \in Callers, Submit(c) PROVE Shape'
  BY <1>1 DEF Submit, Outcomes
<1>2. ASSUME NEW c \in Callers, SubmitGet(c) PROVE Shape'
  BY <1>2 DEF SubmitGet
<1>3. ASSUME NEW n \in BatchLimits, SetMaxBatchSize(n) PROVE Shape'
  BY <1>3, LimitAssumption DEF SetMaxBatchSize
<1>4. CASE WorkerTop
  BY <1>4 DEF WorkerTop
<1>5. CASE WorkerTake
  BY <1>5 DEF WorkerTake, Take
<1>6. CASE WorkerAgain
  BY <1>6 DEF WorkerAgain
<1>7. CASE ProcessOk
  <2>1. Len(batch) \in Nat /\ \A n \in 1..Len(batch) : Value(batch[n]) \in Given
    BY DEF Given
  <2>2. embeddings' \in [1..Len(batch) -> Given]
    BY <1>7, <2>1 DEF ProcessOk, Given
  <2>3. embeddings' \in Seq(Given)
    BY SMTT(20), <2>1, <2>2, SeqDef
  <2>4. Len(embeddings') = Len(batch)
    BY <2>1, <2>2, <2>3, LenProperties
  <2>. QED  BY <1>7, <2>1, <2>3, <2>4 DEF ProcessOk
<1>8. CASE ProcessThrows
  BY <1>8 DEF ProcessThrows, Given
<1>9. CASE SettleOne
  <2>1. embeddings[turn] \in Given /\ batch[turn] \in Callers
    BY <1>9 DEF SettleOne
  <2>. QED  BY <1>9, <2>1 DEF SettleOne, Outcomes, Given
<1>10. CASE SettleEnds
  BY <1>10 DEF SettleEnds
<1>11. CASE Disable \/ JoinWorker \/ FreeContexts \/ FreeFirst \/ DestroyScheduler
  BY <1>11 DEF Disable, JoinWorker, FreeContexts, FreeFirst, DestroyScheduler
<1>12. CASE Reset
  BY <1>12 DEF Reset, Outcomes
<1>13. CASE UNCHANGED schedVars
  BY <1>13 DEF schedVars
<1>. QED
  BY <1>1, <1>2, <1>3, <1>4, <1>5, <1>6, <1>7, <1>8, <1>9, <1>10, <1>11, <1>12, <1>13
  DEF SchedNext, WorkerLoop, Owner

-----------------------------------------------------------------------------
(* Requests stay in line while the scheduler serves.                       *)
LEMMA Lengths ==
    ASSUME Shape
    PROVE  /\ Len(arrived) \in Nat /\ Len(requests_) \in Nat /\ Len(batch) \in Nat
           /\ turn \in Nat /\ Taken \in Int /\ Finished \in Int
BY DEF Shape, Taken, Finished

(* A step that leaves the requests where they are keeps the line.          *)
LEMMA Same ==
    ASSUME Shape, InLine, InPace, UNCHANGED <<requests_, arrived, batch, outcome>>,
           Finished' = Finished
    PROVE  InLine' /\ InPace'
<1>1. Taken' = Taken
  BY DEF Taken
<1>2. InLine'
  BY <1>1 DEF InLine
<1>3. InPace'
  BY DEF InPace
<1>. QED  BY <1>2, <1>3

LEMMA SubmitServing ==
    ASSUME Shape, InLine, InPace, NEW c \in Callers, Submit(c)
    PROVE  InLine' /\ InPace'
<1>1. /\ arrived' \in Seq(Callers) /\ Len(arrived') = Len(arrived) + 1
      /\ \A x \in 1..Len(arrived) : arrived'[x] = arrived[x]
      /\ arrived'[Len(arrived) + 1] = c
  BY DEF Submit, Shape
<1>2. /\ Len(requests_') = Len(requests_) + 1
      /\ \A x \in 1..Len(requests_) : requests_'[x] = requests_[x]
      /\ requests_'[Len(requests_) + 1] = c
  BY DEF Submit, Shape
<1>3. UNCHANGED <<batch, worker, turn>>
  BY DEF Submit, workerVars
<1>4. Taken' = Taken /\ Finished' = Finished
  BY <1>1, <1>2, <1>3, Lengths DEF Taken, Finished
<1>5. InLine'
  <2>1. Len(requests_') + Len(batch') <= Len(arrived')
    BY <1>1, <1>2, <1>3, Lengths DEF InLine
  <2>2. ASSUME NEW j \in 1..Len(requests_') PROVE requests_'[j] = arrived'[Taken' + j]
    <3>1. CASE j = Len(requests_) + 1
      BY <1>1, <1>2, <1>4, <3>1, Lengths DEF Taken
    <3>2. CASE j \in 1..Len(requests_)
      <4>1. Taken + j \in 1..Len(arrived)
        BY <3>2, Lengths DEF Taken, InLine
      <4>. QED  BY <1>1, <1>2, <1>4, <3>2, <4>1 DEF InLine
    <3>. QED  BY <1>2, <3>1, <3>2, Lengths
  <2>3. ASSUME NEW j \in 1..Len(batch') PROVE batch'[j] = arrived'[Taken' - Len(batch') + j]
    <3>1. Taken - Len(batch) + j \in 1..Len(arrived)
      BY <1>3, Lengths DEF Taken, InLine
    <3>. QED  BY <1>1, <1>3, <1>4, <3>1 DEF InLine
  <2>. QED  BY <2>1, <2>2, <2>3 DEF InLine
<1>6. /\ outcome' = [outcome EXCEPT ![c] = <<"queued">>] /\ outcome[c] = <<"none">>
      /\ DOMAIN outcome = Callers
  BY DEF Submit, Shape
<1>7. \A x \in 1..Len(arrived) : arrived[x] # c
  BY <1>6, Distinguished DEF InPace, Open
<1>8. ASSUME NEW x \in 1..Len(arrived')
      PROVE  IF x <= Finished' THEN outcome'[arrived'[x]] \notin Open
             ELSE outcome'[arrived'[x]] = <<"queued">>
  <2>1. CASE x \in 1..Len(arrived)
    <3>1. arrived'[x] = arrived[x] /\ outcome'[arrived[x]] = outcome[arrived[x]]
      BY <1>1, <1>6, <1>7, <2>1
    <3>. QED  BY <1>4, <2>1, <3>1 DEF InPace
  <2>2. CASE x = Len(arrived) + 1
    <3>1. outcome'[arrived'[x]] = <<"queued">>
      BY <1>1, <1>6, <2>2
    <3>2. ~(x <= Finished')
      BY <1>4, <2>2, Lengths DEF Finished, Taken, Shape
    <3>. QED  BY <3>1, <3>2
  <2>. QED  BY <1>1, <2>1, <2>2, Lengths
<1>9. \A x, y \in 1..Len(arrived') : arrived'[x] = arrived'[y] => x = y
  <2>. TAKE x, y \in 1..Len(arrived')
  <2>1. x \in 1..Len(arrived) \/ x = Len(arrived) + 1
    BY <1>1, Lengths
  <2>2. y \in 1..Len(arrived) \/ y = Len(arrived) + 1
    BY <1>1, Lengths
  <2>. QED  BY <1>1, <1>7, <2>1, <2>2 DEF InPace
<1>10. InPace'
  BY <1>8, <1>9 DEF InPace, Open
<1>. QED  BY <1>5, <1>10

LEMMA TakeServing ==
    ASSUME Shape, InLine, InPace, WorkerTake
    PROVE  InLine' /\ InPace'
<1>1. Take \in 1..Len(requests_)
  BY Lengths DEF WorkerTake, Take, Shape
<1>2. /\ Len(batch') = Take /\ Len(requests_') = Len(requests_) - Take
      /\ \A j \in 1..Take : batch'[j] = requests_[j]
      /\ \A j \in 1..(Len(requests_) - Take) : requests_'[j] = requests_[Take + j]
  BY <1>1 DEF WorkerTake, Shape
<1>3. /\ UNCHANGED <<arrived, outcome>>
      /\ Len(batch) = 0 /\ worker' = "process" /\ worker = "waiting"
  BY DEF WorkerTake, Shape
<1>4. Taken' = Taken + Take /\ Finished' = Finished
  BY <1>1, <1>2, <1>3, Lengths DEF Taken, Finished
<1>5. InPace'
  BY <1>3, <1>4 DEF InPace
<1>6. ASSUME NEW j \in 1..Len(requests_') PROVE requests_'[j] = arrived'[Taken' + j]
  <2>1. Take + j \in 1..Len(requests_) /\ Taken + (Take + j) = Taken' + j
    BY <1>1, <1>2, <1>4, Lengths
  <2>. QED  BY <1>2, <1>3, <2>1 DEF InLine
<1>7. ASSUME NEW j \in 1..Len(batch') PROVE batch'[j] = arrived'[Taken' - Len(batch') + j]
  <2>1. j \in 1..Len(requests_) /\ Taken' - Len(batch') + j = Taken + j
    BY <1>1, <1>2, <1>4, Lengths
  <2>. QED  BY <1>2, <1>3, <2>1 DEF InLine
<1>8. Len(requests_') + Len(batch') <= Len(arrived')
  BY <1>1, <1>2, <1>3, Lengths DEF InLine
<1>. QED  BY <1>5, <1>6, <1>7, <1>8 DEF InLine

(* The promise that is settled is that of the first request that waits.    *)
LEMMA NextToSettle ==
    ASSUME Shape, InLine, InPace, SettleOne
    PROVE  /\ Finished + 1 \in 1..Len(arrived) /\ batch[turn] = arrived[Finished + 1]
           /\ Finished' = Finished + 1
           /\ \A x \in 1..Len(arrived) : x # Finished + 1 => arrived[x] # batch[turn]
           /\ outcome[batch[turn]] = <<"queued">>
<1>1. turn \in 1..Len(batch) /\ worker = "settle"
  BY DEF SettleOne, Shape
<1>2. Finished + 1 = Taken - Len(batch) + turn
  BY <1>1, Lengths DEF Finished
<1>3. Finished + 1 \in 1..Len(arrived) /\ batch[turn] = arrived[Finished + 1]
  BY <1>1, <1>2, Lengths DEF InLine, Taken
<1>4. Finished' = Finished + 1
  BY <1>1, Lengths DEF SettleOne, Finished, Taken
<1>5. ~(Finished + 1 <= Finished)
  BY Lengths
<1>. QED  BY <1>3, <1>4, <1>5 DEF InPace

LEMMA SettleServing ==
    ASSUME Shape, InLine, InPace, SettleOne
    PROVE  InLine' /\ InPace'
<1>1. UNCHANGED <<arrived, requests_, batch>> /\ Taken' = Taken
  BY DEF SettleOne, Taken
<1>2. \E v \in Given : v \notin Open /\ outcome' = [outcome EXCEPT ![batch[turn]] = v]
  <2>1. embeddings[turn] \in Given /\ Error \in Given
    BY DEF SettleOne, Shape, Given
  <2>2. \A v \in Given : v \notin Open
    BY Distinguished DEF Given, Open
  <2>. QED  BY <2>1, <2>2 DEF SettleOne
<1>3. batch[turn] \in Callers /\ DOMAIN outcome = Callers
  BY DEF SettleOne, Shape
<1>4. InLine'
  BY <1>1 DEF InLine
<1>5. ASSUME NEW x \in 1..Len(arrived)
      PROVE  IF x <= Finished' THEN outcome'[arrived[x]] \notin Open
             ELSE outcome'[arrived[x]] = <<"queued">>
  <2>1. CASE x = Finished + 1
    BY <1>2, <1>3, <2>1, NextToSettle, Lengths
  <2>2. CASE x # Finished + 1
    <3>1. outcome'[arrived[x]] = outcome[arrived[x]]
      BY <1>2, <2>2, NextToSettle
    <3>2. x <= Finished' <=> x <= Finished
      BY <2>2, NextToSettle, Lengths
    <3>. QED  BY <3>1, <3>2 DEF InPace
  <2>. QED  BY <2>1, <2>2
<1>6. InPace'
  BY <1>1, <1>5 DEF InPace, Open
<1>. QED  BY <1>4, <1>6

LEMMA SettleEndsServing ==
    ASSUME Shape, InLine, InPace, SettleEnds
    PROVE  InLine' /\ InPace'
<1>1. /\ UNCHANGED <<arrived, requests_, outcome>> /\ Len(batch') = 0
      /\ worker = "settle" /\ worker' = "top" /\ turn = Len(batch) + 1
  BY Lengths DEF SettleEnds, Shape
<1>2. Taken' = Taken /\ Finished' = Finished
  BY <1>1, Lengths DEF Taken, Finished
<1>3. InPace'
  BY <1>1, <1>2 DEF InPace
<1>. QED  BY <1>1, <1>2, <1>3, Lengths DEF InLine

LEMMA StepServing ==
    ASSUME Shape, Serving, InLine, InPace, [SchedNext]_schedVars, Serving'
    PROVE  InLine' /\ InPace'
<1>1. CASE ProcessOk \/ ProcessThrows \/ WorkerTop \/ WorkerAgain
  <2>1. UNCHANGED <<requests_, arrived, batch, outcome>>
    BY <1>1 DEF ProcessOk, ProcessThrows, WorkerTop, WorkerAgain
  <2>2. Finished' = Finished
    <3>1. worker # "settle" /\ (worker' = "settle" => turn' = 1)
      BY <1>1 DEF ProcessOk, ProcessThrows, WorkerTop, WorkerAgain
    <3>. QED  BY <2>1, <3>1, Lengths DEF Finished, Taken
  <2>. QED  BY <2>1, <2>2, Same
<1>2. ASSUME \/ \E c \in Callers : SubmitGet(c)
             \/ \E n \in BatchLimits : SetMaxBatchSize(n)
             \/ Disable \/ FreeFirst \/ JoinWorker \/ FreeContexts \/ DestroyScheduler
             \/ UNCHANGED schedVars
      PROVE  InLine' /\ InPace'
  <2>1. UNCHANGED <<requests_, arrived, batch, outcome, worker, turn>>
    BY <1>2 DEF SubmitGet, SetMaxBatchSize, Disable, FreeFirst, JoinWorker, FreeContexts,
                DestroyScheduler, schedVars, workerVars, ownerVars
  <2>. QED  BY <2>1, Same DEF Finished, Taken
<1>3. ~Reset
  BY DEF Reset, Serving, Shape
<1>. QED
  BY <1>1, <1>2, <1>3, SubmitServing, TakeServing, SettleServing, SettleEndsServing
  DEF SchedNext, WorkerLoop, Owner

-----------------------------------------------------------------------------
(* The embeddings in hand stay those of the batch.                         *)
LEMMA StepOwnBatch ==
    ASSUME Shape, OwnBatch, [SchedNext]_schedVars
    PROVE  OwnBatch'
<1>1. ASSUME ProcessOk \/ ProcessThrows PROVE OwnBatch'
  <2>1. contexts = "live" \/ owner.first = "free"
    BY <1>1 DEF ProcessOk, ProcessThrows, Shape
  <2>2. UNCHANGED <<owner, batch>> /\ DOMAIN batch = 1..Len(batch)
    BY <1>1 DEF ProcessOk, ProcessThrows, ownerVars, Shape
  <2>. QED  BY <1>1, <2>1, <2>2 DEF ProcessOk, ProcessThrows, OwnBatch
<1>2. ASSUME WorkerTop \/ WorkerTake \/ WorkerAgain \/ SettleEnds PROVE OwnBatch'
  BY <1>2 DEF WorkerTop, WorkerTake, WorkerAgain, SettleEnds, OwnBatch
<1>3. ASSUME \/ \E c \in Callers : Submit(c) \/ SubmitGet(c)
             \/ \E n \in BatchLimits : SetMaxBatchSize(n)
             \/ SettleOne \/ Disable \/ FreeFirst \/ Owner \/ UNCHANGED schedVars
      PROVE  OwnBatch'
  <2>1. UNCHANGED <<worker, batch, embeddings>>
    BY <1>3 DEF Submit, SubmitGet, SetMaxBatchSize, SettleOne, Disable, FreeFirst, Owner, JoinWorker,
                Reset, FreeContexts, DestroyScheduler, schedVars, workerVars
  <2>2. owner'.first # "free" => owner.first # "free"
    BY <1>3 DEF Submit, SubmitGet, SetMaxBatchSize, SettleOne, Disable, FreeFirst, Owner, JoinWorker,
                Reset, FreeContexts, DestroyScheduler, schedVars, ownerVars, Shape
  <2>. QED  BY <2>1, <2>2 DEF OwnBatch
<1>. QED  BY <1>1, <1>2, <1>3 DEF SchedNext, WorkerLoop

(* And so do those that were delivered. *)
LEMMA StepOwnEmbedding ==
    ASSUME Shape, OwnBatch, OwnEmbedding, [SchedNext]_schedVars
    PROVE  OwnEmbedding'
<1>1. CASE SettleOne
  <2>1. ASSUME owner.first # "free"
        PROVE  \E v \in {Value(batch[turn]), Error} : outcome' = [outcome EXCEPT ![batch[turn]] = v]
    <3>1. turn \in 1..Len(batch) /\ worker = "settle"
      BY <1>1 DEF SettleOne, Shape
    <3>2. embeddings[turn] \in {Value(batch[turn]), <<"empty">>}
      BY <2>1, <3>1 DEF OwnBatch
    <3>. QED  BY <1>1, <3>2 DEF SettleOne
  <2>2. UNCHANGED owner /\ DOMAIN outcome = Callers
    BY <1>1 DEF SettleOne, ownerVars, Shape
  <2>. QED  BY <2>1, <2>2 DEF OwnEmbedding, Settled
<1>2. CASE \E c \in Callers : Submit(c)
  BY <1>2 DEF Submit, ownerVars, OwnEmbedding, Settled, Shape
<1>3. CASE Reset
  BY <1>3 DEF Reset, OwnEmbedding, Settled, Shape
<1>4. ASSUME \/ \E c \in Callers : SubmitGet(c)
             \/ \E n \in BatchLimits : SetMaxBatchSize(n)
             \/ WorkerTop \/ WorkerTake \/ WorkerAgain \/ ProcessOk \/ ProcessThrows \/ SettleEnds
             \/ Disable \/ FreeFirst \/ JoinWorker \/ FreeContexts \/ DestroyScheduler
             \/ UNCHANGED schedVars
      PROVE  OwnEmbedding'
  <2>1. UNCHANGED outcome
    BY <1>4 DEF SubmitGet, SetMaxBatchSize, WorkerTop, WorkerTake, WorkerAgain, ProcessOk,
                ProcessThrows, SettleEnds, Disable, FreeFirst, JoinWorker, FreeContexts,
                DestroyScheduler, schedVars
  <2>2. owner'.first # "free" => owner.first # "free"
    BY <1>4 DEF SubmitGet, SetMaxBatchSize, WorkerTop, WorkerTake, WorkerAgain, ProcessOk,
                ProcessThrows, SettleEnds, Disable, FreeFirst, JoinWorker, FreeContexts,
                DestroyScheduler, schedVars, ownerVars, Shape
  <2>. QED  BY <2>1, <2>2 DEF OwnEmbedding, Settled
<1>. QED  BY <1>1, <1>2, <1>3, <1>4 DEF SchedNext, WorkerLoop, Owner

LEMMA ServingWas == Shape /\ [SchedNext]_schedVars /\ Serving' => Serving
BY DEF Serving, SchedNext, Submit, SubmitGet, SetMaxBatchSize, WorkerLoop, WorkerTop, WorkerTake,
       WorkerAgain, ProcessOk, ProcessThrows, SettleOne, SettleEnds, Disable, FreeFirst, Owner,
       JoinWorker, Reset, FreeContexts, DestroyScheduler, schedVars, ownerVars, Shape

LEMMA SpecSchedInv == SchedSpec => []SchedInv
<1>1. SchedInv /\ [SchedNext]_schedVars => SchedInv'
  BY StepShape, StepServing, StepOwnBatch, StepOwnEmbedding, ServingWas DEF SchedInv
<1>. QED  BY InitSchedInv, <1>1, PTL DEF SchedSpec

-----------------------------------------------------------------------------
(* A caller gets the embedding of its own text, or an error, whatever else *)
(* was queued, taken and settled meanwhile.                                *)
THEOREM CallersGetTheirOwn == SchedSpec => []OwnEmbedding
<1>1. SchedInv => OwnEmbedding
  BY DEF SchedInv
<1>. QED  BY <1>1, SpecSchedInv, PTL

(* The worker runs no batch on contexts that disable_scheduler's caller    *)
(* freed.                                                                  *)
THEOREM ContextsOutliveWorker == SchedSpec => []NoUseAfterFree
<1>1. SchedInv => NoUseAfterFree
  BY DEF SchedInv, Shape, NoUseAfterFree
<1>. QED  BY <1>1, SpecSchedInv, PTL

(* A settled promise is not touched again: the worker settles those of its *)
(* batch that still wait, and the queue that is destroyed holds no other.  *)
THEOREM PromisesSettleOnce == SchedSpec => SettledOnce
<1> DEFINE Kept == \A c \in Callers : Settled(c) => outcome'[c] = outcome[c]
<1>1. ASSUME SchedInv, [SchedNext]_schedVars PROVE Kept
  <2>1. Shape
    BY <1>1 DEF SchedInv
  <2>2. CASE SettleOne
    <3>1. Serving
      BY <2>1, <2>2 DEF Shape, SettleOne, Serving
    <3>2. outcome[batch[turn]] = <<"queued">>
      BY <1>1, <2>1, <2>2, <3>1, NextToSettle DEF SchedInv
    <3>. QED  BY <2>1, <2>2, <3>2 DEF SettleOne, Settled, Shape
  <2>3. CASE Reset
    <3>1. Serving
      BY <2>1, <2>3 DEF Reset, Serving
    <3>2. ASSUME NEW c \in Callers, InQueue(c) PROVE outcome[c] = <<"queued">>
      <4>1. PICK j \in 1..Len(requests_) : requests_[j] = c
        BY <2>1, <3>2 DEF InQueue, Shape
      <4>2. Taken + j \in 1..Len(arrived) /\ arrived[Taken + j] = c /\ worker # "settle"
        <5>1. worker # "settle"
          BY <2>1, <2>3 DEF Reset, Shape
        <5>2. InLine
          BY <1>1, <3>1 DEF SchedInv
        <5>. QED  BY <2>1, <4>1, <5>1, <5>2, Lengths DEF InLine, Taken
      <4>3. ~(Taken + j <= Finished)
        BY <2>1, <4>1, <4>2, Lengths DEF Finished
      <4>. QED  BY <1>1, <3>1, <4>2, <4>3 DEF SchedInv, InPace
    <3>. QED  BY <2>3, <3>2 DEF Reset, Settled
  <2>4. CASE \E c \in Callers : Submit(c)
    BY <2>1, <2>4 DEF Submit, Settled, Shape
  <2>5. ASSUME \/ \E c \in Callers : SubmitGet(c)
               \/ \E n \in BatchLimits : SetMaxBatchSize(n)
               \/ WorkerTop \/ WorkerTake \/ WorkerAgain \/ ProcessOk \/ ProcessThrows
               \/ SettleEnds \/ Disable \/ FreeFirst \/ JoinWorker \/ FreeContexts
               \/ DestroyScheduler \/ UNCHANGED schedVars
        PROVE  Kept
    BY <2>5 DEF SubmitGet, SetMaxBatchSize, WorkerTop, WorkerTake, WorkerAgain, ProcessOk,
                ProcessThrows, SettleEnds, Disable, FreeFirst, JoinWorker, FreeContexts,
                DestroyScheduler, schedVars
  <2>. QED  BY <1>1, <2>2, <2>3, <2>4, <2>5 DEF SchedNext, WorkerLoop, Owner
<1>2. SchedInv /\ [SchedNext]_schedVars => [Kept]_schedVars
  BY <1>1
<1>. QED  BY <1>2, SpecSchedInv, PTL DEF SchedSpec, SettledOnce

(* The batch in hand and the queue are, in this order, the end of what     *)
(* arrived, and everything before them is settled.                         *)
THEOREM RequestsKeepTheirOrder == SchedSpec => []TakenInOrder
<1>1. ASSUME SchedInv PROVE TakenInOrder
  <2> DEFINE inBatch == IF worker = "settle" THEN SubSeq(batch, turn, Len(batch)) ELSE batch
             tail == inBatch \o requests_
             first == IF worker = "settle" THEN turn - 1 ELSE 0
             n == Len(arrived) - Len(tail)
  <2>. SUFFICES ASSUME Serving
                PROVE  /\ n >= 0
                       /\ tail = SubSeq(arrived, n + 1, Len(arrived))
                       /\ \A m \in 1..n : Settled(arrived[m])
    BY DEF TakenInOrder, Serving
  <2>1. Shape /\ InLine /\ InPace
    BY <1>1 DEF SchedInv
  <2>2. first \in 0..Len(batch)
    BY <2>1, Lengths DEF Shape
  <2>3. /\ inBatch \in Seq(Callers) /\ Len(inBatch) = Len(batch) - first
        /\ \A j \in 1..Len(inBatch) : inBatch[j] = batch[first + j]
    <3>1. CASE worker = "settle"
      BY <2>1, <2>2, <3>1, Lengths DEF Shape
    <3>2. CASE worker # "settle"
      BY <2>1, <2>2, <3>2, Lengths DEF Shape
    <3>. QED  BY <3>1, <3>2
  <2>. HIDE DEF inBatch, first
  <2>4. /\ tail \in Seq(Callers) /\ Len(tail) = Len(inBatch) + Len(requests_)
        /\ \A j \in 1..Len(tail) : tail[j] = IF j <= Len(inBatch) THEN inBatch[j]
                                             ELSE requests_[j - Len(inBatch)]
    <3>1. requests_ \in Seq(Callers) /\ inBatch \in Seq(Callers)
      BY <2>1, <2>3 DEF Shape
    <3>. QED  BY <3>1, ConcatProperties
  <2>. HIDE DEF tail
  <2>5. n = Finished /\ n \in 0..Len(arrived)
    <3>1. n = Len(arrived) - (Len(batch) - first + Len(requests_))
      BY <2>3, <2>4
    <3>2. Len(requests_) + Len(batch) <= Len(arrived)
      BY <2>1 DEF InLine
    <3>3. Finished = Len(arrived) - Len(requests_) - Len(batch) + first
      BY DEF Finished, Taken, first
    <3>. QED  BY <2>1, <2>2, <3>1, <3>2, <3>3, Lengths
  <2>6. \A m \in 1..n : Settled(arrived[m])
    BY <2>1, <2>5, Lengths DEF InPace, Settled, Open
  <2>7. ASSUME NEW j \in 1..Len(tail) PROVE tail[j] = arrived[n + j]
    <3>1. CASE j <= Len(inBatch)
      <4>1. first + j \in 1..Len(batch) /\ Taken - Len(batch) + (first + j) = n + j
        <5>1. j \in 1..(Len(batch) - first) /\ n = Len(arrived) - (Len(batch) - first + Len(requests_))
          BY <2>1, <2>2, <2>3, <2>4, <3>1, Lengths
        <5>. QED  BY <2>1, <2>2, <5>1, Lengths DEF Taken
      <4>2. j \in 1..Len(inBatch)
        BY <2>1, <2>2, <2>3, <2>4, <3>1, Lengths
      <4>3. tail[j] = batch[first + j]
        BY <2>3, <2>4, <3>1, <4>2
      <4>4. batch[first + j] = arrived[Taken - Len(batch) + (first + j)]
        BY <2>1, <4>1 DEF InLine
      <4>. QED  BY <4>1, <4>3, <4>4
    <3>2. CASE ~(j <= Len(inBatch))
      <4>1. /\ j - Len(inBatch) \in 1..Len(requests_)
            /\ Taken + (j - Len(inBatch)) = n + j
        BY <2>1, <2>2, <2>3, <2>4, <3>2, Lengths DEF Taken
      <4>2. tail[j] = requests_[j - Len(inBatch)]
        BY <2>4, <3>2
      <4>3. requests_[j - Len(inBatch)] = arrived[Taken + (j - Len(inBatch))]
        BY <2>1, <4>1 DEF InLine
      <4>. QED  BY <4>1, <4>2, <4>3
    <3>. QED  BY <3>1, <3>2
  <2>8. /\ SubSeq(arrived, n + 1, Len(arrived)) \in Seq(Callers)
        /\ Len(SubSeq(arrived, n + 1, Len(arrived))) = Len(tail)
        /\ \A j \in 1..Len(tail) : SubSeq(arrived, n + 1, Len(arrived))[j] = arrived[n + j]
    BY <2>1, <2>4, <2>5, Lengths DEF Shape
  <2>9. tail = SubSeq(arrived, n + 1, Len(arrived))
    BY <2>4, <2>7, <2>8, SeqEqual
  <2>. QED  BY <2>5, <2>6, <2>9
<1>. QED  BY <1>1, SpecSchedInv, PTL
=============================================================================
