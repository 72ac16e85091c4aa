---------------------------- MODULE SparseProofs ----------------------------
(***************************************************************************)
(* The sparse path: a run gives ONNX Runtime back all it made, an accepted *)
(* GGUF file keeps its graph inside the tables, both tokenizers spell      *)
(* every word and spell it alike, and an answer holds each text's own      *)
(* vector, for any files, texts, requests, batches and number of calls.    *)
(*                                                                         *)
(* The state invariant has two parts.  SparseInv: an open handle holds     *)
(* what its file gave it.  AnswerInv: what a call has written is right for *)
(* the texts of the batches behind it.  Most of the weight is in the loops *)
(* of the code, which are recursive functions here: that such a function   *)
(* exists (LoopExists) and that a set is closed under its turns            *)
(* (LoopTyped, Induct) follows from the well-foundedness of the naturals.  *)
(* Three loops carry an invariant: the runtime's objects (HeldConcat), the *)
(* longest pieces (TakeGoesOn) and the merging of byte pairs (MergeCut).   *)
(***************************************************************************)
EXTENDS SparseEmbed, NaturalsInduction, WellFoundedInduction, SequenceTheorems,
        FiniteSetTheorems, TLAPS

-----------------------------------------------------------------------------
(* Loops. *)
LEMMA Least ==
    ASSUME NEW S \in SUBSET Nat, S # {}
    PROVE  \E x \in S : \A y \in S : x <= y
<1>1. PICK x \in S : \A y \in S : ~(<<y, x>> \in OpToRel(<, Nat))
    BY NatLessThanWellFounded, WFMin, Zenon
<1>2. \A y \in S : ~(y < x)
    BY <1>1 DEF OpToRel
<1> QED  BY <1>2

(* A function that builds each value from the one before exists. *)
Looped(r, S, base, len, f) ==
    /\ r \in [0..len -> S] /\ r[0] = base
    /\ \A k \in 1..len : r[k] = f[k][r[k - 1]]

LEMMA LoopExists ==
    ASSUME NEW S, NEW base \in S, NEW len \in Nat, NEW f \in [1..len -> [S -> S]]
    PROVE  \E r : Looped(r, S, base, len, f)
<1> DEFINE Is(r, n) == /\ r \in [0..n -> S] /\ r[0] = base
                       /\ \A k \in 1..n : r[k] = f[k][r[k - 1]]
           bad == {n \in Nat : n <= len /\ ~\E r : Is(r, n)}
<1>1. bad = {}
    <2> SUFFICES ASSUME bad # {} PROVE FALSE
        OBVIOUS
    <2>1. PICK n \in bad : \A m \in bad : n <= m
        BY Least
    <2>2. n # 0
        <3>1. Is([i \in 0..0 |-> base], 0)
            OBVIOUS
        <3> QED  BY <3>1
    <2>3. n \in Nat /\ n <= len /\ n - 1 \in Nat /\ n - 1 \notin bad
        <3>1. n \in Nat /\ n <= len
            OBVIOUS
        <3> HIDE DEF bad
        <3> QED  BY <2>1, <2>2, <3>1
    <2>4. PICK r : Is(r, n - 1)
        BY <2>3
    <2> DEFINE v == f[n][r[n - 1]]
               g == [i \in 0..n |-> IF i = n THEN v ELSE r[i]]
    <2>5. v \in S
        <3>1. r[n - 1] \in S /\ n \in 1..len
            BY <2>2, <2>3, <2>4
        <3> QED  BY <3>1
    <2> HIDE DEF v
    <2>6. Is(g, n)
        <3>1. g \in [0..n -> S] /\ g[0] = base
            BY <2>2, <2>3, <2>4, <2>5
        <3>2. \A k \in 1..n : g[k] = f[k][g[k - 1]]
            <4> TAKE k \in 1..n
            <4>1. CASE k = n
                <5>1. g[n] = v /\ g[n - 1] = r[n - 1]
                    BY <2>2, <2>3
                <5> HIDE DEF g
                <5> QED  BY <4>1, <5>1 DEF v
            <4>2. CASE k # n
                BY <4>2, <2>2, <2>3, <2>4
            <4> QED  BY <4>1, <4>2
        <3> QED  BY <3>1, <3>2
    <2> HIDE DEF g, Is
    <2>7. n \notin bad
        BY <2>6
    <2> QED  BY <2>1, <2>7
<1>2. \E r : Is(r, len)
    <2> HIDE DEF Is
    <2>1. len \notin bad
        BY <1>1, Zenon
    <2>2. len \in Nat /\ len <= len
        OBVIOUS
    <2> QED  BY <2>1, <2>2, Zenon
<1> QED  BY <1>2 DEF Looped

(* ... and every such function has its values in the set. *)
LEMMA LoopTyped ==
    ASSUME NEW S, NEW base \in S, NEW len \in Nat, NEW g, g[0] = base,
           \A k \in 1..len : g[k - 1] \in S => g[k] \in S
    PROVE  \A k \in 0..len : g[k] \in S
<1> DEFINE bad == {n \in Nat : n <= len /\ g[n] \notin S}
<1>1. bad = {}
    <2> SUFFICES ASSUME bad # {} PROVE FALSE
        OBVIOUS
    <2>1. PICK n \in bad : \A m \in bad : n <= m
        BY Least
    <2>2. n # 0
        OBVIOUS
    <2>3. n \in Nat /\ n <= len /\ n - 1 \in Nat /\ n - 1 \notin bad
        <3>1. n \in Nat /\ n <= len
            OBVIOUS
        <3> HIDE DEF bad
        <3> QED  BY <2>1, <2>2, <3>1
    <2> QED  BY <2>1, <2>2, <2>3
<1> QED  BY <1>1

(* Induction over a bounded number of turns. *)
LEMMA Induct ==
    ASSUME NEW B, NEW len \in Nat, 0 \in B, \A k \in 1..len : k - 1 \in B => k \in B
    PROVE  \A k \in 0..len : k \in B
<1> DEFINE bad == {n \in Nat : n <= len /\ n \notin B}
<1>1. bad = {}
    <2> SUFFICES ASSUME bad # {} PROVE FALSE
        OBVIOUS
    <2>1. PICK n \in bad : \A m \in bad : n <= m
        BY Least
    <2>2. n # 0
        OBVIOUS
    <2>3. n \in Nat /\ n <= len /\ n - 1 \in Nat /\ n - 1 \notin bad
        <3>1. n \in Nat /\ n <= len
            OBVIOUS
        <3> HIDE DEF bad
        <3> QED  BY <2>1, <2>2, <3>1
    <2> QED  BY <2>1, <2>2, <2>3
<1> QED  BY <1>1

-----------------------------------------------------------------------------
(* The objects of ONNX Runtime. *)
IsLive(live, steps) ==
    live = [n \in 0..Len(steps) |->
              IF n = 0 THEN {} ELSE (live[n - 1] \cup steps[n].make) \ steps[n].drop]

LEMMA HeldStep ==
    ASSUME NEW R, NEW steps \in Seq(R)
    PROVE  /\ Held(steps, 0) = {}
           /\ \A k \in 1..Len(steps) :
                Held(steps, k) = (Held(steps, k - 1) \cup steps[k].make) \ steps[k].drop
<1> DEFINE len == Len(steps)
           S == SUBSET UNION {steps[k].make : k \in 1..len}
           f == [k \in 1..len |-> [h \in S |-> (h \cup steps[k].make) \ steps[k].drop]]
           live == CHOOSE l : IsLive(l, steps)
<1>0. len \in Nat
    OBVIOUS
<1>1. {} \in S /\ f \in [1..len -> [S -> S]]
    OBVIOUS
<1>2. PICK r : Looped(r, S, {}, len, f)
    <2> HIDE DEF S, f, len
    <2> QED  BY <1>0, <1>1, LoopExists
<1>3. IsLive(r, steps)
    <2>1. \A k \in 0..len : r[k] = IF k = 0 THEN {} ELSE (r[k - 1] \cup steps[k].make) \ steps[k].drop
        <3> TAKE k \in 0..len
        <3>1. CASE k = 0
            BY <3>1, <1>2 DEF Looped
        <3>2. CASE k # 0
            <4>1. k \in 1..len /\ r[k - 1] \in S
                <5> HIDE DEF S, f, len
                <5> QED  BY <3>2, <1>0, <1>2 DEF Looped
            <4>2. f[k][r[k - 1]] = (r[k - 1] \cup steps[k].make) \ steps[k].drop
                <5> HIDE DEF S, len
                <5> QED  BY <4>1
            <4> HIDE DEF f, S
            <4> QED  BY <3>2, <4>1, <4>2, <1>2 DEF Looped
        <3> QED  BY <3>1, <3>2
    <2>2. r = [k \in 0..len |-> r[k]]
        BY <1>2 DEF Looped
    <2> QED  BY <2>1, <2>2 DEF IsLive
<1>4. IsLive(live, steps)
    BY <1>3, Zenon
<1>5. \A k : Held(steps, k) = live[k]
    BY DEF Held, IsLive
<1> HIDE DEF live, S, f
<1>6. DOMAIN live = 0..len /\ \A n \in 0..len :
        /\ n = 0 => live[n] = {}
        /\ n # 0 => live[n] = (live[n - 1] \cup steps[n].make) \ steps[n].drop
    BY <1>4 DEF IsLive
<1>7. live[0] = {}
    <2>1. 0 \in 0..len
        BY <1>0
    <2> QED  BY <1>6, <2>1, Zenon
<1>8. \A k \in 1..len : live[k] = (live[k - 1] \cup steps[k].make) \ steps[k].drop
    <2> TAKE k \in 1..len
    <2>1. k \in 0..len /\ k # 0
        BY <1>0
    <2> QED  BY <1>6, <2>1, Zenon
<1> QED  BY <1>5, <1>7, <1>8

(* What is held was made and not dropped since. *)
LEMMA HeldIff ==
    ASSUME NEW R, NEW s \in Seq(R), NEW x
    PROVE  \A k \in 0..Len(s) :
              x \in Held(s, k) <=>
                  \E j \in 1..k : x \in s[j].make /\ \A m \in j..k : x \notin s[m].drop
<1> DEFINE Made(k) == \E j \in 1..k : x \in s[j].make /\ \A m \in j..k : x \notin s[m].drop
           B == {k \in 0..Len(s) : x \in Held(s, k) <=> Made(k)}
<1>0. Len(s) \in Nat
    OBVIOUS
<1>1. 0 \in B
    BY HeldStep
<1>2. ASSUME NEW k \in 1..Len(s), k - 1 \in B
      PROVE  k \in B
    <2>1. x \in Held(s, k) <=> (x \in Held(s, k - 1) \/ x \in s[k].make) /\ x \notin s[k].drop
        BY HeldStep
    <2>2. Made(k) <=> (Made(k - 1) \/ x \in s[k].make) /\ x \notin s[k].drop
        <3>1. ASSUME Made(k) PROVE (Made(k - 1) \/ x \in s[k].make) /\ x \notin s[k].drop
            <4>1. PICK j \in 1..k : x \in s[j].make /\ \A m \in j..k : x \notin s[m].drop
                BY <3>1
            <4>2. x \notin s[k].drop
                BY <4>1
            <4>3. CASE j = k
                BY <4>1, <4>2, <4>3
            <4>4. CASE j # k
                <5>1. j \in 1..(k - 1) /\ \A m \in j..(k - 1) : x \notin s[m].drop
                    BY <4>1, <4>4
                <5> QED  BY <4>1, <4>2, <5>1
            <4> QED  BY <4>3, <4>4
        <3>2. ASSUME Made(k - 1), x \notin s[k].drop PROVE Made(k)
            <4>1. PICK j \in 1..(k - 1) : x \in s[j].make /\ \A m \in j..(k - 1) : x \notin s[m].drop
                BY <3>2
            <4>2. j \in 1..k /\ \A m \in j..k : m \in j..(k - 1) \/ m = k
                OBVIOUS
            <4> QED  BY <3>2, <4>1, <4>2
        <3>3. ASSUME x \in s[k].make, x \notin s[k].drop PROVE Made(k)
            <4>1. k \in 1..k /\ \A m \in k..k : m = k
                OBVIOUS
            <4> QED  BY <3>3, <4>1
        <3> QED  BY <3>1, <3>2, <3>3
    <2> HIDE DEF Made
    <2>3. k \in 0..Len(s)
        BY <1>0
    <2> QED  BY <1>2, <2>1, <2>2, <2>3
<1>3. \A k \in 0..Len(s) : k \in B
    <2> HIDE DEF B
    <2> QED  BY <1>0, <1>1, <1>2, Induct
<1> QED  BY <1>3

(* Steps after others keep what they made, and of what the others left all *)
(* but what they drop.                                                     *)
Dropped(t) == UNION {t[m].drop : m \in 1..Len(t)}
All(steps) == Held(steps, Len(steps))

LEMMA HeldConcat ==
    ASSUME NEW R, NEW s \in Seq(R), NEW t \in Seq(R)
    PROVE  All(s \o t) = (All(s) \ Dropped(t)) \cup All(t)
<1> DEFINE u == s \o t
           k == Len(s)
           l == Len(t)
<1>0. k \in Nat /\ l \in Nat /\ u \in Seq(R) /\ Len(u) = k + l
    OBVIOUS
<1>1. \A i \in 1..k : u[i] = s[i]
    OBVIOUS
<1>2. \A i \in 1..l : u[k + i] = t[i]
    OBVIOUS
<1> HIDE DEF u, k, l
<1>3. \A i \in 0..k : Held(u, i) = Held(s, i)
    <2> DEFINE B == {i \in 0..k : Held(u, i) = Held(s, i)}
    <2>1. 0 \in B
        <3>1. Held(u, 0) = {}
            BY <1>0, HeldStep
        <3>2. Held(s, 0) = {}
            BY HeldStep
        <3>3. 0 \in 0..k
            BY <1>0
        <3> QED  BY <3>1, <3>2, <3>3, Zenon
    <2>2. ASSUME NEW i \in 1..k, i - 1 \in B PROVE i \in B
        <3>1. i \in 1..Len(u) /\ i \in 1..Len(s) /\ i \in 0..k
            BY <1>0 DEF k
        <3>2. Held(u, i) = (Held(u, i - 1) \cup u[i].make) \ u[i].drop
            BY <1>0, <3>1, HeldStep
        <3>3. Held(s, i) = (Held(s, i - 1) \cup s[i].make) \ s[i].drop
            BY <3>1, HeldStep
        <3> QED  BY <1>1, <2>2, <3>1, <3>2, <3>3
    <2> HIDE DEF B
    <2>3. \A i \in 0..k : i \in B
        BY <1>0, <2>1, <2>2, Induct
    <2> QED  BY <2>3 DEF B
<1> DEFINE Drops(i) == UNION {t[m].drop : m \in 1..i}
           B == {i \in 0..l : Held(u, k + i) = (Held(s, k) \ Drops(i)) \cup Held(t, i)}
<1>4. 0 \in B
    <2>1. Held(t, 0) = {} /\ Held(u, k + 0) = Held(s, k)
        BY <1>0, <1>3, HeldStep
    <2>2. Drops(0) = {}
        OBVIOUS
    <2> HIDE DEF Drops
    <2> QED  BY <1>0, <2>1, <2>2
<1>5. ASSUME NEW i \in 1..l, i - 1 \in B PROVE i \in B
    <2>1. i \in 1..Len(t) /\ k + i \in 1..Len(u) /\ k + i - 1 = k + (i - 1) /\ i \in 0..l
        BY <1>0 DEF l
    <2>2. Held(u, k + i) = (Held(u, k + (i - 1)) \cup u[k + i].make) \ u[k + i].drop
        BY <1>0, <2>1, HeldStep
    <2>3. Held(t, i) = (Held(t, i - 1) \cup t[i].make) \ t[i].drop
        BY <2>1, HeldStep
    <2>4. Drops(i) = Drops(i - 1) \cup t[i].drop
        <3>1. \A m : m \in 1..i <=> m \in 1..(i - 1) \/ m = i
            BY <1>0
        <3> QED  BY <3>1
    <2>5. Held(u, k + (i - 1)) = (Held(s, k) \ Drops(i - 1)) \cup Held(t, i - 1)
        BY <1>5
    <2> HIDE DEF Drops
    <2>6. Held(u, k + i) = (((Held(s, k) \ Drops(i - 1)) \cup Held(t, i - 1)) \cup t[i].make) \ t[i].drop
        BY <1>2, <2>2, <2>5
    <2>7. Held(u, k + i) = (Held(s, k) \ Drops(i)) \cup Held(t, i)
        BY <2>3, <2>4, <2>6
    <2> QED  BY <2>1, <2>7
<1> HIDE DEF B
<1>6. l \in B
    <2>1. \A i \in 0..l : i \in B
        BY <1>0, <1>4, <1>5, Induct
    <2> QED  BY <1>0, <2>1
<1> HIDE DEF Drops
<1>7. Held(u, k + l) = (Held(s, k) \ Drops(l)) \cup Held(t, l)
    BY <1>6 DEF B
<1>8. Drops(l) = Dropped(t)
    BY DEF Drops, Dropped, l
<1> QED  BY <1>0, <1>7, <1>8 DEF All, u, k, l

(* Objects are named by one word, or by a word with a number or a name. *)
Kinds == {"options", "session", "memory", "input", "output", "info", "value"}
InputNames == {"input_ids", "attention_mask", "token_type_ids"}
Objects == {<<x>> : x \in Kinds} \cup (Kinds \X (Nat \cup InputNames))
Steps == [make : SUBSET Objects, drop : SUBSET Objects]

LEMMA StepTypes ==
    /\ Checked \in Steps /\ Checked.make = {} /\ Checked.drop = {}
    /\ \A o \in SUBSET Objects : Make(o) \in Steps /\ Make(o).make = o /\ Make(o).drop = {}
    /\ \A o \in Objects : Drop(o) \in Steps /\ Drop(o).make = {} /\ Drop(o).drop = {o}
BY DEF Checked, Make, Drop, Steps

LEMMA ObjectTypes ==
    /\ \A x \in Kinds : <<x>> \in Objects
    /\ \A x \in Kinds, y \in InputNames : <<x, y>> \in Objects
    /\ \A x \in Kinds, y \in Nat : <<x, y>> \in Objects
    /\ \A x \in Kinds, y \in Kinds : \A z : <<x>> # <<y, z>>
BY DEF Objects

LEMMA HeldMade ==
    ASSUME NEW s \in Seq(Steps)
    PROVE  \A x \in All(s) : \E j \in 1..Len(s) : x \in s[j].make
<1> TAKE x \in All(s)
<1>1. Len(s) \in 0..Len(s)
    OBVIOUS
<1>2. \E j \in 1..Len(s) : x \in s[j].make /\ \A m \in j..Len(s) : x \notin s[m].drop
    BY <1>1, HeldIff DEF All
<1> QED  BY <1>2

LEMMA Quiet ==
    ASSUME NEW s \in Seq(Steps), \A j \in 1..Len(s) : s[j].make = {}
    PROVE  All(s) = {}
BY HeldMade

LEMMA NamesFacts ==
    ASSUME NEW io \in Kinds, NEW n \in Nat
    PROVE  /\ Names(io, n) \in Seq(Steps) /\ All(Names(io, n)) = {}
           /\ \A x \in Kinds : <<x>> \notin Dropped(Names(io, n))
<1> DEFINE t == [k \in 1..(2 * n) |-> IF k % 2 = 1 THEN Make({<<io, (k + 1) \div 2>>})
                                      ELSE Drop(<<io, (k + 1) \div 2>>)]
           h == <<Checked>>
<1>1. \A k \in 1..(2 * n) : (k + 1) \div 2 \in Nat
    OBVIOUS
<1>2. \A k \in 1..(2 * n) : <<io, (k + 1) \div 2>> \in Objects
    BY <1>1, ObjectTypes
<1>3. t \in Seq(Steps) /\ Len(t) = 2 * n /\ DOMAIN t = 1..(2 * n)
    <2>1. \A k \in 1..(2 * n) : t[k] \in Steps
        BY <1>2, StepTypes
    <2>2. 2 * n \in Nat /\ t = [k \in 1..(2 * n) |-> t[k]]
        OBVIOUS
    <2> HIDE DEF t
    <2> QED  BY <2>1, <2>2
<1>4. \A k \in 1..(2 * n) :
        /\ k % 2 = 1 => t[k].make = {<<io, (k + 1) \div 2>>} /\ t[k].drop = {}
        /\ k % 2 # 1 => t[k].make = {} /\ t[k].drop = {<<io, (k + 1) \div 2>>}
    BY <1>2, StepTypes
<1> HIDE DEF t
<1>5. h \in Seq(Steps) /\ Len(h) = 1 /\ h[1] = Checked
    BY StepTypes
<1>6. All(h) = {}
    <2>1. \A j \in 1..Len(h) : h[j].make = {}
        BY <1>5, StepTypes
    <2> HIDE DEF h
    <2> QED  BY <1>5, <2>1, Quiet
<1>7. All(t) = {}
    <2> SUFFICES ASSUME NEW x \in All(t) PROVE FALSE
        OBVIOUS
    <2>1. PICK j \in 1..(2 * n) : x \in t[j].make /\ \A m \in j..(2 * n) : x \notin t[m].drop
        <3>1. Len(t) \in 0..Len(t)
            BY <1>3
        <3> QED  BY <1>3, <3>1, HeldIff DEF All
    <2>2. j % 2 = 1 /\ x = <<io, (j + 1) \div 2>>
        BY <1>4, <2>1
    <2>3. j + 1 \in j..(2 * n) /\ (j + 1) % 2 # 1 /\ (j + 1 + 1) \div 2 = (j + 1) \div 2
        BY <2>2, SMTT(20)
    <2>4. x \in t[j + 1].drop
        <3> DEFINE k == j + 1
        <3>1. k \in 1..(2 * n) /\ k % 2 # 1 /\ x = <<io, (k + 1) \div 2>>
            BY <2>2, <2>3, SMTT(20)
        <3> HIDE DEF k
        <3>2. t[k].drop = {<<io, (k + 1) \div 2>>}
            BY <1>4, <3>1
        <3> QED  BY <3>1, <3>2 DEF k
    <2> QED  BY <2>1, <2>3, <2>4
<1>8. Names(io, n) = h \o t
    BY DEF Names, t
<1>9. h \o t \in Seq(Steps) /\ Len(h \o t) = 1 + 2 * n
    BY <1>3, <1>5, SMTT(20)
<1>10. All(h \o t) = {}
    <2>1. All(h \o t) = (All(h) \ Dropped(t)) \cup All(t)
        <3>1. h \in Seq(Steps) /\ t \in Seq(Steps)
            BY <1>3, <1>5
        <3> HIDE DEF h
        <3> QED  BY <3>1, HeldConcat
    <2> QED  BY <1>6, <1>7, <2>1
<1>11. \A x \in Kinds : <<x>> \notin Dropped(h \o t)
    <2> TAKE x \in Kinds
    <2>1. ASSUME NEW m \in 1..(1 + 2 * n) PROVE <<x>> \notin (h \o t)[m].drop
        <3>1. CASE m = 1
            <4>1. (h \o t)[m] = Checked
                BY <1>3, <1>5, <3>1
            <4> QED  BY <4>1, StepTypes
        <3>2. CASE m # 1
            <4>1. m - 1 \in 1..(2 * n) /\ (h \o t)[m] = t[m - 1]
                BY <1>3, <1>5, <3>2
            <4>2. t[m - 1].drop \subseteq {<<io, (m - 1 + 1) \div 2>>}
                BY <1>4, <4>1
            <4>3. <<x>> # <<io, (m - 1 + 1) \div 2>>
                BY ObjectTypes
            <4> HIDE DEF h
            <4> QED  BY <4>1, <4>2, <4>3
        <3> QED  BY <3>1, <3>2
    <2> QED  BY <1>9, <2>1 DEF Dropped
<1> QED  BY <1>8, <1>9, <1>10, <1>11

(* Loading leaves the session, whatever the threads, the quantization and  *)
(* the number of inputs and outputs.                                       *)
LEMMA LoadLeavesSession ==
    ASSUME NEW threads \in Nat, NEW quantization, NEW T, NEW inputs \in Seq(T), NEW outputs \in Nat
    PROVE  All(LoadSteps(threads, quantization, inputs, outputs)) = {<<"session">>}
<1> DEFINE a == <<Make({<<"options">>}), Checked, Checked, Checked>>
           b == IF threads > 0 THEN <<Checked, Checked>> ELSE <<>>
           c == QuantizationSteps(quantization)
           d == <<Make({<<"session">>}), Drop(<<"options">>), Checked>>
           e == Names("input", Len(inputs))
           f == Names("output", outputs)
<1> DEFINE option == <<"options">>
           session == <<"session">>
<1>0. option \in Objects /\ session \in Objects /\ option # session
    <2>1. "options" \in Kinds /\ "session" \in Kinds
        BY DEF Kinds
    <2>2. option[1] # session[1]
        OBVIOUS
    <2>3. option \in Objects /\ session \in Objects
        BY <2>1, ObjectTypes
    <2> HIDE DEF option, session
    <2> QED  BY <2>2, <2>3
<1>1. LoadSteps(threads, quantization, inputs, outputs) = a \o b \o c \o d \o e \o f
    BY DEF LoadSteps
<1>2. a \in Seq(Steps) /\ All(a) \subseteq {option}
    <2>1. {option} \in SUBSET Objects
        BY <1>0
    <2>2. Make({option}) \in Steps /\ Make({option}).make = {option}
        BY <2>1, StepTypes
    <2>3. a \in Seq(Steps)
        BY <2>2, StepTypes
    <2>4. \A j \in 1..Len(a) : a[j].make \subseteq {option}
        BY <2>2, StepTypes
    <2> HIDE DEF a
    <2> QED  BY <2>3, <2>4, HeldMade
<1>3. /\ b \in Seq(Steps) /\ c \in Seq(Steps)
      /\ \A j \in 1..Len(b) : b[j] = Checked
      /\ \A j \in 1..Len(c) : c[j] = Checked
    BY StepTypes DEF QuantizationSteps
<1>4. All(b) = {} /\ All(c) = {}
    <2> HIDE DEF b, c
    <2>1. /\ \A j \in 1..Len(b) : b[j].make = {}
          /\ \A j \in 1..Len(c) : c[j].make = {}
        BY <1>3, StepTypes
    <2> QED  BY <1>3, <2>1, Quiet
<1>5. d \in Seq(Steps) /\ All(d) = {session} /\ option \in Dropped(d)
    <2>1. {session} \in SUBSET Objects
        BY <1>0
    <2>2. Make({session}) \in Steps /\ Make({session}).make = {session} /\ Make({session}).drop = {}
        BY <2>1, StepTypes
    <2>3. Drop(option) \in Steps /\ Drop(option).make = {} /\ Drop(option).drop = {option}
        BY <1>0, StepTypes
    <2>4. /\ d \in Seq(Steps) /\ Len(d) = 3
          /\ d[1] = Make({session}) /\ d[2] = Drop(option) /\ d[3] = Checked
        BY <2>2, <2>3, StepTypes
    <2> HIDE DEF d, option, session
    <2>5. All(d) \subseteq {session}
        <3>1. \A j \in 1..Len(d) : d[j].make \subseteq {session}
            <4>1. Checked.make = {}
                BY StepTypes
            <4>2. \A j \in 1..3 : j = 1 \/ j = 2 \/ j = 3
                OBVIOUS
            <4> QED  BY <2>2, <2>3, <2>4, <4>1, <4>2
        <3> QED  BY <2>4, <3>1, HeldMade
    <2>6. session \in All(d)
        <3>1. session \in d[1].make /\ \A m \in 1..Len(d) : session \notin d[m].drop
            BY <1>0, <2>2, <2>3, <2>4, StepTypes
        <3>2. Len(d) \in 0..Len(d) /\ 1 \in 1..Len(d)
            BY <2>4
        <3> QED  BY <2>4, <3>1, <3>2, HeldIff DEF All
    <2>7. option \in Dropped(d)
        <3>1. option \in d[2].drop /\ 2 \in 1..Len(d)
            BY <2>3, <2>4
        <3> QED  BY <3>1 DEF Dropped
    <2> QED  BY <2>4, <2>5, <2>6, <2>7
<1>6. Len(inputs) \in Nat
    OBVIOUS
<1>7. /\ e \in Seq(Steps) /\ All(e) = {} /\ session \notin Dropped(e)
      /\ f \in Seq(Steps) /\ All(f) = {} /\ session \notin Dropped(f)
    <2>1. "input" \in Kinds /\ "output" \in Kinds /\ "session" \in Kinds
        BY DEF Kinds
    <2>2. e \in Seq(Steps) /\ All(e) = {} /\ session \notin Dropped(e)
        BY <1>6, <2>1, NamesFacts
    <2>3. f \in Seq(Steps) /\ All(f) = {} /\ session \notin Dropped(f)
        BY <2>1, NamesFacts
    <2> QED  BY <2>2, <2>3
<1> HIDE DEF a, b, c, d, e, f, option, session
<1> DEFINE ab == a \o b
           abc == ab \o c
           abcd == abc \o d
           abcde == abcd \o e
           abcdef == abcde \o f
<1>8. ab \in Seq(Steps) /\ All(ab) = (All(a) \ Dropped(b)) \cup All(b)
    BY <1>2, <1>3, HeldConcat
<1> HIDE DEF ab
<1>9. abc \in Seq(Steps) /\ All(abc) = (All(ab) \ Dropped(c)) \cup All(c)
    BY <1>8, <1>3, HeldConcat
<1> HIDE DEF abc
<1>10. abcd \in Seq(Steps) /\ All(abcd) = (All(abc) \ Dropped(d)) \cup All(d)
    BY <1>9, <1>5, HeldConcat
<1> HIDE DEF abcd
<1>11. abcde \in Seq(Steps) /\ All(abcde) = (All(abcd) \ Dropped(e)) \cup All(e)
    BY <1>10, <1>7, HeldConcat
<1> HIDE DEF abcde
<1>12. All(abcdef) = (All(abcde) \ Dropped(f)) \cup All(f)
    BY <1>11, <1>7, HeldConcat
<1> HIDE DEF abcdef
<1>13. All(abc) \subseteq {option}
    BY <1>2, <1>4, <1>8, <1>9
<1>14. All(abcd) = {session}
    BY <1>5, <1>10, <1>13
<1>15. All(abcde) = {session}
    BY <1>7, <1>11, <1>14
<1>16. All(abcdef) = {session}
    BY <1>7, <1>12, <1>15
<1> QED  BY <1>1, <1>16 DEF session, abcdef, abcde, abcd, abc, ab

(* A run gives back all it made, for any inputs and any number of outputs. *)
LEMMA ExtractFacts ==
    ASSUME NEW outputs \in Nat
    PROVE  /\ ExtractSteps(outputs) \in Seq(Steps)
           /\ All(ExtractSteps(outputs)) = {}
           /\ \A i \in 1..outputs : <<"value", i>> \in Dropped(ExtractSteps(outputs))
<1> DEFINE t == ExtractSteps(outputs)
           n == 6 * outputs
<1>0. n \in Nat /\ \A k \in 1..n : (k + 5) \div 6 \in 1..outputs /\ k % 6 \in Nat
    OBVIOUS
<1>1. \A k \in 1..n : <<"info", (k + 5) \div 6>> \in Objects /\ <<"value", (k + 5) \div 6>> \in Objects
    <2>1. "info" \in Kinds /\ "value" \in Kinds
        BY DEF Kinds
    <2> QED  BY <1>0, <2>1, ObjectTypes
<1>2. t = [k \in 1..n |->
             CASE k % 6 = 1 -> Make({<<"info", (k + 5) \div 6>>})
               [] k % 6 = 5 -> Drop(<<"info", (k + 5) \div 6>>)
               [] k % 6 = 0 -> Drop(<<"value", (k + 5) \div 6>>)
               [] OTHER     -> Checked]
    BY DEF ExtractSteps
<1> HIDE DEF t, n
<1>3. \A k \in 1..n :
        /\ k % 6 = 1 => t[k] = Make({<<"info", (k + 5) \div 6>>})
        /\ k % 6 = 5 => t[k] = Drop(<<"info", (k + 5) \div 6>>)
        /\ k % 6 = 0 => t[k] = Drop(<<"value", (k + 5) \div 6>>)
        /\ k % 6 \notin {0, 1, 5} => t[k] = Checked
    <2> TAKE k \in 1..n
    <2> DEFINE m == k % 6
               i == (k + 5) \div 6
    <2>1. t[k] = CASE m = 1 -> Make({<<"info", i>>})
                   [] m = 5 -> Drop(<<"info", i>>)
                   [] m = 0 -> Drop(<<"value", i>>)
                   [] OTHER -> Checked
        BY <1>2
    <2>2. m \in Nat
        BY <1>0
    <2> HIDE DEF m, i
    <2>3. /\ m = 1 => t[k] = Make({<<"info", i>>})
          /\ m = 5 => t[k] = Drop(<<"info", i>>)
          /\ m = 0 => t[k] = Drop(<<"value", i>>)
          /\ m \notin {0, 1, 5} => t[k] = Checked
        BY <2>1, <2>2
    <2> QED  BY <2>3 DEF m, i
<1>4. \A k \in 1..n :
        /\ t[k] \in Steps
        /\ k % 6 = 1 => t[k].make = {<<"info", (k + 5) \div 6>>}
        /\ k % 6 # 1 => t[k].make = {}
        /\ k % 6 = 5 => t[k].drop = {<<"info", (k + 5) \div 6>>}
        /\ k % 6 = 0 => t[k].drop = {<<"value", (k + 5) \div 6>>}
    <2> TAKE k \in 1..n
    <2> DEFINE i == (k + 5) \div 6
    <2>1. <<"info", i>> \in Objects /\ <<"value", i>> \in Objects
        BY <1>1
    <2>2. /\ k % 6 = 1 => t[k] = Make({<<"info", i>>})
          /\ k % 6 = 5 => t[k] = Drop(<<"info", i>>)
          /\ k % 6 = 0 => t[k] = Drop(<<"value", i>>)
          /\ k % 6 \notin {0, 1, 5} => t[k] = Checked
        BY <1>3
    <2> HIDE DEF i
    <2> DEFINE info == <<"info", i>>
               value == <<"value", i>>
    <2>3. /\ Make({info}) \in Steps /\ Make({info}).make = {info}
          /\ Drop(info) \in Steps /\ Drop(info).make = {} /\ Drop(info).drop = {info}
          /\ Drop(value) \in Steps /\ Drop(value).make = {} /\ Drop(value).drop = {value}
          /\ Checked \in Steps /\ Checked.make = {}
        <3>1. {info} \in SUBSET Objects /\ info \in Objects /\ value \in Objects
            BY <2>1
        <3> HIDE DEF info, value
        <3> QED  BY <3>1, StepTypes
    <2> HIDE DEF info, value
    <2>4. /\ k % 6 = 1 => t[k] = Make({info})
          /\ k % 6 = 5 => t[k] = Drop(info)
          /\ k % 6 = 0 => t[k] = Drop(value)
          /\ k % 6 \notin {0, 1, 5} => t[k] = Checked
        BY <2>2 DEF info, value
    <2>5. /\ t[k] \in Steps
          /\ k % 6 = 1 => t[k].make = {info}
          /\ k % 6 # 1 => t[k].make = {}
          /\ k % 6 = 5 => t[k].drop = {info}
          /\ k % 6 = 0 => t[k].drop = {value}
        BY <2>3, <2>4
    <2> QED  BY <2>5 DEF info, value, i
<1>5. t \in Seq(Steps) /\ Len(t) = n
    <2>1. DOMAIN t = 1..n /\ t = [k \in 1..n |-> t[k]]
        BY <1>2
    <2> QED  BY <1>0, <1>4, <2>1
<1>6. All(t) = {}
    <2> SUFFICES ASSUME NEW x \in All(t) PROVE FALSE
        OBVIOUS
    <2>1. PICK j \in 1..n : x \in t[j].make /\ \A m \in j..n : x \notin t[m].drop
        <3>1. Len(t) \in 0..Len(t)
            BY <1>0, <1>5
        <3> QED  BY <1>5, <3>1, HeldIff DEF All
    <2>2. j % 6 = 1 /\ x = <<"info", (j + 5) \div 6>>
        BY <1>4, <2>1
    <2>3. j + 4 \in 1..n /\ j + 4 \in j..n /\ (j + 4) % 6 = 5 /\ (j + 4 + 5) \div 6 = (j + 5) \div 6
        BY <2>2 DEF n
    <2>4. x \in t[j + 4].drop
        BY <1>4, <2>2, <2>3
    <2> QED  BY <2>1, <2>3, <2>4
<1>7. ASSUME NEW i \in 1..outputs PROVE <<"value", i>> \in Dropped(t)
    <2>1. 6 * i \in 1..n /\ (6 * i) % 6 = 0 /\ (6 * i + 5) \div 6 = i
        BY DEF n
    <2>2. <<"value", i>> \in t[6 * i].drop
        BY <1>4, <2>1
    <2> QED  BY <1>5, <2>1, <2>2 DEF Dropped
<1> QED  BY <1>5, <1>6, <1>7 DEF t

LEMMA RunLeavesNothing ==
    ASSUME NEW T, NEW inputs \in Seq(T), NEW outputs \in Nat
    PROVE  All(RunSteps(inputs, outputs)) = {}
<1> DEFINE ins == RunInputs(inputs)
           values == {<<"value", i>> : i \in 1..outputs}
           tensors == {<<"input", ins[i]>> : i \in DOMAIN ins}
           memory == <<"memory">>
           a == <<Make({memory})>>
           b == [i \in DOMAIN ins |-> Make({<<"input", ins[i]>>})]
           c == <<Make(values)>>
           d == ExtractSteps(outputs)
           e == [i \in DOMAIN ins |-> Drop(<<"input", ins[i]>>)]
           f == <<Drop(memory)>>
<1>0. "memory" \in Kinds /\ "input" \in Kinds /\ "value" \in Kinds
    BY DEF Kinds
<1>1. ins \in Seq(InputNames)
    <2> DEFINE Present(n) == IF n \in Range(inputs) THEN <<n>> ELSE <<>>
    <2>1. ins = <<"input_ids">> \o Present("attention_mask") \o Present("token_type_ids")
        BY DEF RunInputs
    <2>2. \A n \in InputNames : Present(n) \in Seq(InputNames)
        OBVIOUS
    <2>3. {"input_ids", "attention_mask", "token_type_ids"} \subseteq InputNames
        BY DEF InputNames
    <2>4. <<"input_ids">> \in Seq(InputNames)
        BY <2>3
    <2> HIDE DEF Present, ins
    <2> QED  BY <2>1, <2>2, <2>3, <2>4
<1>2. RunSteps(inputs, outputs) = a \o b \o c \o d \o e \o f
    BY DEF RunSteps
<1> HIDE DEF ins
<1>3. memory \in Objects /\ values \in SUBSET Objects /\ \A i \in DOMAIN ins : <<"input", ins[i]>> \in Objects
    BY <1>0, <1>1, ObjectTypes
<1> HIDE DEF memory, values
<1>4. a \in Seq(Steps) /\ All(a) \subseteq {memory}
    <2> DEFINE box == {memory}
    <2>1. box \in SUBSET Objects /\ a = <<Make(box)>>
        BY <1>3
    <2> HIDE DEF box, a
    <2>2. Make(box) \in Steps /\ Make(box).make = box
        BY <2>1, StepTypes
    <2>3. a \in Seq(Steps) /\ Len(a) = 1 /\ a[1] = Make(box)
        BY <2>1, <2>2
    <2>4. All(a) \subseteq box
        BY <2>2, <2>3, HeldMade
    <2> QED  BY <2>3, <2>4 DEF box
<1>5. c \in Seq(Steps) /\ All(c) \subseteq values
    <2>2. Make(values) \in Steps /\ Make(values).make = values
        BY <1>3, StepTypes
    <2>3. c \in Seq(Steps) /\ Len(c) = 1 /\ c[1] = Make(values)
        BY <2>2
    <2> HIDE DEF c
    <2> QED  BY <2>2, <2>3, HeldMade
<1>6. f \in Seq(Steps) /\ All(f) = {} /\ memory \in Dropped(f)
    <2>2. Drop(memory) \in Steps /\ Drop(memory).make = {} /\ Drop(memory).drop = {memory}
        BY <1>3, StepTypes
    <2>3. f \in Seq(Steps) /\ Len(f) = 1 /\ f[1] = Drop(memory)
        BY <2>2
    <2> HIDE DEF f
    <2>4. All(f) = {}
        BY <2>2, <2>3, HeldMade
    <2> QED  BY <2>2, <2>3, <2>4 DEF Dropped
<1>7. d \in Seq(Steps) /\ All(d) = {} /\ values \subseteq Dropped(d)
    BY ExtractFacts DEF values
<1>8. Len(ins) \in Nat /\ DOMAIN ins = 1..Len(ins)
    BY <1>1
<1>9. b \in Seq(Steps) /\ All(b) \subseteq tensors
    <2>1. \A i \in 1..Len(ins) : b[i] \in Steps /\ b[i].make = {<<"input", ins[i]>>}
        BY <1>3, <1>8, StepTypes
    <2>2. b \in Seq(Steps) /\ Len(b) = Len(ins)
        BY <1>8, <2>1
    <2> HIDE DEF b
    <2>3. \A j \in 1..Len(b) : b[j].make \subseteq tensors
        BY <1>8, <2>1, <2>2
    <2> HIDE DEF tensors
    <2> QED  BY <2>2, <2>3, HeldMade
<1>10. e \in Seq(Steps) /\ All(e) = {} /\ tensors \subseteq Dropped(e)
    <2>1. \A i \in 1..Len(ins) :
            e[i] \in Steps /\ e[i].make = {} /\ e[i].drop = {<<"input", ins[i]>>}
        BY <1>3, <1>8, StepTypes
    <2>2. e \in Seq(Steps) /\ Len(e) = Len(ins)
        BY <1>8, <2>1
    <2> HIDE DEF e
    <2>3. All(e) = {}
        BY <2>1, <2>2, Quiet
    <2> QED  BY <1>8, <2>1, <2>2, <2>3 DEF Dropped
<1> HIDE DEF a, b, c, d, e, f, tensors
<1> DEFINE ab == a \o b
           abc == ab \o c
           abcd == abc \o d
           abcde == abcd \o e
           abcdef == abcde \o f
<1>11. ab \in Seq(Steps) /\ All(ab) = (All(a) \ Dropped(b)) \cup All(b)
    BY <1>4, <1>9, HeldConcat
<1> HIDE DEF ab
<1>12. abc \in Seq(Steps) /\ All(abc) = (All(ab) \ Dropped(c)) \cup All(c)
    BY <1>5, <1>11, HeldConcat
<1> HIDE DEF abc
<1>13. abcd \in Seq(Steps) /\ All(abcd) = (All(abc) \ Dropped(d)) \cup All(d)
    BY <1>7, <1>12, HeldConcat
<1> HIDE DEF abcd
<1>14. abcde \in Seq(Steps) /\ All(abcde) = (All(abcd) \ Dropped(e)) \cup All(e)
    BY <1>10, <1>13, HeldConcat
<1> HIDE DEF abcde
<1>15. All(abcdef) = (All(abcde) \ Dropped(f)) \cup All(f)
    BY <1>6, <1>14, HeldConcat
<1> HIDE DEF abcdef
<1>16. All(abcd) \subseteq {memory} \cup tensors
    BY <1>4, <1>5, <1>7, <1>9, <1>11, <1>12, <1>13
<1>17. All(abcdef) = {}
    BY <1>6, <1>10, <1>14, <1>15, <1>16
<1> QED  BY <1>2, <1>17 DEF abcdef, abcde, abcd, abc, ab

-----------------------------------------------------------------------------
(* Words.  Their characters may be anything. *)
LEMMA MaxFacts ==
    ASSUME NEW S \in SUBSET Nat, S # {}, NEW b \in Nat, \A x \in S : x <= b
    PROVE  Max(S) \in S /\ \A x \in S : x <= Max(S)
<1> DEFINE D == {b - x : x \in S}
<1>1. D \in SUBSET Nat /\ D # {}
    <2>1. \A x \in S : b - x \in Nat
        OBVIOUS
    <2> QED  BY <2>1
<1>2. PICK d \in D : \A y \in D : d <= y
    BY <1>1, Least
<1>3. PICK m \in S : d = b - m
    OBVIOUS
<1>4. \A x \in S : m >= x
    BY <1>2, <1>3
<1>5. Max(S) \in S /\ \A x \in S : Max(S) >= x
    BY <1>3, <1>4 DEF Max
<1> QED  BY <1>5

LEMMA MinFacts ==
    ASSUME NEW S \in SUBSET Nat, S # {}
    PROVE  Min(S) \in S /\ \A x \in S : Min(S) <= x
BY Least DEF Min

WordsOver(C) == Seq(C) \ {<<>>}

IsScan(scan, text) ==
    scan = [n \in 0..Len(text) |->
              IF n = 0 THEN [words |-> <<>>, current |-> <<>>] ELSE Scan(scan[n - 1], text[n])]

LEMMA ScanTyped ==
    ASSUME NEW C, NEW acc \in [words : Seq(WordsOver(C)), current : Seq(C)], NEW c \in C
    PROVE  /\ Scan(acc, c) \in [words : Seq(WordsOver(C)), current : Seq(C)]
           /\ Flush(acc.words, acc.current) \in Seq(WordsOver(C))
<1>1. Flush(acc.words, acc.current) \in Seq(WordsOver(C))
    <2>1. CASE acc.current = <<>>
        BY <2>1 DEF Flush
    <2>2. CASE acc.current # <<>>
        <3>1. acc.current \in WordsOver(C)
            BY <2>2 DEF WordsOver
        <3> QED  BY <2>2, <3>1, AppendProperties DEF Flush
    <2> QED  BY <2>1, <2>2
<1>2. <<c>> \in WordsOver(C) /\ Append(acc.current, c) \in Seq(C) /\ <<>> \in Seq(C)
    BY DEF WordsOver
<1>3. Append(Flush(acc.words, acc.current), <<c>>) \in Seq(WordsOver(C))
    BY <1>1, <1>2, AppendProperties
<1>4. [acc EXCEPT !.current = Append(@, c)] \in [words : Seq(WordsOver(C)), current : Seq(C)]
    BY <1>2
<1> QED  BY <1>1, <1>2, <1>3, <1>4 DEF Scan

LEMMA TokenizeTyped ==
    ASSUME NEW C, NEW text \in Seq(C)
    PROVE  BasicTokenize(text) \in Seq(WordsOver(C))
<1> DEFINE len == Len(text)
           S == [words : Seq(WordsOver(C)), current : Seq(C)]
           base == [words |-> <<>>, current |-> <<>>]
           f == [k \in 1..len |-> [acc \in S |-> Scan(acc, text[k])]]
           scan == CHOOSE s : IsScan(s, text)
<1>0. len \in Nat /\ \A k \in 1..len : text[k] \in C
    OBVIOUS
<1>1. base \in S
    OBVIOUS
<1>2. f \in [1..len -> [S -> S]]
    <2>1. \A k \in 1..len : \A acc \in S : Scan(acc, text[k]) \in S
        BY <1>0, ScanTyped
    <2> HIDE DEF S, len
    <2> QED  BY <2>1
<1>3. PICK r : Looped(r, S, base, len, f)
    <2> HIDE DEF S, f, len, base
    <2> QED  BY <1>0, <1>1, <1>2, LoopExists
<1>4. IsScan(r, text)
    <2> HIDE DEF S, base
    <2>1. \A k \in 0..len : r[k] = IF k = 0 THEN base ELSE Scan(r[k - 1], text[k])
        <3> HIDE DEF len
        <3> TAKE k \in 0..len
        <3>1. CASE k = 0
            BY <3>1, <1>3 DEF Looped
        <3>2. CASE k # 0
            <4>1. k \in 1..len /\ r[k - 1] \in S
                <5> HIDE DEF f
                <5> QED  BY <3>2, <1>0, <1>3 DEF Looped
            <4>2. f[k][r[k - 1]] = Scan(r[k - 1], text[k])
                BY <4>1
            <4> HIDE DEF f
            <4> QED  BY <3>2, <4>1, <4>2, <1>3 DEF Looped
        <3> QED  BY <3>1, <3>2
    <2>2. r = [k \in 0..len |-> r[k]]
        BY <1>3 DEF Looped
    <2> QED  BY <2>1, <2>2 DEF IsScan, base
<1>5. IsScan(scan, text)
    BY <1>4, Zenon
<1>6. BasicTokenize(text) = Flush(scan[len].words, scan[len].current)
    BY DEF BasicTokenize, IsScan
<1> HIDE DEF scan, f
<1>7. scan[0] = base /\ \A k \in 1..len : scan[k] = Scan(scan[k - 1], text[k])
    <2> HIDE DEF base
    <2>1. \A k \in 0..len : scan[k] = IF k = 0 THEN base ELSE Scan(scan[k - 1], text[k])
        BY <1>5 DEF IsScan, base
    <2> QED  BY <1>0, <2>1
<1>8. \A k \in 0..len : scan[k] \in S
    <2>1. \A k \in 1..len : scan[k - 1] \in S => scan[k] \in S
        <3> TAKE k \in 1..len
        <3> DEFINE c == text[k]
                   acc == scan[k - 1]
        <3>1. c \in C /\ scan[k] = Scan(acc, c)
            BY <1>0, <1>7
        <3> HIDE DEF acc, c
        <3>2. acc \in S => Scan(acc, c) \in S
            BY <3>1, ScanTyped
        <3> QED  BY <3>1, <3>2 DEF acc
    <2> HIDE DEF S, base, len
    <2> QED  BY <1>0, <1>1, <1>7, <2>1, LoopTyped
<1>9. scan[len] \in S
    BY <1>0, <1>8
<1>10. ASSUME NEW acc \in S PROVE Flush(acc.words, acc.current) \in Seq(WordsOver(C))
    <2>1. CASE acc.current = <<>>
        BY <2>1 DEF Flush
    <2>2. CASE acc.current # <<>>
        <3>1. acc.current \in WordsOver(C)
            BY <2>2 DEF WordsOver
        <3> QED  BY <2>2, <3>1, AppendProperties DEF Flush
    <2> QED  BY <2>1, <2>2
<1> HIDE DEF S
<1> QED  BY <1>6, <1>9, <1>10

(* WordPiece.  The ids a tokenizer can give. *)
Ids(tk) == {tk.vocab[s] : s \in DOMAIN tk.vocab} \cup {tk.unk, tk.cls, tk.sep, tk.pad}
Takes(tk) == [start : Nat \ {0}, ids : Seq(Ids(tk))]

LEMMA LongestEndFacts ==
    ASSUME NEW tk, NEW C, NEW word \in Seq(C), NEW start \in Nat \ {0}
    PROVE  LET end == LongestEnd(tk, word, start)
               Known(e) == Piece(tk, word, start, e) \in DOMAIN tk.vocab
           IN \/ end = 0 /\ \A e \in start..Len(word) : ~Known(e)
              \/ /\ end \in start..Len(word) /\ Known(end)
                 /\ \A e \in (end + 1)..Len(word) : ~Known(e)
<1> DEFINE end == LongestEnd(tk, word, start)
           Known(e) == Piece(tk, word, start, e) \in DOMAIN tk.vocab
           ends == {e \in start..Len(word) : Known(e)}
<1>0. Len(word) \in Nat
    OBVIOUS
<1>1. end = IF ends = {} THEN 0 ELSE Max(ends)
    BY Zenon DEF LongestEnd
<1> HIDE DEF Known, end
<1>2. CASE ends = {}
    <2>1. \A e \in start..Len(word) : ~Known(e)
        BY <1>2
    <2> QED  BY <1>1, <1>2, <2>1 DEF Known, end
<1>3. CASE ends # {}
    <2>1. ends \in SUBSET Nat /\ \A x \in ends : x <= Len(word)
        BY <1>0
    <2>2. Max(ends) \in ends /\ \A x \in ends : x <= Max(ends)
        <3> HIDE DEF ends
        <3> QED  BY <1>0, <1>3, <2>1, MaxFacts
    <2>3. end = Max(ends)
        BY <1>1, <1>3, Zenon
    <2>4. end \in start..Len(word) /\ Known(end) /\ \A x \in ends : x <= end
        BY <2>2, <2>3
    <2>5. \A e \in (end + 1)..Len(word) : ~Known(e)
        BY <1>0, <2>4
    <2> QED  BY <2>4, <2>5 DEF Known, end
<1> QED  BY <1>2, <1>3

LEMMA TakePieceTyped ==
    ASSUME NEW tk, NEW C, NEW word \in Seq(C), NEW acc \in Takes(tk)
    PROVE  TakePiece(tk, word, acc) \in Takes(tk)
<1> DEFINE end == LongestEnd(tk, word, acc.start)
<1>0. Len(word) \in Nat /\ acc.start \in Nat \ {0} /\ acc.ids \in Seq(Ids(tk))
    BY DEF Takes
<1>1. \/ end = 0
      \/ end \in Nat /\ Piece(tk, word, acc.start, end) \in DOMAIN tk.vocab
    <2> DEFINE start == acc.start
    <2>1. start \in Nat \ {0}
        BY <1>0
    <2> HIDE DEF start
    <2>2. \/ LongestEnd(tk, word, start) = 0
          \/ /\ LongestEnd(tk, word, start) \in start..Len(word)
             /\ Piece(tk, word, start, LongestEnd(tk, word, start)) \in DOMAIN tk.vocab
        BY <2>1, LongestEndFacts
    <2>3. \/ LongestEnd(tk, word, start) = 0
          \/ /\ LongestEnd(tk, word, start) \in Nat
             /\ Piece(tk, word, start, LongestEnd(tk, word, start)) \in DOMAIN tk.vocab
        BY <1>0, <2>1, <2>2
    <2> QED  BY <2>3 DEF start
<1>2. <<tk.unk>> \in Seq(Ids(tk))
    BY DEF Ids
<1>3. CASE acc.start > Len(word)
    BY <1>3 DEF TakePiece
<1>4. CASE ~(acc.start > Len(word)) /\ end = 0
    <2>1. TakePiece(tk, word, acc) =
            [start |-> Len(word) + 1, ids |-> IF acc.ids = <<>> THEN <<tk.unk>> ELSE acc.ids]
        BY <1>4 DEF TakePiece
    <2>2. (IF acc.ids = <<>> THEN <<tk.unk>> ELSE acc.ids) \in Seq(Ids(tk))
        BY <1>0, <1>2, Zenon
    <2> QED  BY <1>0, <2>1, <2>2 DEF Takes
<1>5. CASE ~(acc.start > Len(word)) /\ end # 0
    <2> DEFINE id == tk.vocab[Piece(tk, word, acc.start, end)]
    <2>1. TakePiece(tk, word, acc) = [start |-> end + 1, ids |-> Append(acc.ids, id)]
        BY <1>5 DEF TakePiece
    <2>2. id \in Ids(tk) /\ end \in Nat
        BY <1>1, <1>5 DEF Ids
    <2> HIDE DEF id, end
    <2> QED  BY <1>0, <2>1, <2>2, AppendProperties DEF Takes
<1> QED  BY <1>3, <1>4, <1>5

IsTake(take, tk, word) ==
    take = [n \in 0..Len(word) |->
              IF n = 0 THEN [start |-> 1, ids |-> <<>>] ELSE TakePiece(tk, word, take[n - 1])]
Taking(take, tk, word) ==
    /\ take[0] = [start |-> 1, ids |-> <<>>]
    /\ \A k \in 1..Len(word) : take[k] = TakePiece(tk, word, take[k - 1])
    /\ \A k \in 0..Len(word) : take[k] \in Takes(tk)

LEMMA TakeExists ==
    ASSUME NEW tk, NEW C, NEW word \in Seq(C)
    PROVE  \E take : /\ Taking(take, tk, word)
                     /\ WordPiece(tk, word) =
                          IF word \in DOMAIN tk.vocab THEN <<tk.vocab[word]>> ELSE take[Len(word)].ids
<1> DEFINE len == Len(word)
           S == Takes(tk)
           base == [start |-> 1, ids |-> <<>>]
           f == [k \in 1..len |-> [acc \in S |-> TakePiece(tk, word, acc)]]
           take == CHOOSE t : IsTake(t, tk, word)
<1>0. len \in Nat
    OBVIOUS
<1>1. base \in S
    BY DEF Takes
<1>2. f \in [1..len -> [S -> S]]
    <2>1. \A acc \in S : TakePiece(tk, word, acc) \in S
        BY TakePieceTyped
    <2> HIDE DEF S, len
    <2> QED  BY <2>1
<1>3. PICK r : Looped(r, S, base, len, f)
    <2> HIDE DEF S, f, len, base
    <2> QED  BY <1>0, <1>1, <1>2, LoopExists
<1>4. IsTake(r, tk, word)
    <2> HIDE DEF S, base
    <2>1. \A k \in 0..len : r[k] = IF k = 0 THEN base ELSE TakePiece(tk, word, r[k - 1])
        <3> HIDE DEF len
        <3> TAKE k \in 0..len
        <3>1. CASE k = 0
            BY <3>1, <1>3 DEF Looped
        <3>2. CASE k # 0
            <4>1. k \in 1..len /\ r[k - 1] \in S
                <5> HIDE DEF f
                <5> QED  BY <3>2, <1>0, <1>3 DEF Looped
            <4>2. f[k][r[k - 1]] = TakePiece(tk, word, r[k - 1])
                BY <4>1
            <4> HIDE DEF f
            <4> QED  BY <3>2, <4>1, <4>2, <1>3 DEF Looped
        <3> QED  BY <3>1, <3>2
    <2>2. r = [k \in 0..len |-> r[k]]
        BY <1>3 DEF Looped
    <2> QED  BY <2>1, <2>2 DEF IsTake, base
<1>5. IsTake(take, tk, word)
    BY <1>4, Zenon
<1>6. WordPiece(tk, word) = IF word \in DOMAIN tk.vocab THEN <<tk.vocab[word]>> ELSE take[len].ids
    BY DEF WordPiece, IsTake
<1> HIDE DEF take, f
<1>7. take[0] = base /\ \A k \in 1..len : take[k] = TakePiece(tk, word, take[k - 1])
    <2> HIDE DEF base
    <2>1. \A k \in 0..len : take[k] = IF k = 0 THEN base ELSE TakePiece(tk, word, take[k - 1])
        BY <1>5 DEF IsTake, base
    <2> QED  BY <1>0, <2>1
<1>8. \A k \in 0..len : take[k] \in S
    <2>1. \A k \in 1..len : take[k - 1] \in S => take[k] \in S
        BY <1>0, <1>7, TakePieceTyped
    <2> HIDE DEF S, base, len
    <2> QED  BY <1>0, <1>1, <1>7, <2>1, LoopTyped
<1>9. Taking(take, tk, word)
    BY <1>7, <1>8 DEF Taking
<1> QED  BY <1>6, <1>9

LEMMA WordPieceTyped ==
    ASSUME NEW tk, NEW C, NEW word \in Seq(C)
    PROVE  WordPiece(tk, word) \in Seq(Ids(tk))
<1>1. PICK take : /\ Taking(take, tk, word)
                  /\ WordPiece(tk, word) =
                       IF word \in DOMAIN tk.vocab THEN <<tk.vocab[word]>> ELSE take[Len(word)].ids
    BY TakeExists
<1>2. take[Len(word)].ids \in Seq(Ids(tk))
    BY <1>1 DEF Taking, Takes
<1>3. word \in DOMAIN tk.vocab => <<tk.vocab[word]>> \in Seq(Ids(tk))
    BY DEF Ids
<1> QED  BY <1>1, <1>2, <1>3

(* The characters of a text, as they stand and normalised. *)
Chars == Nat \cup {NormalizeChar(c) : c \in Nat}
Text == Seq(Nat)

LEMMA WordsTyped ==
    ASSUME NEW tk, NEW text \in Text
    PROVE  Words(tk, text) \in Seq(WordsOver(Chars))
<1> DEFINE plain == IF tk.lower THEN BertNormalize(text) ELSE text
<1>1. text \in Seq(Chars)
    BY DEF Text, Chars
<1>2. BertNormalize(text) \in Seq(Chars)
    <2>1. \A i \in 1..Len(text) : NormalizeChar(text[i]) \in Chars
        BY DEF Text, Chars
    <2>2. DOMAIN text = 1..Len(text) /\ Len(text) \in Nat
        BY DEF Text
    <2> QED  BY <2>1, <2>2 DEF BertNormalize
<1>3. plain \in Seq(Chars)
    BY <1>1, <1>2
<1> HIDE DEF plain
<1>4. BasicTokenize(plain) \in Seq(WordsOver(Chars))
    BY <1>3, TokenizeTyped
<1> QED  BY <1>4 DEF Words, plain

IsBody(body, tk, words) ==
    body = [n \in 0..Len(words) |->
              IF n = 0 THEN <<>> ELSE body[n - 1] \o Subwords(tk, words[n])]

Spelling(body, tk, words) ==
    /\ body[0] = <<>>
    /\ \A k \in 1..Len(words) : body[k] = body[k - 1] \o Subwords(tk, words[k])

LEMMA BodyExists ==
    ASSUME NEW tk, NEW text \in Text,
           \A word \in WordsOver(Chars) : Subwords(tk, word) \in Seq(Ids(tk))
    PROVE  \E body : LET len == Len(Words(tk, text)) IN
             /\ Spelling(body, tk, Words(tk, text)) /\ body[len] \in Seq(Ids(tk))
             /\ Encode(tk, text) = Truncate(tk, Frame(tk, body[len]))
<1> DEFINE words == Words(tk, text)
           len == Len(words)
           S == Seq(Ids(tk))
           f == [k \in 1..len |-> [acc \in S |-> acc \o Subwords(tk, words[k])]]
           body == CHOOSE b : IsBody(b, tk, words)
<1>0. len \in Nat /\ \A k \in 1..len : Subwords(tk, words[k]) \in S
    BY WordsTyped
<1> HIDE DEF words, len
<1>1. <<>> \in S /\ \A a, b \in S : a \o b \in S
    BY ConcatProperties
<1> HIDE DEF S
<1>2. f \in [1..len -> [S -> S]]
    BY <1>0, <1>1
<1>3. PICK r : Looped(r, S, <<>>, len, f)
    <2> HIDE DEF f
    <2> QED  BY <1>0, <1>1, <1>2, LoopExists
<1>4. IsBody(r, tk, words)
    <2>1. \A k \in 0..len : r[k] = IF k = 0 THEN <<>> ELSE r[k - 1] \o Subwords(tk, words[k])
        <3> TAKE k \in 0..len
        <3>1. CASE k = 0
            <4> DEFINE z == <<>>
            <4>1. r[0] = z
                BY <1>3 DEF Looped
            <4> HIDE DEF z
            <4>2. r[k] = z
                BY <3>1, <4>1
            <4> QED  BY <3>1, <4>2, Zenon DEF z
        <3>2. CASE k # 0
            <4>1. k \in 1..len /\ r[k - 1] \in S
                <5> HIDE DEF f
                <5> QED  BY <3>2, <1>0, <1>3 DEF Looped
            <4>2. f[k][r[k - 1]] = r[k - 1] \o Subwords(tk, words[k])
                BY <4>1
            <4> HIDE DEF f
            <4>3. r[k] = r[k - 1] \o Subwords(tk, words[k])
                BY <4>1, <4>2, <1>3 DEF Looped
            <4> QED  BY <3>2, <4>3, Zenon
        <3> QED  BY <3>1, <3>2
    <2>2. r = [k \in 0..len |-> r[k]]
        BY <1>3 DEF Looped
    <2> QED  BY <2>1, <2>2, Zenon DEF IsBody, len
<1>5. IsBody(body, tk, words)
    BY <1>4, Zenon
<1>6. Encode(tk, text) = Truncate(tk, Frame(tk, body[len]))
    BY DEF Encode, IsBody, words, len
<1> HIDE DEF body, f
<1>7. \A k \in 0..len : body[k] = IF k = 0 THEN <<>> ELSE body[k - 1] \o Subwords(tk, words[k])
    BY <1>5, Zenon DEF IsBody, len
<1>8. \A k \in 0..len : body[k] \in S
    <2>1. \A k \in 1..len : body[k - 1] \in S => body[k] \in S
        <3> TAKE k \in 1..len
        <3>1. k \in 0..len /\ k # 0
            BY <1>0
        <3>2. body[k] = body[k - 1] \o Subwords(tk, words[k])
            BY <1>7, <3>1, Zenon
        <3> QED  BY <1>0, <1>1, <3>2
    <2>2. 0 \in 0..len
        BY <1>0
    <2>3. body[0] = <<>>
        BY <1>7, <2>2, Zenon
    <2> DEFINE z == <<>>
    <2>4. z \in S /\ body[0] = z
        BY <1>1, <2>3, Zenon
    <2> HIDE DEF z
    <2> QED  BY <1>0, <2>1, <2>4, LoopTyped
<1>9. body[len] \in S
    BY <1>0, <1>8
<1>10. Spelling(body, tk, words)
    <2>0. 0 \in 0..len
        BY <1>0
    <2>1. body[0] = <<>>
        BY <1>7, <2>0, Zenon
    <2>2. ASSUME NEW k \in 1..len PROVE body[k] = body[k - 1] \o Subwords(tk, words[k])
        <3>1. k \in 0..len /\ k # 0
            BY <1>0
        <3> QED  BY <1>7, <3>1, Zenon
    <2> QED  BY <2>1, <2>2, Zenon DEF Spelling, len
<1> QED  BY <1>6, <1>9, <1>10, Zenon DEF S, words, len

LEMMA EncodeExists ==
    ASSUME NEW tk, NEW text \in Text,
           \A word \in WordsOver(Chars) : Subwords(tk, word) \in Seq(Ids(tk))
    PROVE  \E ids \in Seq(Ids(tk)) : Encode(tk, text) = Truncate(tk, Frame(tk, ids))
BY BodyExists, Zenon

LEMMA FrameFacts ==
    ASSUME NEW tk, NEW ids \in Seq(Ids(tk))
    PROVE  LET row == Frame(tk, ids) IN
           /\ row \in Seq(Ids(tk))
           /\ tk.special => Len(row) >= 2 /\ row[1] = tk.cls /\ row[Len(row)] = tk.sep
<1>1. tk.cls \in Ids(tk) /\ tk.sep \in Ids(tk)
    BY DEF Ids
<1>2. CASE ~tk.special
    BY <1>2 DEF Frame
<1>3. CASE tk.special
    <2> DEFINE I == Ids(tk)
               a == <<tk.cls>>
               b == <<tk.sep>>
    <2>1. a \in Seq(I) /\ Len(a) = 1 /\ a[1] = tk.cls /\ b \in Seq(I) /\ Len(b) = 1 /\ b[1] = tk.sep
        BY <1>1
    <2>2. Frame(tk, ids) = a \o ids \o b
        BY <1>3 DEF Frame
    <2> HIDE DEF a, b, I
    <2>3. ids \in Seq(I)
        BY DEF I
    <2> DEFINE c == a \o ids
               d == c \o b
    <2>4. c \in Seq(I) /\ Len(c) = 1 + Len(ids) /\ c[1] = tk.cls /\ Len(ids) \in Nat
        BY <2>1, <2>3, ConcatProperties
    <2> HIDE DEF c
    <2>5. /\ d \in Seq(I) /\ Len(d) = 2 + Len(ids) /\ d[1] = tk.cls
          /\ d[Len(d)] = tk.sep
        <3>0. c \in Seq(I) /\ b \in Seq(I)
            BY <2>1, <2>4
        <3>1. d \in Seq(I) /\ Len(d) = Len(c) + Len(b)
            BY <3>0
        <3>2. \A i \in 1..(Len(c) + Len(b)) :
                  d[i] = IF i <= Len(c) THEN c[i] ELSE b[i - Len(c)]
            BY <3>0
        <3> HIDE DEF d
        <3> QED  BY <2>1, <2>4, <3>1, <3>2
    <2>6. Frame(tk, ids) = d
        BY <2>2 DEF c
    <2> HIDE DEF d
    <2> QED  BY <1>3, <2>4, <2>5, <2>6 DEF I
<1> QED  BY <1>2, <1>3

LEMMA TruncateFacts ==
    ASSUME NEW tk, NEW ids \in Seq(Ids(tk)), tk.maxLength \in Nat \ {0}
    PROVE  LET row == Truncate(tk, ids) IN
           /\ row \in Seq(Ids(tk)) /\ Len(row) <= tk.maxLength
           /\ tk.special /\ Len(ids) >= 2 /\ ids[Len(ids)] = tk.sep =>
                /\ Len(row) >= 1 /\ row[Len(row)] = tk.sep
                /\ tk.maxLength > 1 => row[1] = ids[1]
<1> DEFINE I == Ids(tk)
           max == tk.maxLength
<1>1. tk.sep \in I
    BY DEF Ids
<1>2. ids \in Seq(I) /\ Len(ids) \in Nat /\ max \in Nat \ {0}
    OBVIOUS
<1>3. CASE Len(ids) <= max
    BY <1>2, <1>3 DEF Truncate
<1>4. CASE ~(Len(ids) <= max) /\ tk.special
    <2> DEFINE cut == SubSeq(ids, 1, max - 1)
    <2> HIDE DEF I, max
    <2>1. cut \in Seq(I) /\ Len(cut) = max - 1 /\ \A i \in 1..(max - 1) : cut[i] = ids[i]
        BY <1>2, <1>4, SubSeqProperties
    <2>2. Truncate(tk, ids) = Append(cut, tk.sep)
        BY <1>4 DEF Truncate, max
    <2> HIDE DEF cut
    <2>3. /\ Append(cut, tk.sep) \in Seq(I) /\ Len(Append(cut, tk.sep)) = max
          /\ Append(cut, tk.sep)[max] = tk.sep
          /\ max > 1 => Append(cut, tk.sep)[1] = ids[1]
        BY <1>1, <1>2, <2>1
    <2> QED  BY <1>2, <2>2, <2>3 DEF I, max
<1>5. CASE ~(Len(ids) <= max) /\ ~tk.special
    <2> HIDE DEF I, max
    <2>1. Truncate(tk, ids) = SubSeq(ids, 1, max)
        BY <1>5 DEF Truncate, max
    <2>2. SubSeq(ids, 1, max) \in Seq(I) /\ Len(SubSeq(ids, 1, max)) = max
        BY <1>2, <1>5, SubSeqProperties
    <2> QED  BY <1>2, <1>5, <2>1, <2>2 DEF I, max
<1> QED  BY <1>3, <1>4, <1>5

LEMMA EncodeFacts ==
    ASSUME NEW tk, NEW text \in Text, tk.maxLength \in Nat \ {0},
           \A word \in WordsOver(Chars) : Subwords(tk, word) \in Seq(Ids(tk))
    PROVE  LET row == Encode(tk, text) IN
           /\ row \in Seq(Ids(tk)) /\ Len(row) <= tk.maxLength
           /\ tk.special => /\ row[Len(row)] = tk.sep
                            /\ tk.maxLength > 1 => row[1] = tk.cls
<1>1. PICK ids \in Seq(Ids(tk)) : Encode(tk, text) = Truncate(tk, Frame(tk, ids))
    BY EncodeExists
<1>2. /\ Frame(tk, ids) \in Seq(Ids(tk))
      /\ tk.special => /\ Len(Frame(tk, ids)) >= 2 /\ Frame(tk, ids)[1] = tk.cls
                       /\ Frame(tk, ids)[Len(Frame(tk, ids))] = tk.sep
    BY FrameFacts
<1> DEFINE frame == Frame(tk, ids)
<1> HIDE DEF frame
<1>3. /\ frame \in Seq(Ids(tk))
      /\ tk.special => Len(frame) >= 2 /\ frame[1] = tk.cls /\ frame[Len(frame)] = tk.sep
    BY <1>2 DEF frame
<1> QED  BY <1>1, <1>3, TruncateFacts DEF frame

-----------------------------------------------------------------------------
(* GGUF files. *)
LEMMA ArchI32Typed ==
    ASSUME NEW name \in DOMAIN GgufFiles, NEW n \in Nat, NEW T, NEW spellings \in [1..n -> T],
           ArchI32(GgufFiles[name], spellings) # {}
    PROVE  Only(ArchI32(GgufFiles[name], spellings)) \in Int
<1> DEFINE f == GgufFiles[name]
           found == {i \in DOMAIN spellings : HasI32(f, <<Arch(f), spellings[i]>>)}
           key == <<Arch(f), spellings[Min(found)]>>
<1>1. ArchI32(f, spellings) = {f.kv[key].v} /\ found # {}
    BY Zenon DEF ArchI32
<1>2. Min(found) \in found
    <2>1. found \in SUBSET Nat
        OBVIOUS
    <2> HIDE DEF found
    <2> QED  BY <1>1, <2>1, MinFacts
<1>3. HasI32(f, key)
    BY <1>2
<1> HIDE DEF key, found
<1>4. f.kv[key].v \in Int
    <2>1. key \in DOMAIN f.kv /\ f.kv[key].t \in {"i32", "u32"}
        BY <1>3 DEF HasI32, Typed
    <2>2. f.kv[key].t \in {"i32", "u32"} => f.kv[key].v \in Int
        BY <2>1, GgufAssumption, Zenon
    <2> QED  BY <2>1, <2>2, Zenon
<1>5. Only({f.kv[key].v}) = f.kv[key].v
    BY DEF Only
<1>6. Only(ArchI32(f, spellings)) = f.kv[key].v
    BY <1>1, <1>5, Zenon
<1> QED  BY <1>4, <1>6

LEMMA HparamsTyped ==
    ASSUME NEW name \in DOMAIN GgufFiles, Opens(GgufFiles[name])
    PROVE  LET hp == Hparams(GgufFiles[name]) IN
           /\ Only(hp.pos) \in Nat \ {0} /\ Only(hp.vocab) \in Nat \ {0}
           /\ Only(hp.layer) \in Nat \ {0}
<1> DEFINE f == GgufFiles[name]
           hp == Hparams(f)
           Names2 == {"block_count", "num_hidden_layers", "context_length",
                      "max_position_embeddings", "vocab_size"}
           a == <<"block_count", "num_hidden_layers">>
           b == <<"context_length", "max_position_embeddings">>
           c == <<"vocab_size">>
<1>1. a \in [1..2 -> Names2] /\ b \in [1..2 -> Names2] /\ c \in [1..1 -> Names2]
    OBVIOUS
<1>2. hp.layer = ArchI32(f, a) /\ hp.pos = ArchI32(f, b) /\ hp.vocab = ArchI32(f, c)
    BY DEF Hparams
<1>3. /\ hp.layer # {} /\ Only(hp.layer) > 0
      /\ hp.pos # {} /\ Only(hp.pos) > 0
      /\ hp.vocab # {} /\ Only(hp.vocab) > 0
    <2>1. \A d \in DOMAIN hp : hp[d] # {} /\ Only(hp[d]) > 0
        BY DEF Opens
    <2>2. {"layer", "pos", "vocab"} \subseteq DOMAIN hp
        BY DEF Hparams
    <2> HIDE DEF hp
    <2> QED  BY <2>1, <2>2
<1> HIDE DEF hp, a, b, c, Names2
<1>4. Only(hp.layer) \in Int /\ Only(hp.pos) \in Int /\ Only(hp.vocab) \in Int
    BY <1>1, <1>2, <1>3, ArchI32Typed
<1> QED  BY <1>3, <1>4 DEF hp

LEMMA FirstIdsTyped ==
    ASSUME NEW T, NEW tokens \in Seq(T), NEW s \in DOMAIN FirstIds(tokens)
    PROVE  FirstIds(tokens)[s] \in 0..(Len(tokens) - 1)
<1> DEFINE same == {i \in DOMAIN tokens : tokens[i] = s}
<1>1. DOMAIN tokens = 1..Len(tokens) /\ Len(tokens) \in Nat
    OBVIOUS
<1>2. s \in Range(tokens) /\ FirstIds(tokens)[s] = Min(same) - 1
    BY DEF FirstIds
<1>3. same \in SUBSET Nat /\ same # {}
    BY <1>1, <1>2 DEF Range
<1> HIDE DEF same
<1>4. Min(same) \in same
    BY <1>3, MinFacts
<1>5. Min(same) \in 1..Len(tokens)
    BY <1>1, <1>4 DEF same
<1> QED  BY <1>1, <1>2, <1>5

LEMMA ResolveTyped ==
    ASSUME NEW vocab, NEW size \in Nat \ {0}, NEW explicit, NEW surface, NEW fallback \in Nat,
           \A s \in DOMAIN vocab : vocab[s] \in 0..(size - 1)
    PROVE  ResolveSpecial(vocab, size, explicit, surface, fallback) \in 0..(size - 1)
BY DEF ResolveSpecial

LEMMA LoadVocabFacts ==
    ASSUME NEW T, NEW tokens \in Seq(T), Len(tokens) > 0,
           NEW pad, NEW unk, NEW cls, NEW sep, NEW maxLength \in Nat \ {0}, NEW special
    PROVE  LET tk == LoadVocab(tokens, pad, unk, cls, sep, maxLength, special) IN
           /\ tk.type = "WORDPIECE" /\ tk.maxLength = maxLength
           /\ Ids(tk) \subseteq 0..(Len(tokens) - 1)
<1> DEFINE size == Len(tokens)
           vocab == FirstIds(tokens)
           Id(explicit, surface, fallback) ==
              ResolveSpecial(vocab, size, explicit, surface, fallback)
           tk == [NewTokenizer EXCEPT
                   !.vocab = vocab, !.prefix = HashHash, !.special = special,
                   !.maxLength = IF maxLength > 0 THEN maxLength ELSE 512,
                   !.pad = Id(pad, PAD, 0), !.unk = Id(unk, UNK, 100),
                   !.cls = Id(cls, CLS, 101), !.sep = Id(sep, SEP, 102)]
<1>1. LoadVocab(tokens, pad, unk, cls, sep, maxLength, special) = tk
    BY Zenon DEF LoadVocab
<1>2. size \in Nat \ {0}
    OBVIOUS
<1>3. \A s \in DOMAIN vocab : vocab[s] \in 0..(size - 1)
    BY FirstIdsTyped
<1> HIDE DEF vocab, size
<1>4. /\ Id(pad, PAD, 0) \in 0..(size - 1) /\ Id(unk, UNK, 100) \in 0..(size - 1)
      /\ Id(cls, CLS, 101) \in 0..(size - 1) /\ Id(sep, SEP, 102) \in 0..(size - 1)
    BY <1>2, <1>3, ResolveTyped
<1> HIDE DEF Id
<1>5. /\ tk.type = "WORDPIECE" /\ tk.maxLength = maxLength /\ tk.vocab = vocab
      /\ tk.pad = Id(pad, PAD, 0) /\ tk.unk = Id(unk, UNK, 100)
      /\ tk.cls = Id(cls, CLS, 101) /\ tk.sep = Id(sep, SEP, 102)
    BY DEF NewTokenizer
<1> HIDE DEF tk
<1>6. Ids(tk) \subseteq 0..(size - 1)
    BY <1>3, <1>4, <1>5 DEF Ids
<1> QED  BY <1>1, <1>5, <1>6 DEF size

LEMMA CappedTyped ==
    ASSUME NEW request \in Requests, NEW pos \in Nat \ {0}
    PROVE  Capped(request, pos) \in Nat \ {0} /\ Capped(request, pos) <= pos
<1> DEFINE max == Capped(request, pos)
<1>1. request \in Int
    BY TextsAssumption
<1>2. CASE request > 0
    <2> DEFINE two == {request, pos}
    <2>1. two \in SUBSET Nat /\ two # {} /\ \A x \in two : x # 0
        BY <1>1, <1>2
    <2>2. max = Min(two)
        BY <1>2 DEF Capped
    <2>3. pos \in two
        OBVIOUS
    <2> HIDE DEF two, max
    <2>4. max \in Nat \ {0} /\ max <= pos
        BY <2>1, <2>2, <2>3, MinFacts
    <2> QED  BY <2>4 DEF max
<1>3. CASE ~(request > 0)
    BY <1>3 DEF Capped
<1> QED  BY <1>2, <1>3

LEMMA LoadSessionFacts ==
    ASSUME NEW name \in DOMAIN GgufFiles, NEW request \in Requests, NEW memory,
           NEW s \in LoadSession(GgufFiles[name], request, memory)
    PROVE  /\ Opens(GgufFiles[name]) /\ Accepts(GgufFiles[name])
           /\ s.tok.type = "WORDPIECE" /\ s.tok.maxLength \in Nat \ {0}
           /\ s.positions \in Nat /\ s.tok.maxLength <= s.positions
           /\ s.vocabSize \in Nat /\ Ids(s.tok) \subseteq 0..(s.vocabSize - 1)
           /\ s.positions = Only(Hparams(GgufFiles[name]).pos)
           /\ s.vocabSize = Only(Hparams(GgufFiles[name]).vocab)
           /\ LoadsTensors(GgufFiles[name], memory)
<1> DEFINE f == GgufFiles[name]
           pos == Only(Hparams(f).pos)
           vocab == Only(Hparams(f).vocab)
           max == Capped(request, pos)
           tok == SessionTokenizer(f, max)
           key == <<"tokenizer", "tokens">>
<1>1. /\ Opens(f) /\ Accepts(f) /\ LoadsTensors(f, memory) /\ VocabFits(f)
      /\ s = [tok |-> tok, vocabSize |-> vocab, positions |-> pos, specialIds |-> SpecialIds(f)]
    BY DEF LoadSession
<1>2. /\ s.tok = tok /\ s.vocabSize = vocab /\ s.positions = pos
      /\ s.positions = Only(Hparams(f).pos) /\ s.vocabSize = Only(Hparams(f).vocab)
    BY <1>1
<1>3. pos \in Nat \ {0} /\ vocab \in Nat \ {0}
    BY <1>1, HparamsTyped
<1> HIDE DEF pos, vocab
<1>4. max \in Nat \ {0} /\ max <= pos
    BY <1>3, CappedTyped
<1>5. f.kv[key].v \in Seq(Seq(Nat)) /\ Len(f.kv[key].v) = vocab
    <2>1. HasStrs(f, key) /\ Len(f.kv[key].v) = vocab
        BY <1>1 DEF VocabFits, vocab
    <2>2. key \in DOMAIN f.kv /\ f.kv[key].t = "strs"
        BY <2>1 DEF HasStrs, Typed
    <2> HIDE DEF key
    <2> QED  BY <2>1, <2>2, GgufAssumption
<1>6. PICK pad, unk, cls, sep, special :
          tok = LoadVocab(f.kv[key].v, pad, unk, cls, sep, max, special)
    BY Zenon DEF SessionTokenizer
<1> DEFINE tokens == f.kv[key].v
<1>7. tokens \in Seq(Seq(Nat)) /\ Len(tokens) > 0 /\ Len(tokens) = vocab
    BY <1>3, <1>5
<1> HIDE DEF max, tok, tokens
<1>8. tok = LoadVocab(tokens, pad, unk, cls, sep, max, special)
    BY <1>6 DEF tokens
<1>9. tok.type = "WORDPIECE" /\ tok.maxLength = max /\ Ids(tok) \subseteq 0..(Len(tokens) - 1)
    BY <1>4, <1>7, <1>8, LoadVocabFacts
<1> QED  BY <1>1, <1>2, <1>3, <1>4, <1>7, <1>9

LEMMA SparseSummary ==
    ASSUME NEW f, Accepts(f)
    PROVE  Summary(Classify(f)) = "sparse"
<1> DEFINE d == Classify(f)
<1>1. d.diagnostic = "" /\ "SPLADE" \in d.capabilities /\ d.formula = "SPLADE"
    BY DEF Accepts
<1> HIDE DEF d
<1>2. {"SPLADE", "SPARSE_LINEAR"} \cap d.capabilities # {} /\ d.formula # "UNKNOWN"
    BY <1>1
<1>3. Summary(d) = "sparse"
    BY <1>1, <1>2, Zenon DEF Summary
<1> QED  BY <1>3 DEF d

LEMMA FunctionIsSeq ==
    ASSUME NEW X, NEW n \in Nat, NEW g \in [1..n -> X]
    PROVE  g \in Seq(X) /\ Len(g) = n
<1>1. \A i \in 1..n : g[i] \in X
    OBVIOUS
<1>2. g = [i \in 1..n |-> g[i]]
    OBVIOUS
<1>3. [i \in 1..n |-> g[i]] \in Seq(X)
    BY <1>1
<1> QED  BY <1>2, <1>3

(* Where the names are collected is where bind reads them. *)
LEMMA NamesPlaced ==
    ASSUME NEW layers \in Nat
    PROVE  LET t == RequiredNames(layers) IN
           /\ 1..5 \subseteq DOMAIN t
           /\ \A k \in 1..5 : t[k] = Named(EmbeddingNames[k])
           /\ \A k \in 1..5 : t[5 + 16 * layers + k] = Named(HeadNames[k])
           /\ \A il \in 0..(layers - 1), k \in 1..16 :
                 t[5 + 16 * il + k] = <<"enc", il, LayerNames[k]>>
<1> DEFINE n == 16 * layers
           x == [i \in 1..5 |-> Named(EmbeddingNames[i])]
           y == [i \in 1..n |-> <<"enc", (i - 1) \div 16, LayerNames[((i - 1) % 16) + 1]>>]
           z == [i \in 1..5 |-> Named(HeadNames[i])]
           X == {x[i] : i \in 1..5} \cup {y[i] : i \in 1..n} \cup {z[i] : i \in 1..5}
<1>1. n \in Nat
    OBVIOUS
<1>2. RequiredNames(layers) = x \o y \o z
    BY DEF RequiredNames
<1>3. /\ \A k \in 1..5 : x[k] = Named(EmbeddingNames[k]) /\ z[k] = Named(HeadNames[k])
      /\ \A i \in 1..n : y[i] = <<"enc", (i - 1) \div 16, LayerNames[((i - 1) % 16) + 1]>>
    OBVIOUS
<1>4. x \in [1..5 -> X] /\ y \in [1..n -> X] /\ z \in [1..5 -> X]
    OBVIOUS
<1> HIDE DEF X, x, y, z, n
<1> DEFINE xy == x \o y
           t == xy \o z
<1>5. x \in Seq(X) /\ y \in Seq(X) /\ z \in Seq(X)
    BY <1>1, <1>4, FunctionIsSeq
<1>5a. Len(x) = 5 /\ Len(y) = n /\ Len(z) = 5
    BY <1>1, <1>4, FunctionIsSeq
<1>6. /\ xy \in Seq(X) /\ Len(xy) = Len(x) + Len(y)
      /\ \A i \in 1..(Len(x) + Len(y)) : xy[i] = IF i <= Len(x) THEN x[i] ELSE y[i - Len(x)]
    BY <1>5
<1> HIDE DEF xy
<1>6a. \A i \in 1..(Len(xy) + Len(z)) : t[i] = IF i <= Len(xy) THEN xy[i] ELSE z[i - Len(xy)]
    BY <1>5, <1>6
<1>6b. 1..5 \subseteq DOMAIN t
    <2>1. t \in Seq(X)
        BY <1>5, <1>6
    <2>1a. Len(t) = Len(xy) + Len(z)
        BY <1>5, <1>6, ConcatProperties
    <2>2. Len(xy) + Len(z) >= 5 /\ Len(xy) + Len(z) \in Nat
        BY <1>1, <1>5a, <1>6
    <2> HIDE DEF t
    <2> QED  BY <2>1, <2>1a, <2>2
<1> HIDE DEF t
<1>7. \A i \in 1..(5 + n) : xy[i] = IF i <= 5 THEN x[i] ELSE y[i - 5]
    BY <1>1, <1>5a, <1>6
<1>8. \A i \in 1..(10 + n) : t[i] = IF i <= 5 + n THEN xy[i] ELSE z[i - (5 + n)]
    BY <1>1, <1>5a, <1>6, <1>6a
<1> HIDE DEF t
<1>9. \A k \in 1..5 : t[k] = Named(EmbeddingNames[k])
    BY <1>1, <1>3, <1>7, <1>8
<1>10. \A k \in 1..5 : t[5 + n + k] = Named(HeadNames[k])
    <2> TAKE k \in 1..5
    <2> DEFINE i == 5 + n + k
    <2>1. i \in 1..(10 + n) /\ ~(i <= 5 + n) /\ i - (5 + n) = k
        BY <1>1
    <2> HIDE DEF i
    <2>2. t[i] = z[k]
        BY <1>8, <2>1
    <2> QED  BY <1>3, <2>2 DEF i
<1>11. \A il \in 0..(layers - 1), k \in 1..16 :
          t[5 + 16 * il + k] = <<"enc", il, LayerNames[k]>>
    <2> TAKE il \in 0..(layers - 1), k \in 1..16
    <2> DEFINE j == 16 * il + k
               i == 5 + j
    <2>1. j \in 1..n /\ (j - 1) \div 16 = il /\ ((j - 1) % 16) + 1 = k
        BY DEF n
    <2> HIDE DEF j
    <2>2. i \in 1..(5 + n) /\ i \in 1..(10 + n) /\ i <= 5 + n /\ ~(i <= 5) /\ i - 5 = j
        BY <1>1, <2>1
    <2> HIDE DEF i
    <2>3. t[i] = y[j]
        BY <1>7, <1>8, <2>2
    <2>4. y[j] = <<"enc", il, LayerNames[k]>>
        BY <1>3, <2>1
    <2>5. i = 5 + 16 * il + k
        BY DEF i, j
    <2> QED  BY <2>3, <2>4, <2>5
<1> QED  BY <1>2, <1>6b, <1>9, <1>10, <1>11, Zenon DEF t, xy, n

LEMMA FieldPlaces ==
    /\ \A k \in 1..5 : /\ EmbeddingFields[k] \in Range(EmbeddingFields)
                       /\ (CHOOSE i \in 1..5 : EmbeddingFields[i] = EmbeddingFields[k]) = k
    /\ \A k \in 1..5 : /\ HeadFields[k] \in Range(HeadFields)
                       /\ HeadFields[k] \notin Range(EmbeddingFields)
                       /\ (CHOOSE i \in 1..5 : HeadFields[i] = HeadFields[k]) = k
    /\ \A k \in 1..16 : /\ LayerFields[k] \in Range(LayerFields)
                        /\ (CHOOSE i \in 1..16 : LayerFields[i] = LayerFields[k]) = k
<1>1. /\ DOMAIN EmbeddingFields = 1..5 /\ DOMAIN HeadFields = 1..5 /\ DOMAIN LayerFields = 1..16
      /\ \A i, k \in 1..5 : EmbeddingFields[i] = EmbeddingFields[k] => i = k
      /\ \A i, k \in 1..5 : HeadFields[i] = HeadFields[k] => i = k
      /\ \A i, k \in 1..5 : HeadFields[i] # EmbeddingFields[k]
    BY DEF EmbeddingFields, HeadFields, LayerFields
<1>2. \A i, k \in 1..16 : LayerFields[i] = LayerFields[k] => i = k
    BY DEF LayerFields
<1>3. \A k \in 1..5 : (CHOOSE i \in 1..5 : EmbeddingFields[i] = EmbeddingFields[k]) = k
    BY <1>1
<1>4. \A k \in 1..5 : (CHOOSE i \in 1..5 : HeadFields[i] = HeadFields[k]) = k
    BY <1>1
<1>5. \A k \in 1..16 : (CHOOSE i \in 1..16 : LayerFields[i] = LayerFields[k]) = k
    BY <1>2
<1> QED  BY <1>1, <1>3, <1>4, <1>5 DEF Range

LEMMA WeightsPlaced ==
    ASSUME NEW f, Only(Hparams(f).layer) \in Nat
    PROVE  WeightsInPlace(f)
<1> DEFINE layers == Only(Hparams(f).layer)
           t == RequiredNames(layers)
           w == Bind(t, layers)
<1>1. /\ \A k \in 1..5 : t[k] = Named(EmbeddingNames[k])
      /\ \A k \in 1..5 : t[5 + 16 * layers + k] = Named(HeadNames[k])
      /\ \A il \in 0..(layers - 1), k \in 1..16 :
            t[5 + 16 * il + k] = <<"enc", il, LayerNames[k]>>
    BY NamesPlaced
<1> HIDE DEF t, layers
<1>2. \A k \in 1..5 : w.head[EmbeddingFields[k]] = t[k]
    BY FieldPlaces DEF Bind
<1>3. \A k \in 1..5 : w.head[HeadFields[k]] = t[5 + 16 * layers + k]
    BY FieldPlaces DEF Bind
<1>4. \A il \in 0..(layers - 1), k \in 1..16 : w.layer[il][LayerFields[k]] = t[5 + 16 * il + k]
    BY FieldPlaces DEF Bind
<1> HIDE DEF w
<1>5. /\ \A k \in 1..5 : w.head[EmbeddingFields[k]] = Named(EmbeddingNames[k])
      /\ \A k \in 1..5 : w.head[HeadFields[k]] = Named(HeadNames[k])
      /\ \A il \in 0..(layers - 1), k \in 1..16 :
            w.layer[il][LayerFields[k]] = <<"enc", il, LayerNames[k]>>
    <2>1. \A k \in 1..5 : w.head[EmbeddingFields[k]] = Named(EmbeddingNames[k])
        BY <1>1, <1>2
    <2>2. \A k \in 1..5 : w.head[HeadFields[k]] = Named(HeadNames[k])
        BY <1>1, <1>3
    <2>3. ASSUME NEW il \in 0..(layers - 1), NEW k \in 1..16
          PROVE  w.layer[il][LayerFields[k]] = <<"enc", il, LayerNames[k]>>
        <3>1. t[5 + 16 * il + k] = <<"enc", il, LayerNames[k]>>
            BY <1>1
        <3>2. w.layer[il][LayerFields[k]] = t[5 + 16 * il + k]
            BY <1>4
        <3> QED  BY <3>1, <3>2, Zenon
    <2> QED  BY <2>1, <2>2, <2>3
<1> QED  BY <1>5, Zenon DEF WeightsInPlace, w, t, layers

(* A padded batch is no longer than max_length and holds the tokenizer's   *)
(* ids only.                                                               *)
LEMMA PaddedFacts ==
    ASSUME NEW tk, tk.maxLength \in Nat \ {0}, NEW rows,
           \A b \in DOMAIN rows : rows[b] \in Seq(Ids(tk)) /\ Len(rows[b]) <= tk.maxLength
    PROVE  /\ Padded(tk, rows).seqLen \in Nat /\ Padded(tk, rows).seqLen <= tk.maxLength
           /\ \A b \in DOMAIN Padded(tk, rows).ids :
                 Range(Padded(tk, rows).ids[b]) \subseteq Ids(tk)
<1> DEFINE lens == {0} \cup {Len(rows[b]) : b \in DOMAIN rows}
           max == tk.maxLength
           two == {max, Max(lens)}
           len == Min(two)
           row(b) == [j \in 1..len |-> IF j <= Len(rows[b]) THEN rows[b][j] ELSE tk.pad]
<1>1. lens \in SUBSET Nat /\ lens # {} /\ \A x \in lens : x <= max
    OBVIOUS
<1>2. Max(lens) \in Nat
    <2> HIDE DEF lens
    <2>1. Max(lens) \in lens
        BY <1>1, MaxFacts
    <2> QED  BY <1>1, <2>1
<1> HIDE DEF lens
<1>3. two \in SUBSET Nat /\ two # {} /\ max \in two
    BY <1>2
<1> HIDE DEF two
<1>4. len \in Nat /\ len <= max
    BY <1>3, MinFacts
<1>5. Padded(tk, rows).seqLen = len
    BY DEF Padded, two, lens
<1>6. Padded(tk, rows).ids = [b \in DOMAIN rows |-> row(b)]
    BY DEF Padded, two, lens
<1> HIDE DEF len
<1>7. ASSUME NEW b \in DOMAIN rows
      PROVE  Range(row(b)) \subseteq Ids(tk)
    <2>1. tk.pad \in Ids(tk)
        BY DEF Ids
    <2>2. \A j \in 1..len : row(b)[j] \in Ids(tk)
        <3> DEFINE I == Ids(tk)
        <3>1. rows[b] \in Seq(I) /\ tk.pad \in I
            BY <2>1
        <3> HIDE DEF I
        <3> QED  BY <1>4, <3>1 DEF I
    <2> QED  BY <2>2 DEF Range
<1> HIDE DEF row
<1> QED  BY <1>4, <1>5, <1>6, <1>7

LEMMA BatchFacts ==
    ASSUME NEW tk, tk.maxLength \in Nat \ {0}, NEW texts \in Seq(Text),
           \A word \in WordsOver(Chars) : Subwords(tk, word) \in Seq(Ids(tk))
    PROVE  /\ EncodeBatch(tk, texts).seqLen \in Nat
           /\ EncodeBatch(tk, texts).seqLen <= tk.maxLength
           /\ \A b \in DOMAIN EncodeBatch(tk, texts).ids :
                 Range(EncodeBatch(tk, texts).ids[b]) \subseteq Ids(tk)
<1> DEFINE rows == [b \in DOMAIN texts |-> Encode(tk, texts[b])]
<1>1. ASSUME NEW b \in DOMAIN rows
      PROVE  rows[b] \in Seq(Ids(tk)) /\ Len(rows[b]) <= tk.maxLength
    <2>1. texts[b] \in Text /\ rows[b] = Encode(tk, texts[b])
        OBVIOUS
    <2> QED  BY <2>1, EncodeFacts
<1>2. EncodeBatch(tk, texts) = Padded(tk, rows)
    BY DEF EncodeBatch
<1> HIDE DEF rows
<1> QED  BY <1>1, <1>2, PaddedFacts

-----------------------------------------------------------------------------
(* The pieces of a word cover it from the left.                            *)
KnownPiece(tk, word, s, e) == Piece(tk, word, s, e) \in DOMAIN tk.vocab
NoneLonger(tk, word, s, e) == \A longer \in (e + 1)..Len(word) : ~KnownPiece(tk, word, s, longer)
Spells(tk, word, ids, cut) ==
    /\ cut \in Cuts(Len(ids), word)
    /\ \A k \in 1..Len(ids) :
         /\ KnownPiece(tk, word, cut[k - 1] + 1, cut[k])
         /\ NoneLonger(tk, word, cut[k - 1] + 1, cut[k])
         /\ ids[k] = tk.vocab[Piece(tk, word, cut[k - 1] + 1, cut[k])]
SpellsOut(tk, word, ids) ==
    \/ ids = <<tk.unk>> /\ NoneLonger(tk, word, 1, 0)
    \/ \E cut : /\ Spells(tk, word, ids, cut)
                /\ NoneLonger(tk, word, cut[Len(ids)] + 1, cut[Len(ids)])
Going(tk, word, acc, cut) ==
    /\ acc.start <= Len(word) + 1
    /\ Spells(tk, word, acc.ids, cut) /\ cut[Len(acc.ids)] = acc.start - 1

LEMMA CutGrows ==
    ASSUME NEW C, NEW word \in Seq(C), NEW n \in Nat, NEW cut \in Cuts(n, word),
           NEW e \in 0..Len(word), cut[n] < e
    PROVE  [k \in 0..(n + 1) |-> IF k = n + 1 THEN e ELSE cut[k]] \in Cuts(n + 1, word)
<1> DEFINE g == [k \in 0..(n + 1) |-> IF k = n + 1 THEN e ELSE cut[k]]
<1>1. /\ cut \in [0..n -> 0..Len(word)] /\ cut[0] = 0
      /\ \A k \in 1..n : cut[k - 1] < cut[k]
    BY DEF Cuts
<1>2. g \in [0..(n + 1) -> 0..Len(word)] /\ g[0] = 0
    BY <1>1
<1>3. \A k \in 1..(n + 1) : g[k - 1] < g[k]
    <2> TAKE k \in 1..(n + 1)
    <2>1. CASE k = n + 1
        <3>1. g[n + 1] = e /\ g[n] = cut[n] /\ k - 1 = n
            BY <2>1
        <3> HIDE DEF g
        <3> QED  BY <2>1, <3>1
    <2>2. CASE k # n + 1
        <3>1. k \in 1..n /\ g[k] = cut[k] /\ g[k - 1] = cut[k - 1]
            BY <2>2
        <3> HIDE DEF g
        <3> QED  BY <1>1, <3>1
    <2> QED  BY <2>1, <2>2
<1> HIDE DEF g
<1>4. g \in Cuts(n + 1, word)
    BY <1>2, <1>3 DEF Cuts
<1> QED  BY <1>4 DEF g

LEMMA CutTyped ==
    ASSUME NEW C, NEW word \in Seq(C), NEW n \in Nat, NEW cut \in Cuts(n, word)
    PROVE  /\ \A k \in 0..n : cut[k] \in Nat /\ cut[k] <= Len(word)
           /\ cut[0] = 0 /\ \A k \in 1..n : cut[k - 1] < cut[k]
BY DEF Cuts

LEMMA TakeGoesOn ==
    ASSUME NEW tk, NEW C, NEW word \in Seq(C), NEW acc \in Takes(tk), NEW cut,
           Going(tk, word, acc, cut), acc.start <= Len(word)
    PROVE  LET new == TakePiece(tk, word, acc) IN
           \/ new.start > Len(word) /\ SpellsOut(tk, word, new.ids)
           \/ new.start > acc.start /\ \E g : Going(tk, word, new, g)
<1> DEFINE start == acc.start
           ids == acc.ids
           n == Len(ids)
           end == LongestEnd(tk, word, start)
           new == TakePiece(tk, word, acc)
<1>0. Len(word) \in Nat /\ start \in Nat \ {0} /\ ids \in Seq(Ids(tk)) /\ n \in Nat
    BY DEF Takes
<1>1. /\ Spells(tk, word, ids, cut) /\ cut \in Cuts(n, word) /\ cut[n] = start - 1
      /\ start <= Len(word)
    BY DEF Going, Spells
<1>2. \/ end = 0 /\ \A e \in start..Len(word) : ~KnownPiece(tk, word, start, e)
      \/ /\ end \in start..Len(word) /\ KnownPiece(tk, word, start, end)
         /\ NoneLonger(tk, word, start, end)
    <2> HIDE DEF start
    <2> QED  BY <1>0, LongestEndFacts DEF KnownPiece, NoneLonger
<1>3. CASE end = 0
    <2>0. \A e \in start..Len(word) : ~KnownPiece(tk, word, start, e)
        BY <1>0, <1>2, <1>3
    <2> DEFINE rest == IF ids = <<>> THEN <<tk.unk>> ELSE ids
    <2>1. new.start = Len(word) + 1 /\ new.ids = rest
        <3>1. new = [start |-> Len(word) + 1, ids |-> rest]
            BY <1>0, <1>1, <1>3 DEF TakePiece
        <3> HIDE DEF new, rest
        <3> QED  BY <3>1
    <2>2. CASE ids = <<>>
        <3>1. start = 1
            BY <1>0, <1>1, <2>2, CutTyped
        <3>2. NoneLonger(tk, word, 1, 0)
            BY <2>0, <3>1 DEF NoneLonger
        <3>3. new.start = Len(word) + 1 /\ new.ids = <<tk.unk>>
            BY <2>1, <2>2, Zenon
        <3>4. SpellsOut(tk, word, new.ids)
            BY <3>2, <3>3, Zenon DEF SpellsOut
        <3> HIDE DEF new
        <3>5. new.start > Len(word)
            BY <1>0, <3>3
        <3> QED  BY <3>4, <3>5 DEF new
    <2>3. CASE ids # <<>>
        <3>1. new.start = Len(word) + 1 /\ new.ids = ids
            BY <2>1, <2>3, Zenon
        <3>2. cut[n] + 1 = start
            BY <1>0, <1>1
        <3>3. NoneLonger(tk, word, cut[n] + 1, cut[n])
            BY <2>0, <3>2 DEF NoneLonger
        <3>4. SpellsOut(tk, word, ids)
            BY <1>1, <3>3, Zenon DEF SpellsOut
        <3> HIDE DEF new
        <3>5. new.start > Len(word) /\ SpellsOut(tk, word, new.ids)
            BY <1>0, <3>1, <3>4
        <3> QED  BY <3>5 DEF new
    <2> QED  BY <2>2, <2>3
<1>4. CASE end # 0
    <2> DEFINE id == tk.vocab[Piece(tk, word, start, end)]
               more == Append(ids, id)
               g == [k \in 0..(n + 1) |-> IF k = n + 1 THEN end ELSE cut[k]]
    <2>0. end \in start..Len(word) /\ KnownPiece(tk, word, start, end) /\ NoneLonger(tk, word, start, end)
        BY <1>2, <1>4
    <2>1. new = [start |-> end + 1, ids |-> more]
        BY <1>0, <1>1, <1>4 DEF TakePiece
    <2>2. id \in Ids(tk)
        BY <2>0 DEF KnownPiece, Ids
    <2> HIDE DEF end
    <2>3. g \in Cuts(n + 1, word)
        <3>1. end \in 0..Len(word) /\ cut[n] < end
            BY <1>0, <1>1, <2>0
        <3> HIDE DEF n
        <3> QED  BY <1>0, <1>1, <3>1, CutGrows
    <2>4. Len(more) = n + 1 /\ more[n + 1] = id /\ \A k \in 1..n : more[k] = ids[k]
        <3> HIDE DEF id
        <3> QED  BY <1>0, <2>2
    <2>5. g[n + 1] = end /\ \A k \in 0..n : g[k] = cut[k]
        BY <1>0
    <2> HIDE DEF more, g
    <2>6. ASSUME NEW k \in 1..(n + 1)
          PROVE  /\ KnownPiece(tk, word, g[k - 1] + 1, g[k])
                 /\ NoneLonger(tk, word, g[k - 1] + 1, g[k])
                 /\ more[k] = tk.vocab[Piece(tk, word, g[k - 1] + 1, g[k])]
        <3>1. CASE k = n + 1
            <4>1. g[k] = end /\ g[k - 1] + 1 = start
                <5>1. k - 1 = n /\ n \in 0..n
                    BY <1>0, <3>1
                <5>2. g[k] = end /\ g[k - 1] = cut[n]
                    BY <2>5, <3>1, <5>1
                <5>3. cut[n] + 1 = start
                    BY <1>0, <1>1
                <5> QED  BY <5>2, <5>3
            <4>2. more[k] = id
                BY <2>4, <3>1
            <4> QED  BY <2>0, <4>1, <4>2
        <3>2. CASE k # n + 1
            <4>1. k \in 1..n /\ k \in 0..n /\ k - 1 \in 0..n
                BY <1>0, <3>2
            <4>2. g[k] = cut[k] /\ g[k - 1] = cut[k - 1] /\ more[k] = ids[k]
                BY <2>4, <2>5, <4>1
            <4>3. /\ KnownPiece(tk, word, cut[k - 1] + 1, cut[k])
                  /\ NoneLonger(tk, word, cut[k - 1] + 1, cut[k])
                  /\ ids[k] = tk.vocab[Piece(tk, word, cut[k - 1] + 1, cut[k])]
                BY <1>1, <4>1 DEF Spells
            <4> QED  BY <4>2, <4>3
        <3> QED  BY <3>1, <3>2
    <2>7. Spells(tk, word, more, g)
        BY <2>3, <2>4, <2>6 DEF Spells
    <2>8. new.start = end + 1 /\ new.ids = more
        BY <2>1
    <2> HIDE DEF new
    <2>9. new.start > start /\ new.start <= Len(word) + 1 /\ g[Len(more)] = new.start - 1
        BY <1>0, <2>0, <2>4, <2>5, <2>8
    <2>10. Going(tk, word, new, g)
        BY <2>7, <2>8, <2>9 DEF Going
    <2> QED  BY <2>9, <2>10 DEF new
<1> QED  BY <1>3, <1>4

(* From the left end to the last turn. *)
LEMMA WordPieceSpells ==
    ASSUME NEW tk, NEW C, NEW word \in WordsOver(C)
    PROVE  SpellsOut(tk, word, WordPiece(tk, word))
<1> DEFINE len == Len(word)
<1>0. word \in Seq(C) /\ len \in Nat \ {0}
    BY DEF WordsOver
<1>1. PICK take : /\ Taking(take, tk, word)
                  /\ WordPiece(tk, word) =
                       IF word \in DOMAIN tk.vocab THEN <<tk.vocab[word]>> ELSE take[Len(word)].ids
    BY <1>0, TakeExists
<1>2. CASE word \in DOMAIN tk.vocab
    <2> DEFINE ids == <<tk.vocab[word]>>
               cut == [k \in 0..1 |-> IF k = 0 THEN 0 ELSE len]
    <2>1. WordPiece(tk, word) = ids /\ Len(ids) = 1 /\ ids[1] = tk.vocab[word]
        BY <1>1, <1>2
    <2>2. cut[0] = 0 /\ cut[1] = len /\ cut \in Cuts(1, word)
        BY <1>0 DEF Cuts
    <2>3. Piece(tk, word, 1, len) = word
        BY <1>0 DEF Piece
    <2> HIDE DEF ids, cut, len
    <2>4. KnownPiece(tk, word, 1, len) /\ ids[1] = tk.vocab[Piece(tk, word, 1, len)]
        BY <1>2, <2>1, <2>3 DEF KnownPiece
    <2>5. \A s : NoneLonger(tk, word, s, len)
        BY <1>0 DEF NoneLonger, len
    <2>6. Spells(tk, word, ids, cut)
        <3>1. ASSUME NEW k \in 1..1
              PROVE  /\ KnownPiece(tk, word, cut[k - 1] + 1, cut[k])
                     /\ NoneLonger(tk, word, cut[k - 1] + 1, cut[k])
                     /\ ids[k] = tk.vocab[Piece(tk, word, cut[k - 1] + 1, cut[k])]
            <4>1. k = 1 /\ cut[k - 1] + 1 = 1 /\ cut[k] = len
                BY <2>2
            <4> QED  BY <2>4, <2>5, <4>1
        <3> QED  BY <2>1, <2>2, <3>1 DEF Spells
    <2>7. NoneLonger(tk, word, cut[Len(ids)] + 1, cut[Len(ids)])
        BY <2>1, <2>2, <2>5
    <2> QED  BY <2>1, <2>6, <2>7 DEF SpellsOut
<1>3. CASE word \notin DOMAIN tk.vocab
    <2> DEFINE Goes(k) == take[k].start > k /\ \E cut : Going(tk, word, take[k], cut)
               Done(k) == take[k].start > len /\ SpellsOut(tk, word, take[k].ids)
               B == {k \in 0..len : Goes(k) \/ Done(k)}
    <2>1. /\ take[0] = [start |-> 1, ids |-> <<>>]
          /\ \A k \in 1..len : take[k] = TakePiece(tk, word, take[k - 1])
          /\ \A k \in 0..len : take[k] \in Takes(tk)
        BY <1>1 DEF Taking
    <2>2. \A k \in 0..len : take[k].start \in Nat /\ take[k].ids \in Seq(Ids(tk))
        BY <2>1 DEF Takes
    <2>3. 0 \in B
        <3> DEFINE cut == [k \in 0..0 |-> 0]
                   none == <<>>
        <3>1. take[0].start = 1 /\ take[0].ids = none /\ Len(none) = 0
            BY <2>1
        <3>2. cut[0] = 0 /\ cut \in Cuts(0, word)
            BY <1>0 DEF Cuts
        <3> HIDE DEF cut, none
        <3>3. Spells(tk, word, none, cut)
            BY <3>1, <3>2 DEF Spells
        <3>4. Going(tk, word, take[0], cut)
            BY <1>0, <3>1, <3>2, <3>3 DEF Going
        <3> QED  BY <1>0, <3>1, <3>4
    <2>4. ASSUME NEW k \in 1..len, k - 1 \in B
          PROVE  k \in B
        <3> DEFINE acc == take[k - 1]
                   new == TakePiece(tk, word, acc)
        <3>0. /\ take[k] = new /\ k - 1 \in 0..len /\ acc \in Takes(tk)
              /\ acc.start \in Nat /\ k \in Nat /\ new.start \in Nat
            BY <1>0, <2>1, <2>2
        <3>1. CASE acc.start > len
            <4>1. new = acc
                BY <3>1 DEF TakePiece
            <4>2. SpellsOut(tk, word, acc.ids)
                <5>1. CASE Done(k - 1)
                    BY <5>1
                <5>2. CASE Goes(k - 1)
                    <6>1. PICK cut : Going(tk, word, acc, cut)
                        BY <5>2
                    <6>2. Spells(tk, word, acc.ids, cut) /\ cut[Len(acc.ids)] = acc.start - 1
                        BY <6>1 DEF Going
                    <6>3. NoneLonger(tk, word, cut[Len(acc.ids)] + 1, cut[Len(acc.ids)])
                        BY <1>0, <3>0, <3>1, <6>2 DEF NoneLonger
                    <6> QED  BY <6>2, <6>3 DEF SpellsOut
                <5> QED  BY <2>4, <5>1, <5>2
            <4>3. Done(k)
                BY <3>0, <3>1, <4>1, <4>2
            <4> QED  BY <1>0, <4>3
        <3>2. CASE ~(acc.start > len)
            <4>1. acc.start > k - 1 /\ \E cut : Going(tk, word, acc, cut)
                BY <2>4, <3>2
            <4>2. PICK cut : Going(tk, word, acc, cut)
                BY <4>1
            <4>3. acc.start <= Len(word)
                BY <1>0, <3>0, <3>2
            <4> HIDE DEF acc
            <4>4. \/ new.start > Len(word) /\ SpellsOut(tk, word, new.ids)
                  \/ new.start > acc.start /\ \E g : Going(tk, word, new, g)
                BY <1>0, <3>0, <4>2, <4>3, TakeGoesOn
            <4> HIDE DEF new
            <4>5. Goes(k) \/ Done(k)
                BY <1>0, <3>0, <4>1, <4>4
            <4> HIDE DEF Goes, Done
            <4> QED  BY <1>0, <4>5
        <3> QED  BY <3>1, <3>2
    <2>5. len \in B
        <3> HIDE DEF B, len
        <3>1. \A k \in 0..len : k \in B
            BY <1>0, <2>3, <2>4, Induct
        <3> QED  BY <1>0, <3>1
    <2> DEFINE acc == take[len]
    <2>6. WordPiece(tk, word) = acc.ids
        BY <1>1, <1>3
    <2>7. SpellsOut(tk, word, acc.ids)
        <3>1. CASE Done(len)
            BY <3>1
        <3>2. CASE Goes(len)
            <4>1. PICK cut : Going(tk, word, acc, cut)
                BY <3>2
            <4>2. Spells(tk, word, acc.ids, cut) /\ cut[Len(acc.ids)] = acc.start - 1
                BY <4>1 DEF Going
            <4>3. acc.start \in Nat /\ acc.start > len
                BY <1>0, <2>2, <3>2
            <4>4. NoneLonger(tk, word, cut[Len(acc.ids)] + 1, cut[Len(acc.ids)])
                BY <1>0, <4>2, <4>3 DEF NoneLonger
            <4> QED  BY <4>2, <4>4 DEF SpellsOut
        <3> QED  BY <2>5, <3>1, <3>2
    <2> QED  BY <2>6, <2>7
<1> QED  BY <1>2, <1>3

LEMMA WordPieceCovers ==
    ASSUME NEW tk, NEW C, NEW word \in WordsOver(C)
    PROVE  Covers(tk, word)
<1> DEFINE ids == WordPiece(tk, word)
<1>1. SpellsOut(tk, word, ids)
    BY WordPieceSpells
<1>2. CASE ids = <<tk.unk>> /\ NoneLonger(tk, word, 1, 0)
    BY <1>2, Zenon DEF Covers, NoneLonger, KnownPiece
<1>3. CASE \E cut : /\ Spells(tk, word, ids, cut)
                    /\ NoneLonger(tk, word, cut[Len(ids)] + 1, cut[Len(ids)])
    <2>1. PICK cut : /\ Spells(tk, word, ids, cut)
                     /\ NoneLonger(tk, word, cut[Len(ids)] + 1, cut[Len(ids)])
        BY <1>3
    <2>2. cut \in Cuts(Len(ids), word)
        BY <2>1 DEF Spells
    <2> QED  BY <2>1, <2>2, Zenon DEF Covers, Spells, NoneLonger, KnownPiece
<1> QED  BY <1>1, <1>2, <1>3, Zenon DEF SpellsOut

-----------------------------------------------------------------------------
(* Byte pairs. *)
RanksTyped(tk) == \A p \in DOMAIN tk.ranks : tk.ranks[p] \in Nat
NoPairLeft(tk, s) == \A i \in 1..(Len(s) - 1) : <<s[i], s[i + 1]>> \notin DOMAIN tk.ranks
MergedAt(s, i) ==
    SubSeq(s, 1, i - 1) \o <<s[i] \o s[i + 1]>> \o SubSeq(s, i + 2, Len(s))

LEMMA MergeFacts ==
    ASSUME NEW tk, RanksTyped(tk), NEW W, NEW s \in Seq(W)
    PROVE  \/ NoPairLeft(tk, s) /\ MergeOnce(tk, s) = s
           \/ \E i \in 1..(Len(s) - 1) : MergeOnce(tk, s) = MergedAt(s, i)
<1> DEFINE Pair(i) == <<s[i], s[i + 1]>>
           ranked == {i \in 1..(Len(s) - 1) : Pair(i) \in DOMAIN tk.ranks}
           Best(i) == \A j \in ranked :
                    \/ tk.ranks[Pair(i)] < tk.ranks[Pair(j)]
                    \/ tk.ranks[Pair(i)] = tk.ranks[Pair(j)] /\ i <= j
           best == CHOOSE i \in ranked : Best(i)
<1>0. Len(s) \in Nat
    OBVIOUS
<1>1. MergeOnce(tk, s) = IF ranked = {} THEN s ELSE MergedAt(s, best)
    BY Zenon DEF MergeOnce, MergedAt
<1>2. CASE ranked = {}
    <2>1. MergeOnce(tk, s) = s
        BY <1>1, <1>2, Zenon
    <2>2. NoPairLeft(tk, s)
        BY <1>2 DEF NoPairLeft
    <2> QED  BY <2>1, <2>2
<1>3. CASE ranked # {}
    <2> DEFINE rank(i) == tk.ranks[Pair(i)]
               values == {rank(i) : i \in ranked}
    <2>1. \A i \in ranked : rank(i) \in Nat
        BY DEF RanksTyped
    <2>2. ranked \in SUBSET Nat
        BY <1>0
    <2> HIDE DEF rank, ranked
    <2>3. values \in SUBSET Nat /\ values # {}
        BY <1>3, <2>1
    <2>4. PICK low \in values : \A v \in values : low <= v
        <3> HIDE DEF values
        <3> QED  BY <2>3, Least
    <2> DEFINE first == {i \in ranked : rank(i) = low}
    <2>5. first \in SUBSET Nat /\ first # {}
        BY <2>2, <2>4
    <2>6. PICK i \in first : \A j \in first : i <= j
        <3> HIDE DEF first
        <3> QED  BY <2>5, Least
    <2>7. i \in ranked /\ \A j \in ranked : \/ rank(i) < rank(j)
                                            \/ rank(i) = rank(j) /\ i <= j
        <3>1. i \in ranked /\ rank(i) = low
            OBVIOUS
        <3>2. ASSUME NEW j \in ranked PROVE rank(i) < rank(j) \/ (rank(i) = rank(j) /\ i <= j)
            <4>1. rank(j) \in values /\ rank(j) \in Nat /\ rank(i) \in Nat
                BY <2>1, <3>1
            <4>2. low <= rank(j)
                BY <2>4, <4>1
            <4>3. CASE rank(j) = low
                BY <2>6, <3>1, <4>3
            <4>4. CASE rank(j) # low
                <5> DEFINE x == rank(i)
                           y == rank(j)
                <5>1. x \in Nat /\ y \in Nat /\ x <= y /\ x # y
                    BY <3>1, <4>1, <4>2, <4>4
                <5> HIDE DEF x, y
                <5>2. x < y
                    BY <5>1
                <5> QED  BY <5>2 DEF x, y
            <4> QED  BY <4>3, <4>4
        <3> QED  BY <3>1, <3>2
    <2>8. i \in ranked /\ Best(i)
        BY <2>7, Zenon DEF rank
    <2> HIDE DEF Best
    <2>9. best \in ranked
        BY <2>8
    <2>10. MergeOnce(tk, s) = MergedAt(s, best)
        BY <1>1, <1>3, Zenon
    <2> HIDE DEF best
    <2>11. best \in 1..(Len(s) - 1)
        BY <2>9 DEF ranked
    <2> QED  BY <2>10, <2>11
<1> QED  BY <1>2, <1>3

LEMMA MergedAtFacts ==
    ASSUME NEW C, NEW s \in Seq(Seq(C)), NEW i \in 1..(Len(s) - 1)
    PROVE  LET m == MergedAt(s, i) IN
           /\ m \in Seq(Seq(C)) /\ Len(m) = Len(s) - 1
           /\ m[i] = s[i] \o s[i + 1]
           /\ \A k \in 1..(Len(s) - 1) : (k < i => m[k] = s[k]) /\ (k > i => m[k] = s[k + 1])
<1> DEFINE W == Seq(C)
           n == Len(s)
           w == s[i] \o s[i + 1]
           a == SubSeq(s, 1, i - 1)
           b == <<w>>
           c == SubSeq(s, i + 2, n)
<1>0. n \in Nat /\ i \in 1..n /\ i + 1 \in 1..n /\ s[i] \in W /\ s[i + 1] \in W
    OBVIOUS
<1>1. w \in W
    BY <1>0
<1> HIDE DEF w, W
<1>2. s \in Seq(W)
    BY DEF W
<1> HIDE DEF n
<1>3. a \in Seq(W) /\ Len(a) = i - 1 /\ \A k \in 1..(i - 1) : a[k] = s[k]
    <2>1. 1 \in 1..(n + 1) /\ i - 1 \in 0..n /\ n = Len(s)
        BY <1>0 DEF n
    <2> QED  BY <1>0, <1>2, <2>1, SubSeqProperties, SMTT(20)
<1>4. c \in Seq(W) /\ Len(c) = n - i - 1 /\ \A k \in 1..(n - i - 1) : c[k] = s[i + 1 + k]
    BY <1>0, <1>2, SubSeqProperties, SMTT(20) DEF n
<1>5. b \in Seq(W) /\ Len(b) = 1 /\ b[1] = w
    BY <1>1
<1> DEFINE ab == a \o b
           m == ab \o c
<1>6. MergedAt(s, i) = m
    BY DEF MergedAt, w, n
<1> HIDE DEF a, b, c
<1>7. /\ ab \in Seq(W) /\ Len(ab) = Len(a) + Len(b)
      /\ \A k \in 1..(Len(a) + Len(b)) : ab[k] = IF k <= Len(a) THEN a[k] ELSE b[k - Len(a)]
    <2>1. a \in Seq(W) /\ b \in Seq(W)
        BY <1>3, <1>5
    <2> QED  BY <2>1
<1> HIDE DEF ab
<1>8. /\ m \in Seq(W) /\ Len(m) = Len(ab) + Len(c)
      /\ \A k \in 1..(Len(ab) + Len(c)) : m[k] = IF k <= Len(ab) THEN ab[k] ELSE c[k - Len(ab)]
    <2>1. ab \in Seq(W) /\ c \in Seq(W)
        BY <1>4, <1>7
    <2> QED  BY <2>1
<1> HIDE DEF m
<1>9. Len(ab) = i /\ Len(m) = n - 1
    BY <1>0, <1>3, <1>4, <1>5, <1>7, <1>8
<1>9a. \A k \in 1..i : ab[k] = IF k <= i - 1 THEN a[k] ELSE b[k - (i - 1)]
    <2>1. i \in Nat /\ Len(a) + Len(b) = i /\ Len(a) = i - 1
        BY <1>0, <1>3, <1>5
    <2> QED  BY <1>7, <2>1
<1>10. ASSUME NEW k \in 1..(n - 1)
       PROVE  (k < i => m[k] = s[k]) /\ (k = i => m[k] = w) /\ (k > i => m[k] = s[k + 1])
    <2>1. CASE k < i
        <3>1. k \in 1..(i - 1) /\ k <= i /\ k <= i - 1
            BY <1>0, <2>1
        <3>2. m[k] = ab[k]
            BY <1>0, <1>4, <1>8, <1>9, <3>1
        <3>3. ab[k] = a[k]
            <4>1. k \in 1..i
                BY <1>0, <3>1
            <4> QED  BY <1>9a, <3>1, <4>1
        <3>4. a[k] = s[k]
            BY <1>3, <3>1
        <3> QED  BY <2>1, <3>2, <3>3, <3>4
    <2>2. CASE k = i
        <3>2. m[k] = ab[k]
            BY <1>0, <1>4, <1>8, <1>9, <2>2
        <3>3. ab[k] = b[1]
            <4>1. k \in 1..i /\ ~(k <= i - 1) /\ k - (i - 1) = 1
                BY <1>0, <2>2
            <4> QED  BY <1>9a, <4>1
        <3> QED  BY <1>0, <1>5, <2>2, <3>2, <3>3
    <2>3. CASE k > i
        <3>1. k - i \in 1..(n - i - 1) /\ i + 1 + (k - i) = k + 1 /\ ~(k <= i)
            BY <1>0, <2>3
        <3>2. m[k] = c[k - i] /\ c[k - i] = s[i + 1 + (k - i)]
            BY <1>0, <1>4, <1>8, <1>9, <3>1
        <3>3. m[k] = s[k + 1]
            BY <3>1, <3>2
        <3> QED  BY <1>0, <2>3, <3>3
    <2> QED  BY <1>0, <2>1, <2>2, <2>3
<1>11. m[i] = w
    <2>1. i \in 1..(n - 1)
        BY DEF n
    <2> QED  BY <1>10, <2>1
<1> QED  BY <1>6, <1>8, <1>9, <1>10, <1>11 DEF W, n, w

Segments(word, s, cut) ==
    /\ cut \in Cuts(Len(s), word) /\ cut[Len(s)] = Len(word)
    /\ \A k \in 1..Len(s) : s[k] = SubSeq(word, cut[k - 1] + 1, cut[k])

LEMMA SubSeqJoin ==
    ASSUME NEW C, NEW word \in Seq(C), NEW x \in Nat, NEW y \in Nat, NEW z \in Nat,
           x <= y, y <= z, z <= Len(word)
    PROVE  SubSeq(word, x + 1, y) \o SubSeq(word, y + 1, z) = SubSeq(word, x + 1, z)
<1> DEFINE a == SubSeq(word, x + 1, y)
           b == SubSeq(word, y + 1, z)
           c == SubSeq(word, x + 1, z)
           ab == a \o b
<1>1. a \in Seq(C) /\ Len(a) = y - x /\ \A k \in 1..(y - x) : a[k] = word[x + k]
    BY SubSeqProperties
<1>2. b \in Seq(C) /\ Len(b) = z - y /\ \A k \in 1..(z - y) : b[k] = word[y + k]
    BY SubSeqProperties
<1>3. c \in Seq(C) /\ Len(c) = z - x /\ \A k \in 1..(z - x) : c[k] = word[x + k]
    BY SubSeqProperties
<1> HIDE DEF a, b, c
<1>4. /\ ab \in Seq(C) /\ Len(ab) = Len(a) + Len(b)
      /\ \A k \in 1..(Len(a) + Len(b)) : ab[k] = IF k <= Len(a) THEN a[k] ELSE b[k - Len(a)]
    <2>1. a \in Seq(C) /\ b \in Seq(C)
        BY <1>1, <1>2
    <2> QED  BY <2>1
<1> HIDE DEF ab
<1>5. Len(ab) = Len(c) /\ Len(ab) = z - x
    BY <1>1, <1>2, <1>3, <1>4
<1>6. ASSUME NEW k \in 1..(z - x) PROVE ab[k] = c[k]
    <2>1. c[k] = word[x + k] /\ k \in Nat
        BY <1>3
    <2>2. CASE k <= y - x
        <3>1. ab[k] = a[k]
            BY <1>1, <1>2, <1>4, <2>2
        <3>2. a[k] = word[x + k]
            BY <1>1, <2>2
        <3> QED  BY <2>1, <3>1, <3>2
    <2>3. CASE ~(k <= y - x)
        <3>1. k - (y - x) \in 1..(z - y) /\ y + (k - (y - x)) = x + k
            BY <2>3
        <3>2. ab[k] = b[k - (y - x)]
            BY <1>1, <1>2, <1>4, <2>3
        <3>3. b[k - (y - x)] = word[y + (k - (y - x))]
            BY <1>2, <3>1
        <3> QED  BY <2>1, <3>1, <3>2, <3>3
    <2> QED  BY <2>2, <2>3
<1>7. ab = c
    <2>1. ab = [k \in 1..Len(ab) |-> ab[k]] /\ c = [k \in 1..Len(c) |-> c[k]]
        BY <1>3, <1>4
    <2> QED  BY <1>5, <1>6, <2>1
<1> QED  BY <1>7 DEF ab, a, b, c

LEMMA MergeCut ==
    ASSUME NEW C, NEW word \in Seq(C), NEW s \in Seq(Seq(C)), NEW cut, Segments(word, s, cut),
           NEW i \in 1..(Len(s) - 1)
    PROVE  \E g : Segments(word, MergedAt(s, i), g)
<1> DEFINE n == Len(s)
           m == MergedAt(s, i)
           g == [k \in 0..(n - 1) |-> IF k < i THEN cut[k] ELSE cut[k + 1]]
<1>0. n \in Nat /\ n - 1 \in Nat /\ i \in Nat /\ Len(word) \in Nat
    OBVIOUS
<1>1. /\ m \in Seq(Seq(C)) /\ Len(m) = n - 1
      /\ m[i] = s[i] \o s[i + 1]
      /\ \A k \in 1..(n - 1) : (k < i => m[k] = s[k]) /\ (k > i => m[k] = s[k + 1])
    BY MergedAtFacts
<1> HIDE DEF n, m
<1>2. /\ cut[0] = 0 /\ cut[n] = Len(word)
      /\ \A k \in 0..n : cut[k] \in Nat /\ cut[k] <= Len(word)
      /\ \A k \in 1..n : cut[k - 1] < cut[k]
    <2>1. cut \in Cuts(n, word) /\ cut[n] = Len(word)
        BY DEF Segments, n
    <2> QED  BY <1>0, <2>1, CutTyped
<1>3. \A k \in 1..n : s[k] = SubSeq(word, cut[k - 1] + 1, cut[k])
    BY DEF Segments, n
<1>4. i \in 1..(n - 1)
    BY DEF n
<1>5. \A k \in 0..(n - 1) : g[k] = IF k < i THEN cut[k] ELSE cut[k + 1]
    OBVIOUS
<1>6. g \in [0..(n - 1) -> 0..Len(word)]
    <2>1. \A k \in 0..(n - 1) : k \in 0..n /\ k + 1 \in 0..n
        BY <1>0
    <2>2. \A k \in 0..n : cut[k] \in 0..Len(word)
        BY <1>0, <1>2
    <2> QED  BY <2>1, <2>2
<1> HIDE DEF g
<1>7. g[0] = 0 /\ g[n - 1] = Len(word)
    <2>1. 0 \in 0..(n - 1) /\ n - 1 \in 0..(n - 1) /\ 0 < i /\ ~(n - 1 < i) /\ (n - 1) + 1 = n
        BY <1>0, <1>4
    <2> QED  BY <1>2, <1>5, <2>1
<1>8. ASSUME NEW k \in 1..(n - 1) PROVE g[k - 1] < g[k]
    <2>0. k \in 0..(n - 1) /\ k - 1 \in 0..(n - 1) /\ k \in 1..n /\ k + 1 \in 1..n /\ (k + 1) - 1 = k
            /\ k \in 0..n /\ k - 1 \in 0..n /\ k + 1 \in 0..n /\ (k - 1) + 1 = k
        BY <1>0
    <2>1. CASE k < i
        <3>0. k - 1 < i
            BY <1>0, <2>1
        <3>1. g[k] = cut[k] /\ g[k - 1] = cut[k - 1]
            BY <1>5, <2>0, <2>1, <3>0
        <3> QED  BY <1>2, <2>0, <3>1
    <2>2. CASE k = i
        <3>1. g[k] = cut[k + 1] /\ g[k - 1] = cut[k - 1]
            BY <1>0, <1>5, <2>0, <2>2
        <3>2. cut[k - 1] < cut[k] /\ cut[k] < cut[k + 1]
            BY <1>2, <2>0
        <3>3. cut[k - 1] \in Nat /\ cut[k] \in Nat /\ cut[k + 1] \in Nat
            BY <1>2, <2>0
        <3> QED  BY <3>1, <3>2, <3>3
    <2>3. CASE k > i
        <3>1. g[k] = cut[k + 1] /\ g[k - 1] = cut[(k - 1) + 1]
            BY <1>0, <1>5, <2>0, <2>3
        <3>2. cut[k] < cut[k + 1]
            BY <1>2, <2>0
        <3> QED  BY <2>0, <3>1, <3>2
    <2> QED  BY <1>0, <2>1, <2>2, <2>3
<1>9. g \in Cuts(n - 1, word)
    BY <1>6, <1>7, <1>8 DEF Cuts
<1>10. ASSUME NEW k \in 1..(n - 1) PROVE m[k] = SubSeq(word, g[k - 1] + 1, g[k])
    <2>0. k \in 0..(n - 1) /\ k - 1 \in 0..(n - 1) /\ k \in 1..n /\ k + 1 \in 1..n /\ (k + 1) - 1 = k
            /\ k \in 0..n /\ k - 1 \in 0..n /\ k + 1 \in 0..n /\ (k - 1) + 1 = k
        BY <1>0
    <2>1. CASE k < i
        <3>0. k - 1 < i
            BY <1>0, <2>1
        <3>1. g[k] = cut[k] /\ g[k - 1] = cut[k - 1]
            BY <1>5, <2>0, <2>1, <3>0
        <3>2. m[k] = s[k]
            BY <1>1, <2>1
        <3>3. s[k] = SubSeq(word, cut[k - 1] + 1, cut[k])
            BY <1>3, <2>0
        <3> QED  BY <3>1, <3>2, <3>3
    <2>2. CASE k = i
        <3>1. g[k] = cut[k + 1] /\ g[k - 1] = cut[k - 1]
            BY <1>0, <1>5, <2>0, <2>2
        <3>2. m[k] = s[k] \o s[k + 1]
            BY <1>1, <2>2, Zenon
        <3>3. /\ s[k] = SubSeq(word, cut[k - 1] + 1, cut[k])
              /\ s[k + 1] = SubSeq(word, cut[k] + 1, cut[k + 1])
            BY <1>3, <2>0
        <3>4. /\ cut[k - 1] \in Nat /\ cut[k] \in Nat /\ cut[k + 1] \in Nat
              /\ cut[k + 1] <= Len(word)
            BY <1>2, <2>0
        <3>5. cut[k - 1] < cut[k] /\ cut[k] < cut[k + 1]
            BY <1>2, <2>0
        <3> DEFINE x == cut[k - 1]
                   y == cut[k]
                   z == cut[k + 1]
        <3>6. x \in Nat /\ y \in Nat /\ z \in Nat /\ x <= y /\ y <= z /\ z <= Len(word)
            BY <3>4, <3>5
        <3> HIDE DEF x, y, z
        <3>7. SubSeq(word, x + 1, y) \o SubSeq(word, y + 1, z) = SubSeq(word, x + 1, z)
            BY <3>6, SubSeqJoin
        <3> QED  BY <3>1, <3>2, <3>3, <3>7 DEF x, y, z
    <2>3. CASE k > i
        <3>1. g[k] = cut[k + 1] /\ g[k - 1] = cut[k]
            BY <1>0, <1>5, <2>0, <2>3
        <3>2. m[k] = s[k + 1]
            BY <1>0, <1>1, <2>3
        <3>3. s[k + 1] = SubSeq(word, cut[k] + 1, cut[k + 1])
            BY <1>3, <2>0
        <3> QED  BY <3>1, <3>2, <3>3
    <2> QED  BY <1>0, <2>1, <2>2, <2>3
<1>11. Segments(word, m, g)
    BY <1>1, <1>7, <1>9, <1>10 DEF Segments
<1> QED  BY <1>11 DEF m

IsMerged(merged, tk, word) ==
    merged = [n \in 0..Len(word) |->
                IF n = 0 THEN [i \in DOMAIN word |-> <<word[i]>>] ELSE MergeOnce(tk, merged[n - 1])]

Merging(merged, tk, word, S) ==
    /\ merged[0] = [i \in DOMAIN word |-> <<word[i]>>]
    /\ \A k \in 1..Len(word) : merged[k] = MergeOnce(tk, merged[k - 1])
    /\ \A k \in 0..Len(word) : merged[k] \in S
    /\ BPESymbols(tk, word) = merged[Len(word)]

LEMMA NoMerge ==
    ASSUME NEW tk, NEW W, NEW s \in Seq(W), NoPairLeft(tk, s)
    PROVE  MergeOnce(tk, s) = s
<1> DEFINE ranked == {i \in 1..(Len(s) - 1) : <<s[i], s[i + 1]>> \in DOMAIN tk.ranks}
<1>1. ranked = {}
    BY DEF NoPairLeft
<1> QED  BY <1>1, Zenon DEF MergeOnce

LEMMA MergeTyped ==
    ASSUME NEW tk, RanksTyped(tk), NEW C, NEW s \in Seq(Seq(C))
    PROVE  MergeOnce(tk, s) \in Seq(Seq(C))
<1>1. CASE MergeOnce(tk, s) = s
    BY <1>1
<1>2. CASE \E i \in 1..(Len(s) - 1) : MergeOnce(tk, s) = MergedAt(s, i)
    BY <1>2, MergedAtFacts
<1> QED  BY <1>1, <1>2, MergeFacts

LEMMA MergedExists ==
    ASSUME NEW tk, RanksTyped(tk), NEW C, NEW word \in Seq(C)
    PROVE  \E merged : Merging(merged, tk, word, Seq(Seq(C)))
<1> DEFINE len == Len(word)
           S == Seq(Seq(C))
           base == [i \in DOMAIN word |-> <<word[i]>>]
           f == [k \in 1..len |-> [s \in S |-> MergeOnce(tk, s)]]
           merged == CHOOSE t : IsMerged(t, tk, word)
<1>0. len \in Nat
    OBVIOUS
<1>1. base \in S
    <2> DEFINE W == Seq(C)
    <2>1. DOMAIN word = 1..len
        OBVIOUS
    <2>2. \A i \in 1..len : <<word[i]>> \in W
        OBVIOUS
    <2> HIDE DEF W
    <2> QED  BY <1>0, <2>1, <2>2 DEF W
<1>2. f \in [1..len -> [S -> S]]
    <2>1. \A s \in S : MergeOnce(tk, s) \in S
        BY MergeTyped
    <2> HIDE DEF S, len
    <2> QED  BY <2>1
<1> HIDE DEF base
<1>3. PICK r : Looped(r, S, base, len, f)
    <2> HIDE DEF S, f, len
    <2> QED  BY <1>0, <1>1, <1>2, LoopExists
<1>4. IsMerged(r, tk, word)
    <2> HIDE DEF S
    <2>1. \A k \in 0..len : r[k] = IF k = 0 THEN base ELSE MergeOnce(tk, r[k - 1])
        <3> HIDE DEF len
        <3> TAKE k \in 0..len
        <3>1. CASE k = 0
            BY <3>1, <1>3 DEF Looped
        <3>2. CASE k # 0
            <4>1. k \in 1..len /\ r[k - 1] \in S
                <5> HIDE DEF f
                <5> QED  BY <3>2, <1>0, <1>3 DEF Looped
            <4>2. f[k][r[k - 1]] = MergeOnce(tk, r[k - 1])
                BY <4>1
            <4> HIDE DEF f
            <4> QED  BY <3>2, <4>1, <4>2, <1>3 DEF Looped
        <3> QED  BY <3>1, <3>2
    <2>2. r = [k \in 0..len |-> r[k]]
        BY <1>3 DEF Looped
    <2>3. r = [k \in 0..len |-> IF k = 0 THEN base ELSE MergeOnce(tk, r[k - 1])]
        BY <2>1, <2>2
    <2> QED  BY <2>3, Zenon DEF IsMerged, base
<1>5. IsMerged(merged, tk, word)
    BY <1>4, Zenon
<1>6. BPESymbols(tk, word) = merged[len]
    BY Zenon DEF BPESymbols, IsMerged
<1> HIDE DEF merged, f
<1>7. merged[0] = base /\ \A k \in 1..len : merged[k] = MergeOnce(tk, merged[k - 1])
    <2>1. \A k \in 0..len : merged[k] = IF k = 0 THEN base ELSE MergeOnce(tk, merged[k - 1])
        <3>1. merged = [k \in 0..len |-> IF k = 0 THEN base ELSE MergeOnce(tk, merged[k - 1])]
            BY <1>5, Zenon DEF IsMerged, base
        <3> QED  BY <3>1, Zenon
    <2> QED  BY <1>0, <2>1
<1>8. \A k \in 0..len : merged[k] \in S
    <2>1. \A k \in 1..len : merged[k - 1] \in S => merged[k] \in S
        BY <1>0, <1>7, MergeTyped
    <2> HIDE DEF S, len
    <2> QED  BY <1>0, <1>1, <1>7, <2>1, LoopTyped
<1>9. Merging(merged, tk, word, S)
    BY <1>6, <1>7, <1>8, Zenon DEF base, Merging
<1> QED  BY <1>9, Zenon

LEMMA BPEFacts ==
    ASSUME NEW tk, RanksTyped(tk), NEW C, NEW word \in Seq(C)
    PROVE  /\ Merged(tk, word)
           /\ BPE(tk, word) \in Seq(Ids(tk))
<1> DEFINE len == Len(word)
           S == Seq(Seq(C))
           base == [i \in DOMAIN word |-> <<word[i]>>]
           s == BPESymbols(tk, word)
<1>0. len \in Nat /\ DOMAIN word = 1..len
    OBVIOUS
<1>1. PICK merged : /\ merged[0] = base
                    /\ \A k \in 1..len : merged[k] = MergeOnce(tk, merged[k - 1])
                    /\ \A k \in 0..len : merged[k] \in S
                    /\ s = merged[len]
    <2>1. PICK m : Merging(m, tk, word, S)
        BY MergedExists, Zenon
    <2> QED  BY <2>1, Zenon DEF Merging
<1> DEFINE Cut(k) == \E cut : Segments(word, merged[k], cut)
           Fewer(k) == NoPairLeft(tk, merged[k]) \/ Len(merged[k]) <= len - k
           B == {k \in 0..len : Cut(k) /\ Fewer(k)}
<1>2. 0 \in B
    <2> DEFINE cut == [k \in 0..len |-> k]
    <2>1. Len(base) = len /\ \A i \in 1..len : base[i] = <<word[i]>>
        BY <1>0
    <2>2. cut \in Cuts(len, word) /\ cut[len] = len /\ \A k \in 0..len : cut[k] = k
        BY <1>0 DEF Cuts
    <2> HIDE DEF base, cut
    <2>3. ASSUME NEW k \in 1..len PROVE base[k] = SubSeq(word, cut[k - 1] + 1, cut[k])
        <3>1. cut[k - 1] + 1 = k /\ cut[k] = k
            <4>1. k - 1 \in 0..len /\ k \in 0..len /\ (k - 1) + 1 = k
                BY <1>0
            <4> QED  BY <2>2, <4>1
        <3>2. SubSeq(word, k, k) = <<word[k]>>
            <4> DEFINE u == SubSeq(word, k, k)
                       v == <<word[k]>>
            <4>1. u \in Seq(C) /\ Len(u) = 1 /\ u[1] = word[k]
                BY <1>0, SubSeqProperties
            <4>2. v \in Seq(C) /\ Len(v) = 1 /\ v[1] = word[k]
                BY <1>0
            <4> HIDE DEF u, v
            <4>3. u = [j \in 1..1 |-> u[j]] /\ v = [j \in 1..1 |-> v[j]]
                BY <4>1, <4>2
            <4>4. \A j \in 1..1 : u[j] = v[j]
                BY <4>1, <4>2
            <4>5. u = v
                BY <4>3, <4>4
            <4> QED  BY <4>5 DEF u, v
        <3>3. base[k] = <<word[k]>>
            BY <2>1
        <3> QED  BY <3>1, <3>2, <3>3
    <2>4. Segments(word, base, cut)
        BY <2>1, <2>2, <2>3 DEF Segments
    <2>5. Cut(0)
        BY <1>1, <2>4
    <2>6. Fewer(0)
        BY <1>0, <1>1, <2>1
    <2> HIDE DEF Cut, Fewer
    <2> QED  BY <1>0, <2>5, <2>6
<1>3. ASSUME NEW k \in 1..len, k - 1 \in B PROVE k \in B
    <2> DEFINE old == merged[k - 1]
               new == merged[k]
    <2>0. new = MergeOnce(tk, old) /\ old \in S /\ k \in Nat /\ k \in 0..len /\ Len(old) \in Nat
        BY <1>0, <1>1
    <2>1. PICK cut : Segments(word, old, cut)
        BY <1>3
    <2>2. Fewer(k - 1)
        BY <1>3
    <2> HIDE DEF old, new
    <2>3. \/ NoPairLeft(tk, old) /\ new = old
          \/ \E i \in 1..(Len(old) - 1) : new = MergedAt(old, i)
        BY <2>0, MergeFacts
    <2>4. CASE NoPairLeft(tk, old) /\ new = old
        <3>1. Cut(k) /\ Fewer(k)
            BY <2>1, <2>4 DEF new
        <3> HIDE DEF Cut, Fewer
        <3> QED  BY <2>0, <3>1
    <2>5. CASE ~(NoPairLeft(tk, old) /\ new = old)
        <3>1. PICK i \in 1..(Len(old) - 1) : new = MergedAt(old, i)
            BY <2>3, <2>5
        <3>2. \E g : Segments(word, new, g)
            BY <2>0, <2>1, <3>1, MergeCut
        <3>3. Len(new) = Len(old) - 1
            BY <2>0, <3>1, MergedAtFacts
        <3>4. CASE NoPairLeft(tk, old)
            <4>1. MergeOnce(tk, old) = old
                BY <2>0, <3>4, NoMerge
            <4> QED  BY <2>0, <2>5, <3>4, <4>1
        <3>5. CASE Len(old) <= len - (k - 1)
            <4>1. Len(new) <= len - k
                BY <1>0, <2>0, <3>3, <3>5
            <4>2. Cut(k) /\ Fewer(k)
                BY <3>2, <4>1 DEF new
            <4> HIDE DEF Cut, Fewer
            <4> QED  BY <2>0, <4>2
        <3> QED  BY <2>2, <3>4, <3>5 DEF old
    <2> QED  BY <2>4, <2>5
<1>4. len \in B
    <2> HIDE DEF B, len
    <2>1. \A k \in 0..len : k \in B
        BY <1>0, <1>2, <1>3, Induct
    <2> QED  BY <1>0, <2>1
<1>5. s \in S /\ Cut(len) /\ Fewer(len)
    BY <1>0, <1>1, <1>4
<1>6. PICK cut : Segments(word, s, cut)
    BY <1>1, <1>5
<1>7. NoPairLeft(tk, s)
    <2>1. NoPairLeft(tk, merged[len]) \/ Len(merged[len]) <= 0
        BY <1>0, <1>5
    <2>2. NoPairLeft(tk, s) \/ Len(s) <= 0
        BY <1>1, <2>1
    <2> HIDE DEF s
    <2>3. CASE Len(s) <= 0
        <3>1. Len(s) \in Nat
            BY <1>5
        <3> QED  BY <2>3, <3>1 DEF NoPairLeft
    <2> QED  BY <2>2, <2>3
<1>8. Merged(tk, word)
    <2>1. /\ cut \in Cuts(Len(s), word) /\ cut[Len(s)] = Len(word)
          /\ \A k \in 1..Len(s) : s[k] = SubSeq(word, cut[k - 1] + 1, cut[k])
        BY <1>6, Zenon DEF Segments
    <2>2. \A i \in 1..(Len(s) - 1) : <<s[i], s[i + 1]>> \notin DOMAIN tk.ranks
        BY <1>7, Zenon DEF NoPairLeft
    <2> QED  BY <2>1, <2>2, Zenon DEF Merged
<1>9. BPE(tk, word) \in Seq(Ids(tk))
    <2> DEFINE I == Ids(tk)
               Id(i) == IF s[i] \in DOMAIN tk.vocab THEN tk.vocab[s[i]] ELSE tk.unk
    <2>1. BPE(tk, word) = [i \in DOMAIN s |-> Id(i)]
        BY Zenon DEF BPE
    <2>2. \A i \in DOMAIN s : Id(i) \in I
        BY DEF Ids
    <2>3. DOMAIN s = 1..Len(s) /\ Len(s) \in Nat
        BY <1>5
    <2> HIDE DEF s, I, Id
    <2>4. [i \in DOMAIN s |-> Id(i)] \in Seq(I)
        BY <2>2, <2>3
    <2> QED  BY <2>1, <2>4 DEF I
<1> QED  BY <1>8, <1>9

LEMMA BlobFacts ==
    ASSUME NEW name \in DOMAIN JsonFiles, NEW request
    PROVE  LET tk == LoadFromBlob(JsonFiles[name], request) IN
           tk.maxLength = request /\ (tk.type = "WORDPIECE" \/ RanksTyped(tk))
<1> DEFINE json == JsonFiles[name]
           new == [NewTokenizer EXCEPT !.maxLength = request]
           model == json.model
           vocab == IF model = {} THEN <<>> ELSE StoreTokens(Given(model, {}).vocab, <<>>)
           m == Given(model, {})
           pairs == m.type \in {"BPE", "bpe"}
           ranks == [p \in Range(m.merges) |-> Max({i \in DOMAIN m.merges : m.merges[i] = p})]
           read == [new EXCEPT
                    !.type = IF m.type \in {"BPE", "bpe"} THEN "BPE" ELSE "WORDPIECE",
                    !.ranks = IF m.type \in {"BPE", "bpe"}
                              THEN [p \in Range(m.merges) |->
                                        Max({i \in DOMAIN m.merges : m.merges[i] = p})]
                              ELSE <<>>,
                    !.prefix = Given(m.prefix, HashHash),
                    !.unk = IF m.unk # {} /\ Given(m.unk, <<>>) \in DOMAIN vocab
                            THEN vocab[Given(m.unk, <<>>)] ELSE @]
           typed == IF model = {} THEN new ELSE read
           tk == LoadFromBlob(json, request)
<1>1. tk = [typed EXCEPT
          !.vocab = StoreTokens(json.added, vocab),
          !.lower = Lowercases(json.normalizer),
          !.cls = AddedId(json.added, {CLS, BOS}, @),
          !.sep = AddedId(json.added, {SEP, EOS}, @),
          !.pad = Given(json.padId, AddedId(json.added, {PAD, <<60, 112, 97, 100, 62>>}, @)),
          !.unk = AddedId(json.added, {UNK, <<60, 117, 110, 107, 62>>}, @)]
    BY Zenon DEF LoadFromBlob
<1>2. \A field \in {"type", "maxLength", "ranks"} :
          field \in DOMAIN typed => tk[field] = typed[field]
    <2> HIDE DEF typed, vocab, tk, json
    <2> QED  BY <1>1
<1>3. /\ {"type", "maxLength", "ranks"} \subseteq DOMAIN new
      /\ new.type = "WORDPIECE" /\ new.maxLength = request
    BY DEF NewTokenizer
<1> HIDE DEF new, tk
<1>4. CASE model = {}
    <2>1. typed = new
        BY <1>4, Zenon
    <2> HIDE DEF typed
    <2>2. tk.type = "WORDPIECE" /\ tk.maxLength = request
        BY <1>2, <1>3, <2>1
    <2> QED  BY <2>2 DEF tk
<1>5. CASE model # {}
    <2>1. typed = read
        BY <1>5, Zenon
    <2>2. PICK x, y : read = [new EXCEPT !.type = IF pairs THEN "BPE" ELSE "WORDPIECE",
                                         !.ranks = IF pairs THEN ranks ELSE <<>>,
                                         !.prefix = x, !.unk = y]
        BY Zenon
    <2>3. m \in model
        BY <1>5 DEF Given
    <2>4. m.merges \in Seq(Seq(Nat) \X Seq(Nat))
        BY <2>3, JsonAssumption
    <2>5. \A p \in DOMAIN ranks : ranks[p] \in Nat
        <3> TAKE p \in DOMAIN ranks
        <3> DEFINE merges == m.merges
                   T == Seq(Nat) \X Seq(Nat)
                   same == {i \in DOMAIN merges : merges[i] = p}
        <3>1. merges \in Seq(T)
            BY <2>4
        <3>2. p \in Range(merges) /\ ranks[p] = Max(same)
            OBVIOUS
        <3> HIDE DEF merges, T, ranks
        <3>3. DOMAIN merges = 1..Len(merges) /\ Len(merges) \in Nat
            BY <3>1
        <3>4. same \in SUBSET Nat /\ same # {} /\ \A i \in same : i <= Len(merges)
            BY <3>2, <3>3 DEF Range
        <3> HIDE DEF same
        <3>5. Max(same) \in same
            BY <3>3, <3>4, MaxFacts
        <3> QED  BY <3>2, <3>4, <3>5
    <2> HIDE DEF typed, read, ranks
    <2>6. CASE pairs
        <3>1. read = [new EXCEPT !.type = "BPE", !.ranks = ranks, !.prefix = x, !.unk = y]
            BY <2>2, <2>6
        <3>2. tk.ranks = ranks /\ tk.maxLength = request
            BY <1>2, <1>3, <2>1, <3>1
        <3> QED  BY <2>5, <3>2 DEF RanksTyped, tk
    <2>7. CASE ~pairs
        <3> DEFINE none == <<>>
        <3>1. read = [new EXCEPT !.type = "WORDPIECE", !.ranks = none, !.prefix = x, !.unk = y]
            BY <2>2, <2>7, Zenon
        <3> HIDE DEF none
        <3>2. tk.type = "WORDPIECE" /\ tk.maxLength = request
            BY <1>2, <1>3, <2>1, <3>1
        <3> QED  BY <3>2 DEF tk
    <2> QED  BY <2>6, <2>7
<1> QED  BY <1>4, <1>5

-----------------------------------------------------------------------------
(* The inductive invariant: an open handle holds what its file gave it, a  *)
(* call under way has an open handle and texts, and ONNX Runtime's objects *)
(* are balanced.                                                           *)
GgufFields == {"backend", "file", "tok", "vocabSize", "positions"}
HoldsGguf(h) ==
    /\ GgufFields \subseteq DOMAIN h /\ h.backend = "gguf"
    /\ h.file \in DOMAIN GgufFiles
    /\ \E request \in Requests, memory \in BOOLEAN :
       \E s \in LoadSession(GgufFiles[h.file], request, memory) :
          h.tok = s.tok /\ h.vocabSize = s.vocabSize /\ h.positions = s.positions
HoldsOnnx(h) ==
    /\ {"backend", "file", "tok"} \subseteq DOMAIN h /\ h.backend = "onnx"
    /\ h.file \in DOMAIN JsonFiles
    /\ \E request \in Requests : request > 0 /\ h.tok = LoadFromBlob(JsonFiles[h.file], request)
HandleHolds == handle = Closed \/ HoldsGguf(handle) \/ HoldsOnnx(handle)

CallFields == {"at", "texts"}
CallHolds ==
    \/ call = Idle
    \/ /\ handle # Closed
       /\ CallFields \subseteq DOMAIN call /\ call.at # "idle" /\ call.texts \in TextLists

SparseInv == throws \in Nat /\ HandleHolds /\ CallHolds /\ OrtBalanced

(* What an action does not replace, it keeps. *)
LEMMA HandleKept ==
    ASSUME NEW h, HoldsGguf(h) \/ HoldsOnnx(h), NEW g, DOMAIN g = DOMAIN h,
           \A field \in GgufFields \cap DOMAIN h : g[field] = h[field]
    PROVE  /\ HoldsGguf(g) \/ HoldsOnnx(g)
           /\ HoldsGguf(h) => HoldsGguf(g)
           /\ g # Closed /\ g.backend = h.backend
<1>1. "backend" \in DOMAIN h /\ h.backend # "none"
    BY DEF HoldsGguf, HoldsOnnx, GgufFields
<1>2. g.backend = h.backend
    BY <1>1 DEF GgufFields
<1>3. g # Closed
    BY <1>1, <1>2 DEF Closed
<1>4. ASSUME HoldsGguf(h) PROVE HoldsGguf(g)
    <2>1. \A field \in GgufFields : g[field] = h[field]
        BY <1>4 DEF HoldsGguf
    <2>2. g.backend = h.backend /\ g.file = h.file /\ g.tok = h.tok
            /\ g.vocabSize = h.vocabSize /\ g.positions = h.positions
        BY <2>1 DEF GgufFields
    <2> QED  BY <1>4, <2>2 DEF HoldsGguf
<1>5. ASSUME HoldsOnnx(h) PROVE HoldsOnnx(g)
    <2>2. g.backend = h.backend /\ g.file = h.file /\ g.tok = h.tok
        BY <1>5 DEF HoldsOnnx, GgufFields
    <2> QED  BY <1>5, <2>2 DEF HoldsOnnx
<1> QED  BY <1>2, <1>3, <1>4, <1>5

LEMMA OnnxLeaves ==
    /\ LET steps == LoadSteps(0, "none", OnnxInputs, 1) IN
       Held(steps, Len(steps)) = {<<"session">>}
    /\ LET steps == RunSteps(OnnxInputs, 1) IN Held(steps, Len(steps)) = {}
<1>1. OnnxInputs \in Seq(InputNames)
    BY DEF OnnxInputs, InputNames
<1>2. All(LoadSteps(0, "none", OnnxInputs, 1)) = {<<"session">>}
    BY <1>1, LoadLeavesSession
<1>3. All(RunSteps(OnnxInputs, 1)) = {}
    BY <1>1, RunLeavesNothing
<1> QED  BY <1>2, <1>3, Zenon DEF All

LEMMA SparseInit == Init => SparseInv
BY DEF Init, SparseInv, HandleHolds, CallHolds, OrtBalanced, Closed

(* An action that leaves the runtime's objects and the handle's fields.    *)
LEMMA QuietKept ==
    ASSUME SparseInv, ort' = ort, throws' \in Nat, throws' >= throws,
           \/ handle' = handle
           \/ /\ handle # Closed /\ DOMAIN handle' = DOMAIN handle
              /\ \A field \in GgufFields \cap DOMAIN handle : handle'[field] = handle[field],
           CallHolds'
    PROVE  SparseInv'
<1>1. CASE handle' = handle
    BY <1>1 DEF SparseInv, HandleHolds, HoldsGguf, HoldsOnnx, OrtBalanced
<1>2. CASE ~(handle' = handle)
    <2>1. HoldsGguf(handle) \/ HoldsOnnx(handle)
        BY <1>2 DEF SparseInv, HandleHolds
    <2>2. /\ HoldsGguf(handle') \/ HoldsOnnx(handle')
          /\ handle' # Closed /\ handle'.backend = handle.backend
        BY <1>2, <2>1, HandleKept
    <2>3. HandleHolds'
        BY <2>2 DEF HandleHolds, HoldsGguf, HoldsOnnx
    <2>4. OrtBalanced'
        BY <1>2, <2>2 DEF SparseInv, OrtBalanced
    <2> QED  BY <2>3, <2>4 DEF SparseInv
<1> QED  BY <1>1, <1>2

(* A call under way that keeps its texts stays one. *)
LEMMA CallKept ==
    ASSUME SparseInv, call.at # "idle", handle' # Closed,
           DOMAIN call' = DOMAIN call, call'.at # "idle", call'.texts = call.texts
    PROVE  CallHolds'
<1>1. call # Idle
    BY DEF Idle
<1> QED  BY <1>1 DEF SparseInv, CallHolds

LEMMA InCall ==
    ASSUME SparseInv, call.at # "idle"
    PROVE  handle # Closed /\ CallFields \subseteq DOMAIN call
BY DEF SparseInv, CallHolds, Idle

LEMMA SparseStep == SparseInv /\ [Next]_vars => SparseInv'
<1> SUFFICES ASSUME SparseInv, [Next]_vars PROVE SparseInv'
    OBVIOUS
<1>0. throws \in Nat
    BY DEF SparseInv
<1>1. ASSUME NEW name \in DOMAIN GgufFiles, NEW request \in Requests, NEW memory \in BOOLEAN,
             OpenGguf(name, request, memory)
      PROVE  SparseInv'
    <2>1. PICK s \in LoadSession(GgufFiles[name], request, memory) :
              handle' = [backend |-> "gguf", file |-> name, tok |-> s.tok,
                         vocabSize |-> s.vocabSize, positions |-> s.positions,
                         specialIds |-> s.specialIds, graph |-> NoGraph,
                         texts |-> 0, batches |-> 0]
        BY <1>1 DEF OpenGguf
    <2>2. /\ GgufFields \subseteq DOMAIN handle' /\ handle'.backend = "gguf"
          /\ handle'.file = name /\ handle'.tok = s.tok
          /\ handle'.vocabSize = s.vocabSize /\ handle'.positions = s.positions
        BY <2>1 DEF GgufFields
    <2>3. handle' # Closed
        BY <2>2 DEF Closed
    <2>4. HandleHolds'
        BY <2>1, <2>2 DEF HandleHolds, HoldsGguf
    <2>5. handle = Closed /\ ort' = ort /\ throws' = throws /\ call' = call
        BY <1>1 DEF OpenGguf
    <2>6. OrtBalanced'
        BY <2>2, <2>5 DEF SparseInv, OrtBalanced
    <2> QED  BY <1>0, <2>3, <2>4, <2>5, <2>6 DEF SparseInv, CallHolds
<1>2. ASSUME NEW name \in DOMAIN JsonFiles, NEW request \in {r \in Requests : r > 0},
             OpenOnnx(name, request)
      PROVE  SparseInv'
    <2>1. handle' = [backend |-> "onnx", file |-> name,
                     tok |-> LoadFromBlob(JsonFiles[name], request),
                     vocabSize |-> OnnxVocab, specialIds |-> {}, texts |-> 0, batches |-> 0]
        BY <1>2 DEF OpenOnnx
    <2>2. /\ {"backend", "file", "tok"} \subseteq DOMAIN handle' /\ handle'.backend = "onnx"
          /\ handle'.file = name /\ handle'.tok = LoadFromBlob(JsonFiles[name], request)
        BY <2>1
    <2>3. handle' # Closed
        BY <2>2 DEF Closed
    <2>4. HandleHolds'
        BY <2>2 DEF HandleHolds, HoldsOnnx
    <2>5. handle = Closed /\ ort' = ort \cup {<<"session">>} /\ throws' = throws /\ call' = call
        BY <1>2, OnnxLeaves DEF OpenOnnx
    <2>6. OrtBalanced'
        BY <2>2, <2>3, <2>5 DEF SparseInv, OrtBalanced
    <2> QED  BY <1>0, <2>3, <2>4, <2>5, <2>6 DEF SparseInv, CallHolds
<1>3. CASE OpenOnnxThrows
    <2>1. throws' = throws + 1 /\ handle' = handle /\ call' = call
        BY <1>3 DEF OpenOnnxThrows
    <2>2. throws' # 0 /\ throws' \in Nat
        BY <1>0, <2>1
    <2> QED  BY <2>1, <2>2 DEF SparseInv, HandleHolds, HoldsGguf, HoldsOnnx, CallHolds, OrtBalanced
<1>4. CASE Close
    <2>1. handle' = Closed /\ ort' = ort \ {<<"session">>} /\ throws' = throws /\ call' = Idle
        BY <1>4 DEF Close
    <2>2. OrtBalanced'
        BY <2>1 DEF SparseInv, OrtBalanced
    <2> QED  BY <1>0, <2>1, <2>2 DEF SparseInv, HandleHolds, CallHolds
<1>5. ASSUME NEW texts \in TextLists, NEW size \in BatchSizes, NEW opts \in Options,
             Embed(texts, size, opts) \/ EmbedNoItems(texts, size, opts)
      PROVE  SparseInv'
    <2>1. handle # Closed /\ handle' = handle /\ ort' = ort /\ throws' = throws
        BY <1>5 DEF Embed, EmbedNoItems
    <2>2. handle.backend # "idle"
        BY <2>1 DEF SparseInv, HandleHolds, HoldsGguf, HoldsOnnx
    <2>3. CallFields \subseteq DOMAIN call' /\ call'.at # "idle" /\ call'.texts = texts
        <3>1. PICK at, s : at # "idle"
                /\ call' = [at |-> at, texts |-> texts, size |-> size, opts |-> opts,
                            b |-> 1, out |-> <<>>, lost |-> {}, status |-> s]
            BY <1>5, <2>2 DEF Embed, EmbedNoItems
        <3> QED  BY <3>1 DEF CallFields
    <2>4. CallHolds'
        BY <2>1, <2>3 DEF CallHolds
    <2> QED  BY <1>0, <2>1, <2>4, QuietKept
<1>6. ASSUME call.at # "idle", ort' = ort, throws' \in {throws, throws + 1}, handle' = handle,
             NEW e, call' = [call EXCEPT !.at = "ended", !.status = e]
      PROVE  SparseInv'
    <2>1. handle' # Closed /\ CallFields \subseteq DOMAIN call
        BY <1>6, InCall
    <2>2. DOMAIN call' = DOMAIN call /\ call'.at # "idle" /\ call'.texts = call.texts
        BY <1>6, <2>1 DEF CallFields
    <2>3. CallHolds'
        BY <1>6, <2>1, <2>2, CallKept
    <2> QED  BY <1>0, <1>6, <2>3, QuietKept
<1>7. CASE GgufThrows
    BY <1>6, <1>7 DEF GgufThrows
<1>8. CASE GgufStoreNoItems
    BY <1>6, <1>8 DEF GgufStoreNoItems
<1>9. CASE OnnxThrows
    <2>1. /\ throws' = throws + 1 /\ handle' = handle /\ call.at = "onnx"
          /\ call' = [call EXCEPT !.at = "ended", !.status = "ONNX_RUNTIME"]
        BY <1>9 DEF OnnxThrows
    <2>2. throws' # 0 /\ throws' \in Nat
        BY <1>0, <2>1
    <2>3. handle' # Closed /\ CallFields \subseteq DOMAIN call
        BY <2>1, InCall
    <2>4. DOMAIN call' = DOMAIN call /\ call'.at # "idle" /\ call'.texts = call.texts
        BY <2>1, <2>3 DEF CallFields
    <2>5. CallHolds'
        BY <2>1, <2>3, <2>4, CallKept
    <2> QED  BY <2>1, <2>2, <2>5 DEF SparseInv, HandleHolds, HoldsGguf, HoldsOnnx, OrtBalanced
<1>10. CASE GgufBatch
    <2>1. call.at = "gguf" /\ ort' = ort /\ throws' = throws
        BY <1>10 DEF GgufBatch
    <2>2. handle # Closed /\ CallFields \subseteq DOMAIN call
        BY <2>1, InCall
    <2>3. handle' = handle \/ \E g : handle' = [handle EXCEPT !.graph = g]
        BY <1>10 DEF GgufBatch
    <2>4. DOMAIN call' = DOMAIN call /\ call'.at # "idle" /\ call'.texts = call.texts
        <3> DEFINE at == IF LastBatch THEN "store" ELSE "gguf"
        <3>1. \/ \E out, b : call' = [call EXCEPT !.out = out, !.b = b, !.at = at]
              \/ \E out, b, lost : call' = [call EXCEPT !.out = out, !.b = b, !.lost = lost, !.at = at]
            <4>1. PICK enc : call' = [call EXCEPT !.out = @ \o [b \in DOMAIN enc.ids |-> {}], !.b = @ + 1,
                                                  !.at = IF LastBatch THEN "store" ELSE @]
                          \/ call' = [call EXCEPT !.out = @ \o RunGraph(enc), !.b = @ + 1,
                                                  !.at = IF LastBatch THEN "store" ELSE @]
                          \/ call' = [call EXCEPT !.out = @ \o [b \in DOMAIN enc.ids |-> {}], !.b = @ + 1,
                                     !.lost = @ \cup Batch(call.b, Len(call.texts), call.size),
                                     !.at = IF LastBatch THEN "store" ELSE @]
                BY <1>10, Zenon DEF GgufBatch
            <4>2. CASE call' = [call EXCEPT !.out = @ \o [b \in DOMAIN enc.ids |-> {}], !.b = @ + 1,
                                            !.at = IF LastBatch THEN "store" ELSE @]
                BY <2>1, <4>2
            <4>3. CASE call' = [call EXCEPT !.out = @ \o RunGraph(enc), !.b = @ + 1,
                                            !.at = IF LastBatch THEN "store" ELSE @]
                BY <2>1, <4>3
            <4>4. CASE call' = [call EXCEPT !.out = @ \o [b \in DOMAIN enc.ids |-> {}], !.b = @ + 1,
                                  !.lost = @ \cup Batch(call.b, Len(call.texts), call.size),
                                  !.at = IF LastBatch THEN "store" ELSE @]
                BY <2>1, <4>4
            <4> QED  BY <4>1, <4>2, <4>3, <4>4
        <3> QED  BY <2>1, <2>2, <3>1 DEF CallFields
    <2>5. DOMAIN handle' = DOMAIN handle
            /\ \A field \in GgufFields \cap DOMAIN handle : handle'[field] = handle[field]
        BY <2>3 DEF GgufFields
    <2>6. HoldsGguf(handle) \/ HoldsOnnx(handle)
        BY <2>2 DEF SparseInv, HandleHolds
    <2>7. handle' # Closed
        BY <2>5, <2>6, HandleKept
    <2>8. CallHolds'
        BY <2>1, <2>4, <2>7, CallKept
    <2> QED  BY <1>0, <2>1, <2>2, <2>5, <2>8, QuietKept
<1>11. CASE GgufStore
    <2>1. call.at = "store" /\ ort' = ort /\ throws' = throws
        BY <1>11 DEF GgufStore
    <2>2. handle # Closed /\ CallFields \subseteq DOMAIN call
        BY <2>1, InCall
    <2>3. PICK n, m : handle' = [handle EXCEPT !.texts = n, !.batches = m]
        BY <1>11 DEF GgufStore
    <2>4. DOMAIN call' = DOMAIN call /\ call'.at # "idle" /\ call'.texts = call.texts
        <3>1. PICK lost : call' = [call EXCEPT !.at = "ended", !.status = "OK", !.lost = lost]
            BY <1>11 DEF GgufStore
        <3> QED  BY <2>2, <3>1 DEF CallFields
    <2>5. DOMAIN handle' = DOMAIN handle
            /\ \A field \in GgufFields \cap DOMAIN handle : handle'[field] = handle[field]
        BY <2>3 DEF GgufFields
    <2>6. HoldsGguf(handle) \/ HoldsOnnx(handle)
        BY <2>2 DEF SparseInv, HandleHolds
    <2>7. handle' # Closed
        BY <2>5, <2>6, HandleKept
    <2>8. CallHolds'
        BY <2>1, <2>4, <2>7, CallKept
    <2> QED  BY <1>0, <2>1, <2>2, <2>5, <2>8, QuietKept
<1>12. CASE OnnxBatch
    <2>1. call.at = "onnx" /\ ort' = ort /\ throws' = throws
        BY <1>12, OnnxLeaves DEF OnnxBatch
    <2>2. handle # Closed /\ CallFields \subseteq DOMAIN call
        BY <2>1, InCall
    <2>3. handle' = handle \/ \E n, m : handle' = [handle EXCEPT !.texts = n, !.batches = m]
        BY <1>12 DEF OnnxBatch
    <2>4. DOMAIN call' = DOMAIN call /\ call'.at # "idle" /\ call'.texts = call.texts
        <3>1. PICK lost : call' = [call EXCEPT !.b = @ + 1, !.lost = @ \cup lost,
                                               !.at = IF LastBatch THEN "ended" ELSE @,
                                               !.status = IF LastBatch THEN "OK" ELSE @]
            BY <1>12, Zenon DEF OnnxBatch
        <3> QED  BY <2>1, <2>2, <3>1 DEF CallFields
    <2>5. DOMAIN handle' = DOMAIN handle
            /\ \A field \in GgufFields \cap DOMAIN handle : handle'[field] = handle[field]
        BY <2>3 DEF GgufFields
    <2>6. HoldsGguf(handle) \/ HoldsOnnx(handle)
        BY <2>2 DEF SparseInv, HandleHolds
    <2>7. handle' # Closed
        BY <2>5, <2>6, HandleKept
    <2>8. CallHolds'
        BY <2>1, <2>4, <2>7, CallKept
    <2> QED  BY <1>0, <2>1, <2>2, <2>5, <2>8, QuietKept
<1>13. CASE Return
    <2>1. handle' = handle /\ ort' = ort /\ throws' = throws /\ CallHolds'
        BY <1>13 DEF Return, CallHolds
    <2> QED  BY <1>0, <2>1, QuietKept
<1>14. CASE UNCHANGED vars
    BY <1>14 DEF vars, SparseInv, HandleHolds, HoldsGguf, HoldsOnnx, CallHolds, OrtBalanced
<1> QED  BY <1>1, <1>2, <1>3, <1>4, <1>5, <1>7, <1>8, <1>9, <1>10, <1>11, <1>12, <1>13, <1>14
         DEF Next

(* Between the steps of any calls: an open handle holds what its file gave *)
(* it (SparseSession::load_from_file, load_from_blob), a call has texts.   *)
THEOREM SparseInvariant == Spec => []SparseInv
BY SparseInit, SparseStep, PTL DEF Spec

(* Whatever is opened, embedded, thrown and closed, in any order: until a  *)
(* call throws, ONNX Runtime holds the session of the open handle and      *)
(* nothing else (onnx_session_impl.hpp: run, query_io_names).              *)
THEOREM OrtKeptBalanced == Spec => []OrtBalanced
<1>1. SparseInv => OrtBalanced
    BY DEF SparseInv
<1> QED  BY <1>1, SparseInvariant, PTL

(* The tables of a file whose tensors were loaded are there. *)
LEMMA TablesTyped ==
    ASSUME NEW name \in DOMAIN GgufFiles, Opens(GgufFiles[name]), NEW memory,
           LoadsTensors(GgufFiles[name], memory)
    PROVE  /\ Rows(GgufFiles[name], "token_embd") \in Int
           /\ Rows(GgufFiles[name], "position_embd") \in Int
<1> DEFINE f == GgufFiles[name]
           layers == Only(Hparams(f).layer)
           names == RequiredNames(layers)
<1>1. layers \in Nat
    BY HparamsTyped
<1>2. \A i \in DOMAIN names : names[i] \in DOMAIN f.tensors
    BY DEF LoadsTensors, HasTensor
<1> HIDE DEF layers
<1>3. \A k \in 1..5 : names[k] = Named(EmbeddingNames[k])
    BY <1>1, NamesPlaced
<1>4. 1..5 \subseteq DOMAIN names
    BY <1>1, NamesPlaced
<1>5. EmbeddingNames[1] = "token_embd" /\ EmbeddingNames[2] = "position_embd"
    BY DEF EmbeddingNames
<1> HIDE DEF names
<1>6. names[1] = Named("token_embd") /\ names[2] = Named("position_embd")
    BY <1>3, <1>5
<1>7. Named("token_embd") \in DOMAIN f.tensors /\ Named("position_embd") \in DOMAIN f.tensors
    <2>1. names[1] \in DOMAIN f.tensors /\ names[2] \in DOMAIN f.tensors
        BY <1>2, <1>4
    <2> QED  BY <1>6, <2>1
<1>8. \A n \in DOMAIN f.tensors : f.tensors[n].ne \in Int \X Int
    BY GgufAssumption
<1>9. \A n \in DOMAIN f.tensors : f.tensors[n].ne[2] \in Int
    BY <1>8
<1> QED  BY <1>7, <1>9 DEF Rows

LEMMA LoadedIsSound == SparseInv => LoadedSound
<1> SUFFICES ASSUME SparseInv, handle # Closed /\ handle.backend = "gguf" PROVE LoadedSound
    BY DEF LoadedSound
<1> DEFINE f == GgufFiles[handle.file]
<1>1. HoldsGguf(handle)
    BY DEF SparseInv, HandleHolds, HoldsOnnx
<1>2. PICK request \in Requests, memory \in BOOLEAN : \E s \in LoadSession(f, request, memory) :
          handle.tok = s.tok /\ handle.vocabSize = s.vocabSize /\ handle.positions = s.positions
    BY <1>1 DEF HoldsGguf
<1>3. PICK s \in LoadSession(f, request, memory) :
          handle.tok = s.tok /\ handle.vocabSize = s.vocabSize /\ handle.positions = s.positions
    BY <1>2
<1> DEFINE tk == handle.tok
           name == handle.file
<1>4. name \in DOMAIN GgufFiles
    BY <1>1 DEF HoldsGguf
<1> HIDE DEF name
<1>5. /\ Opens(f) /\ Accepts(f)
      /\ s.tok.type = "WORDPIECE" /\ s.tok.maxLength \in Nat \ {0}
      /\ s.positions \in Nat /\ s.tok.maxLength <= s.positions
      /\ s.vocabSize \in Nat /\ Ids(s.tok) \subseteq 0..(s.vocabSize - 1)
      /\ s.positions = Only(Hparams(f).pos) /\ s.vocabSize = Only(Hparams(f).vocab)
      /\ LoadsTensors(f, memory)
    <2>1. s \in LoadSession(GgufFiles[name], request, memory)
        BY <1>3 DEF name
    <2>2. f = GgufFiles[name]
        BY DEF name
    <2> QED  BY <1>4, <2>1, <2>2, LoadSessionFacts
<1>6. /\ tk.type = "WORDPIECE" /\ tk.maxLength \in Nat \ {0}
      /\ handle.positions \in Nat /\ tk.maxLength <= handle.positions
      /\ Ids(tk) \subseteq 0..(handle.vocabSize - 1)
    BY <1>3, <1>5
<1>7. Summary(Classify(f)) = "sparse"
    BY <1>5, SparseSummary
<1>8. WeightsInPlace(f)
    <2>1. Only(Hparams(GgufFiles[name]).layer) \in Nat
        BY <1>4, <1>5, HparamsTyped DEF name
    <2> QED  BY <2>1, WeightsPlaced DEF name
<1>10. Rows(f, "token_embd") \in Int /\ Rows(f, "position_embd") \in Int
    <2>1. Opens(GgufFiles[name]) /\ LoadsTensors(GgufFiles[name], memory)
        BY <1>5 DEF name
    <2>2. /\ Rows(GgufFiles[name], "token_embd") \in Int
          /\ Rows(GgufFiles[name], "position_embd") \in Int
        BY <1>4, <2>1, TablesTyped
    <2> QED  BY <2>2 DEF name
<1>11. handle.positions = Only(Hparams(f).pos) /\ handle.vocabSize = Only(Hparams(f).vocab)
       /\ handle.vocabSize \in Nat
    BY <1>3, <1>5
<1> HIDE DEF f, tk
<1>12. ASSUME TablesAsDeclared(f)
       PROVE  /\ handle.positions <= Rows(f, "position_embd")
              /\ handle.vocabSize - 1 <= Rows(f, "token_embd") - 1
    BY <1>10, <1>11, <1>12, <1>6 DEF TablesAsDeclared
<1>9. ASSUME Starting
      PROVE  LET enc == EncodeBatch(tk, call.texts) IN
             /\ enc.seqLen <= handle.positions
             /\ \A b \in DOMAIN enc.ids : Range(enc.ids[b]) \subseteq 0..(handle.vocabSize - 1)
             /\ TablesAsDeclared(f) =>
                  /\ enc.seqLen <= Rows(f, "position_embd")
                  /\ \A b \in DOMAIN enc.ids :
                        Range(enc.ids[b]) \subseteq 0..(Rows(f, "token_embd") - 1)
    <2> DEFINE texts == call.texts
    <2>1. texts \in Seq(Text)
        <3>1. call.texts \in TextLists
            BY <1>9 DEF Starting, SparseInv, CallHolds
        <3> QED  BY <3>1, TextsAssumption DEF Text
    <2>2. \A word \in WordsOver(Chars) : Subwords(tk, word) \in Seq(Ids(tk))
        <3> TAKE word \in WordsOver(Chars)
        <3>1. word \in Seq(Chars)
            BY DEF WordsOver
        <3>2. Subwords(tk, word) = WordPiece(tk, word)
            BY <1>6 DEF Subwords
        <3> QED  BY <3>1, <3>2, WordPieceTyped
    <2> HIDE DEF texts
    <2> DEFINE enc == EncodeBatch(tk, texts)
    <2>3. /\ enc.seqLen \in Nat /\ enc.seqLen <= tk.maxLength
          /\ \A b \in DOMAIN enc.ids : Range(enc.ids[b]) \subseteq Ids(tk)
        BY <1>6, <2>1, <2>2, BatchFacts
    <2> HIDE DEF enc
    <2>4. enc.seqLen <= handle.positions
        BY <1>6, <2>3
    <2>5. \A b \in DOMAIN enc.ids : Range(enc.ids[b]) \subseteq 0..(handle.vocabSize - 1)
        BY <1>6, <2>3
    <2>6. ASSUME TablesAsDeclared(f)
          PROVE  /\ enc.seqLen <= Rows(f, "position_embd")
                 /\ \A b \in DOMAIN enc.ids :
                       Range(enc.ids[b]) \subseteq 0..(Rows(f, "token_embd") - 1)
        <3>1. enc.seqLen <= Rows(f, "position_embd")
            BY <1>6, <1>10, <1>12, <2>3, <2>4, <2>6
        <3>2. 0..(handle.vocabSize - 1) \subseteq 0..(Rows(f, "token_embd") - 1)
            BY <1>10, <1>11, <1>12, <2>6
        <3> QED  BY <2>5, <3>1, <3>2
    <2> QED  BY <2>4, <2>5, <2>6 DEF enc, texts
<1> QED  BY <1>7, <1>8, <1>9, Zenon DEF LoadedSound, f, tk

(* An open GGUF handle, whatever file, request and calls led to it: the    *)
(* inspector calls its file sparse, each weight is bound to its own name,  *)
(* and a batch stays inside the vocabulary and the context length that the *)
(* file declares, and inside its tables if these have the declared rows    *)
(* (SparseSession::accept, Weights::bind, load_from_file).                 *)
THEOREM LoadedStaysSound == Spec => []LoadedSound
BY LoadedIsSound, SparseInvariant, PTL

(* The tokenizer of an open handle spells every word. *)
LEMMA OpenTokenizer ==
    ASSUME SparseInv, handle # Closed
    PROVE  /\ handle.tok.maxLength \in Nat \ {0}
           /\ \A word \in WordsOver(Chars) :
                /\ IF handle.tok.type = "WORDPIECE" THEN Covers(handle.tok, word)
                   ELSE Merged(handle.tok, word)
                /\ Subwords(handle.tok, word) \in Seq(Ids(handle.tok))
<1> DEFINE tk == handle.tok
<1>2. tk.maxLength \in Nat \ {0} /\ (tk.type = "WORDPIECE" \/ RanksTyped(tk))
    <2>0. HoldsGguf(handle) \/ HoldsOnnx(handle)
        BY DEF SparseInv, HandleHolds
    <2>1. CASE HoldsGguf(handle)
        <3> DEFINE name == handle.file
        <3>1. name \in DOMAIN GgufFiles
            BY <2>1 DEF HoldsGguf
        <3>2. PICK request \in Requests, memory \in BOOLEAN :
                 \E s \in LoadSession(GgufFiles[name], request, memory) : handle.tok = s.tok
            BY <2>1 DEF HoldsGguf
        <3>3. PICK s \in LoadSession(GgufFiles[name], request, memory) : handle.tok = s.tok
            BY <3>2
        <3> HIDE DEF name
        <3>4. s.tok.type = "WORDPIECE" /\ s.tok.maxLength \in Nat \ {0}
            BY <3>1, LoadSessionFacts
        <3> QED  BY <3>3, <3>4
    <2>2. CASE HoldsOnnx(handle)
        <3> DEFINE name == handle.file
        <3>1. name \in DOMAIN JsonFiles
            BY <2>2 DEF HoldsOnnx
        <3>2. PICK request \in Requests :
                 request > 0 /\ handle.tok = LoadFromBlob(JsonFiles[name], request)
            BY <2>2 DEF HoldsOnnx
        <3> HIDE DEF name
        <3>3. tk.maxLength = request /\ (tk.type = "WORDPIECE" \/ RanksTyped(tk))
            BY <3>1, <3>2, BlobFacts
        <3>4. request \in Nat \ {0}
            BY <3>2, TextsAssumption
        <3> QED  BY <3>3, <3>4
    <2> QED  BY <2>0, <2>1, <2>2
<1> HIDE DEF tk
<1>3. ASSUME NEW word \in WordsOver(Chars)
      PROVE  /\ IF tk.type = "WORDPIECE" THEN Covers(tk, word) ELSE Merged(tk, word)
             /\ Subwords(tk, word) \in Seq(Ids(tk))
    <2>1. word \in Seq(Chars)
        BY DEF WordsOver
    <2>2. CASE tk.type = "WORDPIECE"
        <3>1. Covers(tk, word)
            BY WordPieceCovers
        <3>2. Subwords(tk, word) = WordPiece(tk, word)
            BY <2>2 DEF Subwords
        <3>3. WordPiece(tk, word) \in Seq(Ids(tk))
            BY <2>1, WordPieceTyped
        <3> QED  BY <2>2, <3>1, <3>2, <3>3
    <2>3. CASE tk.type # "WORDPIECE"
        <3>1. Merged(tk, word) /\ BPE(tk, word) \in Seq(Ids(tk))
            BY <1>2, <2>1, <2>3, BPEFacts
        <3>2. Subwords(tk, word) = BPE(tk, word)
            BY <2>3 DEF Subwords
        <3> QED  BY <2>3, <3>1, <3>2
    <2> QED  BY <2>2, <2>3
<1> QED  BY <1>2, <1>3 DEF tk

LEMMA TokensAreCovered == SparseInv => TokensCover
<1> SUFFICES ASSUME SparseInv, Starting, NEW d \in DOMAIN call.texts
             PROVE  LET tk == handle.tok
                        ids == Encode(tk, call.texts[d])
                        words == Words(tk, call.texts[d])
                    IN /\ tk.special => /\ ids[Len(ids)] = tk.sep
                                        /\ tk.maxLength > 1 => ids[1] = tk.cls
                       /\ \A k \in DOMAIN words :
                            IF tk.type = "WORDPIECE" THEN Covers(tk, words[k])
                            ELSE Merged(tk, words[k])
    BY Zenon DEF TokensCover
<1> DEFINE tk == handle.tok
           text == call.texts[d]
           words == Words(tk, text)
<1>1. text \in Text
    <2>1. call.texts \in TextLists
        BY DEF Starting, SparseInv, CallHolds
    <2> QED  BY <2>1, TextsAssumption DEF Text
<1>2. /\ tk.maxLength \in Nat \ {0}
      /\ \A word \in WordsOver(Chars) :
            /\ IF tk.type = "WORDPIECE" THEN Covers(tk, word) ELSE Merged(tk, word)
            /\ Subwords(tk, word) \in Seq(Ids(tk))
    <2>1. handle # Closed
        BY DEF Starting, SparseInv, CallHolds
    <2> QED  BY <2>1, OpenTokenizer
<1> HIDE DEF tk, text
<1>4. words \in Seq(WordsOver(Chars))
    BY <1>1, WordsTyped
<1> DEFINE ids == Encode(tk, text)
<1>5. tk.special => /\ ids[Len(ids)] = tk.sep
                    /\ tk.maxLength > 1 => ids[1] = tk.cls
    BY <1>1, <1>2, EncodeFacts
<1> HIDE DEF words, ids
<1>6. \A k \in DOMAIN words : words[k] \in WordsOver(Chars)
    <2> DEFINE W == WordsOver(Chars)
    <2> HIDE DEF W
    <2>1. words \in Seq(W)
        BY <1>4 DEF W
    <2>2. \A k \in DOMAIN words : words[k] \in W
        BY <2>1
    <2> QED  BY <2>2 DEF W
<1>7. \A k \in DOMAIN words : IF tk.type = "WORDPIECE" THEN Covers(tk, words[k]) ELSE Merged(tk, words[k])
    BY <1>2, <1>6
<1> QED  BY <1>5, <1>7, Zenon DEF tk, text, words, ids

(* The tokenizer of an open handle, of either backend, spells every word   *)
(* of every text it is given and keeps the delimiters of a cut text        *)
(* (wordpiece_tokenize, bpe_tokenize, encode_single).                      *)
THEOREM TokensAlwaysCover == Spec => []TokensCover
BY TokensAreCovered, SparseInvariant, PTL

-----------------------------------------------------------------------------
(* Batches of the rows. *)
LEMMA Quotient ==
    ASSUME NEW m \in Nat, NEW s \in Nat \ {0}
    PROVE  m \div s \in Nat /\ (m \div s) * s <= m /\ m < (m \div s) * s + s
OBVIOUS

LEMMA Times ==
    ASSUME NEW a \in Nat, NEW b \in Nat, NEW s \in Nat, a <= b
    PROVE  a * s \in Nat /\ a * s <= b * s /\ (a + 1) * s = a * s + s
OBVIOUS

(* A batch with a number up to BatchCount starts inside the rows, and the  *)
(* next one, if there is one, where it ends.                               *)
LEMMA BatchBounds ==
    ASSUME NEW n \in Nat, NEW s \in Nat \ {0}, NEW b \in Nat \ {0}, b <= BatchCount(n, s)
    PROVE  /\ (b - 1) * s \in Nat /\ b * s = (b - 1) * s + s /\ (b - 1) * s < n
           /\ b < BatchCount(n, s) => b * s < n
           /\ b = BatchCount(n, s) => n <= b * s
<1> DEFINE q == BatchCount(n, s)
<1>1. n + s - 1 \in Nat
    OBVIOUS
<1>2. q \in Nat /\ q * s <= n + s - 1 /\ n + s - 1 < q * s + s
    BY <1>1, Quotient DEF BatchCount
<1>3. (b - 1) * s \in Nat /\ b * s = (b - 1) * s + s /\ b * s \in Nat
    BY Times
<1>4. (b + 1) * s = b * s + s
    BY Times
<1> HIDE DEF q
<1>5. b * s <= q * s
    BY <1>2, Times DEF q
<1>6. b < q => b * s + s <= q * s
    <2> SUFFICES ASSUME b < q PROVE (b + 1) * s <= q * s
        BY <1>4
    <2>1. b + 1 \in Nat /\ b + 1 <= q
        BY <1>2
    <2> QED  BY <1>2, <2>1, Times
<1>7. (b - 1) * s < n
    BY <1>2, <1>3, <1>5
<1>8. b < q => b * s < n
    BY <1>2, <1>3, <1>6
<1>9. b = q => n <= b * s
    BY <1>2, <1>3
<1> QED  BY <1>3, <1>7, <1>8, <1>9 DEF q

LEMMA BatchIsInterval ==
    ASSUME NEW n \in Nat, NEW s \in Nat \ {0}, NEW b \in Nat \ {0}, b <= BatchCount(n, s),
           NEW start, start = (b - 1) * s
    PROVE  \E end \in Nat :
             /\ start \in Nat /\ start < end /\ end <= n
             /\ Batch(b, n, s) = (start + 1)..end
             /\ Cardinality(Batch(b, n, s)) = end - start
             /\ Min(Batch(b, n, s)) = start + 1
             /\ b < BatchCount(n, s) => end = ((b + 1) - 1) * s
             /\ b = BatchCount(n, s) => end = n
<1>1. /\ start \in Nat /\ start < n /\ b * s = start + s
      /\ b < BatchCount(n, s) => b * s < n
      /\ b = BatchCount(n, s) => n <= b * s
    BY BatchBounds
<1> DEFINE end == IF start + s < n THEN start + s ELSE n
<1>2. end \in Nat /\ start < end /\ end <= n
    BY <1>1
<1>3. Batch(b, n, s) = (start + 1)..end
    <2>1. Batch(b, n, s) = {p \in 1..n : start < p /\ p <= start + s}
        BY DEF Batch
    <2>2. {p \in 1..n : start < p /\ p <= start + s} = (start + 1)..end
        BY <1>1
    <2> QED  BY <2>1, <2>2
<1>4. b < BatchCount(n, s) => end = ((b + 1) - 1) * s
    <2>1. (b + 1) - 1 = b
        OBVIOUS
    <2> QED  BY <1>1, <2>1
<1>5. b = BatchCount(n, s) => end = n
    BY <1>1
<1> HIDE DEF end
<1>6. Cardinality((start + 1)..end) = end - start
    <2>1. start + 1 \in Int /\ end \in Int /\ ~(start + 1 > end)
        BY <1>1, <1>2
    <2>2. Cardinality((start + 1)..end) = end - (start + 1) + 1
        BY <2>1, FS_Interval
    <2> QED  BY <1>1, <1>2, <2>2
<1>7. Min((start + 1)..end) = start + 1
    <2> DEFINE S == (start + 1)..end
    <2>1. S \in SUBSET Nat /\ start + 1 \in S /\ \A x \in S : start + 1 <= x
        BY <1>1, <1>2
    <2> HIDE DEF S
    <2>2. Min(S) \in S /\ \A x \in S : Min(S) <= x
        BY <2>1, MinFacts
    <2>3. Min(S) \in Nat /\ start + 1 <= Min(S) /\ Min(S) <= start + 1
        BY <2>1, <2>2
    <2>4. Min(S) = start + 1
        BY <1>1, <2>3
    <2> QED  BY <2>4 DEF S
<1> QED  BY <1>1, <1>2, <1>3, <1>4, <1>5, <1>6, <1>7

-----------------------------------------------------------------------------
(* Pooling.  The terms of one document (TermsOf, of any tokenizer), from   *)
(* its own row of ids.                                                     *)
RowTerms(ids, vocabSize, specialIds) ==
    LET seen == {<<j, ids[j]>> : j \in DOMAIN ids}
        Weight(v) == Max({0} \cup {Logit([tok |-> ids[k], pos |-> k, seen |-> seen], v) :
                                   k \in DOMAIN ids})
    IN {[i |-> v, w |-> Weight(v)] :
          v \in {v \in 0..(vocabSize - 1) : Weight(v) > 0} \ specialIds}

Terms(h, text) == RowTerms(Encode(h.tok, text), h.vocabSize, h.specialIds)

LEMMA TermsOfIs == ASSUME NEW text PROVE TermsOf(text) = Terms(handle, text)
BY DEF TermsOf, Terms, RowTerms

PaddedIds(row, len, pad) == [j \in 1..len |-> IF j <= Len(row) THEN row[j] ELSE pad]
PaddedMask(row, len) == [j \in 1..len |-> j <= Len(row)]
PooledRow(ids, mask, len, vocabSize, specialIds) ==
    LET plane == BuildMask(mask)
        rows == [i \in 1..len |-> EncoderRow(ids, plane, i)]
    IN DropSpecialTokens(SpladePool(rows, mask, vocabSize), specialIds)

(* The padding of a row is neither seen by its tokens nor pooled. *)
LEMMA RowPools ==
    ASSUME NEW I, NEW row \in Seq(I), NEW len \in Nat, Len(row) <= len, NEW pad,
           NEW vocabSize, NEW specialIds
    PROVE  PooledRow(PaddedIds(row, len, pad), PaddedMask(row, len), len, vocabSize, specialIds)
             = RowTerms(row, vocabSize, specialIds)
<1> DEFINE ids == [j \in 1..len |-> IF j <= Len(row) THEN row[j] ELSE pad]
           mask == [j \in 1..len |-> j <= Len(row)]
           plane == BuildMask(mask)
           rows == [i \in 1..len |-> EncoderRow(ids, plane, i)]
           D == 1..Len(row)
           seen == {<<j, row[j]>> : j \in D}
<1>1. DOMAIN row = D /\ D \subseteq 1..len /\ Len(row) \in Nat
    OBVIOUS
<1>2. {j \in DOMAIN mask : mask[j]} = D
    <2>1. DOMAIN mask = 1..len /\ \A j \in 1..len : mask[j] = (j <= Len(row))
        OBVIOUS
    <2>2. {j \in 1..len : j <= Len(row)} = D
        BY <1>1
    <2> HIDE DEF mask
    <2>3. {j \in DOMAIN mask : mask[j]} = {j \in 1..len : j <= Len(row)}
        BY <2>1, Zenon
    <2> QED  BY <2>2, <2>3
<1>3. \A i \in D : plane[i] = D
    BY <1>1, <1>2 DEF BuildMask
<1>4. \A j \in D : ids[j] = row[j]
    BY <1>1
<1> HIDE DEF ids, plane
<1>5. \A i \in D : rows[i] = [tok |-> row[i], pos |-> i, seen |-> seen]
    <2> TAKE i \in D
    <2>1. rows[i] = [tok |-> ids[i], pos |-> i, seen |-> {<<j, ids[j]>> : j \in plane[i]}]
        BY <1>1 DEF EncoderRow
    <2>2. {<<j, ids[j]>> : j \in plane[i]} = seen
        BY <1>3, <1>4
    <2> QED  BY <1>4, <2>1, <2>2
<1>6. {i \in DOMAIN rows : mask[i]} = D
    <2>1. DOMAIN rows = DOMAIN mask
        OBVIOUS
    <2> HIDE DEF rows, mask, D
    <2> QED  BY <1>2, <2>1
<1> HIDE DEF rows, mask, D, seen
<1> DEFINE Score(v) == Max({0} \cup {Logit(rows[i], v) : i \in {i \in DOMAIN rows : mask[i]}})
           Weight(v) == Max({0} \cup {Logit([tok |-> row[k], pos |-> k, seen |-> seen], v) : k \in D})
<1>7. ASSUME NEW v PROVE Score(v) = Weight(v)
    <2>1. {Logit(rows[i], v) : i \in {i \in DOMAIN rows : mask[i]}}
            = {Logit([tok |-> row[k], pos |-> k, seen |-> seen], v) : k \in D}
        BY <1>5, <1>6
    <2> QED  BY <2>1
<1>8. DropSpecialTokens(SpladePool(rows, mask, vocabSize), specialIds)
        = {e \in {e \in {[i |-> v, w |-> Score(v)] : v \in 0..(vocabSize - 1)} : e.w > 0} :
             e.i \notin specialIds}
    BY DEF DropSpecialTokens, SpladePool
<1>9. RowTerms(row, vocabSize, specialIds)
        = {[i |-> v, w |-> Weight(v)] : v \in {v \in 0..(vocabSize - 1) : Weight(v) > 0} \ specialIds}
    BY <1>1 DEF RowTerms, seen
<1> HIDE DEF Score, Weight
<1>10. {e \in {e \in {[i |-> v, w |-> Score(v)] : v \in 0..(vocabSize - 1)} : e.w > 0} :
             e.i \notin specialIds}
        = {[i |-> v, w |-> Weight(v)] : v \in {v \in 0..(vocabSize - 1) : Weight(v) > 0} \ specialIds}
    BY <1>7
<1>11. PooledRow(PaddedIds(row, len, pad), PaddedMask(row, len), len, vocabSize, specialIds)
         = DropSpecialTokens(SpladePool(rows, mask, vocabSize), specialIds)
    BY DEF PooledRow, PaddedIds, PaddedMask, rows, mask, plane, ids
<1> QED  BY <1>8, <1>9, <1>10, <1>11

(* The rows of a padded batch: none is cut.                                *)
LEMMA PaddedRows ==
    ASSUME NEW tk, tk.maxLength \in Nat \ {0}, NEW rows,
           \A b \in DOMAIN rows : Len(rows[b]) \in Nat /\ Len(rows[b]) <= tk.maxLength
    PROVE  LET enc == Padded(tk, rows) IN
           /\ enc.seqLen \in Nat
           /\ \A b \in DOMAIN rows : Len(rows[b]) <= enc.seqLen
           /\ enc.ids = [b \in DOMAIN rows |->
                 [j \in 1..enc.seqLen |-> IF j <= Len(rows[b]) THEN rows[b][j] ELSE tk.pad]]
           /\ enc.mask = [b \in DOMAIN rows |-> [j \in 1..enc.seqLen |-> j <= Len(rows[b])]]
<1> DEFINE lens == {0} \cup {Len(rows[b]) : b \in DOMAIN rows}
           max == tk.maxLength
           two == {max, Max(lens)}
           len == Min(two)
<1>1. lens \in SUBSET Nat /\ lens # {} /\ \A x \in lens : x <= max
    OBVIOUS
<1>2. \A b \in DOMAIN rows : Len(rows[b]) \in lens
    OBVIOUS
<1> HIDE DEF lens
<1>3. Max(lens) \in lens /\ \A x \in lens : x <= Max(lens)
    BY <1>1, MaxFacts
<1>4. two \in SUBSET Nat /\ two # {}
    BY <1>1, <1>3
<1>5. len \in two
    BY <1>4, MinFacts
<1>6. len \in Nat /\ \A b \in DOMAIN rows : Len(rows[b]) <= len
    BY <1>1, <1>2, <1>3, <1>4, <1>5
<1>7. /\ Padded(tk, rows).seqLen = len
      /\ Padded(tk, rows).ids = [b \in DOMAIN rows |->
              [j \in 1..len |-> IF j <= Len(rows[b]) THEN rows[b][j] ELSE tk.pad]]
      /\ Padded(tk, rows).mask = [b \in DOMAIN rows |-> [j \in 1..len |-> j <= Len(rows[b])]]
    BY DEF Padded, lens
<1> HIDE DEF len
<1> QED  BY <1>6, <1>7

(* A batch pools every document as if it were alone. *)
LEMMA BatchPools ==
    ASSUME NEW tk, tk.maxLength \in Nat \ {0}, NEW texts \in Seq(Text),
           \A word \in WordsOver(Chars) : Subwords(tk, word) \in Seq(Ids(tk)),
           NEW vocabSize, NEW specialIds
    PROVE  LET enc == EncodeBatch(tk, texts) IN
           /\ PoolBatch(enc, vocabSize, specialIds)
                = [d \in DOMAIN texts |-> RowTerms(Encode(tk, texts[d]), vocabSize, specialIds)]
           /\ DOMAIN enc.ids = DOMAIN texts
           /\ enc.seqLen = 0 => \A d \in DOMAIN texts : Encode(tk, texts[d]) = <<>>
<1> DEFINE rows == [d \in DOMAIN texts |-> Encode(tk, texts[d])]
           enc == Padded(tk, rows)
           I == Ids(tk)
<1>1. ASSUME NEW d \in DOMAIN texts
      PROVE  rows[d] \in Seq(I) /\ Len(rows[d]) \in Nat /\ Len(rows[d]) <= tk.maxLength
    <2>1. texts[d] \in Text /\ rows[d] = Encode(tk, texts[d])
        OBVIOUS
    <2>2. rows[d] \in Seq(Ids(tk)) /\ Len(rows[d]) <= tk.maxLength
        BY <2>1, EncodeFacts
    <2> HIDE DEF rows
    <2> QED  BY <2>2
<1>2. EncodeBatch(tk, texts) = enc
    BY DEF EncodeBatch
<1>3. DOMAIN rows = DOMAIN texts
    OBVIOUS
<1> HIDE DEF rows, I
<1>4. /\ enc.seqLen \in Nat
      /\ \A d \in DOMAIN rows : Len(rows[d]) <= enc.seqLen
      /\ enc.ids = [d \in DOMAIN rows |->
            [j \in 1..enc.seqLen |-> IF j <= Len(rows[d]) THEN rows[d][j] ELSE tk.pad]]
      /\ enc.mask = [d \in DOMAIN rows |-> [j \in 1..enc.seqLen |-> j <= Len(rows[d])]]
    BY <1>1, <1>3, PaddedRows
<1> HIDE DEF enc
<1> DEFINE Pooled(d) == PooledRow(enc.ids[d], enc.mask[d], enc.seqLen, vocabSize, specialIds)
<1>5. ASSUME NEW d \in DOMAIN texts
      PROVE  Pooled(d) = RowTerms(rows[d], vocabSize, specialIds)
    <2> DEFINE row == rows[d]
               len == enc.seqLen
    <2>1. row \in Seq(I) /\ len \in Nat /\ Len(row) <= len
        BY <1>1, <1>3, <1>4
    <2>2. enc.ids[d] = PaddedIds(row, len, tk.pad) /\ enc.mask[d] = PaddedMask(row, len)
        BY <1>3, <1>4 DEF PaddedIds, PaddedMask
    <2> HIDE DEF row, len
    <2>3. PooledRow(PaddedIds(row, len, tk.pad), PaddedMask(row, len), len, vocabSize, specialIds)
            = RowTerms(row, vocabSize, specialIds)
        BY <2>1, RowPools
    <2> QED  BY <2>2, <2>3 DEF row, len
<1>6. PoolBatch(enc, vocabSize, specialIds) = [d \in DOMAIN enc.ids |-> Pooled(d)]
    BY DEF PoolBatch, PooledRow
<1>7. DOMAIN enc.ids = DOMAIN texts
    BY <1>3, <1>4
<1> HIDE DEF Pooled
<1>8. PoolBatch(enc, vocabSize, specialIds)
        = [d \in DOMAIN texts |-> RowTerms(rows[d], vocabSize, specialIds)]
    BY <1>5, <1>6, <1>7
<1>9. ASSUME enc.seqLen = 0, NEW d \in DOMAIN texts PROVE rows[d] = <<>>
    <2>1. Len(rows[d]) = 0 /\ rows[d] \in Seq(I)
        BY <1>1, <1>3, <1>4, <1>9
    <2> QED  BY <2>1
<1> QED  BY <1>2, <1>7, <1>8, <1>9, <1>3 DEF rows

LEMMA TermsFinite ==
    ASSUME NEW ids, NEW vocabSize \in Nat, NEW specialIds
    PROVE  IsFiniteSet(RowTerms(ids, vocabSize, specialIds))
<1> DEFINE seen == {<<j, ids[j]>> : j \in DOMAIN ids}
           Weight(v) == Max({0} \cup {Logit([tok |-> ids[k], pos |-> k, seen |-> seen], v) :
                                      k \in DOMAIN ids})
           S == {v \in 0..(vocabSize - 1) : Weight(v) > 0} \ specialIds
           T == {[i |-> v, w |-> Weight(v)] : v \in S}
           f == [v \in S |-> [i |-> v, w |-> Weight(v)]]
<1>1. RowTerms(ids, vocabSize, specialIds) = T
    BY DEF RowTerms
<1>2. IsFiniteSet(0..(vocabSize - 1))
    BY FS_Interval
<1>3. S \in SUBSET (0..(vocabSize - 1))
    OBVIOUS
<1> HIDE DEF Weight, S
<1>4. IsFiniteSet(S)
    BY <1>2, <1>3, FS_Subset
<1>5. f \in Surjection(S, T)
    <2>1. f \in [S -> T] /\ \A t \in T : \E v \in S : f[v] = t
        OBVIOUS
    <2> QED  BY <2>1 DEF Surjection
<1> HIDE DEF f, T
<1>6. IsFiniteSet(T)
    BY <1>4, <1>5, FS_Surjection
<1> QED  BY <1>1, <1>6

(* A row without tokens has no terms. *)
LEMMA NoRowNoTerms ==
    ASSUME NEW vocabSize, NEW specialIds
    PROVE  RowTerms(<<>>, vocabSize, specialIds) = {}
<1> DEFINE none == <<>>
           seen == {<<j, none[j]>> : j \in DOMAIN none}
           Weight(v) == Max({0} \cup {Logit([tok |-> none[k], pos |-> k, seen |-> seen], v) :
                                      k \in DOMAIN none})
<1>1. RowTerms(none, vocabSize, specialIds)
        = {[i |-> v, w |-> Weight(v)] : v \in {v \in 0..(vocabSize - 1) : Weight(v) > 0} \ specialIds}
    BY DEF RowTerms
<1>2. DOMAIN none = {}
    OBVIOUS
<1> HIDE DEF none
<1>3. ASSUME NEW v PROVE ~(Weight(v) > 0)
    <2>1. {0} \cup {Logit([tok |-> none[k], pos |-> k, seen |-> seen], v) : k \in DOMAIN none} = {0}
        BY <1>2
    <2>2. Max({0}) \in {0}
        <3> DEFINE Z == {0}
        <3>1. Z \in SUBSET Nat /\ Z # {} /\ \A x \in Z : x <= 0
            OBVIOUS
        <3> HIDE DEF Z
        <3>2. Max(Z) \in Z
            BY <3>1, MaxFacts
        <3> QED  BY <3>2 DEF Z
    <2>3. Weight(v) = 0
        BY <2>1, <2>2
    <2> HIDE DEF Weight
    <2> QED  BY <2>3
<1> HIDE DEF Weight
<1>4. {v \in 0..(vocabSize - 1) : Weight(v) > 0} = {}
    BY <1>3
<1> QED  BY <1>1, <1>4 DEF none

-----------------------------------------------------------------------------
(* Pruning and ordering. *)

(* An arrangement of a finite set holds each member once. *)
LEMMA Arranged ==
    ASSUME NEW S, IsFiniteSet(S), NEW s \in SetToSeqs(S)
    PROVE  /\ s \in Seq(S) /\ Len(s) = Cardinality(S) /\ Range(s) = S /\ IsInjective(s)
<1> DEFINE n == Cardinality(S)
           D == 1..n
<1>1. n \in Nat
    BY FS_CardinalityType
<1>2. s \in [D -> S] /\ \A i, j \in D : i # j => s[i] # s[j]
    BY DEF SetToSeqs
<1>3. IsFiniteSet(D) /\ Cardinality(D) = n
    <2> HIDE DEF n
    <2>1. n \in Int /\ 1 \in Int /\ Cardinality(1..n) = IF 1 > n THEN 0 ELSE n - 1 + 1
        BY <1>1, FS_Interval
    <2> QED  BY <1>1, <2>1, FS_Interval
<1>4. DOMAIN s = D
    BY <1>2
<1>5. IsInjective(s)
    BY <1>2, <1>4 DEF IsInjective
<1>6. s \in Injection(D, S)
    BY <1>2, <1>5 DEF Injection
<1>7. s \in Surjection(D, S)
    <2> HIDE DEF D
    <2> QED  BY <1>3, <1>6, FS_Injection
<1>8. Range(s) = S
    BY <1>2, <1>4, <1>7 DEF Surjection, Range
<1> HIDE DEF n
<1>9. s \in Seq(S) /\ Len(s) = n
    BY <1>1, <1>2
<1> QED  BY <1>5, <1>8, <1>9 DEF n

(* What sparse_prune_and_sort makes of a document's terms is an answer. *)
LEMMA Prunes ==
    ASSUME NEW terms, IsFiniteSet(terms), NEW opts, opts.topK \in Int,
           NEW v \in PruneAndSort(terms, opts)
    PROVE  Answers(v, terms, opts) /\ (terms = {} => v = <<>>)
<1> DEFINE heavy == {e \in terms : opts.minWeight <= 0 \/ e.w >= opts.minWeight}
           cut == opts.topK > 0 /\ Cardinality(heavy) > opts.topK
           tops == IF cut THEN Heaviest(heavy, opts.topK) ELSE {heavy}
           wanted == IF opts.topK > 0 THEN Min({opts.topK, Cardinality(heavy)})
                     ELSE Cardinality(heavy)
<1>1. heavy \in SUBSET terms
    OBVIOUS
<1>2. PICK top \in tops : v \in Ordered(top, opts.format)
    BY DEF PruneAndSort
<1>3. Answers(v, terms, opts) <=>
        /\ IsInjective(v) /\ Range(v) \subseteq heavy
        /\ Len(v) = wanted
        /\ \A x \in Range(v), y \in heavy \ Range(v) : x.w >= y.w
        /\ \A a, b \in DOMAIN v : a < b =>
             IF opts.format = "INDEX_ORDER" THEN v[a].i < v[b].i ELSE v[a].w >= v[b].w
    BY Zenon DEF Answers
<1> HIDE DEF heavy
<1>4. IsFiniteSet(heavy) /\ Cardinality(heavy) \in Nat
    BY <1>1, FS_Subset, FS_CardinalityType
<1>5. /\ top \in SUBSET heavy /\ Cardinality(top) = wanted
      /\ \A x \in top, y \in heavy \ top : x.w >= y.w
    <2> DEFINE k == opts.topK
               n == Cardinality(heavy)
    <2>1. CASE cut
        <3>1. /\ top \in SUBSET heavy /\ Cardinality(top) = k
              /\ \A x \in top, y \in heavy \ top : x.w >= y.w
            BY <1>2, <2>1 DEF Heaviest, kSubset
        <3>2. k > 0 /\ n > k
            BY <2>1
        <3>3. Min({k, n}) = k
            <4> DEFINE two == {k, n}
            <4>1. two \in SUBSET Nat /\ two # {} /\ k \in two
                BY <1>4, <3>2
            <4>2. Min(two) \in two /\ Min(two) <= k
                BY <4>1, MinFacts
            <4> HIDE DEF k, n
            <4> QED  BY <3>2, <4>1, <4>2
        <3> QED  BY <3>1, <3>2, <3>3
    <2>2. CASE ~cut
        <3>1. top = heavy
            BY <1>2, <2>2
        <3>2. k > 0 => Min({k, n}) = n
            <4> SUFFICES ASSUME k > 0 PROVE Min({k, n}) = n
                OBVIOUS
            <4> DEFINE two == {k, n}
            <4>1. two \in SUBSET Nat /\ two # {} /\ n \in two /\ n <= k
                BY <1>4, <2>2
            <4>2. Min(two) \in two /\ Min(two) <= n
                BY <4>1, MinFacts
            <4> HIDE DEF k, n
            <4> QED  BY <4>1, <4>2
        <3> QED  BY <3>1, <3>2
    <2> QED  BY <2>1, <2>2
<1>6. /\ v \in SetToSeqs(top)
      /\ \A a, b \in DOMAIN v : a < b =>
             IF opts.format = "INDEX_ORDER" THEN v[a].i < v[b].i ELSE v[a].w >= v[b].w
    BY <1>2, Zenon DEF Ordered
<1>7. IsFiniteSet(top)
    BY <1>4, <1>5, FS_Subset
<1>8. v \in Seq(top) /\ Len(v) = Cardinality(top) /\ Range(v) = top /\ IsInjective(v)
    BY <1>6, <1>7, Arranged
<1> HIDE DEF wanted
<1>9. Answers(v, terms, opts)
    BY <1>3, <1>5, <1>6, <1>8
<1>10. ASSUME terms = {} PROVE v = <<>>
    <2>1. top = {}
        BY <1>1, <1>5, <1>10
    <2> QED  BY <1>8, <2>1
<1> QED  BY <1>9, <1>10

-----------------------------------------------------------------------------
(* The answer of a call, batch by batch: the vectors pooled so far (GGUF)  *)
(* and the items written so far (ONNX) are those of their own texts.       *)
Pooled(out, lost, texts, h, m) ==
    out = [p \in 1..m |-> IF p \in lost THEN {} ELSE Terms(h, texts[p])]
Stores(items, lost, texts, opts, h, m) ==
    /\ DOMAIN items = DOMAIN texts
    /\ \A p \in 1..m : IF p \in lost THEN items[p] = <<>>
                       ELSE Answers(items[p], Terms(h, texts[p]), opts)

TermFields == {"backend", "tok", "vocabSize", "specialIds"}
HandleTerms ==
    handle # Closed =>
        /\ TermFields \subseteq DOMAIN handle /\ handle.vocabSize \in Nat
        /\ handle.backend = "onnx" => handle.specialIds = {}

AllCallFields == {"at", "texts", "size", "opts", "b", "out", "lost", "status"}
Before(b) == (b - 1) * call.size        \* the texts of the batches before b
Written(m) ==
    /\ {"count", "items"} \subseteq DOMAIN res /\ res.count = Len(call.texts)
    /\ \E items \in res.items :
          Stores(items, call.lost, call.texts, call.opts, handle, m)
CallRight ==
    /\ DOMAIN call = AllCallFields /\ call.size \in BatchSizes /\ call.opts \in Options
    /\ call.at \in {"gguf", "onnx"} =>
          /\ handle.backend = call.at
          /\ call.b \in 1..BatchCount(Len(call.texts), call.size)
          /\ call.lost \subseteq 1..Before(call.b)
    /\ call.at = "gguf" => Pooled(call.out, call.lost, call.texts, handle, Before(call.b))
    /\ call.at = "store" => Pooled(call.out, call.lost, call.texts, handle, Len(call.texts))
    /\ call.at = "onnx" => Written(Before(call.b))
    /\ call.at = "ended" /\ call.status = "OK" => Written(Len(call.texts))
AnswerInv == HandleTerms /\ (call # Idle => CallRight)

LEMMA TermsKept ==
    ASSUME NEW g, NEW h, g.tok = h.tok, g.vocabSize = h.vocabSize, g.specialIds = h.specialIds,
           NEW texts
    PROVE  \A p : Terms(g, texts[p]) = Terms(h, texts[p])
BY DEF Terms

LEMMA Joined ==
    ASSUME NEW m \in Nat, NEW k \in Nat, NEW f, f = [p \in 1..m |-> f[p]],
           NEW g, g = [p \in 1..k |-> g[p]]
    PROVE  f \o g = [p \in 1..(m + k) |-> IF p <= m THEN f[p] ELSE g[p - m]]
<1> DEFINE S == {f[p] : p \in 1..m} \cup {g[p] : p \in 1..k}
<1>1. f \in [1..m -> S] /\ g \in [1..k -> S]
    OBVIOUS
<1> HIDE DEF S
<1>2. f \in Seq(S) /\ g \in Seq(S) /\ Len(f) = m /\ Len(g) = k
    BY <1>1
<1> QED  BY <1>2

(* The next batch is pooled: each of its vectors is the text's, or the     *)
(* whole batch is lost and its vectors are empty.                          *)
LEMMA PooledGrows ==
    ASSUME NEW m \in Nat, NEW end \in Nat, m < end, NEW texts, NEW h,
           NEW out, NEW lost, lost \subseteq 1..m, Pooled(out, lost, texts, h, m),
           NEW vectors, NEW more, more \subseteq (m + 1)..end,
           vectors = [d \in 1..(end - m) |-> IF m + d \in more THEN {} ELSE Terms(h, texts[m + d])]
    PROVE  Pooled(out \o vectors, lost \cup more, texts, h, end)
<1> DEFINE all == [p \in 1..end |-> IF p \in lost \cup more THEN {} ELSE Terms(h, texts[p])]
<1>1. out = [p \in 1..m |-> IF p \in lost THEN {} ELSE Terms(h, texts[p])]
    BY DEF Pooled
<1>2. out = [p \in 1..m |-> out[p]] /\ \A p \in 1..m : out[p] = all[p]
    BY <1>1
<1>3. end - m \in Nat /\ m + (end - m) = end
    OBVIOUS
<1>4. vectors = [d \in 1..(end - m) |-> vectors[d]]
    BY <1>3
<1>5. \A p \in 1..end : p > m => vectors[p - m] = all[p]
    <2> TAKE p \in 1..end
    <2> HAVE p > m
    <2>1. p - m \in 1..(end - m) /\ m + (p - m) = p /\ p \notin lost
        OBVIOUS
    <2> QED  BY <2>1
<1> HIDE DEF all
<1>6. out \o vectors = [p \in 1..(m + (end - m)) |-> IF p <= m THEN out[p] ELSE vectors[p - m]]
    BY <1>2, <1>3, <1>4, Joined
<1>7. \A p \in 1..end : (IF p <= m THEN out[p] ELSE vectors[p - m]) = all[p]
    BY <1>2, <1>5
<1>8. out \o vectors = [p \in 1..end |-> all[p]]
    BY <1>3, <1>6, <1>7
<1> QED  BY <1>8 DEF Pooled, all

(* sparse_result_store: what each item is. *)
LEMMA StoredFacts ==
    ASSUME NEW vectors, NEW opts \in Options, NEW noMemory,
           \A d \in DOMAIN vectors : IsFiniteSet(vectors[d]),
           NEW items \in Stored(vectors, opts, noMemory)
    PROVE  /\ DOMAIN items = DOMAIN vectors
           /\ \A d \in DOMAIN vectors :
                IF d \in noMemory THEN items[d] = <<>>
                ELSE /\ Answers(items[d], vectors[d], opts)
                     /\ vectors[d] = {} => items[d] = <<>>
<1> DEFINE kept == [d \in DOMAIN vectors |->
                       IF d \in noMemory THEN {<<>>} ELSE PruneAndSort(vectors[d], opts)]
<1>1. DOMAIN items = DOMAIN vectors /\ \A d \in DOMAIN vectors : items[d] \in kept[d]
    BY Zenon DEF Stored
<1>2. ASSUME NEW d \in DOMAIN vectors
      PROVE  IF d \in noMemory THEN items[d] = <<>>
             ELSE /\ Answers(items[d], vectors[d], opts)
                  /\ vectors[d] = {} => items[d] = <<>>
    <2>1. CASE d \in noMemory
        BY <1>1, <2>1
    <2>2. CASE d \notin noMemory
        <3>1. items[d] \in PruneAndSort(vectors[d], opts)
            BY <1>1, <2>2
        <3>2. opts.topK \in Int
            BY TextsAssumption
        <3>3. IsFiniteSet(vectors[d])
            OBVIOUS
        <3> HIDE DEF kept
        <3>4. Answers(items[d], vectors[d], opts) /\ (vectors[d] = {} => items[d] = <<>>)
            BY <3>1, <3>2, <3>3, Prunes
        <3> QED  BY <2>2, <3>4
    <2> QED  BY <2>1, <2>2
<1> QED  BY <1>1, <1>2

(* The pooled vectors of a whole call, stored. *)
LEMMA StoresAll ==
    ASSUME NEW n \in Nat, NEW texts, DOMAIN texts = 1..n, NEW h, h.vocabSize \in Nat,
           NEW out, NEW lost, Pooled(out, lost, texts, h, n),
           NEW opts \in Options, NEW noMemory, NEW items \in Stored(out, opts, noMemory)
    PROVE  Stores(items, lost \cup noMemory, texts, opts, h, n)
<1>1. DOMAIN out = 1..n /\ \A p \in 1..n : out[p] = IF p \in lost THEN {} ELSE Terms(h, texts[p])
    BY DEF Pooled
<1>2. \A p \in DOMAIN out : IsFiniteSet(out[p])
    <2> TAKE p \in DOMAIN out
    <2>1. IsFiniteSet(Terms(h, texts[p]))
        BY TermsFinite DEF Terms
    <2>2. IsFiniteSet({})
        BY FS_EmptySet
    <2> QED  BY <1>1, <2>1, <2>2
<1>3. /\ DOMAIN items = DOMAIN out
      /\ \A p \in DOMAIN out :
           IF p \in noMemory THEN items[p] = <<>>
           ELSE Answers(items[p], out[p], opts) /\ (out[p] = {} => items[p] = <<>>)
    BY <1>2, StoredFacts
<1> QED  BY <1>1, <1>3 DEF Stores

Overwritten(items, stored, m) ==
    [p \in DOMAIN items |-> IF p - m \in DOMAIN stored THEN stored[p - m] ELSE items[p]]
LostToo(lost, noMemory, m) == lost \cup {m + d : d \in noMemory}

(* The next batch is written over the items of the batches before it.      *)
LEMMA StoresMore ==
    ASSUME NEW m \in Nat, NEW end \in Nat, m < end, NEW n \in Nat, end <= n,
           NEW texts, DOMAIN texts = 1..n, NEW h, h.vocabSize \in Nat,
           NEW items, NEW lost, lost \subseteq 1..m, NEW opts \in Options,
           Stores(items, lost, texts, opts, h, m),
           NEW vectors, DOMAIN vectors = 1..(end - m),
           \A d \in 1..(end - m) : vectors[d] = Terms(h, texts[m + d]),
           NEW noMemory \in SUBSET DOMAIN vectors,
           NEW stored \in Stored(vectors, opts, noMemory)
    PROVE  /\ Stores(Overwritten(items, stored, m), LostToo(lost, noMemory, m), texts, opts, h, end)
           /\ LostToo(lost, noMemory, m) \subseteq 1..end
<1> DEFINE new == [p \in DOMAIN items |-> IF p - m \in DOMAIN stored
                                          THEN stored[p - m] ELSE items[p]]
           more == lost \cup {m + d : d \in noMemory}
           D == 1..(end - m)
<1>1. DOMAIN vectors = D /\ \A d \in D : vectors[d] = Terms(h, texts[m + d])
    OBVIOUS
<1>2. \A d \in DOMAIN vectors : IsFiniteSet(vectors[d])
    <2> TAKE d \in DOMAIN vectors
    <2>1. IsFiniteSet(Terms(h, texts[m + d]))
        BY TermsFinite DEF Terms
    <2> QED  BY <1>1, <2>1
<1>3. /\ DOMAIN stored = D
      /\ \A d \in D : IF d \in noMemory THEN stored[d] = <<>>
                      ELSE Answers(stored[d], vectors[d], opts)
    <2> HIDE DEF D
    <2>1. /\ DOMAIN stored = DOMAIN vectors
          /\ \A d \in DOMAIN vectors :
               IF d \in noMemory THEN stored[d] = <<>>
               ELSE Answers(stored[d], vectors[d], opts) /\ (vectors[d] = {} => stored[d] = <<>>)
        BY <1>2, StoredFacts
    <2> QED  BY <1>1, <2>1
<1>4. DOMAIN items = 1..n /\ DOMAIN new = DOMAIN texts
    BY DEF Stores
<1>5. \A p \in 1..m : new[p] = items[p] /\ (p \in more <=> p \in lost)
    BY <1>1, <1>3, <1>4
<1>6. \A p \in (m + 1)..end : /\ p - m \in D /\ m + (p - m) = p
                              /\ new[p] = stored[p - m] /\ (p \in more <=> p - m \in noMemory)
    BY <1>1, <1>3, <1>4
<1>7. more \subseteq 1..end
    <2>1. \A d \in D : m + d \in 1..end
        OBVIOUS
    <2>2. noMemory \subseteq D /\ 1..m \subseteq 1..end
        BY <1>1
    <2> HIDE DEF D
    <2> QED  BY <2>1, <2>2
<1> HIDE DEF new, more, D
<1>8. ASSUME NEW p \in 1..end
      PROVE  IF p \in more THEN new[p] = <<>> ELSE Answers(new[p], Terms(h, texts[p]), opts)
    <2>1. CASE p \in 1..m
        BY <1>5, <2>1 DEF Stores
    <2>2. CASE p \notin 1..m
        <3>1. p \in (m + 1)..end
            BY <2>2
        <3>2. vectors[p - m] = Terms(h, texts[p])
            BY <1>1, <1>6, <3>1
        <3> DEFINE d == p - m
        <3>3. /\ d \in D /\ new[p] = stored[d] /\ vectors[d] = Terms(h, texts[p])
              /\ p \in more <=> d \in noMemory
            BY <1>6, <3>1, <3>2
        <3> HIDE DEF d
        <3> QED  BY <1>3, <3>3
    <2> QED  BY <2>1, <2>2
<1>9. Stores(new, more, texts, opts, h, end)
    BY <1>4, <1>8 DEF Stores
<1> QED  BY <1>7, <1>9 DEF new, more, Overwritten, LostToo

(* A call under way. *)
LEMMA UnderWay ==
    ASSUME SparseInv, AnswerInv, call.at \in {"gguf", "store", "onnx", "ended"}
    PROVE  /\ call # Idle /\ handle # Closed /\ CallRight
           /\ TermFields \subseteq DOMAIN handle /\ handle.vocabSize \in Nat
           /\ handle.backend = "onnx" => handle.specialIds = {}
           /\ call.texts \in TextLists /\ call.texts \in Seq(Text) /\ Len(call.texts) \in Nat \ {0}
           /\ DOMAIN call.texts = 1..Len(call.texts)
           /\ call.size \in Nat \ {0} /\ call.opts \in Options
<1>1. call # Idle
    BY DEF Idle
<1>2. handle # Closed /\ call.texts \in TextLists /\ CallRight
    BY <1>1 DEF SparseInv, CallHolds, AnswerInv
<1>3. call.texts \in Seq(Text) /\ call.texts # <<>>
    BY <1>2, TextsAssumption DEF Text
<1>4. Len(call.texts) \in Nat \ {0} /\ DOMAIN call.texts = 1..Len(call.texts)
    BY <1>3
<1>5. call.size \in Nat \ {0} /\ call.opts \in Options
    BY <1>2, TextsAssumption DEF CallRight
<1> QED  BY <1>1, <1>2, <1>3, <1>4, <1>5 DEF AnswerInv, HandleTerms

(* The batch that a call is about to run, pooled: the terms of its texts.  *)
LEMMA NextBatch ==
    ASSUME SparseInv, AnswerInv, call.at \in {"gguf", "onnx"},
           NEW start, start = Before(call.b),
           NEW enc, enc = EncodeBatch(handle.tok, BatchSeq(call.b)),
           NEW vectors, vectors = PoolBatch(enc, handle.vocabSize, handle.specialIds)
    PROVE  \E end \in Nat :
             /\ start \in Nat /\ start < end /\ end <= Len(call.texts)
             /\ Batch(call.b, Len(call.texts), call.size) = (start + 1)..end
             /\ Min(Batch(call.b, Len(call.texts), call.size)) - 1 = start
             /\ DOMAIN enc.ids = 1..(end - start)
             /\ vectors = [d \in 1..(end - start) |-> Terms(handle, call.texts[start + d])]
             /\ enc.seqLen = 0 =>
                  \A d \in 1..(end - start) : Terms(handle, call.texts[start + d]) = {}
             /\ LastBatch => end = Len(call.texts)
             /\ ~LastBatch => /\ end = Before(call.b + 1)
                              /\ call.b + 1 \in 1..BatchCount(Len(call.texts), call.size)
<1> DEFINE n == Len(call.texts)
           s == call.size
           b == call.b
<1>1. /\ handle # Closed /\ call.texts \in Seq(Text) /\ n \in Nat \ {0} /\ s \in Nat \ {0}
      /\ DOMAIN call.texts = 1..n /\ CallRight
    BY UnderWay
<1>2. BatchCount(n, s) \in Nat
    <2> HIDE DEF n, s
    <2>1. n + s - 1 \in Nat
        BY <1>1
    <2> QED  BY <1>1, <2>1, Quotient DEF BatchCount
<1>3. b \in Nat \ {0} /\ b <= BatchCount(n, s) /\ start = (b - 1) * s
    BY <1>1, <1>2 DEF CallRight, Before
<1>4. PICK end \in Nat :
             /\ start \in Nat /\ start < end /\ end <= n
             /\ Batch(b, n, s) = (start + 1)..end
             /\ Cardinality(Batch(b, n, s)) = end - start
             /\ Min(Batch(b, n, s)) = start + 1
             /\ b < BatchCount(n, s) => end = ((b + 1) - 1) * s
             /\ b = BatchCount(n, s) => end = n
    <2>1. n \in Nat /\ s \in Nat \ {0} /\ b \in Nat \ {0} /\ b <= BatchCount(n, s)
            /\ start = (b - 1) * s
        BY <1>1, <1>3
    <2> HIDE DEF n, s, b
    <2>2. \A nn \in Nat, ss \in Nat \ {0}, bb \in Nat \ {0} : bb <= BatchCount(nn, ss) =>
            \A st : st = (bb - 1) * ss => \E end \in Nat :
             /\ st \in Nat /\ st < end /\ end <= nn
             /\ Batch(bb, nn, ss) = (st + 1)..end
             /\ Cardinality(Batch(bb, nn, ss)) = end - st
             /\ Min(Batch(bb, nn, ss)) = st + 1
             /\ bb < BatchCount(nn, ss) => end = ((bb + 1) - 1) * ss
             /\ bb = BatchCount(nn, ss) => end = nn
        BY BatchIsInterval
    <2> QED  BY <2>1, <2>2
<1> DEFINE k == end - start
           texts == [i \in 1..k |-> call.texts[start + 1 + i - 1]]
<1>5. k \in Nat /\ \A i \in 1..k : start + 1 + i - 1 = start + i /\ start + i \in 1..n
    BY <1>1, <1>4
<1>6. BatchSeq(b) = texts
    BY <1>4 DEF BatchSeq
<1>7. texts \in Seq(Text) /\ DOMAIN texts = 1..k
    <2> HIDE DEF k
    <2> DEFINE At(i) == call.texts[start + 1 + i - 1]
    <2> DEFINE given == call.texts
    <2>0. \A p \in 1..n : given[p] \in Text
        BY <1>1
    <2> HIDE DEF given
    <2>1. \A i \in 1..k : At(i) \in Text
        BY <2>0, <1>5 DEF given
    <2>2. k \in Nat /\ texts = [i \in 1..k |-> At(i)]
        BY <1>5, Zenon
    <2> HIDE DEF At, texts
    <2>3. texts \in [1..k -> Text]
        BY <2>1, <2>2
    <2> QED  BY <2>2, <2>3
<1>8. \A d \in 1..k : texts[d] = call.texts[start + d]
    BY <1>5
<1> HIDE DEF k, texts
<1> DEFINE tk == handle.tok
<1>9. /\ tk.maxLength \in Nat \ {0}
      /\ \A word \in WordsOver(Chars) : Subwords(tk, word) \in Seq(Ids(tk))
    BY <1>1, OpenTokenizer
<1> HIDE DEF tk
<1>10. enc = EncodeBatch(tk, texts)
    BY <1>6 DEF tk
<1>11. /\ vectors = [d \in DOMAIN texts |->
                        RowTerms(Encode(tk, texts[d]), handle.vocabSize, handle.specialIds)]
       /\ DOMAIN enc.ids = DOMAIN texts
       /\ enc.seqLen = 0 => \A d \in DOMAIN texts : Encode(tk, texts[d]) = <<>>
    <2> DEFINE V == handle.vocabSize
               S == handle.specialIds
    <2>1. vectors = PoolBatch(enc, V, S)
        OBVIOUS
    <2> HIDE DEF V, S
    <2>2. \A tok : tok.maxLength \in Nat \ {0}
              /\ (\A word \in WordsOver(Chars) : Subwords(tok, word) \in Seq(Ids(tok))) =>
            \A ts \in Seq(Text) : LET e == EncodeBatch(tok, ts) IN
              /\ PoolBatch(e, V, S) = [d \in DOMAIN ts |-> RowTerms(Encode(tok, ts[d]), V, S)]
              /\ DOMAIN e.ids = DOMAIN ts
              /\ e.seqLen = 0 => \A d \in DOMAIN ts : Encode(tok, ts[d]) = <<>>
        BY BatchPools
    <2>3. LET e == EncodeBatch(tk, texts) IN
              /\ PoolBatch(e, V, S) = [d \in DOMAIN texts |-> RowTerms(Encode(tk, texts[d]), V, S)]
              /\ DOMAIN e.ids = DOMAIN texts
              /\ e.seqLen = 0 => \A d \in DOMAIN texts : Encode(tk, texts[d]) = <<>>
        BY <1>7, <1>9, <2>2
    <2> QED  BY <1>10, <2>1, <2>3 DEF V, S
<1>12. vectors = [d \in 1..k |-> Terms(handle, call.texts[start + d])]
    <2>1. \A d \in 1..k : RowTerms(Encode(tk, texts[d]), handle.vocabSize, handle.specialIds)
                            = Terms(handle, call.texts[start + d])
        BY <1>8 DEF Terms, tk
    <2> QED  BY <1>7, <1>11, <2>1
<1>13. ASSUME enc.seqLen = 0, NEW d \in 1..k PROVE Terms(handle, call.texts[start + d]) = {}
    <2>1. Encode(tk, texts[d]) = <<>>
        BY <1>7, <1>11, <1>13
    <2>2. Encode(handle.tok, call.texts[start + d]) = <<>>
        BY <1>8, <2>1 DEF tk
    <2> QED  BY <2>2, NoRowNoTerms DEF Terms
<1>14. DOMAIN enc.ids = 1..k
    BY <1>7, <1>11
<1>15. LastBatch => end = n
    BY <1>4 DEF LastBatch
<1>16. ~LastBatch => end = Before(b + 1) /\ b + 1 \in 1..BatchCount(n, s)
    <2> SUFFICES ASSUME ~LastBatch PROVE end = Before(b + 1) /\ b + 1 \in 1..BatchCount(n, s)
        OBVIOUS
    <2>1. b # BatchCount(n, s)
        BY DEF LastBatch
    <2> HIDE DEF n
    <2>2. b < BatchCount(n, s)
        BY <1>2, <1>3, <2>1
    <2>3. b + 1 \in 1..BatchCount(n, s)
        BY <1>2, <1>3, <2>2
    <2> QED  BY <1>4, <2>2, <2>3 DEF Before
<1>17. Min(Batch(b, n, s)) - 1 = start
    BY <1>4
<1> QED  BY <1>4, <1>12, <1>13, <1>14, <1>15, <1>16, <1>17 DEF k

(* An action that keeps what the terms are made of. *)
SameTerms(g, h) ==
    /\ DOMAIN g = DOMAIN h /\ \A field \in TermFields : g[field] = h[field]
LEMMA AnswersSame ==
    ASSUME NEW g, NEW h, SameTerms(g, h), NEW texts, NEW lost, NEW m
    PROVE  /\ \A out : Pooled(out, lost, texts, h, m) => Pooled(out, lost, texts, g, m)
           /\ \A items, opts : Stores(items, lost, texts, opts, h, m)
                                 => Stores(items, lost, texts, opts, g, m)
<1>1. g.tok = h.tok /\ g.vocabSize = h.vocabSize /\ g.specialIds = h.specialIds
    BY DEF SameTerms, TermFields
<1>2. \A p : Terms(g, texts[p]) = Terms(h, texts[p])
    BY <1>1, TermsKept
<1> QED  BY <1>2 DEF Pooled, Stores

LEMMA HandleTermsKept ==
    ASSUME AnswerInv, handle # Closed, SameTerms(handle', handle)
    PROVE  HandleTerms' /\ handle'.backend = handle.backend
<1>1. TermFields \subseteq DOMAIN handle'
    BY DEF AnswerInv, HandleTerms, SameTerms
<1>2. /\ handle'.backend = handle.backend /\ handle'.vocabSize = handle.vocabSize
      /\ handle'.specialIds = handle.specialIds
    BY DEF SameTerms, TermFields
<1> QED  BY <1>1, <1>2 DEF AnswerInv, HandleTerms

LEMMA AnswerInit == Init => AnswerInv
BY DEF Init, AnswerInv, HandleTerms

(* The first batch of a call. *)
LEMMA FirstBatch ==
    ASSUME NEW n \in Nat \ {0}, NEW s \in Nat \ {0}
    PROVE  1 \in 1..BatchCount(n, s) /\ (1 - 1) * s = 0
<1> DEFINE q == BatchCount(n, s)
<1>1. n + s - 1 \in Nat /\ n + s - 1 >= s
    OBVIOUS
<1>2. q \in Nat /\ n + s - 1 < q * s + s
    BY <1>1, Quotient DEF BatchCount
<1> HIDE DEF q
<1>3. q # 0
    <2> SUFFICES ASSUME q = 0 PROVE FALSE
        OBVIOUS
    <2>1. q * s = 0
        BY <1>2
    <2> QED  BY <1>1, <1>2, <2>1
<1>4. 1 \in 1..q
    BY <1>2, <1>3
<1>5. (1 - 1) * s = 0
    OBVIOUS
<1> QED  BY <1>4, <1>5 DEF q

LEMMA AnswerOpen ==
    ASSUME SparseInv, SparseInv',
           \/ \E name \in DOMAIN GgufFiles, request \in Requests, memory \in BOOLEAN :
                 OpenGguf(name, request, memory)
           \/ \E name \in DOMAIN JsonFiles, request \in {r \in Requests : r > 0} :
                 OpenOnnx(name, request)
    PROVE  AnswerInv'
<1>1. handle = Closed /\ call' = call
    BY DEF OpenGguf, OpenOnnx
<1>2. call' = Idle
    BY <1>1 DEF SparseInv, CallHolds
<1>3. ASSUME NEW name \in DOMAIN GgufFiles, NEW request \in Requests, NEW memory \in BOOLEAN,
             OpenGguf(name, request, memory)
      PROVE  HandleTerms'
    <2>1. PICK s \in LoadSession(GgufFiles[name], request, memory) :
              handle' = [backend |-> "gguf", file |-> name, tok |-> s.tok,
                         vocabSize |-> s.vocabSize, positions |-> s.positions,
                         specialIds |-> s.specialIds, graph |-> NoGraph,
                         texts |-> 0, batches |-> 0]
        BY <1>3 DEF OpenGguf
    <2>2. s.vocabSize \in Nat
        BY <2>1, LoadSessionFacts
    <2>3. /\ TermFields \subseteq DOMAIN handle' /\ handle'.backend = "gguf"
          /\ handle'.vocabSize = s.vocabSize
        BY <2>1 DEF TermFields
    <2> QED  BY <2>2, <2>3 DEF HandleTerms
<1>4. ASSUME NEW name \in DOMAIN JsonFiles, NEW request \in {r \in Requests : r > 0},
             OpenOnnx(name, request)
      PROVE  HandleTerms'
    <2>1. handle' = [backend |-> "onnx", file |-> name,
                     tok |-> LoadFromBlob(JsonFiles[name], request),
                     vocabSize |-> OnnxVocab, specialIds |-> {}, texts |-> 0, batches |-> 0]
        BY <1>4 DEF OpenOnnx
    <2>2. /\ TermFields \subseteq DOMAIN handle' /\ handle'.specialIds = {}
          /\ handle'.vocabSize = OnnxVocab
        BY <2>1 DEF TermFields
    <2> QED  BY <2>2, TextsAssumption DEF HandleTerms
<1> QED  BY <1>2, <1>3, <1>4 DEF AnswerInv

LEMMA AnswerEmbed ==
    ASSUME SparseInv, AnswerInv,
           NEW texts \in TextLists, NEW size \in BatchSizes, NEW opts \in Options,
           Embed(texts, size, opts) \/ EmbedNoItems(texts, size, opts)
    PROVE  AnswerInv'
<1>1. handle # Closed /\ handle' = handle
    BY DEF Embed, EmbedNoItems
<1>2. handle.backend \in {"gguf", "onnx"}
    BY <1>1 DEF SparseInv, HandleHolds, HoldsGguf, HoldsOnnx
<1>3. HandleTerms'
    BY <1>1 DEF AnswerInv, HandleTerms
<1> DEFINE n == Len(texts)
<1>4. n \in Nat \ {0} /\ DOMAIN texts = 1..n /\ size \in Nat \ {0}
    <2>1. texts \in Seq(Text) /\ texts # <<>>
        BY TextsAssumption DEF Text
    <2> QED  BY <2>1, TextsAssumption
<1>5. CASE Embed(texts, size, opts)
    <2>1. call' = [at |-> handle.backend, texts |-> texts, size |-> size, opts |-> opts,
                   b |-> 1, out |-> <<>>, lost |-> {}, status |-> ""]
        BY <1>5 DEF Embed
    <2>2. /\ DOMAIN call' = AllCallFields /\ call'.at = handle.backend /\ call'.texts = texts
          /\ call'.size = size /\ call'.opts = opts /\ call'.b = 1 /\ call'.out = <<>>
          /\ call'.lost = {} /\ call'.status = ""
        BY <2>1 DEF AllCallFields
    <2>3. /\ call'.b \in 1..BatchCount(Len(call'.texts), call'.size)
          /\ Before(call.b)' = 0
        BY <1>4, <2>2, FirstBatch DEF Before
    <2>4. Pooled(<<>>, {}, texts, handle', 0)
        BY DEF Pooled
    <2>5. handle.backend = "onnx" => Written(0)'
        <3> SUFFICES ASSUME handle.backend = "onnx" PROVE Written(0)'
            OBVIOUS
        <3> DEFINE blank == [p \in 1..n |-> <<>>]
        <3>1. res' = [count |-> n, items |-> {blank}, by |-> "call", freed |-> ""]
            BY <1>5 DEF Embed
        <3>2. {"count", "items"} \subseteq DOMAIN res' /\ res'.count = n /\ res'.items = {blank}
            BY <3>1
        <3>3. Stores(blank, {}, texts, opts, handle', 0)
            BY <1>4 DEF Stores
        <3> HIDE DEF blank
        <3> QED  BY <2>2, <3>2, <3>3 DEF Written
    <2>6. CallRight'
        BY <1>1, <1>2, <2>2, <2>3, <2>4, <2>5 DEF CallRight
    <2> QED  BY <1>3, <2>6 DEF AnswerInv
<1>6. CASE EmbedNoItems(texts, size, opts)
    <2>1. call' = [at |-> "ended", texts |-> texts, size |-> size, opts |-> opts,
                   b |-> 1, out |-> <<>>, lost |-> {}, status |-> "OUT_OF_MEMORY"]
        BY <1>6 DEF EmbedNoItems
    <2>2. /\ DOMAIN call' = AllCallFields /\ call'.at = "ended"
          /\ call'.size = size /\ call'.opts = opts /\ call'.status # "OK"
        BY <2>1 DEF AllCallFields
    <2>3. CallRight'
        BY <2>2 DEF CallRight
    <2> QED  BY <1>3, <2>3 DEF AnswerInv
<1> QED  BY <1>5, <1>6

LEMMA AnswerGgufBatch ==
    ASSUME SparseInv, AnswerInv, GgufBatch
    PROVE  AnswerInv'
<1> DEFINE n == Len(call.texts)
           start == Before(call.b)
<1>1. call.at = "gguf"
    BY DEF GgufBatch
<1>2. /\ call # Idle /\ handle # Closed /\ CallRight /\ TermFields \subseteq DOMAIN handle
    BY <1>1, UnderWay
<1>3. DOMAIN call = AllCallFields
    BY <1>2 DEF CallRight
<1> DEFINE enc == EncodeBatch(handle.tok, BatchSeq(call.b))
           vectors == PoolBatch(enc, handle.vocabSize, handle.specialIds)
           empty == [b \in DOMAIN enc.ids |-> {}]
           B == Batch(call.b, n, call.size)
           at == IF LastBatch THEN "store" ELSE "gguf"
           Moves(vs, more) ==
             /\ DOMAIN call' = AllCallFields /\ call'.texts = call.texts
             /\ call'.size = call.size /\ call'.opts = call.opts
             /\ call'.out = call.out \o vs /\ call'.b = call.b + 1
             /\ call'.lost = call.lost \cup more /\ call'.at = at
<1>4. PICK end \in Nat :
             /\ start \in Nat /\ start < end /\ end <= n
             /\ B = (start + 1)..end
             /\ DOMAIN enc.ids = 1..(end - start)
             /\ vectors = [d \in 1..(end - start) |-> Terms(handle, call.texts[start + d])]
             /\ enc.seqLen = 0 =>
                  \A d \in 1..(end - start) : Terms(handle, call.texts[start + d]) = {}
             /\ LastBatch => end = n
             /\ ~LastBatch => /\ end = Before(call.b + 1)
                              /\ call.b + 1 \in 1..BatchCount(n, call.size)
    BY <1>1, NextBatch
<1>5. RunGraph(enc) = vectors
    <2> HIDE DEF enc
    <2> QED  BY Zenon DEF RunGraph, NeedsRebuild
<1>6. \/ enc.seqLen = 0 /\ Moves(empty, {})
      \/ Moves(vectors, {})
      \/ Moves(empty, B)
    <2>1. \/ /\ enc.seqLen = 0
             /\ call' = [call EXCEPT !.out = @ \o empty, !.b = @ + 1,
                                     !.at = IF LastBatch THEN "store" ELSE @]
          \/ call' = [call EXCEPT !.out = @ \o RunGraph(enc), !.b = @ + 1,
                                  !.at = IF LastBatch THEN "store" ELSE @]
          \/ call' = [call EXCEPT !.out = @ \o empty, !.b = @ + 1, !.lost = @ \cup B,
                                  !.at = IF LastBatch THEN "store" ELSE @]
        BY Zenon DEF GgufBatch
    <2> HIDE DEF enc, vectors, empty, B
    <2>2. ASSUME NEW vs, call' = [call EXCEPT !.out = @ \o vs, !.b = @ + 1,
                                              !.at = IF LastBatch THEN "store" ELSE @]
          PROVE  Moves(vs, {})
        BY <1>1, <1>3, <2>2 DEF AllCallFields
    <2>3. ASSUME call' = [call EXCEPT !.out = @ \o empty, !.b = @ + 1, !.lost = @ \cup B,
                                      !.at = IF LastBatch THEN "store" ELSE @]
          PROVE  Moves(empty, B)
        BY <1>1, <1>3, <2>3 DEF AllCallFields
    <2> HIDE DEF Moves
    <2> QED  BY <1>5, <2>1, <2>2, <2>3
<1>7. SameTerms(handle', handle)
    <2>1. handle' = handle \/ \E g : handle' = [handle EXCEPT !.graph = g]
        BY DEF GgufBatch
    <2> QED  BY <1>2, <2>1 DEF SameTerms, TermFields
<1> HIDE DEF enc, vectors, empty, B, start, n
<1> DEFINE Lost(more) ==
             [d \in 1..(end - start) |->
                 IF start + d \in more THEN {} ELSE Terms(handle, call.texts[start + d])]
<1>8. PICK vs, more : Moves(vs, more) /\ more \subseteq (start + 1)..end /\ vs = Lost(more)
    <2>1. empty = [d \in 1..(end - start) |-> {}]
        BY <1>4 DEF empty
    <2>2. enc.seqLen = 0 => empty = Lost({})
        BY <1>4, <2>1
    <2>3. vectors = Lost({})
        BY <1>4
    <2>4. empty = Lost(B) /\ B \subseteq (start + 1)..end
        <3>1. \A d \in 1..(end - start) : start + d \in B
            BY <1>4
        <3> QED  BY <1>4, <2>1, <3>1
    <2> HIDE DEF Moves, Lost
    <2> QED  BY <1>6, <2>2, <2>3, <2>4, Zenon
<1>9. call.lost \subseteq 1..start /\ Pooled(call.out, call.lost, call.texts, handle, start)
    BY <1>1, <1>2 DEF CallRight, start
<1>10. Pooled(call.out \o vs, call.lost \cup more, call.texts, handle, end)
    <2>1. start \in Nat /\ start < end
        BY <1>4
    <2> QED  BY <1>8, <1>9, <2>1, PooledGrows
<1>11. Pooled(call'.out, call'.lost, call'.texts, handle', end)
    <2>1. \A texts, lost, m, out :
             Pooled(out, lost, texts, handle, m) => Pooled(out, lost, texts, handle', m)
        BY <1>7, AnswersSame
    <2> QED  BY <1>8, <1>10, <2>1
<1>12. HandleTerms' /\ handle'.backend = handle.backend
    BY <1>2, <1>7, HandleTermsKept
<1>13. call.size \in BatchSizes /\ call.opts \in Options /\ handle.backend = "gguf"
    BY <1>1, <1>2 DEF CallRight
<1>14. call'.lost \subseteq 1..end
    <2>1. start \in Nat /\ start < end
        BY <1>4
    <2>2. call'.lost = call.lost \cup more /\ more \subseteq (start + 1)..end
        BY <1>8
    <2>3. 1..start \subseteq 1..end /\ (start + 1)..end \subseteq 1..end
        BY <2>1
    <2> QED  BY <1>9, <2>2, <2>3, Zenon
<1>15. CallRight'
    <2>1. CASE LastBatch
        <3>1. call'.at = "store" /\ end = Len(call'.texts)
            BY <1>4, <1>8, <2>1 DEF n
        <3> QED  BY <1>8, <1>11, <1>13, <3>1 DEF CallRight
    <2>2. CASE ~LastBatch
        <3>1. call'.at = "gguf" /\ end = Before(call.b)'
                /\ call'.b \in 1..BatchCount(Len(call'.texts), call'.size)
            BY <1>4, <1>8, <2>2 DEF n, Before
        <3> QED  BY <1>8, <1>11, <1>12, <1>13, <1>14, <3>1 DEF CallRight
    <2> QED  BY <2>1, <2>2
<1> QED  BY <1>12, <1>15 DEF AnswerInv

LEMMA AnswerStore ==
    ASSUME SparseInv, AnswerInv, GgufStore
    PROVE  AnswerInv'
<1> DEFINE n == Len(call.texts)
<1>1. call.at = "store"
    BY DEF GgufStore
<1>2. /\ call # Idle /\ handle # Closed /\ CallRight /\ TermFields \subseteq DOMAIN handle
      /\ handle.vocabSize \in Nat /\ n \in Nat /\ DOMAIN call.texts = 1..n /\ call.opts \in Options
    BY <1>1, UnderWay
<1>3. PICK noMemory, items :
        /\ items \in Stored(call.out, call.opts, noMemory)
        /\ res' = [count |-> Len(call.out), items |-> {items}, by |-> "call", freed |-> ""]
        /\ call' = [call EXCEPT !.at = "ended", !.status = "OK", !.lost = @ \cup noMemory]
    BY DEF GgufStore
<1>4. /\ DOMAIN call' = AllCallFields /\ call'.at = "ended" /\ call'.texts = call.texts
      /\ call'.size = call.size /\ call'.opts = call.opts
      /\ call'.lost = call.lost \cup noMemory
    BY <1>2, <1>3 DEF CallRight, AllCallFields
<1>5. SameTerms(handle', handle)
    <2>1. \E g, h : handle' = [handle EXCEPT !.texts = g, !.batches = h]
        BY DEF GgufStore
    <2> QED  BY <1>2, <2>1 DEF SameTerms, TermFields
<1>6. Pooled(call.out, call.lost, call.texts, handle, n)
    BY <1>1, <1>2 DEF CallRight
<1> DEFINE texts == call.texts
           lost == call.lost
<1> HIDE DEF n
<1>7. Stores(items, lost \cup noMemory, texts, call.opts, handle, n)
    <2> HIDE DEF texts, lost
    <2>1. DOMAIN texts = 1..n /\ Pooled(call.out, lost, texts, handle, n)
        BY <1>2, <1>6 DEF texts, lost
    <2>2. items \in Stored(call.out, call.opts, noMemory)
        BY <1>3
    <2> QED  BY <1>2, <2>1, <2>2, StoresAll
<1>8. Stores(items, call'.lost, call'.texts, call'.opts, handle', n)
    <2>1. \A ts, lo, m, it, opts :
             Stores(it, lo, ts, opts, handle, m) => Stores(it, lo, ts, opts, handle', m)
        BY <1>5, AnswersSame
    <2> QED  BY <1>4, <1>7, <2>1
<1>9. Len(call.out) = n
    <2>1. call.out = [p \in 1..n |-> call.out[p]]
        BY <1>6 DEF Pooled
    <2> HIDE DEF n
    <2> QED  BY <1>2, <2>1
<1>10. Written(Len(call.texts))'
    <2>1. /\ {"count", "items"} \subseteq DOMAIN res' /\ res'.count = n /\ res'.items = {items}
        BY <1>3, <1>9
    <2>2. Len(call'.texts) = n
        BY <1>4 DEF n
    <2> QED  BY <1>8, <2>1, <2>2 DEF Written
<1>11. HandleTerms'
    BY <1>2, <1>5, HandleTermsKept
<1>12. CallRight'
    BY <1>2, <1>4, <1>10 DEF CallRight
<1> QED  BY <1>11, <1>12 DEF AnswerInv

LEMMA AnswerOnnxBatch ==
    ASSUME SparseInv, AnswerInv, OnnxBatch
    PROVE  AnswerInv'
<1> DEFINE n == Len(call.texts)
           start == Before(call.b)
<1>1. call.at = "onnx"
    BY DEF OnnxBatch
<1>2. /\ call # Idle /\ handle # Closed /\ CallRight /\ TermFields \subseteq DOMAIN handle
      /\ handle.vocabSize \in Nat /\ (handle.backend = "onnx" => handle.specialIds = {})
      /\ n \in Nat /\ DOMAIN call.texts = 1..n
    BY <1>1, UnderWay
<1>3. /\ DOMAIN call = AllCallFields /\ handle.backend = "onnx" /\ handle.specialIds = {}
      /\ call.size \in BatchSizes /\ call.opts \in Options /\ call.lost \subseteq 1..start
      /\ Written(start)
    BY <1>1, <1>2 DEF CallRight
<1> DEFINE enc == EncodeBatch(handle.tok, BatchSeq(call.b))
           vectors == PoolBatch(enc, handle.vocabSize, handle.specialIds)
           B == Batch(call.b, n, call.size)
<1>4. PICK end \in Nat :
             /\ start \in Nat /\ start < end /\ end <= n
             /\ B = (start + 1)..end
             /\ Min(B) - 1 = start
             /\ DOMAIN enc.ids = 1..(end - start)
             /\ vectors = [d \in 1..(end - start) |-> Terms(handle, call.texts[start + d])]
             /\ enc.seqLen = 0 =>
                  \A d \in 1..(end - start) : Terms(handle, call.texts[start + d]) = {}
             /\ LastBatch => end = n
             /\ ~LastBatch => /\ end = Before(call.b + 1)
                              /\ call.b + 1 \in 1..BatchCount(n, call.size)
    BY <1>1, NextBatch
<1>5. PICK noMemory, stored, all :
        /\ noMemory \in SUBSET DOMAIN vectors /\ stored \in Stored(vectors, call.opts, noMemory)
        /\ all = {Overwritten(items, stored, start) : items \in res.items}
        /\ res' = [res EXCEPT !.items = all]
        /\ call' = [call EXCEPT !.b = @ + 1, !.lost = LostToo(@, noMemory, start),
                                !.at = IF LastBatch THEN "ended" ELSE @,
                                !.status = IF LastBatch THEN "OK" ELSE @]
    <2>1. vectors = PoolBatch(enc, handle.vocabSize, {})
        BY <1>3
    <2> DEFINE st == Min(B) - 1
    <2> HIDE DEF vectors, enc
    <2>2. PICK e \in {enc} :
            LET vs == PoolBatch(e, handle.vocabSize, {}) IN
            \E noMemory \in SUBSET DOMAIN vs : \E stored \in Stored(vs, call.opts, noMemory) :
                /\ res' = [res EXCEPT !.items = {Overwritten(items, stored, st) : items \in @}]
                /\ call' = [call EXCEPT !.b = @ + 1, !.lost = LostToo(@, noMemory, st),
                                        !.at = IF LastBatch THEN "ended" ELSE @,
                                        !.status = IF LastBatch THEN "OK" ELSE @]
        BY Zenon DEF OnnxBatch, enc, Overwritten, LostToo
    <2>3. PICK noMemory \in SUBSET DOMAIN vectors :
            \E stored \in Stored(vectors, call.opts, noMemory) :
                /\ res' = [res EXCEPT !.items = {Overwritten(items, stored, st) : items \in @}]
                /\ call' = [call EXCEPT !.b = @ + 1, !.lost = LostToo(@, noMemory, st),
                                        !.at = IF LastBatch THEN "ended" ELSE @,
                                        !.status = IF LastBatch THEN "OK" ELSE @]
        BY <2>1, <2>2, Zenon
    <2>4. PICK stored \in Stored(vectors, call.opts, noMemory) :
                /\ res' = [res EXCEPT !.items = {Overwritten(items, stored, st) : items \in @}]
                /\ call' = [call EXCEPT !.b = @ + 1, !.lost = LostToo(@, noMemory, st),
                                        !.at = IF LastBatch THEN "ended" ELSE @,
                                        !.status = IF LastBatch THEN "OK" ELSE @]
        BY <2>3
    <2>5. st = start
        BY <1>4
    <2> DEFINE all == {Overwritten(items, stored, st) : items \in res.items}
    <2> HIDE DEF st, start, B
    <2>6. all = {Overwritten(items, stored, start) : items \in res.items}
        BY <2>5
    <2>7. res' = [res EXCEPT !.items = all]
        BY <2>4, Zenon
    <2> HIDE DEF all
    <2>8. call' = [call EXCEPT !.b = @ + 1, !.lost = LostToo(@, noMemory, start),
                              !.at = IF LastBatch THEN "ended" ELSE @,
                              !.status = IF LastBatch THEN "OK" ELSE @]
        BY <2>4, <2>5
    <2> QED  BY <2>4, <2>6, <2>7, <2>8
<1> DEFINE more == LostToo(call.lost, noMemory, start)
<1>6. /\ DOMAIN call' = AllCallFields /\ call'.texts = call.texts
      /\ call'.size = call.size /\ call'.opts = call.opts /\ call'.b = call.b + 1
      /\ call'.lost = more
      /\ call'.at = IF LastBatch THEN "ended" ELSE "onnx"
    BY <1>1, <1>3, <1>5 DEF AllCallFields
<1>7. PICK items \in res.items : Stores(items, call.lost, call.texts, call.opts, handle, start)
    BY <1>3 DEF Written
<1> DEFINE new == Overwritten(items, stored, start)
<1>8. /\ {"count", "items"} \subseteq DOMAIN res' /\ res'.count = n /\ new \in res'.items
    <2>1. {"count", "items"} \subseteq DOMAIN res /\ res.count = n
        BY <1>3 DEF Written
    <2>2. new \in all
        BY <1>5, <1>7
    <2> HIDE DEF new, n
    <2>3. DOMAIN res' = DOMAIN res /\ res'.count = res.count /\ res'.items = all
        BY <1>5, <2>1
    <2> QED  BY <2>1, <2>2, <2>3
<1> DEFINE vs == vectors
           texts == call.texts
           lost == call.lost
           opts == call.opts
<1>9. Stores(new, more, texts, opts, handle, end) /\ more \subseteq 1..end
    <2>1. /\ DOMAIN vs = 1..(end - start)
          /\ \A d \in 1..(end - start) : vs[d] = Terms(handle, texts[start + d])
        <3> HIDE DEF vectors, start
        <3> QED  BY <1>4
    <2>2. /\ noMemory \in SUBSET DOMAIN vs /\ stored \in Stored(vs, opts, noMemory)
          /\ DOMAIN texts = 1..n /\ opts \in Options /\ lost \subseteq 1..start
          /\ Stores(items, lost, texts, opts, handle, start) /\ n \in Nat /\ handle.vocabSize \in Nat
          /\ start \in Nat /\ start < end /\ end <= n
        BY <1>2, <1>3, <1>4, <1>5, <1>7
    <2> HIDE DEF vs, texts, lost, opts, start, n
    <2>3. /\ Stores(Overwritten(items, stored, start), LostToo(lost, noMemory, start),
                    texts, opts, handle, end)
          /\ LostToo(lost, noMemory, start) \subseteq 1..end
        BY <2>1, <2>2, StoresMore
    <2> QED  BY <2>3 DEF lost
<1>10. SameTerms(handle', handle)
    <2>1. handle' = handle \/ \E g, h : handle' = [handle EXCEPT !.texts = g, !.batches = h]
        BY Zenon DEF OnnxBatch
    <2> QED  BY <1>2, <2>1 DEF SameTerms, TermFields
<1> HIDE DEF enc, vectors, more, new, vs
<1>11. Stores(new, call'.lost, call'.texts, call'.opts, handle', end)
    <2>1. \A ts, lo, m, it, op :
             Stores(it, lo, ts, op, handle, m) => Stores(it, lo, ts, op, handle', m)
        BY <1>10, AnswersSame
    <2> QED  BY <1>6, <1>9, <2>1
<1>12. Written(end)'
    BY <1>6, <1>8, <1>11 DEF Written
<1>13. HandleTerms' /\ handle'.backend = handle.backend
    BY <1>2, <1>10, HandleTermsKept
<1>14. CallRight'
    <2>1. CASE LastBatch
        <3>1. call'.at = "ended" /\ end = Len(call'.texts)
            BY <1>4, <1>6, <2>1
        <3> QED  BY <1>3, <1>6, <1>12, <3>1 DEF CallRight
    <2>2. CASE ~LastBatch
        <3>1. call'.at = "onnx" /\ end = Before(call.b)'
                /\ call'.b \in 1..BatchCount(Len(call'.texts), call'.size)
            BY <1>4, <1>6, <2>2 DEF Before
        <3>2. call'.lost \subseteq 1..end
            BY <1>6, <1>9
        <3> QED  BY <1>3, <1>6, <1>12, <1>13, <3>1, <3>2 DEF CallRight
    <2> QED  BY <2>1, <2>2
<1> QED  BY <1>13, <1>14 DEF AnswerInv

(* What ends a call with an error owes no answer. *)
LEMMA AnswerFails ==
    ASSUME SparseInv, AnswerInv, GgufThrows \/ GgufStoreNoItems \/ OnnxThrows
    PROVE  AnswerInv'
<1>1. /\ call.at \in {"gguf", "store", "onnx"} /\ handle' = handle
      /\ \E e : e # "OK" /\ call' = [call EXCEPT !.at = "ended", !.status = e]
    BY DEF GgufThrows, GgufStoreNoItems, OnnxThrows
<1>2. CallRight
    BY <1>1, UnderWay
<1>3. DOMAIN call = AllCallFields /\ call.size \in BatchSizes /\ call.opts \in Options
    BY <1>2 DEF CallRight
<1>4. /\ DOMAIN call' = AllCallFields /\ call'.at = "ended" /\ call'.status # "OK"
      /\ call'.size = call.size /\ call'.opts = call.opts
    BY <1>1, <1>3 DEF AllCallFields
<1>5. CallRight'
    BY <1>3, <1>4 DEF CallRight
<1> QED  BY <1>1, <1>5 DEF AnswerInv, HandleTerms

LEMMA AnswerStep == SparseInv /\ SparseInv' /\ AnswerInv /\ [Next]_vars => AnswerInv'
<1> SUFFICES ASSUME SparseInv, SparseInv', AnswerInv, [Next]_vars PROVE AnswerInv'
    OBVIOUS
<1>1. ASSUME OpenOnnxThrows \/ UNCHANGED vars PROVE AnswerInv'
    <2>1. handle' = handle /\ call' = call /\ res' = res
        BY <1>1 DEF OpenOnnxThrows, vars
    <2> QED  BY <2>1 DEF AnswerInv, HandleTerms, CallRight, Written, Before
<1>2. CASE Close
    <2>1. handle' = Closed /\ call' = Idle
        BY <1>2 DEF Close
    <2> QED  BY <2>1 DEF AnswerInv, HandleTerms
<1>3. CASE Return
    <2>1. handle' = handle /\ call' = Idle
        BY <1>3 DEF Return
    <2> QED  BY <2>1 DEF AnswerInv, HandleTerms
<1> QED  BY <1>1, <1>2, <1>3, AnswerOpen, AnswerEmbed, AnswerGgufBatch, AnswerStore,
            AnswerOnnxBatch, AnswerFails DEF Next

(* A batch adds to the answer the vectors of its own texts, whatever was   *)
(* embedded before it with this handle (SparseSession::embed_batch,        *)
(* sparse_result_store).                                                   *)
THEOREM AnswerInvariant == Spec => []AnswerInv
<1>1. Init => SparseInv /\ AnswerInv
    BY SparseInit, AnswerInit
<1>2. SparseInv /\ AnswerInv /\ [Next]_vars => SparseInv' /\ AnswerInv'
    BY SparseStep, AnswerStep
<1> QED  BY <1>1, <1>2, PTL DEF Spec

(* A call that returned OK, of either backend, with any batch size, any    *)
(* texts, any number of calls before it on the handle, and whatever failed *)
(* on the way, gives every text in its place the vector of that text alone *)
(* (lembed_sparse_text_embed, SparseSession::embed, splade_pool,           *)
(* sparse_prune_and_sort).                                                 *)
THEOREM SparseAlwaysRight == Spec => []SparseRight
<1>1. SparseInv /\ AnswerInv => SparseRight
    <2> SUFFICES ASSUME SparseInv, AnswerInv, call # Idle, call.at = "ended", call.status = "OK"
                 PROVE  /\ res.count = Len(call.texts)
                        /\ \E items \in res.items :
                             /\ DOMAIN items = DOMAIN call.texts
                             /\ \A p \in DOMAIN items :
                                  IF p \in call.lost THEN items[p] = <<>>
                                  ELSE Answers(items[p], TermsOf(call.texts[p]), call.opts)
        BY DEF SparseRight
    <2>1. CallRight /\ DOMAIN call.texts = 1..Len(call.texts)
        BY UnderWay
    <2>2. Written(Len(call.texts))
        BY <2>1 DEF CallRight
    <2>3. PICK items \in res.items :
            Stores(items, call.lost, call.texts, call.opts, handle, Len(call.texts))
        BY <2>2 DEF Written
    <2>4. \A p \in DOMAIN call.texts : TermsOf(call.texts[p]) = Terms(handle, call.texts[p])
        BY TermsOfIs
    <2> QED  BY <2>1, <2>2, <2>3, <2>4 DEF Written, Stores
<1> QED  BY <1>1, SparseInvariant, AnswerInvariant, PTL

-----------------------------------------------------------------------------
(* Two tokenizers of one model.  What they have in common is enough to     *)
(* spell every text alike: the id that pads a row is not part of it.       *)
SameTables(a, b) ==
    /\ a.type = "WORDPIECE" /\ b.type = "WORDPIECE" /\ a.lower /\ b.lower
    /\ a.special /\ b.special
    /\ a.vocab = b.vocab /\ a.prefix = b.prefix /\ a.unk = b.unk
    /\ a.cls = b.cls /\ a.sep = b.sep /\ a.maxLength = b.maxLength

LEMMA TakePieceSame ==
    ASSUME NEW a, NEW b, SameTables(a, b), NEW word, NEW acc
    PROVE  TakePiece(a, word, acc) = TakePiece(b, word, acc)
<1>1. a.vocab = b.vocab /\ a.prefix = b.prefix /\ a.unk = b.unk
    BY DEF SameTables
<1>2. \A start, end : Piece(a, word, start, end) = Piece(b, word, start, end)
    BY <1>1 DEF Piece
<1>3. \A start : LongestEnd(a, word, start) = LongestEnd(b, word, start)
    <2> TAKE start
    <2>1. {e \in start..Len(word) : Piece(a, word, start, e) \in DOMAIN a.vocab}
            = {e \in start..Len(word) : Piece(b, word, start, e) \in DOMAIN b.vocab}
        BY <1>1, <1>2
    <2> QED  BY <2>1 DEF LongestEnd
<1> QED  BY <1>1, <1>2, <1>3 DEF TakePiece

LEMMA WordPieceSame ==
    ASSUME NEW a, NEW b, SameTables(a, b), NEW C, NEW word \in Seq(C)
    PROVE  WordPiece(a, word) = WordPiece(b, word)
<1> DEFINE len == Len(word)
<1>0. len \in Nat /\ a.vocab = b.vocab
    BY DEF SameTables
<1>1. PICK r : /\ Taking(r, a, word)
               /\ WordPiece(a, word) = IF word \in DOMAIN a.vocab THEN <<a.vocab[word]>> ELSE r[len].ids
    BY TakeExists
<1>2. PICK t : /\ Taking(t, b, word)
               /\ WordPiece(b, word) = IF word \in DOMAIN b.vocab THEN <<b.vocab[word]>> ELSE t[len].ids
    BY TakeExists
<1> DEFINE B == {k \in 0..len : r[k] = t[k]}
<1>3. 0 \in B
    BY <1>0, <1>1, <1>2 DEF Taking
<1>4. \A k \in 1..len : k - 1 \in B => k \in B
    <2> TAKE k \in 1..len
    <2> HAVE k - 1 \in B
    <2>1. r[k] = TakePiece(a, word, r[k - 1]) /\ t[k] = TakePiece(b, word, t[k - 1])
        BY <1>1, <1>2 DEF Taking
    <2>2. TakePiece(a, word, t[k - 1]) = TakePiece(b, word, t[k - 1])
        BY TakePieceSame
    <2>3. r[k - 1] = t[k - 1] /\ k \in 0..len
        BY <1>0
    <2> QED  BY <2>1, <2>2, <2>3
<1> HIDE DEF B, len
<1>5. \A k \in 0..len : k \in B
    BY <1>0, <1>3, <1>4, Induct
<1>6. r[len] = t[len]
    BY <1>0, <1>5 DEF B
<1>7. CASE word \in DOMAIN a.vocab
    BY <1>0, <1>1, <1>2, <1>7, Zenon
<1>8. CASE word \notin DOMAIN a.vocab
    BY <1>0, <1>1, <1>2, <1>6, <1>8, Zenon
<1> QED  BY <1>7, <1>8

LEMMA EncodeSame ==
    ASSUME NEW a, NEW b, SameTables(a, b), NEW text \in Text
    PROVE  Encode(a, text) = Encode(b, text)
<1>0. /\ a.type = "WORDPIECE" /\ b.type = "WORDPIECE" /\ a.lower /\ b.lower
      /\ a.special /\ b.special
      /\ a.cls = b.cls /\ a.sep = b.sep /\ a.maxLength = b.maxLength
    BY Zenon DEF SameTables
<1>1. \A word \in WordsOver(Chars) :
         Subwords(a, word) = WordPiece(a, word) /\ Subwords(b, word) = WordPiece(b, word)
    BY <1>0, Zenon DEF Subwords
<1>2. ASSUME NEW word \in WordsOver(Chars)
      PROVE  /\ Subwords(a, word) = Subwords(b, word)
             /\ Subwords(a, word) \in Seq(Ids(a)) /\ Subwords(b, word) \in Seq(Ids(b))
    <2>1. word \in Seq(Chars)
        BY DEF WordsOver
    <2> QED  BY <1>1, <2>1, WordPieceSame, WordPieceTyped
<1> DEFINE words == Words(a, text)
           len == Len(words)
<1>3. words = Words(b, text)
    BY <1>0, Zenon DEF Words
<1>4. words \in Seq(WordsOver(Chars))
    BY WordsTyped
<1> HIDE DEF words
<1>5. len \in Nat /\ \A k \in 1..len : words[k] \in WordsOver(Chars)
    <2> DEFINE W == WordsOver(Chars)
    <2> HIDE DEF W
    <2>1. words \in Seq(W)
        BY <1>4 DEF W
    <2>2. Len(words) \in Nat /\ \A k \in 1..Len(words) : words[k] \in W
        BY <2>1
    <2> QED  BY <2>2 DEF W
<1>6. PICK r : /\ Spelling(r, a, words)
               /\ Encode(a, text) = Truncate(a, Frame(a, r[len]))
    BY <1>2, BodyExists DEF words
<1>7. PICK t : /\ Spelling(t, b, words)
               /\ Encode(b, text) = Truncate(b, Frame(b, t[len]))
    <2>1. PICK t : /\ Spelling(t, b, Words(b, text))
                   /\ Encode(b, text) = Truncate(b, Frame(b, t[Len(Words(b, text))]))
        BY <1>2, BodyExists
    <2> QED  BY <1>3, <2>1
<1> DEFINE B == {k \in 0..len : r[k] = t[k]}
<1> HIDE DEF len
<1>8. r[0] = t[0] /\ \A k \in 1..len : /\ r[k] = r[k - 1] \o Subwords(a, words[k])
                                       /\ t[k] = t[k - 1] \o Subwords(b, words[k])
    BY <1>6, <1>7, Zenon DEF Spelling, len
<1>9. \A k \in 1..len : k - 1 \in B => k \in B
    <2> TAKE k \in 1..len
    <2> HAVE k - 1 \in B
    <2>1. r[k - 1] = t[k - 1] /\ k \in 0..len
        BY <1>5
    <2>2. Subwords(a, words[k]) = Subwords(b, words[k])
        BY <1>2, <1>5
    <2>3. r[k] = t[k]
        BY <1>8, <2>1, <2>2
    <2> QED  BY <2>1, <2>3
<1>10. 0 \in B
    BY <1>5, <1>8
<1> HIDE DEF B
<1>11. \A k \in 0..len : k \in B
    BY <1>5, <1>9, <1>10, Induct
<1>12. r[len] = t[len]
    BY <1>5, <1>11 DEF B
<1>13. \A ids : Truncate(a, Frame(a, ids)) = Truncate(b, Frame(b, ids))
    BY <1>0 DEF Frame, Truncate
<1> QED  BY <1>6, <1>7, <1>12, <1>13

(* A surface form that occurs once has its position as its id. *)
LEMMA IdAt ==
    ASSUME NEW T, NEW tokens \in Seq(T), IsInjective(tokens), NEW k \in DOMAIN tokens
    PROVE  tokens[k] \in DOMAIN FirstIds(tokens) /\ FirstIds(tokens)[tokens[k]] = k - 1
<1> DEFINE s == tokens[k]
           same == {i \in DOMAIN tokens : tokens[i] = s}
<1>1. DOMAIN tokens = 1..Len(tokens) /\ Len(tokens) \in Nat
    OBVIOUS
<1>2. same = {k}
    BY DEF IsInjective
<1>3. same \in SUBSET Nat /\ same # {} /\ \A i \in same : i = k
    BY <1>1, <1>2
<1>4. s \in Range(tokens)
    BY DEF Range
<1> HIDE DEF same
<1>5. Min(same) = k
    BY <1>3, MinFacts
<1>6. FirstIds(tokens) = [x \in Range(tokens) |-> Min({i \in DOMAIN tokens : tokens[i] = x}) - 1]
    BY DEF FirstIds
<1>7. FirstIds(tokens)[s] = Min({i \in DOMAIN tokens : tokens[i] = s}) - 1
    BY <1>4, <1>6
<1>8. FirstIds(tokens)[s] = k - 1
    BY <1>5, <1>7 DEF same
<1> QED  BY <1>4, <1>6, <1>8

(* Entries that carry the positions of a vocabulary array. *)
Positions(entries, tokens) ==
    \A e \in Range(entries) : \E k \in DOMAIN tokens : e = <<tokens[k], k - 1>>

LEMMA LastEntry ==
    ASSUME NEW T, NEW tokens \in Seq(T), IsInjective(tokens),
           NEW U, NEW entries \in Seq(U), Positions(entries, tokens),
           NEW forms, NEW s, \A e \in Range(entries) : e[1] \in forms => e[1] = s,
           \E e \in Range(entries) : e[1] \in forms
    PROVE  s \in Range(tokens) /\ entries[LastOf(entries, forms)][2] = FirstIds(tokens)[s]
<1> DEFINE D == {i \in DOMAIN entries : entries[i][1] \in forms}
           last == LastOf(entries, forms)
<1>1. DOMAIN entries = 1..Len(entries) /\ Len(entries) \in Nat
    OBVIOUS
<1>2. D \in SUBSET Nat /\ D # {} /\ \A i \in D : i <= Len(entries)
    BY <1>1 DEF Range
<1>3. last = Max(D)
    BY Zenon DEF LastOf
<1> HIDE DEF D, last
<1>4. last \in D
    BY <1>1, <1>2, <1>3, MaxFacts
<1>5. entries[last] \in Range(entries) /\ entries[last][1] \in forms
    BY <1>4 DEF D, Range
<1> DEFINE e == entries[last]
<1> HIDE DEF e
<1>6. e \in Range(entries) /\ e[1] = s
    BY <1>5 DEF e
<1>7. PICK k \in DOMAIN tokens : e = <<tokens[k], k - 1>>
    BY <1>6 DEF Positions
<1>8. s = tokens[k] /\ e[2] = k - 1
    BY <1>6, <1>7
<1>9. FirstIds(tokens)[tokens[k]] = k - 1
    BY IdAt
<1>10. s \in Range(tokens)
    BY <1>8 DEF Range
<1> QED  BY <1>8, <1>9, <1>10 DEF e, last

(* What StoreTokens makes of a table. *)
Forms(entries) == {e[1] : e \in Range(entries)}
Latest(entries, s) == entries[LastOf(entries, {s})][2]

LEMMA StoredTable ==
    ASSUME NEW entries, NEW table
    PROVE  /\ DOMAIN StoreTokens(entries, table) = Forms(entries) \cup DOMAIN table
           /\ \A s \in Forms(entries) \cup DOMAIN table :
                StoreTokens(entries, table)[s] =
                  IF s \in Forms(entries) THEN Latest(entries, s) ELSE table[s]
           /\ StoreTokens(entries, table) = [s \in Forms(entries) \cup DOMAIN table |->
                                               StoreTokens(entries, table)[s]]
    BY DEF StoreTokens, Forms, Latest

LEMMA LastOne ==
    ASSUME NEW T, NEW tokens \in Seq(T), IsInjective(tokens),
           NEW U, NEW entries \in Seq(U), Positions(entries, tokens), NEW s \in Forms(entries)
    PROVE  Latest(entries, s) = FirstIds(tokens)[s]
<1>1. /\ \A e \in Range(entries) : e[1] \in {s} => e[1] = s
      /\ \E e \in Range(entries) : e[1] \in {s}
    BY DEF Forms
<1> DEFINE forms == {s}
<1>2. /\ \A e \in Range(entries) : e[1] \in forms => e[1] = s
      /\ \E e \in Range(entries) : e[1] \in forms
    BY <1>1
<1> HIDE DEF forms
<1>3. entries[LastOf(entries, forms)][2] = FirstIds(tokens)[s]
    BY <1>2, LastEntry
<1> QED  BY <1>3 DEF Latest, forms

(* The vocabulary of tokenizer.json, under the ids of the array. *)
LEMMA SameVocabulary ==
    ASSUME NEW T, NEW tokens \in Seq(T), IsInjective(tokens),
           NEW U, NEW vocab \in Seq(U), NEW added \in Seq(U),
           Positions(vocab, tokens), Positions(added, tokens),
           Range(tokens) = Forms(vocab) \cup Forms(added)
    PROVE  StoreTokens(added, StoreTokens(vocab, <<>>)) = FirstIds(tokens)
<1> DEFINE first == StoreTokens(vocab, <<>>)
           all == StoreTokens(added, first)
           ids == FirstIds(tokens)
<1>1. DOMAIN ids = Range(tokens) /\ ids = [s \in Range(tokens) |-> ids[s]]
    BY DEF FirstIds
<1>2. (\A s \in Forms(vocab) : Latest(vocab, s) = ids[s])
      /\ (\A s \in Forms(added) : Latest(added, s) = ids[s])
    BY LastOne
<1>3. DOMAIN first = Forms(vocab) /\ \A s \in Forms(vocab) : first[s] = ids[s]
    <2>1. DOMAIN first = Forms(vocab) \cup DOMAIN <<>>
        BY StoredTable, Zenon
    <2>2. DOMAIN first = Forms(vocab)
        BY <2>1
    <2>3. \A s \in Forms(vocab) \cup DOMAIN <<>> :
            first[s] = IF s \in Forms(vocab) THEN Latest(vocab, s) ELSE <<>>[s]
        BY StoredTable, Zenon
    <2>4. \A s \in Forms(vocab) : first[s] = Latest(vocab, s)
        BY <2>3, Zenon
    <2> QED  BY <1>2, <2>2, <2>4, Zenon
<1> HIDE DEF first, ids
<1>4. DOMAIN all = Range(tokens) /\ all = [s \in Range(tokens) |-> all[s]]
      /\ \A s \in Range(tokens) : all[s] = ids[s]
    <2>1. DOMAIN all = Forms(added) \cup DOMAIN first
        BY StoredTable, Zenon
    <2>2. all = [s \in Forms(added) \cup DOMAIN first |-> all[s]]
        BY StoredTable, Zenon
    <2>3. \A s \in Forms(added) \cup DOMAIN first :
            all[s] = IF s \in Forms(added) THEN Latest(added, s) ELSE first[s]
        BY StoredTable, ZenonT(30)
    <2>4. Forms(added) \cup DOMAIN first = Range(tokens)
        BY <1>3
    <2> HIDE DEF all
    <2>5. \A s \in Range(tokens) : all[s] = ids[s]
        BY <1>2, <1>3, <2>3, <2>4
    <2>6. DOMAIN all = Range(tokens) /\ all = [s \in Range(tokens) |-> all[s]]
        BY <2>1, <2>2, <2>4
    <2> QED  BY <2>5, <2>6
<1> HIDE DEF all
<1>5. all = ids
    BY <1>1, <1>4
<1> QED  BY <1>5 DEF all, first, ids

LEMMA AddedIs ==
    ASSUME NEW T, NEW tokens \in Seq(T), IsInjective(tokens),
           NEW U, NEW added \in Seq(U), Positions(added, tokens),
           NEW form \in Forms(added), NEW other, other \notin Forms(added), NEW id
    PROVE  AddedId(added, {form, other}, id) = FirstIds(tokens)[form]
<1>1. /\ \A e \in Range(added) : e[1] \in {form, other} => e[1] = form
      /\ \E e \in Range(added) : e[1] \in {form, other}
    BY DEF Forms
<1> DEFINE forms == {form, other}
<1>2. /\ \A e \in Range(added) : e[1] \in forms => e[1] = form
      /\ \E e \in Range(added) : e[1] \in forms
    BY <1>1
<1> HIDE DEF forms
<1>3. added[LastOf(added, forms)][2] = FirstIds(tokens)[form]
    <2>1. ASSUME NEW some, NEW s, \A e \in Range(added) : e[1] \in some => e[1] = s,
                 \E e \in Range(added) : e[1] \in some
          PROVE  added[LastOf(added, some)][2] = FirstIds(tokens)[s]
        BY <2>1, LastEntry
    <2> QED  BY <1>2, <2>1
<1>4. AddedId(added, forms, id) = FirstIds(tokens)[form]
    BY <1>2, <1>3 DEF AddedId
<1> QED  BY <1>4 DEF forms

LEMMA ResolvesTo ==
    ASSUME NEW T, NEW tokens \in Seq(T), IsInjective(tokens), NEW form \in Range(tokens),
           NEW explicit, NEW fallback,
           explicit \in 0..(Len(tokens) - 1) => tokens[explicit + 1] = form
    PROVE  ResolveSpecial(FirstIds(tokens), Len(tokens), explicit, form, fallback)
             = FirstIds(tokens)[form]
<1> DEFINE vocab == FirstIds(tokens)
           size == Len(tokens)
<1>1. form \in DOMAIN vocab
    BY DEF FirstIds
<1>2. CASE explicit \in 0..(size - 1)
    <2>1. DOMAIN tokens = 1..size /\ size \in Nat
        OBVIOUS
    <2>2. explicit + 1 \in DOMAIN tokens /\ (explicit + 1) - 1 = explicit
        BY <1>2, <2>1
    <2>3. vocab[form] = explicit
        BY <1>2, <2>2, IdAt
    <2> QED  BY <1>2, <2>3 DEF ResolveSpecial
<1>3. CASE explicit \notin 0..(size - 1)
    BY <1>1, <1>3 DEF ResolveSpecial
<1> QED  BY <1>2, <1>3

(* What a GGUF file and the tokenizer.json of one model make of a request. *)
TokensOf(f) == f.kv[<<"tokenizer", "tokens">>].v
OfModel(tk, tokens, maxLength) ==
    /\ tk.type = "WORDPIECE" /\ tk.lower /\ tk.special /\ tk.maxLength = maxLength
    /\ tk.vocab = FirstIds(tokens) /\ tk.prefix = HashHash
    /\ tk.unk = FirstIds(tokens)[UNK]
    /\ tk.cls = FirstIds(tokens)[CLS] /\ tk.sep = FirstIds(tokens)[SEP]

LEMMA OfModelSame ==
    ASSUME NEW a, NEW b, NEW tokens, NEW max, OfModel(a, tokens, max), OfModel(b, tokens, max)
    PROVE  SameTables(a, b)
BY Zenon DEF OfModel, SameTables

LEMMA FormsDiffer == CLS # BOS /\ SEP # EOS /\ UNK # <<60, 117, 110, 107, 62>>
BY DEF CLS, BOS, SEP, EOS, UNK

(* The model object of a tokenizer.json that twins a GGUF file. *)
LEMMA TwinModel ==
    ASSUME NEW f, NEW name \in DOMAIN JsonFiles, SameModel(f, JsonFiles[name]),
           TokensOf(f) \in Seq(Seq(Nat))
    PROVE  LET json == JsonFiles[name]
               m == Given(json.model, {})
               tokens == TokensOf(f)
           IN /\ json.model # {} /\ m.type \notin {"BPE", "bpe"}
              /\ Given(m.prefix, HashHash) = HashHash
              /\ StoreTokens(json.added, StoreTokens(m.vocab, <<>>)) = FirstIds(tokens)
              /\ Positions(json.added, tokens) /\ json.added \in Seq(Seq(Nat) \X Int)
              /\ {CLS, SEP, UNK} \subseteq Forms(json.added) /\ Forms(json.added) \subseteq Range(tokens)
<1> DEFINE json == JsonFiles[name]
           m == Given(json.model, {})
           tokens == TokensOf(f)
           U == Seq(Nat) \X Int
<1>1. IsInjective(tokens) /\ json.model # {}
    BY Zenon DEF SameModel, TokensOf
<1>2. \A n \in json.model :
        /\ n.type \notin {"BPE", "bpe"} /\ n.prefix \in {{}, {HashHash}}
        /\ \A e \in Range(n.vocab) \cup Range(json.added) :
              \E k \in DOMAIN tokens : e = <<tokens[k], k - 1>>
        /\ Range(tokens) = {e[1] : e \in Range(n.vocab) \cup Range(json.added)}
    BY Zenon DEF SameModel, TokensOf
<1>3. {CLS, SEP, UNK} \subseteq Forms(json.added)
    BY Zenon DEF SameModel, Forms
<1>4. m \in json.model
    BY <1>1, Zenon DEF Given
<1>5. json.added \in Seq(U) /\ m.vocab \in Seq(U)
    BY <1>4, JsonAssumption
<1> HIDE DEF m, json, tokens, U
<1>6. /\ m.type \notin {"BPE", "bpe"} /\ m.prefix \in {{}, {HashHash}}
      /\ \A e \in Range(m.vocab) \cup Range(json.added) :
            \E k \in DOMAIN tokens : e = <<tokens[k], k - 1>>
      /\ Range(tokens) = {e[1] : e \in Range(m.vocab) \cup Range(json.added)}
    BY <1>2, <1>4, Zenon
<1>7. Positions(m.vocab, tokens) /\ Positions(json.added, tokens)
    BY <1>6 DEF Positions
<1>8. Range(tokens) = Forms(m.vocab) \cup Forms(json.added)
    BY <1>6 DEF Forms
<1>9. Given(m.prefix, HashHash) = HashHash
    BY <1>6 DEF Given
<1>10. tokens \in Seq(Seq(Nat))
    BY DEF tokens
<1>11. StoreTokens(json.added, StoreTokens(m.vocab, <<>>)) = FirstIds(tokens)
    BY <1>1, <1>5, <1>7, <1>8, <1>10, SameVocabulary
<1> QED  BY <1>1, <1>3, <1>5, <1>6, <1>7, <1>8, <1>9, <1>11, Zenon DEF m, json, tokens, U

LEMMA TwinLowers ==
    ASSUME NEW f, NEW json, SameModel(f, json)
    PROVE  Lowercases(json.normalizer)
<1> DEFINE norm == json.normalizer
<1>1. \/ norm.type \in {"Sequence", "untyped"}
      \/ norm.type \in {"BertNormalizer", "Lowercase"} /\ norm.lowercase \in {"absent", "true"}
    BY Zenon DEF SameModel
<1> HIDE DEF norm
<1>2. Lowercases(norm)
    BY <1>1 DEF Lowercases
<1> QED  BY <1>2 DEF norm

LEMMA TwinOfModel ==
    ASSUME NEW f, NEW name \in DOMAIN JsonFiles, SameModel(f, JsonFiles[name]),
           TokensOf(f) \in Seq(Seq(Nat)), NEW request
    PROVE  OfModel(LoadFromBlob(JsonFiles[name], request), TokensOf(f), request)
<1> DEFINE json == JsonFiles[name]
           new == [NewTokenizer EXCEPT !.maxLength = request]
           model == json.model
           m == Given(model, {})
           vocab == IF model = {} THEN <<>> ELSE StoreTokens(Given(model, {}).vocab, <<>>)
           read == [new EXCEPT
                    !.type = IF m.type \in {"BPE", "bpe"} THEN "BPE" ELSE "WORDPIECE",
                    !.ranks = IF m.type \in {"BPE", "bpe"}
                              THEN [p \in Range(m.merges) |->
                                        Max({i \in DOMAIN m.merges : m.merges[i] = p})]
                              ELSE <<>>,
                    !.prefix = Given(m.prefix, HashHash),
                    !.unk = IF m.unk # {} /\ Given(m.unk, <<>>) \in DOMAIN vocab
                            THEN vocab[Given(m.unk, <<>>)] ELSE @]
           typed == IF model = {} THEN new ELSE read
           tk == LoadFromBlob(json, request)
           tokens == TokensOf(f)
           low == Lowercases(json.normalizer)
           all == StoreTokens(json.added, vocab)
<1>1. tk = [typed EXCEPT
          !.vocab = all, !.lower = low,
          !.cls = AddedId(json.added, {CLS, BOS}, @),
          !.sep = AddedId(json.added, {SEP, EOS}, @),
          !.pad = Given(json.padId, AddedId(json.added, {PAD, <<60, 112, 97, 100, 62>>}, @)),
          !.unk = AddedId(json.added, {UNK, <<60, 117, 110, 107, 62>>}, @)]
    BY Zenon DEF LoadFromBlob
<1>2. PICK p, q, r : read = [new EXCEPT
          !.type = IF m.type \in {"BPE", "bpe"} THEN "BPE" ELSE "WORDPIECE",
          !.ranks = p, !.prefix = q, !.unk = r] /\ q = Given(m.prefix, HashHash)
    BY Zenon
<1>3. /\ model # {} /\ m.type \notin {"BPE", "bpe"}
      /\ Given(m.prefix, HashHash) = HashHash
      /\ StoreTokens(json.added, StoreTokens(m.vocab, <<>>)) = FirstIds(tokens)
      /\ Positions(json.added, tokens) /\ json.added \in Seq(Seq(Nat) \X Int)
      /\ {CLS, SEP, UNK} \subseteq Forms(json.added) /\ Forms(json.added) \subseteq Range(tokens)
    BY TwinModel, Zenon
<1>4. typed = read
    BY <1>3, Zenon
<1>5. all = FirstIds(tokens)
    BY <1>3, Zenon
<1>6. low
    BY TwinLowers, Zenon
<1> HIDE DEF read, typed, all, low, vocab
<1>7. read = [new EXCEPT !.type = "WORDPIECE", !.ranks = p, !.prefix = HashHash, !.unk = r]
    BY <1>2, <1>3
<1> HIDE DEF m, model, tk
<1>8. /\ DOMAIN read = DOMAIN NewTokenizer
      /\ read.type = "WORDPIECE" /\ read.prefix = HashHash
      /\ read.maxLength = request /\ read.special
    BY <1>7 DEF NewTokenizer
<1>9. PICK c, s, u : /\ AddedId(json.added, {CLS, BOS}, c) = tk.cls
                     /\ AddedId(json.added, {SEP, EOS}, s) = tk.sep
                     /\ AddedId(json.added, {UNK, <<60, 117, 110, 107, 62>>}, u) = tk.unk
    <2>1. {"cls", "sep", "unk"} \subseteq DOMAIN typed
        BY <1>4, <1>8 DEF NewTokenizer
    <2> HIDE DEF json
    <2>2. /\ AddedId(json.added, {CLS, BOS}, typed.cls) = tk.cls
          /\ AddedId(json.added, {SEP, EOS}, typed.sep) = tk.sep
          /\ AddedId(json.added, {UNK, <<60, 117, 110, 107, 62>>}, typed.unk) = tk.unk
        BY <1>1, <2>1
    <2> QED  BY <2>2
<1>10. /\ tk.type = typed.type /\ tk.prefix = typed.prefix /\ tk.maxLength = typed.maxLength
       /\ tk.special = typed.special /\ tk.vocab = all /\ tk.lower = low
    <2>1. {"vocab", "lower", "type", "prefix", "maxLength", "special"} \subseteq DOMAIN typed
        BY <1>4, <1>8 DEF NewTokenizer
    <2> HIDE DEF json
    <2> QED  BY <1>1, <2>1
<1>11. {BOS, EOS, <<60, 117, 110, 107, 62>>} \cap Forms(json.added) = {} /\ IsInjective(tokens)
    BY Zenon DEF SameModel, Forms, TokensOf
<1> DEFINE added == json.added
           U == Seq(Nat) \X Int
           unknown == <<60, 117, 110, 107, 62>>
<1>12. tokens \in Seq(Seq(Nat)) /\ added \in Seq(U) /\ Positions(added, tokens)
    BY <1>3
<1>13. /\ CLS \in Forms(added) /\ SEP \in Forms(added) /\ UNK \in Forms(added)
       /\ BOS \notin Forms(added) /\ EOS \notin Forms(added) /\ unknown \notin Forms(added)
    BY <1>3, <1>11
<1> HIDE DEF added, U, tokens, unknown
<1>14. /\ AddedId(added, {CLS, BOS}, c) = FirstIds(tokens)[CLS]
       /\ AddedId(added, {SEP, EOS}, s) = FirstIds(tokens)[SEP]
       /\ AddedId(added, {UNK, unknown}, u) = FirstIds(tokens)[UNK]
    BY <1>11, <1>12, <1>13, AddedIs
<1>15. tk.cls = FirstIds(tokens)[CLS] /\ tk.sep = FirstIds(tokens)[SEP] /\ tk.unk = FirstIds(tokens)[UNK]
    BY <1>9, <1>14 DEF added, unknown
<1>16. OfModel(tk, tokens, request)
    BY <1>4, <1>5, <1>6, <1>8, <1>10, <1>15, Zenon DEF OfModel
<1> QED  BY <1>16 DEF tk, tokens

(* The vocabulary array of the GGUF file resolves the delimiters alike. *)
LEMMA SessionOfModel ==
    ASSUME NEW f, NEW name \in DOMAIN JsonFiles, SameModel(f, JsonFiles[name]),
           TokensOf(f) \in Seq(Seq(Nat)), NEW max \in Nat \ {0}
    PROVE  OfModel(SessionTokenizer(f, max), TokensOf(f), max)
<1> DEFINE tokens == TokensOf(f)
           special == /\ BoolOr(f, <<"tokenizer", "adding_bos_token">>, TRUE)
                      /\ BoolOr(f, <<"tokenizer", "adding_eos_token">>, TRUE)
           sepKey == IF TokenId(f, "separator_token_id") >= 0
                     THEN "separator_token_id" ELSE "eos_token_id"
           pad == TokenId(f, "pad_token_id")
           unk == TokenId(f, "unk_token_id")
           cls == TokenId(f, "cls_token_id")
           sep == TokenId(f, sepKey)
           either == IF TokenId(f, "separator_token_id") >= 0
                     THEN TokenId(f, "separator_token_id") ELSE TokenId(f, "eos_token_id")
           size == Len(tokens)
           tk == SessionTokenizer(f, max)
<1>1. special /\ IsInjective(tokens)
    BY Zenon DEF SameModel, TokensOf
<1>2. /\ unk \in 0..(size - 1) => tokens[unk + 1] = UNK
      /\ cls \in 0..(size - 1) => tokens[cls + 1] = CLS
      /\ sep \in 0..(size - 1) => tokens[sep + 1] = SEP
    BY Zenon DEF SameModel, TokensOf
<1>3. UNK \in Range(tokens) /\ CLS \in Range(tokens) /\ SEP \in Range(tokens)
    BY TwinModel
<1>4. either = sep
    <2>1. CASE TokenId(f, "separator_token_id") >= 0
        BY <2>1
    <2>2. CASE ~(TokenId(f, "separator_token_id") >= 0)
        BY <2>2
    <2> QED  BY <2>1, <2>2
<1>5. tk = LoadVocab(tokens, pad, unk, IF special THEN cls ELSE -1,
                     IF special THEN either ELSE -1, max, special)
    BY Zenon DEF SessionTokenizer, TokensOf
<1> HIDE DEF tokens, special, pad, unk, cls, sep, either, tk
<1>6. tk = LoadVocab(tokens, pad, unk, cls, sep, max, special)
    BY <1>1, <1>4, <1>5
<1> DEFINE vocab == FirstIds(tokens)
           Id(explicit, surface, fallback) ==
              ResolveSpecial(vocab, size, explicit, surface, fallback)
<1>7. tk = [NewTokenizer EXCEPT
                   !.vocab = vocab, !.prefix = HashHash, !.special = special,
                   !.maxLength = IF max > 0 THEN max ELSE 512,
                   !.pad = Id(pad, PAD, 0), !.unk = Id(unk, UNK, 100),
                   !.cls = Id(cls, CLS, 101), !.sep = Id(sep, SEP, 102)]
    BY <1>6, Zenon DEF LoadVocab
<1>8. tokens \in Seq(Seq(Nat))
    BY DEF tokens
<1>9. /\ Id(unk, UNK, 100) = vocab[UNK] /\ Id(cls, CLS, 101) = vocab[CLS]
      /\ Id(sep, SEP, 102) = vocab[SEP]
    BY <1>1, <1>2, <1>3, <1>8, ResolvesTo
<1> HIDE DEF Id, vocab
<1>10. /\ tk.type = "WORDPIECE" /\ tk.lower /\ tk.special = special /\ tk.maxLength = max
       /\ tk.vocab = vocab /\ tk.prefix = HashHash
       /\ tk.unk = vocab[UNK] /\ tk.cls = vocab[CLS] /\ tk.sep = vocab[SEP]
    BY <1>7, <1>9 DEF NewTokenizer
<1>11. OfModel(tk, tokens, max)
    BY <1>1, <1>10, Zenon DEF OfModel, vocab
<1> QED  BY <1>11 DEF tk, tokens

LEMMA SessionLength ==
    ASSUME NEW f, NEW max \in Nat \ {0}
    PROVE  SessionTokenizer(f, max).maxLength = max
<1>1. PICK tokens, pad, unk, cls, sep, special :
          SessionTokenizer(f, max) = LoadVocab(tokens, pad, unk, cls, sep, max, special)
    BY Zenon DEF SessionTokenizer
<1> DEFINE Id(explicit, surface, fallback) ==
              ResolveSpecial(FirstIds(tokens), Len(tokens), explicit, surface, fallback)
           vocab == FirstIds(tokens)
           p == Id(pad, PAD, 0)
           u == Id(unk, UNK, 100)
           c == Id(cls, CLS, 101)
           s == Id(sep, SEP, 102)
           tk == [NewTokenizer EXCEPT
                    !.vocab = vocab, !.prefix = HashHash, !.special = special,
                    !.maxLength = IF max > 0 THEN max ELSE 512,
                    !.pad = p, !.unk = u, !.cls = c, !.sep = s]
<1>2. LoadVocab(tokens, pad, unk, cls, sep, max, special) = tk
    BY Zenon DEF LoadVocab
<1> HIDE DEF vocab, p, u, c, s
<1>3. tk.maxLength = max
    BY DEF NewTokenizer
<1> QED  BY <1>1, <1>2, <1>3

(* A handle that a GGUF file opened holds the tokenizer of that file. *)
LEMMA HeldTokenizer ==
    ASSUME NEW h, HoldsGguf(h)
    PROVE  /\ h.tok.maxLength \in Nat \ {0} /\ TokensOf(GgufFiles[h.file]) \in Seq(Seq(Nat))
           /\ h.tok = SessionTokenizer(GgufFiles[h.file], h.tok.maxLength)
<1> DEFINE name == h.file
           f == GgufFiles[name]
<1>1. name \in DOMAIN GgufFiles
    BY DEF HoldsGguf
<1>2. PICK request \in Requests, memory \in BOOLEAN :
          \E s \in LoadSession(f, request, memory) : h.tok = s.tok
    BY DEF HoldsGguf
<1>3. PICK s \in LoadSession(f, request, memory) : h.tok = s.tok
    BY <1>2
<1> HIDE DEF name
<1> DEFINE max == Capped(request, Only(Hparams(f).pos))
<1>4. VocabFits(f) /\ s.tok = SessionTokenizer(f, max)
    BY DEF LoadSession
<1>5. s.tok.maxLength \in Nat \ {0}
    BY <1>1, LoadSessionFacts
<1>6. TokensOf(f) \in Seq(Seq(Nat)) /\ Len(TokensOf(f)) > 0
    <2> DEFINE key == <<"tokenizer", "tokens">>
    <2>1. HasStrs(f, key)
        BY <1>4 DEF VocabFits
    <2>2. key \in DOMAIN f.kv /\ f.kv[key].t = "strs" /\ Len(f.kv[key].v) > 0
        BY <2>1 DEF HasStrs, Typed
    <2> HIDE DEF key
    <2>3. f.kv[key].v \in Seq(Seq(Nat))
        BY <1>1, <2>2, GgufAssumption
    <2> QED  BY <2>2, <2>3 DEF key, TokensOf
<1>7. max \in Nat \ {0}
    <2>1. Opens(f) /\ Accepts(f)
        BY DEF LoadSession
    <2>2. Only(Hparams(f).pos) \in Nat \ {0}
        BY <1>1, <2>1, HparamsTyped
    <2> QED  BY <2>2, CappedTyped
<1>8. SessionTokenizer(f, max).maxLength = max
    BY <1>7, SessionLength
<1>9. h.tok = SessionTokenizer(f, max)
    BY <1>3, <1>4
<1>10. h.tok.maxLength \in Nat \ {0}
    BY <1>3, <1>5
<1> HIDE DEF max, f
<1>11. h.tok = SessionTokenizer(f, h.tok.maxLength)
    BY <1>8, <1>9
<1> QED  BY <1>6, <1>10, <1>11 DEF f, name

(* The two backends of one model spell every text with the same ids, cut   *)
(* at the same length, whatever the texts and the vocabulary               *)
(* (TokenizerWrapper::load_vocab and load_from_blob).                      *)
THEOREM SameTokensAlways == Spec => []SameTokens
<1>1. SparseInv => SameTokens
    <2> SUFFICES ASSUME SparseInv, Starting, handle.backend = "gguf", handle.file \in DOMAIN Twin,
                        NEW d \in DOMAIN call.texts
                 PROVE  Encode(handle.tok, call.texts[d])
                          = Encode(LoadFromBlob(JsonFiles[Twin[handle.file]], handle.tok.maxLength),
                                   call.texts[d])
        BY Zenon DEF SameTokens
    <2>1. HoldsGguf(handle)
        <3>1. handle # Closed
            BY DEF Starting, SparseInv, CallHolds
        <3> QED  BY <3>1 DEF SparseInv, HandleHolds, HoldsOnnx
    <2> DEFINE name == handle.file
               f == GgufFiles[name]
               twin == Twin[name]
               text == call.texts[d]
               max == handle.tok.maxLength
               a == handle.tok
               b == LoadFromBlob(JsonFiles[twin], max)
    <2>2. text \in Text
        <3>1. call.texts \in TextLists
            BY DEF Starting, SparseInv, CallHolds
        <3> QED  BY <3>1, TextsAssumption DEF Text
    <2>3. twin \in DOMAIN JsonFiles /\ SameModel(f, JsonFiles[twin])
        BY TwinAssumption, Zenon
    <2>4. max \in Nat \ {0} /\ TokensOf(f) \in Seq(Seq(Nat)) /\ a = SessionTokenizer(f, max)
        BY <2>1, HeldTokenizer
    <2> HIDE DEF f, twin, text, max, a
    <2>5. OfModel(a, TokensOf(f), max)
        BY <2>3, <2>4, SessionOfModel
    <2>6. OfModel(b, TokensOf(f), max)
        BY <2>3, <2>4, TwinOfModel
    <2> HIDE DEF b
    <2>7. SameTables(a, b)
        BY <2>5, <2>6, OfModelSame
    <2>8. Encode(a, text) = Encode(b, text)
        BY <2>2, <2>7, EncodeSame
    <2> QED  BY <2>8 DEF a, b, text, twin, max
<1> QED  BY <1>1, SparseInvariant, PTL
=============================================================================
