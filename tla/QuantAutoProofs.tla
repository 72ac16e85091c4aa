-------------------------- MODULE QuantAutoProofs ---------------------------
(***************************************************************************)
(* The three invariants of QuantAuto, for any registry, any rates and any  *)
(* number of calls.                                                        *)
(*                                                                         *)
(* What a handle reports follows from what each step knows of the entry it *)
(* goes on with (ChoiceInv, HandleInv).  What a decision is worth follows  *)
(* from the table: every row stands for a registered variant of the named  *)
(* model (ListsInv), and no two rows for the same mode once the family has *)
(* FP32 weights (ApartInv), so that Rate is the rate of the row it names.  *)
(* That the fastest row exists is an induction over the run: the rates of  *)
(* a table have a bound because appending a row keeps one (BoundInv).      *)
(***************************************************************************)
EXTENDS QuantAuto, WellFoundedInduction, TLAPS

Pcs == {"idle", "load", "probe", "measure", "ensure_named", "create", "returned", "failed"}

(* A call that began names an entry, and one that selects has mode AUTO. *)
CallInv ==
    /\ pc \in Pcs
    /\ call.by \in {"create", "select", "python", "python_auto"}
    /\ call.mode \in Modes \cup {"auto"}
    /\ decision \in [Codes -> Modes \cup {NoDecision}]
    /\ pc # "idle" => Named \in Entries
    /\ pc \in {"load", "probe", "measure"} => call.mode = "auto"
    /\ pc = "ensure_named" =>
         \/ call.by = "python"
         \/ call.by = "python_auto" /\ call.mode = "auto"

Kin(s) == \A i \in DOMAIN s : s[i] \in Entries /\ SameName(s[i], Named)
Registered(q) == \E e \in Entries : SameName(e, Named) /\ QuantOf(e) = q
Rows == [quant : Modes, dps : Nat \ {0}]

(* What is probed, measured or in the table is a variant of the named model. *)
ListsInv ==
    /\ todo \in Seq(Entries) /\ cands \in Seq(Entries) /\ table \in Seq(Rows)
    /\ pc = "idle" => todo = <<>> /\ cands = <<>> /\ table = <<>>
    /\ pc # "idle" => /\ Kin(todo) /\ Kin(cands)
                      /\ \A i \in DOMAIN table : Registered(table[i].quant)

BoundInv == \E b \in Nat : \A i \in DOMAIN table : table[i].dps <= b

HasNone == \E e \in Entries : SameName(e, Named) /\ QuantOf(e) = "none"
OneEach(s) == \A i, j \in DOMAIN s : QuantOf(s[i]) = QuantOf(s[j]) => i = j
Apart(s, t) == \A i \in DOMAIN s, j \in DOMAIN t : QuantOf(s[i]) # QuantOf(t[j])
OneRowEach(t) == \A i, j \in DOMAIN t : t[i].quant = t[j].quant => i = j
NotYetIn(s, t) == \A i \in DOMAIN s, j \in DOMAIN t : QuantOf(s[i]) # t[j].quant

(* With FP32 weights in the family, a mode is probed once, measured once   *)
(* and has one row.                                                        *)
ApartInv ==
    pc # "idle" /\ HasNone =>
        /\ OneEach(todo) /\ OneEach(cands) /\ OneRowEach(table)
        /\ Apart(todo, cands) /\ NotYetIn(todo, table) /\ NotYetIn(cands, table)

(* The two halves of what a fresh choice is worth. *)
KeepsNamed == ~HasRow(table, "none") => choice.entry = Named
NearFastest ==
    HasRow(table, "none") =>
        /\ HasRow(table, choice.quant)
        /\ \A i \in DOMAIN table :
             /\ table[i].dps > 0
             /\ i \in Clears(table) => 100 * table[i].dps < 115 * Rate(table, choice.quant)

(* A choice is made by the selection or by create_v2, and loaded as it is. *)
ChoiceInv ==
    /\ pc \in {"idle", "load", "probe", "measure", "failed"} => choice = NoChoice
    /\ pc = "ensure_named" /\ choice.rows # 0 => choice.quant \in Modes
    /\ pc = "create" =>
         /\ choice.entry \in Entries /\ SameName(choice.entry, Named)
         /\ choice.quant \in {"auto", QuantOf(choice.entry)}
         /\ call.mode # "auto" => QuantOf(choice.entry) = call.mode
    /\ choice.fresh \in BOOLEAN
    /\ choice.fresh => KeepsNamed /\ NearFastest

(* Nothing but the named entry is fetched before the chosen one is. *)
HandleInv ==
    /\ pc # "returned" => handle = NoHandle /\ fetched \subseteq {Named}
    /\ pc = "idle" => fetched = {}
    /\ ReportsLoaded

QuantInv == CallInv /\ ListsInv /\ BoundInv /\ ApartInv /\ ChoiceInv /\ HandleInv

-----------------------------------------------------------------------------
(* The registry. *)

LEMMA EntriesAreNumbers ==
    /\ Entries \subseteq Nat \ {0}
    /\ \A e \in Entries : QuantOf(e) \in Modes /\ Registry[e].code \in Codes
<1> DEFINE Models == [name : STRING, code : STRING, quant : Modes]
<1>0. Registry \in Seq(Models)
    BY RegistryAssumption
<1>1. Entries = 1..Len(Registry)
    BY <1>0 DEF Entries
<1>2. \A e \in Entries : Registry[e] \in Models
    <2> HIDE DEF Models
    <2> QED  BY <1>0, <1>1
<1>3. \A e \in Entries : QuantOf(e) \in Modes
    BY <1>2 DEF QuantOf
<1>4. \A e \in Entries : Registry[e].code \in Codes
    BY DEF Codes
<1> QED  BY <1>1, <1>3, <1>4

LEMMA Least ==
    ASSUME NEW S \in SUBSET Nat, S # {}
    PROVE  \E x \in S : \A y \in S : x <= y
<1>1. PICK x \in S : \A y \in S : ~(<<y, x>> \in OpToRel(<, Nat))
    BY NatLessThanWellFounded, WFMin, Zenon
<1>2. \A y \in S : ~(y < x)
    BY <1>1 DEF OpToRel
<1> QED  BY <1>2

(* lembed_find_text_model_variant finds an entry of that name and mode     *)
(* exactly when there is one.                                              *)
LEMMA FindVariantFinds ==
    ASSUME NEW m, NEW q
    PROVE  /\ FindVariant(m, q) # 0 =>
                /\ FindVariant(m, q) \in Entries
                /\ SameName(FindVariant(m, q), m) /\ QuantOf(FindVariant(m, q)) = q
           /\ (\E e \in Entries : SameName(e, m) /\ QuantOf(e) = q) => FindVariant(m, q) # 0
<1> DEFINE found == {e \in Entries : SameName(e, m) /\ QuantOf(e) = q}
<1>1. CASE found = {}
    BY <1>1 DEF FindVariant
<1>2. CASE found # {}
    <2>1. \E e \in found : \A f \in found : e <= f
        BY <1>2, EntriesAreNumbers, Least
    <2>2. FindVariant(m, q) = CHOOSE e \in found : \A f \in found : e <= f
        BY <1>2 DEF FindVariant
    <2>3. FindVariant(m, q) \in found
        BY <2>1, <2>2
    <2> QED  BY <2>3, EntriesAreNumbers
<1> QED  BY <1>1, <1>2

LEMMA SameNameIsEquality ==
    /\ \A e : SameName(e, e)
    /\ \A e, f : SameName(e, f) => SameName(f, e)
    /\ \A e, f, g : SameName(e, f) /\ SameName(f, g) => SameName(e, g)
BY DEF SameName

(* What Resolve, LoadDecision and Decide go on with. *)
VariantFor(m, q) == IF QuantOf(m) = q THEN m ELSE FindVariant(m, q)

LEMMA VariantForMode ==
    ASSUME NEW m \in Entries, NEW q, VariantFor(m, q) # 0
    PROVE  /\ VariantFor(m, q) \in Entries
           /\ SameName(VariantFor(m, q), m) /\ QuantOf(VariantFor(m, q)) = q
BY FindVariantFinds, SameNameIsEquality DEF VariantFor

-----------------------------------------------------------------------------
(* Lists of variants. *)

LEMMA JoinKeepsApart ==
    ASSUME NEW s \in Seq(Entries), NEW t \in Seq(Entries)
    PROVE  /\ s \o t \in Seq(Entries) /\ Len(s \o t) = Len(s) + Len(t)
           /\ \A i \in DOMAIN (s \o t) :
                \/ \E j \in DOMAIN s : (s \o t)[i] = s[j]
                \/ \E j \in DOMAIN t : (s \o t)[i] = t[j]
           /\ OneEach(s) /\ OneEach(t) /\ Apart(s, t) => OneEach(s \o t)
<1>1. s \o t \in Seq(Entries) /\ Len(s \o t) = Len(s) + Len(t)
    OBVIOUS
<1>2. \A i \in DOMAIN (s \o t) :
        (s \o t)[i] = IF i <= Len(s) THEN s[i] ELSE t[i - Len(s)]
    OBVIOUS
<1>3. \A i \in DOMAIN (s \o t) :
        \/ i \in DOMAIN s /\ (s \o t)[i] = s[i]
        \/ i - Len(s) \in DOMAIN t /\ (s \o t)[i] = t[i - Len(s)]
    BY <1>1, <1>2
<1>4. ASSUME OneEach(s), OneEach(t), Apart(s, t)
      PROVE  OneEach(s \o t)
    <2> SUFFICES ASSUME NEW i \in DOMAIN (s \o t), NEW j \in DOMAIN (s \o t),
                        QuantOf((s \o t)[i]) = QuantOf((s \o t)[j])
                 PROVE  i = j
        BY DEF OneEach
    <2>1. i \in Nat /\ j \in Nat
        BY <1>1
    <2>2. CASE i \in DOMAIN s /\ (s \o t)[i] = s[i]
        BY <2>2, <1>3, <1>4 DEF OneEach, Apart
    <2>3. CASE i - Len(s) \in DOMAIN t /\ (s \o t)[i] = t[i - Len(s)]
        <3>1. j - Len(s) \in DOMAIN t /\ (s \o t)[j] = t[j - Len(s)]
            BY <2>3, <1>3, <1>4 DEF Apart
        <3>2. i - Len(s) = j - Len(s)
            BY <2>3, <3>1, <1>4 DEF OneEach
        <3> QED  BY <3>2, <2>1
    <2> QED  BY <2>2, <2>3, <1>3
<1> QED  BY <1>1, <1>3, <1>4

LEMMA BaselineIsKin ==
    ASSUME NEW m \in Entries
    PROVE  /\ Baseline(m) \in Entries /\ SameName(Baseline(m), m)
           /\ (\E e \in Entries : SameName(e, m) /\ QuantOf(e) = "none")
                => QuantOf(Baseline(m)) = "none"
BY FindVariantFinds, SameNameIsEquality DEF Baseline

LEMMA SiblingIsKin ==
    ASSUME NEW m, NEW q
    PROVE  /\ Sibling(m, q) \in Seq(Entries) /\ OneEach(Sibling(m, q))
           /\ \A i \in DOMAIN Sibling(m, q) :
                SameName(Sibling(m, q)[i], m) /\ QuantOf(Sibling(m, q)[i]) = q
<1> DEFINE v == FindVariant(m, q)
<1>1. CASE v \in {0, Baseline(m)}
    <2>1. Sibling(m, q) = <<>>
        BY <1>1 DEF Sibling
    <2> QED  BY <2>1 DEF OneEach
<1>2. CASE v \notin {0, Baseline(m)}
    <2>1. v \in Entries /\ SameName(v, m) /\ QuantOf(v) = q
        BY <1>2, FindVariantFinds
    <2>2. Sibling(m, q) = <<v>>
        BY <1>2 DEF Sibling
    <2> HIDE DEF v
    <2> QED  BY <2>1, <2>2 DEF OneEach
<1> QED  BY <1>1, <1>2

(* quant_auto_collect_variants: variants of the model, of different modes  *)
(* once the family has FP32 weights.                                       *)
LEMMA VariantsOfModel ==
    ASSUME NEW m \in Entries
    PROVE  /\ CollectVariants(m) \in Seq(Entries) /\ CollectVariants(m) # <<>>
           /\ \A i \in DOMAIN CollectVariants(m) : SameName(CollectVariants(m)[i], m)
           /\ (\E e \in Entries : SameName(e, m) /\ QuantOf(e) = "none")
                => OneEach(CollectVariants(m))
<1> DEFINE b == <<Baseline(m)>>
           d == Sibling(m, "dynamic")
           f == Sibling(m, "fp16")
           s == Sibling(m, "static")
           none == \E e \in Entries : SameName(e, m) /\ QuantOf(e) = "none"
<1>1. /\ b \in Seq(Entries) /\ Len(b) = 1 /\ OneEach(b)
      /\ \A i \in DOMAIN b : SameName(b[i], m) /\ (none => QuantOf(b[i]) = "none")
    BY BaselineIsKin DEF OneEach
<1>2. d \in Seq(Entries) /\ OneEach(d)
      /\ \A i \in DOMAIN d : SameName(d[i], m) /\ QuantOf(d[i]) = "dynamic"
    BY SiblingIsKin
<1>3. f \in Seq(Entries) /\ OneEach(f)
      /\ \A i \in DOMAIN f : SameName(f[i], m) /\ QuantOf(f[i]) = "fp16"
    BY SiblingIsKin
<1>4. s \in Seq(Entries) /\ OneEach(s)
      /\ \A i \in DOMAIN s : SameName(s[i], m) /\ QuantOf(s[i]) = "static"
    BY SiblingIsKin
<1>5. CollectVariants(m) = ((b \o d) \o f) \o s
    BY DEF CollectVariants
<1> HIDE DEF b, d, f, s, none
<1>6. /\ b \o d \in Seq(Entries) /\ Len(b \o d) > 0
      /\ \A i \in DOMAIN (b \o d) :
           SameName((b \o d)[i], m) /\ (none => QuantOf((b \o d)[i]) \in {"none", "dynamic"})
      /\ none => OneEach(b \o d)
    <2>1. none => Apart(b, d)
        BY <1>1, <1>2 DEF Apart
    <2>2. Len(b \o d) > 0 /\ b \o d \in Seq(Entries)
        BY <1>1, <1>2, JoinKeepsApart
    <2>3. \A i \in DOMAIN (b \o d) :
           SameName((b \o d)[i], m) /\ (none => QuantOf((b \o d)[i]) \in {"none", "dynamic"})
        BY <1>1, <1>2, JoinKeepsApart
    <2> QED  BY <2>1, <2>2, <2>3, <1>1, <1>2, JoinKeepsApart
<1> DEFINE bd == b \o d
<1> HIDE DEF bd
<1>6a. /\ bd \in Seq(Entries) /\ Len(bd) > 0
       /\ \A i \in DOMAIN bd :
            SameName(bd[i], m) /\ (none => QuantOf(bd[i]) \in {"none", "dynamic"})
       /\ none => OneEach(bd)
    BY <1>6 DEF bd
<1>7. /\ bd \o f \in Seq(Entries) /\ Len(bd \o f) > 0
      /\ \A i \in DOMAIN (bd \o f) :
           SameName((bd \o f)[i], m) /\ (none => QuantOf((bd \o f)[i]) \in {"none", "dynamic", "fp16"})
      /\ none => OneEach(bd \o f)
    <2>1. none => Apart(bd, f)
        BY <1>6a, <1>3 DEF Apart
    <2>2. Len(bd \o f) > 0 /\ bd \o f \in Seq(Entries)
        BY <1>6a, <1>3, JoinKeepsApart
    <2>3. \A i \in DOMAIN (bd \o f) :
           SameName((bd \o f)[i], m) /\ (none => QuantOf((bd \o f)[i]) \in {"none", "dynamic", "fp16"})
        BY <1>6a, <1>3, JoinKeepsApart
    <2> QED  BY <2>1, <2>2, <2>3, <1>6a, <1>3, JoinKeepsApart
<1> DEFINE bdf == bd \o f
<1> HIDE DEF bdf
<1>7a. /\ bdf \in Seq(Entries) /\ Len(bdf) > 0
       /\ \A i \in DOMAIN bdf :
            SameName(bdf[i], m) /\ (none => QuantOf(bdf[i]) \in {"none", "dynamic", "fp16"})
       /\ none => OneEach(bdf)
    BY <1>7 DEF bdf
<1>8. /\ bdf \o s \in Seq(Entries) /\ Len(bdf \o s) > 0
      /\ \A i \in DOMAIN (bdf \o s) : SameName((bdf \o s)[i], m)
      /\ none => OneEach(bdf \o s)
    <2>1. none => Apart(bdf, s)
        BY <1>7a, <1>4 DEF Apart
    <2>2. Len(bdf \o s) > 0 /\ bdf \o s \in Seq(Entries)
        BY <1>7a, <1>4, JoinKeepsApart
    <2>3. \A i \in DOMAIN (bdf \o s) : SameName((bdf \o s)[i], m)
        BY <1>7a, <1>4, JoinKeepsApart
    <2> QED  BY <2>1, <2>2, <2>3, <1>7a, <1>4, JoinKeepsApart
<1>9. CollectVariants(m) = bdf \o s
    BY <1>5 DEF bd, bdf
<1> QED  BY <1>8, <1>9 DEF none

-----------------------------------------------------------------------------
(* quant_auto_pick. *)

LEMMA RowTypes ==
    ASSUME NEW t \in Seq(Rows), NEW i \in DOMAIN t
    PROVE  t[i].dps \in Nat \ {0} /\ t[i].quant \in Modes
<1>1. t[i] \in Rows
    OBVIOUS
<1> QED  BY <1>1 DEF Rows

LEMMA RateOfRow ==
    ASSUME NEW t \in Seq(Rows), OneRowEach(t), NEW i \in DOMAIN t
    PROVE  HasRow(t, t[i].quant) /\ Rate(t, t[i].quant) = t[i].dps
<1> DEFINE q == t[i].quant
<1>1. RowsOf(t, q) = {i}
    BY DEF RowsOf, OneRowEach
<1> HIDE DEF q
<1>2. (CHOOSE j \in RowsOf(t, q) : TRUE) = i
    BY <1>1
<1>3. HasRow(t, q) /\ Rate(t, q) = t[i].dps
    BY <1>1, <1>2 DEF HasRow, Rate
<1> QED  BY <1>3 DEF q

(* Among the variants that clear the floor there is a fastest one, and the *)
(* pick finds it: the rates of the table are bounded.                      *)
LEMMA FastestIsFastest ==
    ASSUME NEW t \in Seq(Rows), NEW b \in Nat, \A i \in DOMAIN t : t[i].dps <= b,
           Clears(t) # {}
    PROVE  /\ Fastest(t) \in Clears(t)
           /\ \A j \in Clears(t) : t[j].dps <= t[Fastest(t)].dps
<1> DEFINE C == Clears(t)
           short == {b - t[i].dps : i \in C}
<1>1. C \subseteq DOMAIN t /\ DOMAIN t \subseteq Nat
    BY DEF Clears
<1>2. \A i \in C : t[i].dps \in Nat /\ t[i].dps <= b /\ i \in Nat
    BY <1>1, RowTypes
<1> HIDE DEF C
<1>3. short \in SUBSET Nat /\ short # {}
    BY <1>2 DEF C
<1>4. PICK x \in short : \A y \in short : x <= y
    BY <1>3, Least
<1>5. PICK top \in C : x = b - t[top].dps
    BY <1>4
<1>6. \A j \in C : t[j].dps <= t[top].dps
    <2> TAKE j \in C
    <2>1. x <= b - t[j].dps
        BY <1>4
    <2> QED  BY SMTT(20), <2>1, <1>5, <1>2
<1> DEFINE ties == {i \in C : t[i].dps = t[top].dps}
<1>7. ties \in SUBSET Nat /\ ties # {}
    BY <1>2
<1>8. PICK first \in ties : \A i \in ties : first <= i
    BY <1>7, Least
<1>9. \A j \in C : t[j].dps < t[first].dps \/ (t[j].dps = t[first].dps /\ first <= j)
    BY <1>8, <1>6, <1>2
<1>10. \E i \in C : \A j \in C : t[j].dps < t[i].dps \/ (t[j].dps = t[i].dps /\ i <= j)
    BY <1>8, <1>9
<1>11. /\ Fastest(t) \in C
       /\ \A j \in C : \/ t[j].dps < t[Fastest(t)].dps
                       \/ t[j].dps = t[Fastest(t)].dps /\ Fastest(t) <= j
    <2>1. Fastest(t) = CHOOSE i \in C :
            \A j \in C : t[j].dps < t[i].dps \/ (t[j].dps = t[i].dps /\ i <= j)
        BY DEF Fastest, C
    <2> QED  BY <2>1, <1>10
<1> QED  BY SMTT(20), <1>11, <1>2 DEF C

(* What is picked has a row, and nothing over the floor is 15 % faster. *)
LEMMA PickIsNear ==
    ASSUME NEW t \in Seq(Rows), NEW b \in Nat, \A i \in DOMAIN t : t[i].dps <= b,
           OneRowEach(t), HasRow(t, "none")
    PROVE  /\ HasRow(t, Pick(t))
           /\ \A i \in Clears(t) : 100 * t[i].dps < 115 * Rate(t, Pick(t))
<1>1. \A i \in DOMAIN t : t[i].dps \in Nat \ {0} /\ t[i].quant \in Modes
    BY RowTypes
<1>2. Clears(t) \subseteq DOMAIN t
    BY DEF Clears
<1>3. CASE Clears(t) = {}
    BY <1>3 DEF Pick
<1>4. CASE Clears(t) # {}
    <2> DEFINE f == Fastest(t)
    <2>1. f \in DOMAIN t /\ \A j \in Clears(t) : t[j].dps <= t[f].dps
        BY <1>4, <1>2, FastestIsFastest
    <2>2. HasRow(t, t[f].quant) /\ Rate(t, t[f].quant) = t[f].dps
        BY <2>1, RateOfRow
    <2> DEFINE swap == /\ HasRow(t, "dynamic") /\ t[f].quant # "dynamic"
                       /\ 100 * t[f].dps < 115 * Rate(t, "dynamic")
    <2>3. Pick(t) = IF swap THEN "dynamic" ELSE t[f].quant
        BY <1>4 DEF Pick
    <2>4. CASE swap
        <3>1. PICK i \in DOMAIN t : t[i].quant = "dynamic"
            BY <2>4 DEF HasRow, RowsOf
        <3>2. Rate(t, "dynamic") \in Nat
            BY <3>1, <1>1, RateOfRow
        <3>3. Pick(t) = "dynamic"
            BY <2>3, <2>4
        <3> HIDE DEF f
        <3>4. \A j \in Clears(t) : 100 * t[j].dps < 115 * Rate(t, "dynamic")
            BY <2>1, <2>4, <3>2, <1>1, <1>2
        <3> QED  BY <3>3, <3>4, <2>4
    <2>5. CASE ~swap
        <3>1. Pick(t) = t[f].quant
            BY <2>3, <2>5
        <3> HIDE DEF f
        <3>2. \A j \in Clears(t) : 100 * t[j].dps < 115 * t[f].dps
            BY <2>1, <1>1, <1>2
        <3> QED  BY <3>1, <3>2, <2>2
    <2> QED  BY <2>4, <2>5
<1> QED  BY <1>3, <1>4

-----------------------------------------------------------------------------
(* What the steps have in common. *)

LEMMA InitHolds == Init => QuantInv
<1> SUFFICES ASSUME Init PROVE QuantInv
    OBVIOUS
<1> USE DEF Init
<1>1. CallInv
    BY DEF CallInv, Pcs, NoCall, Modes
<1>2. ListsInv /\ BoundInv /\ ApartInv
    <2>1. ListsInv
        BY DEF ListsInv
    <2>2. BoundInv
        BY DEF BoundInv
    <2> QED  BY <2>1, <2>2 DEF ApartInv
<1>3. ChoiceInv
    BY DEF ChoiceInv, NoChoice
<1>4. HandleInv
    BY DEF HandleInv, ReportsLoaded, NoHandle
<1> QED  BY <1>1, <1>2, <1>3, <1>4 DEF QuantInv

(* Without rows and variants there is nothing to say of the lists. *)
LEMMA EmptyLists ==
    ASSUME todo' = <<>>, cands' = <<>>, table' = <<>>
    PROVE  ListsInv' /\ BoundInv' /\ ApartInv'
<1>1. ListsInv'
    BY DEF ListsInv, Kin
<1>2. BoundInv'
    <2>1. \A i \in DOMAIN table' : table'[i].dps <= 0
        OBVIOUS
    <2> QED  BY <2>1 DEF BoundInv
<1>3. ApartInv'
    BY DEF ApartInv, OneEach, OneRowEach, Apart, NotYetIn
<1> QED  BY <1>1, <1>2, <1>3

LEMMA SameLists ==
    ASSUME QuantInv, UNCHANGED selVars, UNCHANGED call, pc # "idle", pc' # "idle"
    PROVE  ListsInv' /\ BoundInv' /\ ApartInv'
<1> USE DEF QuantInv, selVars, Named
<1>1. ListsInv'
    BY DEF ListsInv, Kin, Registered
<1>2. BoundInv'
    BY DEF BoundInv
<1>3. ApartInv'
    BY DEF ApartInv, HasNone
<1> QED  BY <1>1, <1>2, <1>3

(* Between calls there is no handle, nothing fetched and nothing listed. *)
LEMMA IdleState ==
    ASSUME QuantInv, pc = "idle"
    PROVE  /\ todo = <<>> /\ cands = <<>> /\ table = <<>> /\ choice = NoChoice
           /\ handle = NoHandle /\ fetched = {}
BY DEF QuantInv, ListsInv, ChoiceInv, HandleInv

(* A step that leaves the call without a handle. *)
LEMMA NoHandleYet ==
    ASSUME handle' = NoHandle, fetched' \subseteq {Named'}, pc' # "idle" \/ fetched' = {}
    PROVE  HandleInv'
BY DEF HandleInv, ReportsLoaded, NoHandle

(* create_v2's entry: a registered variant of the model with the mode that *)
(* was asked for, or AUTO.                                                 *)
LEMMA EnterChooses ==
    ASSUME NEW q \in Modes \cup {"auto"}, Named' \in Entries, Enter(Named', q),
           call'.mode \in {q, "auto"}
    PROVE  /\ ChoiceInv'
           /\ pc' \in {"failed", "create", "load"}
           /\ pc' = "load" => call'.mode = "auto"
<1> DEFINE m == Named'
<1>1. CASE q # "auto"
    <2> DEFINE v == VariantFor(m, q)
    <2>1. \/ v = 0 /\ pc' = "failed" /\ choice' = NoChoice
          \/ v # 0 /\ pc' = "create" /\ choice' = [NoChoice EXCEPT !.entry = v, !.quant = q]
        BY <1>1 DEF Enter, Resolve, Creating, VariantFor
    <2>2. CASE v = 0 /\ pc' = "failed" /\ choice' = NoChoice
        BY <2>2 DEF ChoiceInv, NoChoice
    <2>3. CASE v # 0 /\ pc' = "create" /\ choice' = [NoChoice EXCEPT !.entry = v, !.quant = q]
        <3>1. v \in Entries /\ SameName(v, m) /\ QuantOf(v) = q
            BY <2>3, VariantForMode
        <3>2. choice'.entry = v /\ choice'.quant = q /\ choice'.fresh = FALSE
            BY <2>3 DEF NoChoice
        <3> HIDE DEF v
        <3> QED  BY <2>3, <3>1, <3>2 DEF ChoiceInv
    <2> QED  BY <2>1, <2>2, <2>3
<1>2. CASE q = "auto"
    <2>1. \/ pc' = "load" /\ choice' = NoChoice
          \/ pc' = "create" /\ choice' = [NoChoice EXCEPT !.entry = m, !.quant = "auto"]
        BY <1>2 DEF Enter, Creating
    <2>2. SameName(m, m)
        BY SameNameIsEquality
    <2>3. CASE pc' = "load" /\ choice' = NoChoice
        BY <1>2, <2>3 DEF ChoiceInv, NoChoice
    <2>4. CASE pc' = "create" /\ choice' = [NoChoice EXCEPT !.entry = m, !.quant = "auto"]
        <3>1. choice'.entry = m /\ choice'.quant = "auto" /\ choice'.fresh = FALSE
            BY <2>4 DEF NoChoice
        <3> HIDE DEF m
        <3>2. SameName(m, Named') /\ m \in Entries
            BY <2>2 DEF m
        <3> QED  BY <1>2, <2>4, <3>1, <3>2 DEF ChoiceInv
    <2> QED  BY <2>1, <2>3, <2>4
<1> QED  BY <1>1, <1>2

-----------------------------------------------------------------------------
(* The steps of a call. *)

(* Where the selection goes on. *)
LEMMA WhereItGoesOn ==
    ASSUME CallInv
    PROVE  AfterSelect = IF call.by = "select" THEN "returned"
                         ELSE IF call.by = "python_auto" THEN "ensure_named" ELSE "create"
BY DEF CallInv, AfterSelect

LEMMA CreateV2Keeps ==
    ASSUME QuantInv, NEW m \in Entries, NEW q \in Modes \cup {"auto"}, NEW offline,
           CreateV2(m, q, offline)
    PROVE  QuantInv'
<1> USE DEF CreateV2, Begin
<1>1. /\ call'.by = "create" /\ call'.named = m /\ call'.mode = q /\ pc = "idle"
      /\ UNCHANGED <<decision, fetched, handle, todo, cands, table>>
    BY DEF selVars
<1>2. Named' = m /\ Enter(m, q)
    BY <1>1 DEF Named
<1>3. ChoiceInv' /\ pc' \in {"failed", "create", "load"} /\ (pc' = "load" => call'.mode = "auto")
    BY <1>1, <1>2, EnterChooses
<1>4. CallInv'
    BY <1>1, <1>2, <1>3 DEF QuantInv, CallInv, Pcs
<1>5. ListsInv' /\ BoundInv' /\ ApartInv'
    BY <1>1, IdleState, EmptyLists
<1>6. HandleInv'
    BY <1>1, IdleState, NoHandleYet
<1> QED  BY <1>3, <1>4, <1>5, <1>6 DEF QuantInv

LEMMA PythonKeeps ==
    ASSUME QuantInv, NEW m \in Entries, NEW q \in Modes \cup {"auto"}, NEW offline,
           Python(m, q, offline)
    PROVE  QuantInv'
<1> USE DEF Python, Begin
<1>1. /\ call'.by = "python" /\ call'.named = m /\ call'.mode = q /\ pc = "idle"
      /\ pc' = "ensure_named" /\ choice' = NoChoice
      /\ UNCHANGED <<decision, fetched, handle, todo, cands, table>>
    BY DEF selVars
<1>3. ChoiceInv'
    BY <1>1 DEF ChoiceInv, NoChoice
<1>4. CallInv'
    BY <1>1 DEF QuantInv, CallInv, Pcs, Named
<1>5. ListsInv' /\ BoundInv' /\ ApartInv'
    BY <1>1, IdleState, EmptyLists
<1>6. HandleInv'
    BY <1>1, IdleState, NoHandleYet
<1> QED  BY <1>3, <1>4, <1>5, <1>6 DEF QuantInv

LEMMA SelectKeeps ==
    ASSUME QuantInv, NEW m \in Entries, NEW b,
           AutoSelect(m, b) \/ PythonAuto(m, b)
    PROVE  QuantInv'
<1> USE DEF AutoSelect, PythonAuto, Begin
<1>1. /\ call'.by \in {"select", "python_auto"} /\ call'.named = m /\ call'.mode = "auto"
      /\ pc = "idle" /\ pc' = "load" /\ choice' = NoChoice
      /\ UNCHANGED <<decision, fetched, handle, todo, cands, table>>
    BY DEF selVars
<1>3. ChoiceInv'
    BY <1>1 DEF ChoiceInv, NoChoice
<1>4. CallInv'
    BY <1>1 DEF QuantInv, CallInv, Pcs, Named
<1>5. ListsInv' /\ BoundInv' /\ ApartInv'
    BY <1>1, IdleState, EmptyLists
<1>6. HandleInv'
    BY <1>1, IdleState, NoHandleYet
<1> QED  BY <1>3, <1>4, <1>5, <1>6 DEF QuantInv

(* A step within a selection: nothing is chosen, fetched or returned. *)
LEMMA StillSelecting ==
    ASSUME QuantInv, pc \in {"load", "probe", "measure"}, pc' \in {"probe", "measure"},
           UNCHANGED <<decision, call, choice, fetched, handle>>
    PROVE  CallInv' /\ ChoiceInv' /\ HandleInv'
<1>1. CallInv'
    BY DEF QuantInv, CallInv, Pcs, Named
<1>2. ChoiceInv'
    BY DEF QuantInv, ChoiceInv, NoChoice
<1>3. HandleInv'
    <2>1. handle = NoHandle /\ fetched \subseteq {Named}
        BY DEF QuantInv, HandleInv
    <2> QED  BY <2>1, NoHandleYet DEF Named
<1> QED  BY <1>1, <1>2, <1>3

LEMMA LoadDecisionKeeps ==
    ASSUME QuantInv, LoadDecision
    PROVE  QuantInv'
<1> DEFINE q == decision[Code]
           v == VariantFor(Named, q)
           V == CollectVariants(Named)
<1>1. /\ pc = "load" /\ Named \in Entries /\ Named' = Named /\ call.mode = "auto"
      /\ UNCHANGED <<decision, call, fetched, handle>>
      /\ handle = NoHandle /\ fetched \subseteq {Named}
    BY DEF LoadDecision, QuantInv, CallInv, HandleInv, Named
<1>2. \/ /\ q # NoDecision /\ v # 0 /\ pc' = AfterSelect /\ UNCHANGED selVars
         /\ choice' = [entry |-> v, quant |-> q, fresh |-> FALSE, rows |-> 1]
      \/ /\ pc' = "probe" /\ todo' = Tail(V) /\ cands' = <<Head(V)>> /\ table' = <<>>
         /\ UNCHANGED choice
    BY DEF LoadDecision, VariantFor
<1>3. CASE /\ q # NoDecision /\ v # 0 /\ pc' = AfterSelect /\ UNCHANGED selVars
           /\ choice' = [entry |-> v, quant |-> q, fresh |-> FALSE, rows |-> 1]
    <2>1. v \in Entries /\ SameName(v, Named) /\ QuantOf(v) = q
        BY <1>1, <1>3, VariantForMode
    <2>2. q \in Modes
        BY <2>1, EntriesAreNumbers
    <2>3. pc' \in {"returned", "create", "ensure_named"}
          /\ (pc' = "ensure_named" => call.by = "python_auto")
        BY <1>3, WhereItGoesOn DEF QuantInv
    <2>4. choice'.entry = v /\ choice'.quant = q /\ choice'.fresh = FALSE
        BY <1>3
    <2> HIDE DEF v, q
    <2>5. CallInv'
        BY <1>1, <2>3 DEF QuantInv, CallInv, Pcs, Named
    <2>6. ChoiceInv'
        BY <1>1, <2>1, <2>2, <2>3, <2>4 DEF ChoiceInv
    <2>7. ListsInv' /\ BoundInv' /\ ApartInv'
        BY <1>1, <1>3, <2>3, SameLists
    <2>8. HandleInv'
        BY <1>1, <2>3, NoHandleYet
    <2> QED  BY <2>5, <2>6, <2>7, <2>8 DEF QuantInv
<1>4. CASE /\ pc' = "probe" /\ todo' = Tail(V) /\ cands' = <<Head(V)>> /\ table' = <<>>
           /\ UNCHANGED choice
    <2>1. /\ V \in Seq(Entries) /\ V # <<>>
          /\ \A i \in DOMAIN V : SameName(V[i], Named)
          /\ HasNone => OneEach(V)
        BY <1>1, VariantsOfModel DEF HasNone
    <2> HIDE DEF V
    <2>2. /\ Tail(V) \in Seq(Entries) /\ <<Head(V)>> \in Seq(Entries)
          /\ 1 \in DOMAIN V /\ Head(V) = V[1]
          /\ \A i \in DOMAIN Tail(V) : i + 1 \in DOMAIN V /\ Tail(V)[i] = V[i + 1] /\ i \in Nat \ {0}
        BY <2>1
    <2>3. ListsInv'
        <3>1. Kin(todo)'
            BY <1>1, <2>1, <2>2, <1>4 DEF Kin
        <3>2. \A i \in DOMAIN cands' : i = 1 /\ cands'[i] = V[1]
            BY <1>4, <2>2
        <3>3. Kin(cands)'
            BY <1>1, <2>1, <2>2, <3>2 DEF Kin
        <3>4. todo' \in Seq(Entries) /\ cands' \in Seq(Entries) /\ table' \in Seq(Rows)
            BY <1>4, <2>2
        <3> QED  BY <1>4, <3>1, <3>3, <3>4 DEF ListsInv
    <2>4. BoundInv'
        <3>1. \A i \in DOMAIN table' : table'[i].dps <= 0
            BY <1>4
        <3> QED  BY <3>1 DEF BoundInv
    <2>5. ApartInv'
        <3> SUFFICES ASSUME HasNone
                     PROVE  /\ OneEach(Tail(V)) /\ OneEach(<<Head(V)>>) /\ OneRowEach(<<>>)
                            /\ Apart(Tail(V), <<Head(V)>>)
                            /\ NotYetIn(Tail(V), <<>>) /\ NotYetIn(<<Head(V)>>, <<>>)
            BY <1>1, <1>4 DEF ApartInv, HasNone
        <3>1. OneEach(V)
            BY <2>1
        <3>2. OneEach(Tail(V))
            BY <3>1, <2>2 DEF OneEach
        <3>3. Apart(Tail(V), <<Head(V)>>)
            BY <3>1, <2>2 DEF OneEach, Apart
        <3> QED  BY <3>2, <3>3 DEF OneEach, OneRowEach, NotYetIn
    <2>6. CallInv' /\ ChoiceInv' /\ HandleInv'
        BY <1>1, <1>4, StillSelecting
    <2> QED  BY <2>3, <2>4, <2>5, <2>6 DEF QuantInv
<1> QED  BY <1>2, <1>3, <1>4

LEMMA ProbeKeeps ==
    ASSUME QuantInv, Probe
    PROVE  QuantInv'
<1> DEFINE v == Head(todo)
           r == Tail(todo)
<1>1. /\ pc = "probe" /\ pc' = "probe" /\ todo # <<>> /\ todo' = r
      /\ cands' \in {cands, Append(cands, v)}
      /\ UNCHANGED <<decision, call, table, choice, fetched, handle>>
      /\ Named' = Named
    BY DEF Probe, Named
<1>2. /\ todo \in Seq(Entries) /\ cands \in Seq(Entries) /\ table \in Seq(Rows)
      /\ Kin(todo) /\ Kin(cands)
      /\ \A i \in DOMAIN table : Registered(table[i].quant)
    BY <1>1 DEF QuantInv, ListsInv
<1>3. /\ r \in Seq(Entries) /\ v \in Entries /\ 1 \in DOMAIN todo /\ v = todo[1]
      /\ \A i \in DOMAIN r : i + 1 \in DOMAIN todo /\ r[i] = todo[i + 1] /\ i \in Nat \ {0}
    BY <1>1, <1>2
<1> HIDE DEF v, r
<1>4. /\ cands' \in Seq(Entries)
      /\ \A i \in DOMAIN cands' : \/ i \in DOMAIN cands /\ cands'[i] = cands[i]
                                  \/ i = Len(cands) + 1 /\ cands'[i] = v
    <2>1. CASE cands' = cands
        BY <2>1, <1>2
    <2>2. CASE cands' = Append(cands, v)
        BY <2>2, <1>2, <1>3
    <2> QED  BY <1>1, <2>1, <2>2
<1>5. ListsInv'
    <2>1. Kin(todo)' /\ Kin(cands)'
        BY <1>1, <1>2, <1>3, <1>4 DEF Kin
    <2> QED  BY <1>1, <1>2, <1>3, <1>4, <2>1 DEF ListsInv, Registered
<1>6. BoundInv'
    BY <1>1 DEF QuantInv, BoundInv
<1>7. ApartInv'
    <2> SUFFICES ASSUME HasNone
                 PROVE  /\ OneEach(r) /\ OneEach(cands') /\ OneRowEach(table)
                        /\ Apart(r, cands') /\ NotYetIn(r, table) /\ NotYetIn(cands', table)
        BY <1>1 DEF ApartInv, HasNone
    <2>1. /\ OneEach(todo) /\ OneEach(cands) /\ OneRowEach(table)
          /\ Apart(todo, cands) /\ NotYetIn(todo, table) /\ NotYetIn(cands, table)
        BY <1>1 DEF QuantInv, ApartInv
    <2>2. OneEach(r) /\ NotYetIn(r, table)
        BY <1>3, <2>1 DEF OneEach, NotYetIn
    <2>3. OneEach(cands')
        BY <1>3, <1>4, <2>1 DEF OneEach, Apart
    <2>4. Apart(r, cands')
        BY SMTT(20), <1>3, <1>4, <2>1 DEF OneEach, Apart
    <2>5. NotYetIn(cands', table)
        BY <1>3, <1>4, <2>1 DEF NotYetIn
    <2> QED  BY <2>1, <2>2, <2>3, <2>4, <2>5
<1>8. CallInv' /\ ChoiceInv' /\ HandleInv'
    BY <1>1, StillSelecting
<1> QED  BY <1>5, <1>6, <1>7, <1>8 DEF QuantInv

LEMMA ProbesDoneKeeps ==
    ASSUME QuantInv, ProbesDone
    PROVE  QuantInv'
<1>1. /\ pc = "probe" /\ pc' = "measure"
      /\ UNCHANGED <<decision, call, todo, cands, table, choice, fetched, handle>>
    BY DEF ProbesDone
<1>2. CallInv' /\ ChoiceInv' /\ HandleInv'
    BY <1>1, StillSelecting
<1>3. ListsInv' /\ BoundInv' /\ ApartInv'
    BY <1>1 DEF QuantInv, ListsInv, Kin, Registered, Named, BoundInv, ApartInv, HasNone
<1> QED  BY <1>2, <1>3 DEF QuantInv

LEMMA MeasureKeeps ==
    ASSUME QuantInv, Measure
    PROVE  QuantInv'
<1> DEFINE v == Head(cands)
           r == Tail(cands)
<1>1. /\ pc = "measure" /\ pc' = "measure" /\ cands # <<>> /\ cands' = r
      /\ UNCHANGED <<decision, call, todo, choice, fetched, handle>>
      /\ Named' = Named
    BY DEF Measure, Named
<1>2. PICK rate \in Nat :
        table' = IF rate > 0 THEN Append(table, [quant |-> QuantOf(v), dps |-> rate]) ELSE table
    BY RatesAssumption DEF Measure
<1>3. /\ todo \in Seq(Entries) /\ cands \in Seq(Entries) /\ table \in Seq(Rows)
      /\ Kin(todo) /\ Kin(cands)
      /\ \A i \in DOMAIN table : Registered(table[i].quant)
    BY <1>1 DEF QuantInv, ListsInv
<1>4. /\ r \in Seq(Entries) /\ v \in Entries /\ 1 \in DOMAIN cands /\ v = cands[1]
      /\ \A i \in DOMAIN r : i + 1 \in DOMAIN cands /\ r[i] = cands[i + 1] /\ i \in Nat \ {0}
    BY <1>1, <1>3
<1> HIDE DEF v, r
<1> DEFINE row == [quant |-> QuantOf(v), dps |-> rate]
<1>5. rate > 0 => row \in Rows
    BY <1>4, EntriesAreNumbers DEF Rows
<1>6. row.quant = QuantOf(v) /\ row.dps = rate
    OBVIOUS
<1> HIDE DEF row
<1>7. /\ table' \in Seq(Rows)
      /\ \A i \in DOMAIN table' : \/ i \in DOMAIN table /\ table'[i] = table[i]
                                  \/ i = Len(table) + 1 /\ table'[i] = row
    <2>1. CASE rate = 0
        <3>1. table' = table
            BY <1>2, <2>1
        <3> QED  BY <3>1, <1>3
    <2>2. CASE rate > 0
        <3>1. table' = Append(table, row)
            BY <1>2, <2>2 DEF row
        <3> QED  BY <3>1, <2>2, <1>3, <1>5
    <2> QED  BY <2>1, <2>2
<1>8. ListsInv'
    <2>1. Kin(todo)' /\ Kin(cands)'
        BY <1>1, <1>3, <1>4 DEF Kin
    <2>2. Registered(row.quant)
        BY <1>3, <1>4, <1>6 DEF Registered, Kin
    <2>3. \A i \in DOMAIN table' : Registered(table'[i].quant)
        BY <1>3, <1>7, <2>2
    <2>4. \A i \in DOMAIN table' : Registered(table[i].quant)'
        BY <2>3, <1>1 DEF Registered
    <2> QED  BY <1>1, <1>3, <1>4, <1>7, <2>1, <2>4 DEF ListsInv
<1>9. BoundInv'
    <2>1. PICK b \in Nat : \A i \in DOMAIN table : table[i].dps <= b
        BY DEF QuantInv, BoundInv
    <2>2. \A i \in DOMAIN table : table[i].dps \in Nat
        BY <1>3, RowTypes
    <2>3. b + rate \in Nat /\ \A i \in DOMAIN table' : table'[i].dps <= b + rate
        BY <2>1, <2>2, <1>6, <1>7
    <2> QED  BY <2>3 DEF BoundInv
<1>10. ApartInv'
    <2> SUFFICES ASSUME HasNone
                 PROVE  /\ OneEach(todo) /\ OneEach(r) /\ OneRowEach(table')
                        /\ Apart(todo, r) /\ NotYetIn(todo, table') /\ NotYetIn(r, table')
        BY <1>1 DEF ApartInv, HasNone
    <2>1. /\ OneEach(todo) /\ OneEach(cands) /\ OneRowEach(table)
          /\ Apart(todo, cands) /\ NotYetIn(todo, table) /\ NotYetIn(cands, table)
        BY <1>1 DEF QuantInv, ApartInv
    <2>2. OneEach(r) /\ Apart(todo, r)
        BY <1>4, <2>1 DEF OneEach, Apart
    <2>3. OneRowEach(table')
        BY <1>4, <1>6, <1>7, <2>1 DEF OneRowEach, NotYetIn
    <2>4. NotYetIn(todo, table')
        BY <1>4, <1>6, <1>7, <2>1 DEF NotYetIn, Apart
    <2>5. NotYetIn(r, table')
        BY <1>4, <1>6, <1>7, <2>1 DEF NotYetIn, OneEach
    <2> QED  BY <2>1, <2>2, <2>3, <2>4, <2>5
<1>11. CallInv' /\ ChoiceInv' /\ HandleInv'
    BY <1>1, StillSelecting
<1> QED  BY <1>8, <1>9, <1>10, <1>11 DEF QuantInv

(* The decision: without an FP32 row the named entry, with one a mode that *)
(* has a row and that nothing over the floor beats by 15 %.                *)
LEMMA DecideKeeps ==
    ASSUME QuantInv, Decide
    PROVE  QuantInv'
<1> DEFINE w == Winner(table)
           v == VariantFor(Named, w)
<1>1. /\ pc = "measure" /\ Named \in Entries /\ Named' = Named /\ call.mode = "auto"
      /\ UNCHANGED <<call, fetched, handle>> /\ UNCHANGED selVars
      /\ handle = NoHandle /\ fetched \subseteq {Named} /\ pc' = AfterSelect
      /\ decision \in [Codes -> Modes \cup {NoDecision}]
    BY DEF Decide, QuantInv, CallInv, HandleInv, Named
<1>2. /\ table \in Seq(Rows)
      /\ \A i \in DOMAIN table : Registered(table[i].quant)
    BY <1>1 DEF QuantInv, ListsInv
<1>3. \/ /\ table = <<>> /\ UNCHANGED decision
         /\ choice' = [entry |-> Named, quant |-> QuantOf(Named), fresh |-> TRUE, rows |-> 0]
      \/ /\ table # <<>>
         /\ choice' = [entry |-> IF v # 0 THEN v ELSE Named,
                       quant |-> IF v # 0 THEN w ELSE QuantOf(Named),
                       fresh |-> TRUE, rows |-> Len(table)]
         /\ \/ decision' = [decision EXCEPT ![Code] = choice'.quant]
            \/ UNCHANGED decision
    BY DEF Decide, VariantFor
<1>4. v # 0 => v \in Entries /\ SameName(v, Named) /\ QuantOf(v) = w
    BY <1>1, VariantForMode
<1>5. QuantOf(Named) \in Modes /\ Code \in Codes /\ SameName(Named, Named)
    BY <1>1, EntriesAreNumbers, SameNameIsEquality DEF Code
<1>6. /\ choice'.entry \in Entries /\ SameName(choice'.entry, Named)
      /\ choice'.quant = QuantOf(choice'.entry) /\ choice'.fresh = TRUE
    <2> HIDE DEF v, w
    <2>1. CASE table = <<>>
        BY <1>1, <1>3, <1>5, <2>1
    <2>2. CASE table # <<>> /\ v # 0
        BY <1>3, <1>4, <2>2
    <2>3. CASE table # <<>> /\ v = 0
        BY <1>1, <1>3, <1>5, <2>3
    <2> QED  BY <2>1, <2>2, <2>3
<1>7. choice'.quant \in Modes
    BY <1>6, EntriesAreNumbers
<1>8. decision' \in [Codes -> Modes \cup {NoDecision}]
    BY <1>1, <1>3, <1>5, <1>7
<1>9. /\ pc' \in {"returned", "create", "ensure_named"}
      /\ pc' = "ensure_named" => call.by = "python_auto"
    BY <1>1, WhereItGoesOn DEF QuantInv
<1>10. ~HasRow(table, "none") => choice'.entry = Named
    <2> SUFFICES ASSUME ~HasRow(table, "none") PROVE choice'.entry = Named
        OBVIOUS
    <2>1. w = QuantOf(Named)
        BY DEF Winner
    <2>2. v = Named
        BY <2>1 DEF VariantFor
    <2> HIDE DEF v, w
    <2> QED  BY <1>3, <2>2
<1>11. ASSUME HasRow(table, "none")
       PROVE  /\ HasRow(table, choice'.quant)
              /\ \A i \in DOMAIN table :
                   /\ table[i].dps > 0
                   /\ i \in Clears(table) => 100 * table[i].dps < 115 * Rate(table, choice'.quant)
    <2>1. PICK i \in DOMAIN table : table[i].quant = "none"
        BY <1>11 DEF HasRow, RowsOf
    <2>2. HasNone
        BY <2>1, <1>2 DEF HasNone, Registered
    <2>3. OneRowEach(table)
        BY <1>1, <2>2 DEF QuantInv, ApartInv
    <2>4. PICK b \in Nat : \A j \in DOMAIN table : table[j].dps <= b
        BY DEF QuantInv, BoundInv
    <2>5. w = Pick(table)
        BY <1>11 DEF Winner
    <2>6. /\ HasRow(table, w)
          /\ \A j \in Clears(table) : 100 * table[j].dps < 115 * Rate(table, w)
        BY <1>2, <1>11, <2>3, <2>4, <2>5, PickIsNear
    <2>7. PICK k \in DOMAIN table : table[k].quant = w
        BY <2>6 DEF HasRow, RowsOf
    <2>8. \E e \in Entries : SameName(e, Named) /\ QuantOf(e) = w
        BY <2>7, <1>2 DEF Registered
    <2>9. v # 0
        BY <2>8, <1>1, EntriesAreNumbers, FindVariantFinds DEF VariantFor
    <2> HIDE DEF v, w
    <2>10. choice'.quant = w
        <3>1. table # <<>>
            BY <2>1
        <3> QED  BY <3>1, <2>9, <1>3
    <2>11. \A j \in DOMAIN table : table[j].dps > 0
        BY <1>2, RowTypes
    <2> QED  BY <2>6, <2>10, <2>11
<1>12. table' = table
    BY <1>1 DEF selVars
<1> HIDE DEF v, w
<1>13. CallInv'
    BY <1>1, <1>8, <1>9 DEF QuantInv, CallInv, Pcs, Named
<1>14. ChoiceInv'
    <2>1. KeepsNamed'
        BY <1>10, <1>12, <1>1 DEF KeepsNamed
    <2>2. NearFastest'
        BY <1>11, <1>12 DEF NearFastest
    <2> QED  BY <1>1, <1>6, <1>7, <1>9, <2>1, <2>2 DEF ChoiceInv
<1>15. ListsInv' /\ BoundInv' /\ ApartInv'
    BY <1>1, <1>9, SameLists
<1>16. HandleInv'
    BY <1>1, <1>9, NoHandleYet
<1> QED  BY <1>13, <1>14, <1>15, <1>16 DEF QuantInv

(* A failed call has nothing. *)
LEMMA FailKeeps ==
    ASSUME QuantInv, Fail, SelectionGone, UNCHANGED <<decision, call>>,
           pc \in {"ensure_named", "create"}
    PROVE  QuantInv'
<1>1. /\ pc' = "failed" /\ choice' = NoChoice /\ UNCHANGED <<fetched, handle>>
      /\ Named' = Named /\ handle = NoHandle /\ fetched \subseteq {Named}
    BY DEF Fail, Named, QuantInv, HandleInv
<1>2. CallInv'
    BY <1>1 DEF QuantInv, CallInv, Pcs, Named
<1>3. ChoiceInv'
    BY <1>1 DEF ChoiceInv, NoChoice
<1>4. ListsInv' /\ BoundInv' /\ ApartInv'
    BY EmptyLists DEF SelectionGone
<1>5. HandleInv'
    BY <1>1, NoHandleYet
<1> QED  BY <1>2, <1>3, <1>4, <1>5 DEF QuantInv

LEMMA EnsureNamedKeeps ==
    ASSUME QuantInv, EnsureNamed
    PROVE  QuantInv'
<1> DEFINE q == IF call.by = "python" THEN call.mode
                ELSE IF choice.rows = 0 THEN "none" ELSE choice.quant
<1>1. /\ pc = "ensure_named" /\ SelectionGone /\ UNCHANGED <<decision, call>>
      /\ Named' = Named /\ Named \in Entries
      /\ handle = NoHandle /\ fetched \subseteq {Named}
    BY DEF EnsureNamed, Named, QuantInv, CallInv, HandleInv
<1>2. \/ Ensured(Named) /\ Enter(Named, q) /\ UNCHANGED handle
      \/ Fail
    BY DEF EnsureNamed
<1>3. CASE Ensured(Named) /\ Enter(Named, q) /\ UNCHANGED handle
    <2>1. q \in Modes \cup {"auto"} /\ call.mode \in {q, "auto"}
        BY <1>1 DEF QuantInv, CallInv, ChoiceInv, Modes
    <2>2. ChoiceInv' /\ pc' \in {"failed", "create", "load"}
          /\ (pc' = "load" => call'.mode = "auto")
        <3> HIDE DEF q
        <3>1. Enter(Named', q) /\ Named' \in Entries /\ call'.mode \in {q, "auto"}
            BY <1>1, <1>3, <2>1
        <3> QED  BY <2>1, <3>1, EnterChooses
    <2>3. fetched' \subseteq {Named}
        BY <1>1, <1>3 DEF Ensured
    <2>4. CallInv'
        BY <1>1, <2>2 DEF QuantInv, CallInv, Pcs, Named
    <2>5. ListsInv' /\ BoundInv' /\ ApartInv'
        BY <1>1, EmptyLists DEF SelectionGone
    <2>6. HandleInv'
        BY <1>1, <1>3, <2>2, <2>3, NoHandleYet
    <2> QED  BY <2>2, <2>4, <2>5, <2>6 DEF QuantInv
<1>4. CASE Fail
    BY <1>1, <1>4, FailKeeps
<1> QED  BY <1>2, <1>3, <1>4

LEMMA CreateKeeps ==
    ASSUME QuantInv, Create
    PROVE  QuantInv'
<1> DEFINE e == choice.entry
<1>1. /\ pc = "create" /\ SelectionGone /\ UNCHANGED <<decision, call>>
      /\ Named' = Named /\ fetched \subseteq {Named}
      /\ e \in Entries /\ SameName(e, Named) /\ choice.quant \in {"auto", QuantOf(e)}
      /\ call.mode # "auto" => QuantOf(e) = call.mode
    BY DEF Create, Named, QuantInv, ChoiceInv, HandleInv
<1>2. \/ /\ Ensured(e) /\ pc' = "returned" /\ choice' = NoChoice
         /\ handle' = [loaded |-> e,
                       quant |-> IF choice.quant = "auto" THEN QuantOf(e) ELSE choice.quant,
                       desc |-> QuantOf(e)]
      \/ Fail
    BY DEF Create
<1>3. CASE /\ Ensured(e) /\ pc' = "returned" /\ choice' = NoChoice
           /\ handle' = [loaded |-> e,
                         quant |-> IF choice.quant = "auto" THEN QuantOf(e) ELSE choice.quant,
                         desc |-> QuantOf(e)]
    <2>1. handle'.loaded = e /\ handle'.quant = QuantOf(e) /\ handle'.desc = QuantOf(e)
        BY <1>1, <1>3
    <2>2. fetched' \subseteq {Named, e}
        BY <1>1, <1>3 DEF Ensured
    <2> HIDE DEF e
    <2>3. HandleInv'
        BY <1>1, <1>3, <2>1, <2>2 DEF HandleInv, ReportsLoaded
    <2>4. CallInv'
        BY <1>1, <1>3 DEF QuantInv, CallInv, Pcs, Named
    <2>5. ChoiceInv'
        BY <1>3 DEF ChoiceInv, NoChoice
    <2>6. ListsInv' /\ BoundInv' /\ ApartInv'
        BY <1>1, EmptyLists DEF SelectionGone
    <2> QED  BY <2>3, <2>4, <2>5, <2>6 DEF QuantInv
<1>4. CASE Fail
    BY <1>1, <1>4, FailKeeps
<1> QED  BY <1>2, <1>3, <1>4

LEMMA ReturnKeeps ==
    ASSUME QuantInv, Return
    PROVE  QuantInv'
<1>1. /\ pc' = "idle" /\ call' = NoCall /\ choice' = NoChoice /\ fetched' = {}
      /\ handle' = NoHandle /\ SelectionGone /\ UNCHANGED decision
    BY DEF Return
<1>2. CallInv'
    BY <1>1 DEF QuantInv, CallInv, Pcs, NoCall, Modes
<1>3. ChoiceInv'
    BY <1>1 DEF ChoiceInv, NoChoice
<1>4. ListsInv' /\ BoundInv' /\ ApartInv'
    BY <1>1, EmptyLists DEF SelectionGone
<1>5. HandleInv'
    BY <1>1, NoHandleYet
<1> QED  BY <1>2, <1>3, <1>4, <1>5 DEF QuantInv

(* What another process removes is not what the call knows. *)
LEMMA OthersKeep ==
    ASSUME QuantInv,
           \/ \E e \in Entries : RemoveWeights(e)
           \/ \E c \in Codes : ClearDecision(c)
           \/ UNCHANGED vars
    PROVE  QuantInv'
<1>1. /\ UNCHANGED <<pc, call, choice, fetched, handle>> /\ UNCHANGED <<todo, cands, table>>
      /\ decision' \in [Codes -> Modes \cup {NoDecision}]
    <2>0. decision \in [Codes -> Modes \cup {NoDecision}]
        BY DEF QuantInv, CallInv
    <2>1. CASE \E e \in Entries : RemoveWeights(e)
        BY <2>0, <2>1 DEF RemoveWeights, selVars
    <2>2. CASE \E c \in Codes : ClearDecision(c)
        BY <2>0, <2>2 DEF ClearDecision, selVars
    <2>3. CASE UNCHANGED vars
        BY <2>0, <2>3 DEF vars
    <2> QED  BY <2>1, <2>2, <2>3
<1> USE DEF QuantInv, Named
<1>2. CallInv'
    BY <1>1 DEF CallInv
<1>3. ListsInv'
    BY <1>1 DEF ListsInv, Kin, Registered
<1>4. BoundInv' /\ ApartInv'
    BY <1>1 DEF BoundInv, ApartInv, HasNone
<1>5. ChoiceInv'
    BY <1>1 DEF ChoiceInv, KeepsNamed, NearFastest
<1>6. HandleInv'
    BY <1>1 DEF HandleInv, ReportsLoaded
<1> QED  BY <1>2, <1>3, <1>4, <1>5, <1>6

-----------------------------------------------------------------------------
LEMMA QuantInvIsInvariant == Spec => []QuantInv
<1>1. ASSUME QuantInv, [Next]_vars
      PROVE  QuantInv'
    <2>1. CASE \E m \in Entries, offline \in BOOLEAN, q \in Modes \cup {"auto"} :
                 CreateV2(m, q, offline) \/ Python(m, q, offline)
        BY <1>1, <2>1, CreateV2Keeps, PythonKeeps
    <2>2. CASE \/ \E m \in Entries, offline \in BOOLEAN : PythonAuto(m, offline)
               \/ \E m \in Entries, dry \in BOOLEAN : AutoSelect(m, dry)
        BY <1>1, <2>2, SelectKeeps
    <2>3. CASE LoadDecision
        BY <1>1, <2>3, LoadDecisionKeeps
    <2>4. CASE Probe \/ ProbesDone
        BY <1>1, <2>4, ProbeKeeps, ProbesDoneKeeps
    <2>5. CASE Measure \/ Decide
        BY <1>1, <2>5, MeasureKeeps, DecideKeeps
    <2>6. CASE EnsureNamed \/ Create \/ Return
        BY <1>1, <2>6, EnsureNamedKeeps, CreateKeeps, ReturnKeeps
    <2>7. CASE \/ \E e \in Entries : RemoveWeights(e)
               \/ \E c \in Codes : ClearDecision(c)
               \/ UNCHANGED vars
        BY <1>1, <2>7, OthersKeep
    <2> QED  BY <1>1, <2>1, <2>2, <2>3, <2>4, <2>5, <2>6, <2>7 DEF Next
<1> QED  BY <1>1, InitHolds, PTL DEF Spec

(* Whatever the registry holds and whatever is removed on the way, a       *)
(* handle of create_v2 or of the Python constructor reports the mode of    *)
(* the weights it loaded, of the named model, in the mode that was asked;  *)
(* nothing else was downloaded for it.                                     *)
THEOREM HandleReportsItsWeights == Spec => []ReportsLoaded
<1>1. QuantInv => ReportsLoaded
    BY DEF QuantInv, HandleInv
<1> QED  BY <1>1, QuantInvIsInvariant, PTL

(* For any registry and any rates, a selection that could not time the     *)
(* FP32 weights keeps the entry that lembed_quantization_auto_select was   *)
(* given.  A decision that was read from its file is not one of them.      *)
THEOREM WithoutBaselineNamedStands == Spec => []NoBaselineKeepsNamed
<1>1. QuantInv => NoBaselineKeepsNamed
    BY DEF QuantInv, ChoiceInv, KeepsNamed, NoBaselineKeepsNamed, FreshChoice
<1> QED  BY <1>1, QuantInvIsInvariant, PTL

(* For any registry and any measured rates, what quant_auto_pick chooses   *)
(* was measured, and no variant over the floor is 15 % faster.             *)
THEOREM ChoiceIsNearFastest == Spec => []NothingClearlyFaster
<1>1. QuantInv => NothingClearlyFaster
    BY DEF QuantInv, ChoiceInv, NearFastest, NothingClearlyFaster, FreshChoice
<1> QED  BY <1>1, QuantInvIsInvariant, PTL
=============================================================================
