----------------------------- MODULE QuantAuto ------------------------------
(***************************************************************************)
(* Choosing the weights of a text model: lembed_text_embedding_create_v2   *)
(* with an explicit mode or with AUTO, lembed_quantization_auto_select     *)
(* (probe, measurement, decision rule, recorded decision) and the Python   *)
(* constructor on top of both.                                             *)
(*                                                                         *)
(* Throughputs are numbers drawn from a set, in documents per second.  The *)
(* decision file is what TuneFile shows it to be for one writer: a saved   *)
(* decision or none.  Another process may delete weights between any two   *)
(* steps.                                                                  *)
(***************************************************************************)
EXTENDS Naturals, Sequences, FiniteSets

CONSTANTS
    Registry,       \* lembed__text_models: a sequence of [name, code, quant]
    ProbeRates,     \* what a probe may time
    MeasureRates,   \* what a measurement may time, 0 for a failed one
    Callers,        \* subset of {"create", "select", "python", "python_auto"}
    MaxCalls        \* bound on the number of calls

Entries == DOMAIN Registry
Codes == {Registry[e].code : e \in Entries}
Modes == {"none", "static", "dynamic", "fp16"}
NoDecision == "no_decision"

ASSUME RegistryAssumption ==
    Registry \in Seq([name : STRING, code : STRING, quant : Modes])

ASSUME RatesAssumption ==
    MeasureRates \subseteq Nat

VARIABLES
    disk,       \* entries whose weights are in the model directory
    decision,   \* the recorded decision of each model code
    pc,
    call,       \* the call under way: its caller and arguments
    todo,       \* variants still to be probed
    cands,      \* candidates still to be measured
    best,       \* best_rate of the probes
    table,      \* measured[0 .. num_measured - 1]
    choice,     \* the result of the selection
    fetched,    \* entries whose weights this call downloaded
    handle,     \* what the call returned
    calls

vars == <<disk, decision, pc, call, todo, cands, best, table, choice,
          fetched, handle, calls>>
selVars == <<todo, cands, best, table>>

(* The selection's locals, once its caller goes on with the result.       *)
SelectionGone == todo' = <<>> /\ cands' = <<>> /\ best' = 0 /\ table' = <<>>

NoHandle == [loaded |-> 0, quant |-> "none", desc |-> "none"]
NoChoice == [entry |-> 0, quant |-> "none", fresh |-> FALSE, rows |-> 0]
NoCall == [by |-> "create", named |-> 1, mode |-> "none", offline |-> FALSE, dry |-> FALSE]

Init ==
    /\ disk \in SUBSET Entries
    /\ decision = [c \in Codes |-> NoDecision]
    /\ pc = "idle" /\ call = NoCall
    /\ todo = <<>> /\ cands = <<>> /\ best = 0 /\ table = <<>>
    /\ choice = NoChoice /\ fetched = {} /\ handle = NoHandle
    /\ calls = 0

-----------------------------------------------------------------------------
(* The registry. *)

QuantOf(e) == Registry[e].quant
SameName(e, f) == Registry[e].name = Registry[f].name

(* lembed_find_text_model_variant: the first entry with that name and mode, *)
(* 0 for the code's -1.                                                     *)
FindVariant(m, q) ==
    LET found == {e \in Entries : SameName(e, m) /\ QuantOf(e) = q} IN
    IF found = {} THEN 0 ELSE CHOOSE e \in found : \A f \in found : e <= f

(* create_v2 counts the family by comparing pointers.  Whether equal string *)
(* literals share an address is up to the compiler; if not, an entry only  *)
(* equals itself.                                                          *)
FamilyCounts(m) == {1, Cardinality({e \in Entries : SameName(e, m)})}

(* quant_auto_collect_variants: the FP32 entry first, then kQuantOrder. *)
Baseline(m) == LET none == FindVariant(m, "none") IN IF none # 0 THEN none ELSE m
Sibling(m, q) ==
    LET v == FindVariant(m, q) IN IF v \in {0, Baseline(m)} THEN <<>> ELSE <<v>>
CollectVariants(m) ==
    <<Baseline(m)>> \o Sibling(m, "dynamic") \o Sibling(m, "fp16") \o Sibling(m, "static")

-----------------------------------------------------------------------------
(* quant_auto_probe: whether a variant survives.  A variant that needs the *)
(* whole budget of 250 ms for one document (at most 4 per second) stops    *)
(* with one document timed, before the comparison with the best.           *)
Survives(rate, bestRate) ==
    rate > 0 /\ (rate <= 4 \/ bestRate = 0 \/ rate * 3 >= bestRate)

(* quant_auto_pick on a table of positive rates. *)
RowsOf(t, q) == {i \in DOMAIN t : t[i].quant = q}
Rate(t, q) == t[CHOOSE i \in RowsOf(t, q) : TRUE].dps
HasRow(t, q) == RowsOf(t, q) # {}
Clears(t) == {i \in DOMAIN t : t[i].quant # "none" /\ 100 * t[i].dps >= 105 * Rate(t, "none")}
Fastest(t) == CHOOSE i \in Clears(t) :
                \A j \in Clears(t) : t[j].dps < t[i].dps \/ (t[j].dps = t[i].dps /\ i <= j)
PickIgnoringFaster(t) ==
    IF ~HasRow(t, "none") \/ Clears(t) = {} THEN "none"
    ELSE IF HasRow(t, "dynamic") THEN "dynamic" ELSE t[Fastest(t)].quant
Pick(t) ==
    IF ~HasRow(t, "none") \/ Clears(t) = {} THEN "none"
    ELSE LET f == t[Fastest(t)] IN
         IF HasRow(t, "dynamic") /\ f.quant # "dynamic"
            /\ 100 * f.dps < 115 * Rate(t, "dynamic")
         THEN "dynamic" ELSE f.quant

-----------------------------------------------------------------------------
(* The calls.  create_v2 resolves an explicit mode at once; under AUTO it  *)
(* selects only when the family has several entries.                       *)
Creating(e, q) == pc' = "create" /\ choice' = [NoChoice EXCEPT !.entry = e, !.quant = q]

Resolve(m, q) ==
    LET variant == IF QuantOf(m) = q THEN m ELSE FindVariant(m, q) IN
    IF variant = 0 THEN pc' = "failed" /\ choice' = NoChoice
    ELSE Creating(variant, q)

Begin(c) ==
    /\ pc = "idle" /\ calls < MaxCalls /\ c.by \in Callers
    /\ call' = c
    /\ calls' = calls + 1
    /\ UNCHANGED <<disk, decision, fetched, handle>> /\ UNCHANGED selVars

Enter(m, q) ==
    IF q # "auto" THEN Resolve(m, q)
    ELSE \E family_entries \in FamilyCounts(m) :
           IF family_entries > 1 THEN pc' = "load" /\ choice' = NoChoice
           ELSE Creating(m, "auto")

CreateV2(m, q, offline) ==
    /\ Begin([by |-> "create", named |-> m, mode |-> q, offline |-> offline, dry |-> FALSE])
    /\ Enter(m, q)

AutoSelect(m, dry) ==
    /\ Begin([by |-> "select", named |-> m, mode |-> "auto", offline |-> FALSE, dry |-> dry])
    /\ pc' = "load" /\ choice' = NoChoice

(* TextEmbedding.__init__: preferred_quantization="auto" selects first;    *)
(* otherwise the mode is the one given, "none" when none is.               *)
Python(m, q, offline) ==
    /\ Begin([by |-> "python", named |-> m, mode |-> q, offline |-> offline, dry |-> FALSE])
    /\ pc' = "ensure_named" /\ choice' = NoChoice

PythonAuto(m, offline) ==
    /\ Begin([by |-> "python_auto", named |-> m, mode |-> "auto", offline |-> offline, dry |-> FALSE])
    /\ pc' = "load" /\ choice' = NoChoice

-----------------------------------------------------------------------------
(* lembed_quantization_auto_select. *)

Named == call.named
Code == Registry[Named].code

(* Where a caller goes on with the selection's result. *)
AfterSelect ==
    CASE call.by = "select" -> "returned"
      [] call.by \in {"create", "python"} -> "create"
      [] call.by = "python_auto" -> "ensure_named"

(* quant_auto_load answers first, if the decision's variant is registered. *)
LoadDecision ==
    /\ pc = "load"
    /\ LET q == decision[Code]
           variant == IF q = QuantOf(Named) THEN Named ELSE FindVariant(Named, q) IN
       IF q # NoDecision /\ variant # 0
       THEN /\ choice' = [entry |-> variant, quant |-> q, fresh |-> FALSE, rows |-> 1]
            /\ pc' = AfterSelect
            /\ UNCHANGED selVars
       ELSE /\ pc' = "probe"
            /\ todo' = Tail(CollectVariants(Named))
            /\ cands' = <<Head(CollectVariants(Named))>>
            /\ best' = 0 /\ table' = <<>>
            /\ UNCHANGED choice
    /\ UNCHANGED <<disk, decision, call, fetched, handle, calls>>

(* Phase 1, one variant: quant_auto_open is offline and may fail, then     *)
(* quant_auto_probe.                                                       *)
Probe ==
    /\ pc = "probe" /\ todo # <<>>
    /\ LET v == Head(todo) IN
       \E rate \in IF v \in disk THEN ProbeRates \cup {0} ELSE {0} :
         IF Survives(rate, best)
         THEN /\ cands' = Append(cands, v)
              /\ best' = IF rate > best THEN rate ELSE best
         ELSE UNCHANGED <<cands, best>>
    /\ todo' = Tail(todo)
    /\ UNCHANGED <<disk, decision, pc, call, table, choice, fetched, handle, calls>>

ProbesDone ==
    /\ pc = "probe" /\ todo = <<>>
    /\ pc' = "measure" /\ best' = 0
    /\ UNCHANGED <<disk, decision, call, todo, cands, table, choice, fetched, handle, calls>>

(* Phase 2, one candidate: a row only for a positive rate. *)
Measure ==
    /\ pc = "measure" /\ cands # <<>>
    /\ LET v == Head(cands) IN
       \E rate \in IF v \in disk THEN MeasureRates ELSE {0} :
         table' = IF rate > 0 THEN Append(table, [quant |-> QuantOf(v), dps |-> rate])
                              ELSE table
    /\ cands' = Tail(cands)
    /\ UNCHANGED <<disk, decision, pc, call, todo, best, choice, fetched, handle, calls>>

(* The decision.  Without an FP32 row the named entry stands; without any  *)
(* row nothing is recorded.  The result of quant_auto_save is not looked   *)
(* at: it may fail.                                                        *)
WinnerTrustingPick(t) == Pick(t)
Winner(t) == IF HasRow(t, "none") THEN Pick(t) ELSE QuantOf(Named)

Decide ==
    /\ pc = "measure" /\ cands = <<>>
    /\ LET w == Winner(table)
           variant == IF w = QuantOf(Named) THEN Named ELSE FindVariant(Named, w) IN
       IF table = <<>>
       THEN /\ choice' = [entry |-> Named, quant |-> QuantOf(Named), fresh |-> TRUE, rows |-> 0]
            /\ UNCHANGED decision
       ELSE /\ choice' = [entry |-> IF variant # 0 THEN variant ELSE Named,
                          quant |-> IF variant # 0 THEN w ELSE QuantOf(Named),
                          fresh |-> TRUE, rows |-> Len(table)]
            /\ \/ ~call.dry /\ decision' = [decision EXCEPT ![Code] = choice'.quant]
               \/ UNCHANGED decision
    /\ pc' = AfterSelect
    /\ UNCHANGED <<disk, call, fetched, handle, calls>>
    /\ UNCHANGED selVars

-----------------------------------------------------------------------------
(* lembed_ensure_text_model: weights on disk, or downloaded, or failure. *)
Ensured(e) ==
    \/ e \in disk /\ UNCHANGED <<disk, fetched>>
    \/ /\ e \notin disk /\ ~call.offline
       /\ disk' = disk \cup {e}
       /\ fetched' = fetched \cup {e}

Fail == pc' = "failed" /\ choice' = NoChoice /\ UNCHANGED <<disk, fetched, handle>>

(* The Python constructor fetches the named entry whatever was selected,   *)
(* and calls create_v2 with the mode; no row at all means "none".          *)
EnsureNamed ==
    /\ pc = "ensure_named"
    /\ LET q == IF call.by = "python" THEN call.mode
                ELSE IF choice.rows = 0 THEN "none" ELSE choice.quant IN
       \/ Ensured(Named) /\ Enter(Named, q) /\ UNCHANGED handle
       \/ Named \notin disk /\ Fail
    /\ SelectionGone /\ UNCHANGED <<decision, call, calls>>

(* lembed_text_embedding_create of the chosen entry, and the mode that     *)
(* create_v2 writes into the handle; the descriptor was filled by create.  *)
CreateReportingNamed ==
    /\ pc = "create"
    /\ \/ /\ Ensured(choice.entry)
          /\ handle' = [loaded |-> choice.entry, quant |-> QuantOf(Named),
                        desc |-> QuantOf(choice.entry)]
          /\ pc' = "returned" /\ choice' = NoChoice
       \/ Fail
    /\ SelectionGone /\ UNCHANGED <<decision, call, calls>>
Create ==
    /\ pc = "create"
    /\ \/ /\ Ensured(choice.entry)
          /\ handle' = [loaded |-> choice.entry,
                        quant |-> IF choice.quant = "auto" THEN QuantOf(choice.entry)
                                                           ELSE choice.quant,
                        desc |-> QuantOf(choice.entry)]
          /\ pc' = "returned" /\ choice' = NoChoice
       \/ Fail
    /\ SelectionGone /\ UNCHANGED <<decision, call, calls>>

(* The caller has its answer. *)
Return ==
    /\ pc \in {"returned", "failed"} /\ pc' = "idle"
    /\ call' = NoCall /\ choice' = NoChoice /\ fetched' = {} /\ handle' = NoHandle
    /\ SelectionGone /\ UNCHANGED <<disk, decision, calls>>

(* Another process cleans the model directory or the recorded decisions.   *)
(* What it removes between two calls, or of a family that this call does   *)
(* not read, it may as well remove when the next call begins.              *)
RemoveWeights(e) ==
    /\ pc \notin {"idle", "returned", "failed"} /\ e \in disk /\ SameName(e, Named)
    /\ disk' = disk \ {e}
    /\ UNCHANGED <<decision, pc, call, choice, fetched, handle, calls>>
    /\ UNCHANGED selVars

ClearDecision(c) ==
    /\ pc = "idle" /\ decision[c] # NoDecision
    /\ decision' = [decision EXCEPT ![c] = NoDecision]
    /\ UNCHANGED <<disk, pc, call, choice, fetched, handle, calls>>
    /\ UNCHANGED selVars

Next ==
    \/ \E m \in Entries, offline \in BOOLEAN, q \in Modes \cup {"auto"} :
         CreateV2(m, q, offline) \/ Python(m, q, offline)
    \/ \E m \in Entries, offline \in BOOLEAN : PythonAuto(m, offline)
    \/ \E m \in Entries, dry \in BOOLEAN : AutoSelect(m, dry)
    \/ LoadDecision \/ Probe \/ ProbesDone \/ Measure \/ Decide
    \/ EnsureNamed \/ Create \/ Return
    \/ \E e \in Entries : RemoveWeights(e)
    \/ \E c \in Codes : ClearDecision(c)

Spec == Init /\ [][Next]_vars

-----------------------------------------------------------------------------
(* A handle reports, in ctx->quantization and in desc_v2, the mode of the  *)
(* weights that were loaded, whether the mode was given, selected now,     *)
(* read from a recorded decision or left at AUTO; and the weights are of   *)
(* the model that was named (create_v2: "ctx never reports a mode the      *)
(* loaded file does not implement").  A mode asked of create_v2 or of the  *)
(* Python constructor is the mode of those weights, never the default file *)
(* under the requested name, and nothing else was downloaded on the way.   *)
ReportsLoaded ==
    handle.loaded # 0 =>
        /\ handle.quant = QuantOf(handle.loaded)
        /\ handle.desc = QuantOf(handle.loaded)
        /\ SameName(handle.loaded, Named)
        /\ call.mode # "auto" => QuantOf(handle.loaded) = call.mode
        /\ fetched \subseteq {Named, handle.loaded}

FreshChoice == pc = AfterSelect /\ choice.fresh

(* A selection that could not time the FP32 weights keeps the entry the    *)
(* caller named: it neither promotes the caller to FP32 nor swaps in a     *)
(* variant compared with nothing.                                          *)
NoBaselineKeepsNamed ==
    FreshChoice /\ ~HasRow(table, "none") => choice.entry = Named

(* No measured variant is both over the floor and 15 % faster than what    *)
(* was chosen, and no row of the table stands for a failed measurement.    *)
NothingClearlyFaster ==
    FreshChoice /\ HasRow(table, "none") =>
        /\ HasRow(table, choice.quant)
        /\ \A i \in DOMAIN table :
             /\ table[i].dps > 0
             /\ i \in Clears(table) => 100 * table[i].dps < 115 * Rate(table, choice.quant)
=============================================================================
