--------------------------- MODULE EmbeddingPool ---------------------------
(***************************************************************************)
(* The pools that spread one call over several model handles:              *)
(* lembed::EmbeddingPool (embed, embed_stream) and TextEmbeddingPool.embed *)
(* in Python.  A text is its position in the argument and a vector is the  *)
(* text it was computed from, so a result is right when it counts up.      *)
(*                                                                         *)
(* `done' is a std::vector<bool>: one word, of which done[w] is a bit.     *)
(* Setting a bit reads the word and writes it back.  The worker threads do *)
(* so under mtx, the launching thread does so for idle workers without it, *)
(* so its read and its write are steps of their own.                       *)
(***************************************************************************)
EXTENDS Naturals, Sequences, FiniteSets

CONSTANTS
    NumWorkers,     \* num_workers_
    Totals,         \* sizes of the texts argument
    BatchSizes,     \* batch_size arguments
    Modes,          \* which of "embed", "stream" and "py" are called
    MayFail         \* whether a worker's model run can fail

ASSUME WorkersAssumption == NumWorkers \in Nat \ {0}

ASSUME ArgumentsAssumption ==
    /\ Totals \subseteq Nat /\ BatchSizes \subseteq Nat
    /\ Modes \subseteq {"embed", "stream", "py"}

VARIABLES
    call,       \* the call: mode, total, bs, and the caller's position
    th,         \* th[w]: where worker w's thread is
    pos,        \* pos[w]: next text of worker w's subset
    partial,    \* the vectors worker w computed
    done,       \* the workers whose bit of the word is set
    next_to_yield,
    out         \* what the caller received, in order

vars == <<call, th, pos, partial, done, next_to_yield, out>>

Workers == 0..(NumWorkers - 1)
Min2(a, b) == IF a < b THEN a ELSE b

Init ==
    /\ call = [at |-> "idle"]
    /\ th = [w \in Workers |-> "none"]
    /\ pos = [w \in Workers |-> 0]
    /\ partial = [w \in Workers |-> <<>>]
    /\ done = {}
    /\ next_to_yield = 0
    /\ out = <<>>

-----------------------------------------------------------------------------
(* The split of the texts, positions counted from 0. *)
PerWorkerFloor == call.total \div NumWorkers
PerWorker == (call.total + NumWorkers - 1) \div NumWorkers
Start(w) == w * PerWorker
End(w) == Min2(Start(w) + PerWorker, call.total)
HasWork(w) == Start(w) < End(w)

Call(mode, total, bs) ==
    /\ call.at = "idle"
    /\ call' = [at |-> "launch", mode |-> mode, total |-> total, bs |-> bs,
                w |-> 0, word |-> {}]
    /\ UNCHANGED <<th, pos, partial, done, next_to_yield, out>>

(* The launch loop: a thread, async task or executor job for worker w.     *)
Launch ==
    LET w == call.w IN
    /\ call.at = "launch" /\ w < NumWorkers /\ HasWork(w)
    /\ th' = [th EXCEPT ![w] = "running"]
    /\ pos' = [pos EXCEPT ![w] = Start(w)]
    /\ call' = [call EXCEPT !.w = w + 1]
    /\ UNCHANGED <<partial, done, next_to_yield, out>>

(* A worker without texts: embed and the Python pool start nothing ...     *)
SkipIdle ==
    /\ call.at = "launch" /\ call.w < NumWorkers /\ ~HasWork(call.w)
    /\ call.mode # "stream"
    /\ call' = [call EXCEPT !.w = @ + 1]
    /\ UNCHANGED <<th, pos, partial, done, next_to_yield, out>>

(* ... and embed_stream does done[w] = true: the word is read ...          *)
IdleLoad ==
    /\ call.at = "launch" /\ call.w < NumWorkers /\ ~HasWork(call.w)
    /\ call.mode = "stream"
    /\ call' = [call EXCEPT !.at = "store", !.word = done]
    /\ UNCHANGED <<th, pos, partial, done, next_to_yield, out>>

(* ... and written back with the bit set. *)
IdleStore ==
    /\ call.at = "store"
    /\ done' = call.word \cup {call.w}
    /\ call' = [call EXCEPT !.at = "launch", !.w = @ + 1]
    /\ UNCHANGED <<th, pos, partial, next_to_yield, out>>

LaunchEnds ==
    /\ call.at = "launch" /\ call.w = NumWorkers
    /\ call' = [call EXCEPT !.at = "wait", !.w = 0]
    /\ UNCHANGED <<th, pos, partial, done, next_to_yield, out>>

-----------------------------------------------------------------------------
(* embed_subset: one batch on worker w's handle. *)
BatchEnd(w) == Min2(pos[w] + call.bs, End(w))

WorkBatch(w) ==
    /\ th[w] = "running" /\ pos[w] < End(w)
    /\ partial' = [partial EXCEPT
         ![w] = @ \o [i \in 1..(BatchEnd(w) - pos[w]) |-> pos[w] + i - 1]]
    /\ pos' = [pos EXCEPT ![w] = BatchEnd(w)]
    /\ UNCHANGED <<call, th, done, next_to_yield, out>>

(* The batch fails.  The C++ worker goes on with the next batch; the       *)
(* Python handle raises and the job ends.                                  *)
WorkFails(w) ==
    /\ MayFail /\ th[w] = "running" /\ pos[w] < End(w)
    /\ IF call.mode = "py"
       THEN th' = [th EXCEPT ![w] = "raised"] /\ UNCHANGED pos
       ELSE pos' = [pos EXCEPT ![w] = BatchEnd(w)] /\ UNCHANGED th
    /\ UNCHANGED <<call, partial, done, next_to_yield, out>>

WorkEnds(w) ==
    /\ th[w] = "running" /\ pos[w] = End(w) /\ call.mode # "stream"
    /\ th' = [th EXCEPT ![w] = "ended"]
    /\ UNCHANGED <<call, pos, partial, done, next_to_yield, out>>

(* A stream worker that is through takes mtx and sets its bit; nobody else *)
(* but the launching thread can touch the word in between.                 *)
Locked == \E w \in Workers : th[w] = "yielding"

Publish(w) ==
    /\ th[w] = "running" /\ pos[w] = End(w) /\ call.mode = "stream" /\ ~Locked
    /\ done' = done \cup {w}
    /\ th' = [th EXCEPT ![w] = "yielding"]
    /\ UNCHANGED <<call, pos, partial, next_to_yield, out>>

(* While it holds mtx it hands over every subset that is due ...           *)
YieldUnordered(w) ==
    /\ th[w] = "yielding" /\ next_to_yield < Cardinality(done)
    /\ out' = out \o partial[w]
    /\ next_to_yield' = next_to_yield + 1
    /\ UNCHANGED <<call, th, pos, partial, done>>
Yield(w) ==
    /\ th[w] = "yielding" /\ next_to_yield < NumWorkers /\ next_to_yield \in done
    /\ out' = out \o partial[next_to_yield]
    /\ next_to_yield' = next_to_yield + 1
    /\ UNCHANGED <<call, th, pos, partial, done>>

(* ... and releases it at the first that is not. *)
YieldEnds(w) ==
    /\ th[w] = "yielding"
    /\ ~(next_to_yield < NumWorkers /\ next_to_yield \in done)
    /\ th' = [th EXCEPT ![w] = "ended"]
    /\ UNCHANGED <<call, pos, partial, done, next_to_yield, out>>

-----------------------------------------------------------------------------
(* embed: f.get() in worker order, appending each partial result.          *)
Collect ==
    /\ call.at = "wait" /\ call.mode = "embed" /\ call.w < NumWorkers /\ th[call.w] = "ended"
    /\ out' = out \o partial[call.w]
    /\ th' = [th EXCEPT ![call.w] = "none"]
    /\ call' = [call EXCEPT !.w = @ + 1]
    /\ UNCHANGED <<pos, partial, done, next_to_yield>>

CollectEnds ==
    /\ call.at = "wait" /\ call.mode = "embed"
    /\ call.w < NumWorkers => th[call.w] = "none"
    /\ call' = [call EXCEPT !.at = "returned"]
    /\ UNCHANGED <<th, pos, partial, done, next_to_yield, out>>

AllEnded == \A w \in Workers : th[w] \in {"none", "ended", "raised"}

(* embed_stream joins its threads. *)
JoinDrained ==
    /\ call.at = "wait" /\ call.mode = "stream" /\ AllEnded
    /\ next_to_yield = NumWorkers
    /\ call' = [call EXCEPT !.at = "returned"]
    /\ UNCHANGED <<th, pos, partial, done, next_to_yield, out>>
Join ==
    /\ call.at = "wait" /\ call.mode = "stream" /\ AllEnded
    /\ call' = [call EXCEPT !.at = "returned"]
    /\ UNCHANGED <<th, pos, partial, done, next_to_yield, out>>

(* Leaving the executor waits for every job; a job that raised makes embed *)
(* raise, otherwise the chunks are concatenated in order.                  *)
Concat[w \in 0..NumWorkers] ==
    IF w = 0 THEN <<>> ELSE Concat[w - 1] \o partial[w - 1]

PyReturn ==
    /\ call.at = "wait" /\ call.mode = "py" /\ AllEnded
    /\ IF \E w \in Workers : th[w] = "raised"
       THEN call' = [call EXCEPT !.at = "raised"] /\ UNCHANGED out
       ELSE call' = [call EXCEPT !.at = "returned"] /\ out' = Concat[NumWorkers]
    /\ UNCHANGED <<th, pos, partial, done, next_to_yield>>

Main == Launch \/ SkipIdle \/ IdleLoad \/ IdleStore \/ LaunchEnds
        \/ Collect \/ CollectEnds \/ Join \/ PyReturn
Worker(w) == WorkBatch(w) \/ WorkFails(w) \/ WorkEnds(w)
             \/ Publish(w) \/ Yield(w) \/ YieldEnds(w)

Next ==
    \/ \E mode \in Modes, total \in Totals, bs \in BatchSizes : Call(mode, total, bs)
    \/ Main
    \/ \E w \in Workers : Worker(w)

(* Threads that can run are scheduled, and a model run ends. *)
Fairness == WF_vars(Main) /\ \A w \in Workers : WF_vars(Worker(w))

Spec == Init /\ [][Next]_vars /\ Fairness

-----------------------------------------------------------------------------
Returned == call.at = "returned"

(* At any moment the caller has received vectors of increasing texts: a    *)
(* worker that overtakes another never hands its subset over first         *)
(* (embedding_pool.hpp: "Use ordered queue to maintain text order").       *)
OutIncreases == \A i, j \in DOMAIN out : i < j => out[i] < out[j]

(* A call that returns has delivered the vector of text i at position i,   *)
(* for every text (embedding_pool.hpp: "Embed a batch of texts using all   *)
(* workers").                                                              *)
OnePerText == Returned => out = [i \in 1..call.total |-> i - 1]

NoBatchFailed == \A w \in Workers : HasWork(w) => Len(partial[w]) = End(w) - Start(w)

(* What is true of the code as it is: every vector arrives at its place    *)
(* when no batch failed, and, for a stream, every worker had texts.        *)
DeliversAll ==
    (call.at = "returned" /\ NoBatchFailed /\ (call.mode = "stream" => \A w \in Workers : HasWork(w)))
        => OnePerText

(* Every call returns or raises: no worker and no caller waits for ever.   *)
CallEnds == (call.at = "launch") ~> (call.at \in {"returned", "raised"})
=============================================================================
