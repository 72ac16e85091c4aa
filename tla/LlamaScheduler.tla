--------------------------- MODULE LlamaScheduler ---------------------------
(***************************************************************************)
(* The dynamic batching scheduler of the llama.cpp backend                 *)
(* (detail/llama_scheduler_impl.hpp) inside the session pool that owns it  *)
(* (LlamaSessionPool): callers submit texts, one worker thread takes them  *)
(* in batches, runs them on the pool's contexts and settles one promise    *)
(* per text.  A request is the caller that made it; its embedding is       *)
(* <<"value", caller>>.                                                    *)
(*                                                                         *)
(* What happens under mtx_ is one step.  The timed wait may end at any     *)
(* moment, so a missed notification only costs max_wait_ms_.               *)
(***************************************************************************)
EXTENDS Naturals, Sequences, FiniteSets

CONSTANTS
    Callers,        \* threads that call embed_scheduled, each once
    BatchLimits     \* values of max_batch_size_

ASSUME LimitAssumption == BatchLimits \subseteq Nat \ {0}

VARIABLES
    requests_,      \* the queue, front first
    stop_,
    max_batch_size_,
    worker,         \* where the worker thread is
    batch,          \* the requests it took
    embeddings,     \* what process_batch_ returned for them
    turn,           \* the promise it settles next
    outcome,        \* outcome[c]: the state of the promise of c's request
    ans,            \* ans[c]: what submit returned to c
    owner,          \* where the thread that ends the pool is, and how it began
    contexts,       \* the llama contexts: "live" or "freed"
    arrived         \* history: the requests in the order they were queued

schedVars == <<requests_, stop_, max_batch_size_, worker, batch, embeddings, turn,
          outcome, ans, owner, contexts, arrived>>
workerVars == <<worker, batch, embeddings, turn>>
ownerVars == <<stop_, owner, contexts>>

Value(c) == <<"value", c>>
Error == <<"error">>
Broken == <<"broken">>
Settled(c) == outcome[c] \notin {<<"none">>, <<"queued">>}

SchedInit ==
    /\ requests_ = <<>>
    /\ stop_ = FALSE
    /\ max_batch_size_ \in BatchLimits
    /\ worker = "top" /\ batch = <<>> /\ embeddings = <<>> /\ turn = 1
    /\ outcome = [c \in Callers |-> <<"none">>]
    /\ ans = [c \in Callers |-> <<"none">>]
    /\ owner = [at |-> "idle", first |-> "none"]
    /\ contexts = "live"
    /\ arrived = <<>>

-----------------------------------------------------------------------------
(* submit: the promise AND its future move into the queue ... *)
Submit(c) ==
    /\ outcome[c] = <<"none">>
    /\ owner.first # "free" /\ owner.at \notin {"reset", "gone"}
    /\ requests_' = Append(requests_, c)
    /\ arrived' = Append(arrived, c)
    /\ outcome' = [outcome EXCEPT ![c] = <<"queued">>]
    /\ UNCHANGED <<max_batch_size_, workerVars, ans, ownerVars>>

(* ... so f.get() finds a future without state and throws future_error.    *)
SubmitGet(c) ==
    /\ outcome[c] # <<"none">> /\ ans[c] = <<"none">>
    /\ ans' = [ans EXCEPT ![c] = <<"no_state">>]
    /\ UNCHANGED <<requests_, max_batch_size_, workerVars, outcome, ownerVars, arrived>>

SetMaxBatchSize(n) ==
    /\ max_batch_size_' = n
    /\ UNCHANGED <<requests_, workerVars, outcome, ans, ownerVars, arrived>>

-----------------------------------------------------------------------------
(* worker_loop: the test of stop_ at the top. *)
WorkerTop ==
    /\ worker = "top"
    /\ worker' = IF stop_ THEN "exited" ELSE "waiting"
    /\ UNCHANGED <<requests_, max_batch_size_, batch, embeddings, turn, outcome, ans,
                   ownerVars, arrived>>

Take == IF Len(requests_) < max_batch_size_ THEN Len(requests_) ELSE max_batch_size_

(* The wait ends (notified, timed out or spurious): leave, go round again, *)
(* or take up to max_batch_size_ requests from the front.                  *)
WorkerTakeNewest ==
    /\ worker = "waiting" /\ ~stop_ /\ requests_ # <<>>
    /\ batch' = SubSeq(requests_, Len(requests_) - Take + 1, Len(requests_))
    /\ requests_' = SubSeq(requests_, 1, Len(requests_) - Take)
    /\ worker' = "process"
    /\ UNCHANGED <<max_batch_size_, embeddings, turn, outcome, ans, ownerVars, arrived>>
WorkerTakeDropping ==
    /\ worker = "waiting" /\ ~stop_ /\ requests_ # <<>>
    /\ batch' = SubSeq(requests_, 1, Take)
    /\ requests_' = <<>>
    /\ worker' = "process"
    /\ UNCHANGED <<max_batch_size_, embeddings, turn, outcome, ans, ownerVars, arrived>>
WorkerTake ==
    /\ worker = "waiting" /\ ~stop_ /\ requests_ # <<>>
    /\ batch' = SubSeq(requests_, 1, Take)
    /\ requests_' = SubSeq(requests_, Take + 1, Len(requests_))
    /\ worker' = "process"
    /\ UNCHANGED <<max_batch_size_, embeddings, turn, outcome, ans, ownerVars, arrived>>

WorkerAgain ==
    /\ worker = "waiting"
    /\ stop_ \/ requests_ = <<>>
    /\ worker' = IF stop_ THEN "exited" ELSE "top"
    /\ UNCHANGED <<requests_, max_batch_size_, batch, embeddings, turn, outcome, ans,
                   ownerVars, arrived>>

(* process_batch_ is embed_batch on the pool: one embedding per text in    *)
(* order, anything when the contexts are gone, or an exception, after      *)
(* which every embedding is empty.                                         *)
ProcessOk ==
    /\ worker = "process"
    /\ embeddings' = [n \in DOMAIN batch |->
         IF contexts = "live" THEN Value(batch[n]) ELSE <<"garbage">>]
    /\ worker' = "settle" /\ turn' = 1
    /\ UNCHANGED <<requests_, max_batch_size_, batch, outcome, ans, ownerVars, arrived>>

ProcessThrows ==
    /\ worker = "process"
    /\ embeddings' = [n \in DOMAIN batch |-> <<"empty">>]
    /\ worker' = "settle" /\ turn' = 1
    /\ UNCHANGED <<requests_, max_batch_size_, batch, outcome, ans, ownerVars, arrived>>

(* One promise per turn; an empty embedding becomes the generic error,     *)
(* because no exception is current outside the catch block.                *)
SettleOneShifted ==
    /\ worker = "settle" /\ turn <= Len(batch)
    /\ outcome' = [outcome EXCEPT ![batch[turn]] =
         IF embeddings[Len(batch) - turn + 1] = <<"empty">> THEN Error
         ELSE embeddings[Len(batch) - turn + 1]]
    /\ turn' = turn + 1
    /\ UNCHANGED <<requests_, max_batch_size_, worker, batch, embeddings, ans, ownerVars, arrived>>
SettleOne ==
    /\ worker = "settle" /\ turn <= Len(batch)
    /\ outcome' = [outcome EXCEPT ![batch[turn]] =
         IF embeddings[turn] = <<"empty">> THEN Error ELSE embeddings[turn]]
    /\ turn' = turn + 1
    /\ UNCHANGED <<requests_, max_batch_size_, worker, batch, embeddings, ans, ownerVars, arrived>>

SettleEnds ==
    /\ worker = "settle" /\ turn > Len(batch)
    /\ worker' = "top" /\ batch' = <<>> /\ embeddings' = <<>> /\ turn' = 1
    /\ UNCHANGED <<requests_, max_batch_size_, outcome, ans, ownerVars, arrived>>

-----------------------------------------------------------------------------
(* disable_scheduler: stop() sets the flag and goes on to join.            *)
Disable ==
    /\ owner.at = "idle"
    /\ owner' = [at |-> "joining", first |-> "disable"]
    /\ stop_' = TRUE
    /\ UNCHANGED <<requests_, max_batch_size_, workerVars, outcome, ans, contexts, arrived>>

JoinNoWait ==
    /\ owner.at = "joining"
    /\ owner' = [owner EXCEPT !.at = "joined"]
    /\ UNCHANGED <<requests_, max_batch_size_, workerVars, outcome, ans, stop_, contexts, arrived>>
JoinWorker ==
    /\ owner.at = "joining" /\ worker = "exited"
    /\ owner' = [owner EXCEPT !.at = "joined"]
    /\ UNCHANGED <<requests_, max_batch_size_, workerVars, outcome, ans, stop_, contexts, arrived>>

(* The scheduler is destroyed, by scheduler_.reset() or as a member of the *)
(* pool: the promises still queued are destroyed with it.                  *)
InQueue(c) == \E n \in DOMAIN requests_ : requests_[n] = c

ResetKeepingQueue ==
    /\ owner.at = "joined"
    /\ owner' = [owner EXCEPT !.at = IF owner.first = "disable" THEN "reset" ELSE "gone"]
    /\ UNCHANGED <<requests_, outcome>>
    /\ UNCHANGED <<max_batch_size_, workerVars, ans, stop_, contexts, arrived>>
ResetBreakingAll ==
    /\ owner.at = "joined"
    /\ owner' = [owner EXCEPT !.at = IF owner.first = "disable" THEN "reset" ELSE "gone"]
    /\ requests_' = <<>>
    /\ outcome' = [c \in Callers |-> IF outcome[c] # <<"none">> THEN Broken ELSE outcome[c]]
    /\ UNCHANGED <<max_batch_size_, workerVars, ans, stop_, contexts, arrived>>
Reset ==
    /\ owner.at = "joined"
    /\ owner' = [owner EXCEPT !.at = IF owner.first = "disable" THEN "reset" ELSE "gone"]
    /\ requests_' = <<>>
    /\ outcome' = [c \in Callers |-> IF InQueue(c) THEN Broken ELSE outcome[c]]
    /\ UNCHANGED <<max_batch_size_, workerVars, ans, stop_, contexts, arrived>>

(* ~LlamaSessionPool of a pool whose scheduler was disabled.               *)
FreeContexts ==
    /\ owner.at = "reset"
    /\ owner' = [owner EXCEPT !.at = "gone"]
    /\ contexts' = "freed"
    /\ UNCHANGED <<requests_, max_batch_size_, workerVars, outcome, ans, stop_, arrived>>

(* ~LlamaSessionPool of a pool whose scheduler is still enabled: the body  *)
(* frees the contexts, and only then is the member scheduler_ destroyed.   *)
FreeFirst ==
    /\ owner.at = "idle"
    /\ owner' = [at |-> "freed", first |-> "free"]
    /\ contexts' = "freed"
    /\ UNCHANGED <<requests_, max_batch_size_, workerVars, outcome, ans, stop_, arrived>>

DestroyScheduler ==
    /\ owner.at = "freed"
    /\ owner' = [owner EXCEPT !.at = "joining"]
    /\ stop_' = TRUE
    /\ UNCHANGED <<requests_, max_batch_size_, workerVars, outcome, ans, contexts, arrived>>

-----------------------------------------------------------------------------
WorkerLoop == WorkerTop \/ WorkerTake \/ WorkerAgain \/ ProcessOk \/ ProcessThrows
          \/ SettleOne \/ SettleEnds
Owner == JoinWorker \/ Reset \/ FreeContexts \/ DestroyScheduler

SchedNext ==
    \/ \E c \in Callers : Submit(c) \/ SubmitGet(c)
    \/ \E n \in BatchLimits : SetMaxBatchSize(n)
    \/ WorkerLoop
    \/ Disable \/ FreeFirst \/ Owner

(* The worker thread is scheduled, process_batch_ returns or throws, and a *)
(* thread whose join can finish goes on.                                   *)
SchedFairness == WF_schedVars(WorkerLoop) /\ WF_schedVars(Owner)

SchedSpec == SchedInit /\ [][SchedNext]_schedVars /\ SchedFairness

-----------------------------------------------------------------------------
(* The scheduler neither loses nor reorders requests: those that arrived   *)
(* are, in order, the settled ones, the batch in hand and the queue, until *)
(* the scheduler is destroyed (worker_loop moves them out of a std::queue  *)
(* while submit pushes and the batch limit changes).                       *)
TakenInOrder ==
    owner.at \notin {"reset", "gone"} =>
    LET inBatch == IF worker = "settle" THEN SubSeq(batch, turn, Len(batch)) ELSE batch
        tail == inBatch \o requests_
        n == Len(arrived) - Len(tail)
    IN /\ n >= 0
       /\ tail = SubSeq(arrived, n + 1, Len(arrived))
       /\ \A m \in 1..n : Settled(arrived[m])

(* A settled promise carries the embedding of its own text or an error,    *)
(* whatever else was in its batch; only a pool destroyed with its          *)
(* scheduler enabled can deliver anything else.                            *)
OwnEmbedding ==
    \A c \in Callers : Settled(c) /\ owner.first # "free"
        => outcome[c] \in {Value(c), Error, Broken}

(* A promise is settled at most once (set_value on a satisfied promise     *)
(* would throw out of the worker thread and terminate the process).        *)
SettledOnce == [][\A c \in Callers : Settled(c) => outcome'[c] = outcome[c]]_schedVars

(* disable_scheduler makes it safe to free the contexts: after it the      *)
(* worker runs no batch on them, because stop() joins it.                  *)
NoUseAfterFree ==
    worker = "process" /\ owner.first # "free" => contexts = "live"

(* Every request is settled, unless the scheduler is stopped first.        *)
QueueDrains == \A c \in Callers : (outcome[c] = <<"queued">>) ~> (Settled(c) \/ stop_)

(* Stopping ends: the worker leaves its wait, the joining thread goes on   *)
(* to destroy the pool and no promise is left pending.                     *)
StopEnds == (owner.at = "joining") ~>
                /\ owner.at = "gone"
                /\ \A c \in Callers : outcome[c] # <<"queued">>
=============================================================================
