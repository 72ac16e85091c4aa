-------------------------- MODULE ModelCacheProofs --------------------------
(***************************************************************************)
(* Proofs about the downloads and the clean-ups of the model cache, for    *)
(* every number of files and chunks, every choice of required files, any   *)
(* repositories and keep lists, and every bound on calls and crashes.      *)
(*                                                                         *)
(* First ModelDownload on its own.  Then, while every clean-up is a dry    *)
(* run or is told to keep the model, the processes that load it are those  *)
(* of ModelDownload, and its invariant goes on holding.  Last, what a      *)
(* clean-up reports is what it did, whatever the others do meanwhile.      *)
(***************************************************************************)
EXTENDS ModelCache, FiniteSetTheorems, TLAPS

(* The labels inside download_hf_file. *)
Downloading == {"open", "perform", "discard", "remove", "rename"}

(* What the type invariant rests on: a download is of a file of the model, *)
(* and the transfer has an open handle.                                    *)
Located ==
    \A p \in Procs : /\ at[p] \in Downloading => idx[p] \in FileIds
                     /\ at[p] = "perform" => fd[p] \in Inodes

TInv == TypeOK /\ Located

(* The next file, or the exception, after a download that failed.          *)
LEMMA FailedFileFacts ==
    ASSUME TypeOK, NEW p \in Procs, idx[p] \in FileIds, FailedFile(p)
    PROVE  /\ at' \in [Procs -> Labels] /\ idx' \in [Procs -> 1..(NumFiles + 1)]
           /\ \A q \in Procs \ {p} : at'[q] = at[q] /\ idx'[q] = idx[q]
           /\ \/ at'[p] = "threw" /\ idx'[p] = idx[p] /\ idx[p] \in Required
              \/ at'[p] = "next" /\ idx'[p] = idx[p] + 1 /\ idx[p] \notin Required
<1>. USE FilesAssumption DEF TypeOK, FailedFile, Goto, Labels, FileIds
<1>1. CASE idx[p] \in Required
  BY <1>1
<1>2. CASE idx[p] \notin Required
  <2>1. idx[p] + 1 \in 1..(NumFiles + 1)
    OBVIOUS
  <2>. QED  BY <1>2, <2>1
<1>. QED
  BY <1>1, <1>2

(* A step of one process keeps the types. *)
LEMMA StepTInv == TInv /\ [Next]_vars => TInv'
<1>. SUFFICES ASSUME TInv, [Next]_vars PROVE TInv'
  OBVIOUS
<1>. USE FilesAssumption, ChunksAssumption, NoneAssumption
     DEF TInv, TypeOK, Located, Downloading, Labels, FileIds, Whole, Goto
<1>1. ASSUME NEW p \in Procs, NEW off \in BOOLEAN, EnsureModel(p, off) PROVE TInv'
  BY <1>1 DEF EnsureModel, dirVars
<1>2. ASSUME NEW p \in Procs, CheckFile(p) PROVE TInv'
  <2>1. CASE idx' = [idx EXCEPT ![p] = idx[p] + 1] /\ UNCHANGED at
    <3>1. idx[p] + 1 \in 1..(NumFiles + 1)
      BY <1>2 DEF CheckFile
    <3>. QED  BY <1>2, <2>1, <3>1 DEF CheckFile, dirVars
  <2>2. CASE at' = [at EXCEPT ![p] = "threw"] /\ UNCHANGED idx
    BY <1>2, <2>2 DEF CheckFile, dirVars
  <2>3. CASE at' = [at EXCEPT ![p] = "open"] /\ UNCHANGED idx
    <3>1. idx[p] \in FileIds
      BY <1>2 DEF CheckFile
    <3>. QED  BY <1>2, <2>3, <3>1 DEF CheckFile, dirVars
  <2>. QED  BY <1>2, <2>1, <2>2, <2>3 DEF CheckFile
<1>3. ASSUME NEW p \in Procs, FilesDone(p) PROVE TInv'
  BY <1>3 DEF FilesDone, dirVars
<1>4. ASSUME NEW p \in Procs, OpenTmp(p) PROVE TInv'
  BY <1>4 DEF OpenTmp
<1>5. ASSUME NEW p \in Procs, OpenFails(p) PROVE TInv'
  BY <1>5, FailedFileFacts DEF OpenFails, dirVars
<1>6. ASSUME NEW p \in Procs, CurlInitFails(p) PROVE TInv'
  BY <1>6, FailedFileFacts DEF CurlInitFails, dirVars
<1>7. ASSUME NEW p \in Procs, Receive(p) PROVE TInv'
  BY <1>7 DEF Receive
<1>8. ASSUME NEW p \in Procs, TransferFails(p) PROVE TInv'
  BY <1>8 DEF TransferFails, dirVars
<1>9. ASSUME NEW p \in Procs, TransferEnds(p) PROVE TInv'
  BY <1>9 DEF TransferEnds
<1>10. ASSUME NEW p \in Procs, RemoveTmp(p) PROVE TInv'
  BY <1>10, FailedFileFacts DEF RemoveTmp
<1>11. ASSUME NEW p \in Procs, RemoveDest(p) PROVE TInv'
  BY <1>11 DEF RemoveDest
<1>12. ASSUME NEW p \in Procs, Rename(p) PROVE TInv'
  <2>1. CASE tmp[idx[p]] # None /\ idx' = [idx EXCEPT ![p] = idx[p] + 1]
    <3>1. idx[p] \in FileIds /\ idx[p] + 1 \in 1..(NumFiles + 1)
      BY <1>12 DEF Rename
    <3>. QED  BY ZenonT(40), <1>12, <2>1, <3>1 DEF Rename
  <2>2. CASE tmp[idx[p]] = None /\ at' = [at EXCEPT ![p] = "discard"]
             /\ UNCHANGED <<dest, tmp, idx>>
    BY <1>12, <2>2 DEF Rename
  <2>. QED  BY <1>12, <2>1, <2>2 DEF Rename
<1>13. ASSUME NEW p \in Procs, Crash(p) PROVE TInv'
  BY <1>13 DEF Crash, dirVars
<1>14. CASE UNCHANGED vars
  BY <1>14 DEF vars
<1>. QED
  BY <1>1, <1>2, <1>3, <1>4, <1>5, <1>6, <1>7, <1>8, <1>9, <1>10, <1>11,
     <1>12, <1>13, <1>14 DEF Next

(* Type correctness, for any number of processes and any failures.         *)
THEOREM TypeCorrect == Spec => []TypeOK
<1>1. Init => TInv
  BY FilesAssumption, ChunksAssumption
     DEF Init, TInv, TypeOK, Located, Downloading, Labels, FileIds, Whole
<1>2. TInv => TypeOK
  BY DEF TInv
<1>. QED
  BY <1>1, <1>2, StepTInv, PTL DEF Spec

-----------------------------------------------------------------------------
(* One process loads models at a time, and fclose does not fail.           *)
Alone == (\A p, q \in Procs : p = q) /\ ~DiskMayFill

(* A ".tmp" path never names a published file, nor another's ".tmp".       *)
Apart ==
    \A f, g \in FileIds :
        /\ dest[f] # None => tmp[g] # dest[f]
        /\ tmp[f] # None /\ tmp[f] = tmp[g] => f = g

(* What process p has established where it is: a download is of an absent  *)
(* file, the transfer writes the file's ".tmp" in order, what is renamed   *)
(* is whole, and the required files passed so far are present.             *)
Progress(p) ==
    /\ at[p] \in Downloading => dest[idx[p]] = None
    /\ at[p] = "perform" => fd[p] = tmp[idx[p]] /\ data[fd[p]] = 1..(chunk[p] - 1)
    /\ at[p] \in {"remove", "rename"} =>
         tmp[idx[p]] # None /\ data[tmp[idx[p]]] = Whole
    /\ at[p] \in Downloading \cup {"next"} =>
         \A f \in Required : f < idx[p] => dest[f] # None
    /\ at[p] = "returned" => \A f \in Required : dest[f] # None

SInv == TInv /\ PublishedWhole /\ Apart /\ \A p \in Procs : Progress(p)

(* What the invariant says of the directory, and how a step of the only    *)
(* process may use it, action by action.                                   *)
LEMMA StepSInv == Alone /\ SInv /\ [Next]_vars => SInv'
<1>. SUFFICES ASSUME Alone, SInv, [Next]_vars PROVE SInv'
  OBVIOUS
<1>0. TInv /\ TInv'
  BY StepTInv DEF SInv
<1>. USE <1>0
<1>a. ASSUME NEW p \in Procs, Progress(p)' PROVE \A q \in Procs : Progress(q)'
  BY <1>a DEF Alone
<1>. USE FilesAssumption, ChunksAssumption, NoneAssumption
     DEF FileIds, Whole, Goto, Downloading
<1>1. ASSUME NEW p \in Procs, NEW off \in BOOLEAN, EnsureModel(p, off) PROVE SInv'
  <2>1. Progress(p)'
    BY <1>1 DEF EnsureModel, dirVars, Progress, SInv, TInv, TypeOK
  <2>. QED
    BY <1>1, <2>1, <1>a DEF EnsureModel, dirVars, SInv, PublishedWhole, Apart
<1>2. ASSUME NEW p \in Procs, CheckFile(p) PROVE SInv'
  <2>1. Progress(p)'
    BY <1>2 DEF CheckFile, dirVars, Progress, SInv, TInv, TypeOK
  <2>. QED
    BY <1>2, <2>1, <1>a DEF CheckFile, dirVars, SInv, PublishedWhole, Apart
<1>3. ASSUME NEW p \in Procs, FilesDone(p) PROVE SInv'
  <2>1. Progress(p)'
    BY <1>3 DEF FilesDone, dirVars, Progress, SInv, TInv, TypeOK
  <2>. QED
    BY <1>3, <2>1, <1>a DEF FilesDone, dirVars, SInv, PublishedWhole, Apart
<1>4. ASSUME NEW p \in Procs, OpenTmp(p) PROVE SInv'
  <2>1. PICK n \in Inodes :
          /\ IF tmp[idx[p]] = None THEN Unused(n) ELSE n = tmp[idx[p]]
          /\ tmp' = [tmp EXCEPT ![idx[p]] = n]
          /\ data' = [data EXCEPT ![n] = {}]
          /\ fd' = [fd EXCEPT ![p] = n]
    BY <1>4 DEF OpenTmp
  <2>2. idx[p] \in FileIds /\ UNCHANGED <<dest, idx>> /\ at'[p] = "perform" /\ chunk'[p] = 1
    BY <1>4 DEF OpenTmp, TInv, TypeOK, Located
  <2>3. \A f \in FileIds : dest[f] # n
    BY <2>1, <2>2 DEF SInv, Apart, Unused
  <2>4. \A f \in FileIds \ {idx[p]} : tmp[f] # n
    BY <2>1, <2>2 DEF SInv, Apart, Unused
  <2>5. PublishedWhole'
    BY <2>1, <2>2, <2>3 DEF SInv, PublishedWhole, TInv, TypeOK
  <2>6. Apart'
    BY <2>1, <2>2, <2>3, <2>4 DEF SInv, Apart, TInv, TypeOK
  <2>7. Progress(p)'
    <3>1. fd'[p] = n /\ tmp'[idx[p]] = n /\ data'[n] = {} /\ 1..(1 - 1) = {}
      BY <2>1, <2>2 DEF TInv, TypeOK
    <3>. QED
      BY <1>4, <2>2, <3>1 DEF OpenTmp, SInv, Progress
  <2>. QED  BY <2>5, <2>6, <2>7, <1>a DEF SInv
<1>5. ASSUME NEW p \in Procs, OpenFails(p) PROVE SInv'
  <2>1. Progress(p)'
    BY <1>5, FailedFileFacts DEF OpenFails, dirVars, Progress, SInv, TInv, Located
  <2>. QED
    BY <1>5, <2>1, <1>a DEF OpenFails, dirVars, SInv, PublishedWhole, Apart
<1>6. ASSUME NEW p \in Procs, CurlInitFails(p) PROVE SInv'
  <2>1. Progress(p)'
    BY <1>6, FailedFileFacts DEF CurlInitFails, dirVars, Progress, SInv, TInv, Located
  <2>. QED
    BY <1>6, <2>1, <1>a DEF CurlInitFails, dirVars, SInv, PublishedWhole, Apart
<1>7. ASSUME NEW p \in Procs, Receive(p) PROVE SInv'
  <2>1. /\ idx[p] \in FileIds /\ fd[p] \in Inodes /\ fd[p] = tmp[idx[p]]
        /\ data[fd[p]] = 1..(chunk[p] - 1) /\ dest[idx[p]] = None
    BY <1>7 DEF Receive, SInv, TInv, Located, Progress
  <2>2. \A f \in FileIds : dest[f] # None => dest[f] # fd[p]
    BY <2>1 DEF SInv, Apart
  <2>3. PublishedWhole' /\ Apart'
    BY <1>7, <2>2 DEF Receive, SInv, PublishedWhole, Apart, TInv, TypeOK
  <2>4. data'[fd[p]] = 1..(chunk'[p] - 1)
    <3>1. chunk[p] \in Nat \ {0} /\ chunk'[p] = chunk[p] + 1
      BY <1>7 DEF Receive, TInv, TypeOK
    <3>2. data'[fd[p]] = (1..(chunk[p] - 1)) \cup {chunk[p]}
      BY <1>7, <2>1 DEF Receive, TInv, TypeOK
    <3>. QED  BY <3>1, <3>2
  <2>5. Progress(p)'
    BY <1>7, <2>1, <2>4 DEF Receive, SInv, Progress
  <2>. QED  BY <2>3, <2>5, <1>a DEF SInv
<1>8. ASSUME NEW p \in Procs, TransferFails(p) PROVE SInv'
  <2>1. Progress(p)'
    BY <1>8 DEF TransferFails, dirVars, Progress, SInv, TInv, TypeOK
  <2>. QED
    BY <1>8, <2>1, <1>a DEF TransferFails, dirVars, SInv, PublishedWhole, Apart
<1>9. ASSUME NEW p \in Procs, TransferEnds(p) PROVE SInv'
  <2>1. UNCHANGED <<dest, tmp, data, idx>> /\ at'[p] = "remove"
    BY <1>9 DEF TransferEnds, Alone, TInv, TypeOK
  <2>2. /\ idx[p] \in FileIds /\ fd[p] \in Inodes /\ fd[p] = tmp[idx[p]]
        /\ data[fd[p]] = 1..(chunk[p] - 1) /\ chunk[p] = Chunks + 1
    BY <1>9 DEF TransferEnds, SInv, TInv, TypeOK, Located, Progress
  <2>3. data[fd[p]] = Whole
    BY <2>2
  <2>4. Progress(p)'
    BY <1>9, <2>1, <2>2, <2>3 DEF TransferEnds, SInv, Progress
  <2>. QED
    BY <2>1, <2>4, <1>a DEF SInv, PublishedWhole, Apart
<1>10. ASSUME NEW p \in Procs, RemoveTmp(p) PROVE SInv'
  <2>1. Progress(p)'
    BY <1>10, FailedFileFacts DEF RemoveTmp, Progress, SInv, TInv, Located
  <2>2. PublishedWhole' /\ Apart'
    BY <1>10 DEF RemoveTmp, SInv, PublishedWhole, Apart, TInv, TypeOK
  <2>. QED  BY <2>1, <2>2, <1>a DEF SInv
<1>11. ASSUME NEW p \in Procs, RemoveDest(p) PROVE SInv'
  <2>1. idx[p] \in FileIds /\ dest[idx[p]] = None
    BY <1>11 DEF RemoveDest, SInv, TInv, Located, Progress
  <2>2. dest' = dest
    BY <1>11, <2>1 DEF RemoveDest, TInv, TypeOK
  <2>3. Progress(p)'
    BY <1>11, <2>2 DEF RemoveDest, SInv, Progress, TInv, TypeOK
  <2>. QED
    BY <1>11, <2>2, <2>3, <1>a DEF RemoveDest, SInv, PublishedWhole, Apart
<1>12. ASSUME NEW p \in Procs, Rename(p) PROVE SInv'
  <2>1. /\ idx[p] \in FileIds /\ dest[idx[p]] = None /\ tmp[idx[p]] # None
        /\ data[tmp[idx[p]]] = Whole /\ tmp[idx[p]] \in Inodes
    BY <1>12 DEF Rename, SInv, TInv, TypeOK, Located, Progress
  <2>2. /\ dest' = [dest EXCEPT ![idx[p]] = tmp[idx[p]]]
        /\ tmp' = [tmp EXCEPT ![idx[p]] = None]
        /\ at'[p] = "next" /\ idx'[p] = idx[p] + 1 /\ data' = data
    BY <1>12, <2>1 DEF Rename, TInv, TypeOK
  <2>3. PublishedWhole'
    BY <2>1, <2>2 DEF SInv, PublishedWhole, TInv, TypeOK
  <2>4. Apart'
    <3>1. \A f \in FileIds : /\ tmp'[f] = IF f = idx[p] THEN None ELSE tmp[f]
                             /\ dest'[f] = IF f = idx[p] THEN tmp[idx[p]] ELSE dest[f]
      BY <2>1, <2>2 DEF TInv, TypeOK
    <3>. QED  BY <2>1, <3>1 DEF SInv, Apart
  <2>5. Progress(p)'
    BY <1>12, <2>1, <2>2 DEF Rename, SInv, Progress, TInv, TypeOK
  <2>. QED  BY <2>3, <2>4, <2>5, <1>a DEF SInv
<1>13. ASSUME NEW p \in Procs, Crash(p) PROVE SInv'
  <2>1. Progress(p)'
    BY <1>13 DEF Crash, dirVars, Progress, SInv, TInv, TypeOK
  <2>. QED
    BY <1>13, <2>1, <1>a DEF Crash, dirVars, SInv, PublishedWhole, Apart
<1>14. CASE UNCHANGED vars
  BY <1>14 DEF vars, SInv, PublishedWhole, Apart, Progress
<1>. QED
  BY <1>1, <1>2, <1>3, <1>4, <1>5, <1>6, <1>7, <1>8, <1>9, <1>10, <1>11,
     <1>12, <1>13, <1>14 DEF Next

LEMMA InitSInv == Init => SInv
BY FilesAssumption, ChunksAssumption
   DEF Init, SInv, TInv, TypeOK, Located, Downloading, Labels, FileIds, Whole,
       PublishedWhole, Apart, Progress

(* The invariant holds throughout, for one process at a time.              *)
LEMMA SpecSInv ==
    ASSUME Alone
    PROVE  Spec => []SInv
<1>1. Init => SInv
  BY InitSInv
<1>2. SInv /\ [Next]_vars => SInv'
  BY StepSInv
<1>. QED
  BY <1>1, <1>2, PTL DEF Spec

(* Whatever fails and wherever a process dies, a file under its final name *)
(* is whole: file_exists is a sound test for "already downloaded".         *)
THEOREM PublishedIsWhole ==
    ASSUME Alone
    PROVE  Spec => []PublishedWhole
<1>1. SInv => PublishedWhole
  BY DEF SInv
<1>. QED
  BY <1>1, SpecSInv, PTL

LEMMA SInvEnsures == SInv => EnsuredPresent
BY FilesAssumption DEF SInv, Progress, EnsuredPresent, PublishedWhole, FileIds

(* A call that returns leaves every required file present and whole.       *)
THEOREM EnsureDelivers ==
    ASSUME Alone
    PROVE  Spec => []EnsuredPresent
BY SInvEnsures, SpecSInv, PTL

(* A step of the only process neither removes nor changes what is          *)
(* published.                                                              *)
LEMMA StepKeeps ==
    ASSUME SInv, SInv', [Next]_vars, NEW f \in FileIds, dest[f] # None
    PROVE  dest'[f] = dest[f] /\ data'[dest[f]] = data[dest[f]]
<1>1. CASE Next
  <2>1. PICK p \in Procs :
          \/ \E off \in BOOLEAN : EnsureModel(p, off)
          \/ CheckFile(p) \/ FilesDone(p)
          \/ OpenTmp(p) \/ OpenFails(p) \/ CurlInitFails(p)
          \/ Receive(p) \/ TransferFails(p) \/ TransferEnds(p)
          \/ RemoveTmp(p) \/ RemoveDest(p) \/ Rename(p) \/ Crash(p)
    BY <1>1 DEF Next
  <2>2. at[p] \in Downloading => idx[p] \in FileIds /\ idx[p] # f
    BY DEF SInv, TInv, Located, Progress
  <2>3. dest[f] \in Inodes /\ data[dest[f]] = Whole
    BY DEF SInv, TInv, TypeOK, PublishedWhole
  <2>4. dest'[f] = dest[f]
    BY <2>1, <2>2 DEF EnsureModel, CheckFile, FilesDone, OpenTmp, OpenFails,
       CurlInitFails, Receive, TransferFails, TransferEnds, RemoveTmp, RemoveDest,
       Rename, Crash, dirVars, Downloading, SInv, TInv, TypeOK
  <2>5. data'[dest[f]] = Whole
    BY <2>3, <2>4 DEF SInv, PublishedWhole
  <2>. QED  BY <2>3, <2>4, <2>5
<1>2. CASE UNCHANGED vars
  BY <1>2 DEF vars
<1>. QED  BY <1>1, <1>2

(* A published file is never removed or changed by a later call.           *)
THEOREM PublishedIsKept ==
    ASSUME Alone
    PROVE  Spec => PublishedStays
<1> DEFINE Keeps == \A f \in FileIds : dest[f] # None =>
                      dest'[f] = dest[f] /\ data'[dest[f]] = data[dest[f]]
<1>1. ASSUME SInv, SInv', [Next]_vars PROVE Keeps
  BY <1>1, StepKeeps
<1>2. SInv /\ SInv' /\ [Next]_vars => [Keeps]_vars
  BY <1>1
<1>. QED
  BY <1>2, SpecSInv, PTL DEF Spec, PublishedStays

-----------------------------------------------------------------------------
(* The clean-ups. *)
Fields == {"at", "keep", "dry", "due", "todo", "deleted", "freed", "dirs",
           "bytes", "whole", "alone"}

CleanerType == DOMAIN cl = Fields /\ cl = [x \in Fields |-> cl[x]]

(* A clean-up deletes only what the list it was called with does not keep, *)
(* and that list has been recorded; a dry run does not come to delete.     *)
CleanerInv ==
    /\ Working /\ ~cl.dry => cl.keep \in lists
    /\ Working => \A name \in cl.todo : name \notin Kept(cl.keep)
    /\ cl.at = "delete" => ~cl.dry

CacheInv == CleanerType /\ CleanerInv /\ (Spared => SInv)

(* A process that loads takes a step of ModelDownload, or fails at once.   *)
LEMMA LoadSteps ==
    ASSUME NEW p \in Procs, Load(p)
    PROVE  Next \/ EnsureUnknown(p)
BY DEF Load, Next, Ensure

(* Types survive the clean-ups too, those that take the model away         *)
(* included.                                                               *)
LEMMA UnknownKeepsTInv ==
    ASSUME TInv, NEW p \in Procs, EnsureUnknown(p)
    PROVE  TInv'
BY DEF EnsureUnknown, Goto, dirVars, TInv, TypeOK, Located, Labels, Downloading

LEMMA CacheStepTInv == TInv /\ [CacheNext]_cacheVars => TInv'
<1>. SUFFICES ASSUME TInv, [CacheNext]_cacheVars PROVE TInv'
  OBVIOUS
<1>1. ASSUME NEW p \in Procs, Load(p) PROVE TInv'
  BY <1>1, LoadSteps, StepTInv, UnknownKeepsTInv
<1>2. ASSUME NEW f \in FileIds, RemoveFile(f) PROVE TInv'
  BY <1>2 DEF RemoveFile, procVars, TInv, TypeOK, Located
<1>3. CASE UNCHANGED vars
  BY <1>3, StepTInv
<1>. QED
  BY <1>1, <1>2, <1>3
  DEF CacheNext, Clean, Cleanup, CleanupExcept, PythonCleanup, ListOne, ListFails,
      ListEnds, RemoveDir, RemoveFails, DeleteEnds, CleanupDies, cacheVars

(* The directory and the processes keep their types under any clean-ups.   *)
THEOREM CacheTypeCorrect == CacheSpec => []TypeOK
<1>1. CacheInit => TInv
  BY InitSInv DEF CacheInit, SInv
<1>2. TInv => TypeOK
  BY DEF TInv
<1>. QED  BY <1>1, <1>2, CacheStepTInv, PTL DEF CacheSpec

LEMMA LoadKeepsSInv == Alone /\ SInv /\ (\E p \in Procs : Load(p)) => SInv'
<1>. SUFFICES ASSUME Alone, SInv, NEW p \in Procs, Load(p) PROVE SInv'
  OBVIOUS
<1>1. CASE Next
  BY <1>1, StepSInv
<1>2. CASE EnsureUnknown(p)
  <2>1. Progress(p)' /\ \A q \in Procs : q = p
    BY <1>2 DEF EnsureUnknown, Goto, dirVars, Progress, SInv, TInv, TypeOK, Alone, Downloading
  <2>2. TInv'
    BY <1>2, UnknownKeepsTInv DEF SInv
  <2>. QED
    BY <1>2, <2>1, <2>2 DEF EnsureUnknown, dirVars, SInv, PublishedWhole, Apart
<1>. QED  BY <1>1, <1>2, LoadSteps

(* No clean-up that was told to keep the model removes a file of it.       *)
LEMMA SparedFiles ==
    ASSUME CleanerInv, Spared, NEW f \in FileIds
    PROVE  ~RemoveFile(f)
<1>. SUFFICES ASSUME cl.at = "delete", Home \in cl.todo PROVE FALSE
  BY DEF RemoveFile
<1>1. cl.keep \in lists /\ Home \notin Kept(cl.keep)
  BY DEF CleanerInv, Working
<1>2. Code \in cl.keep
  BY <1>1 DEF Spared
<1>. QED  BY <1>1, <1>2 DEF Kept, Home

(* So a step of a clean-up changes nothing of ModelDownload's then.        *)
LEMMA SparedClean ==
    ASSUME CleanerInv, Spared, Clean
    PROVE  UNCHANGED vars
BY SparedFiles
DEF Clean, Cleanup, CleanupExcept, PythonCleanup, ListOne, ListFails, ListEnds,
    RemoveDir, RemoveFails, DeleteEnds, CleanupDies

LEMMA ListsGrow == [CacheNext]_cacheVars => lists \subseteq lists'
BY DEF CacheNext, cacheVars, cleanVars, Clean, Load, Cleanup, CleanupExcept,
       PythonCleanup, ListOne, ListFails, ListEnds, RemoveFile, RemoveDir,
       RemoveFails, DeleteEnds, CleanupDies

LEMMA StepCleaner ==
    ASSUME CleanerType, CleanerInv, [CacheNext]_cacheVars
    PROVE  CleanerType' /\ CleanerInv'
<1>. USE DEF CleanerType, CleanerInv, Working, Fields, Kept
<1>1. ASSUME NEW p \in Procs, Load(p) PROVE CleanerType' /\ CleanerInv'
  BY <1>1 DEF Load, Disturb
<1>2. ASSUME NEW keep, NEW dry \in BOOLEAN, Cleanup(keep, dry)
      PROVE  CleanerType' /\ CleanerInv'
  BY <1>2 DEF Cleanup, NoCleanup
<1>3. ASSUME NEW name, ListOne(name) PROVE CleanerType' /\ CleanerInv'
  BY <1>3 DEF ListOne, ToDelete
<1>4. CASE ListFails
  BY <1>4 DEF ListFails
<1>5. CASE ListEnds
  BY <1>5 DEF ListEnds
<1>6. ASSUME NEW f \in FileIds, RemoveFile(f) PROVE CleanerType' /\ CleanerInv'
  BY <1>6 DEF RemoveFile
<1>7. ASSUME NEW name, RemoveDir(name) PROVE CleanerType' /\ CleanerInv'
  BY <1>7 DEF RemoveDir
<1>8. ASSUME NEW name, RemoveFails(name) PROVE CleanerType' /\ CleanerInv'
  BY <1>8 DEF RemoveFails
<1>9. CASE DeleteEnds
  BY <1>9 DEF DeleteEnds
<1>10. CASE CleanupDies
  BY <1>10 DEF CleanupDies, NoCleanup
<1>11. CASE UNCHANGED cacheVars
  BY <1>11 DEF cacheVars, cleanVars
<1>. QED
  BY <1>1, <1>2, <1>3, <1>4, <1>5, <1>6, <1>7, <1>8, <1>9, <1>10, <1>11
  DEF CacheNext, Clean, CleanupExcept, PythonCleanup

LEMMA StepCleanerType ==
    ASSUME CleanerType, [CacheNext]_cacheVars
    PROVE  CleanerType'
<1>. USE DEF CleanerType, Fields
<1>. QED
  BY DEF CacheNext, Clean, CleanupExcept, PythonCleanup, Load, Disturb, Cleanup, NoCleanup, ListOne,
         ListFails, ListEnds, RemoveFile, RemoveDir, RemoveFails, DeleteEnds, CleanupDies,
         cacheVars, cleanVars

LEMMA SpecCacheInv == ASSUME Alone PROVE CacheSpec => []CacheInv
<1>1. CacheInit => CacheInv
  BY InitSInv DEF CacheInit, CacheInv, CleanerType, Fields, CleanerInv, NoCleanup, Working
<1>2. CacheInv /\ [CacheNext]_cacheVars => CacheInv'
  <2>. SUFFICES ASSUME CacheInv, [CacheNext]_cacheVars PROVE CacheInv'
    OBVIOUS
  <2>1. CleanerType' /\ CleanerInv'
    BY StepCleaner DEF CacheInv
  <2>2. ASSUME Spared' PROVE SInv'
    <3>1. Spared /\ SInv
      BY <2>2, ListsGrow DEF Spared, CacheInv
    <3>2. CASE Clean \/ UNCHANGED cacheVars
      <4>1. UNCHANGED vars
        BY <3>1, <3>2, SparedClean DEF CacheInv, cacheVars
      <4>. QED  BY <3>1, <4>1, StepSInv
    <3>. QED  BY <3>1, <3>2, LoadKeepsSInv DEF CacheNext
  <2>. QED  BY <2>1, <2>2 DEF CacheInv
<1>. QED
  BY <1>1, <1>2, PTL DEF CacheSpec

(* A model that every clean-up was told to keep is there, whole, when a    *)
(* call that ensured it returns: for the one process that loads it and an  *)
(* fclose that does not fail (Alone), which the code does not ensure.      *)
THEOREM KeptModelIsEnsured ==
    ASSUME Alone
    PROVE  CacheSpec => []KeptIsEnsured
<1>1. CacheInv => KeptIsEnsured
  BY SInvEnsures DEF CacheInv, KeptIsEnsured
<1>. QED  BY <1>1, SpecCacheInv, PTL

(* And, under the same two conditions, nothing that was published of it is *)
(* removed or changed.                                                     *)
THEOREM KeptModelStays ==
    ASSUME Alone
    PROVE  CacheSpec => KeptStays
<1> DEFINE Stays == Spared => \A f \in FileIds : dest[f] # None =>
                      dest'[f] = dest[f] /\ data'[dest[f]] = data[dest[f]]
<1>1. ASSUME CacheInv, [CacheNext]_cacheVars PROVE Stays
  <2>. SUFFICES ASSUME Spared, NEW f \in FileIds, dest[f] # None
                PROVE  dest'[f] = dest[f] /\ data'[dest[f]] = data[dest[f]]
    OBVIOUS
  <2>1. CASE Clean \/ UNCHANGED cacheVars
    BY <1>1, <2>1, SparedClean DEF CacheInv, cacheVars, vars
  <2>2. ASSUME NEW p \in Procs, Load(p)
        PROVE  dest'[f] = dest[f] /\ data'[dest[f]] = data[dest[f]]
    <3>1. SInv /\ SInv'
      BY <1>1, <2>2, LoadKeepsSInv DEF CacheInv
    <3>2. CASE Next
      BY <3>1, <3>2, StepKeeps
    <3>. QED  BY <2>2, <3>2, LoadSteps DEF EnsureUnknown, dirVars
  <2>. QED  BY <1>1, <2>1, <2>2 DEF CacheNext
<1>2. CacheInv /\ [CacheNext]_cacheVars => [Stays]_vars
  BY <1>1
<1>. QED  BY <1>2, SpecCacheInv, PTL DEF CacheSpec, KeptStays

-----------------------------------------------------------------------------
(* What a clean-up reports.  No inode has two names (OneName), so removing *)
(* a file takes its bytes, and no others, off the size of the directory.   *)
(* Rest is what the directories still to be removed hold: while nobody     *)
(* else writes, the bytes removed and Rest add up to freed_bytes.          *)

OneName ==
    \A f, g \in FileIds :
        /\ dest[f] # None /\ dest[f] = dest[g] => f = g
        /\ tmp[f] # None /\ tmp[f] = tmp[g] => f = g
        /\ dest[f] # None => dest[f] # tmp[g]

Rest == (IF Home \in cl.todo THEN Size(Home) ELSE 0) + Cardinality(cl.todo \ {Home})

Counted ==
    /\ cl.deleted \in Nat /\ cl.freed \in Nat /\ cl.dirs \in Nat /\ cl.bytes \in Nat
    /\ IsFiniteSet(cl.todo) /\ \A name \in cl.todo : IsModelDir(name)

AddsUp ==
    /\ cl.at \in {"list", "failed", "refused"} => cl.bytes = 0 /\ cl.dirs = 0
    /\ cl.at = "list" => cl.deleted = 0 /\ (cl.alone => cl.freed = Rest)
    /\ cl.at = "delete" =>
        /\ ~cl.dry /\ cl.deleted = cl.dirs
        /\ cl.alone => cl.bytes + Rest <= cl.freed /\ (cl.whole => cl.bytes + Rest = cl.freed)

TellInv == TInv /\ CleanerType /\ OneName /\ Counted /\ AddsUp /\ CleanupTells

(* The bytes below Home, as pairs of an inode and a chunk of it.           *)
HomeBytes == {x \in Linked \X Whole : x[2] \in data[x[1]]}

LEMMA WholeIsFinite == \A S \in SUBSET Whole : IsFiniteSet(S) /\ Cardinality(S) \in Nat
<1>1. IsFiniteSet(Whole)
  BY ChunksAssumption, FS_Interval DEF Whole
<1>. QED  BY <1>1, FS_Subset, FS_CardinalityType

LEMMA HomeIsFinite ==
  ASSUME TypeOK
  PROVE  /\ IsFiniteSet(HomeBytes) /\ Cardinality(HomeBytes) \in Nat
         /\ Size(Home) = Cardinality(HomeBytes)
<1>1. IsFiniteSet(FileIds)
  BY FilesAssumption, FS_Interval DEF FileIds
<1>. DEFINE D == {dest[f] : f \in FileIds}
            T == {tmp[f] : f \in FileIds}
<1>2. IsFiniteSet(D) /\ IsFiniteSet(T)
  <2>1. dest \in Surjection(FileIds, D) /\ tmp \in Surjection(FileIds, T)
    BY DEF TypeOK, Surjection
  <2>. QED  BY <1>1, <2>1, FS_Surjection
<1>3. IsFiniteSet(D \cup T)
  BY <1>2, FS_Union
<1>4. IsFiniteSet(Linked)
  <2>1. Linked \in SUBSET (D \cup T)
    BY DEF Linked
  <2>. QED  BY <1>3, <2>1, FS_Subset
<1>5. IsFiniteSet(Linked \X Whole)
  BY <1>4, WholeIsFinite, FS_Product
<1>6. HomeBytes \in SUBSET (Linked \X Whole)
  BY DEF HomeBytes
<1>7. IsFiniteSet(HomeBytes)
  BY <1>5, <1>6, FS_Subset
<1>. QED  BY <1>7, FS_CardinalityType DEF Size, HomeBytes

(* A pair for each chunk of one inode. *)
LEMMA BytesOfInode ==
  ASSUME NEW i, NEW S \in SUBSET Whole
  PROVE  IsFiniteSet({<<i, c>> : c \in S}) /\ Cardinality({<<i, c>> : c \in S}) = Cardinality(S)
<1>. DEFINE P == {<<i, c>> : c \in S}
            b == [c \in S |-> <<i, c>>]
<1>1. b \in Bijection(S, P)
  BY DEF Bijection, Injection, Surjection, IsInjective
<1>. HIDE DEF P
<1>2. ExistsBijection(S, P)
  BY <1>1 DEF ExistsBijection
<1>3. IsFiniteSet(P) /\ Cardinality(P) = Cardinality(S)
  BY <1>2, WholeIsFinite, FS_Bijection
<1>. QED  BY <1>3 DEF P

(* Unlinking an inode takes its chunks, and no others, off the directory.  *)
LEMMA Unlinked ==
  ASSUME TypeOK, UNCHANGED data, NEW i \in Linked, Linked' = Linked \ {i}
  PROVE  /\ Size(Home) = Size(Home)' + Cardinality(data[i])
         /\ Size(Home)' \in Nat /\ Cardinality(data[i]) \in Nat
<1>1. i \in Inodes /\ data[i] \in SUBSET Whole
  BY DEF Linked, TypeOK
<1>. DEFINE P == {<<i, c>> : c \in data[i]}
            new == {x \in (Linked \ {i}) \X Whole : x[2] \in data[x[1]]}
            S == data[i]
<1>2. IsFiniteSet(P) /\ Cardinality(P) = Cardinality(S) /\ Cardinality(S) \in Nat
  <2>1. S \in SUBSET Whole
    BY <1>1
  <2>. HIDE DEF S
  <2>2. /\ IsFiniteSet({<<i, c>> : c \in S})
        /\ Cardinality({<<i, c>> : c \in S}) = Cardinality(S)
    BY Zenon, <2>1, BytesOfInode
  <2>3. P = {<<i, c>> : c \in S}
    BY DEF S
  <2>. HIDE DEF P
  <2>. QED  BY <2>1, <2>2, <2>3, WholeIsFinite
<1>3. /\ IsFiniteSet(HomeBytes) /\ Cardinality(HomeBytes) \in Nat /\ Size(Home) = Cardinality(HomeBytes)
  BY HomeIsFinite
<1>4. HomeBytes = new \cup P /\ new \in SUBSET HomeBytes
  BY <1>1 DEF HomeBytes
<1>5. new \cap P = {}
  OBVIOUS
<1>6. Size(Home)' = Cardinality(new)
  BY DEF Size
<1>. HIDE DEF new, P, S
<1>7. IsFiniteSet(new) /\ Cardinality(new) \in Nat
  BY <1>3, <1>4, FS_Subset, FS_CardinalityType
<1>8. Cardinality(HomeBytes) = Cardinality(new) + Cardinality(P) - Cardinality(new \cap P)
  BY <1>2, <1>4, <1>7, FS_Union
<1>9. Cardinality(new \cap P) = 0
  BY <1>5, FS_EmptySet
<1>10. Size(Home) = Size(Home)' + Cardinality(S) /\ Size(Home)' \in Nat
  BY <1>2, <1>3, <1>6, <1>7, <1>8, <1>9
<1>. QED  BY <1>2, <1>10 DEF S

LEMMA StepOneName ==
  ASSUME TInv, OneName, [CacheNext]_cacheVars
  PROVE  OneName'
<1>1. CASE UNCHANGED <<dest, tmp>>
  BY <1>1 DEF OneName
<1>2. ASSUME NEW p \in Procs, OpenTmp(p) PROVE OneName'
  <2>1. idx[p] \in FileIds
    BY <1>2 DEF TInv, Located, Downloading, OpenTmp
  <2>2. PICK n \in Inodes : /\ IF tmp[idx[p]] = None THEN Unused(n) ELSE n = tmp[idx[p]]
                            /\ tmp' = [tmp EXCEPT ![idx[p]] = n] /\ UNCHANGED dest
    BY <1>2 DEF OpenTmp
  <2>3. tmp \in [FileIds -> Inodes \cup {None}]
    BY DEF TInv, TypeOK
  <2>4. CASE tmp[idx[p]] = None
    BY <2>1, <2>2, <2>3, <2>4 DEF OneName, Unused
  <2>5. CASE tmp[idx[p]] # None
    BY <2>1, <2>2, <2>3, <2>5 DEF OneName
  <2>. QED  BY <2>4, <2>5
<1>3. ASSUME NEW f \in FileIds,
             \/ tmp' = [tmp EXCEPT ![f] = None] /\ UNCHANGED dest
             \/ dest' = [dest EXCEPT ![f] = None] /\ UNCHANGED tmp
             \/ /\ tmp[f] # None /\ dest' = [dest EXCEPT ![f] = tmp[f]]
                /\ tmp' = [tmp EXCEPT ![f] = None]
      PROVE  OneName'
  BY <1>3 DEF TInv, TypeOK, OneName
<1>4. ASSUME NEW p \in Procs, Load(p) PROVE OneName'
  <2>1. CASE OpenTmp(p)
    BY <1>2, <2>1
  <2>2. CASE RemoveTmp(p) \/ RemoveDest(p) \/ Rename(p)
    <3>1. idx[p] \in FileIds
      BY <2>2 DEF TInv, Located, Downloading, RemoveTmp, RemoveDest, Rename
    <3>. QED  BY <1>1, <1>3, <2>2, <3>1 DEF RemoveTmp, RemoveDest, Rename
  <2>. QED  BY <1>1, <1>4, <2>1, <2>2
         DEF Load, Ensure, EnsureModel, EnsureUnknown, OpenFails, CheckFile, FilesDone, CurlInitFails,
             Receive, TransferFails, TransferEnds, Crash, dirVars
<1>5. ASSUME NEW f \in FileIds, RemoveFile(f) PROVE OneName'
  BY <1>3, <1>5 DEF RemoveFile
<1>. QED
  BY <1>1, <1>4, <1>5
  DEF CacheNext, Clean, Cleanup, CleanupExcept, PythonCleanup, ListOne, ListFails,
      ListEnds, RemoveDir, RemoveFails, DeleteEnds, CleanupDies, cacheVars, vars

LEMMA RestIsNat ==
  ASSUME TypeOK, Counted
  PROVE  /\ Rest \in Nat /\ Size(Home) \in Nat /\ Cardinality(cl.todo \ {Home}) \in Nat
         /\ IsFiniteSet(cl.todo \ {Home})
<1>1. IsFiniteSet(cl.todo \ {Home})
  BY FS_RemoveElement DEF Counted
<1>2. Size(Home) \in Nat
  BY HomeIsFinite
<1>. QED  BY <1>1, <1>2, FS_CardinalityType DEF Rest

LEMMA RestSame ==
  ASSUME UNCHANGED dirVars, cl'.todo = cl.todo
  PROVE  Rest' = Rest
  BY DEF Rest, Size, Linked, dirVars

(* One more directory to remove, or one less. *)
LEMMA RestGrows ==
  ASSUME TypeOK, Counted, UNCHANGED dirVars, NEW name, name \notin cl.todo,
         cl'.todo = cl.todo \cup {name}
  PROVE  Rest' = Rest + Size(name) /\ Size(name) \in Nat
<1>. DEFINE T == cl.todo \ {Home}
<1>1. /\ Rest \in Nat /\ Size(Home) \in Nat /\ Cardinality(T) \in Nat /\ IsFiniteSet(T)
  BY RestIsNat
<1>2. /\ Rest = (IF Home \in cl.todo THEN Size(Home) ELSE 0) + Cardinality(T)
      /\ Rest' = (IF Home \in cl'.todo THEN Size(Home) ELSE 0) + Cardinality(cl'.todo \ {Home})
  <2>1. Size(Home)' = Size(Home)
    BY DEF Size, Linked, dirVars
  <2>. QED  BY <2>1 DEF Rest
<1>3. CASE name = Home
  <2>1. cl'.todo \ {Home} = T /\ Home \in cl'.todo /\ Home \notin cl.todo
    BY <1>3
  <2>2. Size(name) = Size(Home)
    BY <1>3
  <2>. DEFINE card == Cardinality(T)
              size == Size(Home)
  <2>3. Rest = 0 + card /\ Rest' = size + card
    BY Zenon, <1>2, <2>1
  <2>4. card \in Nat /\ size \in Nat /\ Size(name) = size
    BY <1>1, <2>2
  <2>. HIDE DEF card, size
  <2>. QED  BY <2>3, <2>4
<1>4. CASE name # Home
  <2>1. cl'.todo \ {Home} = T \cup {name} /\ name \notin T
    BY <1>4
  <2>2. Home \in cl'.todo <=> Home \in cl.todo
    BY <1>4
  <2>. HIDE DEF T
  <2>3. Cardinality(T \cup {name}) = Cardinality(T) + 1
    BY <1>1, <2>1, FS_AddElement
  <2>4. Size(name) = 1
    BY <1>4 DEF Size
  <2>. DEFINE z == IF Home \in cl.todo THEN Size(Home) ELSE 0
              c == Cardinality(T)
  <2>6. z \in Nat /\ c \in Nat /\ Rest = z + c /\ Rest' = z + (c + 1)
    BY <1>1, <1>2, <2>1, <2>2, <2>3
  <2>. HIDE DEF z, c
  <2>. QED  BY <2>4, <2>6
<1>. QED  BY <1>3, <1>4

LEMMA RestShrinks ==
  ASSUME TypeOK, Counted, UNCHANGED dirVars, NEW name \in cl.todo, cl'.todo = cl.todo \ {name}
  PROVE  Rest' + Size(name) = Rest /\ Size(name) \in Nat /\ Rest' \in Nat
<1>. DEFINE T == cl.todo \ {Home}
<1>1. /\ Rest \in Nat /\ Size(Home) \in Nat /\ Cardinality(T) \in Nat /\ IsFiniteSet(T)
  BY RestIsNat
<1>2. /\ Rest = (IF Home \in cl.todo THEN Size(Home) ELSE 0) + Cardinality(T)
      /\ Rest' = (IF Home \in cl'.todo THEN Size(Home) ELSE 0) + Cardinality(cl'.todo \ {Home})
  <2>1. Size(Home)' = Size(Home)
    BY DEF Size, Linked, dirVars
  <2>. QED  BY <2>1 DEF Rest
<1>3. CASE name = Home
  <2>1. cl'.todo \ {Home} = T /\ Home \notin cl'.todo /\ Home \in cl.todo
    BY <1>3
  <2>2. Size(name) = Size(Home)
    BY <1>3
  <2>. HIDE DEF T
  <2>3. Rest = Size(Home) + Cardinality(T) /\ Rest' = Cardinality(T)
    <3>1. Rest = Size(Home) + Cardinality(T)
      BY <1>2, <2>1
    <3>2. Rest' = 0 + Cardinality(T)
      BY Zenon, <1>2, <2>1
    <3>. QED  BY <1>1, <3>1, <3>2
  <2>. QED  BY <1>1, <2>2, <2>3
<1>4. CASE name # Home
  <2>1. cl'.todo \ {Home} = T \ {name} /\ name \in T
    BY <1>4
  <2>2. Home \in cl'.todo <=> Home \in cl.todo
    BY <1>4
  <2>. HIDE DEF T
  <2>3. IsFiniteSet(T \ {name}) /\ Cardinality(T \ {name}) = Cardinality(T) - 1
    BY <1>1, <2>1, FS_RemoveElement
  <2>4. Cardinality(T) - 1 \in Nat
    BY <2>3, FS_CardinalityType
  <2>5. Size(name) = 1
    BY <1>4 DEF Size
  <2>. DEFINE z == IF Home \in cl.todo THEN Size(Home) ELSE 0
              c == Cardinality(T)
  <2>6. z \in Nat /\ c \in Nat /\ Rest = z + c /\ Rest' = z + (c - 1)
    BY <1>1, <1>2, <2>1, <2>2, <2>3
  <2>. HIDE DEF z, c
  <2>. QED  BY <2>4, <2>5, <2>6 DEF c
<1>. QED  BY <1>3, <1>4

-----------------------------------------------------------------------------
Telling == Counted /\ AddsUp /\ CleanupTells

LEMMA TellLoad ==
  ASSUME TellInv, NEW p \in Procs, Load(p)
  PROVE  Telling'
<1>1. /\ cl' = [cl EXCEPT !.alone = cl.alone /\ (Working => dirVars' = dirVars)]
      /\ UNCHANGED others
  BY DEF Load, Disturb
<1>2. /\ cl'.at = cl.at /\ cl'.dry = cl.dry /\ cl'.todo = cl.todo /\ cl'.deleted = cl.deleted
      /\ cl'.freed = cl.freed /\ cl'.dirs = cl.dirs /\ cl'.bytes = cl.bytes /\ cl'.whole = cl.whole
      /\ cl'.alone = (cl.alone /\ (Working => dirVars' = dirVars))
  BY <1>1 DEF TellInv, CleanerType, Fields
<1>3. cl'.alone => cl.alone /\ (Working => Rest' = Rest)
  BY <1>2, RestSame DEF dirVars
<1>4. Counted' /\ CleanupTells'
  BY <1>1, <1>2, <1>3 DEF TellInv, Counted, CleanupTells
<1>5. AddsUp'
  <2>1. cl.at \in {"list", "delete"} /\ cl'.alone => cl.alone /\ Rest' = Rest
    BY <1>3 DEF Working
  <2>. HIDE DEF Rest
  <2>. QED  BY <1>2, <2>1 DEF TellInv, AddsUp
<1>. QED  BY <1>4, <1>5 DEF Telling

LEMMA TellCleanup ==
  ASSUME TellInv, NEW keep, NEW dry \in BOOLEAN, Cleanup(keep, dry)
  PROVE  Telling'
<1>1. /\ cl'.at \in {"refused", "list"} /\ cl'.todo = {} /\ cl'.deleted = 0 /\ cl'.freed = 0
      /\ cl'.dirs = 0 /\ cl'.bytes = 0 /\ UNCHANGED others
  BY DEF Cleanup, NoCleanup
<1>2. Rest' = 0
  <2>1. Home \notin cl'.todo /\ cl'.todo \ {Home} = {}
    BY <1>1
  <2>. QED  BY <2>1, FS_EmptySet DEF Rest
<1>3. Counted'
  BY <1>1, FS_EmptySet DEF Counted
<1>. QED  BY <1>1, <1>2, <1>3 DEF TellInv, Telling, AddsUp, CleanupTells

LEMMA TellList ==
  ASSUME TellInv, NEW name, ListOne(name)
  PROVE  Telling'
<1>1. cl.at = "list" /\ name \notin cl.todo /\ UNCHANGED <<vars, others>>
  BY DEF ListOne
<1>2. UNCHANGED dirVars
  BY <1>1 DEF vars, dirVars
<1>3. CASE ToDelete(name)
  <2>1. /\ cl'.at = cl.at /\ cl'.dry = cl.dry /\ cl'.todo = cl.todo \cup {name}
        /\ cl'.deleted = cl.deleted /\ cl'.freed = cl.freed + Size(name) /\ cl'.dirs = cl.dirs
        /\ cl'.bytes = cl.bytes /\ cl'.whole = cl.whole /\ cl'.alone = cl.alone
    BY <1>3 DEF ListOne, TellInv, CleanerType, Fields
  <2>2. Rest' = Rest + Size(name) /\ Size(name) \in Nat
    BY <1>1, <1>2, <2>1, RestGrows DEF TellInv, TInv
  <2>3. Counted'
    <3>1. IsFiniteSet(cl.todo \cup {name})
      BY FS_AddElement DEF TellInv, Counted
    <3>. QED  BY <1>3, <2>1, <2>2, <3>1 DEF TellInv, Counted, ToDelete
  <2>4. AddsUp'
    BY <1>1, <2>1, <2>2 DEF TellInv, AddsUp
  <2>. QED  BY <1>1, <2>1, <2>3, <2>4 DEF TellInv, Telling, CleanupTells
<1>4. CASE ~ToDelete(name)
  <2>1. /\ cl'.at = cl.at /\ cl'.dry = cl.dry /\ cl'.todo = cl.todo
        /\ cl'.deleted = cl.deleted /\ cl'.freed = cl.freed /\ cl'.dirs = cl.dirs
        /\ cl'.bytes = cl.bytes /\ cl'.whole = cl.whole /\ cl'.alone = cl.alone
    BY <1>4 DEF ListOne, TellInv, CleanerType, Fields
  <2>2. Rest' = Rest
    BY <1>2, <2>1, RestSame
  <2>. QED  BY <1>1, <2>1, <2>2 DEF TellInv, Telling, Counted, AddsUp, CleanupTells
<1>. QED  BY <1>3, <1>4

LEMMA TellListFails ==
  ASSUME TellInv, ListFails
  PROVE  Telling'
<1>1. /\ cl.at = "list" /\ UNCHANGED others
      /\ cl'.at = "failed" /\ cl'.todo = cl.todo /\ cl'.deleted = 0 /\ cl'.freed = 0
      /\ cl'.dirs = cl.dirs /\ cl'.bytes = cl.bytes
  BY DEF ListFails, TellInv, CleanerType, Fields
<1>. QED  BY <1>1 DEF TellInv, Telling, Counted, AddsUp, CleanupTells

LEMMA TellListEnds ==
  ASSUME TellInv, ListEnds
  PROVE  Telling'
<1>1. /\ cl.at = "list" /\ UNCHANGED <<vars, others>> /\ cl.bytes = 0 /\ cl.dirs = 0 /\ cl.deleted = 0
  BY DEF ListEnds, TellInv, AddsUp
<1>2. UNCHANGED dirVars
  BY <1>1 DEF vars, dirVars
<1>3. CASE cl.dry
  <2>1. /\ cl'.at = "done" /\ cl'.dry = cl.dry /\ cl'.todo = cl.todo
        /\ cl'.deleted = Cardinality(cl.todo) /\ cl'.freed = cl.freed /\ cl'.dirs = cl.dirs
        /\ cl'.bytes = cl.bytes
    BY <1>3 DEF ListEnds, TellInv, CleanerType, Fields
  <2>2. Cardinality(cl.todo) \in Nat
    BY FS_CardinalityType DEF TellInv, Counted
  <2>. QED  BY <1>1, <1>3, <2>1, <2>2 DEF TellInv, Telling, Counted, AddsUp, CleanupTells
<1>4. CASE ~cl.dry
  <2>1. /\ cl'.at = "delete" /\ cl'.dry = cl.dry /\ cl'.todo = cl.todo
        /\ cl'.deleted = cl.deleted /\ cl'.freed = cl.freed /\ cl'.dirs = cl.dirs
        /\ cl'.bytes = cl.bytes /\ cl'.whole = cl.whole /\ cl'.alone = cl.alone
    BY <1>4 DEF ListEnds, TellInv, CleanerType, Fields
  <2>2. Rest' = Rest /\ Rest \in Nat
    BY <1>2, <2>1, RestSame, RestIsNat DEF TellInv, TInv
  <2>3. cl.alone => cl.freed = Rest
    BY <1>1 DEF TellInv, AddsUp
  <2>4. 0 + Rest = Rest /\ Rest <= Rest
    BY <2>2
  <2>5. AddsUp'
    <3>. HIDE DEF Rest
    <3>. QED  BY <1>1, <1>4, <2>1, <2>2, <2>3, <2>4 DEF AddsUp
  <2>. QED  BY <1>1, <2>1, <2>5 DEF TellInv, Telling, Counted, CleanupTells
<1>. QED  BY <1>3, <1>4

LEMMA TellRemoveFile ==
  ASSUME TellInv, NEW f \in FileIds, RemoveFile(f)
  PROVE  Telling'
<1>1. PICK i \in Linked :
        /\ \/ i = dest[f] /\ dest' = [dest EXCEPT ![f] = None] /\ UNCHANGED tmp
           \/ i = tmp[f] /\ tmp' = [tmp EXCEPT ![f] = None] /\ UNCHANGED dest
        /\ cl' = [cl EXCEPT !.bytes = cl.bytes + Cardinality(data[i])]
  BY DEF RemoveFile, Linked
<1>2. cl.at = "delete" /\ Home \in cl.todo /\ UNCHANGED <<data, others>>
  BY DEF RemoveFile
<1>3. Linked' = Linked \ {i}
  BY <1>1 DEF TellInv, TInv, TypeOK, OneName, Linked
<1>4. /\ Size(Home) = Size(Home)' + Cardinality(data[i])
      /\ Size(Home)' \in Nat /\ Cardinality(data[i]) \in Nat
  BY <1>2, <1>3, Unlinked DEF TellInv, TInv
<1>5. /\ cl'.at = cl.at /\ cl'.dry = cl.dry /\ cl'.todo = cl.todo /\ cl'.deleted = cl.deleted
      /\ cl'.freed = cl.freed /\ cl'.dirs = cl.dirs /\ cl'.bytes = cl.bytes + Cardinality(data[i])
      /\ cl'.whole = cl.whole /\ cl'.alone = cl.alone
  BY <1>1 DEF TellInv, CleanerType, Fields
<1>6. PICK x \in Nat : x = Cardinality(data[i])
  BY <1>4
<1>7. Rest = Rest' + x /\ Rest' \in Nat
  <2>1. PICK c \in Nat : c = Cardinality(cl.todo \ {Home})
    BY RestIsNat DEF TellInv, TInv
  <2>2. Rest = Size(Home) + c /\ Rest' = Size(Home)' + c
    BY <1>2, <1>5, <2>1 DEF Rest
  <2>. QED  BY <1>4, <1>6, <2>2
<1>8. cl.bytes \in Nat /\ cl.freed \in Nat
  BY DEF TellInv, Counted
<1>9. (cl.bytes + x) + Rest' = cl.bytes + Rest
  BY <1>7, <1>8
<1>10. AddsUp'
  <2>. HIDE DEF Rest
  <2>. QED  BY <1>2, <1>5, <1>6, <1>9 DEF TellInv, AddsUp
<1>. QED  BY <1>2, <1>4, <1>5, <1>10 DEF TellInv, Telling, Counted, CleanupTells

LEMMA TellRemoveDir ==
  ASSUME TellInv, NEW name, RemoveDir(name)
  PROVE  Telling'
<1>1. /\ cl.at = "delete" /\ name \in cl.todo /\ UNCHANGED vars
      /\ name = Home => Linked = {}
      /\ others' \in {others, others \ {name}}
  BY DEF RemoveDir
<1>2. UNCHANGED dirVars
  BY <1>1 DEF vars, dirVars
<1>3. /\ cl'.at = cl.at /\ cl'.dry = cl.dry /\ cl'.todo = cl.todo \ {name}
      /\ cl'.deleted = cl.deleted + 1 /\ cl'.freed = cl.freed /\ cl'.dirs = cl.dirs + 1
      /\ cl'.bytes = cl.bytes + (IF name = Home THEN 0 ELSE 1)
      /\ cl'.whole = cl.whole /\ cl'.alone = cl.alone
  BY DEF RemoveDir, TellInv, CleanerType, Fields
<1>4. Size(name) = IF name = Home THEN 0 ELSE 1
  <2>1. CASE name = Home
    <3>1. {x \in Linked \X Whole : x[2] \in data[x[1]]} = {}
      BY <1>1, <2>1
    <3>. QED  BY <2>1, <3>1, FS_EmptySet DEF Size
  <2>2. CASE name # Home
    BY <2>2 DEF Size
  <2>. QED  BY <2>1, <2>2
<1>5. Rest' + Size(name) = Rest /\ Size(name) \in Nat /\ Rest' \in Nat
  BY <1>1, <1>2, <1>3, RestShrinks DEF TellInv, TInv
<1>6. PICK x \in Nat : x = Size(name) /\ cl'.bytes = cl.bytes + x
  BY <1>3, <1>4, <1>5
<1>7. (cl.bytes + x) + Rest' = cl.bytes + Rest
  <2>1. cl.bytes \in Nat
    BY DEF TellInv, Counted
  <2>. QED  BY <1>5, <1>6, <2>1
<1>8. AddsUp'
  <2>1. cl.deleted = cl.dirs /\ ~cl.dry
    BY <1>1 DEF TellInv, AddsUp
  <2>. HIDE DEF Rest
  <2>. QED  BY <1>1, <1>3, <1>6, <1>7, <2>1 DEF TellInv, AddsUp
<1>9. Counted'
  <2>1. IsFiniteSet(cl.todo \ {name})
    BY FS_RemoveElement DEF TellInv, Counted
  <2>. QED  BY <1>3, <1>6, <2>1 DEF TellInv, Counted
<1>10. Strays \subseteq others'
  <2>1. name \notin Strays
    BY <1>1, StraysAssumption DEF TellInv, Counted
  <2>. QED  BY <1>1, <2>1 DEF TellInv, CleanupTells
<1>. QED  BY <1>1, <1>3, <1>8, <1>9, <1>10 DEF Telling, CleanupTells

LEMMA TellRemoveFails ==
  ASSUME TellInv, NEW name, RemoveFails(name)
  PROVE  Telling'
<1>1. cl.at = "delete" /\ name \in cl.todo /\ UNCHANGED <<vars, others>>
  BY DEF RemoveFails
<1>2. UNCHANGED dirVars
  BY <1>1 DEF vars, dirVars
<1>3. /\ cl'.at = cl.at /\ cl'.dry = cl.dry /\ cl'.todo = cl.todo \ {name}
      /\ cl'.deleted = cl.deleted /\ cl'.freed = cl.freed /\ cl'.dirs = cl.dirs
      /\ cl'.bytes = cl.bytes /\ cl'.whole = FALSE /\ cl'.alone = cl.alone
  BY DEF RemoveFails, TellInv, CleanerType, Fields
<1>4. Rest' + Size(name) = Rest /\ Size(name) \in Nat /\ Rest' \in Nat
  BY <1>1, <1>2, <1>3, RestShrinks DEF TellInv, TInv
<1>5. cl.bytes + Rest <= cl.freed => cl.bytes + Rest' <= cl.freed
  <2>1. cl.bytes \in Nat /\ cl.freed \in Nat
    BY DEF TellInv, Counted
  <2>. QED  BY <1>4, <2>1
<1>6. AddsUp'
  <2>. HIDE DEF Rest
  <2>. QED  BY <1>1, <1>3, <1>5 DEF TellInv, AddsUp
<1>7. Counted'
  <2>1. IsFiniteSet(cl.todo \ {name})
    BY FS_RemoveElement DEF TellInv, Counted
  <2>. QED  BY <1>3, <2>1 DEF TellInv, Counted
<1>. QED  BY <1>1, <1>3, <1>6, <1>7 DEF TellInv, Telling, CleanupTells

LEMMA TellDeleteEnds ==
  ASSUME TellInv, DeleteEnds
  PROVE  Telling'
<1>1. /\ cl.at = "delete" /\ cl.todo = {} /\ UNCHANGED others
      /\ cl'.at = "done" /\ cl'.dry = cl.dry /\ cl'.todo = cl.todo /\ cl'.deleted = cl.deleted
      /\ cl'.freed = cl.freed /\ cl'.dirs = cl.dirs /\ cl'.bytes = cl.bytes
      /\ cl'.whole = cl.whole /\ cl'.alone = cl.alone
  BY DEF DeleteEnds, TellInv, CleanerType, Fields
<1>2. Rest = 0
  <2>1. Home \notin cl.todo /\ cl.todo \ {Home} = {}
    BY <1>1
  <2>. QED  BY <2>1, FS_EmptySet DEF Rest
<1>3. cl.bytes \in Nat /\ cl.bytes + 0 = cl.bytes
  BY DEF TellInv, Counted
<1>4. /\ ~cl.dry /\ cl.deleted = cl.dirs
      /\ cl.alone => cl.bytes <= cl.freed /\ (cl.whole => cl.bytes = cl.freed)
  BY <1>1, <1>2, <1>3 DEF TellInv, AddsUp
<1>. QED  BY <1>1, <1>4 DEF TellInv, Telling, Counted, AddsUp, CleanupTells

LEMMA StepTellInv == TellInv /\ [CacheNext]_cacheVars => TellInv'
<1>. SUFFICES ASSUME TellInv, [CacheNext]_cacheVars PROVE TellInv'
  OBVIOUS
<1>1. TInv' /\ OneName'
  BY CacheStepTInv, StepOneName DEF TellInv
<1>2. CleanerType'
  BY StepCleanerType DEF TellInv
<1>3. CASE CleanupDies
  <2>1. cl' = NoCleanup /\ UNCHANGED others
    BY <1>3 DEF CleanupDies
  <2>. QED  BY <1>1, <1>2, <2>1, FS_EmptySet
         DEF NoCleanup, TellInv, Telling, Counted, AddsUp, CleanupTells
<1>4. CASE UNCHANGED cacheVars
  <2>1. UNCHANGED <<cl, others>> /\ UNCHANGED dirVars
    BY <1>4 DEF cacheVars, cleanVars, vars, dirVars
  <2>2. Rest' = Rest
    BY <2>1, RestSame
  <2>. QED  BY <1>1, <1>2, <2>1, <2>2 DEF TellInv, Counted, AddsUp, CleanupTells
<1>5. ASSUME NEW keep, NEW dry \in BOOLEAN, Cleanup(keep, dry) PROVE Telling'
  BY <1>5, TellCleanup
<1>6. ASSUME Clean, ~CleanupDies PROVE Telling'
  BY <1>5, <1>6, TellList, TellListFails, TellListEnds, TellRemoveFile, TellRemoveDir,
     TellRemoveFails, TellDeleteEnds DEF Clean, CleanupExcept, PythonCleanup
<1>7. CASE Telling'
  BY <1>1, <1>2, <1>7 DEF TellInv, Telling
<1>. QED  BY <1>3, <1>4, <1>6, <1>7, TellLoad DEF CacheNext

(* lembed_cleanup_model_cache reports what it did: the directories and the *)
(* bytes it removed, nothing when it failed or only reported, and it never *)
(* touches what is not a model, for any number of processes that load      *)
(* models meanwhile.                                                       *)
THEOREM CleanupReportsTruly == CacheSpec => []CleanupTells
<1>1. CacheInit => TellInv
  <2>. SUFFICES ASSUME CacheInit PROVE TellInv
    OBVIOUS
  <2>1. TInv /\ OneName
    BY InitSInv DEF CacheInit, SInv, Init, OneName
  <2>2. cl = NoCleanup /\ Strays \subseteq others
    BY DEF CacheInit
  <2>. QED  BY <2>1, <2>2, FS_EmptySet
         DEF NoCleanup, TellInv, CleanerType, Fields, Counted, AddsUp, CleanupTells
<1>2. TellInv => CleanupTells
  BY DEF TellInv
<1>. QED  BY <1>1, <1>2, StepTellInv, PTL DEF CacheSpec
=============================================================================
