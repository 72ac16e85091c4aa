--------------------------- MODULE ModelDownload ---------------------------
(***************************************************************************)
(* Fetching a model's files into the model cache                           *)
(* (detail/downloader_impl.hpp): ensure_model walks the files in order and *)
(* downloads the absent ones with download_hf_file, which writes           *)
(* "<dest>.tmp", removes <dest> and renames.  lembed_ensure_gguf_model is  *)
(* the case of a single required file.                                     *)
(*                                                                         *)
(* Processes share the directory.  A file is an inode that holds the       *)
(* chunks written into it so far; an open handle keeps naming its inode    *)
(* after another process has truncated, renamed or removed the path.       *)
(* Every library call that touches the directory is a step, and a process  *)
(* may die between any two.                                                *)
(***************************************************************************)
EXTENDS Naturals

CONSTANTS
    Procs,          \* processes that load the model
    NumFiles,       \* the model's files, in the order they are ensured
    Required,       \* those that are not is_optional_file
    Chunks,         \* number of chunks curl delivers per file
    Inodes,         \* files the directory can hold at a time
    None,           \* no inode
    MaxCalls,       \* bound on the calls of ensure_model
    MaxCrashes,     \* bound on the processes that die
    MayFail,        \* whether fopen, curl and the transfer can fail
    DiskMayFill     \* whether fclose can fail to write the last chunk

ASSUME FilesAssumption == NumFiles \in Nat /\ Required \subseteq 1..NumFiles
ASSUME ChunksAssumption == Chunks \in Nat \ {0}
ASSUME NoneAssumption == None \notin Inodes

VARIABLES
    dest,       \* dest[f]: the inode at the file's path, or None
    tmp,        \* tmp[f]: the inode at the path with ".tmp", or None
    data,       \* data[n]: the chunks inode n holds
    at,         \* at[p]: where process p is
    idx,        \* idx[p]: the file it is at
    fd,         \* fd[p]: the inode of its open FILE*, or None
    chunk,      \* chunk[p]: the chunk it waits for
    offline,    \* offline[p]: the argument of its call
    calls,      \* calls made so far
    crashes     \* processes that died so far

dirVars == <<dest, tmp, data>>
procVars == <<at, idx, fd, chunk, offline>>
vars == <<dest, tmp, data, at, idx, fd, chunk, offline, calls, crashes>>

FileIds == 1..NumFiles
Whole == 1..Chunks

Init ==
    /\ dest = [f \in FileIds |-> None] /\ tmp = [f \in FileIds |-> None]
    /\ data = [n \in Inodes |-> {}]
    /\ at = [p \in Procs |-> "idle"]
    /\ idx = [p \in Procs |-> 1]
    /\ fd = [p \in Procs |-> None]
    /\ chunk = [p \in Procs |-> 1]
    /\ offline = [p \in Procs |-> FALSE]
    /\ calls = 0 /\ crashes = 0

Goto(p, label) == at' = [at EXCEPT ![p] = label]

-----------------------------------------------------------------------------
(* ensure_model: the loop over the files. *)
EnsureModel(p, off) ==
    /\ at[p] \in {"idle", "returned", "threw"} /\ calls < MaxCalls
    /\ calls' = calls + 1
    /\ Goto(p, "next")
    /\ idx' = [idx EXCEPT ![p] = 1]
    /\ offline' = [offline EXCEPT ![p] = off]
    /\ UNCHANGED <<dirVars, fd, chunk, crashes>>

(* file_exists, or the offline test: on to the next file, to a download or *)
(* to the exception.                                                       *)
CheckFile(p) ==
    LET f == idx[p] IN
    /\ at[p] = "next" /\ f <= NumFiles
    /\ \/ /\ dest[f] # None \/ (offline[p] /\ f \notin Required)
          /\ idx' = [idx EXCEPT ![p] = f + 1] /\ UNCHANGED at
       \/ /\ dest[f] = None /\ offline[p] /\ f \in Required
          /\ Goto(p, "threw") /\ UNCHANGED idx
       \/ /\ dest[f] = None /\ ~offline[p]
          /\ Goto(p, "open") /\ UNCHANGED idx
    /\ UNCHANGED <<dirVars, fd, chunk, offline, calls, crashes>>

FilesDone(p) ==
    /\ at[p] = "next" /\ idx[p] > NumFiles
    /\ Goto(p, "returned")
    /\ UNCHANGED <<dirVars, idx, fd, chunk, offline, calls, crashes>>

(* download_hf_file returned false: fatal for a required file only.        *)
FailedFile(p) ==
    IF idx[p] \in Required THEN Goto(p, "threw") /\ UNCHANGED idx
    ELSE Goto(p, "next") /\ idx' = [idx EXCEPT ![p] = @ + 1]

-----------------------------------------------------------------------------
(* download_hf_file. *)
Unused(n) == /\ \A f \in FileIds : n # dest[f] /\ n # tmp[f]
             /\ \A p \in Procs : n # fd[p]

(* fopen(tmp_path, "wb"): a new file, or the old one truncated.            *)
OpenTmp(p) ==
    LET f == idx[p] IN
    /\ at[p] = "open"
    /\ \E n \in Inodes :
         /\ IF tmp[f] = None THEN Unused(n) ELSE n = tmp[f]
         /\ tmp' = [tmp EXCEPT ![f] = n]
         /\ data' = [data EXCEPT ![n] = {}]
         /\ fd' = [fd EXCEPT ![p] = n]
    /\ chunk' = [chunk EXCEPT ![p] = 1]
    /\ Goto(p, "perform")
    /\ UNCHANGED <<dest, idx, offline, calls, crashes>>

OpenFails(p) ==
    /\ MayFail /\ at[p] = "open"
    /\ FailedFile(p)
    /\ UNCHANGED <<dirVars, fd, chunk, offline, calls, crashes>>

(* No curl handle: the handle is closed, the empty ".tmp" stays.           *)
CurlInitFails(p) ==
    /\ MayFail /\ at[p] = "perform" /\ chunk[p] = 1
    /\ fd' = [fd EXCEPT ![p] = None]
    /\ FailedFile(p)
    /\ UNCHANGED <<dirVars, chunk, offline, calls, crashes>>

(* curl_easy_perform: write_callback appends at the handle's own offset.   *)
Receive(p) ==
    /\ at[p] = "perform" /\ chunk[p] <= Chunks
    /\ data' = [data EXCEPT ![fd[p]] = @ \cup {chunk[p]}]
    /\ chunk' = [chunk EXCEPT ![p] = @ + 1]
    /\ UNCHANGED <<dest, tmp, at, idx, fd, offline, calls, crashes>>

TransferFailsKeepsGoing(p) ==
    /\ MayFail /\ at[p] = "perform"
    /\ fd' = [fd EXCEPT ![p] = None]
    /\ Goto(p, "remove")
    /\ UNCHANGED <<dirVars, idx, chunk, offline, calls, crashes>>
TransferFails(p) ==
    /\ MayFail /\ at[p] = "perform"
    /\ fd' = [fd EXCEPT ![p] = None]
    /\ Goto(p, "discard")
    /\ UNCHANGED <<dirVars, idx, chunk, offline, calls, crashes>>

(* CURLE_OK, then fclose, whose result is not looked at: with a full disk  *)
(* the buffered end of the file is lost.                                   *)
TransferEnds(p) ==
    /\ at[p] = "perform" /\ chunk[p] > Chunks
    /\ \/ UNCHANGED data
       \/ DiskMayFill /\ data' = [data EXCEPT ![fd[p]] = @ \ {Chunks}]
    /\ fd' = [fd EXCEPT ![p] = None]
    /\ Goto(p, "remove")
    /\ UNCHANGED <<dest, tmp, idx, chunk, offline, calls, crashes>>

RemoveTmp(p) ==
    /\ at[p] = "discard"
    /\ tmp' = [tmp EXCEPT ![idx[p]] = None]
    /\ FailedFile(p)
    /\ UNCHANGED <<dest, data, fd, chunk, offline, calls, crashes>>

RemoveDest(p) ==
    /\ at[p] = "remove"
    /\ dest' = [dest EXCEPT ![idx[p]] = None]
    /\ Goto(p, "rename")
    /\ UNCHANGED <<tmp, data, idx, fd, chunk, offline, calls, crashes>>

RenameSkipping(p) ==
    LET f == idx[p] IN
    /\ at[p] = "rename" /\ tmp[f] # None
    /\ dest' = [dest EXCEPT ![f] = tmp[f]] /\ tmp' = [tmp EXCEPT ![f] = None]
    /\ Goto(p, "next") /\ idx' = [idx EXCEPT ![p] = f + 2]
    /\ UNCHANGED <<data, fd, chunk, offline, calls, crashes>>
Rename(p) ==
    LET f == idx[p] IN
    /\ at[p] = "rename"
    /\ \/ /\ tmp[f] # None
          /\ dest' = [dest EXCEPT ![f] = tmp[f]] /\ tmp' = [tmp EXCEPT ![f] = None]
          /\ Goto(p, "next") /\ idx' = [idx EXCEPT ![p] = f + 1]
       \/ /\ tmp[f] = None
          /\ Goto(p, "discard") /\ UNCHANGED <<dest, tmp, idx>>
    /\ UNCHANGED <<data, fd, chunk, offline, calls, crashes>>

(* The process dies and is started again; the directory stays as it is.    *)
Crash(p) ==
    /\ at[p] \notin {"idle", "returned", "threw"} /\ crashes < MaxCrashes
    /\ crashes' = crashes + 1
    /\ Goto(p, "idle")
    /\ fd' = [fd EXCEPT ![p] = None]
    /\ UNCHANGED <<dirVars, idx, chunk, offline, calls>>

Next ==
    \E p \in Procs :
        \/ \E off \in BOOLEAN : EnsureModel(p, off)
        \/ CheckFile(p) \/ FilesDone(p)
        \/ OpenTmp(p) \/ OpenFails(p) \/ CurlInitFails(p)
        \/ Receive(p) \/ TransferFails(p) \/ TransferEnds(p)
        \/ RemoveTmp(p) \/ RemoveDest(p) \/ Rename(p) \/ Crash(p)

Spec == Init /\ [][Next]_vars

-----------------------------------------------------------------------------
Labels == {"idle", "next", "open", "perform", "discard", "remove", "rename",
           "returned", "threw"}

(* Type correctness of the directory and of the processes. *)
TypeOK ==
    /\ dest \in [FileIds -> Inodes \cup {None}]
    /\ tmp \in [FileIds -> Inodes \cup {None}]
    /\ data \in [Inodes -> SUBSET Whole]
    /\ at \in [Procs -> Labels]
    /\ idx \in [Procs -> 1..(NumFiles + 1)]
    /\ fd \in [Procs -> Inodes \cup {None}]
    /\ chunk \in [Procs -> 1..(Chunks + 1)]
    /\ offline \in [Procs -> BOOLEAN]
    /\ calls \in Nat /\ crashes \in Nat

(* A file under its final name is whole, whatever died or failed before:   *)
(* ensure_model takes a file that exists for one that was downloaded.      *)
PublishedWhole == \A f \in FileIds : dest[f] # None => data[dest[f]] = Whole

(* A call that returned leaves every required file present and whole       *)
(* (docs/en/c_api/downloader.md: "Ensures a text model is downloaded and   *)
(* available in cache").                                                   *)
EnsuredPresent ==
    \A p \in Procs : at[p] = "returned" =>
        \A f \in Required : dest[f] # None /\ data[dest[f]] = Whole

(* No call ever takes a published file away again or changes it, not even  *)
(* one that fails or dies half-way (docs/en/c_api/downloader.md:           *)
(* "download if absent, otherwise a no-op").                               *)
PublishedStays ==
    [][\A f \in FileIds : dest[f] # None =>
         dest'[f] = dest[f] /\ data'[dest[f]] = data[dest[f]]]_vars
=============================================================================
