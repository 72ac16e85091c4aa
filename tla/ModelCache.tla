----------------------------- MODULE ModelCache -----------------------------
(***************************************************************************)
(* The model cache: ModelDownload's processes ensure one model through the *)
(* lembed_ensure_*_model functions while another process cleans the cache  *)
(* up with lembed_cleanup_model_cache or _except, directly or from Python. *)
(*                                                                         *)
(* The model's own directory, Home, holds the files of ModelDownload; each *)
(* other entry of the cache is whole or gone, and counts one byte.  A      *)
(* repository identifier is a sequence of words and separators, because    *)
(* its directory's name has "-" where the identifier has "/".              *)
(***************************************************************************)
EXTENDS ModelDownload, FiniteSets, Sequences

CONSTANTS
    Code, ModelName,    \* the model's model_code and model_name
    OtherRepos,         \* repositories of other models in the cache
    Strays,             \* names of entries that are not model directories
    KeepLists,          \* the keep_models arguments, as sets
    NullList,           \* keep_models = NULL, or an empty active_model_dir
    MaxCleanups         \* bound on the clean-ups

VARIABLES
    home,       \* does the model's directory exist
    others,     \* the other entries of the cache directory
    cl,         \* the clean-up in progress or the last one: its locals and
                \* outputs, and (dirs, bytes, whole, alone) what it removed,
                \* whether no removal failed and nobody else wrote meanwhile
    lists,      \* history: the keep_models of the clean-ups that may delete
    cleanups    \* history: clean-ups called

cleanVars == <<home, others, cl, lists, cleanups>>
cacheVars == <<vars, cleanVars>>

(* repo_to_dirname *)
Dirname(id) == [i \in DOMAIN id |-> IF id[i] = "/" THEN "-" ELSE id[i]]
ModelDir(id) == <<"models--">> \o Dirname(id)
IsModelDir(name) == Head(name) = "models--"
ASSUME StraysAssumption == \A name \in Strays : ~IsModelDir(name)
Home == ModelDir(Code)

Entries == others \cup {n \in {Home} : home}

NoCleanup ==
    [at |-> "idle", keep |-> {}, dry |-> FALSE, due |-> {}, todo |-> {},
     deleted |-> 0, freed |-> 0, dirs |-> 0, bytes |-> 0, whole |-> TRUE, alone |-> TRUE]

CacheInit ==
    /\ Init
    /\ home = FALSE
    /\ others = {ModelDir(o) : o \in OtherRepos} \cup Strays
    /\ cl = NoCleanup
    /\ lists = {} /\ cleanups = 0

-----------------------------------------------------------------------------
(* The processes that ensure the model. *)
Working == cl.at \in {"list", "delete"}

(* A clean-up that runs notices what a download writes. *)
Disturb ==
    cl' = [cl EXCEPT !.alone = @ /\ (Working => dirVars' = dirVars)]

(* mkdirs, whose result nobody looks at *)
Mkdirs == home' = TRUE \/ (MayFail /\ UNCHANGED home)

(* lembed_ensure_*_model: an enum the registry does not know throws.       *)
Ensure(p, off) == EnsureModel(p, off) /\ Mkdirs

EnsureUnknown(p) ==
    /\ at[p] \in {"idle", "returned", "threw"} /\ calls < MaxCalls
    /\ calls' = calls + 1
    /\ Goto(p, "threw")
    /\ UNCHANGED <<dirVars, idx, fd, chunk, offline, crashes, home>>

Load(p) ==
    /\ \/ \E off \in BOOLEAN : Ensure(p, off)
       \/ EnsureUnknown(p)
       \/ OpenTmp(p) /\ home' = TRUE
       \/ OpenFails(p) /\ Mkdirs
       \/ /\ CheckFile(p) \/ FilesDone(p) \/ CurlInitFails(p)
             \/ Receive(p) \/ TransferFails(p) \/ TransferEnds(p)
             \/ RemoveTmp(p) \/ RemoveDest(p) \/ Rename(p) \/ Crash(p)
          /\ UNCHANGED home
    /\ Disturb
    /\ UNCHANGED <<others, lists, cleanups>>

-----------------------------------------------------------------------------
(* lembed_cleanup_model_cache, which refuses a missing list.  A cache      *)
(* directory that does not exist has no entries.                           *)
Cleanup(keep, dry) ==
    /\ ~Working /\ cleanups < MaxCleanups
    /\ cleanups' = cleanups + 1
    /\ cl' = IF keep = NullList THEN [NoCleanup EXCEPT !.at = "refused"]
             ELSE [NoCleanup EXCEPT !.at = "list", !.keep = keep, !.dry = dry, !.due = Entries]
    /\ lists' = IF keep = NullList \/ dry THEN lists ELSE lists \cup {keep}
    /\ UNCHANGED <<vars, home, others>>

CleanupExcept(active, dry) == Cleanup(IF active = NullList THEN NullList ELSE {active}, dry)

(* Python's cleanup_model_cache turns None into the empty list.            *)
PythonCleanup(keep, dry) == Cleanup(IF keep = NullList THEN {} ELSE keep, dry)

KeptRaw(keep) == {<<"models--">> \o id : id \in keep}
Kept(keep) == {ModelDir(id) : id \in keep}

ToDelete(name) == IsModelDir(name) /\ name \notin Kept(cl.keep)

(* The bytes of every regular file below a model directory. *)
Linked == ({dest[f] : f \in FileIds} \cup {tmp[f] : f \in FileIds}) \ {None}
Size(name) == IF name = Home THEN Cardinality({x \in Linked \X Whole : x[2] \in data[x[1]]}) ELSE 1

(* One entry of the directory iterator, which may or may not come across   *)
(* an entry made after it was opened.                                      *)
ListOne(name) ==
    /\ cl.at = "list" /\ name \in Entries \ cl.todo
    /\ cl' = IF ToDelete(name)
             THEN [cl EXCEPT !.due = @ \ {name}, !.todo = @ \cup {name}, !.freed = @ + Size(name)]
             ELSE [cl EXCEPT !.due = @ \ {name}]
    /\ UNCHANGED <<vars, home, others, lists, cleanups>>

(* A directory that cannot be read, or a file that is gone before its size *)
(* is asked for: the exception becomes LEMBED_ERROR_IO.                    *)
ListFails ==
    /\ cl.at = "list" /\ \E name \in Entries \ cl.todo : ToDelete(name)
    /\ cl' = [cl EXCEPT !.at = "failed", !.deleted = 0, !.freed = 0]
    /\ UNCHANGED <<vars, home, others, lists, cleanups>>

(* A dry run reports; the others go on to delete. *)
ListEndsDeleting ==
    /\ cl.at = "list" /\ cl.due \cap Entries = {}
    /\ cl' = [cl EXCEPT !.at = "delete"]
    /\ UNCHANGED <<vars, home, others, lists, cleanups>>
ListEnds ==
    /\ cl.at = "list" /\ cl.due \cap Entries = {}
    /\ cl' = IF cl.dry THEN [cl EXCEPT !.at = "done", !.deleted = Cardinality(cl.todo)]
             ELSE [cl EXCEPT !.at = "delete"]
    /\ UNCHANGED <<vars, home, others, lists, cleanups>>

(* remove_all(path, ec): file by file, then the directory ... *)
RemoveFile(f) ==
    /\ cl.at = "delete" /\ Home \in cl.todo
    /\ \/ dest[f] # None /\ dest' = [dest EXCEPT ![f] = None] /\ UNCHANGED tmp
          /\ cl' = [cl EXCEPT !.bytes = @ + Cardinality(data[dest[f]])]
       \/ tmp[f] # None /\ tmp' = [tmp EXCEPT ![f] = None] /\ UNCHANGED dest
          /\ cl' = [cl EXCEPT !.bytes = @ + Cardinality(data[tmp[f]])]
    /\ UNCHANGED <<data, procVars, calls, crashes, home, others, lists, cleanups>>

RemoveDir(name) ==
    /\ cl.at = "delete" /\ name \in cl.todo
    /\ IF name = Home THEN Linked = {} /\ home' = FALSE /\ UNCHANGED others
       ELSE others' = others \ {name} /\ UNCHANGED home
    /\ cl' = [cl EXCEPT !.todo = @ \ {name}, !.deleted = @ + 1, !.dirs = @ + 1,
                        !.bytes = @ + IF name = Home THEN 0 ELSE 1]
    /\ UNCHANGED <<vars, lists, cleanups>>

(* ... or not: a file in use, or a new one, sets ec.  The rest stays.      *)
RemoveFailsCounting(name) ==
    /\ cl.at = "delete" /\ name \in cl.todo
    /\ cl' = [cl EXCEPT !.todo = @ \ {name}, !.deleted = @ + 1, !.whole = FALSE]
    /\ UNCHANGED <<vars, home, others, lists, cleanups>>
RemoveFails(name) ==
    /\ cl.at = "delete" /\ name \in cl.todo
    /\ cl' = [cl EXCEPT !.todo = @ \ {name}, !.whole = FALSE]
    /\ UNCHANGED <<vars, home, others, lists, cleanups>>

DeleteEnds ==
    /\ cl.at = "delete" /\ cl.todo = {}
    /\ cl' = [cl EXCEPT !.at = "done"]
    /\ UNCHANGED <<vars, home, others, lists, cleanups>>

(* The process that cleans up dies. *)
CleanupDies ==
    /\ Working /\ cl' = NoCleanup
    /\ UNCHANGED <<vars, home, others, lists, cleanups>>

Clean ==
    \/ \E keep \in KeepLists \cup {NullList}, dry \in BOOLEAN :
          Cleanup(keep, dry) \/ PythonCleanup(keep, dry)
    \/ \E active \in (UNION KeepLists) \cup {NullList}, dry \in BOOLEAN : CleanupExcept(active, dry)
    \/ \E name \in Entries \cup cl.todo : ListOne(name) \/ RemoveDir(name) \/ RemoveFails(name)
    \/ \E f \in FileIds : RemoveFile(f)
    \/ ListFails \/ ListEnds \/ DeleteEnds \/ CleanupDies

CacheNext == Clean \/ \E p \in Procs : Load(p)

CacheSpec == CacheInit /\ [][CacheNext]_cacheVars

-----------------------------------------------------------------------------
(* Every clean-up so far that may delete was told to keep the model, by    *)
(* the identifier of its repository.                                       *)
Spared == \A l \in lists : Code \in l

(* Then a call that returned leaves every required file present and whole, *)
(* whatever the clean-ups removed beside it, and dry runs cost nothing     *)
(* (downloader.h: "keep only specified models, remove others"; "dry_run: 1 *)
(* = only report what would be deleted, don't actually delete").           *)
KeptIsEnsured == Spared => EnsuredPresent

(* And no step of anyone removes or changes a published file of the model. *)
KeptStays ==
    [][Spared => \A f \in FileIds : dest[f] # None =>
         dest'[f] = dest[f] /\ data'[dest[f]] = data[dest[f]]]_vars

(* What a clean-up reports is what it did: deleted_count is the number of  *)
(* directories it removed; freed_bytes covers the bytes it removed, and is *)
(* their number when no removal failed, unless a download wrote meanwhile; *)
(* a dry run, and a clean-up that answers with an error, removed nothing;  *)
(* and what is no model directory is still there (downloader.h: "number of *)
(* directories deleted", "Also always keep ... any non-model directories").*)
CleanupTells ==
    /\ Strays \subseteq others
    /\ cl.at \in {"failed", "refused"} => cl.bytes = 0 /\ cl.dirs = 0
    /\ cl.at = "done" /\ cl.dry => cl.bytes = 0 /\ cl.dirs = 0
    /\ cl.at = "done" /\ ~cl.dry =>
        /\ cl.deleted = cl.dirs
        /\ cl.alone => cl.bytes <= cl.freed /\ (cl.whole => cl.bytes = cl.freed)

(* The same for a model that is named as the registry and every example of *)
(* the clean-up name it, by its model_name (downloader.h: "list of model   *)
(* identifiers to keep (e.g., "BAAI/bge-small-en-v1.5")").                 *)
NamedIsEnsured == (\A l \in lists : l \cap {Code, ModelName} # {}) => EnsuredPresent
=============================================================================
