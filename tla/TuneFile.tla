------------------------------ MODULE TuneFile ------------------------------
(***************************************************************************)
(* One entry file of the tuning caches (detail/autotune_cache.hpp), shared *)
(* by processes that save, load and clear it: write_file_atomic over a     *)
(* temporary file of a fixed name, the reader of the quantization decision *)
(* with its identity check, and the sweep of clear_autotune_cache.         *)
(*                                                                         *)
(* A name leads to an inode and an open stream keeps its inode.  A         *)
(* document is a sequence of lines, each of which knows its document: the  *)
(* head stands for the identity, the winner and num_measured, which begin  *)
(* at the same offset in every document of the entry; as many lines as the *)
(* text of the reason is long; and four lines for every measured variant,  *)
(* which the reader looks up one by one.  The length in lines stands for   *)
(* the length in bytes: of a line that is overwritten in part no key is    *)
(* left.  The documents are far smaller than a stream buffer, so writing   *)
(* one is one step, from offset 0 over whatever the inode holds by then.   *)
(***************************************************************************)
EXTENDS Naturals, Sequences, FiniteSets

CONSTANTS
    Procs,
    Inodes,
    Tables,         \* the possible numbers of measured variants
    Reasons,        \* the possible lengths of the reason, in lines
    MayRefuse,      \* whether rename may refuse to replace an existing file
    MaxSaves, MaxCrashes    \* bounds on the number of saves and of crashes

None == 0
ASSUME InodesAssumption == None \notin Inodes
ASSUME TablesAssumption == Tables \subseteq 1..4 /\ Reasons \subseteq Nat

VARIABLES
    path, tmp,      \* the inodes of the entry and of its .tmp, or None
    content,        \* the lines each inode holds
    pc, fd,         \* where each process is, and the inode it has open
    doc,            \* the save a process is working on: [id, n, reason]
    got,            \* what the load it just made answered: the document of the
                    \* winner and, per row and field, that of the value
    saves, crashes,
    overlapped      \* history: two streams were open for writing on one inode

vars == <<path, tmp, content, pc, fd, doc, got, saves, crashes, overlapped>>
files == <<path, tmp, content>>

NoDoc == [id |-> 0, n |-> 0, reason |-> 0]
Miss == [of |-> NoDoc, rows |-> <<>>]

Init ==
    /\ path = None /\ tmp = None
    /\ content = [i \in Inodes |-> <<>>]
    /\ pc = [p \in Procs |-> "idle"] /\ fd = [p \in Procs |-> None]
    /\ doc = [p \in Procs |-> NoDoc] /\ got = [p \in Procs |-> Miss]
    /\ saves = 0 /\ crashes = 0 /\ overlapped = FALSE

-----------------------------------------------------------------------------
Fields == <<"quantization", "docs_per_sec", "latency_ms", "file_mb">>
FieldNames == {Fields[k] : k \in DOMAIN Fields}
Line(key, slot, d) == [key |-> key, slot |-> slot, of |-> d]

(* quant_auto_save's document; slot i is the code's q<i - 1>. *)
Document(d) ==
    <<Line("head", 0, d)>>
    \o [i \in 1..d.reason |-> Line("text", 0, d)]
    \o [j \in 1..(4 * d.n) |-> Line(Fields[((j - 1) % 4) + 1], ((j - 1) \div 4) + 1, d)]
    \o <<Line("text", 0, d)>>

(* What the inode holds afterwards: a longer document keeps its tail. *)
Overwrite(old, new) ==
    new \o IF Len(old) > Len(new) THEN SubSeq(old, Len(new) + 1, Len(old)) ELSE <<>>

(* quant_auto_load on the lines of the file: of two lines with one key the *)
(* later one counts, a slot counts with all its fields, and the slots that *)
(* are complete from the first on must be num_measured.                    *)
HasHead(lines) == lines # <<>> /\ lines[1].key = "head"
LinesOf(lines, i, f) == {k \in DOMAIN lines : lines[k].slot = i /\ lines[k].key = f}
Complete(lines, i) == \A f \in FieldNames : LinesOf(lines, i, f) # {}
Contiguous(lines) ==
    CHOOSE c \in 0..4 : /\ \A i \in 1..c : Complete(lines, i)
                        /\ c = 4 \/ ~Complete(lines, c + 1)
LastOf(S) == CHOOSE k \in S : \A j \in S : j <= k
RowsRead(lines) ==
    [i \in 1..Contiguous(lines) |->
        [f \in FieldNames |-> lines[LastOf(LinesOf(lines, i, f))].of]]
Parse(lines) ==
    IF HasHead(lines) /\ Contiguous(lines) > 0 /\ lines[1].of.n = Contiguous(lines)
    THEN [of |-> lines[1].of, rows |-> RowsRead(lines)]
    ELSE Miss

LinesAt(i) == IF i = None THEN <<>> ELSE content[i]

-----------------------------------------------------------------------------
At(p, from) == pc[p] = from
Go(p, to) == pc' = [pc EXCEPT ![p] = to]
Rest(p) == /\ pc' = [pc EXCEPT ![p] = "idle"]
           /\ fd' = [fd EXCEPT ![p] = None]
           /\ doc' = [doc EXCEPT ![p] = NoDoc]

Unlinked == Inodes \ ({path, tmp} \cup {fd[p] : p \in Procs})
NewInode == CHOOSE i \in Unlinked : TRUE

(* write_file_atomic: the stream opens and truncates the .tmp there is, or *)
(* a new one ...                                                           *)
OpenTmpKeeping(p, d) ==
    /\ At(p, "idle") /\ saves < MaxSaves
    /\ tmp = None => Unlinked # {}
    /\ LET i == IF tmp = None THEN NewInode ELSE tmp IN
       /\ tmp' = i
       /\ fd' = [fd EXCEPT ![p] = i]
       /\ content' = IF tmp = None THEN [content EXCEPT ![i] = <<>>] ELSE content
       /\ overlapped' = (overlapped \/ \E q \in Procs : At(q, "write") /\ fd[q] = i)
    /\ doc' = [doc EXCEPT ![p] = d]
    /\ got' = [got EXCEPT ![p] = Miss]
    /\ saves' = saves + 1
    /\ Go(p, "write")
    /\ UNCHANGED <<path, crashes>>
OpenTmp(p, d) ==
    /\ At(p, "idle") /\ saves < MaxSaves
    /\ tmp = None => Unlinked # {}     \* the file system has room for a file
    /\ LET i == IF tmp = None THEN NewInode ELSE tmp IN
       /\ tmp' = i
       /\ fd' = [fd EXCEPT ![p] = i]
       /\ content' = [content EXCEPT ![i] = <<>>]
       /\ overlapped' = (overlapped \/ \E q \in Procs : At(q, "write") /\ fd[q] = i)
    /\ doc' = [doc EXCEPT ![p] = d]
    /\ got' = [got EXCEPT ![p] = Miss]
    /\ saves' = saves + 1
    /\ Go(p, "write")
    /\ UNCHANGED <<path, crashes>>

(* ... writes the document, and closes it ... *)
Write(p) ==
    /\ At(p, "write")
    /\ content' = [content EXCEPT ![fd[p]] = Overwrite(content[fd[p]], Document(doc[p]))]
    /\ fd' = [fd EXCEPT ![p] = None]
    /\ Go(p, "rename")
    /\ UNCHANGED <<path, tmp, doc, got, saves, crashes, overlapped>>

(* ... or, when the stream is not good, gives up.  A document is smaller   *)
(* than a block of the disk, so a full disk keeps none of it.              *)
WriteFailsKeepingTmp(p) ==
    /\ At(p, "write")
    /\ UNCHANGED tmp
    /\ Rest(p)
    /\ UNCHANGED <<path, content, got, saves, crashes, overlapped>>
WriteFails(p) ==
    /\ At(p, "write")
    /\ tmp' = None
    /\ Rest(p)
    /\ UNCHANGED <<path, content, got, saves, crashes, overlapped>>

(* rename(tmp, path): whatever file has the name .tmp by now. *)
Renames(p, orElse) ==
    /\ \/ /\ tmp # None
          /\ path' = tmp /\ tmp' = None
          /\ Rest(p)
       \/ /\ tmp = None \/ (MayRefuse /\ path # None)
          /\ Go(p, orElse)
          /\ UNCHANGED <<path, tmp, fd, doc>>
    /\ UNCHANGED <<content, got, saves, crashes, overlapped>>

Rename(p) == At(p, "rename") /\ Renames(p, "remove path")

(* On an error the published file is removed and the rename tried again. *)
RemovePath(p) ==
    /\ At(p, "remove path")
    /\ path' = None
    /\ Go(p, "rename again")
    /\ UNCHANGED <<tmp, content, fd, doc, got, saves, crashes, overlapped>>

RenameAgain(p) == At(p, "rename again") /\ Renames(p, "remove tmp")

RemoveTmp(p) ==
    /\ At(p, "remove tmp")
    /\ tmp' = None
    /\ Rest(p)
    /\ UNCHANGED <<path, content, got, saves, crashes, overlapped>>

-----------------------------------------------------------------------------
(* quant_auto_load: cache_identity_matches reads the file the name leads   *)
(* to, then the name is opened again ...                                   *)
CheckIdentity(p) ==
    /\ At(p, "idle")
    /\ got' = [got EXCEPT ![p] = Miss]
    /\ IF HasHead(LinesAt(path)) THEN Go(p, "open") ELSE UNCHANGED pc
    /\ UNCHANGED <<files, fd, doc, saves, crashes, overlapped>>

OpenEntry(p) ==
    /\ At(p, "open")
    /\ IF path # None
       THEN fd' = [fd EXCEPT ![p] = path] /\ Go(p, "read")
       ELSE Go(p, "idle") /\ UNCHANGED fd
    /\ UNCHANGED <<files, doc, got, saves, crashes, overlapped>>

(* ... and its lines are read.  The identity is not looked at again. *)
ReadEntry(p) ==
    /\ At(p, "read")
    /\ got' = [got EXCEPT ![p] = Parse(content[fd[p]])]
    /\ Rest(p)
    /\ UNCHANGED <<files, saves, crashes, overlapped>>

-----------------------------------------------------------------------------
(* clear_autotune_cache_in_dir removes the entry and the .tmp, both of     *)
(* which carry the model in their names, one after the other.              *)
ClearPath(p) ==
    /\ At(p, "idle") /\ path # None
    /\ path' = None
    /\ got' = [got EXCEPT ![p] = Miss]
    /\ Go(p, "clear tmp")
    /\ UNCHANGED <<tmp, content, fd, doc, saves, crashes, overlapped>>

ClearTmp(p) ==
    /\ At(p, "clear tmp")
    /\ tmp' = None
    /\ Go(p, "idle")
    /\ UNCHANGED <<path, content, fd, doc, got, saves, crashes, overlapped>>

(* A process dies and is started again. *)
Crash(p) ==
    /\ ~At(p, "idle") /\ crashes < MaxCrashes
    /\ crashes' = crashes + 1
    /\ Rest(p)
    /\ got' = [got EXCEPT ![p] = Miss]
    /\ UNCHANGED <<files, saves, overlapped>>

Next ==
    \E p \in Procs :
        \/ \E n \in Tables, r \in Reasons :
              OpenTmp(p, [id |-> saves + 1, n |-> n, reason |-> r])
        \/ Write(p) \/ WriteFails(p) \/ Rename(p) \/ RemovePath(p)
        \/ RenameAgain(p) \/ RemoveTmp(p)
        \/ CheckIdentity(p) \/ OpenEntry(p) \/ ReadEntry(p)
        \/ ClearPath(p) \/ ClearTmp(p) \/ Crash(p)

Spec == Init /\ [][Next]_vars

-----------------------------------------------------------------------------
(* A load that answers gives a winner that was saved with as many complete *)
(* rows as that save measured, whatever writers met on the file; and every *)
(* field of every row is of that same save as long as no two streams were  *)
(* open for writing on one inode, however the processes that save one      *)
(* after the other's open rename each other's files, load, crash and clear *)
(* ("the caller never applies a half-filled choice").                      *)
LoadsOneDocument ==
    \A p \in Procs : got[p] # Miss =>
        /\ got[p].of.id \in 1..saves
        /\ DOMAIN got[p].rows = 1..got[p].of.n
        /\ ~overlapped =>
              got[p].rows = [i \in 1..got[p].of.n |-> [f \in FieldNames |-> got[p].of]]

(* Unless a process died on the way, no .tmp is left once every save has   *)
(* returned, whichever of them succeeded.                                  *)
NothingLeftBehind ==
    crashes = 0 /\ (\A p \in Procs : pc[p] = "idle") => tmp = None
=============================================================================
