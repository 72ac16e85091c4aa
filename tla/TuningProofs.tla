---------------------------- MODULE TuningProofs ----------------------------
(***************************************************************************)
(* Proofs about the tuning cache files and about the tuners that use them. *)
(*                                                                         *)
(* A load of a decision file answers with a winner that was saved, as many *)
(* rows as that save measured, and values of that save alone while no two  *)
(* streams were open for writing on one inode.  Lines may then be counted  *)
(* without looking where they are: a line knows its document, an inode     *)
(* that was truncated and written once holds lines of one (Unmixed), and   *)
(* an answer takes every field from a line of the inode.  That a writer    *)
(* finds its inode empty needs that nobody else has it open for writing    *)
(* (Apart), whatever was renamed, cleared or left by a crash meanwhile.    *)
(*                                                                         *)
(* A tuner answers with the best configuration of its grid.  Each tuner    *)
(* compares in its own way, from a sentinel; what they share is that the   *)
(* sentinel gives way to a measurement exactly when it qualifies, and a    *)
(* measurement that qualifies to one that qualifies and costs less         *)
(* (ReplacesFirst, ReplacesBetter), so every prefix of the grid has its    *)
(* best.  An entry is as good for every request of the same identity.      *)
(***************************************************************************)
EXTENDS TuneFile, Autotune, NaturalsInduction, WellFoundedInduction, SequenceTheorems, TLAPS

(* What a file may hold: lines of the documents D. *)
Lines(D) == [key : {"head", "text"} \cup FieldNames, slot : Nat, of : D]
SavedDocs == [id : 1..saves, n : Tables, reason : Reasons]

-----------------------------------------------------------------------------
(* Reading. *)

LEMMA Least ==
    ASSUME NEW S \in SUBSET Nat, S # {}
    PROVE  \E x \in S : \A y \in S : x <= y
<1>1. PICK x \in S : \A y \in S : ~(<<y, x>> \in OpToRel(<, Nat))
    BY NatLessThanWellFounded, WFMin, Zenon
<1>2. \A y \in S : ~(y < x)
    BY <1>1 DEF OpToRel
<1> QED  BY <1>2


LEMMA LastOfIsIn ==
  ASSUME NEW m \in Nat, NEW S \in SUBSET (1..m), S # {}
  PROVE  LastOf(S) \in S
<1>. DEFINE T == {m - k : k \in S}
<1>1. T \in SUBSET Nat /\ T # {}
  <2>1. \A k \in S : m - k \in Nat
    OBVIOUS
  <2>. QED  BY <2>1
<1>2. PICK x \in T : \A y \in T : x <= y
  BY <1>1, Least
<1>3. PICK k \in S : x = m - k
  BY <1>2
<1>4. \A j \in S : j <= k
  <2>1. ASSUME NEW j \in S PROVE j <= k
    <3>1. m - j \in T /\ k \in Int /\ j \in Int
      OBVIOUS
    <3>2. m - k <= m - j
      BY <1>2, <1>3, <3>1
    <3>. QED  BY <3>1, <3>2
  <2>. QED  BY <2>1
<1>. QED  BY <1>4 DEF LastOf

(* The rows are counted as far as they are complete. *)
LEMMA RowsCounted ==
  ASSUME NEW c
  PROVE  /\ Contiguous(c) \in 0..4
         /\ \A i \in 1..Contiguous(c) : Complete(c, i)
<1>. DEFINE P(x) == /\ \A i \in 1..x : Complete(c, i)
                    /\ x = 4 \/ ~Complete(c, x + 1)
<1>1. \E x \in 0..4 : P(x)
  <2>1. CASE ~Complete(c, 1)
    <3>1. P(0)
      BY <2>1
    <3>. QED  BY <3>1
  <2>2. CASE Complete(c, 1) /\ ~Complete(c, 2)
    <3>1. P(1)
      BY <2>2
    <3>. QED  BY <3>1
  <2>3. CASE Complete(c, 1) /\ Complete(c, 2) /\ ~Complete(c, 3)
    <3>1. P(2)
      BY <2>3
    <3>. QED  BY <3>1
  <2>4. CASE Complete(c, 1) /\ Complete(c, 2) /\ Complete(c, 3) /\ ~Complete(c, 4)
    <3>1. P(3)
      BY <2>4
    <3>. QED  BY <3>1
  <2>5. CASE Complete(c, 1) /\ Complete(c, 2) /\ Complete(c, 3) /\ Complete(c, 4)
    <3>1. P(4)
      BY <2>5
    <3>. QED  BY <3>1
  <2>. QED  BY <2>1, <2>2, <2>3, <2>4, <2>5
<1>2. Contiguous(c) = CHOOSE x \in 0..4 : P(x)
  BY DEF Contiguous
<1>. HIDE DEF P
<1>3. Contiguous(c) \in 0..4 /\ P(Contiguous(c))
  BY <1>1, <1>2
<1>. QED  BY <1>3 DEF P

(* An answer has the winner of one of the documents whose lines are there, *)
(* as many rows as that document measured, and values of those documents.  *)
LEMMA ParsedIsOfDocuments ==
  ASSUME NEW D, NEW c \in Seq(Lines(D)), Parse(c) # Miss
  PROVE  /\ Parse(c).of \in D
         /\ DOMAIN Parse(c).rows = 1..Parse(c).of.n
         /\ Parse(c).rows \in [1..Parse(c).of.n -> [FieldNames -> D]]
<1>. DEFINE m == Contiguous(c)
<1>1. /\ c # <<>> /\ c[1].of.n = m
      /\ Parse(c) = [of |-> c[1].of, rows |-> RowsRead(c)]
  BY DEF Parse, HasHead
<1>2. Parse(c).of = c[1].of /\ Parse(c).rows = RowsRead(c)
  BY <1>1
<1>3. \A k \in DOMAIN c : c[k].of \in D
  <2>1. \A k \in DOMAIN c : c[k] \in Lines(D)
    OBVIOUS
  <2>. QED  BY <2>1 DEF Lines
<1>4. 1 \in DOMAIN c
  BY <1>1
<1>5. ASSUME NEW i \in 1..m, NEW f \in FieldNames
      PROVE  c[LastOf(LinesOf(c, i, f))].of \in D
  <2>1. LinesOf(c, i, f) # {}
    BY RowsCounted DEF Complete
  <2>2. LinesOf(c, i, f) \in SUBSET (1..Len(c)) /\ Len(c) \in Nat
    BY DEF LinesOf
  <2>3. LastOf(LinesOf(c, i, f)) \in LinesOf(c, i, f)
    BY <2>1, <2>2, LastOfIsIn
  <2>4. LastOf(LinesOf(c, i, f)) \in DOMAIN c
    BY <2>3 DEF LinesOf
  <2>. QED  BY <1>3, <2>4
<1>6. RowsRead(c) \in [1..m -> [FieldNames -> D]]
  BY <1>5 DEF RowsRead
<1>. QED  BY <1>1, <1>2, <1>3, <1>4, <1>6

-----------------------------------------------------------------------------
(* Writing. *)

LEMMA WrittenLines ==
  ASSUME NEW D, NEW d \in D, d.n \in Nat, d.reason \in Nat
  PROVE  Document(d) \in Seq(Lines(D))
<1>. DEFINE head == <<Line("head", 0, d)>>
            why == [i \in 1..d.reason |-> Line("text", 0, d)]
            rows == [j \in 1..(4 * d.n) |-> Line(Fields[((j - 1) % 4) + 1], ((j - 1) \div 4) + 1, d)]
            end == <<Line("text", 0, d)>>
<1>1. head \in Seq(Lines(D)) /\ end \in Seq(Lines(D))
  BY DEF Line, Lines
<1>2. why \in Seq(Lines(D))
  <2>1. Line("text", 0, d) \in Lines(D)
    BY DEF Line, Lines
  <2>. QED  BY <2>1
<1>3. rows \in Seq(Lines(D))
  <2>1. ASSUME NEW j \in 1..(4 * d.n)
        PROVE  Line(Fields[((j - 1) % 4) + 1], ((j - 1) \div 4) + 1, d) \in Lines(D)
    <3>1. ((j - 1) % 4) + 1 \in 1..4 /\ ((j - 1) \div 4) + 1 \in Nat
      OBVIOUS
    <3>2. DOMAIN Fields = 1..4
      BY DEF Fields
    <3>3. Fields[((j - 1) % 4) + 1] \in FieldNames
      BY <3>1, <3>2 DEF FieldNames
    <3>. QED  BY <3>1, <3>3 DEF Line, Lines
  <2>2. 4 * d.n \in Nat
    OBVIOUS
  <2>. QED  BY <2>1, <2>2
<1>4. Document(d) = head \o why \o rows \o end
  BY DEF Document
<1>. HIDE DEF head, why, rows, end
<1>. QED  BY <1>1, <1>2, <1>3, <1>4, ConcatProperties

LEMMA OverwrittenLines ==
  ASSUME NEW D, NEW old \in Seq(Lines(D)), NEW new \in Seq(Lines(D))
  PROVE  Overwrite(old, new) \in Seq(Lines(D))
<1>1. CASE Len(old) > Len(new)
  <2>1. SubSeq(old, Len(new) + 1, Len(old)) \in Seq(Lines(D))
    <3>1. \A i \in (Len(new) + 1)..Len(old) : old[i] \in Lines(D)
      OBVIOUS
    <3>. QED  BY <3>1, SubSeqProperties
  <2>. QED  BY <1>1, <2>1, ConcatProperties DEF Overwrite
<1>2. CASE ~(Len(old) > Len(new))
  <2>1. <<>> \in Seq(Lines(D))
    OBVIOUS
  <2>. QED  BY <1>2, <2>1, ConcatProperties DEF Overwrite
<1>. QED  BY <1>1, <1>2

LEMMA OverwrittenEmpty ==
  ASSUME NEW D, NEW new \in Seq(Lines(D))
  PROVE  Overwrite(<<>>, new) = new
<1>1. ~(Len(<<>>) > Len(new))
  OBVIOUS
<1>. QED  BY <1>1, ConcatEmptySeq DEF Overwrite

LEMMA MoreLines ==
  ASSUME NEW D, NEW E, D \subseteq E
  PROVE  Seq(Lines(D)) \subseteq Seq(Lines(E))
<1>1. Lines(D) \subseteq Lines(E)
  BY DEF Lines
<1>. QED  BY <1>1

-----------------------------------------------------------------------------
(* The processes.                                                          *)

Places ==
    /\ path \in Inodes \cup {None} /\ tmp \in Inodes \cup {None}
    /\ DOMAIN content = Inodes
    /\ saves \in Nat
    /\ {DOMAIN pc, DOMAIN fd, DOMAIN doc, DOMAIN got} = {Procs}
    /\ \A p \in Procs :
          /\ fd[p] \in Inodes \cup {None}
          /\ pc[p] \in {"write", "read"} => fd[p] \in Inodes

(* The lines on the disk and in hand are of saves that were begun.         *)
Contents ==
    /\ \A i \in Inodes : content[i] \in Seq(Lines(SavedDocs))
    /\ \A p \in Procs : pc[p] = "write" => doc[p] \in SavedDocs

(* Until two streams were open for writing on one inode, an inode holds    *)
(* lines of one document, and none while somebody has it open for writing. *)
Unmixed(i) == \E d \in SavedDocs : content[i] \in Seq(Lines({d}))
Apart ==
    ~overlapped =>
        /\ \A i \in Inodes : content[i] = <<>> \/ Unmixed(i)
        /\ \A p \in Procs : pc[p] = "write" => content[fd[p]] = <<>>
        /\ \A p, q \in Procs : pc[p] = "write" /\ pc[q] = "write" /\ p # q => fd[p] # fd[q]

(* LoadsOneDocument, with what it says of one answer as operators. *)
WholeAnswer(g) == DOMAIN g.rows = 1..g.of.n
OfOneSave(g) == g.rows = [i \in 1..g.of.n |-> [f \in FieldNames |-> g.of]]
Answers ==
    \A p \in Procs : got[p] # Miss =>
        /\ got[p].of.id \in 1..saves
        /\ WholeAnswer(got[p])
        /\ ~overlapped => OfOneSave(got[p])

FileInv == Places /\ Contents /\ Apart /\ Answers

LEMMA InitFileInv == Init => FileInv
  BY DEF Init, FileInv, Places, Contents, Apart, Answers

(* A save that begins changes nothing of the documents saved before. *)
LEMMA SavedGrow ==
  ASSUME saves \in Nat, saves' = saves + 1
  PROVE  SavedDocs \subseteq SavedDocs' /\ 1..saves \subseteq 1..saves'
  BY DEF SavedDocs

LEMMA StepOpenTmp ==
  ASSUME FileInv, NEW p \in Procs, NEW n \in Tables, NEW r \in Reasons,
         OpenTmp(p, [id |-> saves + 1, n |-> n, reason |-> r])
  PROVE  FileInv'
<1>. DEFINE i == IF tmp = None THEN NewInode ELSE tmp
            d == [id |-> saves + 1, n |-> n, reason |-> r]
<1>1. i \in Inodes
  BY DEF FileInv, Places, OpenTmp, NewInode, Unlinked
<1>2. /\ tmp' = i /\ fd' = [fd EXCEPT ![p] = i] /\ content' = [content EXCEPT ![i] = <<>>]
      /\ overlapped' = (overlapped \/ \E q \in Procs : At(q, "write") /\ fd[q] = i)
      /\ doc' = [doc EXCEPT ![p] = d] /\ got' = [got EXCEPT ![p] = Miss]
      /\ saves' = saves + 1 /\ pc' = [pc EXCEPT ![p] = "write"]
      /\ pc[p] = "idle" /\ path' = path
  BY DEF OpenTmp, Go, At
<1>. HIDE DEF i
<1>3. saves' \in Nat /\ SavedDocs \subseteq SavedDocs' /\ 1..saves \subseteq 1..saves'
  BY <1>2, SavedGrow DEF FileInv, Places
<1>4. d \in SavedDocs'
  BY <1>2 DEF FileInv, Places, SavedDocs
<1>. HIDE DEF d
<1>5. Places'
  BY <1>1, <1>2, <1>3 DEF FileInv, Places
<1>6. Contents'
  <2>1. Seq(Lines(SavedDocs)) \subseteq Seq(Lines(SavedDocs'))
    BY <1>3, MoreLines
  <2>2. <<>> \in Seq(Lines(SavedDocs'))
    OBVIOUS
  <2>3. \A j \in Inodes : content'[j] \in Seq(Lines(SavedDocs'))
    BY <1>1, <1>2, <2>1, <2>2 DEF FileInv, Places, Contents
  <2>4. \A q \in Procs : pc'[q] = "write" => doc'[q] \in SavedDocs'
    BY <1>2, <1>3, <1>4 DEF FileInv, Places, Contents
  <2>. QED  BY <2>3, <2>4 DEF Contents
<1>7. Apart'
  <2>. SUFFICES ASSUME ~overlapped' PROVE Apart'
    BY DEF Apart
  <2>1. ~overlapped /\ \A q \in Procs : pc[q] = "write" => fd[q] # i
    BY <1>2 DEF At
  <2>2. \A j \in Inodes : content'[j] = <<>> \/ Unmixed(j)'
    BY <1>1, <1>2, <1>3, <2>1 DEF FileInv, Places, Apart, Unmixed
  <2>3. \A q \in Procs : pc'[q] = "write" => content'[fd'[q]] = <<>>
    BY <1>1, <1>2, <2>1 DEF FileInv, Places, Apart
  <2>4. \A q, u \in Procs : pc'[q] = "write" /\ pc'[u] = "write" /\ q # u => fd'[q] # fd'[u]
    BY <1>1, <1>2, <2>1 DEF FileInv, Places, Apart
  <2>. QED  BY <2>2, <2>3, <2>4 DEF Apart
<1>8. Answers'
  BY <1>2, <1>3 DEF FileInv, Places, Answers
<1>. QED  BY <1>5, <1>6, <1>7, <1>8 DEF FileInv

LEMMA StepWrite ==
  ASSUME FileInv, NEW p \in Procs, Write(p)
  PROVE  FileInv'
<1>. DEFINE old == content[fd[p]]
            d == doc[p]
            new == Overwrite(old, Document(d))
<1>1. /\ fd[p] \in Inodes /\ d \in SavedDocs /\ pc[p] = "write"
      /\ content' = [content EXCEPT ![fd[p]] = new] /\ fd' = [fd EXCEPT ![p] = None]
      /\ pc' = [pc EXCEPT ![p] = "rename"]
      /\ UNCHANGED <<path, tmp, doc, got, saves, overlapped>>
  BY DEF FileInv, Places, Contents, Write, At, Go
<1>2. SavedDocs' = SavedDocs
  BY <1>1 DEF SavedDocs
<1>3. d.n \in Nat /\ d.reason \in Nat
  <2>1. d \in SavedDocs
    BY <1>1
  <2>. HIDE DEF d
  <2>2. d.n \in Tables /\ d.reason \in Reasons
    BY <2>1 DEF SavedDocs
  <2>3. \A n \in Tables : n \in Nat
    BY TablesAssumption
  <2>. QED  BY <2>2, <2>3, TablesAssumption
<1>4. old \in Seq(Lines(SavedDocs))
  BY <1>1 DEF FileInv, Contents
<1>5. ~overlapped => old = <<>>
  BY <1>1 DEF FileInv, Apart
<1>. HIDE DEF old, d
<1>6. new \in Seq(Lines(SavedDocs))
  BY <1>1, <1>3, <1>4, WrittenLines, OverwrittenLines
<1>7. ~overlapped => new \in Seq(Lines({d}))
  <2>1. Document(d) \in Seq(Lines({d}))
    BY <1>3, WrittenLines
  <2>2. Overwrite(<<>>, Document(d)) = Document(d)
    BY <2>1, OverwrittenEmpty
  <2>. QED  BY <1>5, <2>1, <2>2
<1>. HIDE DEF new
<1>8. Places'
  BY <1>1 DEF FileInv, Places
<1>9. Contents'
  BY <1>1, <1>2, <1>6 DEF FileInv, Places, Contents
<1>10. Apart'
  <2>. SUFFICES ASSUME ~overlapped PROVE Apart'
    BY <1>1 DEF Apart
  <2>1. \A j \in Inodes : content'[j] = <<>> \/ Unmixed(j)'
    BY <1>1, <1>2, <1>7 DEF FileInv, Places, Apart, Unmixed
  <2>2. \A q \in Procs : pc'[q] = "write" =>
           q # p /\ pc[q] = "write" /\ fd'[q] = fd[q] /\ fd[q] # fd[p]
    BY <1>1 DEF FileInv, Places, Apart
  <2>3. \A q \in Procs : pc'[q] = "write" => content'[fd'[q]] = <<>>
    BY <1>1, <2>2 DEF FileInv, Places, Apart
  <2>4. \A q, u \in Procs : pc'[q] = "write" /\ pc'[u] = "write" /\ q # u => fd'[q] # fd'[u]
    BY <2>2 DEF FileInv, Apart
  <2>. QED  BY <2>1, <2>3, <2>4 DEF Apart
<1>11. Answers'
  BY <1>1 DEF FileInv, Answers
<1>. QED  BY <1>8, <1>9, <1>10, <1>11 DEF FileInv

LEMMA StepRead ==
  ASSUME FileInv, NEW p \in Procs, ReadEntry(p)
  PROVE  FileInv'
<1>. DEFINE c == content[fd[p]]
            g == Parse(c)
<1>1. /\ fd[p] \in Inodes /\ got' = [got EXCEPT ![p] = g]
      /\ pc' = [pc EXCEPT ![p] = "idle"] /\ fd' = [fd EXCEPT ![p] = None]
      /\ doc' = [doc EXCEPT ![p] = NoDoc]
      /\ UNCHANGED <<path, tmp, content, saves, overlapped>>
  BY DEF FileInv, Places, ReadEntry, At, Rest, files
<1>2. SavedDocs' = SavedDocs
  BY <1>1 DEF SavedDocs
<1>3. c \in Seq(Lines(SavedDocs))
  BY <1>1 DEF FileInv, Contents
<1>4. ~overlapped => c = <<>> \/ \E d \in SavedDocs : c \in Seq(Lines({d}))
  BY <1>1 DEF FileInv, Apart, Unmixed
<1>. HIDE DEF c
<1>5. ASSUME g # Miss
      PROVE  /\ g.of.id \in 1..saves /\ WholeAnswer(g)
             /\ ~overlapped => OfOneSave(g)
  <2>1. g.of \in SavedDocs /\ WholeAnswer(g)
    BY <1>3, <1>5, ParsedIsOfDocuments DEF WholeAnswer
  <2>2. g.of.id \in 1..saves
    BY <2>1 DEF SavedDocs
  <2>3. c # <<>>
    BY <1>5 DEF Parse, HasHead
  <2>4. ASSUME NEW d, c \in Seq(Lines({d}))
        PROVE  OfOneSave(g)
    <3>1. g.of = d /\ g.rows \in [1..g.of.n -> [FieldNames -> {d}]]
      BY <1>5, <2>4, ParsedIsOfDocuments
    <3>. HIDE DEF g
    <3>2. ASSUME NEW i \in 1..g.of.n PROVE g.rows[i] = [f \in FieldNames |-> g.of]
      BY <3>1
    <3>. QED  BY <3>1, <3>2 DEF OfOneSave
  <2>. QED  BY <1>4, <2>1, <2>2, <2>3, <2>4
<1>. HIDE DEF g
<1>6. Places' /\ Contents'
  BY <1>1, <1>2 DEF FileInv, Places, Contents
<1>7. Apart'
  BY <1>1, <1>2 DEF FileInv, Places, Apart, Unmixed
<1>8. Answers'
  BY <1>1, <1>5 DEF FileInv, Places, Answers
<1>. QED  BY <1>6, <1>7, <1>8 DEF FileInv

(* The steps that move names and processes and write no line.              *)
LEMMA StepMoves ==
  ASSUME FileInv, NEW p \in Procs,
         \/ WriteFails(p) \/ Rename(p) \/ RemovePath(p) \/ RenameAgain(p) \/ RemoveTmp(p)
         \/ CheckIdentity(p) \/ OpenEntry(p) \/ ClearPath(p) \/ ClearTmp(p) \/ Crash(p)
  PROVE  FileInv'
<1>. DEFINE Quiet ==
              /\ UNCHANGED <<content, saves, overlapped>>
              /\ \A q \in Procs : /\ pc'[q] = "write" =>
                                       /\ pc[q] = "write"
                                       /\ doc'[q] = doc[q] /\ fd'[q] = fd[q]
                                 /\ got'[q] \in {got[q], Miss}
<1>1. ASSUME NEW to \in {"remove path", "remove tmp"}, Renames(p, to)
      PROVE  Places' /\ Quiet
  <2>1. CASE /\ tmp # None /\ path' = tmp /\ tmp' = None /\ Rest(p)
             /\ UNCHANGED <<content, got, saves, crashes, overlapped>>
    BY <2>1 DEF FileInv, Places, Rest
  <2>2. CASE Go(p, to) /\ UNCHANGED <<path, tmp, fd, doc, content, got, saves, crashes, overlapped>>
    BY <1>1, <2>2 DEF FileInv, Places, Go
  <2>. QED  BY <1>1, <2>1, <2>2 DEF Renames
<1>2. Places' /\ Quiet
  <2>. USE DEF FileInv, Places, At, Go, Rest, files
  <2>1. CASE WriteFails(p)
    BY <2>1 DEF WriteFails
  <2>2. CASE Rename(p)
    BY <1>1, <2>2 DEF Rename
  <2>3. CASE RemovePath(p)
    BY <2>3 DEF RemovePath
  <2>4. CASE RenameAgain(p)
    BY <1>1, <2>4 DEF RenameAgain
  <2>5. CASE RemoveTmp(p)
    BY <2>5 DEF RemoveTmp
  <2>6. CASE CheckIdentity(p)
    BY <2>6 DEF CheckIdentity
  <2>7. CASE OpenEntry(p)
    BY <2>7 DEF OpenEntry
  <2>8. CASE ClearPath(p)
    BY <2>8 DEF ClearPath
  <2>9. CASE ClearTmp(p)
    BY <2>9 DEF ClearTmp
  <2>10. CASE Crash(p)
    BY <2>10 DEF Crash
  <2>. QED  BY <2>1, <2>2, <2>3, <2>4, <2>5, <2>6, <2>7, <2>8, <2>9, <2>10
<1>3. SavedDocs' = SavedDocs
  BY <1>2 DEF SavedDocs
<1>. HIDE DEF Quiet
<1>4. Contents'
  BY <1>2, <1>3 DEF FileInv, Contents, Quiet
<1>5. Apart'
  BY <1>2, <1>3 DEF FileInv, Apart, Unmixed, Quiet
<1>6. Answers'
  BY <1>2 DEF FileInv, Answers, Quiet
<1>. QED  BY <1>2, <1>4, <1>5, <1>6 DEF FileInv

LEMMA StepFileInv == FileInv /\ [Next]_vars => FileInv'
<1>. SUFFICES ASSUME FileInv, [Next]_vars PROVE FileInv'
  OBVIOUS
<1>1. CASE UNCHANGED vars
  <2>1. Places' /\ Contents' /\ Apart'
    BY <1>1 DEF vars, FileInv, Places, Contents, SavedDocs, Apart, Unmixed
  <2>2. Answers'
    BY <1>1 DEF vars, FileInv, Answers
  <2>. QED  BY <2>1, <2>2 DEF FileInv
<1>2. CASE Next
  <2>1. PICK p \in Procs :
          \/ \E n \in Tables, r \in Reasons :
                OpenTmp(p, [id |-> saves + 1, n |-> n, reason |-> r])
          \/ Write(p) \/ WriteFails(p) \/ Rename(p) \/ RemovePath(p)
          \/ RenameAgain(p) \/ RemoveTmp(p)
          \/ CheckIdentity(p) \/ OpenEntry(p) \/ ReadEntry(p)
          \/ ClearPath(p) \/ ClearTmp(p) \/ Crash(p)
    BY <1>2 DEF Next
  <2>. QED  BY <2>1, StepOpenTmp, StepWrite, StepRead, StepMoves
<1>. QED  BY <1>1, <1>2

(* A load answers with one whole saved decision or with none, as long as   *)
(* no two streams were open for writing on one inode; even after that the  *)
(* winner and the number of rows are of one save.                          *)
THEOREM LoadedIsOneDocument == Spec => []LoadsOneDocument
<1>1. FileInv => LoadsOneDocument
  BY DEF FileInv, Answers, WholeAnswer, OfOneSave, LoadsOneDocument
<1>. QED  BY <1>1, InitFileInv, StepFileInv, PTL DEF Spec

-----------------------------------------------------------------------------
(* Until a process dies, a .tmp has somebody who still has to deal with it:*)
(* a save ends only by renaming or removing whatever has that name.        *)
Saving == {"write", "rename", "remove path", "rename again", "remove tmp"}
TmpAttended ==
    /\ crashes \in Nat
    /\ DOMAIN pc = Procs
    /\ crashes = 0 /\ tmp # None => \E p \in Procs : pc[p] \in Saving

LEMMA InitTmpAttended == Init => TmpAttended
  BY DEF Init, TmpAttended

(* What one process may do, as far as the .tmp goes. *)
LEMMA TmpStep ==
  ASSUME TmpAttended, NEW p \in Procs,
         \/ \E n \in Tables, r \in Reasons :
                OpenTmp(p, [id |-> saves + 1, n |-> n, reason |-> r])
         \/ Write(p) \/ WriteFails(p) \/ Rename(p) \/ RemovePath(p)
         \/ RenameAgain(p) \/ RemoveTmp(p)
         \/ CheckIdentity(p) \/ OpenEntry(p) \/ ReadEntry(p)
         \/ ClearPath(p) \/ ClearTmp(p)
  PROVE  /\ crashes' = crashes
         /\ DOMAIN pc' = Procs /\ \A q \in Procs : q # p => pc'[q] = pc[q]
         /\ \/ tmp' = None
            \/ pc'[p] \in Saving
            \/ tmp' = tmp /\ pc[p] \notin Saving
<1>. USE DEF TmpAttended, At, Go, Rest, files, Saving
<1>1. ASSUME NEW d, OpenTmp(p, d)
      PROVE  /\ crashes' = crashes /\ pc' = [pc EXCEPT ![p] = "write"]
  BY <1>1 DEF OpenTmp
<1>2. CASE Write(p)
  BY <1>2 DEF Write
<1>3. CASE WriteFails(p)
  BY <1>3 DEF WriteFails
<1>4. CASE Rename(p)
  BY <1>4 DEF Rename, Renames
<1>5. CASE RemovePath(p)
  BY <1>5 DEF RemovePath
<1>6. CASE RenameAgain(p)
  BY <1>6 DEF RenameAgain, Renames
<1>7. CASE RemoveTmp(p)
  BY <1>7 DEF RemoveTmp
<1>8. CASE CheckIdentity(p)
  BY <1>8 DEF CheckIdentity
<1>9. CASE OpenEntry(p)
  BY <1>9 DEF OpenEntry
<1>10. CASE ReadEntry(p)
  BY <1>10 DEF ReadEntry
<1>11. CASE ClearPath(p)
  BY <1>11 DEF ClearPath
<1>12. CASE ClearTmp(p)
  BY <1>12 DEF ClearTmp
<1>. QED
  BY <1>1, <1>2, <1>3, <1>4, <1>5, <1>6, <1>7, <1>8, <1>9, <1>10, <1>11, <1>12

LEMMA StepTmpAttended == TmpAttended /\ [Next]_vars => TmpAttended'
<1>. SUFFICES ASSUME TmpAttended, [Next]_vars PROVE TmpAttended'
  OBVIOUS
<1>1. CASE UNCHANGED vars
  BY <1>1 DEF vars, TmpAttended
<1>2. ASSUME NEW p \in Procs, Crash(p) PROVE TmpAttended'
  BY <1>2 DEF TmpAttended, Crash, Rest
<1>3. ASSUME NEW p \in Procs,
             \/ \E n \in Tables, r \in Reasons :
                OpenTmp(p, [id |-> saves + 1, n |-> n, reason |-> r])
             \/ Write(p) \/ WriteFails(p) \/ Rename(p) \/ RemovePath(p)
             \/ RenameAgain(p) \/ RemoveTmp(p)
             \/ CheckIdentity(p) \/ OpenEntry(p) \/ ReadEntry(p)
             \/ ClearPath(p) \/ ClearTmp(p)
      PROVE  TmpAttended'
  <2>1. /\ crashes' = crashes
        /\ DOMAIN pc' = Procs /\ \A q \in Procs : q # p => pc'[q] = pc[q]
        /\ \/ tmp' = None
           \/ pc'[p] \in Saving
           \/ tmp' = tmp /\ pc[p] \notin Saving
    BY <1>3, TmpStep
  <2>2. CASE tmp' = None
    BY <2>1, <2>2 DEF TmpAttended
  <2>3. CASE pc'[p] \in Saving
    BY <2>1, <2>3 DEF TmpAttended
  <2>4. CASE tmp' = tmp /\ pc[p] \notin Saving
    BY <2>1, <2>4 DEF TmpAttended
  <2>. QED  BY <2>1, <2>2, <2>3, <2>4
<1>. QED  BY <1>1, <1>2, <1>3 DEF Next

(* Without a crash, write_file_atomic leaves no .tmp once every save has   *)
(* returned: whichever of the writers renamed, lost the file to another or *)
(* was refused, for any number of processes.                               *)
THEOREM TmpIsRemoved == Spec => []NothingLeftBehind
<1>1. TmpAttended => NothingLeftBehind
  BY DEF TmpAttended, NothingLeftBehind, Saving
<1>. QED  BY <1>1, InitTmpAttended, StepTmpAttended, PTL DEF Spec

-----------------------------------------------------------------------------
(* The loops.  Both build a value from the one before; a function that     *)
(* does so exists up to every bound, or there would be a least without.    *)
IsKept(f, s, S, len) ==
    f = [i \in 0..len |-> IF i = 0 THEN <<>>
            ELSE IF s[i] \in S THEN Append(f[i - 1], s[i]) ELSE f[i - 1]]

LEMMA KeptExists ==
    ASSUME NEW s, NEW S, NEW len \in Nat
    PROVE  \E f : IsKept(f, s, S, len)
<1> DEFINE Step(v, i) == IF s[i] \in S THEN Append(v, s[i]) ELSE v
           Is(f, n) == f = [i \in 0..n |-> IF i = 0 THEN <<>> ELSE Step(f[i - 1], i)]
           bad == {n \in Nat : ~\E f : Is(f, n)}
<1>1. bad = {}
    <2> SUFFICES ASSUME bad # {} PROVE FALSE
        OBVIOUS
    <2>1. PICK n \in bad : \A m \in bad : n <= m
        BY Least
    <2>2. n # 0
        <3>1. Is([i \in 0..0 |-> <<>>], 0)
            OBVIOUS
        <3> QED  BY <3>1
    <2>3. n - 1 \in Nat /\ n - 1 \notin bad
        <3>1. n \in Nat
            OBVIOUS
        <3> HIDE DEF bad
        <3> QED  BY <2>1, <2>2, <3>1
    <2>4. PICK f : Is(f, n - 1)
        BY <2>3
    <2> DEFINE g == [i \in 0..n |-> IF i = n THEN Step(f[n - 1], n) ELSE f[i]]
    <2> HIDE DEF Step
    <2>5. Is(g, n)
        <3>1. \A i \in 0..(n - 1) : f[i] = IF i = 0 THEN <<>> ELSE Step(f[i - 1], i)
            BY <2>4
        <3>2. \A i \in 0..n : g[i] = IF i = 0 THEN <<>> ELSE Step(g[i - 1], i)
            <4> TAKE i \in 0..n
            <4>1. CASE i = n
                <5>1. g[n] = Step(f[n - 1], n) /\ g[n - 1] = f[n - 1]
                    BY <2>2, <2>3
                <5> HIDE DEF g
                <5> QED  BY <4>1, <5>1, <2>2
            <4>2. CASE i # n
                BY <4>2, <3>1, <2>2, <2>1
            <4> QED  BY <4>1, <4>2
        <3> HIDE DEF g
        <3>3. g = [i \in 0..n |-> g[i]]
            BY DEF g
        <3> QED  BY <3>2, <3>3
    <2> QED  BY <2>1, <2>5
<1>2. \E f : Is(f, len)
    BY <1>1
<1> QED  BY <1>2 DEF IsKept

(* What a filter keeps is in the sequence and in the set. *)
LEMMA AmongFacts ==
    ASSUME NEW T, NEW s \in Seq(T), NEW S
    PROVE  Among(s, S) \in Seq(T \cap S)
<1> DEFINE kept == CHOOSE f : IsKept(f, s, S, Len(s))
<1>0. Len(s) \in Nat /\ DOMAIN s = 1..Len(s) /\ \A i \in 1..Len(s) : s[i] \in T
    OBVIOUS
<1>1. IsKept(kept, s, S, Len(s))
    BY KeptExists, <1>0, Zenon
<1>2. Among(s, S) = kept[Len(s)]
    BY DEF Among, IsKept
<1> HIDE DEF kept
<1>3. /\ kept[0] = <<>>
      /\ \A i \in 1..Len(s) : kept[i] = IF s[i] \in S THEN Append(kept[i - 1], s[i]) ELSE kept[i - 1]
    <2>1. \A i \in 0..Len(s) : kept[i] = IF i = 0 THEN <<>>
            ELSE IF s[i] \in S THEN Append(kept[i - 1], s[i]) ELSE kept[i - 1]
        BY <1>1 DEF IsKept
    <2> QED  BY <1>0, <2>1
<1> DEFINE bad == {i \in Nat : i <= Len(s) /\ kept[i] \notin Seq(T \cap S)}
<1>4. bad = {}
    <2> SUFFICES ASSUME bad # {} PROVE FALSE
        OBVIOUS
    <2>1. PICK i \in bad : \A j \in bad : i <= j
        BY Least
    <2>2. i # 0
        <3>1. <<>> \in Seq(T \cap S)
            OBVIOUS
        <3> QED  BY <1>3, <3>1
    <2>3. i - 1 \in Nat /\ i - 1 < Len(s) /\ kept[i - 1] \in Seq(T \cap S) /\ i \in 1..Len(s)
        BY <1>0, <2>1, <2>2
    <2>4. s[i] \in T
        BY <1>0, <2>3
    <2>5. kept[i] \in Seq(T \cap S)
        <3>1. s[i] \in S => Append(kept[i - 1], s[i]) \in Seq(T \cap S)
            BY <2>3, <2>4, AppendProperties
        <3> QED  BY <1>3, <2>3, <3>1
    <2> QED  BY <2>5, <2>1
<1> QED  BY <1>0, <1>2, <1>4

LEMMA AmongIn ==
    ASSUME NEW T, NEW s \in Seq(T), NEW S
    PROVE  Among(s, S) \in Seq(T)
<1> DEFINE f == Among(s, S)
<1>1. f \in Seq(T \cap S)
    BY AmongFacts
<1> HIDE DEF f
<1> QED  BY <1>1 DEF f

-----------------------------------------------------------------------------
(* The requests a search is run for. *)
Asks == Requests \cup
        {FallbackOf(r) : r \in {r \in Requests : r.kind \in {"constrained", "auto_config"}}}

LEMMA AskFacts ==
    ASSUME NEW r \in Asks
    PROVE  /\ r.kind \in Kinds /\ r.mode \in {"quick", "full"}
           /\ r.min \in Nat /\ r.limit \in Nat /\ NDocs[DocsOf[r.corpus]] \in Nat \ {0}
           /\ r.kind \in {"rerank", "constrained", "auto_config"} => r.objective \in Objectives
           /\ r.kind = "auto_config" => r.min = 0
<1>1. CASE r \in Requests
    BY <1>1, RequestsAssumption
<1>2. ASSUME NEW q \in Requests, q.kind \in {"constrained", "auto_config"}, r = FallbackOf(q)
      PROVE  /\ r.kind = "rerank" /\ r.mode \in {"quick", "full"} /\ r.corpus = q.corpus
             /\ r.min = 0 /\ r.limit = 0 /\ r.objective = q.objective
             /\ q.objective \in Objectives /\ NDocs[DocsOf[q.corpus]] \in Nat \ {0}
    BY <1>2, RequestsAssumption DEF FallbackOf
<1> QED  BY <1>1, <1>2 DEF Asks, Kinds

LEMMA AskRecords ==
    ASSUME NEW r \in Asks
    PROVE  /\ r = [kind |-> r.kind, model |-> r.model, corpus |-> r.corpus, mode |-> r.mode,
                   objective |-> r.objective, min |-> r.min, limit |-> r.limit]
           /\ \E t \in Requests : t.corpus = r.corpus
<1> DEFINE Whole(q) == q = [kind |-> q.kind, model |-> q.model, corpus |-> q.corpus,
                            mode |-> q.mode, objective |-> q.objective, min |-> q.min,
                            limit |-> q.limit]
<1>1. ASSUME NEW q \in Requests PROVE Whole(q)
    BY RequestsAssumption
<1>2. CASE r \in Requests
    BY <1>1, <1>2
<1>3. ASSUME NEW q \in Requests, r = FallbackOf(q) PROVE Whole(r) /\ r.corpus = q.corpus
    <2> DEFINE mode == IF q.kind = "auto_config" THEN "quick" ELSE q.mode
    <2>1. Whole(q)
        BY <1>1
    <2> HIDE DEF mode
    <2>2. r = [q EXCEPT !.kind = "rerank", !.min = 0, !.limit = 0, !.mode = mode]
        BY <1>3 DEF FallbackOf, mode
    <2>3. r = [kind |-> "rerank", model |-> q.model, corpus |-> q.corpus, mode |-> mode,
               objective |-> q.objective, min |-> 0, limit |-> 0]
        BY <2>1, <2>2
    <2> QED  BY <2>3
<1> QED  BY <1>2, <1>3 DEF Asks

LEMMA QuotientBelow ==
    ASSUME NEW x \in Nat, NEW k \in Nat \ {0}, NEW m \in Nat
    PROVE  /\ x \div k \in Nat
           /\ x < m * k => x \div k < m
<1>1. x \div k \in Nat /\ (x \div k) * k <= x
    OBVIOUS
<1>2. ASSUME NEW q \in Nat, q * k <= x, x < m * k PROVE q < m
    <2> SUFFICES ASSUME q >= m PROVE FALSE
        OBVIOUS
    <2>1. q * k >= m * k
        OBVIOUS
    <2> QED  BY <2>1, <1>2
<1> QED  BY <1>1, <1>2

LEMMA Indices ==
    ASSUME NEW la \in Nat, NEW lb \in Nat, NEW lc \in Nat, NEW i \in 1..(la * lb * lc)
    PROVE  /\ ((i - 1) \div (lb * lc)) + 1 \in 1..la
           /\ (((i - 1) \div lc) % lb) + 1 \in 1..lb
           /\ ((i - 1) % lc) + 1 \in 1..lc
<1>1. lb > 0 /\ lc > 0
    OBVIOUS
<1>2. PICK x \in Nat : x = i - 1 /\ x < la * lb * lc
    OBVIOUS
<1>3. PICK k \in Nat \ {0} : k = lb * lc /\ la * lb * lc = la * k
    BY <1>1
<1>4. x \div k \in Nat /\ x \div k < la
    BY <1>2, <1>3, QuotientBelow
<1>5. x \div lc \in Nat
    BY <1>1, QuotientBelow
<1>6. \A y \in Nat, d \in Nat \ {0} : y % d \in 0..(d - 1)
    OBVIOUS
<1>7. (x \div lc) % lb \in 0..(lb - 1) /\ x % lc \in 0..(lc - 1)
    BY <1>1, <1>5, <1>6
<1>8. (x \div k) + 1 \in 1..la /\ ((x \div lc) % lb) + 1 \in 1..lb /\ (x % lc) + 1 \in 1..lc
    BY <1>1, <1>4, <1>7
<1> QED  BY <1>8, <1>2, <1>3

LEMMA ProductFacts ==
    ASSUME NEW A, NEW B, NEW C, NEW a \in Seq(A), NEW b \in Seq(B), NEW c \in Seq(C)
    PROVE  Product(a, b, c) \in Seq(A \X B \X C)
<1> DEFINE n == Len(a) * Len(b) * Len(c)
<1>1. Len(a) \in Nat /\ Len(b) \in Nat /\ Len(c) \in Nat /\ n \in Nat
    OBVIOUS
<1>2. ASSUME NEW i \in 1..n
      PROVE  /\ ((i - 1) \div (Len(b) * Len(c))) + 1 \in 1..Len(a)
             /\ (((i - 1) \div Len(c)) % Len(b)) + 1 \in 1..Len(b)
             /\ ((i - 1) % Len(c)) + 1 \in 1..Len(c)
    BY <1>1, Indices
<1>3. \A i \in 1..n : Product(a, b, c)[i] \in A \X B \X C
    BY <1>2 DEF Product
<1>4. Product(a, b, c) = [i \in 1..n |-> Product(a, b, c)[i]]
    BY DEF Product
<1> HIDE DEF n
<1>5. [i \in 1..n |-> Product(a, b, c)[i]] \in Seq(A \X B \X C)
    BY <1>1, <1>3
<1> QED  BY <1>4, <1>5

Triples == Nat \X Nat \X Nat

LEMMA WithinCoresFacts ==
    ASSUME NEW t \in Seq(Nat) PROVE WithinCores(t) \in Seq(Nat)
<1>1. Among(t, 1..Cores) \in Seq(Nat) /\ <<1>> \in Seq(Nat)
    BY AmongIn
<1> QED  BY <1>1 DEF WithinCores

LEMMA RerankGridFacts ==
    ASSUME NEW mode \in {"quick", "full"}, NEW min \in Nat
    PROVE  RerankGrid(mode, min) \in Seq(Nat \X Nat \X {k \in Nat : k >= min})
<1> DEFINE T == {k \in Nat : k >= min}
           tokens == Among(RerankTokens(mode), T)
<1>1. RerankThreads(mode) \in Seq(Nat)
    <2>1. <<1, 4, 8>> \in Seq(Nat) /\ <<1, 2, 4, 8>> \in Seq(Nat)
        OBVIOUS
    <2> QED  BY <2>1, WithinCoresFacts DEF RerankThreads
<1>2. RerankBatches(mode) \in Seq(Nat)
    <2>1. <<4, 16>> \in Seq(Nat) /\ <<4, 8, 16>> \in Seq(Nat)
        OBVIOUS
    <2> QED  BY <2>1 DEF RerankBatches
<1>3. RerankTokens(mode) \in Seq(Nat)
    <2>1. <<64, 256>> \in Seq(Nat) /\ <<32, 64, 128, 256>> \in Seq(Nat)
        OBVIOUS
    <2> QED  BY <2>1 DEF RerankTokens
<1>4. tokens \in Seq(T)
    <2>1. tokens \in Seq(Nat \cap T)
        BY <1>3, AmongFacts
    <2>2. Nat \cap T = T
        OBVIOUS
    <2> QED  BY <2>1, <2>2
<1>5. (IF tokens = <<>> THEN <<min>> ELSE tokens) \in Seq(T)
    <2>1. min \in T
        OBVIOUS
    <2>2. <<min>> \in Seq(T)
        BY <2>1
    <2> QED  BY <1>4, <2>2
<1> HIDE DEF T
<1>6. Product(RerankThreads(mode), RerankBatches(mode), IF tokens = <<>> THEN <<min>> ELSE tokens)
        \in Seq(Nat \X Nat \X T)
    BY <1>1, <1>2, <1>5, ProductFacts
<1> QED  BY <1>6 DEF RerankGrid, T

(* Every grid is a sequence of triples; a constrained one has no fewer     *)
(* tokens than asked for.                                                  *)
LEMMA GridFacts ==
    ASSUME NEW r \in Asks
    PROVE  /\ Grid(r) \in Seq(Triples)
           /\ r.kind \in {"constrained", "auto_config"} =>
                \A i \in 1..Len(Grid(r)) : Grid(r)[i][3] >= r.min
<1>1. r.kind \in Kinds /\ r.mode \in {"quick", "full"} /\ r.min \in Nat
    BY AskFacts
<1>2. CASE r.kind = "text"
    <2>1. Smaller(4, Cores) \in Nat /\ Smaller(8, Cores) \in Nat
        BY CoresAssumption DEF Smaller
    <2>2. <<1, Smaller(4, Cores), Smaller(8, Cores)>> \in Seq(Nat)
        BY <2>1
    <2>3. /\ <<1>> \in Seq(Nat) /\ <<32>> \in Seq(Nat) /\ <<1, 2, 4, 8, 16>> \in Seq(Nat)
          /\ <<1, 2, 4>> \in Seq(Nat) /\ <<16, 32, 64, 128, 256>> \in Seq(Nat)
        OBVIOUS
    <2>4. TextQuick \in Seq(Triples)
        BY <2>2, <2>3, ProductFacts DEF TextQuick, Triples
    <2>5. Product(<<1, 2, 4, 8, 16>>, <<1, 2, 4>>, <<16, 32, 64, 128, 256>>) \in Seq(Triples)
        BY <2>3, ProductFacts DEF Triples
    <2>6. TextFull \in Seq(Triples)
        BY <2>5, AmongIn DEF TextFull
    <2> QED  BY <1>2, <2>4, <2>6 DEF Grid
<1>3. ASSUME NEW mode \in {"quick", "full"}, NEW min \in Nat
      PROVE  /\ RerankGrid(mode, min) \in Seq(Triples)
             /\ \A i \in 1..Len(RerankGrid(mode, min)) : RerankGrid(mode, min)[i][3] >= min
    <2> DEFINE g == RerankGrid(mode, min)
               T == {k \in Nat : k >= min}
    <2>1. g \in Seq(Nat \X Nat \X T)
        BY RerankGridFacts
    <2> HIDE DEF g
    <2>2. Len(g) \in Nat /\ g = [i \in 1..Len(g) |-> g[i]]
        BY <2>1
    <2>3. \A i \in 1..Len(g) : g[i] \in Nat \X Nat \X T
        BY <2>1
    <2>4. \A i \in 1..Len(g) : g[i] \in Triples /\ g[i][3] >= min
        BY <2>3 DEF Triples
    <2>5. [i \in 1..Len(g) |-> g[i]] \in Seq(Triples)
        BY <2>2, <2>4
    <2>6. g \in Seq(Triples)
        BY <2>2, <2>5
    <2> QED  BY <2>4, <2>6 DEF g
<1>4. CASE r.kind \in {"rerank", "constrained", "auto_config"}
    <2>1. r.kind = "auto_config" => r.min = 0
        BY AskFacts
    <2>2. Grid(r) = RerankGrid(IF r.kind = "auto_config" THEN "quick" ELSE r.mode,
                               IF r.kind = "constrained" THEN r.min ELSE 0)
        BY <1>4 DEF Grid
    <2> QED  BY <1>1, <1>3, <1>4, <2>1, <2>2
<1>5. CASE r.kind = "sparse"
    <2>1. <<32, 64, 128>> \in Seq(Nat) /\ <<0, 1, 5>> \in Seq(Nat) /\ <<0, 1>> \in Seq(Nat)
        OBVIOUS
    <2>2. SparseGrid \in Seq(Triples)
        BY <2>1, ProductFacts DEF SparseGrid, Triples
    <2> QED  BY <1>5, <2>2 DEF Grid
<1>6. CASE r.kind = "image"
    <2>1. <<1, 2, 4, 8>> \in Seq(Nat) /\ <<1, 4, 8, 16>> \in Seq(Nat) /\ <<0>> \in Seq(Nat)
        OBVIOUS
    <2>2. ImageGrid \in Seq(Triples)
        BY <2>1, ProductFacts, WithinCoresFacts DEF ImageGrid, Triples
    <2> QED  BY <1>6, <2>2 DEF Grid
<1> QED  BY <1>1, <1>2, <1>4, <1>5, <1>6 DEF Kinds

-----------------------------------------------------------------------------
(* Measurements.  A percentile lies between two timings, so a measurement  *)
(* is below the sentinel.                                                  *)
LEMMA SentinelFacts == FailedMs \in Nat \ {0} /\ Sentinel = 20 * FailedMs
BY SMT DEF FailedMs, Sentinel

LEMMA Between ==
    ASSUME NEW x \in 1..(FailedMs - 1), NEW y \in 1..(FailedMs - 1), x <= y, NEW f \in 0..19
    PROVE  20 * x + (y - x) * f \in 1..(Sentinel - 1)
<1>1. PICK d \in Nat : d = y - x /\ d * f >= 0 /\ d * f <= d * 20 /\ d * f \in Nat
    OBVIOUS
<1>2. 20 * x + (y - x) * f <= 20 * y /\ 20 * x + (y - x) * f >= 20 * x /\ (y - x) * f \in Int
    BY <1>1, SentinelFacts
<1> QED  BY <1>2, SentinelFacts

LEMMA PercentileFacts ==
    ASSUME NEW s \in Timings, NEW pct \in {10, 19}
    PROVE  Percentile(s, pct) \in 1..(Sentinel - 1)
<1>1. /\ Len(s) \in Nat \ {0} /\ \A i \in 1..Len(s) : s[i] \in 1..(FailedMs - 1)
      /\ \A i \in 1..(Len(s) - 1) : s[i] <= s[i + 1]
    <2>1. s \in Seq(1..(FailedMs - 1)) /\ s # <<>> /\ \A i \in 1..(Len(s) - 1) : s[i] <= s[i + 1]
        BY TimingsAssumption
    <2>2. Len(s) \in Nat \ {0}
        BY <2>1
    <2>3. \A i \in 1..Len(s) : s[i] \in 1..(FailedMs - 1)
        BY <2>1, SentinelFacts
    <2> QED  BY <2>1, <2>2, <2>3
<1>0. PICK len \in Nat \ {0} : len = Len(s)
    BY <1>1
<1> DEFINE rank == pct * (len - 1)
           lo == (rank \div 20) + 1
           frac == rank % 20
<1>2. rank \in Nat /\ rank <= 19 * (len - 1)
    OBVIOUS
<1>3. lo \in Nat \ {0} /\ frac \in 0..19 /\ rank = 20 * (lo - 1) + frac
    <2> HIDE DEF rank
    <2> QED  BY <1>2
<1>4. Percentile(s, pct) = IF frac = 0 THEN 20 * s[lo] ELSE 20 * s[lo] + (s[lo + 1] - s[lo]) * frac
    BY <1>0 DEF Percentile
<1> HIDE DEF rank, lo, frac
<1>5. lo \in 1..len /\ (frac # 0 => lo \in 1..(len - 1))
    BY <1>2, <1>3
<1>6. s[lo] \in 1..(FailedMs - 1)
    <2>1. lo \in 1..Len(s)
        BY <1>0, <1>5
    <2> QED  BY <1>1, <2>1, Zenon
<1>7. CASE frac = 0
    BY <1>4, <1>6, <1>7, SentinelFacts
<1>8. CASE frac # 0
    <2>1. s[lo + 1] \in 1..(FailedMs - 1) /\ s[lo] <= s[lo + 1]
        BY <1>0, <1>1, <1>3, <1>5, <1>8
    <2>2. 20 * s[lo] + (s[lo + 1] - s[lo]) * frac \in 1..(Sentinel - 1)
        BY <1>3, <1>6, <2>1, Between
    <2> QED  BY <1>4, <1>8, <2>2
<1> QED  BY <1>7, <1>8

WorldOK == \A p \in DOMAIN world : world[p] \in Timings

LEMMA BenchFacts ==
    ASSUME WorldOK, NEW r, NEW c
    PROVE  /\ Bench(r, c).cfg = c /\ Bench(r, c).ran \in BOOLEAN
           /\ Bench(r, c).p50 \in Nat \ {0} /\ Bench(r, c).p95 \in Nat
           /\ Bench(r, c).ran => Bench(r, c).p50 < Sentinel
           /\ ~Bench(r, c).ran => Bench(r, c).p50 = Sentinel /\ Bench(r, c).p95 = 0
<1>1. CASE Times(r, c) = <<>>
    BY <1>1, SentinelFacts DEF Bench, Failed
<1>2. CASE Times(r, c) # <<>>
    <2>1. Times(r, c) \in Timings
        BY <1>2 DEF Times, WorldOK
    <2>2. /\ Percentile(Times(r, c), 10) \in 1..(Sentinel - 1)
          /\ Percentile(Times(r, c), 19) \in 1..(Sentinel - 1)
        BY <2>1, PercentileFacts
    <2> QED  BY <1>2, <2>2, SentinelFacts DEF Bench
<1> QED  BY <1>1, <1>2

IsMeasure(r, m) ==
    /\ m.cfg \in Triples /\ m.ran \in BOOLEAN
    /\ m.p50 \in Nat \ {0} /\ m.p95 \in Nat
    /\ m.ran => m.p50 < Sentinel
    /\ ~m.ran => m.p50 = Sentinel /\ m.p95 = 0
    /\ r.kind \in {"constrained", "auto_config"} => m.cfg[3] >= r.min

(* What a search may answer with. *)
Qualifies(r, m) == Counts(r, m) /\ Within(r, m)

First == Failed(<<1, 1, 64>>)

LEMMA FirstFacts ==
    First.ran = FALSE /\ First.p50 = Sentinel /\ First.p95 = 0
BY DEF First, Failed

LEMMA TextScoreType ==
    ASSUME NEW r, NEW m, IsMeasure(r, m)
    PROVE  TextScore(m) \in Int
<1>1. m.cfg[1] \in Nat /\ m.p50 \in Nat \ {0}
    BY DEF IsMeasure, Triples
<1>2. 2000000 \div m.p50 \in Int
    BY SMT, <1>1
<1> QED  BY SMT, <1>1, <1>2 DEF TextScore, Over

(* The sentinel is replaced by what qualifies, and by nothing else. *)
LEMMA ReplacesFirst ==
    ASSUME NEW r \in Asks, NEW m, IsMeasure(r, m)
    PROVE  Replaces(r, m, First) <=> Qualifies(r, m)
<1>1. /\ r.kind \in Kinds /\ r.limit \in Nat /\ NDocs[DocsOf[r.corpus]] \in Nat \ {0}
      /\ r.kind \in {"rerank", "constrained", "auto_config"} => r.objective \in Objectives
    BY AskFacts
<1>. USE SentinelFacts
<1>2. CASE r.kind = "text"
    BY <1>2, FirstFacts DEF Replaces, Qualifies, Counts, Within
<1>3. CASE r.kind \in {"rerank", "constrained"}
    <2>1. Score(r, m) < Score(r, First) <=> Counts(r, m)
        <3>1. CASE r.objective = "latency"
            BY <1>3, <3>1, FirstFacts DEF Score, Counts, IsMeasure
        <3>2. CASE r.objective = "throughput"
            BY <1>1, <1>3, <3>2, FirstFacts DEF Score, Counts, IsMeasure
        <3>3. CASE r.objective \in {"balanced", "memory"}
            BY <1>3, <3>3, FirstFacts DEF Score, Counts, IsMeasure
        <3> QED  BY <1>1, <1>3, <3>1, <3>2, <3>3 DEF Objectives
    <2>2. r.kind = "constrained" => (Fits(r, m) /\ Counts(r, m) <=> Qualifies(r, m))
        BY <1>1 DEF Fits, Qualifies, Within, Counts, IsMeasure
    <2>3. r.kind = "rerank" => (Counts(r, m) <=> Qualifies(r, m))
        BY DEF Qualifies, Within
    <2> QED  BY <1>3, <2>1, <2>2, <2>3 DEF Replaces
<1>4. CASE r.kind = "auto_config"
    BY <1>1, <1>4, FirstFacts DEF Replaces, Fits, Faster, Qualifies, Counts, Within, IsMeasure
<1>5. CASE r.kind = "sparse"
    BY <1>5, FirstFacts DEF Replaces, Faster, Qualifies, Counts, Within, IsMeasure
<1>6. CASE r.kind = "image"
    BY <1>6, FirstFacts DEF Replaces, Qualifies, Counts, Within, IsMeasure
<1> QED  BY <1>1, <1>2, <1>3, <1>4, <1>5, <1>6 DEF Kinds

(* What qualifies is replaced by what qualifies and costs less. *)
LEMMA ReplacesBetter ==
    ASSUME NEW r \in Asks, NEW m, IsMeasure(r, m), NEW b, IsMeasure(r, b), Qualifies(r, b)
    PROVE  /\ Replaces(r, m, b) <=> Qualifies(r, m) /\ Cost(r, m) < Cost(r, b)
           /\ Cost(r, m) \in Int /\ Cost(r, b) \in Int
<1>1. /\ r.kind \in Kinds /\ r.limit \in Nat /\ NDocs[DocsOf[r.corpus]] \in Nat \ {0}
      /\ r.kind \in {"rerank", "constrained", "auto_config"} => r.objective \in Objectives
    BY AskFacts
<1>. USE SentinelFacts
<1>2. CASE r.kind = "text"
    <2>1. TextScore(m) \in Int /\ TextScore(b) \in Int
        BY TextScoreType
    <2>2. Cost(r, m) = 0 - TextScore(m) /\ Cost(r, b) = 0 - TextScore(b)
        BY <1>2 DEF Cost
    <2>3. b.ran /\ (Qualifies(r, m) <=> m.ran)
        BY <1>2 DEF Qualifies, Counts, Within
    <2>4. Replaces(r, m, b) <=> m.ran /\ TextScore(m) > TextScore(b)
        BY <1>2, <2>3 DEF Replaces
    <2> QED  BY <2>1, <2>2, <2>3, <2>4
<1>3. CASE r.kind \in {"rerank", "constrained"}
    <2>1. b.ran /\ Counts(r, b)
        BY DEF Qualifies, Counts
    <2>2. Cost(r, m) \in Int /\ Cost(r, b) \in Int
        BY <1>3 DEF Cost, IsMeasure
    <2>3. Score(r, m) < Score(r, b) <=> Counts(r, m) /\ Cost(r, m) < Cost(r, b)
        <3>1. CASE r.objective = "latency"
            BY <1>3, <3>1, <2>1 DEF Score, Counts, Cost, IsMeasure
        <3>2. CASE r.objective = "throughput"
            BY <1>1, <1>3, <3>2, <2>1 DEF Score, Counts, Cost, IsMeasure
        <3>3. CASE r.objective \in {"balanced", "memory"}
            BY <1>3, <3>3, <2>1 DEF Score, Counts, Cost, IsMeasure
        <3> QED  BY <1>1, <1>3, <3>1, <3>2, <3>3 DEF Objectives
    <2>4. r.kind = "constrained" => (Fits(r, m) /\ Counts(r, m) <=> Qualifies(r, m))
        BY <1>1 DEF Fits, Qualifies, Within, Counts, IsMeasure
    <2>5. r.kind = "rerank" => (Counts(r, m) <=> Qualifies(r, m))
        BY DEF Qualifies, Within
    <2>6. r.kind = "rerank" => (Replaces(r, m, b) <=> Score(r, m) < Score(r, b))
        BY DEF Replaces
    <2>7. r.kind = "constrained" => (Replaces(r, m, b) <=> Fits(r, m) /\ Score(r, m) < Score(r, b))
        BY DEF Replaces
    <2> QED  BY <1>3, <2>2, <2>3, <2>4, <2>5, <2>6, <2>7, Zenon
<1>4. CASE r.kind \in {"auto_config", "sparse", "image"}
    <2>1. Cost(r, m) = m.p50 /\ Cost(r, b) = b.p50
        BY <1>4 DEF Cost
    <2>2. b.ran
        BY DEF Qualifies, Counts
    <2>3. CASE r.kind = "auto_config"
        BY <1>1, <2>1, <2>2, <2>3 DEF Replaces, Fits, Faster, Qualifies, Counts, Within, IsMeasure
    <2>4. CASE r.kind = "sparse"
        BY <2>1, <2>2, <2>4 DEF Replaces, Faster, Qualifies, Counts, Within, IsMeasure
    <2>5. CASE r.kind = "image"
        BY <2>1, <2>2, <2>5 DEF Replaces, Qualifies, Counts, Within, IsMeasure
    <2> QED  BY <1>4, <2>3, <2>4, <2>5
<1> QED  BY <1>1, <1>2, <1>3, <1>4 DEF Kinds

-----------------------------------------------------------------------------
(* The search. *)
IsSearch(f, r, len) ==
    f = [i \in 0..len |-> IF i = 0 THEN First
            ELSE IF Replaces(r, Bench(r, Grid(r)[i]), f[i - 1])
                 THEN Bench(r, Grid(r)[i]) ELSE f[i - 1]]

LEMMA SearchExists ==
    ASSUME NEW r, NEW len \in Nat
    PROVE  \E f : IsSearch(f, r, len)
<1> DEFINE Step(v, i) == IF Replaces(r, Bench(r, Grid(r)[i]), v) THEN Bench(r, Grid(r)[i]) ELSE v
           Is(f, n) == f = [i \in 0..n |-> IF i = 0 THEN First ELSE Step(f[i - 1], i)]
           bad == {n \in Nat : ~\E f : Is(f, n)}
<1>0. \A f : Is(f, len) <=> IsSearch(f, r, len)
    BY DEF IsSearch
<1> HIDE DEF Step
<1>1. bad = {}
    <2> SUFFICES ASSUME bad # {} PROVE FALSE
        OBVIOUS
    <2>1. PICK n \in bad : \A m \in bad : n <= m
        BY Least
    <2>2. n # 0
        <3>1. Is([i \in 0..0 |-> First], 0)
            OBVIOUS
        <3> QED  BY <3>1
    <2>3. n - 1 \in Nat /\ n - 1 \notin bad
        <3>1. n \in Nat
            OBVIOUS
        <3> HIDE DEF bad
        <3> QED  BY <2>1, <2>2, <3>1
    <2>4. PICK f : Is(f, n - 1)
        BY <2>3
    <2> DEFINE g == [i \in 0..n |-> IF i = n THEN Step(f[n - 1], n) ELSE f[i]]
    <2>5. Is(g, n)
        <3>1. \A i \in 0..(n - 1) : f[i] = IF i = 0 THEN First ELSE Step(f[i - 1], i)
            BY <2>4
        <3>2. \A i \in 0..n : g[i] = IF i = 0 THEN First ELSE Step(g[i - 1], i)
            <4> TAKE i \in 0..n
            <4>1. CASE i = n
                <5>1. g[n] = Step(f[n - 1], n) /\ g[n - 1] = f[n - 1]
                    BY <2>2, <2>3
                <5> HIDE DEF g
                <5> QED  BY <4>1, <5>1, <2>2
            <4>2. CASE i # n
                BY <4>2, <3>1, <2>2, <2>1
            <4> QED  BY <4>1, <4>2
        <3> HIDE DEF g
        <3>3. g = [i \in 0..n |-> g[i]]
            BY DEF g
        <3> QED  BY <3>2, <3>3
    <2> QED  BY <2>1, <2>5
<1>2. \E f : Is(f, len)
    BY <1>1
<1> HIDE DEF Is
<1> QED  BY <1>0, <1>2

NoneFits(r) == \A c \in Configs(r) : ~Qualifies(r, Bench(r, c))

(* An answer to a request: a measurement of its grid that qualifies, and   *)
(* than which none that qualifies costs less.                              *)
Best(r, m) ==
    /\ m.cfg \in Configs(r) /\ m = Bench(r, m.cfg) /\ Qualifies(r, m)
    /\ \A c \in Configs(r) :
         Qualifies(r, Bench(r, c)) => Cost(r, m) <= Cost(r, Bench(r, c))

LEMMA SearchFacts ==
    ASSUME WorldOK, NEW r \in Asks
    PROVE  \/ Search(r) = First /\ NoneFits(r)
           \/ Best(r, Search(r))
<1> DEFINE grid == Grid(r)
           M(i) == Bench(r, grid[i])
           best == CHOOSE f : IsSearch(f, r, Len(grid))
<1>0. /\ Len(grid) \in Nat /\ DOMAIN grid = 1..Len(grid)
      /\ \A i \in 1..Len(grid) : grid[i] \in Triples
    BY GridFacts
<1>1. \A i \in 1..Len(grid) : IsMeasure(r, M(i)) /\ M(i).cfg = grid[i]
    BY <1>0, GridFacts, BenchFacts DEF IsMeasure
<1>2. IsSearch(best, r, Len(grid))
    BY SearchExists, <1>0, Zenon
<1>3. Search(r) = best[Len(grid)]
    BY DEF Search, IsSearch, First
<1> HIDE DEF best
<1>4. /\ best[0] = First
      /\ \A i \in 1..Len(grid) : best[i] = IF Replaces(r, M(i), best[i - 1]) THEN M(i) ELSE best[i - 1]
    <2>1. \A i \in 0..Len(grid) : best[i] = IF i = 0 THEN First
            ELSE IF Replaces(r, M(i), best[i - 1]) THEN M(i) ELSE best[i - 1]
        BY <1>2 DEF IsSearch
    <2> QED  BY <1>0, <2>1
<1> HIDE DEF M
<1> DEFINE NoneYet(i) == best[i] = First /\ \A j \in 1..i : ~Qualifies(r, M(j))
           OneYet(i) == \E k \in 1..i : /\ best[i] = M(k) /\ Qualifies(r, M(k))
                                      /\ \A j \in 1..i : Qualifies(r, M(j)) => Cost(r, M(k)) <= Cost(r, M(j))
           bad == {i \in Nat : i <= Len(grid) /\ ~(NoneYet(i) \/ OneYet(i))}
<1>5. ASSUME NEW i \in 1..Len(grid), NoneYet(i - 1) PROVE NoneYet(i) \/ OneYet(i)
    <2>1. i \in Nat /\ \A j \in 1..i : j = i \/ j \in 1..(i - 1)
        BY <1>0
    <2>2. best[i] = IF Qualifies(r, M(i)) THEN M(i) ELSE First
        BY <1>1, <1>4, <1>5, ReplacesFirst
    <2>3. CASE Qualifies(r, M(i))
        <3>1. Cost(r, M(i)) \in Int
            BY <1>1, <2>3, ReplacesBetter
        <3>2. \A j \in 1..i : Qualifies(r, M(j)) => Cost(r, M(i)) <= Cost(r, M(j))
            BY <2>1, <1>5, <3>1
        <3>3. i \in 1..i
            BY <2>1, <1>0
        <3> QED  BY <2>2, <2>3, <3>2, <3>3
    <2>4. CASE ~Qualifies(r, M(i))
        BY <2>1, <2>2, <2>4, <1>5
    <2> QED  BY <2>3, <2>4
<1>6. ASSUME NEW i \in 1..Len(grid), OneYet(i - 1) PROVE OneYet(i)
    <2>1. i \in Nat /\ i \in 1..i /\ \A j \in 1..i : j = i \/ j \in 1..(i - 1)
        BY <1>0
    <2>2. PICK k \in 1..(i - 1) :
              /\ best[i - 1] = M(k) /\ Qualifies(r, M(k))
              /\ \A j \in 1..(i - 1) : Qualifies(r, M(j)) => Cost(r, M(k)) <= Cost(r, M(j))
        BY <1>6
    <2>3. k \in 1..i /\ k \in 1..Len(grid)
        BY <1>0, <2>1
    <2>4. \A j \in 1..Len(grid) :
              /\ Replaces(r, M(j), M(k)) <=> Qualifies(r, M(j)) /\ Cost(r, M(j)) < Cost(r, M(k))
              /\ Cost(r, M(j)) \in Int
        BY <1>1, <2>2, <2>3, ReplacesBetter
    <2>5. best[i] = IF Qualifies(r, M(i)) /\ Cost(r, M(i)) < Cost(r, M(k)) THEN M(i) ELSE M(k)
        BY <1>4, <2>2, <2>4
    <2>6. \A j \in 1..i : j \in 1..Len(grid)
        BY <1>0
    <2>7. CASE Qualifies(r, M(i)) /\ Cost(r, M(i)) < Cost(r, M(k))
        <3>1. \A j \in 1..i : Qualifies(r, M(j)) => Cost(r, M(i)) <= Cost(r, M(j))
            BY <2>1, <2>2, <2>3, <2>4, <2>6, <2>7
        <3> QED  BY <2>1, <2>5, <2>7, <3>1
    <2>8. CASE ~(Qualifies(r, M(i)) /\ Cost(r, M(i)) < Cost(r, M(k)))
        <3>1. \A j \in 1..i : Qualifies(r, M(j)) => Cost(r, M(k)) <= Cost(r, M(j))
            BY <2>1, <2>2, <2>3, <2>4, <2>6, <2>8
        <3> QED  BY <2>2, <2>3, <2>5, <2>8, <3>1
    <2> QED  BY <2>7, <2>8
<1>7. NoneYet(0)
    BY <1>4
<1> HIDE DEF NoneYet, OneYet
<1>8. bad = {}
    <2> SUFFICES ASSUME bad # {} PROVE FALSE
        OBVIOUS
    <2>1. PICK i \in bad : \A j \in bad : i <= j
        BY Least
    <2>2. i # 0
        BY <1>7
    <2>3. i \in 1..Len(grid) /\ i - 1 \in Nat /\ i - 1 <= Len(grid) /\ i - 1 < i
        BY <1>0, <2>1, <2>2
    <2>4. NoneYet(i - 1) \/ OneYet(i - 1)
        BY <2>1, <2>3
    <2> QED  BY <1>5, <1>6, <2>3, <2>4
<1>9. NoneYet(Len(grid)) \/ OneYet(Len(grid))
    BY <1>0, <1>8
<1>10. Configs(r) = {grid[i] : i \in 1..Len(grid)}
    BY <1>0 DEF Configs
<1>11. CASE NoneYet(Len(grid))
    BY <1>3, <1>10, <1>11 DEF NoneYet, NoneFits, M
<1>12. CASE OneYet(Len(grid))
    <2>1. PICK k \in 1..Len(grid) :
              /\ Search(r) = M(k) /\ Qualifies(r, M(k))
              /\ \A j \in 1..Len(grid) : Qualifies(r, M(j)) => Cost(r, M(k)) <= Cost(r, M(j))
        BY <1>3, <1>12 DEF OneYet
    <2>2. Search(r).cfg = grid[k]
        BY <1>1, <2>1
    <2> QED  BY <1>10, <2>1, <2>2 DEF Best, M
<1> QED  BY <1>9, <1>11, <1>12

(* The caches: an entry is served only for a request that searches the     *)
(* same grid for the same thing, on a corpus that is fingerprinted alike.  *)
LEMMA SameSearch ==
    ASSUME NEW q, NEW r, q.kind = r.kind, q.kind \in {"text", "rerank"},
           q.model = r.model, q.corpus = r.corpus, q.mode = r.mode,
           q.kind = "rerank" => q.objective = r.objective,
           NEW m, Best(q, m)
    PROVE  Best(r, m)
<1>1. /\ q.kind = r.kind /\ q.model = r.model /\ q.corpus = r.corpus /\ q.mode = r.mode
      /\ q.kind \in {"text", "rerank"}
      /\ q.kind = "rerank" => q.objective = r.objective
    OBVIOUS
<1>2. Configs(q) = Configs(r)
    BY <1>1 DEF Configs, Grid
<1>3. \A c : Bench(q, c) = Bench(r, c)
    BY <1>1 DEF Bench, Times, Timed
<1>4. \A x : /\ Qualifies(q, x) <=> Qualifies(r, x)
             /\ Cost(q, x) = Cost(r, x)
    <2> TAKE x
    <2>1. Within(q, x) /\ Within(r, x)
        BY <1>1 DEF Within
    <2>2. CASE q.kind = "text"
        <3>1. (Counts(q, x) <=> x.ran) /\ (Counts(r, x) <=> x.ran)
            BY <1>1, <2>2 DEF Counts
        <3>2. Cost(q, x) = 0 - TextScore(x) /\ Cost(r, x) = 0 - TextScore(x)
            BY <1>1, <2>2 DEF Cost
        <3> QED  BY <2>1, <3>1, <3>2 DEF Qualifies
    <2>3. CASE q.kind = "rerank"
        <3>1. Counts(q, x) <=> Counts(r, x)
            BY <1>1, <2>3 DEF Counts
        <3>2. Cost(q, x) = Cost(r, x)
            BY <1>1, <2>3 DEF Cost
        <3> QED  BY <2>1, <3>1, <3>2 DEF Qualifies
    <2> QED  BY <1>1, <2>2, <2>3
<1> QED  BY <1>2, <1>3, <1>4 DEF Best

BestAlike(r, m) == \E q \in Alike(r) : Best(q, m)

LEMMA OwnIsAlike ==
    ASSUME NEW r \in Asks, NEW m, Best(r, m)
    PROVE  BestAlike(r, m)
<1>1. PICK t \in Requests : t.corpus = r.corpus
    BY AskRecords
<1>2. [r EXCEPT !.corpus = t.corpus] = r
    BY <1>1, AskRecords
<1>3. r \in Alike(r)
    BY <1>2 DEF Alike
<1> QED  BY <1>3 DEF BestAlike

LEMMA ReadBackIsAlike ==
    ASSUME NEW q \in Asks, Cached(q), NEW r \in Asks, Cached(r), Identity(q) = Identity(r),
           NEW m, Best(q, m)
    PROVE  BestAlike(r, m)
<1> DEFINE s == [r EXCEPT !.corpus = q.corpus]
<1>1. /\ q.kind = r.kind /\ q.model = r.model /\ q.mode = r.mode
      /\ q.kind \in {"text", "rerank"} /\ Fingerprinted(q) = Fingerprinted(r)
      /\ q.kind = "rerank" => q.objective = r.objective
    BY DEF Identity, Cached
<1>2. /\ s.kind = r.kind /\ s.model = r.model /\ s.mode = r.mode /\ s.corpus = q.corpus
      /\ s.objective = r.objective
    BY AskRecords
<1>3. s \in {[r EXCEPT !.corpus = t.corpus] : t \in Requests}
    <2>1. PICK t \in Requests : t.corpus = q.corpus
        BY AskRecords
    <2> QED  BY <2>1
<1> HIDE DEF s
<1>4. Fingerprinted(s) = Fingerprinted(r)
    BY <1>1, <1>2 DEF Fingerprinted
<1>5. Identity(s) = Identity(r)
    BY <1>2, <1>4 DEF Identity
<1>6. s \in Alike(r)
    BY <1>3, <1>5 DEF Alike
<1>7. Best(s, m)
    BY <1>1, <1>2, SameSearch
<1> QED  BY <1>6, <1>7 DEF BestAlike

(* A search that is not cached answers for itself. *)
LEMMA UncachedIsOwn ==
    ASSUME NEW r, ~Cached(r), NEW m, BestAlike(r, m)
    PROVE  Best(r, m)
BY DEF BestAlike, Alike

-----------------------------------------------------------------------------
(* The invariant: where a call is, what it has found out about its own     *)
(* request before it goes on with another, and what an entry answers.      *)
CallShape ==
    \/ call = Idle
    \/ call \in [at : {"lookup", "search", "error"}, req : Requests, as : Asks]
    \/ call \in [at : {"answered"}, req : Requests, as : Asks, got : {call.got}]

OwnOrFallback ==
    call.at # "idle" =>
        \/ call.as = call.req
        \/ /\ call.as = FallbackOf(call.req) /\ call.as.kind = "rerank"
           /\ NoneFits(call.req)

Outcome ==
    /\ call.at = "lookup" => Cached(call.as)
    /\ call.at = "answered" => BestAlike(call.as, call.got)
    /\ call.at = "error" => /\ NoneFits(call.as)
                            /\ call.as.kind \notin {"constrained", "auto_config"}

EntriesAnswer ==
    \A id \in DOMAIN cache : \E r \in Asks : Cached(r) /\ Identity(r) = id /\ Best(r, cache[id])

TuneInv == WorldOK /\ CallShape /\ OwnOrFallback /\ Outcome /\ EntriesAnswer

LEMMA TuneInitially == TuneInit => TuneInv
<1> SUFFICES ASSUME TuneInit PROVE TuneInv
    OBVIOUS
<1>1. WorldOK
    BY DEF TuneInit, WorldOK
<1>2. call = Idle /\ call.at = "idle" /\ DOMAIN cache = {}
    BY DEF TuneInit, Idle
<1> QED  BY <1>1, <1>2 DEF TuneInv, CallShape, OwnOrFallback, Outcome, EntriesAnswer

(* The machine does not change, so neither does what is best on it. *)
LEMMA SameWorld ==
    ASSUME world' = world
    PROVE  /\ WorldOK' <=> WorldOK
           /\ \A r, m : Best(r, m)' <=> Best(r, m)
           /\ \A r : NoneFits(r)' <=> NoneFits(r)
           /\ \A r, m : BestAlike(r, m)' <=> BestAlike(r, m)
<1>1. \A r, c : Bench(r, c)' = Bench(r, c)
    BY DEF Bench, Times
<1>2. \A r, m : Best(r, m)' <=> Best(r, m)
    BY <1>1 DEF Best
<1>3. \A r, m : BestAlike(r, m)' <=> BestAlike(r, m)
    BY <1>2 DEF BestAlike
<1> QED  BY <1>1, <1>2, <1>3 DEF WorldOK, NoneFits

(* A search that ends without a measurement found none that qualifies. *)
LEMMA NothingFits ==
    ASSUME WorldOK, NEW r \in Asks, NothingTimed(Search(r))
    PROVE  NoneFits(r)
<1> SUFFICES ASSUME Best(r, Search(r)) PROVE FALSE
    BY SearchFacts
<1>1. Search(r) = Bench(r, Search(r).cfg) /\ Search(r).ran
    BY DEF Best, Qualifies, Counts
<1>2. Search(r).p50 \in Nat /\ Search(r).p50 < Sentinel
    BY <1>1, BenchFacts
<1> QED  BY <1>2, SentinelFacts DEF NothingTimed

LEMMA TuneStep == TuneInv /\ [TuneNext]_tuneVars => TuneInv'
<1> SUFFICES ASSUME TuneInv, [TuneNext]_tuneVars PROVE TuneInv'
    OBVIOUS
<1>0. WorldOK /\ CallShape /\ OwnOrFallback /\ Outcome /\ EntriesAnswer
    BY DEF TuneInv
<1>1. world' = world
    BY DEF TuneNext, tuneVars, Begin, Lookup, Finds, FallsBack, FindsNothing, Clear
<1>2. WorldOK'
    BY <1>0, <1>1, SameWorld
<1>3. ASSUME cache' = cache PROVE EntriesAnswer'
    BY <1>0, <1>1, <1>3, SameWorld DEF EntriesAnswer
<1>4. ASSUME call' = call PROVE CallShape' /\ OwnOrFallback' /\ Outcome'
    BY <1>0, <1>1, <1>4, SameWorld DEF CallShape, OwnOrFallback, Outcome
<1>5. ASSUME NEW r \in Requests, Begin(r) PROVE TuneInv'
    <2>1. /\ call' = [at |-> IF Cached(r) THEN "lookup" ELSE "search", req |-> r, as |-> r]
          /\ cache' = cache /\ r \in Asks
        BY <1>5 DEF Begin, Asks
    <2>2. CallShape' /\ OwnOrFallback' /\ Outcome'
        BY <2>1 DEF CallShape, OwnOrFallback, Outcome
    <2> QED  BY <1>2, <1>3, <2>1, <2>2 DEF TuneInv
<1>6. ASSUME Lookup PROVE TuneInv'
    <2>1. /\ call.at = "lookup" /\ cache' = cache /\ Cached(call.as)
          /\ call \in [at : {"lookup"}, req : Requests, as : Asks]
        BY <1>0, <1>6 DEF Lookup, CallShape, Outcome, Idle
    <2>2. CASE Hit(call.as)
        <3>1. Identity(call.as) \in DOMAIN cache
            BY <2>2 DEF Hit
        <3>2. PICK q \in Asks : /\ Cached(q) /\ Identity(q) = Identity(call.as)
                                /\ Best(q, cache[Identity(call.as)])
            BY <1>0, <3>1 DEF EntriesAnswer
        <3>3. BestAlike(call.as, cache[Identity(call.as)])
            BY <2>1, <3>2, ReadBackIsAlike
        <3>4. call' = [at |-> "answered", req |-> call.req, as |-> call.as,
                       got |-> cache[Identity(call.as)]]
            BY <1>6, <2>2 DEF Lookup, Answered
        <3>5. CallShape'
            BY <2>1, <3>4 DEF CallShape
        <3>6. OwnOrFallback' /\ Outcome'
            BY <1>0, <1>1, <2>1, <3>3, <3>4, SameWorld DEF OwnOrFallback, Outcome
        <3> QED  BY <1>2, <1>3, <2>1, <3>5, <3>6 DEF TuneInv
    <2>3. CASE ~Hit(call.as)
        <3>1. call' = [call EXCEPT !.at = "search"]
            BY <1>6, <2>3 DEF Lookup
        <3>2. call' = [at |-> "search", req |-> call.req, as |-> call.as]
            BY <2>1, <3>1
        <3>3. CallShape'
            BY <2>1, <3>2 DEF CallShape
        <3>4. OwnOrFallback' /\ Outcome'
            BY <1>0, <1>1, <2>1, <3>2, SameWorld DEF OwnOrFallback, Outcome
        <3> QED  BY <1>2, <1>3, <2>1, <3>3, <3>4 DEF TuneInv
    <2> QED  BY <2>2, <2>3
<1>7. ASSUME call.at = "search"
      PROVE  call \in [at : {"search"}, req : Requests, as : Asks]
    BY <1>0, <1>7 DEF CallShape, Idle
<1>8. ASSUME Finds PROVE TuneInv'
    <2>1. call.at = "search" /\ call.as \in Asks /\ call.req \in Requests
        BY <1>7, <1>8 DEF Finds
    <2> DEFINE best == Search(call.as)
    <2>2. ~NothingTimed(best) /\ call' = [at |-> "answered", req |-> call.req, as |-> call.as, got |-> best]
        BY <1>8 DEF Finds, Answered
    <2>3. Best(call.as, best)
        BY <1>0, <2>1, <2>2, SearchFacts, FirstFacts, SentinelFacts DEF NothingTimed
    <2>4. \/ Cached(call.as) /\ cache' = Saved(Identity(call.as), best)
          \/ cache' = cache
        BY <1>8 DEF Finds
    <2> HIDE DEF best
    <2>5. CallShape'
        BY <2>1, <2>2 DEF CallShape
    <2>6. OwnOrFallback' /\ Outcome'
        BY <1>0, <1>1, <2>1, <2>2, <2>3, OwnIsAlike, SameWorld DEF OwnOrFallback, Outcome
    <2>7. ASSUME Cached(call.as), cache' = Saved(Identity(call.as), best) PROVE EntriesAnswer'
        <3>1. ASSUME NEW id \in DOMAIN cache'
              PROVE  \E r \in Asks : Cached(r) /\ Identity(r) = id /\ Best(r, cache'[id])
            <4>1. CASE id = Identity(call.as)
                <5>1. cache'[id] = best
                    BY <2>7, <3>1, <4>1 DEF Saved
                <5> QED  BY <2>1, <2>3, <2>7, <4>1, <5>1
            <4>2. CASE id # Identity(call.as)
                <5>1. id \in DOMAIN cache /\ cache'[id] = cache[id]
                    BY <2>7, <3>1, <4>2 DEF Saved
                <5> QED  BY <1>0, <5>1 DEF EntriesAnswer
            <4> QED  BY <4>1, <4>2
        <3> QED  BY <1>1, <3>1, SameWorld DEF EntriesAnswer
    <2> QED  BY <1>2, <1>3, <2>4, <2>5, <2>6, <2>7 DEF TuneInv
<1>9. ASSUME FallsBack PROVE TuneInv'
    <2>1. /\ call \in [at : {"search"}, req : Requests, as : Asks] /\ cache' = cache
          /\ call.as.kind \in {"constrained", "auto_config"} /\ NothingTimed(Search(call.as))
          /\ call' = [call EXCEPT !.at = "lookup", !.as = FallbackOf(call.as)]
        BY <1>7, <1>9 DEF FallsBack
    <2>2. call.as = call.req
        BY <1>0, <2>1 DEF OwnOrFallback
    <2>3. call' = [at |-> "lookup", req |-> call.req, as |-> FallbackOf(call.req)]
        BY <2>1, <2>2
    <2>4. /\ FallbackOf(call.req) \in Asks /\ FallbackOf(call.req).kind = "rerank"
          /\ Cached(FallbackOf(call.req))
        <3>1. FallbackOf(call.req) \in Asks
            BY <2>1, <2>2 DEF Asks
        <3>2. FallbackOf(call.req).kind = "rerank"
            BY <2>1, RequestsAssumption DEF FallbackOf
        <3> QED  BY <3>1, <3>2 DEF Cached
    <2>5. NoneFits(call.req)
        BY <1>0, <2>1, <2>2, NothingFits
    <2>6. CallShape'
        BY <2>1, <2>3, <2>4 DEF CallShape
    <2>7. OwnOrFallback' /\ Outcome'
        BY <1>1, <2>3, <2>4, <2>5, SameWorld DEF OwnOrFallback, Outcome
    <2> QED  BY <1>2, <1>3, <2>1, <2>6, <2>7 DEF TuneInv
<1>10. ASSUME FindsNothing PROVE TuneInv'
    <2>1. /\ call \in [at : {"search"}, req : Requests, as : Asks] /\ cache' = cache
          /\ NothingTimed(Search(call.as)) /\ call' = [call EXCEPT !.at = "error"]
          /\ call.as.kind \notin {"constrained", "auto_config"}
        BY <1>7, <1>10 DEF FindsNothing
    <2>2. call' = [at |-> "error", req |-> call.req, as |-> call.as]
        BY <2>1
    <2>3. NoneFits(call.as)
        BY <1>0, <2>1, NothingFits
    <2>4. CallShape'
        BY <2>1, <2>2 DEF CallShape
    <2>5. OwnOrFallback' /\ Outcome'
        BY <1>0, <1>1, <2>1, <2>2, <2>3, SameWorld DEF OwnOrFallback, Outcome
    <2> QED  BY <1>2, <1>3, <2>1, <2>4, <2>5 DEF TuneInv
<1>11. ASSUME NEW dirs, NEW models, Clear(dirs, models) PROVE TuneInv'
    <2>1. call' = call /\ \A id \in DOMAIN cache' : id \in DOMAIN cache /\ cache'[id] = cache[id]
        BY <1>11 DEF Clear
    <2>2. EntriesAnswer'
        BY <1>0, <1>1, <2>1, SameWorld DEF EntriesAnswer
    <2> QED  BY <1>2, <1>4, <2>1, <2>2 DEF TuneInv
<1>12. CASE UNCHANGED tuneVars
    BY <1>2, <1>3, <1>4, <1>12 DEF tuneVars, TuneInv
<1> QED  BY <1>5, <1>6, <1>8, <1>9, <1>10, <1>11, <1>12 DEF TuneNext

(* A tuner's answer, measured or read back from its entry, is the best     *)
(* configuration of its grid for this request's model, mode and objective, *)
(* on its corpus or one that is fingerprinted alike: for any number of     *)
(* cores, any models, corpora, requests and timings, and any order of      *)
(* calls and clears.                                                       *)
THEOREM TunersAnswerBest == TuneSpec => []AnswersBest
<1>1. TuneInv => AnswersBest
    <2> SUFFICES ASSUME TuneInv, call.at = "answered" PROVE AnswersBest
        BY DEF AnswersBest
    <2>1. PICK r \in Alike(call.as) : Best(r, call.got)
        BY DEF TuneInv, Outcome, BestAlike
    <2>2. call.got.ran
        BY <2>1 DEF Best, Qualifies, Counts
    <2>3. BestOf(r, call.got)
        BY <2>1, <2>2 DEF BestOf, Best, Qualifies
    <2> QED  BY <2>3 DEF AnswersBest
<1> QED  BY <1>1, TuneInitially, TuneStep, PTL DEF TuneSpec

(* A tuner reports an error only when no configuration of its grid counts. *)
THEOREM TunersFailTruly == TuneSpec => []FailsOnlyWhenAllFail
<1>1. TuneInv => FailsOnlyWhenAllFail
    <2> SUFFICES ASSUME TuneInv, call.at = "error"
                 PROVE  \A c \in Configs(call.as) : ~Counts(call.as, Bench(call.as, c))
        BY DEF FailsOnlyWhenAllFail
    <2>1. NoneFits(call.as)
        BY DEF TuneInv, Outcome
    <2>2. call.as.kind \notin {"constrained", "auto_config"}
        BY DEF TuneInv, Outcome
    <2> QED  BY <2>1, <2>2 DEF NoneFits, Qualifies, Within
<1> QED  BY <1>1, TuneInitially, TuneStep, PTL DEF TuneSpec

(* A constrained search answers within its constraints whenever a          *)
(* configuration of its grid is within them.                               *)
THEOREM ConstraintsAreKept == TuneSpec => []ConstraintsKept
<1>1. TuneInv => ConstraintsKept
    <2> SUFFICES ASSUME TuneInv, call.at \in {"answered", "error"},
                        NEW c \in Configs(call.req), Counts(call.req, Bench(call.req, c)),
                        Within(call.req, Bench(call.req, c))
                 PROVE  call.at = "answered" /\ Within(call.req, call.got)
        BY DEF ConstraintsKept
    <2>1. ~NoneFits(call.req)
        BY DEF NoneFits, Qualifies
    <2>2. call.as = call.req
        BY <2>1 DEF TuneInv, OwnOrFallback
    <2>3. call.at # "error"
        BY <2>1, <2>2 DEF TuneInv, Outcome
    <2>4. CASE Cached(call.req)
        BY <2>3, <2>4 DEF Within, Cached
    <2>5. CASE ~Cached(call.req)
        <3>1. BestAlike(call.req, call.got)
            BY <2>2, <2>3 DEF TuneInv, Outcome
        <3>2. Best(call.req, call.got)
            BY <2>5, <3>1, UncachedIsOwn
        <3> QED  BY <2>3, <3>2 DEF Best, Qualifies
    <2> QED  BY <2>4, <2>5
<1> QED  BY <1>1, TuneInitially, TuneStep, PTL DEF TuneSpec

=============================================================================
