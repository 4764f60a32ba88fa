-------------------------- MODULE CacheFilesProofs ---------------------------
(***************************************************************************)
(* Proofs about the directory cache and the level cache, for any finite    *)
(* number of processes, any answers of SMAPI and any number of changes and *)
(* deaths: the types, and CachedIsWhole.                                   *)
(***************************************************************************)
EXTENDS CacheFiles, FiniteSetTheorems, SequenceTheorems, TLAPS

LevelPCs == {"level check", "level open", "level read", "level query", "level write",
             "level close"}
HasFile == {"lock read", "read", "lock write", "write", "level read", "level close"}
HasData == {"read", "open write", "lock write", "write", "level write", "level close"}
HasAnswer == {"open write", "lock write", "write"}

(***************************************************************************)
(* Where a process is in its program says which file, lock and data it     *)
(* has.  The records it writes are an answer of SMAPI, and the level file  *)
(* that it found is never removed.                                         *)
(***************************************************************************)
ProcessOK(p) ==
  /\ call = "directory" => pc[p] \notin LevelPCs
  /\ call = "level" => pc[p] \in LevelPCs \cup Ended
  /\ fd[p] # NoInode <=> pc[p] \in HasFile
  /\ lock[p] = "read" <=> pc[p] = "read"
  /\ lock[p] = "write" <=> pc[p] = "write"
  /\ pc[p] \notin {"read", "write"} => pos[p] = 0
  /\ pc[p] \notin HasData => data[p] = <<>>
  /\ pc[p] \in HasAnswer => Whole(data[p])
  /\ pc[p] = "write" => pos[p] < Len(data[p])
  /\ pc[p] = "read" => Len(data[p]) = pos[p]
  /\ pc[p] = "level open" => name["level"] # NoInode
ControlOK == \A p \in Process : ProcessOK(p)

\* Who holds the write lock on a file is alone.
Writes(q, x) == fd[q] = x /\ lock[q] = "write"
Reads(q, x) == fd[q] = x /\ lock[q] = "read"
LocksOK ==
  \A p, q \in Process : p # q /\ lock[p] = "write" /\ fd[q] = fd[p] => lock[q] = "none"

\* A process has emptied a file and has no lock on it yet.
Opens(q, x) == fd[q] = x /\ pc[q] = "lock write"

(***************************************************************************)
(* A file that nobody has emptied under a lock or left half written is     *)
(* empty or begins with a whole answer, except while it is written: then   *)
(* it begins with what its writer has written so far, and may end with     *)
(* what another has written since both have emptied it.  Without such      *)
(* another it has nothing else.  A reader has what the file begins with.   *)
(***************************************************************************)
BeginsWhole(s) == \E v \in 1..MaxVersion : BeginsWith(s, Answer(v))
WriterOK(q, x) ==
  /\ pos[q] <= Len(content[x])
  /\ \A i \in 1..pos[q] : content[x][i] = data[q][i]
  /\ x \notin shared => Len(content[x]) = pos[q]
ReaderOK(q, x) ==
  /\ pos[q] <= Len(content[x])
  /\ \A i \in 1..pos[q] : data[q][i] = content[x][i]
UnwrittenOK(x) ==
  \/ content[x] = <<>>
  \/ BeginsWhole(content[x]) /\ (x \notin shared => Whole(content[x]))
AloneOK(x) ==
  x \notin shared =>
    \A q \in Process : Opens(q, x) =>
      /\ content[x] = <<>>
      /\ \A t \in Process \ {q} : ~Opens(t, x) /\ ~Writes(t, x)
FileOK(x) ==
  /\ (\A q \in Process : ~Writes(q, x)) => UnwrittenOK(x)
  /\ \A q \in Process : Writes(q, x) => WriterOK(q, x)
  /\ \A q \in Process : Reads(q, x) => ReaderOK(q, x)
  /\ AloneOK(x)
FilesOK == call = "directory" => \A x \in Inode \ suspect : FileOK(x)

\* The inductive invariant.
IInv == TypeOK /\ ControlOK /\ LocksOK /\ FilesOK

-----------------------------------------------------------------------------
(* Answers, inodes and files *)

\* What SMAPI answers is a sequence of blocks.
LEMMA AnswerType ==
  ASSUME NEW v \in 1..MaxVersion
  PROVE  /\ Answer(v) \in Seq(Blocks) /\ Len(Answer(v)) = Length[v]
         /\ Length[v] \in Nat \ {0} /\ Length[v] <= Records /\ Len(Answer(v)) <= Records
         /\ Answer(v) # <<>> /\ DOMAIN Answer(v) = 1..Length[v]
         /\ <<Answer(v)[1]>> \in Seq(Blocks) /\ Len(<<Answer(v)[1]>>) <= Records
  <1>1. Records \in Nat \ {0} /\ Length[v] \in Nat \ {0} /\ Length[v] <= Records
    BY CacheAssumption
  <1>2. Answer(v) \in [1..Length[v] -> Blocks]
    <2> SUFFICES ASSUME NEW i \in 1..Length[v] PROVE <<v, i>> \in Blocks
      BY DEF Answer
    <2>1. i \in 1..Records
      BY <1>1
    <2> QED  BY <2>1 DEF Blocks
  <1>3. Answer(v) \in Seq(Blocks) /\ Len(Answer(v)) = Length[v]
    BY <1>1, <1>2, SeqDef
  <1>4. Answer(v)[1] \in Blocks
    BY <1>1, <1>2
  <1>5. Answer(v) # <<>>
    BY <1>1, <1>3
  <1>6. <<Answer(v)[1]>> \in Seq(Blocks) /\ Len(<<Answer(v)[1]>>) <= Records
    BY <1>1, <1>4
  <1> QED  BY <1>1, <1>2, <1>3, <1>5, <1>6

\* So is an empty file.
LEMMA EmptyType ==
  <<>> \in Seq(Blocks) /\ Len(<<>>) <= Records
  BY CacheAssumption

\* What is whole is a sequence of blocks as well, and begins with itself.
LEMMA WholeType ==
  ASSUME NEW s, Whole(s)
  PROVE  /\ s \in Seq(Blocks) /\ s # <<>> /\ Len(s) \in Nat \ {0} /\ Len(s) <= Records
         /\ BeginsWhole(s)
  <1>1. PICK v \in 1..MaxVersion : s = Answer(v)
    BY DEF Whole
  <1>2. /\ s \in Seq(Blocks) /\ s # <<>> /\ Len(s) \in Nat \ {0} /\ Len(s) <= Records
    BY <1>1, AnswerType
  <1>3. BeginsWith(s, Answer(v))
    BY <1>1, <1>2 DEF BeginsWith
  <1> QED  BY <1>2, <1>3 DEF BeginsWhole

\* A process without a file finds an inode that nobody uses.
LEMMA FreeExists ==
  ASSUME TypeOK, NEW p \in Process, fd[p] = NoInode, NEW f \in Files, name[f] = NoInode
  PROVE  \E x \in Inode : Free(x)
  <1> DEFINE g == IF f = "level" THEN "directory" ELSE "level"
             h == [q \in Process |-> IF q = p THEN name[g] ELSE fd[q]]
             T == {h[q] : q \in Process}
  <1>1. IsFiniteSet(T) /\ Cardinality(T) <= Cardinality(Process)
    <2>1. IsFiniteSet(Process)
      BY CacheAssumption
    <2>2. h \in Surjection(Process, T)
      BY DEF Surjection
    <2> QED  BY <2>1, <2>2, FS_Surjection
  <1>2. ~(Inode \subseteq T)
    <2> SUFFICES ASSUME Inode \subseteq T PROVE FALSE
      OBVIOUS
    <2>1. Cardinality(Inode) <= Cardinality(T)
      BY <1>1, FS_Subset
    <2>2. Cardinality(Process) < Cardinality(Inode)
      BY CacheAssumption
    <2>3. /\ Cardinality(Process) \in Nat /\ Cardinality(Inode) \in Nat
          /\ Cardinality(T) \in Nat
      BY <1>1, CacheAssumption, FS_CardinalityType
    <2> QED  BY <1>1, <2>1, <2>2, <2>3
  <1>3. PICK x \in Inode : x \notin T
    BY <1>2
  <1>4. \A q \in Process : h[q] # x
    BY <1>3
  <1>5. name[g] # x
    BY <1>4
  <1>6. \A q \in Process : fd[q] # x
    BY <1>4, CacheAssumption
  <1>7. \A k \in Files : name[k] # x
    BY <1>5, CacheAssumption DEF Files
  <1> QED  BY <1>6, <1>7 DEF Free

(***************************************************************************)
(* What FilesAre makes of an inode: it is as the arguments say, or nobody  *)
(* has it open and it is empty.                                            *)
(***************************************************************************)
LEMMA FilesStep ==
  ASSUME NEW names, NEW contents, NEW olds, NEW suspects,
         FilesAre(names, contents, olds, suspects),
         NEW x \in Inode
  PROVE  \/ /\ content'[x] = contents[x]
            /\ x \in suspect' <=> x \in suspects
            /\ x \in shared' <=> x \in shared
         \/ /\ content'[x] = <<>>
            /\ \A q \in Process : fd'[q] # x
  BY DEF FilesAre

\* Its types.
LEMMA FilesType ==
  ASSUME NEW names \in [Files -> Inode \cup {NoInode}],
         NEW contents \in [Inode -> Seq(Blocks)],
         \A x \in Inode : Len(contents[x]) <= Records,
         NEW olds \in SUBSET Inode, NEW suspects \in SUBSET Inode,
         FilesAre(names, contents, olds, suspects)
  PROVE  /\ name' = names
         /\ name' \in [Files -> Inode \cup {NoInode}]
         /\ content' \in [Inode -> Seq(Blocks)]
         /\ \A x \in Inode : Len(content'[x]) <= Records
         /\ old' \subseteq Inode /\ suspect' \subseteq Inode /\ shared' \subseteq Inode
  <1>1. <<>> \in Seq(Blocks) /\ Len(<<>>) = 0 /\ 0 <= Records
    BY CacheAssumption
  <1> QED  BY <1>1 DEF FilesAre

-----------------------------------------------------------------------------
(* What a step leaves alone *)

Undisturbed(q) ==
  /\ pc'[q] = pc[q] /\ fd'[q] = fd[q] /\ pos'[q] = pos[q]
  /\ lock'[q] = lock[q] /\ data'[q] = data[q]
LevelStays == name["level"] # NoInode => name'["level"] # NoInode

\* The processes that a step of p does not touch are where they were.
LEMMA ControlStep ==
  ASSUME ControlOK, call' = call, LevelStays, NEW p \in Process, ProcessOK(p)',
         \A q \in Process \ {p} : Undisturbed(q)
  PROVE  ControlOK'
  <1> SUFFICES ASSUME NEW q \in Process, q # p PROVE ProcessOK(q)'
    BY DEF ControlOK
  <1>1. ProcessOK(q) /\ Undisturbed(q)
    BY DEF ControlOK
  <1> QED  BY <1>1 DEF ProcessOK, Undisturbed, LevelStays, Whole

\* A lock that is not given is no conflict.
LEMMA LocksStep ==
  ASSUME LocksOK, NEW p \in Process, lock'[p] = "none",
         \A q \in Process \ {p} : Undisturbed(q)
  PROVE  LocksOK'
  BY DEF LocksOK, Undisturbed

\* A file is to its processes what it was.
SameHolders(x) ==
  /\ \A q \in Process : Writes(q, x) => Writes(q, x)'
  /\ \A q \in Process : Writes(q, x)' =>
       Writes(q, x) /\ pos'[q] = pos[q] /\ data'[q] = data[q]
  /\ \A q \in Process : Reads(q, x)' =>
       Reads(q, x) /\ pos'[q] = pos[q] /\ data'[q] = data[q]
  /\ \A q \in Process : Opens(q, x)' => Opens(q, x)

\* An inode whose content and whose holders are as they were.
LEMMA FileKept ==
  ASSUME NEW x \in Inode, FileOK(x), content'[x] = content[x], x \in shared' <=> x \in shared,
         SameHolders(x)
  PROVE  FileOK(x)'
  <1>1. (\A q \in Process : ~Writes(q, x)') => UnwrittenOK(x)'
    BY DEF FileOK, UnwrittenOK, SameHolders, BeginsWhole, BeginsWith, Whole
  <1>2. ASSUME NEW q \in Process, Writes(q, x)' PROVE WriterOK(q, x)'
    BY <1>2 DEF FileOK, WriterOK, SameHolders
  <1>3. ASSUME NEW q \in Process, Reads(q, x)' PROVE ReaderOK(q, x)'
    BY <1>3 DEF FileOK, ReaderOK, SameHolders
  <1>4. AloneOK(x)'
    BY DEF FileOK, AloneOK, SameHolders
  <1> QED  BY <1>1, <1>2, <1>3, <1>4 DEF FileOK

\* An empty inode that nobody has locked, and that one process has opened at most.
LEMMA FileEmpty ==
  ASSUME NEW x \in Inode, content'[x] = <<>>,
         \A q \in Process : ~Writes(q, x)' /\ ~Reads(q, x)',
         x \notin shared' =>
           \A q, t \in Process : Opens(q, x)' /\ Opens(t, x)' => q = t
  PROVE  FileOK(x)'
  BY DEF FileOK, UnwrittenOK, AloneOK

\* An inode that nobody has open.
LEMMA FileGone ==
  ASSUME NEW x \in Inode, content'[x] = <<>>, \A q \in Process : fd'[q] # x
  PROVE  FileOK(x)'
  BY FileEmpty DEF Writes, Reads, Opens

(***************************************************************************)
(* A step of a process that does not write and that has no lock behind it: *)
(* the inodes are as they were, or gone.                                   *)
(***************************************************************************)
FilesStay ==
  \A x \in Inode :
    \/ /\ content'[x] = content[x] /\ (x \in suspect' <=> x \in suspect)
       /\ x \in shared' <=> x \in shared
    \/ content'[x] = <<>> /\ \A q \in Process : fd'[q] # x

LEMMA FilesKept ==
  ASSUME FilesOK, call' = call, FilesStay, NEW p \in Process,
         lock[p] # "write", lock'[p] = "none", pc'[p] # "lock write",
         \A q \in Process \ {p} : Undisturbed(q)
  PROVE  FilesOK'
  <1> SUFFICES ASSUME call = "directory", NEW x \in Inode, x \notin suspect'
               PROVE  FileOK(x)'
    BY DEF FilesOK
  <1>1. CASE content'[x] = content[x] /\ x \notin suspect /\ (x \in shared' <=> x \in shared)
    <2>1. FileOK(x)
      BY <1>1 DEF FilesOK
    <2>2. SameHolders(x)
      BY DEF SameHolders, Writes, Reads, Opens, Undisturbed
    <2> QED  BY <1>1, <2>1, <2>2, FileKept
  <1>2. CASE content'[x] = <<>> /\ \A q \in Process : fd'[q] # x
    BY <1>2, FileGone
  <1> QED  BY <1>1, <1>2 DEF FilesStay

\* FilesAre with the contents and the suspects as they are.
LEMMA SameStays ==
  ASSUME NEW names, NEW olds, FilesAre(names, content, olds, suspect)
  PROVE  FilesStay
  BY FilesStep DEF FilesStay

\* A process gets other data.
LEMMA DataSet ==
  ASSUME TypeOK, NEW p \in Process, NEW s \in Seq(Blocks), Len(s) <= Records,
         data' = [data EXCEPT ![p] = s]
  PROVE  data' \in [Process -> Seq(Blocks)] /\ \A q \in Process : Len(data'[q]) <= Records
  BY DEF TypeOK

\* A process closes its file.
LEMMA Closed ==
  ASSUME TypeOK, NEW p \in Process, CloseFile(p)
  PROVE  /\ fd' \in [Process -> Inode \cup {NoInode}] /\ fd'[p] = NoInode
         /\ pos' \in [Process -> 0..Records] /\ pos'[p] = 0
         /\ lock' \in [Process -> {"none", "read", "write"}] /\ lock'[p] = "none"
         /\ \A q \in Process \ {p} : fd'[q] = fd[q] /\ pos'[q] = pos[q] /\ lock'[q] = lock[q]
  BY CacheAssumption DEF TypeOK, CloseFile

\* A process has no data any more.
LEMMA NoData ==
  ASSUME TypeOK, NEW p \in Process, data' = [data EXCEPT ![p] = <<>>]
  PROVE  /\ data' \in [Process -> Seq(Blocks)] /\ \A q \in Process : Len(data'[q]) <= Records
         /\ data'[p] = <<>>
  <1>1. <<>> \in Seq(Blocks) /\ Len(<<>>) <= Records
    BY CacheAssumption
  <1> QED  BY <1>1, DataSet DEF TypeOK

-----------------------------------------------------------------------------
(* The actions *)

LEMMA InitOK ==
  Init => IInv
  <1> SUFFICES ASSUME Init PROVE IInv
    OBVIOUS
  <1>1. <<>> \in Seq(Blocks) /\ Len(<<>>) = 0 /\ 0 <= Records
    BY CacheAssumption
  <1>2. TypeOK
    BY <1>1, CacheAssumption DEF Init, TypeOK, PCs, Ended, Files
  <1>3. ControlOK
    BY DEF Init, ControlOK, ProcessOK, LevelPCs, HasFile, HasData, HasAnswer, Ended, Files
  <1>4. LocksOK
    BY DEF Init, LocksOK
  <1>5. FilesOK
    BY DEF Init, FilesOK, FileOK, UnwrittenOK, AloneOK, Writes, Reads, Opens
  <1> QED  BY <1>2, <1>3, <1>4, <1>5 DEF IInv

(* The steps that only look: the check of a file, and the beginning. *)
LEMMA LookOK ==
  ASSUME IInv, NEW p \in Process, Begin(p) \/ Check(p) \/ LevelCheck(p)
  PROVE  IInv'
  <1> USE DEF Begin, Check, LevelCheck, Goto, fileVars, worldVars
  <1>1. TypeOK'
    BY DEF IInv, TypeOK, PCs, Ended, Files
  <1>2. ProcessOK(p)'
    BY ZenonT(60) DEF IInv, TypeOK, ControlOK, ProcessOK, LevelPCs, HasFile, HasData, HasAnswer, Ended,
           Files, LevelFileUsed
  <1>3. \A q \in Process \ {p} : Undisturbed(q)
    BY DEF IInv, TypeOK, Undisturbed
  <1>4. lock[p] = "none" /\ lock'[p] = "none" /\ pc'[p] # "lock write"
    BY DEF IInv, TypeOK, ControlOK, ProcessOK, Ended
  <1>5. ControlOK'
    BY <1>2, <1>3, ControlStep DEF IInv, LevelStays
  <1>6. LocksOK'
    BY <1>3, <1>4, LocksStep DEF IInv
  <1>7. FilesOK'
    BY <1>3, <1>4, FilesKept DEF IInv, FilesStay
  <1> QED  BY <1>1, <1>5, <1>6, <1>7 DEF IInv

(* SMAPI is asked. *)
LEMMA AskOK ==
  ASSUME IInv, NEW p \in Process, Query(p) \/ LevelQuery(p)
  PROVE  IInv'
  <1> USE DEF Query, LevelQuery, Goto, fileVars, worldVars
  <1>0. version \in 1..MaxVersion
    BY DEF IInv, TypeOK
  <1>1. TypeOK'
    <2>1. pc' \in [Process -> PCs]
      BY DEF IInv, TypeOK, PCs, Ended
    <2>2. data' \in [Process -> Seq(Blocks)] /\ \A q \in Process : Len(data'[q]) <= Records
      <3>1. CASE data' = data
        BY <3>1 DEF IInv, TypeOK
      <3>2. CASE data' = [data EXCEPT ![p] = Answer(version)]
        BY <1>0, <3>2, AnswerType, DataSet DEF IInv
      <3>3. CASE data' = [data EXCEPT ![p] = <<Answer(version)[1]>>]
        BY <1>0, <3>3, AnswerType, DataSet DEF IInv
      <3> QED  BY <3>1, <3>2, <3>3
    <2> QED  BY <2>1, <2>2 DEF IInv, TypeOK
  <1>2. ProcessOK(p)'
    BY <1>0 DEF IInv, TypeOK, ControlOK, ProcessOK, LevelPCs, HasFile, HasData, HasAnswer,
           Ended, Files, Whole
  <1>3. \A q \in Process \ {p} : Undisturbed(q)
    BY DEF IInv, TypeOK, Undisturbed
  <1>4. lock[p] = "none" /\ lock'[p] = "none" /\ pc'[p] # "lock write"
    BY DEF IInv, TypeOK, ControlOK, ProcessOK, Ended
  <1>5. ControlOK'
    BY <1>2, <1>3, ControlStep DEF IInv, LevelStays
  <1>6. LocksOK'
    BY <1>3, <1>4, LocksStep DEF IInv
  <1>7. FilesOK'
    BY <1>3, <1>4, FilesKept DEF IInv, FilesStay
  <1> QED  BY <1>1, <1>5, <1>6, <1>7 DEF IInv

(* A file is opened with "r". *)
LEMMA OpenReadOK ==
  ASSUME IInv, NEW p \in Process, OpenRead(p) \/ LevelOpen(p)
  PROVE  IInv'
  <1> USE DEF OpenRead, LevelOpen, OpenForRead, Goto, fileVars, worldVars
  <1>1. TypeOK'
    BY DEF IInv, TypeOK, PCs, Ended, Files
  <1>2. ProcessOK(p)'
    BY ZenonT(60) DEF IInv, TypeOK, ControlOK, ProcessOK, LevelPCs, HasFile, HasData, HasAnswer, Ended,
           Files
  <1>3. \A q \in Process \ {p} : Undisturbed(q)
    BY DEF IInv, TypeOK, Undisturbed
  <1>4. lock[p] = "none" /\ lock'[p] = "none" /\ pc'[p] # "lock write"
    BY DEF IInv, TypeOK, ControlOK, ProcessOK, Ended
  <1>5. ControlOK'
    BY <1>2, <1>3, ControlStep DEF IInv, LevelStays
  <1>6. LocksOK'
    BY <1>3, <1>4, LocksStep DEF IInv
  <1>7. FilesOK'
    BY <1>3, <1>4, FilesKept DEF IInv, FilesStay
  <1> QED  BY <1>1, <1>5, <1>6, <1>7 DEF IInv

(* The file is removed by its name. *)
LEMMA RemoveOK ==
  ASSUME IInv, NEW p \in Process, Remove(p) \/ RemoveAfterError(p)
  PROVE  IInv'
  <1> USE DEF Remove, RemoveAfterError, Goto, worldVars
  <1>1. FilesAre(Removed, content, old, suspect) \/ UNCHANGED fileVars
    OBVIOUS
  <1>2. FilesStay
    BY <1>1, SameStays DEF FilesStay, fileVars
  <1>3. /\ name' \in [Files -> Inode \cup {NoInode}]
        /\ content' \in [Inode -> Seq(Blocks)]
        /\ \A x \in Inode : Len(content'[x]) <= Records
        /\ old' \subseteq Inode /\ suspect' \subseteq Inode /\ shared' \subseteq Inode
        /\ name'["level"] = name["level"]
    <2>1. CASE UNCHANGED fileVars
      BY <2>1 DEF IInv, TypeOK, fileVars
    <2>2. CASE FilesAre(Removed, content, old, suspect)
      <3>1. Removed \in [Files -> Inode \cup {NoInode}] /\ Removed["level"] = name["level"]
        BY DEF IInv, TypeOK, Removed, Files
      <3> QED  BY <2>2, <3>1, FilesType DEF IInv, TypeOK
    <2> QED  BY <1>1, <2>1, <2>2
  <1>4. TypeOK'
    <2>1. pc' \in [Process -> PCs]
      BY DEF IInv, TypeOK, PCs, Ended
    <2> QED  BY <1>3, <2>1 DEF IInv, TypeOK
  <1>5. ProcessOK(p)'
    BY DEF IInv, TypeOK, ControlOK, ProcessOK, LevelPCs, HasFile, HasData, HasAnswer, Ended,
           Files
  <1>6. \A q \in Process \ {p} : Undisturbed(q)
    BY DEF IInv, TypeOK, Undisturbed
  <1>7. lock[p] = "none" /\ lock'[p] = "none" /\ pc'[p] # "lock write"
    BY DEF IInv, TypeOK, ControlOK, ProcessOK, Ended
  <1>8. ControlOK'
    BY <1>3, <1>5, <1>6, ControlStep DEF IInv, LevelStays
  <1>9. LocksOK'
    BY <1>6, <1>7, LocksStep DEF IInv
  <1>10. FilesOK'
    BY <1>2, <1>6, <1>7, FilesKept DEF IInv
  <1> QED  BY <1>4, <1>8, <1>9, <1>10 DEF IInv

(* The read lock is granted, or the file is closed. *)
LEMMA LockReadOK ==
  ASSUME IInv, NEW p \in Process, LockRead(p)
  PROVE  IInv'
  <1> USE DEF LockRead, Goto, worldVars
  <1>1. FilesStay
    BY SameStays DEF SameFiles
  <1>2. /\ name' \in [Files -> Inode \cup {NoInode}]
        /\ content' \in [Inode -> Seq(Blocks)]
        /\ \A x \in Inode : Len(content'[x]) <= Records
        /\ old' \subseteq Inode /\ suspect' \subseteq Inode /\ shared' \subseteq Inode
        /\ name' = name
    BY FilesType DEF IInv, TypeOK, SameFiles
  <1>3. TypeOK'
    <2>1. pc' \in [Process -> PCs]
      BY DEF IInv, TypeOK, PCs, Ended
    <2>2. /\ fd' \in [Process -> Inode \cup {NoInode}] /\ pos' \in [Process -> 0..Records]
          /\ lock' \in [Process -> {"none", "read", "write"}]
      BY Closed DEF IInv, TypeOK
    <2> QED  BY <1>2, <2>1, <2>2 DEF IInv, TypeOK
  <1>4. \A q \in Process \ {p} : Undisturbed(q)
    BY DEF IInv, TypeOK, Undisturbed, CloseFile
  <1>5. ProcessOK(p)'
    BY DEF IInv, TypeOK, ControlOK, ProcessOK, LevelPCs, HasFile, HasData, HasAnswer, Ended,
           Files, CloseFile
  <1>6. ControlOK'
    BY <1>2, <1>4, <1>5, ControlStep DEF IInv, LevelStays
  <1>7. CASE ~ReadLockGranted(p)
    <2>1. lock[p] # "write" /\ lock'[p] = "none" /\ pc'[p] # "lock write"
      BY <1>7, Closed DEF IInv, TypeOK, ControlOK, ProcessOK
    <2>2. LocksOK'
      BY <1>4, <2>1, LocksStep DEF IInv
    <2>3. FilesOK'
      BY <1>1, <1>4, <2>1, FilesKept DEF IInv
    <2> QED  BY <1>3, <1>6, <2>2, <2>3 DEF IInv
  <1>8. CASE ReadLockGranted(p)
    <2>1. /\ fd' = fd /\ pos' = pos /\ data' = data /\ call' = call
          /\ lock[p] = "none" /\ lock' = [lock EXCEPT ![p] = "read"]
          /\ fd[p] \in Inode /\ pos[p] = 0
          /\ lock'[p] = "read" /\ pc'[p] = "read"
      BY <1>8 DEF IInv, TypeOK, ControlOK, ProcessOK, HasFile
    <2>2. \A q \in Process \ {p} : ~Writes(q, fd[p])
      BY <1>8 DEF ReadLockGranted, LockedByOther, Others, Writes
    <2> HIDE DEF LockRead, Goto, worldVars
    <2>3. LocksOK'
      <3> SUFFICES ASSUME NEW r \in Process, NEW q \in Process, r # q, lock'[r] = "write",
                          fd'[q] = fd'[r]
                   PROVE  lock'[q] = "none"
        BY DEF LocksOK
      <3>1. r # p /\ lock[r] = "write" /\ fd[q] = fd[r]
        BY <1>4, <2>1 DEF Undisturbed
      <3>2. q # p
        BY <2>2, <3>1 DEF Writes
      <3> QED  BY <1>4, <3>1, <3>2 DEF IInv, LocksOK, Undisturbed
    <2>4. FilesOK'
      <3> SUFFICES ASSUME call = "directory", NEW x \in Inode, x \notin suspect'
                   PROVE  FileOK(x)'
        BY <2>1 DEF FilesOK
      <3>1. CASE content'[x] = content[x] /\ x \notin suspect /\ (x \in shared' <=> x \in shared)
        <4>1. FileOK(x)
          BY <3>1 DEF IInv, FilesOK
        <4>2. \A q \in Process : (Writes(q, x)' <=> Writes(q, x)) /\ (Opens(q, x)' => Opens(q, x))
          BY <1>4, <2>1 DEF Writes, Opens, Undisturbed
        <4>3. (\A q \in Process : ~Writes(q, x)') => UnwrittenOK(x)'
          BY <3>1, <4>1, <4>2 DEF FileOK, UnwrittenOK, BeginsWhole, BeginsWith, Whole
        <4>6. AloneOK(x)'
          BY <3>1, <4>1, <4>2 DEF FileOK, AloneOK
        <4>4. ASSUME NEW q \in Process, Writes(q, x)' PROVE WriterOK(q, x)'
          <5>1. WriterOK(q, x)
            BY <4>1, <4>2, <4>4 DEF FileOK
          <5> QED  BY <2>1, <3>1, <5>1 DEF WriterOK
        <4>5. ASSUME NEW q \in Process, Reads(q, x)' PROVE ReaderOK(q, x)'
          <5>1. CASE q = p
            <6>1. pos'[q] = 0
              BY <5>1, <2>1
            <6>2. Len(content'[x]) \in Nat
              BY <1>2, LenProperties
            <6>3. pos'[q] <= Len(content'[x])
              BY <6>1, <6>2
            <6>4. 1..pos'[q] = {}
              BY <6>1
            <6> QED  BY <6>3, <6>4 DEF ReaderOK
          <5>2. CASE q # p
            <6>1. Reads(q, x)
              BY <5>2, <1>4, <4>5 DEF Reads, Undisturbed
            <6>2. ReaderOK(q, x)
              BY <4>1, <6>1 DEF FileOK
            <6> QED  BY <2>1, <3>1, <6>2 DEF ReaderOK
          <5> QED  BY <5>1, <5>2
        <4> QED  BY <4>3, <4>4, <4>5, <4>6 DEF FileOK
      <3>2. CASE content'[x] = <<>> /\ \A q \in Process : fd'[q] # x
        BY <3>2, FileGone
      <3> QED  BY <1>1, <3>1, <3>2 DEF FilesStay
    <2> QED  BY <1>3, <1>6, <2>3, <2>4 DEF IInv
  <1> QED  BY <1>7, <1>8

(* A record is read. *)
LEMMA ReadRecordOK ==
  ASSUME IInv, NEW p \in Process, ReadRecord(p)
  PROVE  IInv'
  <1> DEFINE b == content[fd[p]][pos[p] + 1]
  <1>1. /\ fd[p] \in Inode /\ pos[p] \in Nat /\ pos[p] < Len(content[fd[p]])
        /\ Len(content[fd[p]]) \in Nat /\ Len(content[fd[p]]) <= Records
        /\ data[p] \in Seq(Blocks) /\ Len(data[p]) = pos[p]
        /\ b \in Blocks /\ Records \in Nat
    <2>0. /\ fd[p] \in Inode \cup {NoInode} /\ pos[p] \in 0..Records /\ data[p] \in Seq(Blocks)
          /\ pc[p] = "read" /\ ProcessOK(p)
      BY DEF IInv, TypeOK, ControlOK, ReadRecord
    <2>1. fd[p] \in Inode /\ pos[p] \in Nat /\ data[p] \in Seq(Blocks) /\ Len(data[p]) = pos[p]
      BY <2>0, CacheAssumption DEF ProcessOK, HasFile
    <2>2. content[fd[p]] \in Seq(Blocks) /\ Len(content[fd[p]]) <= Records
      BY <2>1 DEF IInv, TypeOK
    <2>3. Len(content[fd[p]]) \in Nat /\ Records \in Nat
      BY <2>2, LenProperties, CacheAssumption
    <2>4. pos[p] < Len(content[fd[p]])
      BY <2>1, <2>3 DEF ReadRecord, AtEnd
    <2>5. b \in Blocks
      BY <2>1, <2>2, <2>3, <2>4, ElementOfSeq
    <2> QED  BY <2>1, <2>2, <2>3, <2>4, <2>5
  <1>2. /\ Append(data[p], b) \in Seq(Blocks)
        /\ Len(Append(data[p], b)) = pos[p] + 1
        /\ \A i \in 1..pos[p] : Append(data[p], b)[i] = data[p][i]
        /\ Append(data[p], b)[pos[p] + 1] = b
    BY <1>1, AppendProperties
  <1>3. /\ data' = [data EXCEPT ![p] = Append(data[p], b)]
        /\ pos' = [pos EXCEPT ![p] = pos[p] + 1]
        /\ pc[p] = "read" /\ UNCHANGED <<fileVars, worldVars, pc, fd, lock>>
    BY DEF ReadRecord
  <1> HIDE DEF b
  <1>4. /\ data' \in [Process -> Seq(Blocks)] /\ \A q \in Process : Len(data'[q]) <= Records
        /\ data'[p] = Append(data[p], b)
    <2>0. Len(Append(data[p], b)) <= Records
      BY <1>1, <1>2
    <2>1. data' \in [Process -> Seq(Blocks)] /\ \A q \in Process : Len(data'[q]) <= Records
      BY <1>2, <1>3, <2>0, DataSet DEF IInv
    <2> QED  BY <2>1, <1>3 DEF IInv, TypeOK
  <1>5. pos' \in [Process -> 0..Records] /\ pos'[p] = pos[p] + 1
    BY <1>1, <1>3 DEF IInv, TypeOK
  <1>6. TypeOK'
    BY <1>3, <1>4, <1>5 DEF IInv, TypeOK, fileVars, worldVars
  <1>7. \A q \in Process \ {p} : Undisturbed(q)
    BY <1>3 DEF IInv, TypeOK, Undisturbed
  <1>8. ProcessOK(p)'
    BY <1>2, <1>3, <1>4, <1>5 DEF IInv, TypeOK, ControlOK, ProcessOK, LevelPCs, HasFile,
       HasData, HasAnswer, Ended, fileVars, worldVars
  <1>9. ControlOK'
    BY <1>3, <1>7, <1>8, ControlStep DEF IInv, LevelStays, worldVars, fileVars
  <1>10. LocksOK'
    BY <1>3 DEF IInv, LocksOK
  <1>11. FilesOK'
    <2> SUFFICES ASSUME call = "directory", NEW x \in Inode, x \notin suspect
                 PROVE  FileOK(x)'
      BY <1>3 DEF FilesOK, worldVars, fileVars
    <2>1. FileOK(x) /\ content' = content /\ shared' = shared
      BY <1>3 DEF IInv, FilesOK, fileVars
    <2>2. /\ \A q \in Process : Writes(q, x)' <=> Writes(q, x)
          /\ \A q \in Process : Opens(q, x)' <=> Opens(q, x)
          /\ \A q \in Process : Reads(q, x)' <=> Reads(q, x)
          /\ ~Writes(p, x)
      BY <1>3 DEF Writes, Reads, Opens, IInv, ControlOK, ProcessOK
    <2>3. (\A q \in Process : ~Writes(q, x)') => UnwrittenOK(x)'
      BY <2>1, <2>2 DEF FileOK, UnwrittenOK, BeginsWhole, BeginsWith, Whole
    <2>6. AloneOK(x)'
      BY <2>1, <2>2 DEF FileOK, AloneOK
    <2>4. ASSUME NEW q \in Process, Writes(q, x)' PROVE WriterOK(q, x)'
      <3>1. WriterOK(q, x) /\ Undisturbed(q)
        BY <1>7, <2>1, <2>2, <2>4 DEF FileOK
      <3> QED  BY <2>1, <3>1 DEF WriterOK, Undisturbed
    <2>5. ASSUME NEW q \in Process, Reads(q, x)' PROVE ReaderOK(q, x)'
      <3>0. Reads(q, x) /\ ReaderOK(q, x)
        BY <2>1, <2>2, <2>5 DEF FileOK
      <3>1. CASE q = p
        <4>1. fd[p] = x /\ \A i \in 1..pos[p] : data[p][i] = content[x][i]
          BY <3>0, <3>1 DEF ReaderOK, Reads
        <4>2. b = content[x][pos[p] + 1]
          BY <4>1 DEF b
        <4>3. pos'[p] <= Len(content'[x])
          BY <1>1, <1>5, <2>1, <4>1
        <4>4. ASSUME NEW i \in 1..pos'[p] PROVE data'[p][i] = content'[x][i]
          <5>1. i \in 1..pos[p] \/ i = pos[p] + 1
            BY <1>1, <1>5
          <5> QED  BY <1>2, <1>4, <2>1, <4>1, <4>2, <5>1
        <4> QED  BY <3>1, <4>3, <4>4 DEF ReaderOK
      <3>2. CASE q # p
        BY <3>0, <3>2, <1>7, <2>1 DEF ReaderOK, Undisturbed
      <3> QED  BY <3>1, <3>2
    <2> QED  BY <2>3, <2>4, <2>5, <2>6 DEF FileOK
  <1> QED  BY <1>6, <1>9, <1>10, <1>11 DEF IInv

(* The end of the file. *)
LEMMA EndReadOK ==
  ASSUME IInv, NEW p \in Process, EndRead(p)
  PROVE  IInv'
  <1> USE DEF EndRead, Ends, Goto, worldVars
  <1>0. pc[p] = "read" /\ pc' = [pc EXCEPT ![p] = AfterRead(p)] /\ AfterRead(p) \in {"done", "query"}
    BY DEF AtEnd, AfterRead
  <1>1. FilesStay
    BY SameStays DEF SameFiles
  <1>2. /\ name' \in [Files -> Inode \cup {NoInode}]
        /\ content' \in [Inode -> Seq(Blocks)]
        /\ \A x \in Inode : Len(content'[x]) <= Records
        /\ old' \subseteq Inode /\ suspect' \subseteq Inode /\ shared' \subseteq Inode
        /\ name' = name
    BY FilesType DEF IInv, TypeOK, SameFiles
  <1>3. TypeOK'
    <2>1. pc' \in [Process -> PCs]
      BY <1>0 DEF IInv, TypeOK, PCs, Ended
    <2>2. /\ fd' \in [Process -> Inode \cup {NoInode}] /\ pos' \in [Process -> 0..Records]
          /\ lock' \in [Process -> {"none", "read", "write"}]
      BY Closed DEF IInv
    <2>3. data' \in [Process -> Seq(Blocks)] /\ \A q \in Process : Len(data'[q]) <= Records
      BY NoData DEF IInv
    <2> QED  BY <1>2, <2>1, <2>2, <2>3 DEF IInv, TypeOK
  <1>4. \A q \in Process \ {p} : Undisturbed(q)
    BY DEF IInv, TypeOK, Undisturbed, CloseFile
  <1>5. /\ lock[p] # "write" /\ lock'[p] = "none" /\ fd'[p] = NoInode /\ pos'[p] = 0
        /\ data'[p] = <<>> /\ pc'[p] # "lock write"
    BY <1>0, Closed, NoData DEF IInv, TypeOK, ControlOK, ProcessOK
  <1>6. ProcessOK(p)'
    BY <1>0, <1>5 DEF IInv, TypeOK, ControlOK, ProcessOK, LevelPCs, HasFile, HasData, HasAnswer,
       Ended, Files
  <1>7. ControlOK'
    BY <1>2, <1>4, <1>6, ControlStep DEF IInv, LevelStays
  <1>8. LocksOK'
    BY <1>4, <1>5, LocksStep DEF IInv
  <1>9. FilesOK'
    BY <1>1, <1>4, <1>5, FilesKept DEF IInv
  <1> QED  BY <1>3, <1>7, <1>8, <1>9 DEF IInv

(* A file is opened with "w", which creates or empties it. *)
LEMMA OpenWriteOK ==
  ASSUME IInv, NEW p \in Process, OpenWrite(p) \/ LevelWrite(p)
  PROVE  IInv'
  <1>1. PICK f \in Files, l \in {"lock write", "level close"} :
          /\ \/ pc[p] = "open write" /\ f = "directory" /\ l = "lock write"
             \/ pc[p] = "level write" /\ f = "level" /\ l = "level close"
          /\ \/ OpenForWrite(p, f) /\ Goto(p, l) /\ UNCHANGED data
             \/ Ends(p, "failed") /\ UNCHANGED <<fileVars, fd, pos, lock>>
          /\ UNCHANGED worldVars
    BY DEF OpenWrite, LevelWrite, Files
  <1>2. /\ lock[p] = "none" /\ fd[p] = NoInode /\ pos[p] = 0 /\ call' = call
        /\ version' = version /\ deaths' = deaths /\ ProcessOK(p) /\ TypeOK
    BY <1>1 DEF IInv, TypeOK, ControlOK, ProcessOK, HasFile, worldVars
  <1>3. CASE Ends(p, "failed") /\ UNCHANGED <<fileVars, fd, pos, lock>>
    <2>1. /\ pc' = [pc EXCEPT ![p] = "failed"] /\ data' = [data EXCEPT ![p] = <<>>]
          /\ fd' = fd /\ pos' = pos /\ lock' = lock
          /\ name' = name /\ content' = content /\ old' = old /\ suspect' = suspect
          /\ shared' = shared
      BY <1>3 DEF Ends, Goto, fileVars
    <2>2. TypeOK'
      <3>1. pc' \in [Process -> PCs]
        BY <1>2, <2>1 DEF TypeOK, PCs, Ended
      <3>2. data' \in [Process -> Seq(Blocks)] /\ \A q \in Process : Len(data'[q]) <= Records
        BY <1>2, <2>1, NoData
      <3> QED  BY <1>2, <2>1, <3>1, <3>2 DEF TypeOK
    <2>3. \A q \in Process \ {p} : Undisturbed(q)
      BY <1>2, <2>1 DEF TypeOK, Undisturbed
    <2>4. ProcessOK(p)'
      BY <1>2, <2>1 DEF TypeOK, ProcessOK, LevelPCs, HasFile, HasData, HasAnswer, Ended, Files
    <2>5. ControlOK'
      BY <1>2, <2>1, <2>3, <2>4, ControlStep DEF IInv, LevelStays
    <2>6. LocksOK'
      BY <1>2, <2>1, <2>3, LocksStep DEF IInv
    <2>8. pc'[p] # "lock write"
      BY <1>2, <2>1 DEF TypeOK
    <2>7. FilesOK'
      BY <1>2, <2>1, <2>3, <2>8, FilesKept DEF IInv, FilesStay
    <2> QED  BY <2>2, <2>5, <2>6, <2>7 DEF IInv
  <1>4. CASE OpenForWrite(p, f) /\ Goto(p, l) /\ UNCHANGED data
    <2> DEFINE y == IF name[f] = NoInode THEN CHOOSE i \in Inode : Free(i) ELSE name[f]
    <2>1. y \in Inode
      <3>1. CASE name[f] = NoInode
        <4>1. \E x \in Inode : Free(x)
          BY <1>2, <3>1, FreeExists
        <4> QED  BY <3>1, <4>1
      <3>2. CASE name[f] # NoInode
        BY <1>2, <3>2 DEF TypeOK
      <3> QED  BY <3>1, <3>2
    <2>2. /\ pc' = [pc EXCEPT ![p] = l] /\ data' = data
          /\ name' = [name EXCEPT ![f] = y]
          /\ content' = [content EXCEPT ![y] = <<>>]
          /\ old' = old \ {y}
          /\ suspect' = IF LockedByOther(p, y, {"read", "write"}) THEN suspect \cup {y}
                        ELSE suspect \ {y}
          /\ shared' = IF OpenedByOther(p, y) THEN shared \cup {y} ELSE shared \ {y}
          /\ fd' = [fd EXCEPT ![p] = y] /\ pos' = pos /\ lock' = lock
      BY <1>4 DEF OpenForWrite, Goto
    <2> HIDE DEF y
    <2>3. y # NoInode
      BY <2>1, CacheAssumption
    <2>4. TypeOK'
      <3>1. <<>> \in Seq(Blocks) /\ Len(<<>>) <= Records
        BY EmptyType
      <3>2. /\ content' \in [Inode -> Seq(Blocks)]
            /\ \A x \in Inode : Len(content'[x]) <= Records
        BY <1>2, <2>1, <2>2, <3>1 DEF TypeOK
      <3>3. name' \in [Files -> Inode \cup {NoInode}] /\ fd' \in [Process -> Inode \cup {NoInode}]
        BY <1>2, <2>1, <2>2 DEF TypeOK
      <3>4. pc' \in [Process -> PCs]
        BY <1>2, <2>2 DEF TypeOK, PCs
      <3>5. old' \subseteq Inode /\ suspect' \subseteq Inode /\ shared' \subseteq Inode
        BY <1>2, <2>1, <2>2 DEF TypeOK
      <3> QED  BY <1>2, <2>2, <3>2, <3>3, <3>4, <3>5 DEF TypeOK
    <2>5. \A q \in Process \ {p} : Undisturbed(q)
      BY <1>2, <2>2 DEF TypeOK, Undisturbed
    <2>6. ProcessOK(p)'
      <3>1. /\ pc'[p] = l /\ fd'[p] = y /\ pos'[p] = pos[p] /\ lock'[p] = lock[p]
            /\ data'[p] = data[p]
        BY <1>2, <2>2 DEF TypeOK
      <3> QED  BY <1>1, <1>2, <2>3, <3>1 DEF ProcessOK, LevelPCs, HasFile, HasData, HasAnswer,
               Ended, Files, Whole
    <2>7. LevelStays
      BY <1>2, <2>2, <2>3 DEF TypeOK, LevelStays, Files
    <2>8. ControlOK'
      BY <1>2, <2>5, <2>6, <2>7, ControlStep DEF IInv
    <2>9. lock'[p] = "none"
      BY <1>2, <2>2
    <2>10. LocksOK'
      BY <2>5, <2>9, LocksStep DEF IInv
    <2>11. FilesOK'
      <3> SUFFICES ASSUME call = "directory", NEW x \in Inode, x \notin suspect'
                   PROVE  FileOK(x)'
        BY <1>2 DEF FilesOK
      <3>1. CASE x = y
        <4>1. content'[x] = <<>>
          BY <1>2, <2>1, <2>2, <3>1 DEF TypeOK
        <4>2. ~LockedByOther(p, y, {"read", "write"})
          BY <2>2, <3>1
        <4>3. \A q \in Process : ~Writes(q, x)' /\ ~Reads(q, x)'
          BY <2>5, <2>9, <3>1, <4>2 DEF LockedByOther, Others, Writes, Reads, Undisturbed
        <4>4. x \notin shared' => \A q \in Process \ {p} : ~Opens(q, x)'
          BY <2>2, <2>5, <3>1 DEF OpenedByOther, HasOpened, Others, Opens, Undisturbed
        <4> QED  BY <4>1, <4>3, <4>4, FileEmpty
      <3>2. CASE x # y
        <4>1. /\ content'[x] = content[x] /\ x \notin suspect
              /\ x \in shared' <=> x \in shared
          BY <1>2, <2>2, <3>2 DEF TypeOK
        <4>2. FileOK(x)
          BY <4>1 DEF IInv, FilesOK
        <4>4. fd'[p] # x
          BY <1>2, <2>2, <3>2 DEF TypeOK
        <4>3. SameHolders(x)
          BY <1>2, <2>5, <2>9, <4>4 DEF SameHolders, Writes, Reads, Opens, Undisturbed
        <4> QED  BY <4>1, <4>2, <4>3, FileKept
      <3> QED  BY <3>1, <3>2
    <2> QED  BY <2>4, <2>8, <2>10, <2>11 DEF IInv
  <1> QED  BY <1>1, <1>3, <1>4

(* The level is read, and what the file has is all the same. *)
LEMMA LevelReadOK ==
  ASSUME IInv, NEW p \in Process, LevelRead(p)
  PROVE  IInv'
  <1>1. PICK l \in Ended :
          /\ pc[p] = "level read" /\ CloseFile(p) /\ pc' = [pc EXCEPT ![p] = l]
          /\ data' = data /\ name' = name /\ content' = content /\ old' = old
          /\ suspect' = suspect /\ shared' = shared
          /\ call' = call /\ version' = version /\ deaths' = deaths
    BY DEF LevelRead, Goto, fileVars, worldVars, Ended
  <1>2. TypeOK /\ ProcessOK(p) /\ lock[p] = "none"
    BY <1>1 DEF IInv, TypeOK, ControlOK, ProcessOK
  <1>3. /\ fd' \in [Process -> Inode \cup {NoInode}] /\ fd'[p] = NoInode
        /\ pos' \in [Process -> 0..Records] /\ pos'[p] = 0
        /\ lock' \in [Process -> {"none", "read", "write"}] /\ lock'[p] = "none"
        /\ \A q \in Process \ {p} : fd'[q] = fd[q] /\ pos'[q] = pos[q] /\ lock'[q] = lock[q]
    BY <1>1, <1>2, Closed
  <1>4. TypeOK'
    BY <1>1, <1>2, <1>3 DEF TypeOK, PCs, Ended
  <1>5. \A q \in Process \ {p} : Undisturbed(q)
    BY <1>1, <1>2, <1>3 DEF TypeOK, Undisturbed
  <1>6. ProcessOK(p)'
    BY <1>1, <1>2, <1>3 DEF TypeOK, ProcessOK, LevelPCs, HasFile, HasData, HasAnswer, Ended,
       Files
  <1>7. ControlOK'
    BY <1>1, <1>5, <1>6, ControlStep DEF IInv, LevelStays
  <1>8. LocksOK'
    BY <1>3, <1>5, LocksStep DEF IInv
  <1>10. pc'[p] # "lock write"
    BY <1>1, <1>2 DEF TypeOK, Ended
  <1>9. FilesOK'
    BY <1>1, <1>2, <1>3, <1>5, <1>10, FilesKept DEF IInv, FilesStay
  <1> QED  BY <1>4, <1>7, <1>8, <1>9 DEF IInv

(* The level is written when the file is closed, or not. *)
LEMMA LevelCloseOK ==
  ASSUME IInv, NEW p \in Process, LevelClose(p)
  PROVE  IInv'
  <1>1. /\ pc[p] = "level close" /\ CloseFile(p) /\ pc' = [pc EXCEPT ![p] = "done"]
        /\ data' = [data EXCEPT ![p] = <<>>] /\ name' = name /\ suspect' = suspect
        /\ shared' = shared /\ call' = call /\ version' = version /\ deaths' = deaths
        /\ content' \in {content, [content EXCEPT ![fd[p]] = data[p]]}
        /\ old' \in {old, old \ {fd[p]}}
    BY DEF LevelClose, Ends, Goto, worldVars
  <1>2. TypeOK /\ ProcessOK(p) /\ call = "level" /\ lock[p] = "none"
    <2>1. TypeOK /\ ProcessOK(p)
      BY DEF IInv, ControlOK
    <2> QED  BY <1>1, <2>1 DEF TypeOK, ProcessOK, Files, LevelPCs
  <1>3. /\ fd' \in [Process -> Inode \cup {NoInode}] /\ fd'[p] = NoInode
        /\ pos' \in [Process -> 0..Records] /\ pos'[p] = 0
        /\ lock' \in [Process -> {"none", "read", "write"}] /\ lock'[p] = "none"
        /\ \A q \in Process \ {p} : fd'[q] = fd[q] /\ pos'[q] = pos[q] /\ lock'[q] = lock[q]
    BY <1>1, <1>2, Closed
  <1>4. /\ data' \in [Process -> Seq(Blocks)] /\ \A q \in Process : Len(data'[q]) <= Records
        /\ data'[p] = <<>>
    BY <1>1, <1>2, NoData
  <1>5. /\ content' \in [Inode -> Seq(Blocks)]
        /\ \A x \in Inode : Len(content'[x]) <= Records
    BY <1>1, <1>2 DEF TypeOK
  <1>6. TypeOK'
    BY <1>1, <1>2, <1>3, <1>4, <1>5 DEF TypeOK, PCs, Ended
  <1>7. \A q \in Process \ {p} : Undisturbed(q)
    BY <1>1, <1>2, <1>3 DEF TypeOK, Undisturbed
  <1>8. ProcessOK(p)'
    BY <1>1, <1>2, <1>3, <1>4 DEF TypeOK, ProcessOK, LevelPCs, HasFile, HasData, HasAnswer,
       Ended, Files
  <1>9. ControlOK'
    BY <1>1, <1>7, <1>8, ControlStep DEF IInv, LevelStays
  <1>10. LocksOK'
    BY <1>3, <1>7, LocksStep DEF IInv
  <1>11. FilesOK'
    BY <1>1, <1>2 DEF FilesOK
  <1> QED  BY <1>6, <1>9, <1>10, <1>11 DEF IInv

(* The write lock is granted, or the file is closed. *)
LEMMA LockWriteOK ==
  ASSUME IInv, NEW p \in Process, LockWrite(p)
  PROVE  IInv'
  <1>1. /\ pc[p] = "lock write" /\ FilesAre(name, content, old, suspect)
        /\ call' = call /\ version' = version /\ deaths' = deaths
    BY DEF LockWrite, SameFiles, worldVars
  <1>2. TypeOK /\ ProcessOK(p) /\ lock[p] = "none" /\ pos[p] = 0 /\ fd[p] \in Inode /\ Whole(data[p])
    <2>1. TypeOK /\ ProcessOK(p)
      BY DEF IInv, ControlOK
    <2> QED  BY <1>1, <2>1 DEF TypeOK, ProcessOK, HasFile, HasAnswer
  <1>3. FilesStay
    BY <1>1, SameStays
  <1>4. /\ name' \in [Files -> Inode \cup {NoInode}]
        /\ content' \in [Inode -> Seq(Blocks)]
        /\ \A x \in Inode : Len(content'[x]) <= Records
        /\ old' \subseteq Inode /\ suspect' \subseteq Inode /\ shared' \subseteq Inode
        /\ name' = name
    BY <1>1, <1>2, FilesType DEF TypeOK
  <1>5. CASE CloseFile(p) /\ Ends(p, "done")
    <2>1. pc' = [pc EXCEPT ![p] = "done"] /\ data' = [data EXCEPT ![p] = <<>>]
      BY <1>5 DEF Ends, Goto
    <2>2. /\ fd' \in [Process -> Inode \cup {NoInode}] /\ fd'[p] = NoInode
          /\ pos' \in [Process -> 0..Records] /\ pos'[p] = 0
          /\ lock' \in [Process -> {"none", "read", "write"}] /\ lock'[p] = "none"
          /\ \A q \in Process \ {p} : fd'[q] = fd[q] /\ pos'[q] = pos[q] /\ lock'[q] = lock[q]
      BY <1>5, <1>2, Closed
    <2>3. /\ data' \in [Process -> Seq(Blocks)] /\ \A q \in Process : Len(data'[q]) <= Records
          /\ data'[p] = <<>>
      BY <1>2, <2>1, NoData
    <2>4. TypeOK'
      BY <1>1, <1>2, <1>4, <2>1, <2>2, <2>3 DEF TypeOK, PCs, Ended
    <2>5. \A q \in Process \ {p} : Undisturbed(q)
      BY <1>2, <2>1, <2>2 DEF TypeOK, Undisturbed
    <2>6. ProcessOK(p)'
      BY <1>1, <1>2, <2>1, <2>2, <2>3 DEF TypeOK, ProcessOK, LevelPCs, HasFile, HasData,
         HasAnswer, Ended, Files
    <2>7. ControlOK'
      BY <1>1, <1>4, <2>5, <2>6, ControlStep DEF IInv, LevelStays
    <2>8. LocksOK'
      BY <2>2, <2>5, LocksStep DEF IInv
    <2>10. pc'[p] # "lock write"
      BY <1>2, <2>1 DEF TypeOK
    <2>9. FilesOK'
      BY <1>1, <1>2, <1>3, <2>2, <2>5, <2>10, FilesKept DEF IInv
    <2> QED  BY <2>4, <2>7, <2>8, <2>9 DEF IInv
  <1>6. CASE /\ WriteLockGranted(p) /\ lock' = [lock EXCEPT ![p] = "write"]
             /\ Goto(p, "write") /\ UNCHANGED <<fd, pos, data>>
    <2>1. /\ pc' = [pc EXCEPT ![p] = "write"] /\ lock' = [lock EXCEPT ![p] = "write"]
          /\ fd' = fd /\ pos' = pos /\ data' = data
      BY <1>6 DEF Goto
    <2>2. \A q \in Process \ {p} : fd[q] = fd[p] => lock[q] = "none"
      BY <1>6, <1>2 DEF WriteLockGranted, LockedByOther, Others, TypeOK
    <2>3. TypeOK'
      BY <1>1, <1>2, <1>4, <2>1 DEF TypeOK, PCs
    <2>4. \A q \in Process \ {p} : Undisturbed(q)
      BY <1>2, <2>1 DEF TypeOK, Undisturbed
    <2>5. pc'[p] = "write" /\ lock'[p] = "write" /\ 0 < Len(data[p])
      <3>1. Len(data[p]) \in Nat \ {0}
        BY <1>2, WholeType
      <3> QED  BY <1>2, <2>1, <3>1 DEF TypeOK
    <2>6. ProcessOK(p)'
      BY <1>1, <1>2, <2>1, <2>5 DEF TypeOK, ProcessOK, LevelPCs, HasFile, HasData,
         HasAnswer, Ended, Files, Whole
    <2>7. ControlOK'
      BY <1>1, <1>4, <2>4, <2>6, ControlStep DEF IInv, LevelStays
    <2>8. LocksOK'
      <3> SUFFICES ASSUME NEW r \in Process, NEW q \in Process, r # q, lock'[r] = "write",
                          fd'[q] = fd'[r]
                   PROVE  lock'[q] = "none"
        BY DEF LocksOK
      <3>1. CASE r = p
        BY <2>1, <2>2, <2>4, <3>1 DEF Undisturbed
      <3>2. CASE r # p
        <4>1. lock[r] = "write" /\ fd[q] = fd[r]
          BY <2>1, <2>4, <3>2 DEF Undisturbed
        <4>2. q # p
          BY <2>2, <3>2, <4>1
        <4> QED  BY <2>4, <4>1, <4>2 DEF IInv, LocksOK, Undisturbed
      <3> QED  BY <3>1, <3>2
    <2>9. FilesOK'
      <3> SUFFICES ASSUME call = "directory", NEW x \in Inode, x \notin suspect'
                   PROVE  FileOK(x)'
        BY <1>1 DEF FilesOK
      <3>1. CASE /\ content'[x] = content[x] /\ x \notin suspect /\ x # fd[p]
                 /\ x \in shared' <=> x \in shared
        <4>1. FileOK(x)
          BY <3>1 DEF IInv, FilesOK
        <4>2. SameHolders(x)
          BY <2>1, <2>4, <3>1 DEF SameHolders, Writes, Reads, Opens, Undisturbed
        <4> QED  BY <3>1, <4>1, <4>2, FileKept
      <3>2. CASE /\ content'[x] = content[x] /\ x \notin suspect /\ x = fd[p]
                 /\ x \in shared' <=> x \in shared
        <4>1. FileOK(x) /\ Opens(p, x)
          BY <1>1, <3>2 DEF IInv, FilesOK, Opens
        <4>2. x \notin shared => content[x] = <<>> /\ \A q \in Process \ {p} : ~Opens(q, x)
          BY <4>1 DEF FileOK, AloneOK
        <4>3. Len(content[x]) \in Nat /\ (content[x] = <<>> => Len(content[x]) = 0)
          BY <1>2, LenProperties, EmptySeq DEF TypeOK
        <4>4. Writes(p, x)' /\ pos'[p] = 0
          BY <1>2, <2>1, <2>5, <3>2 DEF Writes
        <4>5. WriterOK(p, x)'
          <5>1. 0 <= Len(content'[x]) /\ (x \notin shared' => Len(content'[x]) = 0)
            BY <3>2, <4>2, <4>3
          <5>2. 1..pos'[p] = {}
            BY <4>4
          <5> QED  BY <4>4, <5>1, <5>2 DEF WriterOK
        <4>6. \A q \in Process \ {p} : ~Writes(q, x)' /\ ~Reads(q, x)'
          BY <2>1, <2>2, <2>4, <3>2 DEF Writes, Reads, Undisturbed
        <4>7. ~Reads(p, x)' /\ ~Opens(p, x)'
          BY <2>5 DEF Reads, Opens
        <4>8. AloneOK(x)'
          BY <2>4, <3>2, <4>2, <4>7 DEF AloneOK, Opens, Undisturbed
        <4> QED  BY <4>4, <4>5, <4>6, <4>7, <4>8 DEF FileOK
      <3>3. CASE content'[x] = <<>> /\ \A q \in Process : fd'[q] # x
        BY <3>3, FileGone
      <3> QED  BY <1>3, <3>1, <3>2, <3>3 DEF FilesStay
    <2> QED  BY <2>3, <2>7, <2>8, <2>9 DEF IInv
  <1> QED  BY <1>5, <1>6 DEF LockWrite

(***************************************************************************)
(* A process stops with a file: it closes it, and what it was writing is   *)
(* suspect.                                                                *)
(***************************************************************************)
LEMMA StopOK ==
  ASSUME IInv, NEW p \in Process, WriteFails(p) \/ Die(p)
  PROVE  IInv'
  <1> DEFINE s == IF lock[p] = "write" THEN suspect \cup {fd[p]} ELSE suspect
  <1>0. TypeOK /\ ProcessOK(p)
    BY DEF IInv, ControlOK
  <1>1. PICK l \in {"write error", "failed"} :
          /\ pc[p] \notin Ended /\ pc' = [pc EXCEPT ![p] = l]
          /\ l = "write error" => pc[p] = "write"
          /\ CloseFile(p) /\ data' = [data EXCEPT ![p] = <<>>]
          /\ FilesAre(name, content, old, s)
          /\ call' = call /\ version' = version /\ deaths' \in 0..MaxDeaths
    <2>1. CASE WriteFails(p)
      <3>1. pc[p] = "write" /\ lock[p] = "write"
        BY <1>0, <2>1 DEF WriteFails, ProcessOK
      <3> QED  BY <1>0, <2>1, <3>1 DEF WriteFails, Ends, Goto, worldVars, Ended, TypeOK
    <2>2. CASE Die(p)
      <3>1. deaths' \in 0..MaxDeaths
        BY <1>0, <2>2, CacheAssumption DEF Die, TypeOK
      <3> QED  BY <2>2, <3>1 DEF Die, Ends, Goto
    <2> QED  BY <2>1, <2>2
  <1>2. s \in SUBSET Inode
    BY <1>0, CacheAssumption DEF TypeOK, ProcessOK, HasFile
  <1> HIDE DEF s
  <1>3. /\ name' \in [Files -> Inode \cup {NoInode}]
        /\ content' \in [Inode -> Seq(Blocks)]
        /\ \A x \in Inode : Len(content'[x]) <= Records
        /\ old' \subseteq Inode /\ suspect' \subseteq Inode /\ shared' \subseteq Inode
        /\ name' = name
    BY <1>0, <1>1, <1>2, FilesType DEF TypeOK
  <1>4. /\ fd' \in [Process -> Inode \cup {NoInode}] /\ fd'[p] = NoInode
        /\ pos' \in [Process -> 0..Records] /\ pos'[p] = 0
        /\ lock' \in [Process -> {"none", "read", "write"}] /\ lock'[p] = "none"
        /\ \A q \in Process \ {p} : fd'[q] = fd[q] /\ pos'[q] = pos[q] /\ lock'[q] = lock[q]
    BY <1>0, <1>1, Closed
  <1>5. /\ data' \in [Process -> Seq(Blocks)] /\ \A q \in Process : Len(data'[q]) <= Records
        /\ data'[p] = <<>>
    BY <1>0, <1>1, NoData
  <1>6. TypeOK'
    BY <1>0, <1>1, <1>3, <1>4, <1>5 DEF TypeOK, PCs, Ended
  <1>7. \A q \in Process \ {p} : Undisturbed(q)
    BY <1>0, <1>1, <1>4 DEF TypeOK, Undisturbed
  <1>8. ProcessOK(p)'
    BY <1>0, <1>1, <1>4, <1>5 DEF TypeOK, ProcessOK, LevelPCs, HasFile, HasData, HasAnswer,
       Ended, Files
  <1>9. ControlOK'
    BY <1>1, <1>3, <1>7, <1>8, ControlStep DEF IInv, LevelStays
  <1>10. LocksOK'
    BY <1>4, <1>7, LocksStep DEF IInv
  <1>11. FilesOK'
    <2> SUFFICES ASSUME call = "directory", NEW x \in Inode, x \notin suspect'
                 PROVE  FileOK(x)'
      BY <1>1 DEF FilesOK
    <2>1. CASE content'[x] = content[x] /\ x \notin s /\ (x \in shared' <=> x \in shared)
      <3>1. x \notin suspect /\ ~Writes(p, x)
        BY <2>1 DEF s, Writes
      <3>2. FileOK(x)
        BY <3>1 DEF IInv, FilesOK
      <3>3. fd'[p] # x
        BY <1>4, CacheAssumption
      <3>4. SameHolders(x)
        BY <1>4, <1>7, <3>1, <3>3 DEF SameHolders, Writes, Reads, Opens, Undisturbed
      <3> QED  BY <2>1, <3>2, <3>4, FileKept
    <2>2. CASE content'[x] = <<>> /\ \A q \in Process : fd'[q] # x
      BY <2>2, FileGone
    <2> QED  BY ZenonT(60), <1>1, <2>1, <2>2, FilesStep
  <1> QED  BY <1>6, <1>9, <1>10, <1>11 DEF IInv

\* What a write makes of a file.
LEMMA WrittenIs ==
  ASSUME TypeOK, NEW x \in Inode, NEW at \in Nat, at < Records, NEW b \in Blocks
  PROVE  /\ Written(x, at, b) \in Seq(Blocks)
         /\ Len(Written(x, at, b)) = IF Len(content[x]) > at THEN Len(content[x]) ELSE at + 1
         /\ Len(Written(x, at, b)) <= Records
         /\ \A i \in 1..at : i <= Len(content[x]) => Written(x, at, b)[i] = content[x][i]
         /\ Written(x, at, b)[at + 1] = b
  <1> DEFINE n == IF Len(content[x]) > at THEN Len(content[x]) ELSE at + 1
  <1>1. content[x] \in Seq(Blocks) /\ Len(content[x]) <= Records
    BY DEF TypeOK
  <1>2. /\ Len(content[x]) \in Nat /\ Records \in Nat
        /\ \A i \in 1..Len(content[x]) : content[x][i] \in Blocks
    BY <1>1, LenProperties, ElementOfSeq, CacheAssumption
  <1>3. n \in Nat /\ n <= Records /\ at + 1 \in 1..n /\ \A i \in 1..at : i \in 1..n
    <2>1. CASE Len(content[x]) > at
      BY <1>1, <1>2, <2>1
    <2>2. CASE ~(Len(content[x]) > at)
      BY <1>2, <2>2
    <2> QED  BY <2>1, <2>2
  <1>4. Hole \in Blocks
    BY DEF Blocks
  <1>5. Written(x, at, b) =
          [i \in 1..n |-> IF i = at + 1 THEN b
                          ELSE IF i <= Len(content[x]) THEN content[x][i] ELSE Hole]
    BY DEF Written
  <1> HIDE DEF n
  <1>6. Written(x, at, b) \in [1..n -> Blocks]
    <2> SUFFICES ASSUME NEW i \in 1..n
                 PROVE  (IF i = at + 1 THEN b
                         ELSE IF i <= Len(content[x]) THEN content[x][i] ELSE Hole) \in Blocks
      BY <1>5
    <2>1. i <= Len(content[x]) => content[x][i] \in Blocks
      BY <1>2, <1>3
    <2> QED  BY <1>4, <2>1
  <1>7. Written(x, at, b) \in Seq(Blocks) /\ Len(Written(x, at, b)) = n
    BY <1>3, <1>6, SeqDef
  <1>8. \A i \in 1..at : i <= Len(content[x]) => Written(x, at, b)[i] = content[x][i]
    BY <1>3, <1>5
  <1>9. Written(x, at, b)[at + 1] = b
    BY <1>3, <1>5
  <1> QED  BY <1>3, <1>7, <1>8, <1>9 DEF n

(* A record is written, perhaps the last one. *)
LEMMA WriteRecordOK ==
  ASSUME IInv, NEW p \in Process, WriteRecord(p)
  PROVE  IInv'
  <1> DEFINE y == fd[p]
             b == data[p][pos[p] + 1]
             w == Written(y, pos[p], b)
             c == [content EXCEPT ![y] = w]
  <1>0. TypeOK /\ ProcessOK(p) /\ Records \in Nat \ {0}
    BY CacheAssumption DEF IInv, ControlOK
  <1>1. /\ pc[p] = "write" /\ FilesAre(name, c, old \ {y}, suspect)
        /\ call' = call /\ version' = version /\ deaths' = deaths
    BY DEF WriteRecord, worldVars
  <1>2. \/ /\ pos[p] + 1 = Len(data[p]) /\ CloseFile(p)
           /\ pc' = [pc EXCEPT ![p] = "done"] /\ data' = [data EXCEPT ![p] = <<>>]
        \/ /\ pos[p] + 1 # Len(data[p]) /\ pos' = [pos EXCEPT ![p] = @ + 1]
           /\ pc' = pc /\ fd' = fd /\ lock' = lock /\ data' = data
    BY DEF WriteRecord, Ends, Goto
  <1>3. /\ y \in Inode /\ lock[p] = "write" /\ Whole(data[p]) /\ pos[p] \in Nat
        /\ pos[p] < Len(data[p])
    BY <1>0, <1>1 DEF TypeOK, ProcessOK, HasFile, HasAnswer
  <1>4. /\ data[p] \in Seq(Blocks) /\ Len(data[p]) \in Nat /\ Len(data[p]) <= Records
        /\ pos[p] < Records
    <2>1. data[p] \in Seq(Blocks) /\ Len(data[p]) \in Nat /\ Len(data[p]) <= Records
      BY <1>3, WholeType
    <2> QED  BY <1>0, <1>3, <2>1
  <1>5. b \in Blocks
    <2>1. pos[p] + 1 \in 1..Len(data[p])
      BY <1>0, <1>3, <1>4
    <2> QED  BY <1>4, <2>1, ElementOfSeq
  <1> HIDE DEF y, b
  <1>6. /\ w \in Seq(Blocks) /\ Len(w) <= Records
        /\ Len(w) = IF Len(content[y]) > pos[p] THEN Len(content[y]) ELSE pos[p] + 1
        /\ \A i \in 1..pos[p] : i <= Len(content[y]) => w[i] = content[y][i]
        /\ w[pos[p] + 1] = b
    BY SMTT(60), <1>0, <1>3, <1>4, <1>5, WrittenIs
  <1> HIDE DEF w
  <1>7. /\ c \in [Inode -> Seq(Blocks)] /\ \A x \in Inode : Len(c[x]) <= Records
        /\ c[y] = w /\ \A x \in Inode : x # y => c[x] = content[x]
    BY <1>0, <1>3, <1>6 DEF TypeOK
  <1> HIDE DEF c
  <1>8. /\ name' \in [Files -> Inode \cup {NoInode}]
        /\ content' \in [Inode -> Seq(Blocks)]
        /\ \A x \in Inode : Len(content'[x]) <= Records
        /\ old' \subseteq Inode /\ suspect' \subseteq Inode /\ shared' \subseteq Inode
        /\ name' = name
    <2>1. old \ {y} \in SUBSET Inode /\ suspect \in SUBSET Inode
      BY <1>0 DEF TypeOK
    <2>2. name \in [Files -> Inode \cup {NoInode}]
      BY <1>0 DEF TypeOK
    <2> QED  BY <1>1, <1>7, <2>1, <2>2, FilesType
  <1>9. \A q \in Process \ {p} : fd[q] = y => lock[q] = "none"
    BY <1>3 DEF IInv, LocksOK, y
  \* The files, but for the one that is written.
  <1>10. ASSUME NEW x \in Inode, x # y, x \notin suspect', call = "directory",
                \A q \in Process \ {p} : Undisturbed(q), fd'[p] # x
         PROVE  FileOK(x)'
    <2>1. CASE content'[x] = c[x] /\ x \notin suspect /\ (x \in shared' <=> x \in shared)
      <3>1. FileOK(x) /\ content'[x] = content[x]
        BY <1>7, <1>10, <2>1 DEF IInv, FilesOK
      <3>2. SameHolders(x)
        BY <1>10 DEF SameHolders, Writes, Reads, Opens, Undisturbed, y
      <3> QED  BY <2>1, <3>1, <3>2, FileKept
    <2>2. CASE content'[x] = <<>> /\ \A q \in Process : fd'[q] # x
      BY <2>2, FileGone
    <2> QED  BY <1>1, <1>10, <2>1, <2>2, FilesStep
  \* The one that is written begins with what has been written.
  <1>11. ASSUME y \notin suspect, call = "directory"
         PROVE  /\ Len(w) \in Nat /\ pos[p] + 1 <= Len(w)
                /\ \A i \in 1..(pos[p] + 1) : w[i] = data[p][i]
                /\ y \notin shared => Len(w) = pos[p] + 1
                /\ y \notin shared => \A q \in Process : ~Opens(q, y)
    <2>1. FileOK(y) /\ Writes(p, y) /\ ~Opens(p, y)
      BY <1>1, <1>3, <1>11 DEF IInv, FilesOK, Writes, Opens, y
    <2>2. WriterOK(p, y)
      BY <2>1 DEF FileOK
    <2>3. /\ pos[p] <= Len(content[y]) /\ Len(content[y]) \in Nat
          /\ \A i \in 1..pos[p] : content[y][i] = data[p][i]
          /\ y \notin shared => Len(content[y]) = pos[p]
      BY <1>0, <1>3, <2>2, LenProperties DEF WriterOK, TypeOK
    <2>4. Len(w) \in Nat /\ pos[p] + 1 <= Len(w) /\ (y \notin shared => Len(w) = pos[p] + 1)
      BY <1>3, <1>6, <2>3
    <2>5. ASSUME NEW i \in 1..(pos[p] + 1) PROVE w[i] = data[p][i]
      <3>1. CASE i = pos[p] + 1
        BY <1>6, <3>1 DEF b
      <3>2. CASE i \in 1..pos[p]
        <4>1. i <= Len(content[y])
          BY <1>3, <2>3, <3>2
        <4> QED  BY <1>6, <2>3, <3>2, <4>1
      <3> QED  BY <1>3, <3>1, <3>2
    <2>6. y \notin shared => \A q \in Process : ~Opens(q, y)
      BY <2>1 DEF FileOK, AloneOK
    <2> QED  BY <2>4, <2>5, <2>6
  \* The last record: the file is whole.
  <1>12. CASE /\ pos[p] + 1 = Len(data[p]) /\ CloseFile(p)
              /\ pc' = [pc EXCEPT ![p] = "done"] /\ data' = [data EXCEPT ![p] = <<>>]
    <2>2. /\ fd' \in [Process -> Inode \cup {NoInode}] /\ fd'[p] = NoInode
          /\ pos' \in [Process -> 0..Records] /\ pos'[p] = 0
          /\ lock' \in [Process -> {"none", "read", "write"}] /\ lock'[p] = "none"
          /\ \A q \in Process \ {p} : fd'[q] = fd[q] /\ pos'[q] = pos[q] /\ lock'[q] = lock[q]
      BY <1>0, <1>12, Closed
    <2>3. /\ data' \in [Process -> Seq(Blocks)] /\ \A q \in Process : Len(data'[q]) <= Records
          /\ data'[p] = <<>>
      BY <1>0, <1>12, NoData
    <2>4. TypeOK'
      BY <1>0, <1>1, <1>8, <1>12, <2>2, <2>3 DEF TypeOK, PCs, Ended
    <2>5. \A q \in Process \ {p} : Undisturbed(q)
      BY <1>0, <1>12, <2>2 DEF TypeOK, Undisturbed
    <2>6. ProcessOK(p)'
      BY <1>0, <1>1, <1>12, <2>2, <2>3 DEF TypeOK, ProcessOK, LevelPCs, HasFile, HasData,
         HasAnswer, Ended, Files
    <2>7. ControlOK'
      BY <1>1, <1>8, <2>5, <2>6, ControlStep DEF IInv, LevelStays
    <2>8. LocksOK'
      BY <2>2, <2>5, LocksStep DEF IInv
    <2>9. FilesOK'
      <3> SUFFICES ASSUME call = "directory", NEW x \in Inode, x \notin suspect'
                   PROVE  FileOK(x)'
        BY <1>1 DEF FilesOK
      <3>1. CASE x # y
        <4>1. fd'[p] # x
          BY <2>2, CacheAssumption
        <4> QED  BY <1>10, <2>5, <3>1, <4>1
      <3>2. CASE x = y /\ content'[x] = c[x] /\ x \notin suspect /\ (x \in shared' <=> x \in shared)
        <4>0. content'[x] = w
          BY <1>7, <3>2
        <4>1. /\ Len(w) \in Nat /\ Len(data[p]) <= Len(w)
              /\ \A i \in 1..Len(data[p]) : w[i] = data[p][i]
              /\ x \notin shared => Len(w) = Len(data[p])
              /\ x \notin shared => \A q \in Process : ~Opens(q, x)
          BY <1>11, <1>12, <3>2
        <4>2. x \notin shared' => Whole(content'[x])
          <5>1. x \notin shared => w = data[p]
            BY <1>4, <1>6, <4>1, SeqEqual
          <5> QED  BY <1>3, <3>2, <4>0, <5>1
        <4>3. BeginsWhole(content'[x])
          <5>1. PICK v \in 1..MaxVersion : data[p] = Answer(v)
            BY <1>3 DEF Whole
          <5> QED  BY <4>0, <4>1, <5>1 DEF BeginsWhole, BeginsWith
        <4>4. \A q \in Process : ~Writes(q, x)' /\ ~Reads(q, x)'
          BY <1>9, <2>2, <2>5, <3>2 DEF Writes, Reads, Undisturbed
        <4>5. \A q \in Process : Opens(q, x)' => Opens(q, x)
          BY <2>2, <2>5, <1>3, CacheAssumption, <3>2 DEF Opens, Undisturbed
        <4>6. AloneOK(x)'
          BY <3>2, <4>1, <4>5 DEF AloneOK
        <4> QED  BY <4>2, <4>3, <4>4, <4>6 DEF FileOK, UnwrittenOK, BeginsWhole, BeginsWith, Whole
      <3>3. CASE content'[x] = <<>> /\ \A q \in Process : fd'[q] # x
        BY <3>3, FileGone
      <3> QED  BY <1>1, <3>1, <3>2, <3>3, FilesStep
    <2> QED  BY <2>4, <2>7, <2>8, <2>9 DEF IInv
  \* There is another one.
  <1>13. CASE /\ pos[p] + 1 # Len(data[p]) /\ pos' = [pos EXCEPT ![p] = @ + 1]
              /\ pc' = pc /\ fd' = fd /\ lock' = lock /\ data' = data
    <2>1. pos[p] + 1 < Len(data[p]) /\ pos[p] + 1 < Records
      BY <1>0, <1>3, <1>4, <1>13
    <2>2. pos' \in [Process -> 0..Records] /\ pos'[p] = pos[p] + 1
      BY <1>0, <1>3, <1>13, <2>1 DEF TypeOK
    <2>3. TypeOK'
      BY <1>0, <1>1, <1>8, <1>13, <2>2 DEF TypeOK
    <2>4. \A q \in Process \ {p} : Undisturbed(q)
      BY <1>0, <1>13 DEF TypeOK, Undisturbed
    <2>5. ProcessOK(p)'
      <3>1. pos'[p] < Len(data'[p])
        BY <1>13, <2>1, <2>2
      <3> QED  BY <1>0, <1>1, <1>3, <1>8, <1>13, <3>1 DEF ProcessOK, LevelPCs, HasFile, HasData,
               HasAnswer, Ended, Files, Whole
    <2>6. ControlOK'
      BY <1>1, <1>8, <2>4, <2>5, ControlStep DEF IInv, LevelStays
    <2>7. LocksOK'
      BY <1>13 DEF IInv, LocksOK
    <2>8. FilesOK'
      <3> SUFFICES ASSUME call = "directory", NEW x \in Inode, x \notin suspect'
                   PROVE  FileOK(x)'
        BY <1>1 DEF FilesOK
      <3>1. CASE x # y
        BY <1>10, <1>13, <2>4, <3>1 DEF y
      <3>2. CASE x = y
        <4>1. fd'[p] = x
          BY <1>13, <3>2 DEF y
        <4>2. content'[x] = w /\ x \notin suspect /\ (x \in shared' <=> x \in shared)
          BY <1>1, <1>7, <3>2, <4>1, FilesStep
        <4>3. /\ pos[p] + 1 <= Len(w)
              /\ \A i \in 1..(pos[p] + 1) : w[i] = data[p][i]
              /\ x \notin shared => Len(w) = pos[p] + 1
              /\ x \notin shared => \A q \in Process : ~Opens(q, x)
          BY <1>11, <3>2, <4>2
        <4>4. WriterOK(p, x)'
          BY <1>13, <2>2, <4>2, <4>3 DEF WriterOK
        <4>5. Writes(p, x)' /\ ~Reads(p, x)'
          BY <1>3, <1>13, <4>1 DEF Writes, Reads
        <4>6. \A q \in Process \ {p} : ~Writes(q, x)' /\ ~Reads(q, x)'
          BY <1>9, <2>4, <3>2 DEF Writes, Reads, Undisturbed
        <4>7. \A q \in Process : Opens(q, x)' => Opens(q, x)
          BY <1>13 DEF Opens
        <4>8. AloneOK(x)'
          BY <4>2, <4>3, <4>7 DEF AloneOK
        <4> QED  BY <4>4, <4>5, <4>6, <4>8 DEF FileOK
      <3> QED  BY <3>1, <3>2
    <2> QED  BY <2>3, <2>6, <2>7, <2>8 DEF IInv
  <1> QED  BY <1>2, <1>12, <1>13

(* Time passes, or what SMAPI answers changes. *)
LEMMA WorldOK ==
  ASSUME IInv, (\E f \in Files : Age(f)) \/ Change \/ UNCHANGED vars
  PROVE  IInv'
  <1>1. /\ name' = name /\ content' = content /\ suspect' = suspect /\ shared' = shared
        /\ call' = call /\ deaths' = deaths
        /\ pc' = pc /\ fd' = fd /\ pos' = pos /\ lock' = lock /\ data' = data
    BY DEF Age, Change, vars, procVars, worldVars, fileVars
  <1>2. old' \subseteq Inode /\ version' \in 1..MaxVersion
    BY CacheAssumption DEF IInv, TypeOK, Age, Change, vars, worldVars, fileVars
  <1>3. TypeOK'
    BY <1>1, <1>2 DEF IInv, TypeOK
  <1>4. ControlOK'
    BY <1>1 DEF IInv, ControlOK, ProcessOK, Whole
  <1>5. LocksOK'
    BY <1>1 DEF IInv, LocksOK
  <1>6. FilesOK'
    <2> SUFFICES ASSUME call = "directory", NEW x \in Inode, x \notin suspect'
                 PROVE  FileOK(x)'
      BY <1>1 DEF FilesOK
    <2>1. FileOK(x)
      BY <1>1 DEF IInv, FilesOK
    <2>2. SameHolders(x)
      BY <1>1 DEF SameHolders, Writes, Reads, Opens
    <2> QED  BY <1>1, <2>1, <2>2, FileKept
  <1> QED  BY <1>3, <1>4, <1>5, <1>6 DEF IInv

-----------------------------------------------------------------------------
(* The theorems *)

LEMMA StepOK ==
  IInv /\ [Next]_vars => IInv'
  <1> SUFFICES ASSUME IInv, [Next]_vars PROVE IInv'
    OBVIOUS
  <1>1. ASSUME NEW p \in Process, Begin(p) \/ Call(p) \/ Die(p) PROVE IInv'
    BY <1>1, LookOK, AskOK, OpenReadOK, RemoveOK, LockReadOK, ReadRecordOK, EndReadOK,
       OpenWriteOK, LevelReadOK, LevelCloseOK, LockWriteOK, StopOK, WriteRecordOK DEF Call
  <1> QED  BY <1>1, WorldOK DEF Next

\* The inductive invariant holds in every state.
THEOREM CacheInvariant == Spec => []IInv
  BY InitOK, StepOK, PTL DEF Spec

(***************************************************************************)
(* Every variable stays in its type, and no file and no result ever has    *)
(* more records than an answer of SMAPI, however the writers of a file     *)
(* that each of them has emptied follow one another.                       *)
(***************************************************************************)
THEOREM CacheTypes == Spec => []TypeOK
  <1>1. IInv => TypeOK
    BY DEF IInv
  <1> QED  BY <1>1, CacheInvariant, PTL

(***************************************************************************)
(* What cacheFileValid, fopen and the fcntl locks of smImage_Query_DM and  *)
(* its siblings are for: a process that has read a file to its end has one *)
(* whole answer of SMAPI, unless that file was emptied under somebody's    *)
(* lock or its writer failed; and has nothing else, unless two processes   *)
(* emptied the file before either had the lock.                            *)
(***************************************************************************)
THEOREM WholeAnswers == Spec => []CachedIsWhole
  <1>1. IInv => CachedIsWhole
    <2> SUFFICES ASSUME IInv, NEW p \in Process, AtEnd(p), data[p] # <<>>, fd[p] \notin suspect
                 PROVE  BeginsWhole(data[p]) /\ (fd[p] \notin shared => Whole(data[p]))
      BY DEF CachedIsWhole, BeginsWhole
    <2> DEFINE x == fd[p]
    <2>1. TypeOK /\ ProcessOK(p) /\ pc[p] = "read"
      BY DEF IInv, ControlOK, AtEnd
    <2>2. /\ x \in Inode /\ lock[p] = "read" /\ Len(data[p]) = pos[p] /\ pos[p] \in Nat
          /\ call = "directory"
      BY <2>1 DEF TypeOK, ProcessOK, HasFile, LevelPCs, Ended, Files
    <2>3. FileOK(x) /\ Reads(p, x)
      BY <2>2 DEF IInv, FilesOK, Reads
    <2>4. ReaderOK(p, x)
      BY <2>3 DEF FileOK
    <2>5. content[x] \in Seq(Blocks) /\ Len(content[x]) \in Nat /\ data[p] \in Seq(Blocks)
      BY <2>1, <2>2, LenProperties DEF TypeOK
    <2>6. pos[p] = Len(content[x])
      BY <2>2, <2>4, <2>5 DEF ReaderOK, AtEnd
    <2>7. data[p] = content[x]
      BY <2>2, <2>4, <2>5, <2>6, SeqEqual DEF ReaderOK
    <2>8. \A q \in Process : ~Writes(q, x)
      BY <2>2 DEF IInv, LocksOK, Writes
    <2>9. UnwrittenOK(x)
      BY <2>3, <2>8 DEF FileOK
    <2> QED  BY <2>7, <2>9 DEF UnwrittenOK
  <1> QED  BY <1>1, CacheInvariant, PTL
==============================================================================
