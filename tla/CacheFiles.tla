------------------------------ MODULE CacheFiles ------------------------------
(***************************************************************************)
(* The two caches that processes of smcli share as files.                  *)
(*                                                                         *)
(* The directory cache: smImage_Name_Query_DM, smProfile_Query_DM and      *)
(* smImage_Query_DM keep the records that SMAPI answered in a file and     *)
(* take them from there while it is not too old.  Readers and writers lock *)
(* the file with fcntl; fopen with "w" empties it before the lock.         *)
(*                                                                         *)
(* The level cache: getSmapiLevel keeps the functional level of SMAPI in a *)
(* file without any lock.  fputs is buffered: the level is written when    *)
(* the file is closed.                                                     *)
(*                                                                         *)
(* A record stands for a block of the file that is read or written with    *)
(* one system call; answers differ in how many they have.  Processes may   *)
(* die between any two of their steps.                                     *)
(***************************************************************************)
EXTENDS Integers, Sequences, FiniteSets

CONSTANTS
  Process,
  Inode, NoInode,
  Records,      \* the most records that an answer of the directory has
  MaxVersion,   \* how often what SMAPI answers changes, with the first
  Length,       \* how many records each of these answers has
  MaxDeaths     \* how many processes may die within a call

(* A file that is opened for the first time finds an inode that nobody uses. *)
ASSUME CacheAssumption ==
  /\ NoInode \notin Inode
  /\ IsFiniteSet(Process) /\ IsFiniteSet(Inode) /\ Cardinality(Process) < Cardinality(Inode)
  /\ Records \in Nat \ {0} /\ MaxVersion \in Nat \ {0} /\ MaxDeaths \in Nat
  /\ Length \in [1..MaxVersion -> 1..Records]

VARIABLES
  name,     \* the inode of "directory" and of "level"
  content,  \* the blocks of each inode
  old,      \* the inodes whose st_mtime is beyond the limit
  suspect,  \* the inodes emptied under another's lock, or left half written
  shared,   \* the inodes emptied while another had opened them to write
  call,     \* the cache that the processes use; the two have nothing in common
  version,  \* what SMAPI answers now
  deaths,
  pc, fd, pos, lock,
  data      \* what a process has read, or got from SMAPI, while it runs

vars == <<name, content, old, suspect, shared, call, version, deaths, pc, fd, pos, lock, data>>
fileVars == <<name, content, old, suspect, shared>>
procVars == <<pc, fd, pos, lock, data>>
worldVars == <<call, version, deaths>>

Files == {"directory", "level"}
Hole == <<0, 0>>   \* bytes of 0 in front of what a writer wrote behind the end
Answer(v) == [i \in 1..Length[v] |-> <<v, i>>]
Blocks == {Hole} \cup ((1..MaxVersion) \X (1..Records))

Ended == {"done", "failed"}
PCs == {"check", "remove", "open read", "lock read", "read", "query", "open write",
        "lock write", "write", "write error", "level check", "level open", "level read",
        "level query", "level write", "level close"} \cup Ended

TypeOK ==
  /\ name \in [Files -> Inode \cup {NoInode}]
  /\ content \in [Inode -> Seq(Blocks)]
  /\ \A x \in Inode : Len(content[x]) <= Records
  /\ old \subseteq Inode /\ suspect \subseteq Inode /\ shared \subseteq Inode
  /\ call \in Files /\ version \in 1..MaxVersion /\ deaths \in 0..MaxDeaths
  /\ pc \in [Process -> PCs]
  /\ fd \in [Process -> Inode \cup {NoInode}]
  /\ pos \in [Process -> 0..Records]
  /\ lock \in [Process -> {"none", "read", "write"}]
  /\ data \in [Process -> Seq(Blocks)] /\ \A p \in Process : Len(data[p]) <= Records

Init ==
  /\ name = [f \in Files |-> NoInode]
  /\ content = [x \in Inode |-> <<>>]
  /\ old = {} /\ suspect = {} /\ shared = {}
  /\ call \in Files /\ version = 1 /\ deaths = 0
  /\ pc = [p \in Process |-> "done"] /\ fd = [p \in Process |-> NoInode]
  /\ pos = [p \in Process |-> 0] /\ lock = [p \in Process |-> "none"]
  /\ data = [p \in Process |-> <<>>]

-----------------------------------------------------------------------------
(* Files, locks and processes. *)

Goto(p, l) == pc' = [pc EXCEPT ![p] = l]
Others(p) == Process \ {p}
Free(x) == (\A f \in Files : name[f] # x) /\ (\A p \in Process : fd[p] # x)
LockedByOther(p, x, modes) == \E q \in Others(p) : fd[q] = x /\ lock[q] \in modes
HasOpened(q, x) == fd[q] = x /\ pc[q] \in {"lock write", "write"}
OpenedByOther(p, x) == \E q \in Others(p) : HasOpened(q, x)

(* The files after a step: what has neither a name nor a process that has   *)
(* it open is gone.                                                         *)
FilesAre(names, contents, olds, suspects) ==
  LET live == {x \in Inode : (\E f \in Files : names[f] = x) \/ (\E p \in Process : fd'[p] = x)}
  IN /\ name' = names
     /\ content' = [x \in Inode |-> IF x \in live THEN contents[x] ELSE <<>>]
     /\ old' = olds \cap live /\ suspect' = suspects \cap live
     /\ shared' = shared \cap live
SameFiles == FilesAre(name, content, old, suspect)
Removed == [name EXCEPT !["directory"] = NoInode]

(* The process ends, and its result is gone with it. *)
Ends(p, how) == Goto(p, how) /\ data' = [data EXCEPT ![p] = <<>>]

(* fclose: the locks of the process on the file are gone as well. *)
CloseFile(p) ==
  /\ fd' = [fd EXCEPT ![p] = NoInode]
  /\ pos' = [pos EXCEPT ![p] = 0]
  /\ lock' = [lock EXCEPT ![p] = "none"]

(* fopen with "r". *)
OpenForRead(p, f) ==
  /\ fd' = [fd EXCEPT ![p] = name[f]]
  /\ UNCHANGED <<pos, lock>>

(* fopen with "w": the file is created, or emptied whoever has it locked. *)
OpenForWrite(p, f) ==
  LET x == IF name[f] = NoInode THEN CHOOSE i \in Inode : Free(i) ELSE name[f] IN
    /\ name' = [name EXCEPT ![f] = x]
    /\ content' = [content EXCEPT ![x] = <<>>]
    /\ old' = old \ {x}
    /\ suspect' = IF LockedByOther(p, x, {"read", "write"}) THEN suspect \cup {x}
                  ELSE suspect \ {x}
    /\ shared' = IF OpenedByOther(p, x) THEN shared \cup {x} ELSE shared \ {x}
    /\ fd' = [fd EXCEPT ![p] = x] /\ UNCHANGED <<pos, lock>>

\* Mutant: every write goes to the end of the file.
Appended(x, at, block) == Append(content[x], block)

(* A write at the position of the process, over what another has written   *)
(* since both have emptied the file, or behind a gap if another process    *)
(* has emptied it after the lock.  Nothing cuts off what is behind it.     *)
Written(x, at, block) ==
  [i \in 1..(IF Len(content[x]) > at THEN Len(content[x]) ELSE at + 1) |->
     IF i = at + 1 THEN block ELSE IF i <= Len(content[x]) THEN content[x][i] ELSE Hole]

-----------------------------------------------------------------------------
(* The directory cache. *)

(* A process starts, in the place of one that has ended. *)
Begin(p) ==
  /\ pc[p] \in Ended
  /\ Goto(p, IF call = "directory" THEN "check" ELSE "level check")
  /\ UNCHANGED <<fileVars, worldVars, fd, pos, lock, data>>

(* cacheFileValid *)
Check(p) ==
  /\ pc[p] = "check"
  /\ LET x == name["directory"] IN
     Goto(p, IF x # NoInode /\ x \notin old THEN "open read" ELSE "remove")
  /\ UNCHANGED <<fileVars, worldVars, fd, pos, lock, data>>

(* The file is removed, also if another process has renewed it since; or   *)
(* it cannot be removed.                                                    *)
Remove(p) ==
  /\ pc[p] = "remove"
  /\ UNCHANGED <<worldVars, fd, pos, lock, data>>
  /\ \/ Goto(p, "query") /\ FilesAre(Removed, content, old, suspect)
     \/ Goto(p, "failed") /\ UNCHANGED fileVars

OpenRead(p) ==
  /\ pc[p] = "open read"
  /\ OpenForRead(p, "directory")
  /\ Goto(p, IF name["directory"] = NoInode THEN "query" ELSE "lock read")
  /\ UNCHANGED <<fileVars, worldVars, data>>

\* Mutant: the file is read whether or not the lock is granted.
AlwaysGranted(p) == TRUE

(* F_RDLCK with F_SETLK: it does not wait. *)
ReadLockGranted(p) == ~LockedByOther(p, fd[p], {"write"})

LockRead(p) ==
  /\ pc[p] = "lock read"
  /\ \/ /\ ReadLockGranted(p)
        /\ lock' = [lock EXCEPT ![p] = "read"] /\ Goto(p, "read")
        /\ UNCHANGED <<fd, pos>>
     \/ /\ ~ReadLockGranted(p)
        /\ CloseFile(p) /\ Goto(p, "query")
  /\ SameFiles
  /\ UNCHANGED <<worldVars, data>>

AtEnd(p) == pc[p] = "read" /\ pos[p] >= Len(content[fd[p]])

ReadRecord(p) ==
  /\ pc[p] = "read" /\ ~AtEnd(p)
  /\ data' = [data EXCEPT ![p] = Append(@, content[fd[p]][pos[p] + 1])]
  /\ pos' = [pos EXCEPT ![p] = @ + 1]
  /\ UNCHANGED <<fileVars, worldVars, pc, fd, lock>>

\* Mutant: an empty file is looked at again.
LooksAgain(p) == IF data[p] # <<>> THEN "done" ELSE "check"

(* Records that were read are the result; for an empty file SMAPI is asked. *)
AfterRead(p) == IF data[p] # <<>> THEN "done" ELSE "query"

(* The end of the file. *)
EndRead(p) ==
  /\ AtEnd(p)
  /\ CloseFile(p)
  /\ Ends(p, AfterRead(p))
  /\ SameFiles
  /\ UNCHANGED worldVars

(* SMAPI answers, or the request fails. *)
Query(p) ==
  /\ pc[p] = "query"
  /\ \/ data' = [data EXCEPT ![p] = Answer(version)] /\ Goto(p, "open write")
     \/ UNCHANGED data /\ Goto(p, "failed")
  /\ UNCHANGED <<fileVars, worldVars, fd, pos, lock>>

OpenWrite(p) ==
  /\ pc[p] = "open write"
  /\ \/ OpenForWrite(p, "directory") /\ Goto(p, "lock write") /\ UNCHANGED data
     \/ Ends(p, "failed") /\ UNCHANGED <<fileVars, fd, pos, lock>>
  /\ UNCHANGED worldVars

(* F_WRLCK with F_SETLK *)
WriteLockGranted(p) == ~LockedByOther(p, fd[p], {"read", "write"})

LockWrite(p) ==
  /\ pc[p] = "lock write"
  /\ \/ /\ WriteLockGranted(p)
        /\ lock' = [lock EXCEPT ![p] = "write"] /\ Goto(p, "write")
        /\ UNCHANGED <<fd, pos, data>>
     \/ /\ ~WriteLockGranted(p)
        /\ CloseFile(p) /\ Ends(p, "done")
  /\ SameFiles
  /\ UNCHANGED worldVars

(* fprintf and fflush of one record.  After the last one the file is closed. *)
WriteRecord(p) ==
  /\ pc[p] = "write"
  /\ IF pos[p] + 1 = Len(data[p])
     THEN CloseFile(p) /\ Ends(p, "done")
     ELSE pos' = [pos EXCEPT ![p] = @ + 1] /\ UNCHANGED <<pc, fd, lock, data>>
  /\ LET x == fd[p] IN
     FilesAre(name, [content EXCEPT ![x] = Written(x, pos[p], data[p][pos[p] + 1])],
              old \ {x}, suspect)
  /\ UNCHANGED worldVars

(* It fails: the file is closed, and then removed by its name. *)
WriteFails(p) ==
  /\ pc[p] = "write"
  /\ CloseFile(p) /\ Ends(p, "write error")
  /\ FilesAre(name, content, old, suspect \cup {fd[p]})
  /\ UNCHANGED worldVars

RemoveAfterError(p) ==
  /\ pc[p] = "write error"
  /\ Goto(p, "failed")
  /\ UNCHANGED <<worldVars, fd, pos, lock, data>>
  /\ FilesAre(Removed, content, old, suspect) \/ UNCHANGED fileVars

-----------------------------------------------------------------------------
(* getSmapiLevel *)

\* Mutant: the age of the file is not looked at.
OnceWritten == name["level"] # NoInode

LevelFileUsed == name["level"] # NoInode /\ name["level"] \notin old

LevelCheck(p) ==
  /\ pc[p] = "level check"
  /\ Goto(p, IF LevelFileUsed THEN "level open" ELSE "level query")
  /\ UNCHANGED <<fileVars, worldVars, fd, pos, lock, data>>

LevelOpen(p) ==
  /\ pc[p] = "level open"
  /\ OpenForRead(p, "level") /\ Goto(p, "level read")
  /\ UNCHANGED <<fileVars, worldVars, data>>

(* fgets of nothing is an error. *)
LevelRead(p) ==
  /\ pc[p] = "level read"
  /\ CloseFile(p)
  /\ Goto(p, IF content[fd[p]] = <<>> THEN "failed" ELSE "done")
  /\ UNCHANGED <<fileVars, worldVars, data>>

LevelQuery(p) ==
  /\ pc[p] = "level query"
  /\ \/ data' = [data EXCEPT ![p] = <<Answer(version)[1]>>] /\ Goto(p, "level write")
     \/ UNCHANGED data /\ Goto(p, "failed")
  /\ UNCHANGED <<fileVars, worldVars, fd, pos, lock>>

LevelWrite(p) ==
  /\ pc[p] = "level write"
  /\ \/ OpenForWrite(p, "level") /\ Goto(p, "level close") /\ UNCHANGED data
     \/ Ends(p, "failed") /\ UNCHANGED <<fileVars, fd, pos, lock>>
  /\ UNCHANGED worldVars

(* fclose may fail to write the level; its result is not looked at. *)
LevelClose(p) ==
  /\ pc[p] = "level close"
  /\ \/ content' = [content EXCEPT ![fd[p]] = data[p]] /\ old' = old \ {fd[p]}
     \/ UNCHANGED <<content, old>>
  /\ CloseFile(p) /\ Ends(p, "done")
  /\ UNCHANGED <<name, suspect, shared, worldVars>>

-----------------------------------------------------------------------------
Call(p) ==
  \/ Check(p) \/ Remove(p) \/ OpenRead(p) \/ LockRead(p) \/ ReadRecord(p) \/ EndRead(p)
  \/ Query(p) \/ OpenWrite(p) \/ LockWrite(p) \/ WriteRecord(p) \/ WriteFails(p)
  \/ RemoveAfterError(p)
  \/ LevelCheck(p) \/ LevelOpen(p) \/ LevelRead(p) \/ LevelQuery(p) \/ LevelWrite(p)
  \/ LevelClose(p)

(* A process is killed; its files are closed.  What stdio had buffered is   *)
(* lost, and so is the rest of what it was writing.                         *)
Die(p) ==
  /\ pc[p] \notin Ended /\ deaths < MaxDeaths
  /\ deaths' = deaths + 1
  /\ CloseFile(p) /\ Ends(p, "failed")
  /\ FilesAre(name, content, old, IF lock[p] = "write" THEN suspect \cup {fd[p]} ELSE suspect)
  /\ UNCHANGED <<call, version>>

(* Time passes: a file is older than its limit. *)
Age(f) ==
  /\ name[f] # NoInode
  /\ old' = old \cup {name[f]}
  /\ UNCHANGED <<name, content, suspect, shared, worldVars, procVars>>

(* The directory, or the level, changes. *)
Change ==
  /\ version < MaxVersion /\ version' = version + 1
  /\ UNCHANGED <<fileVars, call, deaths, procVars>>

Next ==
  \/ \E p \in Process : Begin(p) \/ Call(p) \/ Die(p)
  \/ \E f \in Files : Age(f)
  \/ Change

Spec == Init /\ [][Next]_vars

(* A process that runs goes on: no lock is waited for. *)
Running == \A p \in Process : WF_vars(Call(p))

(* Time passes, processes are called again and again, SMAPI answers some of *)
(* those that ask for its level, and the file system takes some of the      *)
(* writes.                                                                  *)
LevelWanted ==
  /\ WF_vars(Age("level"))
  /\ SF_vars(\E p \in Process : Begin(p))
  /\ SF_vars(\E p \in Process : LevelQuery(p) /\ pc'[p] = "level write")
  /\ SF_vars(\E p \in Process : LevelWrite(p) /\ pc'[p] = "level close")
  /\ SF_vars(\E p \in Process : LevelClose(p) /\ content'[fd[p]] # <<>>)

FairSpec == Spec /\ Running /\ LevelWanted

-----------------------------------------------------------------------------
Whole(records) == \E v \in 1..MaxVersion : records = Answer(v)

BeginsWith(records, answer) ==
  /\ Len(answer) <= Len(records)
  /\ \A i \in 1..Len(answer) : records[i] = answer[i]

(***************************************************************************)
(* What a process takes from the directory cache is one whole answer of    *)
(* SMAPI, although others open, empty, lock, write and remove the file     *)
(* between any two of its steps.  The exceptions are the files that were   *)
(* emptied under somebody's lock or left half written.  In a file that two *)
(* processes emptied before either had the lock, the answer may end in     *)
(* what is left of a longer one that was written first.                    *)
(***************************************************************************)
CachedIsWhole ==
  \A p \in Process :
    AtEnd(p) /\ data[p] # <<>> /\ fd[p] \notin suspect =>
      /\ \E v \in 1..MaxVersion : BeginsWith(data[p], Answer(v))
      /\ fd[p] \notin shared => Whole(data[p])

(* What the comment says of the read lock, "so no one else is writing into  *)
(* it": a file stays as it is while a process holds that lock on it.        *)
ReadLockProtects ==
  [][\A p \in Process :
       lock[p] = "read" /\ lock'[p] = "read" => content'[fd[p]] = content[fd[p]]]_vars

(* Every call ends, with records or with an error: the locks are asked for  *)
(* and not waited for.                                                      *)
CallsEnd ==
  \A p \in Process : pc[p] \in {"check", "level check"} ~> pc[p] \in Ended

(* A process that dies between the opening and the closing of the level     *)
(* file leaves it empty, and every call fails; that does not last longer    *)
(* than the file is taken for valid.  The same is true of a failed fclose.  *)
LevelHeals == call = "level" => []<>(name["level"] # NoInode /\ content[name["level"]] # <<>>)
=============================================================================
