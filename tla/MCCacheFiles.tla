---------------------------- MODULE MCCacheFiles ----------------------------
(***************************************************************************)
(* Two processes, of which one may die within a call.  An inode is used    *)
(* again when no name and no process refers to it, so one more than there  *)
(* are processes is enough.  The second answer is shorter than the first,  *)
(* and either may be written over the other.                               *)
(***************************************************************************)
EXTENDS CacheFiles

MCLength == <<2, 1>>
=============================================================================
