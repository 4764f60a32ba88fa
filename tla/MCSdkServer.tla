----------------------------- MODULE MCSdkServer -----------------------------
(***************************************************************************)
(* Small instances of SdkServer: two workers at a time and one slot in the *)
(* queue, so that the main thread waits for the queue and workers end      *)
(* while it does.  There is one thread more than the limit, which only a   *)
(* wrong count would use.                                                  *)
(***************************************************************************)
EXTENDS SdkServer, TLC

\* Connections are alike, and so are threads.
Alike == Permutations(Conn) \cup Permutations(Worker)
==============================================================================
