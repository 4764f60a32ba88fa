------------------------------ MODULE NamedLock ------------------------------
(***************************************************************************)
(* What the decorator zvmsdk.utils.synchronized promises its callers: for  *)
(* every formatted lock name there is a lock, held by at most one thread,  *)
(* taken before the decorated function runs and given back after it.  How  *)
(* the lock objects are created and dropped is left to Synchronized, which *)
(* implements this module.                                                 *)
(***************************************************************************)

CONSTANTS Thread,   \* the threads of the SDK server
          Name,     \* formatted lock names, e.g. volumeAttachOrDetach-VM1
          NoThread  \* no thread

VARIABLE holder     \* holder[n]: the thread inside the functions guarded by n

Init == holder = [n \in Name |-> NoThread]

Enter(t, n) ==
  /\ holder[n] = NoThread
  /\ holder' = [holder EXCEPT ![n] = t]

Exit(t, n) ==
  /\ holder[n] = t
  /\ holder' = [holder EXCEPT ![n] = NoThread]

Next == \E t \in Thread, n \in Name : Enter(t, n) \/ Exit(t, n)

Spec == Init /\ [][Next]_holder
==============================================================================
