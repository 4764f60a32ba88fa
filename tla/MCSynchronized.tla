---------------------------- MODULE MCSynchronized ----------------------------
(***************************************************************************)
(* Three threads and two lock names; four lock objects are one more than   *)
(* the threads can refer to, so that an unreferenced one always exists.    *)
(***************************************************************************)
EXTENDS Synchronized
===============================================================================
