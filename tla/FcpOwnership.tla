---------------------------- MODULE FcpOwnership ----------------------------
(***************************************************************************)
(* What the FCP table promises about the FCP devices of a host: a device   *)
(* belongs to at most one virtual machine at a time, it changes hands only *)
(* by being given back first, it is given back only when no volume uses it,*)
(* and only its owner adds volumes to it.  FcpVolume implements this.      *)
(***************************************************************************)
EXTENDS Naturals

CONSTANTS Fcp,   \* FCP devices
          Vm,    \* virtual machines
          NoVm   \* no virtual machine

VARIABLES owner, \* owner[f]: the virtual machine that f is reserved for
          uses   \* uses[f]: how many volumes are connected through f

vars == <<owner, uses>>

Init ==
  /\ owner = [f \in Fcp |-> NoVm]
  /\ uses = [f \in Fcp |-> 0]

\* The owner of the devices becomes vm; none of them is another machine's.
Take(fs, vm) ==
  /\ \A f \in fs : owner[f] \in {NoVm, vm}
  /\ owner' = [f \in Fcp |-> IF f \in fs THEN vm ELSE owner[f]]
  /\ UNCHANGED uses

Give(fs) ==
  /\ \A f \in fs : uses[f] = 0
  /\ owner' = [f \in Fcp |-> IF f \in fs THEN NoVm ELSE owner[f]]
  /\ UNCHANGED uses

Use(fs, vm) ==
  /\ \A f \in fs : owner[f] = vm
  /\ uses' = [f \in Fcp |-> IF f \in fs THEN uses[f] + 1 ELSE uses[f]]
  /\ UNCHANGED owner

Unuse(fs) ==
  /\ \A f \in fs : uses[f] > 0
  /\ uses' = [f \in Fcp |-> IF f \in fs THEN uses[f] - 1 ELSE uses[f]]
  /\ UNCHANGED owner

\* The virtual machine is deleted: everything it owned is given back at once.
Forget(vm) ==
  /\ owner' = [f \in Fcp |-> IF owner[f] = vm THEN NoVm ELSE owner[f]]
  /\ uses' = [f \in Fcp |-> IF owner[f] = vm THEN 0 ELSE uses[f]]

Next ==
  \/ \E fs \in SUBSET Fcp :
       Give(fs) \/ Unuse(fs) \/ \E vm \in Vm : Take(fs, vm) \/ Use(fs, vm)
  \/ \E vm \in Vm : Forget(vm)

Spec == Init /\ [][Next]_vars
=============================================================================
