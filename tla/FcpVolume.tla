------------------------------ MODULE FcpVolume ------------------------------
(***************************************************************************)
(* Attaching and detaching FCP volumes: FCPVolumeManager on the SDK side,  *)
(* the FCP table, the FCP devices in z/VM and in the guests.               *)
(*                                                                         *)
(* A session is a thread of the SDK server that serves the volume requests *)
(* for one virtual machine; two sessions may serve the same one.  Each     *)
(* action is one database transaction, one request to z/VM or one script   *)
(* run in the guest, so that sessions interleave between them.  Requests   *)
(* and scripts fail at will; a failed one may have had its effect.         *)
(***************************************************************************)
EXTENDS FcpTable

CONSTANTS Session,    \* threads that serve volume requests
          NoSession,  \* nobody: the holder of a free lock
          VmOf,       \* session -> virtual machine its requests are for
          Volume,     \* volumes of the storage provider
          NoVolume,
          Env,        \* what the environment may do, a subset of EnvKinds
          MaxConnections  \* bound: no attach beyond this many connections

(***************************************************************************)
(* "stale connector"  attach with a connector that has been used before    *)
(* "detach twice"     detach a volume that is detached already             *)
(* "detach deleted"   detach volumes of a guest after it has been deleted  *)
(* "delete"           delete a guest while no request for it is running    *)
(* "delete busy"      delete it, as well, while one is running             *)
(* "create"           define the userid of a deleted guest again           *)
(* "root"             volumes that guests boot from                        *)
(* "update only"      detach with update_connections_only                  *)
(* "no rollback"      requests with do_rollback=False                      *)
(* "guest off"        guests are down: scripts stay in their readers       *)
(* "database error"   the transactions of _do_attach fail                  *)
(* "rollback fails"   steps of a rollback fail                             *)
(* "rollback database error"  its transactions that read or count fail     *)
(* "crash"            the SDK server stops and starts again                *)
(***************************************************************************)
EnvKinds == {"stale connector", "detach twice", "detach deleted", "delete",
             "delete busy", "create", "root", "update only", "no rollback",
             "guest off", "database error", "rollback fails",
             "rollback database error", "crash"}

ASSUME SessionAssumption ==
  /\ NoSession \notin Session
  /\ VmOf \in [Session -> Vm]
  /\ NoVolume \notin Volume
  /\ Env \subseteq EnvKinds
  /\ MaxConnections \in Nat

VARIABLES fcp,        \* the fcp table
          db_lock,    \* holder of _DBLOCK_FCP across a call to z/VM
          vm_lock,    \* Vm -> holder of volumeAttachOrDetach-<userid>
          ses,        \* session -> where it is, and its local variables
          held,       \* session -> connector its client got last
          dedicated,  \* FCP device -> virtual machine that has it in z/VM
          online,     \* Vm -> FCP devices online in its operating system
          exists,     \* Vm -> the userid is defined in z/VM
          deleting,   \* Vm -> its userid is deleted, its FCP rows not yet
          volume      \* volume -> what its client knows about it

sdk == <<fcp, db_lock, vm_lock, ses>>
zvm == <<dedicated, online, exists, deleting>>
client == <<held, volume>>
vars == <<sdk, zvm, client>>

\* The local variables of get_volume_connector, _do_attach and _do_detach.
Locals ==
  [pc    : {"idle", "query", "allocate", "release",
            "reserve", "increase", "dedicate", "add_disks",
            "rb_added", "rb_conns", "rb_undedicate", "rb_decrease",
            "rb_usage", "rb_unreserve",
            "decrease", "exist", "remove_disks", "undedicate",
            "rb_dedicate", "rb_removed", "rb_increase"},
   vol   : Volume \cup {NoVolume},   \* target_lun
   tmpl  : Template \cup {NoTmpl},   \* fcp_template_id
   fcps  : SUBSET Fcp,               \* fcp_list
   todo  : SUBSET Fcp,               \* devices a loop has not reached yet
   conns : [Fcp -> Nat],             \* fcp_connections
   free  : SUBSET Fcp,               \* fcp_dict_in_zvm: the free ones
   next  : {"allocate", "release"},  \* what the z/VM query is for
   root  : BOOLEAN,                  \* is_root_volume
   only  : BOOLEAN,                  \* update_connections_only
   rb    : BOOLEAN]                  \* do_rollback

NoConns == [f \in Fcp |-> 0]

Idle == [pc |-> "idle", vol |-> NoVolume, tmpl |-> NoTmpl, fcps |-> {},
         todo |-> {}, conns |-> NoConns, free |-> {}, next |-> "allocate",
         root |-> FALSE, only |-> FALSE, rb |-> TRUE]

NoConnector == [tmpl |-> NoTmpl, fcps |-> {}]

Unused == [vm |-> NoVm, tmpl |-> NoTmpl, fcps |-> {}, root |-> FALSE,
           attached |-> FALSE]

TypeOK ==
  /\ fcp \in [Fcp -> Row]
  /\ db_lock \in Session \cup {NoSession}
  /\ vm_lock \in [Vm -> Session \cup {NoSession}]
  /\ ses \in [Session -> Locals]
  /\ held \in [Session -> [tmpl : Template \cup {NoTmpl}, fcps : SUBSET Fcp]]
  /\ dedicated \in [Fcp -> Vm \cup {NoVm}]
  /\ online \in [Vm -> SUBSET Fcp]
  /\ exists \in [Vm -> BOOLEAN]
  /\ deleting \in [Vm -> BOOLEAN]
  /\ volume \in [Volume -> [vm : Vm \cup {NoVm},
                            tmpl : Template \cup {NoTmpl},
                            fcps : SUBSET Fcp, root : BOOLEAN,
                            attached : BOOLEAN]]

Init ==
  /\ fcp = [f \in Fcp |-> NewRow]
  /\ db_lock = NoSession
  /\ vm_lock = [vm \in Vm |-> NoSession]
  /\ ses = [s \in Session |-> Idle]
  /\ held = [s \in Session |-> NoConnector]
  /\ dedicated = [f \in Fcp |-> NoVm]
  /\ online = [vm \in Vm |-> {}]
  /\ exists = [vm \in Vm |-> TRUE]
  /\ deleting = [vm \in Vm |-> FALSE]
  /\ volume = [v \in Volume |-> Unused]

-----------------------------------------------------------------------------
\* Mutant: the functions are not synchronized.
CanEnterUnlocked(s) ==
  /\ ses[s].pc = "idle"
  /\ deleting[VmOf[s]] => "delete busy" \in Env

\* utils.synchronized gives the lock of the virtual machine to one thread.
CanEnter(s) ==
  /\ ses[s].pc = "idle"
  /\ vm_lock[VmOf[s]] = NoSession
  /\ deleting[VmOf[s]] => "delete busy" \in Env

\* A request starts with these local variables.
Enter(s, locals) ==
  /\ CanEnter(s)
  /\ vm_lock' = [vm_lock EXCEPT ![VmOf[s]] = s]
  /\ ses' = [ses EXCEPT ![s] = locals]

\* A request returns or raises.
Leave(s) ==
  /\ vm_lock' = [vm_lock EXCEPT ![VmOf[s]] = NoSession]
  /\ ses' = [ses EXCEPT ![s] = Idle]

Goto(s, pc) ==
  /\ ses' = [ses EXCEPT ![s].pc = pc]
  /\ UNCHANGED vm_lock

\* A loop over the devices of a set: to pc, or to after if the set is empty.
Loop(s, pc, todo, after, todo_after) ==
  /\ ses' = [ses EXCEPT
       ![s].pc = IF todo # {} THEN pc ELSE after,
       ![s].todo = IF todo # {} THEN todo ELSE todo_after]
  /\ UNCHANGED vm_lock

\* A transaction waits for the one that is open across a query of z/VM.
Transaction(table) == db_lock = NoSession /\ fcp' = table /\ UNCHANGED db_lock

\* dedicate_device: fails if somebody has the device already.
Dedicable(f, vm) == exists[vm] /\ dedicated[f] = NoVm

\* undedicate_device: z/VM takes the device from the guest.
undedicate_device(f, vm) ==
  IF dedicated[f] = vm
  THEN /\ dedicated' = [dedicated EXCEPT ![f] = NoVm]
       /\ online' = [online EXCEPT ![vm] = @ \ {f}]
  ELSE UNCHANGED <<dedicated, online>>

\* The devices of fcp_list that the scripts find in the guest.
Present(s) == {f \in ses[s].fcps : dedicated[f] = VmOf[s]}

\* The devices of the request that have no connection left, as it knows.
Zero(s) == {f \in ses[s].fcps : ses[s].conns[f] = 0}

\* IUCV is not ready because the guest is down: the script is not run, and the
\* request goes on as if it had been.
SkipScript == "guest off" \in Env /\ UNCHANGED online

-----------------------------------------------------------------------------
(* get_volume_connector *)

\* reserve=True, and the virtual machine has devices of the template.
ReuseFcps(s, t) ==
  LET fs == get_allocated_fcps_from_assigner(fcp, VmOf[s], t) IN
  /\ CanEnter(s)
  /\ db_lock = NoSession
  /\ fs # {}
  /\ held' = [held EXCEPT ![s] = [tmpl |-> t, fcps |-> fs]]
  /\ UNCHANGED <<sdk, zvm, volume>>

\* reserve=True, and it has none: query z/VM with the transaction open.
BeginAllocate(s, t) ==
  /\ db_lock = NoSession
  /\ get_allocated_fcps_from_assigner(fcp, VmOf[s], t) = {}
  /\ Enter(s, [Idle EXCEPT !.pc = "query", !.next = "allocate", !.tmpl = t])
  /\ db_lock' = s
  /\ UNCHANGED <<fcp, zvm, client>>

\* reserve=False, and some device is to be unreserved.  The client gives its
\* connector up.
BeginRelease(s, t) ==
  /\ db_lock = NoSession
  /\ \E f \in get_reserved_fcps_from_assigner(fcp, VmOf[s], t) :
       fcp[f].connections = 0
  /\ Enter(s, [Idle EXCEPT !.pc = "query", !.next = "release", !.tmpl = t])
  /\ db_lock' = s
  /\ held' = [held EXCEPT ![s] = NoConnector]
  /\ UNCHANGED <<fcp, zvm, volume>>

\* Mutant: devices are chosen without asking z/VM who has them.
QueryZvmSkipped(s) ==
  /\ ses[s].pc = "query"
  /\ ses' = [ses EXCEPT ![s].pc = ses[s].next, ![s].free = Fcp]
  /\ UNCHANGED <<fcp, db_lock, vm_lock, zvm, client>>

\* get_fcp_dict_in_zvm; what z/VM answers may be outdated when it is used.
QueryZvm(s) ==
  /\ ses[s].pc = "query"
  /\ ses' = [ses EXCEPT ![s].pc = ses[s].next,
                        ![s].free = {f \in Fcp : dedicated[f] = NoVm}]
  /\ UNCHANGED <<fcp, db_lock, vm_lock, zvm, client>>

\* The rest of allocate_fcp_devices, and COMMIT.  There may be no choice, for
\* lack of free devices or of capacity in the channels that the caller gave.
Allocate(s) ==
  /\ ses[s].pc = "allocate"
  /\ \/ /\ held' = [held EXCEPT ![s] = NoConnector]
        /\ UNCHANGED fcp
     \/ \E fs \in get_fcp_devices(fcp, ses[s].free, ses[s].tmpl) :
          /\ fcp' = reserve_fcps(fcp, fs, VmOf[s], ses[s].tmpl)
          /\ held' = [held EXCEPT ![s] = [tmpl |-> ses[s].tmpl, fcps |-> fs]]
  /\ db_lock' = NoSession
  /\ Leave(s)
  /\ UNCHANGED <<zvm, volume>>

\* release_fcp_devices, and COMMIT; a failure to query z/VM is ignored.
Release(s) ==
  LET fs == {f \in get_reserved_fcps_from_assigner(fcp, VmOf[s], ses[s].tmpl) :
               fcp[f].connections = 0}
  IN
  /\ ses[s].pc = "release"
  /\ fcp' = unreserve_fcps(fcp, fs)
  /\ db_lock' = NoSession
  /\ Leave(s)
  /\ UNCHANGED <<zvm, client>>

\* Mutant: an error leaves the lock of the database behind.
FailConnectorKeepsLock(s) ==
  /\ ses[s].pc \in {"allocate", "release"}
  /\ Leave(s)
  /\ UNCHANGED <<fcp, db_lock, zvm, client>>

\* An error in the transaction: ROLLBACK, and the request fails.
FailConnector(s) ==
  /\ ses[s].pc \in {"allocate", "release"}
  /\ db_lock' = NoSession
  /\ Leave(s)
  /\ UNCHANGED <<fcp, zvm, client>>

-----------------------------------------------------------------------------
(* attach *)

\* attach with the devices of the connector.  A volume that guests boot from
\* has its devices dedicated by volume_refresh_bootmap before.
CallAttach(s, v, root, rb) ==
  LET vm == VmOf[s]
      fs == held[s].fcps
  IN
  /\ fs # {}
  /\ ~volume[v].attached
  /\ \A r \in Session : ses[r].vol # v
  /\ \A f \in fs : fcp[f].connections < MaxConnections
  /\ exists[vm] \/ root
  /\ Enter(s, [Idle EXCEPT !.pc = "reserve", !.vol = v, !.fcps = fs,
                           !.tmpl = held[s].tmpl, !.root = root, !.rb = rb])
  /\ dedicated' = IF root
                  THEN [f \in Fcp |-> IF f \in fs /\ dedicated[f] = NoVm
                                      THEN vm ELSE dedicated[f]]
                  ELSE dedicated
  /\ held' = IF "stale connector" \in Env
             THEN held ELSE [held EXCEPT ![s] = NoConnector]
  /\ UNCHANGED <<fcp, db_lock, online, exists, deleting, volume>>

\* The request succeeds, as far as its client can tell.
Attached(s) ==
  /\ Leave(s)
  /\ volume' = [volume EXCEPT ![ses[s].vol] =
       [vm |-> VmOf[s], tmpl |-> ses[s].tmpl, fcps |-> ses[s].fcps,
        root |-> ses[s].root, attached |-> TRUE]]

\* Mutant: the reservation of the connector is taken for granted.
ReserveSkipped(s) ==
  /\ ses[s].pc = "reserve"
  /\ Transaction(fcp)
  /\ Goto(s, "increase")
  /\ UNCHANGED <<zvm, client>>

\* reserve_fcp_devices: the reservation of the connector may be gone.
Reserve(s) ==
  /\ ses[s].pc = "reserve"
  /\ Transaction(reserve_fcps(fcp, ses[s].fcps, VmOf[s], ses[s].tmpl))
  /\ Goto(s, "increase")
  /\ UNCHANGED <<zvm, client>>

\* increase_fcp_connections; the devices at 1 are to be dedicated.
Increase(s) ==
  LET table == increase_connections(fcp, ses[s].fcps)
      first == {f \in ses[s].fcps : table[f].connections = 1}
  IN
  /\ ses[s].pc = "increase"
  /\ CanIncrease(fcp, ses[s].fcps, VmOf[s])
  /\ Transaction(table)
  /\ IF ses[s].root
     THEN Attached(s)
     ELSE Loop(s, "dedicate", first, "add_disks", {}) /\ UNCHANGED volume
  /\ UNCHANGED <<zvm, held>>

\* Mutant: the rollback decreases connections that were not increased.
FailInDatabaseDecreases(s) ==
  /\ ses[s].pc \in {"reserve", "increase"}
  /\ "database error" \in Env
  /\ db_lock = NoSession
  /\ ses' = [ses EXCEPT ![s].pc = "rb_decrease", ![s].todo = ses[s].fcps]
  /\ UNCHANGED <<fcp, db_lock, vm_lock, zvm, client>>

\* Mutant: the transactions are repeated until they succeed.
FailInDatabaseRetries(s) ==
  /\ ses[s].pc = "increase"
  /\ "database error" \in Env
  /\ db_lock = NoSession
  /\ Goto(s, "reserve")
  /\ UNCHANGED <<fcp, db_lock, zvm, client>>

\* One of the two transactions raises.  Without rollback the error is
\* swallowed, the loop over fcp_connections raises because the variable is
\* not bound, and that is swallowed as well.
FailInDatabase(s) ==
  /\ \/ ses[s].pc \in {"reserve", "increase"} /\ "database error" \in Env
     \/ /\ ses[s].pc = "increase"
        /\ ~CanIncrease(fcp, ses[s].fcps, VmOf[s])
  /\ db_lock = NoSession
  /\ \/ /\ ses[s].rb
        /\ ses' = [ses EXCEPT ![s].pc = "rb_usage", ![s].todo = ses[s].fcps]
        /\ UNCHANGED <<vm_lock, volume>>
     \/ ~ses[s].rb /\ ses[s].root /\ Attached(s)
     \/ ~ses[s].rb /\ ~ses[s].root /\ Goto(s, "add_disks") /\ UNCHANGED volume
  /\ UNCHANGED <<fcp, db_lock, zvm, held>>

\* One round of the dedicate loop.
Dedicate(s) ==
  /\ ses[s].pc = "dedicate"
  /\ \E f \in ses[s].todo :
       /\ Dedicable(f, VmOf[s])
       /\ dedicated' = [dedicated EXCEPT ![f] = VmOf[s]]
       /\ Loop(s, "dedicate", ses[s].todo \ {f}, "add_disks", {})
  /\ UNCHANGED <<fcp, db_lock, online, exists, deleting, client>>

\* It fails, perhaps after z/VM has done it, and the loop ends.
FailDedicate(s) ==
  /\ ses[s].pc = "dedicate"
  /\ \E f \in ses[s].todo :
       \/ UNCHANGED dedicated
       \/ /\ Dedicable(f, VmOf[s])
          /\ dedicated' = [dedicated EXCEPT ![f] = VmOf[s]]
  /\ \/ /\ ses[s].rb
        /\ ses' = [ses EXCEPT ![s].pc = "rb_conns", ![s].todo = ses[s].fcps]
        /\ UNCHANGED vm_lock
     \/ ~ses[s].rb /\ Goto(s, "add_disks")
  /\ UNCHANGED <<fcp, db_lock, online, exists, deleting, client>>

\* _add_disks: the script puts the devices and the volume online.
AddDisks(s) ==
  /\ ses[s].pc = "add_disks"
  /\ \/ /\ Present(s) # {}
        /\ online' = [online EXCEPT ![VmOf[s]] = @ \cup Present(s)]
     \/ SkipScript
  /\ Attached(s)
  /\ UNCHANGED <<fcp, db_lock, held, dedicated, exists, deleting>>

\* It fails, after some of the devices are online.
FailAddDisks(s) ==
  /\ ses[s].pc = "add_disks"
  /\ \E fs \in SUBSET Present(s) :
       online' = [online EXCEPT ![VmOf[s]] = @ \cup fs]
  /\ \/ /\ ses[s].rb
        /\ ses' = [ses EXCEPT ![s].pc = "rb_added", ![s].todo = ses[s].fcps]
        /\ UNCHANGED <<vm_lock, volume>>
     \/ ~ses[s].rb /\ Attached(s)
  /\ UNCHANGED <<fcp, db_lock, held, dedicated, exists, deleting>>

-----------------------------------------------------------------------------
(* The rollback of attach *)

\* Three of its functions start by reading the connections of the devices,
\* a transaction for each: todo are those that are not read yet.
RbRead(s) ==
  /\ ses[s].pc \in {"rb_added", "rb_conns", "rb_usage"}
  /\ db_lock = NoSession
  /\ \E f \in ses[s].todo :
       ses' = [ses EXCEPT ![s].todo = @ \ {f},
                          ![s].conns = [@ EXCEPT ![f] = fcp[f].connections]]
  /\ UNCHANGED <<fcp, db_lock, vm_lock, zvm, client>>

\* What was read is a local variable of one function.
NextFunction(s, pc, todo) ==
  /\ ses' = [ses EXCEPT ![s].pc = pc, ![s].todo = todo, ![s].conns = NoConns]
  /\ UNCHANGED vm_lock

\* _rollback_added_disks: the devices go offline if their connections are 0.
RbAddedDisks(s) ==
  /\ ses[s].pc = "rb_added"
  /\ ses[s].todo = {}
  /\ \/ online' = IF Zero(s) = ses[s].fcps
                  THEN [online EXCEPT ![VmOf[s]] = @ \ ses[s].fcps]
                  ELSE online
     \/ SkipScript
     \/ "rollback fails" \in Env /\ UNCHANGED online
  /\ NextFunction(s, "rb_conns", ses[s].fcps)
  /\ UNCHANGED <<fcp, db_lock, dedicated, exists, deleting, client>>

\* Mutant: every device is undedicated, whatever its connections.
RbConnectionsAll(s) ==
  /\ ses[s].pc = "rb_conns"
  /\ ses[s].todo = {}
  /\ NextFunction(s, "rb_undedicate", ses[s].fcps)
  /\ UNCHANGED <<fcp, db_lock, zvm, client>>

\* _rollback_dedicated_fcp_devices: the devices with 1 are undedicated.
RbConnections(s) ==
  LET one == {f \in ses[s].fcps : ses[s].conns[f] = 1} IN
  /\ ses[s].pc = "rb_conns"
  /\ ses[s].todo = {}
  /\ \/ one # {} /\ NextFunction(s, "rb_undedicate", one)
     \/ one = {} /\ NextFunction(s, "rb_decrease", ses[s].fcps)
  /\ UNCHANGED <<fcp, db_lock, zvm, client>>

RbUndedicate(s) ==
  /\ ses[s].pc = "rb_undedicate"
  /\ \E f \in ses[s].todo :
       /\ \/ undedicate_device(f, VmOf[s])
          \/ "rollback fails" \in Env /\ UNCHANGED <<dedicated, online>>
       /\ Loop(s, "rb_undedicate", ses[s].todo \ {f},
               "rb_decrease", ses[s].fcps)
  /\ UNCHANGED <<fcp, db_lock, exists, deleting, client>>

\* _rollback_increased_connections: a transaction for each device.
RbDecrease(s) ==
  /\ ses[s].pc = "rb_decrease"
  /\ \E f \in ses[s].todo :
       /\ \/ Transaction(decrease_connections(fcp, {f}))
          \/ "rollback database error" \in Env /\ Transaction(fcp)
       /\ Loop(s, "rb_decrease", ses[s].todo \ {f}, "rb_usage", ses[s].fcps)
  /\ UNCHANGED <<zvm, client>>

\* Mutant: nothing happens when no device is to be unreserved.
RbUsageStuck(s) ==
  /\ ses[s].pc = "rb_usage"
  /\ ses[s].todo = {} /\ Zero(s) # {}
  /\ NextFunction(s, "rb_unreserve", Zero(s))
  /\ UNCHANGED <<fcp, db_lock, zvm, client>>

\* _rollback_reserved_fcp_devices: the devices that have none are unreserved,
\* in another transaction.
RbUsage(s) ==
  /\ ses[s].pc = "rb_usage"
  /\ ses[s].todo = {}
  /\ \/ Zero(s) # {} /\ NextFunction(s, "rb_unreserve", Zero(s))
     \/ Zero(s) = {} /\ Leave(s)
  /\ UNCHANGED <<fcp, db_lock, zvm, client>>

RbUnreserve(s) ==
  /\ ses[s].pc = "rb_unreserve"
  /\ \/ Transaction(unreserve_fcps(fcp, ses[s].todo))
     \/ "rollback fails" \in Env /\ Transaction(fcp)
  /\ Leave(s)
  /\ UNCHANGED <<zvm, client>>

-----------------------------------------------------------------------------
(* detach *)

\* A volume its client believes to be attached, one that it detached before,
\* or one that a deleted guest had.
CallDetach(s, v, only, rb) ==
  /\ volume[v].vm = VmOf[s]
  /\ \/ volume[v].attached
     \/ "detach twice" \in Env
     \/ "detach deleted" \in Env /\ ~exists[VmOf[s]]
  /\ \A r \in Session : ses[r].vol # v
  /\ Enter(s, [Idle EXCEPT !.pc = "decrease", !.vol = v,
                           !.fcps = volume[v].fcps, !.tmpl = volume[v].tmpl,
                           !.root = volume[v].root, !.only = only, !.rb = rb])
  /\ UNCHANGED <<fcp, db_lock, zvm, client>>

Detached(s) ==
  /\ Leave(s)
  /\ volume' = [volume EXCEPT ![ses[s].vol].attached = FALSE]

\* decrease_fcp_connections, the first thing _do_detach does.
Decrease(s) ==
  LET table == decrease_connections(fcp, ses[s].fcps) IN
  /\ ses[s].pc = "decrease"
  /\ Transaction(table)
  /\ IF ses[s].root \/ ses[s].only
     THEN Detached(s)
     ELSE /\ ses' = [ses EXCEPT ![s].pc = "exist",
                                ![s].conns = [f \in Fcp |->
                                  IF f \in ses[s].fcps
                                  THEN table[f].connections ELSE 0]]
          /\ UNCHANGED <<vm_lock, volume>>
  /\ UNCHANGED <<zvm, held>>

CheckUserid(s) ==
  /\ ses[s].pc = "exist"
  /\ \/ exists[VmOf[s]] /\ Goto(s, "remove_disks") /\ UNCHANGED volume
     \/ ~exists[VmOf[s]] /\ Detached(s)
  /\ UNCHANGED <<fcp, db_lock, zvm, held>>

\* On to the undedicate loop, which is over if there is nothing to do.
ToUndedicate(s) ==
  \/ /\ Zero(s) # {}
     /\ ses' = [ses EXCEPT ![s].pc = "undedicate", ![s].todo = Zero(s)]
     /\ UNCHANGED <<vm_lock, volume>>
  \/ Zero(s) = {} /\ Detached(s)

\* _remove_disks: the volume goes offline in the guest, and the devices with
\* it when total_connections is 0.
RemoveDisks(s) ==
  /\ ses[s].pc = "remove_disks"
  /\ \/ online' = IF Zero(s) = ses[s].fcps
                  THEN [online EXCEPT ![VmOf[s]] = @ \ ses[s].fcps]
                  ELSE online
     \/ SkipScript
  /\ ToUndedicate(s)
  /\ UNCHANGED <<fcp, db_lock, held, dedicated, exists, deleting>>

\* It fails, after some of the devices went offline.
FailRemoveDisks(s) ==
  /\ ses[s].pc = "remove_disks"
  /\ \E fs \in SUBSET ses[s].fcps :
       /\ fs # {} => Zero(s) = ses[s].fcps
       /\ online' = [online EXCEPT ![VmOf[s]] = @ \ fs]
  /\ \/ ses[s].rb /\ Goto(s, "rb_removed") /\ UNCHANGED volume
     \/ ~ses[s].rb /\ ToUndedicate(s)
  /\ UNCHANGED <<fcp, db_lock, held, dedicated, exists, deleting>>

\* One round of the undedicate loop.
Undedicate(s) ==
  /\ ses[s].pc = "undedicate"
  /\ \E f \in ses[s].todo :
       /\ undedicate_device(f, VmOf[s])
       /\ \/ /\ ses[s].todo # {f}
             /\ ses' = [ses EXCEPT ![s].todo = @ \ {f}]
             /\ UNCHANGED <<vm_lock, volume>>
          \/ ses[s].todo = {f} /\ Detached(s)
  /\ UNCHANGED <<fcp, db_lock, held, exists, deleting>>

\* It fails, perhaps after z/VM has done it, and the loop ends.
FailUndedicate(s) ==
  /\ ses[s].pc = "undedicate"
  /\ \E f \in ses[s].todo :
       UNCHANGED <<dedicated, online>> \/ undedicate_device(f, VmOf[s])
  /\ \/ /\ ses[s].rb
        /\ ses' = [ses EXCEPT ![s].pc = "rb_dedicate", ![s].todo = Zero(s)]
        /\ UNCHANGED <<vm_lock, volume>>
     \/ ~ses[s].rb /\ Detached(s)
  /\ UNCHANGED <<fcp, db_lock, held, exists, deleting>>

-----------------------------------------------------------------------------
(* The rollback of detach *)

\* _rollback_undedicated_fcp_devices; a device that was not undedicated yet
\* cannot be dedicated, which is ignored.
RbDedicate(s) ==
  /\ ses[s].pc = "rb_dedicate"
  /\ \E f \in ses[s].todo :
       /\ \/ /\ Dedicable(f, VmOf[s])
             /\ dedicated' = [dedicated EXCEPT ![f] = VmOf[s]]
          \/ /\ ~Dedicable(f, VmOf[s]) \/ "rollback fails" \in Env
             /\ UNCHANGED dedicated
       /\ Loop(s, "rb_dedicate", ses[s].todo \ {f}, "rb_removed", {})
  /\ UNCHANGED <<fcp, db_lock, online, exists, deleting, client>>

\* Mutant: the connections are not increased again.
RbRemovedDisksOnly(s) ==
  /\ ses[s].pc = "rb_removed"
  /\ online' = [online EXCEPT ![VmOf[s]] = @ \cup Present(s)]
  /\ Leave(s)
  /\ UNCHANGED <<fcp, db_lock, dedicated, exists, deleting, client>>

\* _rollback_removed_disks, and on to _rollback_decreased_connections.
RbRemovedDisks(s) ==
  /\ ses[s].pc = "rb_removed"
  /\ \/ online' = [online EXCEPT ![VmOf[s]] = @ \cup Present(s)]
     \/ SkipScript
     \/ "rollback fails" \in Env /\ UNCHANGED online
  /\ ses' = [ses EXCEPT ![s].pc = "rb_increase", ![s].todo = ses[s].fcps]
  /\ UNCHANGED <<fcp, db_lock, vm_lock, dedicated, exists, deleting, client>>

\* _rollback_decreased_connections: a transaction for each device, which
\* raises, and is ignored, if the device has another assigner by now.
RbIncrease(s) ==
  /\ ses[s].pc = "rb_increase"
  /\ \E f \in ses[s].todo :
       /\ \/ /\ CanIncrease(fcp, {f}, VmOf[s])
             /\ Transaction(increase_connections(fcp, {f}))
          \/ /\ \/ ~CanIncrease(fcp, {f}, VmOf[s])
                \/ "rollback database error" \in Env
             /\ Transaction(fcp)
       /\ \/ /\ ses[s].todo # {f}
             /\ ses' = [ses EXCEPT ![s].todo = @ \ {f}]
             /\ UNCHANGED vm_lock
          \/ ses[s].todo = {f} /\ Leave(s)
  /\ UNCHANGED <<zvm, client>>

\* A transaction outside the part of a function that ignores errors, one that
\* reads for the log included, ends the rollback of attach or of detach.
RbAborts(s) ==
  /\ "rollback database error" \in Env
  /\ \/ ses[s].pc \in {"rb_added", "rb_conns", "rb_usage"}
     \/ /\ ses[s].pc \in {"rb_decrease", "rb_increase"}
        /\ ses[s].todo = ses[s].fcps
  /\ db_lock = NoSession
  /\ Leave(s)
  /\ UNCHANGED <<fcp, db_lock, zvm, client>>

-----------------------------------------------------------------------------
(* Guests, and the SDK server itself *)

NotServed(vm) == \A s \in Session : VmOf[s] = vm => ses[s].pc = "idle"

\* guest_delete: z/VM deletes the userid, which frees its devices ...
DeleteUserid(vm) ==
  /\ exists[vm]
  /\ \/ "delete" \in Env /\ NotServed(vm)
     \/ "delete busy" \in Env
  /\ exists' = [exists EXCEPT ![vm] = FALSE]
  /\ deleting' = [deleting EXCEPT ![vm] = TRUE]
  /\ dedicated' =
       [f \in Fcp |-> IF dedicated[f] = vm THEN NoVm ELSE dedicated[f]]
  /\ online' = [online EXCEPT ![vm] = {}]
  /\ UNCHANGED <<sdk, client>>

\* ... and later its FCP records are reset.  Its volumes are not attached any
\* more; the client forgets them, or still calls detach.
ResetFcps(vm) ==
  /\ deleting[vm]
  /\ Transaction(reset_fcps_of_assigner(fcp, vm))
  /\ deleting' = [deleting EXCEPT ![vm] = FALSE]
  /\ volume' = [v \in Volume |->
       IF volume[v].vm # vm THEN volume[v]
       ELSE IF "detach deleted" \in Env
            THEN [volume[v] EXCEPT !.attached = FALSE]
            ELSE Unused]
  /\ held' = [s \in Session |->
                IF VmOf[s] = vm THEN NoConnector ELSE held[s]]
  /\ UNCHANGED <<vm_lock, ses, dedicated, online, exists>>

CreateUserid(vm) ==
  /\ "create" \in Env /\ ~exists[vm] /\ ~deleting[vm]
  /\ exists' = [exists EXCEPT ![vm] = TRUE]
  /\ UNCHANGED <<sdk, client, dedicated, online, deleting>>

\* The server stops: the open transaction is rolled back, the locks and the
\* requests are gone, and the table is what the last COMMIT left.  Clients
\* do not repeat the requests that were cut off, except by "detach twice".
Crash ==
  /\ "crash" \in Env
  /\ \E s \in Session : ses[s].pc # "idle"
  /\ ses' = [s \in Session |-> Idle]
  /\ vm_lock' = [vm \in Vm |-> NoSession]
  /\ db_lock' = NoSession
  /\ volume' = [v \in Volume |->
       [volume[v] EXCEPT
          !.attached = @ /\ \A s \in Session : ses[s].vol # v]]
  /\ UNCHANGED <<fcp, zvm, held>>

-----------------------------------------------------------------------------
\* The steps a thread takes by itself once a request has started.
Connector(s) == QueryZvm(s) \/ Allocate(s) \/ Release(s) \/ FailConnector(s)

DoAttach(s) ==
  \/ Reserve(s) \/ Increase(s) \/ FailInDatabase(s)
  \/ Dedicate(s) \/ FailDedicate(s) \/ AddDisks(s) \/ FailAddDisks(s)
  \/ RbRead(s) \/ RbAddedDisks(s) \/ RbConnections(s) \/ RbUndedicate(s)
  \/ RbDecrease(s) \/ RbUsage(s) \/ RbUnreserve(s)

DoDetach(s) ==
  \/ Decrease(s) \/ CheckUserid(s) \/ RemoveDisks(s) \/ FailRemoveDisks(s)
  \/ Undedicate(s) \/ FailUndedicate(s)
  \/ RbDedicate(s) \/ RbRemovedDisks(s) \/ RbIncrease(s)

Step(s) == Connector(s) \/ DoAttach(s) \/ DoDetach(s) \/ RbAborts(s)

\* FALSE always, TRUE only if the environment makes such requests.
Flag(kind) == {FALSE} \cup {x \in {TRUE} : kind \in Env}

Call(s) ==
  \/ \E t \in Template : ReuseFcps(s, t) \/ BeginAllocate(s, t)
                           \/ BeginRelease(s, t)
  \/ \E v \in Volume, norb \in Flag("no rollback") :
       \/ \E root \in Flag("root") : CallAttach(s, v, root, ~norb)
       \/ \E only \in Flag("update only") : CallDetach(s, v, only, ~norb)

Guest(vm) == DeleteUserid(vm) \/ ResetFcps(vm) \/ CreateUserid(vm)

Next ==
  \/ \E s \in Session : Call(s) \/ Step(s)
  \/ \E vm \in Vm : Guest(vm)
  \/ Crash

Spec == Init /\ [][Next]_vars

\* Requests to z/VM and scripts end (they have time limits), so a thread that
\* runs goes on; clients may stop asking.  A transaction that ends a rollback
\* is not counted on.
Proceed(s) == Connector(s) \/ DoAttach(s) \/ DoDetach(s)
FairSpec == Spec /\ \A s \in Session : WF_vars(Proceed(s))

-----------------------------------------------------------------------------
(* Properties *)

VolumesOn(f) ==
  {v \in Volume : volume[v].attached /\ f \in volume[v].fcps}

\* No request is working on the device.
Quiet(f) == \A s \in Session : f \notin ses[s].fcps

(***************************************************************************)
(* The column connections of a device is the number of volumes connected   *)
(* through it, after any history of attaches and detaches that succeeded,  *)
(* failed in any phase or were rolled back.                                *)
(***************************************************************************)
ConnectionsCountVolumes ==
  \A f \in Fcp :
    Quiet(f) => fcp[f].connections = Cardinality(VolumesOn(f))

(***************************************************************************)
(* The assigner of a device is the virtual machine whose volumes are       *)
(* connected through it.                                                   *)
(***************************************************************************)
AssignerHasVolumes ==
  \A f \in Fcp : \A v \in VolumesOn(f) :
    Quiet(f) => fcp[f].assigner = volume[v].vm

(***************************************************************************)
(* A device with connections stays reserved: the rollback of one request,  *)
(* which reads connections and unreserves in two transactions, never takes *)
(* the reservation from under another one.                                 *)
(***************************************************************************)
ReservedWhileConnected ==
  \A f \in Fcp : fcp[f].connections > 0 => fcp[f].reserved

(***************************************************************************)
(* A device with connections that nobody is working on is dedicated to its *)
(* assigner in z/VM, as _do_attach assumes when it skips the dedication of *)
(* a device with more than one connection.                                 *)
(***************************************************************************)
DedicatedWhenConnected ==
  \A f \in Fcp :
    /\ Quiet(f) /\ fcp[f].connections > 0
    /\ exists[fcp[f].assigner]
    => dedicated[f] = fcp[f].assigner

(***************************************************************************)
(* No request, and no rollback, takes a device offline in a guest that has *)
(* another volume on it.                                                   *)
(***************************************************************************)
NeverPullsOthers ==
  [][\A vm \in Vm : exists'[vm] =>
       \A f \in online[vm] \ online'[vm] :
         \A v \in VolumesOn(f) :
           volume[v].vm = vm => \E s \in Session : ses[s].vol = v]_vars

(***************************************************************************)
(* A row in use names its virtual machine, and a reserved one its          *)
(* template, whatever crashes, deletions and repeated requests happen.     *)
(***************************************************************************)
UsedRowHasAssigner == \A f \in Fcp : Consistent(fcp[f])

(***************************************************************************)
(* A device that is reserved for one virtual machine is never dedicated to *)
(* another in z/VM, even if rollbacks fail or the server stops half way    *)
(* and leaves devices dedicated that the table takes for unused.           *)
(***************************************************************************)
DedicatedToAssigner ==
  \A f \in Fcp : fcp[f].reserved => dedicated[f] \in {NoVm, fcp[f].assigner}

(***************************************************************************)
(* The lock of a virtual machine is held exactly while a request for it is *)
(* running, and the database exactly while one queries z/VM in its         *)
(* transaction: no way out of a request leaves a lock behind.              *)
(***************************************************************************)
LocksMatchRequests ==
  \A s \in Session :
    /\ ses[s].pc # "idle" <=> vm_lock[VmOf[s]] = s
    /\ ses[s].pc \in {"query", "allocate", "release"} <=> db_lock = s

\* A request that is going to reserve devices, and a client that has some in
\* its connector, know the template.
KnowsTemplate ==
  \A s \in Session :
    /\ ses[s].pc \in {"query", "allocate", "release", "reserve"} =>
         ses[s].tmpl \in Template
    /\ held[s].fcps # {} => held[s].tmpl \in Template

(***************************************************************************)
(* The inductive invariant: types, consistent rows, and locks that match   *)
(* the requests, which need that whoever reserves knows its template.      *)
(***************************************************************************)
IInv == TypeOK /\ UsedRowHasAssigner /\ LocksMatchRequests /\ KnowsTemplate

(***************************************************************************)
(* Every request ends: in each phase a thread can go on, by success, by    *)
(* failure or by rollback.                                                 *)
(***************************************************************************)
RequestsEnd == \A s \in Session : ses[s].pc # "idle" ~> ses[s].pc = "idle"

(***************************************************************************)
(* The same when other virtual machines are served as well: the lock of    *)
(* the database promises no order, so a request may wait as long as others *)
(* keep querying z/VM, but it ends once they pause.                        *)
(***************************************************************************)
RequestsEndAlone ==
  \A s \in Session :
    <>[](\A r \in Session \ {s} : ses[r].pc = "idle")
      => []<>(ses[s].pc = "idle")

\* A device belongs to the assigner of its row while it is reserved.
Owner == [f \in Fcp |-> IF fcp[f].reserved THEN fcp[f].assigner ELSE NoVm]

Ownership == INSTANCE FcpOwnership WITH owner <- Owner,
                                        uses <- ConnectionsOf(fcp)

(***************************************************************************)
(* The table, the locks and the order of the phases keep every device in   *)
(* one hand at a time.                                                     *)
(***************************************************************************)
ImplementsFcpOwnership == Ownership!Spec
==============================================================================
