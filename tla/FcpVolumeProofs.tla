--------------------------- MODULE FcpVolumeProofs ---------------------------
(***************************************************************************)
(* Proofs about FcpVolume.  The invariant is split in two: the data, which *)
(* the statements of FcpTable, z/VM and the clients keep (DataOK), and the *)
(* control, which is the way sessions take through their phases while they *)
(* hold locks (MovesTo).  Each action is shown to respect both.            *)
(***************************************************************************)
EXTENDS FcpVolume, TLAPS

\* All contents of the fcp table.
Table == [Fcp -> Row]

\* reserve_fcps names the virtual machine and the template with the
\* reservation, so rows stay consistent; so do the other statements below.
LEMMA Reserving ==
  ASSUME NEW table \in Table, \A f \in Fcp : Consistent(table[f]),
         NEW fs \in SUBSET Fcp, NEW vm \in Vm, NEW t \in Template
  PROVE  LET new == reserve_fcps(table, fs, vm, t)
         IN  new \in Table /\ \A f \in Fcp : Consistent(new[f])
  BY VmAssumption, TemplateAssumption
  DEF Table, Row, Consistent, InUse, reserve_fcps

\* unreserve_fcps clears reserved and tmpl_id together.
LEMMA Unreserving ==
  ASSUME NEW table \in Table, \A f \in Fcp : Consistent(table[f]),
         NEW fs \in SUBSET Fcp
  PROVE  LET new == unreserve_fcps(table, fs)
         IN  new \in Table /\ \A f \in Fcp : Consistent(new[f])
  BY DEF Table, Row, Consistent, InUse, unreserve_fcps

\* reset_fcps_of_assigner clears a row altogether.
LEMMA Resetting ==
  ASSUME NEW table \in Table, \A f \in Fcp : Consistent(table[f]),
         NEW vm \in Vm
  PROVE  LET new == reset_fcps_of_assigner(table, vm)
         IN  new \in Table /\ \A f \in Fcp : Consistent(new[f])
  BY DEF Table, Row, Consistent, InUse, reset_fcps_of_assigner

\* increase_connections needs the check of the assigner: a row without
\* one must not get connections.
LEMMA Increasing ==
  ASSUME NEW table \in Table, \A f \in Fcp : Consistent(table[f]),
         NEW fs \in SUBSET Fcp, NEW vm \in Vm, CanIncrease(table, fs, vm)
  PROVE  LET new == increase_connections(table, fs)
         IN  new \in Table /\ \A f \in Fcp : Consistent(new[f])
  BY VmAssumption
  DEF Table, Row, Consistent, InUse, CanIncrease, increase_connections

\* decrease_connections does not go below 0.
LEMMA Decreasing ==
  ASSUME NEW table \in Table, \A f \in Fcp : Consistent(table[f]),
         NEW fs \in SUBSET Fcp
  PROVE  LET new == decrease_connections(table, fs)
         IN  new \in Table /\ \A f \in Fcp : Consistent(new[f])
  BY DEF Table, Row, Consistent, InUse, decrease_connections

\* get_fcp_devices chooses devices.
LEMMA ChoicesAreFcps ==
  ASSUME NEW table, NEW free, NEW t
  PROVE  get_fcp_devices(table, free, t) \subseteq SUBSET Fcp
  BY MappingAssumption DEF get_fcp_devices, FcpsOfTemplate

\* A new table is consistent, and nobody holds a lock.
LEMMA InitIInv == Init => IInv
  <1> SUFFICES ASSUME Init PROVE IInv
    OBVIOUS
  <1> USE VmAssumption, TemplateAssumption, SessionAssumption DEF Init
  <1>1. TypeOK
    BY DEF TypeOK, Row, NewRow, Locals, Idle, NoConns, NoConnector, Unused
  <1>2. UsedRowHasAssigner
    BY DEF UsedRowHasAssigner, Consistent, InUse, NewRow
  <1>3. LocksMatchRequests
    BY DEF LocksMatchRequests, Idle
  <1>4. KnowsTemplate
    BY DEF KnowsTemplate, Idle, NoConnector
  <1> QED  BY <1>1, <1>2, <1>3, <1>4 DEF IInv

\* What a step of one session does to its control state.
Entered(s) == /\ vm_lock[VmOf[s]] = NoSession
              /\ vm_lock' = [vm_lock EXCEPT ![VmOf[s]] = s]
              /\ ses'[s].pc # "idle"

Stayed(s) == /\ vm_lock' = vm_lock
             /\ ses[s].pc = "idle" <=> ses'[s].pc = "idle"

Left(s) == /\ ses[s].pc # "idle"
           /\ vm_lock' = [vm_lock EXCEPT ![VmOf[s]] = NoSession]
           /\ ses'[s].pc = "idle"

InDb(pc) == pc \in {"query", "allocate", "release"}

\* Whoever moves like this keeps the locks in step with the requests.
LEMMA Control ==
  ASSUME IInv, NEW s \in Session,
         ses' \in [Session -> Locals],
         \A r \in Session \ {s} : ses'[r] = ses[r],
         Entered(s) \/ Stayed(s) \/ Left(s),
         \/ db_lock' = db_lock /\ (InDb(ses[s].pc) <=> InDb(ses'[s].pc))
         \/ db_lock = NoSession /\ db_lock' = s /\ InDb(ses'[s].pc)
         \/ db_lock = s /\ db_lock' = NoSession /\ ~InDb(ses'[s].pc)
  PROVE  /\ vm_lock' \in [Vm -> Session \cup {NoSession}]
         /\ db_lock' \in Session \cup {NoSession}
         /\ LocksMatchRequests'
  <1> USE SessionAssumption DEF IInv, TypeOK
  <1>1. vm_lock' \in [Vm -> Session \cup {NoSession}]
    BY DEF Entered, Stayed, Left
  <1>2. db_lock' \in Session \cup {NoSession}
    OBVIOUS
  <1>3. ASSUME NEW r \in Session
        PROVE  ses'[r].pc # "idle" <=> vm_lock'[VmOf[r]] = r
    BY <1>3 DEF Entered, Stayed, Left, LocksMatchRequests
  <1>4. ASSUME NEW r \in Session
        PROVE  InDb(ses'[r].pc) <=> db_lock' = r
    BY <1>4 DEF InDb, LocksMatchRequests
  <1> QED  BY <1>1, <1>2, <1>3, <1>4 DEF LocksMatchRequests, InDb

\* Clients that hold devices know their template.
HeldOK ==
  /\ held \in [Session -> [tmpl : Template \cup {NoTmpl}, fcps : SUBSET Fcp]]
  /\ \A s \in Session : held[s].fcps # {} => held[s].tmpl \in Template

VolumeType == [vm : Vm \cup {NoVm}, tmpl : Template \cup {NoTmpl},
               fcps : SUBSET Fcp, root : BOOLEAN, attached : BOOLEAN]

\* The variables of z/VM have their types.
ZvmOK ==
  /\ dedicated \in [Fcp -> Vm \cup {NoVm}]
  /\ online \in [Vm -> SUBSET Fcp]
  /\ exists \in [Vm -> BOOLEAN]
  /\ deleting \in [Vm -> BOOLEAN]

TableOK == fcp \in Table /\ \A f \in Fcp : Consistent(fcp[f])

VolumeOK == volume \in [Volume -> VolumeType]

\* Every component of the invariant that is not about control.
DataOK == TableOK /\ HeldOK /\ ZvmOK /\ VolumeOK

\* IInv splits into the data and the control.
LEMMA DataOfIInv == IInv => DataOK
  BY DEF IInv, DataOK, TypeOK, UsedRowHasAssigner, KnowsTemplate, TableOK,
         HeldOK, ZvmOK, VolumeOK, VolumeType, Table

\* Session s goes to the local variables l.
MovesTo(s, l) ==
  /\ l \in Locals
  /\ ses' = [ses EXCEPT ![s] = l]
  /\ Entered(s) \/ Stayed(s) \/ Left(s)
  /\ \/ db_lock' = db_lock /\ (InDb(ses[s].pc) <=> InDb(l.pc))
     \/ db_lock = NoSession /\ db_lock' = s /\ InDb(l.pc)
     \/ db_lock = s /\ db_lock' = NoSession /\ ~InDb(l.pc)
  /\ InDb(l.pc) \/ l.pc = "reserve" => l.tmpl \in Template

\* A step of a session keeps the invariant if it keeps the data and the
\* control.
LEMMA MoveIInv ==
  ASSUME IInv, NEW s \in Session, NEW l, MovesTo(s, l), DataOK'
  PROVE  IInv'
  <1>1. /\ ses' \in [Session -> Locals]
        /\ ses'[s] = l
        /\ \A r \in Session \ {s} : ses'[r] = ses[r]
    BY DEF IInv, TypeOK, MovesTo
  <1>2. /\ vm_lock' \in [Vm -> Session \cup {NoSession}]
        /\ db_lock' \in Session \cup {NoSession}
        /\ LocksMatchRequests'
    BY <1>1, Control DEF MovesTo
  <1>3. TypeOK'
    BY <1>1, <1>2
    DEF TypeOK, DataOK, TableOK, HeldOK, ZvmOK, VolumeOK, VolumeType, Table
  <1>4. KnowsTemplate'
    BY <1>1 DEF MovesTo, KnowsTemplate, InDb, IInv, DataOK, HeldOK
  <1>5. UsedRowHasAssigner'
    BY DEF UsedRowHasAssigner, DataOK, TableOK
  <1> QED  BY <1>2, <1>3, <1>4, <1>5 DEF IInv

\* A request that has ended.
LEMMA LeaveMoves ==
  ASSUME IInv, NEW s \in Session, Leave(s), ses[s].pc # "idle",
         \/ db_lock' = NoSession /\ InDb(ses[s].pc)
         \/ db_lock' = db_lock /\ ~InDb(ses[s].pc)
  PROVE  MovesTo(s, Idle)
  <1>1. Idle \in Locals
    BY DEF Idle, Locals, NoConns
  <1> QED
    BY <1>1
    DEF Leave, IInv, TypeOK, MovesTo, LocksMatchRequests, Left, Idle, InDb

\* A request that has begun.
LEMMA EnterMoves ==
  ASSUME IInv, NEW s \in Session, NEW l \in Locals, Enter(s, l),
         l.pc # "idle",
         \/ db_lock = NoSession /\ db_lock' = s /\ InDb(l.pc)
         \/ db_lock' = db_lock /\ ~InDb(l.pc),
         InDb(l.pc) \/ l.pc = "reserve" => l.tmpl \in Template
  PROVE  MovesTo(s, l)
  BY DEF Enter, CanEnter, IInv, TypeOK, MovesTo, Entered, InDb

\* The phases of _do_attach and _do_detach after the first one.
Phases == {"increase", "dedicate", "add_disks", "rb_added", "rb_conns",
           "rb_undedicate", "rb_decrease", "rb_usage", "rb_unreserve",
           "exist", "remove_disks", "undedicate",
           "rb_dedicate", "rb_removed", "rb_increase"}

\* Within _do_attach and _do_detach, a session goes on to a phase or leaves.
Goes(s) ==
  \/ Leave(s)
  \/ /\ UNCHANGED vm_lock
     /\ \E l \in Locals : l.pc \in Phases /\ ses' = [ses EXCEPT ![s] = l]

\* A step from phase to phase, or out, keeps the invariant if the data is
\* kept.
LEMMA GoesMoves ==
  ASSUME IInv, NEW s \in Session, Goes(s), db_lock' = db_lock, DataOK',
         ses[s].pc \in Phases \cup {"reserve", "decrease"}
  PROVE  IInv'
  <1>0. ses[s].pc # "idle" /\ ~InDb(ses[s].pc)
    BY DEF Phases, InDb
  <1>1. CASE Leave(s)
    BY <1>0, <1>1, LeaveMoves, MoveIInv
  <1>2. ASSUME UNCHANGED vm_lock, NEW l \in Locals, l.pc \in Phases,
               ses' = [ses EXCEPT ![s] = l]
        PROVE  IInv'
    <2>1. l.pc # "idle" /\ ~InDb(l.pc) /\ l.pc # "reserve"
      BY <1>2 DEF Phases, InDb
    <2>2. Stayed(s)
      BY <1>0, <1>2, <2>1 DEF Stayed, IInv, TypeOK
    <2>3. MovesTo(s, l)
      BY <1>0, <1>2, <2>1, <2>2 DEF MovesTo
    <2> QED  BY <2>3, MoveIInv
  <1> QED  BY <1>1, <1>2 DEF Goes

\* Going to a phase, with the other local variables as they are.
LEMMA GotoGoes ==
  ASSUME IInv, NEW s \in Session, NEW pc \in Phases, Goto(s, pc)
  PROVE  Goes(s)
  <1>0. ses[s] \in Locals
    BY DEF IInv, TypeOK
  <1>1. [ses[s] EXCEPT !.pc = pc] \in Locals
    BY <1>0 DEF Locals, Phases
  <1>2. [ses[s] EXCEPT !.pc = pc].pc = pc
    BY DEF IInv, TypeOK, Locals
  <1> QED  BY <1>1, <1>2 DEF Goes, Goto

\* The same with the devices of a loop.
LEMMA SetTodoGoes ==
  ASSUME IInv, NEW s \in Session, NEW pc \in Phases, NEW todo \in SUBSET Fcp,
         ses' = [ses EXCEPT ![s].pc = pc, ![s].todo = todo],
         UNCHANGED vm_lock
  PROVE  Goes(s)
  <1>0. ses[s] \in Locals
    BY DEF IInv, TypeOK
  <1>1. [ses[s] EXCEPT !.pc = pc, !.todo = todo] \in Locals
    BY <1>0 DEF Locals, Phases
  <1>2. [ses[s] EXCEPT !.pc = pc, !.todo = todo].pc = pc
    BY DEF IInv, TypeOK, Locals
  <1>3. ses' = [ses EXCEPT ![s] = [ses[s] EXCEPT !.pc = pc, !.todo = todo]]
    BY DEF IInv, TypeOK
  <1> QED  BY <1>1, <1>2, <1>3 DEF Goes

\* A loop goes to one of its two phases.
LEMMA LoopGoes ==
  ASSUME IInv, NEW s \in Session, NEW pc \in Phases, NEW after \in Phases,
         NEW todo \in SUBSET Fcp, NEW todo_after \in SUBSET Fcp,
         Loop(s, pc, todo, after, todo_after)
  PROVE  Goes(s)
  BY SetTodoGoes DEF Loop

\* A round of a loop.
LEMMA RoundGoes ==
  ASSUME IInv, NEW s \in Session, NEW f, ses[s].pc \in Phases,
         ses' = [ses EXCEPT ![s].todo = @ \ {f}], UNCHANGED vm_lock
  PROVE  Goes(s)
  <1>0. ses[s] \in Locals
    BY DEF IInv, TypeOK
  <1>1. [ses[s] EXCEPT !.todo = @ \ {f}] \in Locals
    BY <1>0 DEF Locals
  <1>2. [ses[s] EXCEPT !.todo = @ \ {f}].pc = ses[s].pc
    BY DEF IInv, TypeOK, Locals
  <1>3. ses' = [ses EXCEPT ![s] = [ses[s] EXCEPT !.todo = @ \ {f}]]
    BY DEF IInv, TypeOK
  <1> QED  BY <1>1, <1>2, <1>3 DEF Goes

\* The types of the local variables that the phases use.
LEMMA LocalTypes ==
  ASSUME IInv, NEW s \in Session
  PROVE  /\ ses[s].fcps \in SUBSET Fcp
         /\ ses[s].todo \in SUBSET Fcp
         /\ ses[s].tmpl \in Template \cup {NoTmpl}
         /\ ses[s].root \in BOOLEAN
         /\ ses[s].only \in BOOLEAN
         /\ ses[s].rb \in BOOLEAN
         /\ VmOf[s] \in Vm
  BY SessionAssumption DEF IInv, TypeOK, Locals

\* The devices without connections are devices.
LEMMA ZeroIsFcps ==
  ASSUME IInv, NEW s \in Session
  PROVE  Zero(s) \in SUBSET Fcp
  BY LocalTypes DEF Zero

\* The next function of a rollback.
LEMMA NextFunctionGoes ==
  ASSUME IInv, NEW s \in Session, NEW pc \in Phases, NEW todo \in SUBSET Fcp,
         NextFunction(s, pc, todo)
  PROVE  Goes(s)
  <1> DEFINE k == [ses[s] EXCEPT !.pc = pc, !.todo = todo]
             l == [k EXCEPT !.conns = NoConns]
  <1>0. ses[s] \in Locals /\ NoConns \in [Fcp -> Nat]
    BY DEF IInv, TypeOK, NoConns
  <1>1. k \in Locals
    BY <1>0 DEF Locals, Phases
  <1>2. k.pc = pc
    BY <1>0 DEF Locals
  <1>3. l = [ses[s] EXCEPT !.pc = pc, !.todo = todo, !.conns = NoConns]
    OBVIOUS
  <1>4. ses' = [ses EXCEPT ![s] = l]
    BY <1>3 DEF NextFunction, IInv, TypeOK
  <1> HIDE DEF k
  <1>5. l \in Locals /\ l.pc = pc
    BY <1>0, <1>1, <1>2 DEF Locals
  <1> HIDE DEF l
  <1> QED  BY <1>4, <1>5 DEF Goes, NextFunction

\* A device that is read.
LEMMA ReadGoes ==
  ASSUME IInv, NEW s \in Session, RbRead(s)
  PROVE  Goes(s)
  <1>0. ses[s] \in Locals
    BY DEF IInv, TypeOK
  <1>1. PICK f \in ses[s].todo :
          ses' = [ses EXCEPT ![s].todo = @ \ {f},
                             ![s].conns = [@ EXCEPT ![f] = fcp[f].connections]]
    BY DEF RbRead
  <1> DEFINE l == [ses[s] EXCEPT !.todo = @ \ {f},
                                 !.conns = [@ EXCEPT ![f] = fcp[f].connections]]
  <1>2. fcp[f].connections \in Nat /\ f \in Fcp
    BY LocalTypes DEF IInv, TypeOK, Row
  <1>3. [ses[s].conns EXCEPT ![f] = fcp[f].connections] \in [Fcp -> Nat]
    BY <1>0, <1>2 DEF Locals
  <1>4. l \in Locals
    BY <1>0, <1>3 DEF Locals
  <1>5. l.pc \in Phases
    BY <1>0 DEF RbRead, Phases, Locals
  <1>6. ses' = [ses EXCEPT ![s] = l]
    BY <1>1 DEF IInv, TypeOK
  <1> HIDE DEF l
  <1> QED  BY <1>4, <1>5, <1>6 DEF Goes, RbRead

\* attach ends successfully.
LEMMA AttachedGoes ==
  ASSUME IInv, NEW s \in Session, Attached(s)
  PROVE  Goes(s) /\ VolumeOK'
  <1> DEFINE new == [vm |-> VmOf[s], tmpl |-> ses[s].tmpl,
                     fcps |-> ses[s].fcps, root |-> ses[s].root,
                     attached |-> TRUE]
  <1>1. new \in VolumeType
    BY LocalTypes DEF VolumeType
  <1>2. VolumeOK /\ volume' = [volume EXCEPT ![ses[s].vol] = new]
    BY DataOfIInv DEF DataOK, Attached
  <1> HIDE DEF new
  <1>3. VolumeOK'
    BY <1>1, <1>2 DEF VolumeOK
  <1> QED  BY <1>3 DEF Goes, Attached

\* detach ends successfully.
LEMMA DetachedGoes ==
  ASSUME IInv, NEW s \in Session, Detached(s)
  PROVE  Goes(s) /\ VolumeOK'
  <1>1. VolumeOK
    BY DataOfIInv DEF DataOK
  <1>2. VolumeOK'
    BY <1>1 DEF VolumeOK, VolumeType, Detached
  <1> QED  BY <1>2 DEF Goes, Detached

\* What a step leaves alone stays as it should be.
LEMMA Frame ==
  ASSUME IInv
  PROVE  /\ UNCHANGED fcp => TableOK'
         /\ UNCHANGED held => HeldOK'
         /\ UNCHANGED <<dedicated, online, exists, deleting>> => ZvmOK'
         /\ UNCHANGED volume => VolumeOK'
  BY DataOfIInv DEF DataOK, TableOK, HeldOK, ZvmOK, VolumeOK

\* z/VM takes a device from a virtual machine.
LEMMA Undedicating ==
  ASSUME IInv, NEW f \in Fcp, NEW vm \in Vm, UNCHANGED <<exists, deleting>>,
         \/ undedicate_device(f, vm)
         \/ UNCHANGED <<dedicated, online>>
  PROVE  ZvmOK'
  BY DataOfIInv DEF DataOK, ZvmOK, undedicate_device

\* z/VM gives it a device.
LEMMA Dedicating ==
  ASSUME IInv, NEW f \in Fcp, NEW vm \in Vm,
         UNCHANGED <<online, exists, deleting>>,
         \/ dedicated' = [dedicated EXCEPT ![f] = vm]
         \/ UNCHANGED dedicated
  PROVE  ZvmOK'
  BY DataOfIInv DEF DataOK, ZvmOK

\* A script runs in a guest.
LEMMA Scripting ==
  ASSUME IInv, NEW vm \in Vm, NEW fs \in SUBSET Fcp,
         UNCHANGED <<dedicated, exists, deleting>>,
         \/ online' = [online EXCEPT ![vm] = @ \cup fs]
         \/ online' = [online EXCEPT ![vm] = @ \ fs]
         \/ UNCHANGED online
  PROVE  ZvmOK'
  BY DataOfIInv DEF DataOK, ZvmOK

\* Each phase of _do_attach and of its rollback keeps the invariant.
LEMMA AttachIInv ==
  ASSUME IInv, NEW s \in Session, DoAttach(s)
  PROVE  IInv'
  <1> USE DEF client, zvm
  <1>0. TableOK
    BY DataOfIInv DEF DataOK
  <1>1. CASE Reserve(s)
    <2>1. ses[s].tmpl \in Template
      BY <1>1 DEF Reserve, IInv, KnowsTemplate
    <2>2. TableOK'
      BY <1>0, <1>1, <2>1, LocalTypes, Reserving
      DEF Reserve, Transaction, TableOK
    <2>3. Goes(s)
      BY <1>1, GotoGoes DEF Reserve, Phases
    <2> QED  BY <1>1, <2>2, <2>3, Frame, GoesMoves
             DEF Reserve, Transaction, DataOK
  <1>2. CASE Increase(s)
    <2>1. TableOK'
      BY <1>0, <1>2, LocalTypes, Increasing DEF Increase, Transaction, TableOK
    <2>2. CASE ses[s].root
      BY <1>2, <2>1, <2>2, AttachedGoes, Frame, GoesMoves
      DEF Increase, Transaction, DataOK, Phases
    <2>3. CASE ~ses[s].root
      <3> DEFINE first == {f \in ses[s].fcps :
            increase_connections(fcp, ses[s].fcps)[f].connections = 1}
      <3>1. first \in SUBSET Fcp /\ Loop(s, "dedicate", first, "add_disks", {})
        BY <1>2, <2>3, LocalTypes DEF Increase
      <3> HIDE DEF first
      <3>2. Goes(s)
        BY <3>1, LoopGoes DEF Phases
      <3> QED  BY <1>2, <2>1, <2>3, <3>2, Frame, GoesMoves
               DEF Increase, Transaction, DataOK, Phases
    <2> QED  BY <2>2, <2>3
  <1>3. CASE FailInDatabase(s)
    <2>1. Goes(s) /\ VolumeOK'
      BY <1>3, LocalTypes, GotoGoes, SetTodoGoes, AttachedGoes, Frame
      DEF FailInDatabase, Phases
    <2> QED  BY <1>3, <2>1, Frame, GoesMoves
             DEF FailInDatabase, DataOK, Phases
  <1>4. CASE Dedicate(s)
    <2>1. PICK f \in ses[s].todo :
            /\ dedicated' = [dedicated EXCEPT ![f] = VmOf[s]]
            /\ Loop(s, "dedicate", ses[s].todo \ {f}, "add_disks", {})
      BY <1>4 DEF Dedicate
    <2>2. Goes(s)
      BY <2>1, LocalTypes, LoopGoes DEF Phases
    <2>3. ZvmOK'
      BY <1>4, <2>1, LocalTypes, Dedicating DEF Dedicate
    <2> QED  BY <1>4, <2>2, <2>3, Frame, GoesMoves
             DEF Dedicate, DataOK, Phases
  <1>5. CASE FailDedicate(s)
    <2>1. PICK f \in ses[s].todo :
            \/ UNCHANGED dedicated
            \/ dedicated' = [dedicated EXCEPT ![f] = VmOf[s]]
      BY <1>5 DEF FailDedicate
    <2>2. Goes(s)
      BY <1>5, LocalTypes, GotoGoes, SetTodoGoes DEF FailDedicate, Phases
    <2>3. ZvmOK'
      BY <1>5, <2>1, LocalTypes, Dedicating DEF FailDedicate
    <2> QED  BY <1>5, <2>2, <2>3, Frame, GoesMoves
             DEF FailDedicate, DataOK, Phases
  <1>6. CASE AddDisks(s)
    <2>0. Present(s) \in SUBSET Fcp
      BY LocalTypes DEF Present
    <2>1. ZvmOK'
      BY <1>6, <2>0, LocalTypes, Scripting DEF AddDisks, SkipScript
    <2> QED  BY <1>6, <2>1, AttachedGoes, Frame, GoesMoves
             DEF AddDisks, DataOK, Phases
  <1>7. CASE FailAddDisks(s)
    <2>0. PICK fs \in SUBSET Fcp :
            online' = [online EXCEPT ![VmOf[s]] = @ \cup fs]
      BY <1>7, LocalTypes DEF FailAddDisks, Present
    <2>1. ZvmOK'
      BY <1>7, <2>0, LocalTypes, Scripting DEF FailAddDisks
    <2>2. Goes(s) /\ VolumeOK'
      BY <1>7, LocalTypes, SetTodoGoes, AttachedGoes, Frame
      DEF FailAddDisks, Phases
    <2> QED  BY <1>7, <2>1, <2>2, Frame, GoesMoves
             DEF FailAddDisks, DataOK, Phases
  <1>8. CASE RbAddedDisks(s)
    <2>1. ZvmOK'
      BY <1>8, LocalTypes, Scripting DEF RbAddedDisks, SkipScript
    <2>2. Goes(s)
      BY <1>8, LocalTypes, NextFunctionGoes DEF RbAddedDisks, Phases
    <2> QED  BY <1>8, <2>1, <2>2, Frame, GoesMoves
             DEF RbAddedDisks, DataOK, Phases
  <1>9. CASE RbConnections(s)
    <2>1. Goes(s)
      BY <1>9, LocalTypes, NextFunctionGoes DEF RbConnections, Phases
    <2> QED  BY <1>9, <2>1, Frame, GoesMoves
             DEF RbConnections, DataOK, Phases
  <1>10. CASE RbUndedicate(s)
    <2>1. PICK f \in ses[s].todo :
            /\ \/ undedicate_device(f, VmOf[s])
               \/ UNCHANGED <<dedicated, online>>
            /\ Loop(s, "rb_undedicate", ses[s].todo \ {f},
                    "rb_decrease", ses[s].fcps)
      BY <1>10 DEF RbUndedicate
    <2>2. Goes(s)
      BY <2>1, LocalTypes, LoopGoes DEF Phases
    <2>3. ZvmOK'
      BY <1>10, <2>1, LocalTypes, Undedicating DEF RbUndedicate
    <2> QED  BY <1>10, <2>2, <2>3, Frame, GoesMoves
             DEF RbUndedicate, DataOK, Phases
  <1>11. CASE RbDecrease(s)
    <2>1. PICK f \in ses[s].todo :
            /\ \/ Transaction(decrease_connections(fcp, {f}))
               \/ Transaction(fcp)
            /\ Loop(s, "rb_decrease", ses[s].todo \ {f}, "rb_usage",
                    ses[s].fcps)
      BY <1>11 DEF RbDecrease
    <2>2. Goes(s)
      BY <2>1, LocalTypes, LoopGoes DEF Phases
    <2>3. TableOK'
      BY <1>0, <2>1, LocalTypes, Decreasing DEF Transaction, TableOK
    <2> QED  BY <1>11, <2>1, <2>2, <2>3, Frame, GoesMoves
             DEF RbDecrease, Transaction, DataOK, Phases
  <1>12. CASE RbUsage(s)
    <2>1. Goes(s)
      BY <1>12, ZeroIsFcps, NextFunctionGoes DEF RbUsage, Phases, Goes
    <2> QED  BY <1>12, <2>1, Frame, GoesMoves DEF RbUsage, DataOK, Phases
  <1>13. CASE RbUnreserve(s)
    <2>1. TableOK'
      BY <1>0, <1>13, LocalTypes, Unreserving
      DEF RbUnreserve, Transaction, TableOK
    <2> QED  BY <1>13, <2>1, Frame, GoesMoves
             DEF RbUnreserve, Transaction, DataOK, Phases, Goes
  <1>14. CASE RbRead(s)
    BY <1>14, ReadGoes, Frame, GoesMoves DEF RbRead, DataOK, Phases
  <1> QED  BY <1>1, <1>2, <1>3, <1>4, <1>5, <1>6, <1>7, <1>8, <1>9, <1>10,
              <1>11, <1>12, <1>13, <1>14 DEF DoAttach

\* The way into the undedicate loop of _do_detach, or past it.
LEMMA ToUndedicateGoes ==
  ASSUME IInv, NEW s \in Session, ToUndedicate(s)
  PROVE  Goes(s) /\ VolumeOK'
  <1>1. CASE /\ ses' = [ses EXCEPT ![s].pc = "undedicate",
                                   ![s].todo = Zero(s)]
             /\ UNCHANGED <<vm_lock, volume>>
    BY <1>1, ZeroIsFcps, SetTodoGoes, Frame DEF Phases
  <1>2. CASE Detached(s)
    BY <1>2, DetachedGoes
  <1> QED  BY <1>1, <1>2 DEF ToUndedicate

\* Each phase of _do_detach and of its rollback keeps the invariant.
LEMMA DetachIInv ==
  ASSUME IInv, NEW s \in Session, DoDetach(s)
  PROVE  IInv'
  <1> USE DEF client, zvm
  <1>0. TableOK
    BY DataOfIInv DEF DataOK
  <1>1. CASE Decrease(s)
    <2> DEFINE table == decrease_connections(fcp, ses[s].fcps)
               conns == [f \in Fcp |-> IF f \in ses[s].fcps
                                       THEN table[f].connections ELSE 0]
    <2>1. TableOK' /\ table \in Table
      BY <1>0, <1>1, LocalTypes, Decreasing DEF Decrease, Transaction, TableOK
    <2>2. CASE ses[s].root \/ ses[s].only
      BY <1>1, <2>1, <2>2, DetachedGoes, Frame, GoesMoves
      DEF Decrease, Transaction, DataOK
    <2>3. CASE ~(ses[s].root \/ ses[s].only)
      <3>1. conns \in [Fcp -> Nat]
        BY <2>1 DEF Table, Row
      <3>2. /\ ses' = [ses EXCEPT ![s].pc = "exist", ![s].conns = conns]
            /\ UNCHANGED <<vm_lock, volume>>
        BY <1>1, <2>3 DEF Decrease
      <3> HIDE DEF conns, table
      <3> DEFINE l == [ses[s] EXCEPT !.pc = "exist", !.conns = conns]
      <3>3. ses[s] \in Locals
        BY DEF IInv, TypeOK
      <3>4. l \in Locals
        BY <3>1, <3>3 DEF Locals
      <3>5. l.pc = "exist"
        BY <3>3 DEF Locals
      <3>6. ses' = [ses EXCEPT ![s] = l]
        BY <3>2 DEF IInv, TypeOK
      <3> HIDE DEF l
      <3>7. Goes(s)
        BY <3>2, <3>4, <3>5, <3>6 DEF Goes, Phases
      <3> QED  BY <1>1, <2>1, <3>2, <3>7, Frame, GoesMoves
               DEF Decrease, Transaction, DataOK
    <2> QED  BY <2>2, <2>3
  <1>2. CASE CheckUserid(s)
    <2>1. Goes(s) /\ VolumeOK'
      BY <1>2, GotoGoes, DetachedGoes, Frame DEF CheckUserid, Phases
    <2> QED  BY <1>2, <2>1, Frame, GoesMoves DEF CheckUserid, DataOK, Phases
  <1>3. CASE RemoveDisks(s)
    <2>1. \/ online' = [online EXCEPT ![VmOf[s]] = @ \ ses[s].fcps]
          \/ UNCHANGED online
      BY <1>3 DEF RemoveDisks, SkipScript
    <2>2. ZvmOK'
      BY <1>3, <2>1, LocalTypes, Scripting DEF RemoveDisks
    <2>3. Goes(s) /\ VolumeOK'
      BY <1>3, ToUndedicateGoes DEF RemoveDisks
    <2> QED  BY <1>3, <2>2, <2>3, Frame, GoesMoves
             DEF RemoveDisks, DataOK, Phases
  <1>4. CASE FailRemoveDisks(s)
    <2>1. PICK fs \in SUBSET Fcp :
            online' = [online EXCEPT ![VmOf[s]] = @ \ fs]
      BY <1>4, LocalTypes DEF FailRemoveDisks
    <2>2. ZvmOK'
      BY <1>4, <2>1, LocalTypes, Scripting DEF FailRemoveDisks
    <2>3. Goes(s) /\ VolumeOK'
      BY <1>4, GotoGoes, ToUndedicateGoes, Frame DEF FailRemoveDisks, Phases
    <2> QED  BY <1>4, <2>2, <2>3, Frame, GoesMoves
             DEF FailRemoveDisks, DataOK, Phases
  <1>5. CASE Undedicate(s)
    <2>1. PICK f \in ses[s].todo :
            /\ undedicate_device(f, VmOf[s])
            /\ \/ /\ ses' = [ses EXCEPT ![s].todo = @ \ {f}]
                  /\ UNCHANGED <<vm_lock, volume>>
               \/ Detached(s)
      BY <1>5 DEF Undedicate
    <2>2. ZvmOK'
      BY <1>5, <2>1, LocalTypes, Undedicating DEF Undedicate
    <2>3. Goes(s) /\ VolumeOK'
      BY <1>5, <2>1, RoundGoes, DetachedGoes, Frame DEF Undedicate, Phases
    <2> QED  BY <1>5, <2>2, <2>3, Frame, GoesMoves
             DEF Undedicate, DataOK, Phases
  <1>6. CASE FailUndedicate(s)
    <2>1. PICK f \in ses[s].todo : \/ UNCHANGED <<dedicated, online>>
                                   \/ undedicate_device(f, VmOf[s])
      BY <1>6 DEF FailUndedicate
    <2>2. ZvmOK'
      BY <1>6, <2>1, LocalTypes, Undedicating DEF FailUndedicate
    <2>3. Goes(s) /\ VolumeOK'
      BY <1>6, ZeroIsFcps, SetTodoGoes, DetachedGoes, Frame
      DEF FailUndedicate, Phases
    <2> QED  BY <1>6, <2>2, <2>3, Frame, GoesMoves
             DEF FailUndedicate, DataOK, Phases
  <1>7. CASE RbDedicate(s)
    <2>1. PICK f \in ses[s].todo :
            /\ \/ dedicated' = [dedicated EXCEPT ![f] = VmOf[s]]
               \/ UNCHANGED dedicated
            /\ Loop(s, "rb_dedicate", ses[s].todo \ {f}, "rb_removed", {})
      BY <1>7 DEF RbDedicate
    <2>2. Goes(s)
      BY <2>1, LocalTypes, LoopGoes DEF Phases
    <2>3. ZvmOK'
      BY <1>7, <2>1, LocalTypes, Dedicating DEF RbDedicate
    <2> QED  BY <1>7, <2>2, <2>3, Frame, GoesMoves
             DEF RbDedicate, DataOK, Phases
  <1>8. CASE RbRemovedDisks(s)
    <2>1. Present(s) \in SUBSET Fcp
      BY LocalTypes DEF Present
    <2>2. ZvmOK'
      BY <1>8, <2>1, LocalTypes, Scripting DEF RbRemovedDisks, SkipScript
    <2>3. Goes(s)
      BY <1>8, LocalTypes, SetTodoGoes DEF RbRemovedDisks, Phases
    <2> QED  BY <1>8, <2>2, <2>3, Frame, GoesMoves
             DEF RbRemovedDisks, DataOK, Phases
  <1>9. CASE RbIncrease(s)
    <2>1. PICK f \in ses[s].todo :
            /\ \/ /\ CanIncrease(fcp, {f}, VmOf[s])
                  /\ Transaction(increase_connections(fcp, {f}))
               \/ Transaction(fcp)
            /\ \/ /\ ses' = [ses EXCEPT ![s].todo = @ \ {f}]
                  /\ UNCHANGED vm_lock
               \/ Leave(s)
      BY <1>9 DEF RbIncrease
    <2>2. TableOK'
      BY <1>0, <2>1, LocalTypes, Increasing DEF Transaction, TableOK
    <2>3. ses[s].pc \in Phases
      BY <1>9 DEF RbIncrease, Phases
    <2>4. Goes(s)
      BY <2>1, <2>3, RoundGoes DEF Goes
    <2> QED  BY <1>9, <2>1, <2>2, <2>3, <2>4, Frame, GoesMoves
             DEF RbIncrease, Transaction, DataOK
  <1> QED  BY <1>1, <1>2, <1>3, <1>4, <1>5, <1>6, <1>7, <1>8, <1>9
           DEF DoDetach

\* A rollback that a transaction ends keeps the invariant.
LEMMA AbortIInv ==
  ASSUME IInv, NEW s \in Session, RbAborts(s)
  PROVE  IInv'
  BY Frame, GoesMoves DEF RbAborts, DataOK, Phases, Goes, client, zvm

\* A client gets a connector ...
LEMMA Holding ==
  ASSUME IInv, NEW s \in Session, NEW t \in Template \cup {NoTmpl},
         NEW fs \in SUBSET Fcp, fs # {} => t \in Template,
         held' = [held EXCEPT ![s] = [tmpl |-> t, fcps |-> fs]]
  PROVE  HeldOK'
  BY DataOfIInv DEF DataOK, HeldOK

\* ... or gives its own up.
LEMMA GivingUp ==
  ASSUME IInv, NEW s \in Session, held' = [held EXCEPT ![s] = NoConnector]
  PROVE  HeldOK'
  BY DataOfIInv DEF DataOK, HeldOK, NoConnector

\* A step that touches no lock and no request.
LEMMA StillIInv ==
  ASSUME IInv, UNCHANGED <<db_lock, vm_lock, ses>>, DataOK'
  PROVE  IInv'
  BY DEF IInv, TypeOK, UsedRowHasAssigner, LocksMatchRequests, KnowsTemplate,
         DataOK, TableOK, HeldOK, ZvmOK, VolumeOK, VolumeType, Table

\* get_volume_connector, after the query of z/VM has begun.
LEMMA ConnectorIInv ==
  ASSUME IInv, NEW s \in Session, Connector(s)
  PROVE  IInv'
  <1> USE DEF client, zvm
  <1>0. TableOK
    BY DataOfIInv DEF DataOK
  <1>1. CASE QueryZvm(s)
    <2> DEFINE free == {f \in Fcp : dedicated[f] = NoVm}
               l == [ses[s] EXCEPT !.pc = ses[s].next, !.free = free]
    <2>1. ses[s] \in Locals /\ ses[s].pc = "query" /\ ses[s].tmpl \in Template
      BY <1>1 DEF IInv, TypeOK, KnowsTemplate, QueryZvm
    <2>2. l \in Locals
      BY <2>1 DEF Locals
    <2>3. l.pc \in {"allocate", "release"} /\ l.tmpl = ses[s].tmpl
      BY <2>1 DEF Locals
    <2>4. ses' = [ses EXCEPT ![s] = l] /\ ses'[s] = l
      BY <1>1 DEF IInv, TypeOK, QueryZvm
    <2> HIDE DEF l
    <2>5. MovesTo(s, l)
      BY <1>1, <2>1, <2>2, <2>3, <2>4 DEF MovesTo, Stayed, InDb, QueryZvm
    <2> QED  BY <1>1, <2>5, Frame, MoveIInv DEF QueryZvm, DataOK
  <1>2. CASE Allocate(s)
    <2>1. ses[s].tmpl \in Template /\ VmOf[s] \in Vm
      BY <1>2, LocalTypes DEF IInv, KnowsTemplate, Allocate
    <2>2. MovesTo(s, Idle)
      BY <1>2, LeaveMoves DEF Allocate, InDb
    <2>3. CASE held' = [held EXCEPT ![s] = NoConnector] /\ UNCHANGED fcp
      BY <1>2, <2>2, <2>3, GivingUp, Frame, MoveIInv DEF Allocate, DataOK
    <2>4. ASSUME NEW fs \in get_fcp_devices(fcp, ses[s].free, ses[s].tmpl),
                 fcp' = reserve_fcps(fcp, fs, VmOf[s], ses[s].tmpl),
                 held' = [held EXCEPT ![s] = [tmpl |-> ses[s].tmpl,
                                              fcps |-> fs]]
          PROVE  IInv'
      <3>1. fs \in SUBSET Fcp
        BY ChoicesAreFcps
      <3>2. TableOK'
        BY <1>0, <2>1, <2>4, <3>1, Reserving DEF TableOK
      <3>3. HeldOK'
        BY <2>1, <2>4, <3>1, Holding
      <3> QED  BY <1>2, <2>2, <3>2, <3>3, Frame, MoveIInv
               DEF Allocate, DataOK
    <2> QED  BY <1>2, <2>3, <2>4 DEF Allocate
  <1>3. CASE Release(s)
    <2> DEFINE fs == {f \in get_reserved_fcps_from_assigner(
                              fcp, VmOf[s], ses[s].tmpl) :
                        fcp[f].connections = 0}
    <2>1. fs \in SUBSET Fcp
      BY MappingAssumption
      DEF get_reserved_fcps_from_assigner, FcpsOfTemplate
    <2>2. fcp' = unreserve_fcps(fcp, fs)
      BY <1>3 DEF Release
    <2> HIDE DEF fs
    <2>3. TableOK'
      BY <1>0, <2>1, <2>2, Unreserving DEF TableOK
    <2>4. MovesTo(s, Idle)
      BY <1>3, LeaveMoves DEF Release, InDb
    <2> QED  BY <1>3, <2>3, <2>4, Frame, MoveIInv DEF Release, DataOK
  <1>4. CASE FailConnector(s)
    <2>1. MovesTo(s, Idle)
      BY <1>4, LeaveMoves DEF FailConnector, InDb
    <2> QED  BY <1>4, <2>1, Frame, MoveIInv DEF FailConnector, DataOK
  <1> QED  BY <1>1, <1>2, <1>3, <1>4 DEF Connector

\* Requests of clients.
LEMMA CallIInv ==
  ASSUME IInv, NEW s \in Session, Call(s)
  PROVE  IInv'
  <1> USE DEF client, zvm, sdk
  <1>0. VmOf[s] \in Vm
    BY LocalTypes
  <1>1. ASSUME NEW t \in Template, ReuseFcps(s, t)
        PROVE  IInv'
    <2> DEFINE fs == get_allocated_fcps_from_assigner(fcp, VmOf[s], t)
    <2>1. fs \in SUBSET Fcp
      BY MappingAssumption
      DEF get_allocated_fcps_from_assigner, FcpsOfTemplate
    <2>2. held' = [held EXCEPT ![s] = [tmpl |-> t, fcps |-> fs]]
      BY <1>1 DEF ReuseFcps
    <2> HIDE DEF fs
    <2>3. HeldOK'
      BY <2>1, <2>2, Holding
    <2> QED  BY <1>1, <2>3, Frame, StillIInv DEF ReuseFcps, DataOK
  <1>2. ASSUME NEW t \in Template, BeginAllocate(s, t)
        PROVE  IInv'
    <2> DEFINE l == [Idle EXCEPT !.pc = "query", !.next = "allocate",
                                 !.tmpl = t]
    <2>1. l \in Locals /\ l.pc = "query" /\ l.tmpl = t
      BY DEF Idle, Locals, NoConns
    <2>2. Enter(s, l) /\ db_lock = NoSession /\ db_lock' = s
      BY <1>2 DEF BeginAllocate
    <2> HIDE DEF l
    <2>3. MovesTo(s, l)
      BY <2>1, <2>2, EnterMoves DEF InDb
    <2> QED  BY <1>2, <2>3, Frame, MoveIInv DEF BeginAllocate, DataOK
  <1>3. ASSUME NEW t \in Template, BeginRelease(s, t)
        PROVE  IInv'
    <2> DEFINE l == [Idle EXCEPT !.pc = "query", !.next = "release",
                                 !.tmpl = t]
    <2>1. l \in Locals /\ l.pc = "query" /\ l.tmpl = t
      BY DEF Idle, Locals, NoConns
    <2>2. Enter(s, l) /\ db_lock = NoSession /\ db_lock' = s
      BY <1>3 DEF BeginRelease
    <2> HIDE DEF l
    <2>3. MovesTo(s, l)
      BY <2>1, <2>2, EnterMoves DEF InDb
    <2>4. HeldOK'
      BY <1>3, GivingUp DEF BeginRelease
    <2> QED  BY <1>3, <2>3, <2>4, Frame, MoveIInv DEF BeginRelease, DataOK
  <1>4. ASSUME NEW v \in Volume, NEW root \in BOOLEAN, NEW rb \in BOOLEAN,
               CallAttach(s, v, root, rb)
        PROVE  IInv'
    <2> DEFINE l == [Idle EXCEPT !.pc = "reserve", !.vol = v,
                       !.fcps = held[s].fcps, !.tmpl = held[s].tmpl,
                       !.root = root, !.rb = rb]
    <2>0. HeldOK /\ ZvmOK
      BY DataOfIInv DEF DataOK
    <2>1. /\ held[s].fcps \in SUBSET Fcp
          /\ held[s].tmpl \in Template
      BY <1>4, <2>0 DEF HeldOK, CallAttach
    <2>2. l \in Locals /\ l.pc = "reserve" /\ l.tmpl = held[s].tmpl
      BY <2>1 DEF Idle, Locals, NoConns
    <2>3. Enter(s, l) /\ UNCHANGED db_lock
      BY <1>4 DEF CallAttach
    <2> HIDE DEF l
    <2>4. MovesTo(s, l)
      BY <2>1, <2>2, <2>3, EnterMoves DEF InDb
    <2>5. HeldOK'
      BY <1>4, GivingUp, Frame DEF CallAttach
    <2>6. ZvmOK'
      BY <1>0, <1>4, <2>0 DEF CallAttach, ZvmOK
    <2> QED  BY <1>4, <2>4, <2>5, <2>6, Frame, MoveIInv
             DEF CallAttach, DataOK
  <1>5. ASSUME NEW v \in Volume, NEW only \in BOOLEAN, NEW rb \in BOOLEAN,
               CallDetach(s, v, only, rb)
        PROVE  IInv'
    <2> DEFINE l == [Idle EXCEPT !.pc = "decrease", !.vol = v,
                       !.fcps = volume[v].fcps, !.tmpl = volume[v].tmpl,
                       !.root = volume[v].root, !.only = only, !.rb = rb]
    <2>1. volume[v] \in VolumeType
      BY DataOfIInv DEF DataOK, VolumeOK
    <2>2. l \in Locals /\ l.pc = "decrease"
      BY <2>1 DEF Idle, Locals, NoConns, VolumeType
    <2>3. Enter(s, l) /\ UNCHANGED db_lock
      BY <1>5 DEF CallDetach
    <2> HIDE DEF l
    <2>4. MovesTo(s, l)
      BY <2>2, <2>3, EnterMoves DEF InDb
    <2> QED  BY <1>5, <2>4, Frame, MoveIInv DEF CallDetach, DataOK
  <1> QED  BY <1>1, <1>2, <1>3, <1>4, <1>5 DEF Call, Flag

\* Guests are deleted and created, and the server stops.
LEMMA EnvironmentIInv ==
  ASSUME IInv, (\E vm \in Vm : Guest(vm)) \/ Crash
  PROVE  IInv'
  <1> USE DEF client, zvm, sdk
  <1>0. DataOK
    BY DataOfIInv
  <1>1. ASSUME NEW vm \in Vm, DeleteUserid(vm)
        PROVE  IInv'
    <2>1. ZvmOK'
      BY <1>0, <1>1 DEF DeleteUserid, DataOK, ZvmOK
    <2> QED  BY <1>1, <2>1, Frame, StillIInv DEF DeleteUserid, DataOK
  <1>2. ASSUME NEW vm \in Vm, ResetFcps(vm)
        PROVE  IInv'
    <2>1. TableOK'
      BY <1>0, <1>2, Resetting DEF ResetFcps, Transaction, DataOK, TableOK
    <2>2. ZvmOK'
      BY <1>0, <1>2 DEF ResetFcps, DataOK, ZvmOK
    <2>3. HeldOK'
      BY <1>0, <1>2 DEF ResetFcps, DataOK, HeldOK, NoConnector
    <2>4. VolumeOK'
      BY <1>0, <1>2 DEF ResetFcps, DataOK, VolumeOK, VolumeType, Unused
    <2> QED  BY <1>2, <2>1, <2>2, <2>3, <2>4, StillIInv
             DEF ResetFcps, Transaction, DataOK
  <1>3. ASSUME NEW vm \in Vm, CreateUserid(vm)
        PROVE  IInv'
    <2>1. ZvmOK'
      BY <1>0, <1>3 DEF CreateUserid, DataOK, ZvmOK
    <2> QED  BY <1>3, <2>1, Frame, StillIInv DEF CreateUserid, DataOK
  <1>4. CASE Crash
    <2>1. VolumeOK'
      <3> SUFFICES ASSUME NEW v \in Volume PROVE volume'[v] \in VolumeType
        BY <1>4 DEF Crash, VolumeOK
      <3>1. volume[v] \in VolumeType
        BY <1>0 DEF DataOK, VolumeOK
      <3> QED  BY <1>4, <3>1 DEF Crash, VolumeType
    <2>2. DataOK'
      BY <1>4, <2>1, Frame DEF Crash, DataOK
    <2>3. LocksMatchRequests'
      BY <1>4, SessionAssumption DEF Crash, LocksMatchRequests, Idle
    <2>4. Idle \in Locals
      BY DEF Idle, Locals, NoConns
    <2>5. TypeOK'
      BY <1>4, <2>2, <2>4
      DEF Crash, DataOK, TableOK, HeldOK, ZvmOK, VolumeOK, VolumeType, Table,
          TypeOK
    <2>6. KnowsTemplate'
      BY <1>4, <2>2 DEF Crash, DataOK, HeldOK, KnowsTemplate, Idle
    <2> QED  BY <2>2, <2>3, <2>5, <2>6
             DEF IInv, UsedRowHasAssigner, DataOK, TableOK
  <1> QED  BY <1>1, <1>2, <1>3, <1>4 DEF Guest

\* The invariant is inductive.
LEMMA NextIInv == IInv /\ [Next]_vars => IInv'
  <1> SUFFICES ASSUME IInv, [Next]_vars PROVE IInv'
    OBVIOUS
  <1>1. CASE UNCHANGED vars
    BY <1>1, Frame, StillIInv DEF vars, sdk, zvm, client, DataOK
  <1>2. ASSUME NEW s \in Session, Call(s) \/ Step(s)
        PROVE  IInv'
    BY <1>2, CallIInv, ConnectorIInv, AttachIInv, DetachIInv, AbortIInv
    DEF Step
  <1>3. CASE (\E vm \in Vm : Guest(vm)) \/ Crash
    BY <1>3, EnvironmentIInv
  <1> QED  BY <1>1, <1>2, <1>3 DEF Next

(***************************************************************************)
(* The inductive invariant holds for any devices, templates, virtual       *)
(* machines and threads, and whatever of EnvKinds happens.                 *)
(***************************************************************************)
THEOREM InvariantHolds == Spec => []IInv
  BY InitIInv, NextIInv, PTL DEF Spec

(***************************************************************************)
(* A row of the FCP table in use names its virtual machine, and a reserved *)
(* one its template, after every history of requests, rollbacks, crashes   *)
(* and deletions: the consistency that FCPDbOperator's statements keep     *)
(* together.                                                               *)
(***************************************************************************)
THEOREM RowsStayConsistent == Spec => []UsedRowHasAssigner
  <1>1. IInv => UsedRowHasAssigner
    BY DEF IInv
  <1> QED  BY <1>1, InvariantHolds, PTL

(***************************************************************************)
(* No way through get_volume_connector, _do_attach, _do_detach and their   *)
(* rollbacks leaves the lock of a virtual machine or of the database       *)
(* behind, and none goes on without the lock it entered with.              *)
(***************************************************************************)
THEOREM LocksAreGivenBack == Spec => []LocksMatchRequests
  <1>1. IInv => LocksMatchRequests
    BY DEF IInv
  <1> QED  BY <1>1, InvariantHolds, PTL
=============================================================================
