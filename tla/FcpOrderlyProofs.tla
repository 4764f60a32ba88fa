-------------------------- MODULE FcpOrderlyProofs --------------------------
(***************************************************************************)
(* Proofs about FcpVolume for clients that use what they were given as     *)
(* intended.  The devices then stay with their owners, and the connections *)
(* in the table are those of the volumes, whatever fails and is rolled     *)
(* back.  A step of a request is described once (Respects) and shown to    *)
(* keep the invariant; each phase is then shown to be such a step.         *)
(***************************************************************************)
EXTENDS FcpVolumeProofs, FiniteSetTheorems

(***************************************************************************)
(* One thread serves a virtual machine.  Clients use a connector once,     *)
(* detach a volume once and while its guest is there, and do not delete a  *)
(* guest under a request; and they do not give up the rollback where       *)
(* transactions fail, nor does it fail in the database.  Everything else   *)
(* of EnvKinds may happen.                                                 *)
(***************************************************************************)
Orderly ==
  /\ \A s, r \in Session : VmOf[s] = VmOf[r] => s = r
  /\ "stale connector" \notin Env /\ "detach twice" \notin Env
  /\ "detach deleted" \notin Env /\ "delete busy" \notin Env
  /\ "no rollback" \notin Env \/ "database error" \notin Env
  /\ "rollback database error" \notin Env

\* Some requests have do_rollback=False; the server may stop.
SomeKeep == "no rollback" \in Env
MayStop == "crash" \in Env

Attaching == {"reserve", "increase", "dedicate", "add_disks", "rb_added",
              "rb_conns", "rb_undedicate", "rb_decrease", "rb_usage",
              "rb_unreserve"}
Detaching == {"decrease", "exist", "remove_disks", "undedicate",
              "rb_dedicate", "rb_removed", "rb_increase"}

\* What a request works on: a volume that is not attached, with devices that
\* its connector had, or an attached one, with the devices of that volume.
WorkOK(s) ==
  /\ ses[s].pc \notin Attaching \cup Detaching =>
       ses[s].vol = NoVolume /\ ses[s].fcps = {}
  /\ ses[s].pc \in Attaching =>
       /\ ses[s].vol \in Volume /\ ~volume[ses[s].vol].attached
       /\ held[s].fcps = {}
  /\ ses[s].pc \in Detaching =>
       /\ ses[s].vol \in Volume /\ volume[ses[s].vol].attached
       /\ volume[ses[s].vol].vm = VmOf[s]
       /\ volume[ses[s].vol].fcps = ses[s].fcps
  /\ ses[s].todo \subseteq ses[s].fcps
  /\ ~ses[s].rb => SomeKeep
  /\ ses[s].pc = "release" \/ (ses[s].pc = "query" /\ ses[s].next = "release")
       => held[s].fcps = {}
  /\ deleting[VmOf[s]] => ses[s].pc = "idle"

\* No two requests work on the same volume.
Apart ==
  \A s, r \in Session :
    s # r /\ ses[s].vol = ses[r].vol => ses[s].vol = NoVolume

\* The device is reserved for the virtual machine.
Mine(f, vm) == fcp[f].reserved /\ fcp[f].assigner = vm

\* Everything that somebody knows of is reserved for them.
OwnersOK ==
  /\ \A s \in Session : \A f \in held[s].fcps \cup ses[s].fcps : Mine(f, VmOf[s])
  /\ \A v \in Volume : volume[v].attached =>
       \A f \in volume[v].fcps : Mine(f, volume[v].vm)

\* The request has a connection of the device: it has been counted, or is
\* still counted.
Counts(s, f) ==
  \/ /\ ses[s].pc \in {"dedicate", "add_disks", "rb_added", "rb_conns",
                       "rb_undedicate", "decrease"}
     /\ f \in ses[s].fcps
  \/ ses[s].pc = "rb_decrease" /\ f \in ses[s].todo
  \/ ses[s].pc = "rb_increase" /\ f \in ses[s].fcps \ ses[s].todo

\* The volume has a connection of the device, by the request that works on it
\* or, if there is none, because it is attached.
Uses(v, f) ==
  \/ \E s \in Session : ses[s].vol = v /\ Counts(s, f)
  \/ /\ \A s \in Session : ses[s].vol # v
     /\ volume[v].attached /\ f \in volume[v].fcps
Users(f) == {v \in Volume : Uses(v, f)}

CountOK ==
  \A f \in Fcp :
    /\ IsFiniteSet(Users(f))
    /\ Cardinality(Users(f)) <= fcp[f].connections
    /\ ~MayStop => Cardinality(Users(f)) = fcp[f].connections

\* What a request has read and not used yet is still so.
ReadOK(s) ==
  /\ ses[s].pc \in {"rb_added", "rb_conns", "rb_usage"} =>
       \A f \in ses[s].fcps \ ses[s].todo :
         ses[s].conns[f] = fcp[f].connections
  /\ ses[s].pc = "rb_unreserve" =>
       \A f \in ses[s].todo : fcp[f].connections = 0
  /\ ses[s].pc = "allocate" =>
       \A f \in ses[s].free : dedicated[f] = NoVm \/ fcp[f].reserved
  /\ ses[s].pc \in {"exist", "remove_disks", "undedicate", "rb_dedicate"} =>
       \A f \in ses[s].fcps : ses[s].conns[f] = fcp[f].connections
  /\ ses[s].pc \in {"undedicate", "rb_dedicate"} => ses[s].todo \subseteq Zero(s)
  /\ ses[s].pc = "rb_undedicate" =>
       \A f \in ses[s].todo : fcp[f].connections = 1

\* The inductive invariant.
OInv ==
  /\ IInv
  /\ \A s \in Session : WorkOK(s) /\ ReadOK(s)
  /\ Apart /\ OwnersOK /\ CountOK
  /\ ReservedWhileConnected /\ DedicatedToAssigner

-----------------------------------------------------------------------------
(* Facts that follow from the invariant *)

\* The rows of devices have their types.
LEMMA RowTypes ==
  ASSUME IInv, NEW f \in Fcp
  PROVE  /\ fcp[f].connections \in Nat
         /\ fcp[f].reserved \in BOOLEAN
         /\ fcp[f].assigner \in Vm \cup {NoVm}
         /\ dedicated[f] \in Vm \cup {NoVm}
  BY DEF IInv, TypeOK, Row

\* A device belongs to one virtual machine, so to one session at most.
LEMMA OneOwner ==
  ASSUME Orderly, NEW f, NEW s \in Session, NEW r \in Session,
         Mine(f, VmOf[s]), Mine(f, VmOf[r])
  PROVE  s = r
  BY DEF Orderly, Mine

\* The volume of a request is used by that request alone.
LEMMA UsesOfRequest ==
  ASSUME Apart, NEW s \in Session, ses[s].vol # NoVolume, NEW f
  PROVE  Uses(ses[s].vol, f) <=> Counts(s, f)
  BY DEF Uses, Apart

\* The devices of a request that it counts have connections.
LEMMA CountedIsConnected ==
  ASSUME OInv, NEW s \in Session, ses[s].vol \in Volume, NEW f \in Fcp,
         Counts(s, f)
  PROVE  fcp[f].connections > 0
  <1>1. ses[s].vol \in Users(f)
    BY UsesOfRequest, SessionAssumption DEF Users, OInv
  <1>2. IsFiniteSet(Users(f)) /\ Cardinality(Users(f)) <= fcp[f].connections
    BY DEF OInv, CountOK
  <1>3. Cardinality(Users(f)) \in Nat /\ Cardinality(Users(f)) # 0
    BY <1>1, <1>2, FS_CardinalityType, FS_EmptySet
  <1> QED  BY <1>2, <1>3, RowTypes DEF OInv

\* The devices of an attached volume that nobody works on have connections.
LEMMA AttachedIsConnected ==
  ASSUME OInv, NEW v \in Volume, volume[v].attached,
         \A s \in Session : ses[s].vol # v,
         NEW f \in volume[v].fcps
  PROVE  fcp[f].connections > 0
  <1>0. f \in Fcp
    BY DEF OInv, IInv, TypeOK
  <1>1. v \in Users(f)
    BY DEF Users, Uses
  <1>2. IsFiniteSet(Users(f)) /\ Cardinality(Users(f)) <= fcp[f].connections
    BY <1>0 DEF OInv, CountOK
  <1>3. Cardinality(Users(f)) \in Nat /\ Cardinality(Users(f)) # 0
    BY <1>1, <1>2, FS_CardinalityType, FS_EmptySet
  <1> QED  BY <1>0, <1>2, <1>3, RowTypes DEF OInv

-----------------------------------------------------------------------------
(* Steps of requests *)

\* The other sessions are where they were.
Alone(s) == \A r \in Session \ {s} : ses'[r] = ses[r]

\* The request goes on.
On(s, pc, todo) ==
  /\ Alone(s)
  /\ ses'[s].pc = pc /\ ses'[s].todo = todo
  /\ ses'[s].vol = ses[s].vol /\ ses'[s].fcps = ses[s].fcps
  /\ ses'[s].rb = ses[s].rb /\ ses'[s].root = ses[s].root

\* The request is over.
Ends(s) ==
  /\ Alone(s)
  /\ ses'[s].pc = "idle" /\ ses'[s].vol = NoVolume
  /\ ses'[s].fcps = {} /\ ses'[s].todo = {} /\ ses'[s].rb = TRUE
  /\ ses'[s].root = FALSE

\* Goto, Loop, a round of a loop, and Leave.
LEMMA GotoOn ==
  ASSUME IInv, NEW s \in Session, NEW pc, Goto(s, pc)
  PROVE  On(s, pc, ses[s].todo) /\ ses'[s].conns = ses[s].conns
  BY DEF Goto, On, Alone, IInv, TypeOK, Locals

LEMMA SetTodoOn ==
  ASSUME IInv, NEW s \in Session, NEW pc, NEW todo,
         ses' = [ses EXCEPT ![s].pc = pc, ![s].todo = todo]
  PROVE  On(s, pc, todo) /\ ses'[s].conns = ses[s].conns
  BY DEF On, Alone, IInv, TypeOK, Locals

LEMMA LoopOn ==
  ASSUME IInv, NEW s \in Session, NEW pc, NEW todo, NEW after, NEW todo_after,
         Loop(s, pc, todo, after, todo_after)
  PROVE  /\ \/ todo # {} /\ On(s, pc, todo)
            \/ todo = {} /\ On(s, after, todo_after)
         /\ ses'[s].conns = ses[s].conns
  BY SetTodoOn DEF Loop

LEMMA RoundOn ==
  ASSUME IInv, NEW s \in Session, NEW f,
         ses' = [ses EXCEPT ![s].todo = @ \ {f}]
  PROVE  On(s, ses[s].pc, ses[s].todo \ {f}) /\ ses'[s].conns = ses[s].conns
  BY DEF On, Alone, IInv, TypeOK, Locals

LEMMA NextFunctionOn ==
  ASSUME IInv, NEW s \in Session, NEW pc, NEW todo, NextFunction(s, pc, todo)
  PROVE  On(s, pc, todo)
  BY DEF NextFunction, On, Alone, IInv, TypeOK, Locals

LEMMA LeaveEnds ==
  ASSUME IInv, NEW s \in Session, Leave(s)
  PROVE  Ends(s)
  BY DEF Leave, Ends, Alone, Idle, IInv, TypeOK

\* The table changes in the devices of the request only, and only in their
\* connections or templates.
TableStep(s) ==
  \/ fcp' = fcp
  \/ /\ db_lock = NoSession
     /\ \/ fcp' = reserve_fcps(fcp, ses[s].fcps, VmOf[s], ses[s].tmpl)
        \/ \E fs \in SUBSET ses[s].fcps :
             fcp' \in {increase_connections(fcp, fs),
                       decrease_connections(fcp, fs)}

\* Devices are taken from guests, or given to the guest of the request.
ZvmStep(s) ==
  /\ \A f \in Fcp : \/ dedicated'[f] \in {dedicated[f], NoVm}
                    \/ f \in ses[s].fcps /\ dedicated'[f] = VmOf[s]
  /\ UNCHANGED <<exists, deleting>>

\* The request goes on with attach or detach, or ends and leaves its volume
\* attached with its devices, or not attached.
Way(s) ==
  \/ /\ \E pc, todo : /\ On(s, pc, todo) /\ todo \subseteq ses[s].fcps
                      /\ \/ ses[s].pc \in Attaching /\ pc \in Attaching
                         \/ ses[s].pc \in Detaching /\ pc \in Detaching
     /\ volume' = volume
  \/ /\ Ends(s)
     /\ \A v \in Volume :
          \/ volume'[v] = volume[v]
          \/ /\ v = ses[s].vol
             /\ volume'[v].attached =>
                  volume'[v].vm = VmOf[s] /\ volume'[v].fcps = ses[s].fcps

\* The volume of the request is connected through the device afterwards.
CountsThen(s, f) ==
  \/ ses'[s].pc # "idle" /\ Counts(s, f)'
  \/ /\ ses'[s].pc = "idle"
     /\ volume'[ses[s].vol].attached /\ f \in volume'[ses[s].vol].fcps

\* The connections change as the volume of the request gets or loses one.
Shift(s, f) ==
  \/ /\ Counts(s, f) <=> CountsThen(s, f)
     /\ fcp'[f].connections = fcp[f].connections
  \/ /\ ~Counts(s, f) /\ CountsThen(s, f)
     /\ fcp'[f].connections = fcp[f].connections + 1
  \/ /\ Counts(s, f) /\ ~CountsThen(s, f)
     /\ fcp'[f].connections = fcp[f].connections - 1

\* A step of attach or detach that respects the others.
Respects(s) ==
  /\ ses[s].pc \in Attaching \cup Detaching
  /\ TableStep(s) /\ ZvmStep(s) /\ Way(s)
  /\ held' = held
  /\ \A f \in Fcp : Shift(s, f)
  /\ ReadOK(s)'

\* What the table says about owners does not change.
LEMMA SameOwners ==
  ASSUME OInv, NEW s \in Session, TableStep(s), NEW f \in Fcp
  PROVE  /\ fcp'[f].reserved = fcp[f].reserved
         /\ fcp'[f].assigner = fcp[f].assigner
         /\ f \notin ses[s].fcps => fcp'[f].connections = fcp[f].connections
         /\ f \in ses[s].fcps => Mine(f, VmOf[s])
  <1>1. fcp \in [Fcp -> Row] /\ ses[s].fcps \in SUBSET Fcp
    BY LocalTypes DEF OInv, IInv, TypeOK
  <1>2. f \in ses[s].fcps => Mine(f, VmOf[s])
    BY DEF OInv, OwnersOK
  <1>3. CASE fcp' = fcp
    BY <1>2, <1>3
  <1>4. CASE fcp' = reserve_fcps(fcp, ses[s].fcps, VmOf[s], ses[s].tmpl)
    BY <1>1, <1>2, <1>4 DEF reserve_fcps, Row, Mine
  <1>5. ASSUME NEW fs \in SUBSET ses[s].fcps,
               fcp' = increase_connections(fcp, fs)
        PROVE  /\ fcp'[f].reserved = fcp[f].reserved
               /\ fcp'[f].assigner = fcp[f].assigner
               /\ f \notin ses[s].fcps => fcp'[f].connections = fcp[f].connections
    BY <1>1, <1>5 DEF increase_connections, Row
  <1>6. ASSUME NEW fs \in SUBSET ses[s].fcps,
               fcp' = decrease_connections(fcp, fs)
        PROVE  /\ fcp'[f].reserved = fcp[f].reserved
               /\ fcp'[f].assigner = fcp[f].assigner
               /\ f \notin ses[s].fcps => fcp'[f].connections = fcp[f].connections
    BY <1>1, <1>6 DEF decrease_connections, Row
  <1> QED  BY <1>2, <1>3, <1>4, <1>5, <1>6 DEF TableStep

\* The requests stay in order.
LEMMA WorkKept ==
  ASSUME OInv, NEW s \in Session, Way(s), held' = held, deleting' = deleting
  PROVE  (\A r \in Session : WorkOK(r)') /\ Apart'
  <1>0. /\ WorkOK(s) /\ Apart /\ SessionAssumption
    BY SessionAssumption DEF OInv
  <1>1. Alone(s)
    BY DEF Way, On, Ends
  <1>2. ASSUME NEW r \in Session, r # s PROVE WorkOK(r)'
    <2>1. WorkOK(r) /\ ses'[r] = ses[r]
      BY <1>1, <1>2 DEF OInv, Alone
    <2>2. ses[r].vol \in Volume => volume'[ses[r].vol] = volume[ses[r].vol]
      BY <1>0, <1>2 DEF Way, Apart
    <2> QED  BY <2>1, <2>2 DEF WorkOK
  <1>3. CASE Ends(s)
    <2>1. WorkOK(s)'
      BY <1>3 DEF Ends, WorkOK, Attaching, Detaching
    <2>2. Apart'
      BY <1>0, <1>1, <1>3 DEF Ends, Apart, Alone
    <2> QED  BY <1>2, <2>1, <2>2
  <1>4. ASSUME NEW pc, NEW todo, On(s, pc, todo), todo \subseteq ses[s].fcps,
               \/ ses[s].pc \in Attaching /\ pc \in Attaching
               \/ ses[s].pc \in Detaching /\ pc \in Detaching,
               volume' = volume
        PROVE  (\A r \in Session : WorkOK(r)') /\ Apart'
    <2>1. pc # "idle" /\ pc # "release" /\ pc # "query" /\ ses[s].pc # "idle"
      BY <1>4 DEF Attaching, Detaching
    <2>2. ~(ses[s].pc \in Attaching /\ ses[s].pc \in Detaching) /\ ~(pc \in Attaching /\ pc \in Detaching)
      BY DEF Attaching, Detaching
    <2>3. WorkOK(s)'
      BY <1>0, <1>4, <2>1, <2>2 DEF On, WorkOK
    <2>4. Apart'
      BY <1>0, <1>1, <1>4 DEF On, Apart, Alone
    <2> QED  BY <1>2, <2>3, <2>4
  <1> QED  BY <1>3, <1>4 DEF Way

\* Devices stay with their owners, reserved and dedicated.
LEMMA OwnersKept ==
  ASSUME OInv, NEW s \in Session, Respects(s)
  PROVE  OwnersOK' /\ ReservedWhileConnected' /\ DedicatedToAssigner'
  <1>0. TableStep(s) /\ ZvmStep(s) /\ Way(s) /\ held' = held
    BY DEF Respects
  <1>1. /\ held \in [Session -> [tmpl : Template \cup {NoTmpl}, fcps : SUBSET Fcp]]
        /\ \A r \in Session : ses[r].fcps \in SUBSET Fcp
        /\ \A v \in Volume : volume[v].fcps \in SUBSET Fcp
    BY LocalTypes DEF OInv, IInv, TypeOK
  <1>2. OwnersOK /\ ReservedWhileConnected /\ DedicatedToAssigner
    BY DEF OInv
  <1>3. \A f \in Fcp : \A vm : Mine(f, vm)' <=> Mine(f, vm)
    BY <1>0, SameOwners DEF Mine
  <1>4. ASSUME NEW r \in Session, NEW f \in held'[r].fcps \cup ses'[r].fcps
        PROVE  Mine(f, VmOf[r])'
    <2>1. f \in held[r].fcps \cup ses[r].fcps
      BY <1>0, <1>4 DEF Way, On, Ends, Alone
    <2> QED  BY <1>1, <1>2, <1>3, <2>1 DEF OwnersOK
  <1>5. ASSUME NEW v \in Volume, volume'[v].attached, NEW f \in volume'[v].fcps
        PROVE  Mine(f, volume[v].vm)'
    <2>1. CASE volume'[v] = volume[v]
      BY <1>1, <1>2, <1>3, <1>5, <2>1 DEF OwnersOK
    <2>2. CASE volume'[v].vm = VmOf[s] /\ volume'[v].fcps = ses[s].fcps
      BY <1>1, <1>2, <1>3, <1>5, <2>2 DEF OwnersOK
    <2> QED  BY <1>0, <1>5, <2>1, <2>2 DEF Way
  <1>6. ASSUME NEW f \in Fcp, fcp'[f].connections > 0
        PROVE  fcp'[f].reserved
    BY <1>0, <1>2, <1>6, SameOwners DEF ReservedWhileConnected, Mine
  <1>7. ASSUME NEW f \in Fcp, fcp'[f].reserved
        PROVE  dedicated'[f] \in {NoVm, fcp'[f].assigner}
    BY <1>0, <1>2, <1>7, SameOwners DEF DedicatedToAssigner, Mine, ZvmStep
  <1> QED  BY <1>4, <1>5, <1>6, <1>7
           DEF OwnersOK, ReservedWhileConnected, DedicatedToAssigner

\* What others have read does not change under them.
LEMMA ReadKept ==
  ASSUME Orderly, OInv, NEW s \in Session, Respects(s),
         NEW r \in Session, r # s
  PROVE  ReadOK(r)'
  <1>0. TableStep(s) /\ ZvmStep(s)
    BY DEF Respects
  <1>1. ses'[r] = ses[r]
    BY DEF Respects, Way, On, Ends, Alone
  <1>2. ReadOK(r) /\ ses[r].todo \subseteq ses[r].fcps /\ ses[r].fcps \subseteq Fcp
    BY LocalTypes DEF OInv, WorkOK
  <1>3. ASSUME NEW f \in ses[r].fcps
        PROVE  fcp'[f].connections = fcp[f].connections
    <2>1. f \notin ses[s].fcps
      BY <1>3, OneOwner DEF OInv, OwnersOK
    <2> QED  BY <1>0, <1>2, <2>1, SameOwners
  <1>4. ASSUME ses[r].pc = "allocate", NEW f \in ses[r].free
        PROVE  dedicated'[f] = NoVm \/ fcp'[f].reserved
    <2>1. dedicated[f] = NoVm \/ fcp[f].reserved
      BY <1>2, <1>4 DEF ReadOK
    <2>2. f \in Fcp
      BY <1>4 DEF OInv, IInv, TypeOK, Locals
    <2> QED  BY <1>0, <2>1, <2>2, SameOwners DEF ZvmStep, Mine
  <1>5. Zero(r)' = Zero(r)
    BY <1>1 DEF Zero
  <1> QED  BY <1>1, <1>2, <1>3, <1>4, <1>5 DEF ReadOK

\* One volume more or less among those that use a device.
LEMMA OneMoreOrLess ==
  ASSUME NEW A, NEW B, NEW v, IsFiniteSet(A),
         \A w : w # v => (w \in A <=> w \in B),
         NEW m \in Nat, NEW n \in Nat, Cardinality(A) <= m,
         \/ (v \in A <=> v \in B) /\ n = m
         \/ v \notin A /\ v \in B /\ n = m + 1
         \/ v \in A /\ v \notin B /\ n = m - 1
  PROVE  /\ IsFiniteSet(B) /\ Cardinality(B) <= n
         /\ Cardinality(A) = m => Cardinality(B) = n
  <1>0. Cardinality(A) \in Nat
    BY FS_CardinalityType
  <1>1. CASE (v \in A <=> v \in B) /\ n = m
    <2>1. A = B
      BY <1>1
    <2> QED  BY <1>1, <2>1
  <1>2. CASE v \notin A /\ v \in B /\ n = m + 1
    <2>1. B = A \cup {v}
      BY <1>2
    <2>2. IsFiniteSet(B) /\ Cardinality(B) = Cardinality(A) + 1
      BY <1>2, <2>1, FS_AddElement
    <2> QED  BY <1>0, <1>2, <2>2
  <1>3. CASE v \in A /\ v \notin B /\ n = m - 1
    <2>1. B = A \ {v}
      BY <1>3
    <2>2. IsFiniteSet(B) /\ Cardinality(B) = Cardinality(A) - 1
      BY <1>3, <2>1, FS_RemoveElement
    <2> QED  BY <1>0, <1>3, <2>2
  <1> QED  BY <1>1, <1>2, <1>3

\* The connections go with the volumes.
LEMMA CountKept ==
  ASSUME OInv, IInv', NEW s \in Session, Respects(s)
  PROVE  CountOK'
  <1> DEFINE v == ses[s].vol
  <1>0. Way(s) /\ held' = held /\ deleting' = deleting
    BY DEF Respects, ZvmStep
  <1>1. v \in Volume /\ v # NoVolume
    BY SessionAssumption DEF Respects, OInv, WorkOK
  <1>2. Apart /\ Apart' /\ Alone(s)
    BY <1>0, WorkKept DEF OInv, Way, On, Ends
  <1> SUFFICES ASSUME NEW f \in Fcp
               PROVE  /\ IsFiniteSet(Users(f)')
                      /\ Cardinality(Users(f)') <= fcp'[f].connections
                      /\ ~MayStop => Cardinality(Users(f)') = fcp'[f].connections
    BY DEF CountOK
  <1>3. ASSUME NEW w \in Volume, w # v
        PROVE  w \in Users(f) <=> w \in Users(f)'
    <2>1. volume'[w] = volume[w]
      BY <1>0, <1>3 DEF Way
    <2>2. \A r \in Session : ses[r].vol = w => r # s /\ ses'[r] = ses[r]
      BY <1>2, <1>3 DEF Alone
    <2>3. ses'[s].vol # w
      BY <1>0, <1>3, SessionAssumption DEF Way, On, Ends
    <2>4. \A r \in Session : ses'[r].vol = w => r # s /\ ses'[r] = ses[r]
      BY <1>2, <2>3 DEF Alone
    <2>5. \A r \in Session : ses'[r] = ses[r] => (Counts(r, f)' <=> Counts(r, f))
      BY DEF Counts
    <2> QED  BY <2>1, <2>2, <2>4, <2>5 DEF Users, Uses
  <1>4. v \in Users(f) <=> Counts(s, f)
    BY <1>1, <1>2, UsesOfRequest DEF Users
  <1>5. v \in Users(f)' <=> CountsThen(s, f)
    <2>1. CASE Ends(s)
      <3>1. \A r \in Session : ses'[r].vol # v
        BY <1>1, <1>2, <2>1 DEF Ends, Alone, Apart
      <3> QED  BY <1>1, <2>1, <3>1 DEF Ends, CountsThen, Users, Uses
    <2>2. CASE ses'[s].vol = v /\ ses'[s].pc # "idle"
      <3>1. \A r \in Session : ses'[r].vol = v => r = s
        BY <1>1, <1>2, <2>2 DEF Apart
      <3> QED  BY <1>1, <2>2, <3>1 DEF CountsThen, Users, Uses
    <2>3. ASSUME NEW pc, NEW todo, On(s, pc, todo), pc \in Attaching \cup Detaching
          PROVE  ses'[s].vol = v /\ ses'[s].pc # "idle"
      BY <2>3 DEF On, Attaching, Detaching
    <2> QED  BY <1>0, <2>1, <2>2, <2>3 DEF Way
  <1>6. Shift(s, f)
    BY DEF Respects
  <1>7. /\ IsFiniteSet(Users(f)) /\ Cardinality(Users(f)) <= fcp[f].connections
        /\ ~MayStop => Cardinality(Users(f)) = fcp[f].connections
    BY DEF OInv, CountOK
  <1>8. fcp[f].connections \in Nat /\ fcp'[f].connections \in Nat
    BY RowTypes DEF OInv, IInv, TypeOK, Row
  <1>9. \A w : w # v => (w \in Users(f) <=> w \in Users(f)')
    BY <1>3 DEF Users
  <1> HIDE DEF v
  <1>10. \/ (v \in Users(f) <=> v \in Users(f)') /\ fcp'[f].connections = fcp[f].connections
         \/ v \notin Users(f) /\ v \in Users(f)' /\ fcp'[f].connections = fcp[f].connections + 1
         \/ v \in Users(f) /\ v \notin Users(f)' /\ fcp'[f].connections = fcp[f].connections - 1
    BY <1>4, <1>5, <1>6 DEF Shift
  <1> DEFINE A == Users(f)
             B == Users(f)'
             m == fcp[f].connections
             n == fcp'[f].connections
  <1>11. IsFiniteSet(A) /\ Cardinality(A) <= m /\ m \in Nat /\ n \in Nat
    BY <1>7, <1>8
  <1>12. /\ \A w : w # v => (w \in A <=> w \in B)
         /\ \/ (v \in A <=> v \in B) /\ n = m
            \/ v \notin A /\ v \in B /\ n = m + 1
            \/ v \in A /\ v \notin B /\ n = m - 1
    BY <1>9, <1>10
  <1>13. ~MayStop => Cardinality(A) = m
    BY <1>7
  <1> HIDE DEF A, B, m, n
  <1>14. /\ IsFiniteSet(B) /\ Cardinality(B) <= n
         /\ Cardinality(A) = m => Cardinality(B) = n
    BY <1>11, <1>12, OneMoreOrLess
  <1> QED  BY <1>13, <1>14 DEF A, B, m, n

\* A step that respects the others keeps the invariant.
LEMMA RespectsOInv ==
  ASSUME Orderly, OInv, IInv', NEW s \in Session, Respects(s)
  PROVE  OInv'
  <1>1. (\A r \in Session : WorkOK(r)') /\ Apart'
    BY WorkKept DEF Respects, ZvmStep
  <1>2. \A r \in Session : ReadOK(r)'
    BY ReadKept DEF Respects
  <1> QED  BY <1>1, <1>2, OwnersKept, CountKept DEF OInv

-----------------------------------------------------------------------------
(* Each phase respects the others *)

\* What the statements do to the connections of a device.
LEMMA Connections ==
  ASSUME IInv, NEW f \in Fcp, NEW fs
  PROVE  /\ \A vm, t : reserve_fcps(fcp, fs, vm, t)[f].connections = fcp[f].connections
         /\ increase_connections(fcp, fs)[f].connections =
              IF f \in fs THEN fcp[f].connections + 1 ELSE fcp[f].connections
         /\ decrease_connections(fcp, fs)[f].connections =
              IF f \in fs /\ fcp[f].connections > 0
              THEN fcp[f].connections - 1 ELSE fcp[f].connections
  BY DEF IInv, TypeOK, Row, reserve_fcps, increase_connections, decrease_connections

\* What is known about a request before its next step.
LEMMA Request ==
  ASSUME OInv, NEW s \in Session
  PROVE  /\ IInv /\ WorkOK(s) /\ ReadOK(s)
         /\ ses[s].fcps \subseteq Fcp /\ ses[s].todo \subseteq ses[s].fcps
         /\ \A f \in ses[s].fcps : Mine(f, VmOf[s])
  BY LocalTypes DEF OInv, WorkOK, OwnersOK

\* Steps that change neither the table nor z/VM.
LEMMA QuietZvm ==
  ASSUME NEW s \in Session, UNCHANGED <<dedicated, exists, deleting>>
  PROVE  ZvmStep(s)
  BY DEF ZvmStep

\* A request that goes on has counted what it has counted.
LEMMA Uncounted ==
  ASSUME NEW s \in Session, NEW f, NEW pc, NEW todo, On(s, pc, todo), pc # "idle"
  PROVE  /\ CountsThen(s, f) <=> Counts(s, f)'
         /\ Counts(s, f)' <=>
              \/ /\ pc \in {"dedicate", "add_disks", "rb_added", "rb_conns",
                            "rb_undedicate", "decrease"}
                 /\ f \in ses[s].fcps
              \/ pc = "rb_decrease" /\ f \in todo
              \/ pc = "rb_increase" /\ f \in ses[s].fcps \ todo
  BY DEF On, CountsThen, Counts

\* attach and detach end.
LEMMA AttachedEnds ==
  ASSUME OInv, NEW s \in Session, Attached(s), ses[s].pc \in Attaching
  PROVE  /\ Way(s) /\ ReadOK(s)'
         /\ \A f \in Fcp : CountsThen(s, f) <=> f \in ses[s].fcps
  <1>1. Ends(s) /\ ses[s].vol \in Volume
    BY LeaveEnds, Request DEF Attached, WorkOK
  <1>2. /\ volume'[ses[s].vol].attached
        /\ volume'[ses[s].vol].vm = VmOf[s]
        /\ volume'[ses[s].vol].fcps = ses[s].fcps
        /\ \A v \in Volume : v # ses[s].vol => volume'[v] = volume[v]
    BY <1>1 DEF Attached, OInv, IInv, TypeOK
  <1> QED  BY <1>1, <1>2 DEF Way, ReadOK, CountsThen, Ends

LEMMA DetachedEnds ==
  ASSUME OInv, NEW s \in Session, Detached(s), ses[s].pc \in Detaching
  PROVE  /\ Way(s) /\ ReadOK(s)'
         /\ \A f \in Fcp : ~CountsThen(s, f)
  <1>1. Ends(s) /\ ses[s].vol \in Volume
    BY LeaveEnds, Request DEF Detached, WorkOK
  <1>2. /\ ~volume'[ses[s].vol].attached
        /\ \A v \in Volume : v # ses[s].vol => volume'[v] = volume[v]
    BY <1>1 DEF Detached, OInv, IInv, TypeOK
  <1> QED  BY <1>1, <1>2 DEF Way, ReadOK, CountsThen, Ends

LEMMA ReserveRespects ==
  ASSUME OInv, NEW s \in Session, Reserve(s)
  PROVE  Respects(s)
  <1>1. On(s, "increase", ses[s].todo)
    BY Request, GotoOn DEF Reserve
  <1>2. /\ ses[s].pc = "reserve" /\ db_lock = NoSession
        /\ fcp' = reserve_fcps(fcp, ses[s].fcps, VmOf[s], ses[s].tmpl)
        /\ UNCHANGED <<dedicated, exists, deleting, held, volume>>
    BY DEF Reserve, Transaction, zvm, client
  <1>3. Way(s) /\ ReadOK(s)'
    BY <1>1, <1>2, Request DEF Way, Attaching, ReadOK, On
  <1>4. \A f \in Fcp : fcp'[f].connections = fcp[f].connections
    BY <1>2, Request, Connections
  <1>5. \A f \in Fcp : ~Counts(s, f) /\ ~CountsThen(s, f)
    BY <1>1, <1>2 DEF On, Counts, CountsThen
  <1>6. \A f \in Fcp : Shift(s, f)
    BY <1>4, <1>5 DEF Shift
  <1> QED  BY <1>2, <1>3, <1>6, QuietZvm DEF Respects, TableStep, Attaching, Detaching

LEMMA IncreaseRespects ==
  ASSUME OInv, NEW s \in Session, Increase(s)
  PROVE  Respects(s)
  <1> DEFINE first == {f \in ses[s].fcps :
        increase_connections(fcp, ses[s].fcps)[f].connections = 1}
  <1>1. /\ ses[s].pc = "increase" /\ db_lock = NoSession
        /\ fcp' = increase_connections(fcp, ses[s].fcps)
        /\ UNCHANGED <<dedicated, exists, deleting, held>>
        /\ \/ Attached(s)
           \/ Loop(s, "dedicate", first, "add_disks", {}) /\ volume' = volume
    BY DEF Increase, Transaction, zvm
  <1>2. first \subseteq ses[s].fcps
    OBVIOUS
  <1> HIDE DEF first
  <1>3. /\ Way(s) /\ ReadOK(s)'
        /\ \A f \in Fcp : CountsThen(s, f) <=> f \in ses[s].fcps
    <2>1. CASE Attached(s)
      BY <1>1, <2>1, AttachedEnds DEF Attaching
    <2>2. ASSUME NEW pc \in {"dedicate", "add_disks"}, NEW todo,
                 todo \subseteq ses[s].fcps, On(s, pc, todo), volume' = volume
          PROVE  /\ Way(s) /\ ReadOK(s)'
                 /\ \A f \in Fcp : CountsThen(s, f) <=> f \in ses[s].fcps
      BY <1>1, <2>2, Uncounted DEF Way, Attaching, ReadOK, On
    <2>3. CASE Loop(s, "dedicate", first, "add_disks", {}) /\ volume' = volume
      BY <1>2, <2>2, <2>3, LoopOn, Request
    <2> QED  BY <1>1, <2>1, <2>3
  <1>4. \A f \in Fcp : Shift(s, f)
    BY <1>1, <1>3, Request, Connections DEF Shift, Counts
  <1>5. TableStep(s)
    BY <1>1 DEF TableStep
  <1> QED  BY <1>1, <1>3, <1>4, <1>5, QuietZvm DEF Respects, Attaching, Detaching

\* A step within attach or detach that changes neither the table nor what
\* is counted.
LEMMA OnRespects ==
  ASSUME OInv, NEW s \in Session, NEW pc, NEW todo, On(s, pc, todo),
         todo \subseteq ses[s].fcps,
         \/ ses[s].pc \in Attaching /\ pc \in Attaching
         \/ ses[s].pc \in Detaching /\ pc \in Detaching,
         ZvmStep(s), UNCHANGED <<fcp, held, volume>>, ReadOK(s)',
         \A f \in Fcp : Counts(s, f)' <=> Counts(s, f)
  PROVE  Respects(s)
  <1>1. pc # "idle"
    BY DEF Attaching, Detaching
  <1> QED  BY <1>1, Uncounted DEF Respects, TableStep, Way, Shift

LEMMA FailInDatabaseRespects ==
  ASSUME Orderly, OInv, NEW s \in Session, FailInDatabase(s)
  PROVE  Respects(s)
  <1>1. /\ ses[s].pc \in {"reserve", "increase"}
        /\ UNCHANGED <<dedicated, exists, deleting, held, fcp>>
    BY DEF FailInDatabase, zvm
  <1>2. CanIncrease(fcp, ses[s].fcps, VmOf[s])
    BY Request DEF CanIncrease, Mine
  <1>3. "database error" \in Env
    BY <1>2 DEF FailInDatabase
  <1>4. ses[s].rb
    BY <1>3, Request DEF Orderly, SomeKeep, WorkOK
  <1>5. On(s, "rb_usage", ses[s].fcps) /\ volume' = volume
    BY <1>4, SetTodoOn, Request DEF FailInDatabase
  <1>6. ReadOK(s)' /\ \A f \in Fcp : Counts(s, f)' <=> Counts(s, f)
    BY <1>1, <1>5 DEF On, ReadOK, Counts
  <1> QED  BY <1>1, <1>5, <1>6, OnRespects, QuietZvm, Request DEF Attaching

LEMMA DedicateRespects ==
  ASSUME OInv, NEW s \in Session, Dedicate(s)
  PROVE  Respects(s)
  <1>1. ses[s].pc = "dedicate" /\ UNCHANGED <<fcp, exists, deleting, held, volume>>
    BY DEF Dedicate, client
  <1>2. PICK f \in ses[s].todo :
          /\ dedicated' = [dedicated EXCEPT ![f] = VmOf[s]]
          /\ Loop(s, "dedicate", ses[s].todo \ {f}, "add_disks", {})
    BY DEF Dedicate
  <1>3. ZvmStep(s)
    BY <1>1, <1>2, Request DEF ZvmStep, OInv, IInv, TypeOK
  <1>4. PICK pc \in {"dedicate", "add_disks"}, todo \in SUBSET ses[s].fcps :
          On(s, pc, todo)
    BY <1>2, LoopOn, Request
  <1>5. ReadOK(s)' /\ \A g \in Fcp : Counts(s, g)' <=> Counts(s, g)
    BY <1>1, <1>4 DEF On, ReadOK, Counts
  <1> QED  BY <1>1, <1>3, <1>4, <1>5, OnRespects DEF Attaching

LEMMA FailDedicateRespects ==
  ASSUME OInv, NEW s \in Session, FailDedicate(s)
  PROVE  Respects(s)
  <1>1. ses[s].pc = "dedicate" /\ UNCHANGED <<fcp, exists, deleting, held, volume>>
    BY DEF FailDedicate, client
  <1>2. PICK f \in ses[s].todo :
          dedicated' = dedicated \/ dedicated' = [dedicated EXCEPT ![f] = VmOf[s]]
    BY DEF FailDedicate
  <1>3. ZvmStep(s)
    BY <1>1, <1>2, Request DEF ZvmStep, OInv, IInv, TypeOK
  <1>4. \/ On(s, "rb_conns", ses[s].fcps)
        \/ On(s, "add_disks", ses[s].todo)
    BY GotoOn, SetTodoOn, Request DEF FailDedicate
  <1>5. ReadOK(s)' /\ \A g \in Fcp : Counts(s, g)' <=> Counts(s, g)
    BY <1>1, <1>4 DEF On, ReadOK, Counts
  <1> QED  BY <1>1, <1>3, <1>4, <1>5, OnRespects, Request DEF Attaching

\* attach ends with everything counted that its volume is connected through.
LEMMA AttachedRespects ==
  ASSUME OInv, NEW s \in Session, Attached(s), ses[s].pc = "add_disks",
         UNCHANGED <<fcp, held, dedicated, exists, deleting>>
  PROVE  Respects(s)
  <1>1. Way(s) /\ ReadOK(s)' /\ \A f \in Fcp : CountsThen(s, f) <=> f \in ses[s].fcps
    BY AttachedEnds DEF Attaching
  <1>2. \A f \in Fcp : Shift(s, f)
    BY <1>1 DEF Shift, Counts
  <1> QED  BY <1>1, <1>2, QuietZvm DEF Respects, TableStep, Attaching, Detaching

LEMMA AddDisksRespects ==
  ASSUME OInv, NEW s \in Session, AddDisks(s) \/ FailAddDisks(s)
  PROVE  Respects(s)
  <1>1. /\ ses[s].pc = "add_disks"
        /\ UNCHANGED <<fcp, held, dedicated, exists, deleting>>
        /\ \/ Attached(s)
           \/ /\ ses' = [ses EXCEPT ![s].pc = "rb_added", ![s].todo = ses[s].fcps]
              /\ volume' = volume
    BY DEF AddDisks, FailAddDisks
  <1>2. CASE Attached(s)
    BY <1>1, <1>2, AttachedRespects
  <1>3. CASE /\ ses' = [ses EXCEPT ![s].pc = "rb_added", ![s].todo = ses[s].fcps]
             /\ volume' = volume
    <2>1. On(s, "rb_added", ses[s].fcps)
      BY <1>3, SetTodoOn, Request
    <2>2. ReadOK(s)' /\ \A g \in Fcp : Counts(s, g)' <=> Counts(s, g)
      BY <1>1, <2>1 DEF On, ReadOK, Counts
    <2> QED  BY <1>1, <1>3, <2>1, <2>2, OnRespects, QuietZvm, Request DEF Attaching
  <1> QED  BY <1>1, <1>2, <1>3

LEMMA RbReadRespects ==
  ASSUME OInv, NEW s \in Session, RbRead(s)
  PROVE  Respects(s)
  <1>1. /\ ses[s].pc \in {"rb_added", "rb_conns", "rb_usage"}
        /\ UNCHANGED <<fcp, dedicated, exists, deleting, held, volume>>
    BY DEF RbRead, client, zvm
  <1>2. PICK f \in ses[s].todo :
          ses' = [ses EXCEPT ![s].todo = @ \ {f},
                             ![s].conns = [@ EXCEPT ![f] = fcp[f].connections]]
    BY DEF RbRead
  <1>3. ses[s] \in Locals /\ f \in Fcp
    BY Request DEF IInv, TypeOK
  <1>4. On(s, ses[s].pc, ses[s].todo \ {f})
    BY <1>2, <1>3, Request DEF On, Alone, IInv, TypeOK, Locals
  <1>5. /\ ses'[s].conns[f] = fcp[f].connections
        /\ \A g \in Fcp \ {f} : ses'[s].conns[g] = ses[s].conns[g]
    BY <1>2, <1>3, Request DEF IInv, TypeOK, Locals
  <1>6. ReadOK(s)'
    BY <1>1, <1>4, <1>5, Request DEF On, ReadOK
  <1>7. \A g \in Fcp : Counts(s, g)' <=> Counts(s, g)
    BY <1>1, <1>4 DEF On, Counts
  <1> QED  BY <1>1, <1>4, <1>6, <1>7, OnRespects, QuietZvm, Request DEF Attaching

LEMMA RbAddedDisksRespects ==
  ASSUME OInv, NEW s \in Session, RbAddedDisks(s)
  PROVE  Respects(s)
  <1>1. /\ ses[s].pc = "rb_added"
        /\ UNCHANGED <<fcp, dedicated, exists, deleting, held, volume>>
    BY DEF RbAddedDisks, client
  <1>2. On(s, "rb_conns", ses[s].fcps)
    BY NextFunctionOn, Request DEF RbAddedDisks
  <1>3. ReadOK(s)' /\ \A g \in Fcp : Counts(s, g)' <=> Counts(s, g)
    BY <1>1, <1>2 DEF On, ReadOK, Counts
  <1> QED  BY <1>1, <1>2, <1>3, OnRespects, QuietZvm, Request DEF Attaching

LEMMA RbConnectionsRespects ==
  ASSUME OInv, NEW s \in Session, RbConnections(s)
  PROVE  Respects(s)
  <1> DEFINE one == {f \in ses[s].fcps : ses[s].conns[f] = 1}
  <1>1. /\ ses[s].pc = "rb_conns" /\ ses[s].todo = {}
        /\ UNCHANGED <<fcp, dedicated, exists, deleting, held, volume>>
        /\ \/ NextFunction(s, "rb_undedicate", one)
           \/ NextFunction(s, "rb_decrease", ses[s].fcps)
    BY DEF RbConnections, client, zvm
  <1>2. one \subseteq ses[s].fcps /\ \A f \in one : fcp[f].connections = 1
    BY <1>1, Request DEF ReadOK
  <1> HIDE DEF one
  <1>3. \/ On(s, "rb_undedicate", one)
        \/ On(s, "rb_decrease", ses[s].fcps)
    BY <1>1, NextFunctionOn, Request
  <1>4. ReadOK(s)' /\ \A g \in Fcp : Counts(s, g)' <=> Counts(s, g)
    BY <1>1, <1>2, <1>3 DEF On, ReadOK, Counts
  <1> QED  BY <1>1, <1>2, <1>3, <1>4, OnRespects, QuietZvm DEF Attaching

\* A device is taken from the guest, or not.
LEMMA UndedicateStep ==
  ASSUME OInv, NEW s \in Session, NEW f \in Fcp,
         UNCHANGED <<exists, deleting>>,
         \/ undedicate_device(f, VmOf[s])
         \/ UNCHANGED <<dedicated, online>>
  PROVE  ZvmStep(s)
  BY DEF undedicate_device, ZvmStep, OInv, IInv, TypeOK

LEMMA RbUndedicateRespects ==
  ASSUME OInv, NEW s \in Session, RbUndedicate(s)
  PROVE  Respects(s)
  <1>1. /\ ses[s].pc = "rb_undedicate"
        /\ UNCHANGED <<fcp, exists, deleting, held, volume>>
    BY DEF RbUndedicate, client
  <1>2. PICK f \in ses[s].todo :
          /\ undedicate_device(f, VmOf[s]) \/ UNCHANGED <<dedicated, online>>
          /\ Loop(s, "rb_undedicate", ses[s].todo \ {f}, "rb_decrease", ses[s].fcps)
    BY DEF RbUndedicate
  <1>3. ZvmStep(s)
    BY <1>1, <1>2, Request, UndedicateStep
  <1>4. \/ On(s, "rb_undedicate", ses[s].todo \ {f})
        \/ On(s, "rb_decrease", ses[s].fcps)
    BY <1>2, LoopOn, Request
  <1>5. ReadOK(s)' /\ \A g \in Fcp : Counts(s, g)' <=> Counts(s, g)
    BY <1>1, <1>4, Request DEF On, ReadOK, Counts
  <1> QED  BY <1>1, <1>3, <1>4, <1>5, OnRespects, Request DEF Attaching

LEMMA RbDecreaseRespects ==
  ASSUME Orderly, OInv, NEW s \in Session, RbDecrease(s)
  PROVE  Respects(s)
  <1>1. ses[s].pc = "rb_decrease" /\ UNCHANGED <<dedicated, exists, deleting, held, volume>>
    BY DEF RbDecrease, client, zvm
  <1>2. PICK f \in ses[s].todo :
          /\ Transaction(decrease_connections(fcp, {f}))
          /\ Loop(s, "rb_decrease", ses[s].todo \ {f}, "rb_usage", ses[s].fcps)
    BY DEF RbDecrease, Orderly
  <1>3. \/ On(s, "rb_decrease", ses[s].todo \ {f})
        \/ ses[s].todo = {f} /\ On(s, "rb_usage", ses[s].fcps)
    BY <1>2, LoopOn, Request
  <1>4. TableStep(s)
    BY <1>2, Request DEF TableStep, Transaction
  <1>5. Way(s) /\ ReadOK(s)'
    <2>1. Way(s)
      BY <1>1, <1>3, Request DEF Way, Attaching
    <2>2. ReadOK(s)'
      BY <1>3 DEF ReadOK, On
    <2> QED  BY <2>1, <2>2
  <1>6. ses[s].vol \in Volume
    BY <1>1, Request DEF WorkOK, Attaching
  <1>7. ASSUME NEW g \in Fcp PROVE Shift(s, g)
    <2>0. Counts(s, g) <=> g \in ses[s].todo
      BY <1>1 DEF Counts
    <2>1. CountsThen(s, g) <=> g \in ses[s].todo \ {f}
      <3>1. CASE On(s, "rb_decrease", ses[s].todo \ {f})
        BY <3>1, Uncounted
      <3>2. CASE ses[s].todo = {f} /\ On(s, "rb_usage", ses[s].fcps)
        <4>1. ~CountsThen(s, g)
          BY <3>2 DEF On, CountsThen, Counts
        <4> QED  BY <3>2, <4>1
      <3> QED  BY <1>3, <3>1, <3>2
    <2>2. g \in ses[s].todo => fcp[g].connections > 0
      BY <1>6, <2>0, CountedIsConnected
    <2>3. fcp'[g].connections = IF g = f THEN fcp[g].connections - 1
                                ELSE fcp[g].connections
      BY <1>2, <2>2, Request, Connections DEF Transaction
    <2> QED  BY <1>2, <2>0, <2>1, <2>3 DEF Shift
  <1> QED  BY <1>1, <1>4, <1>5, <1>7, QuietZvm DEF Respects, Attaching, Detaching

LEMMA RbUsageRespects ==
  ASSUME OInv, NEW s \in Session, RbUsage(s)
  PROVE  Respects(s)
  <1>1. /\ ses[s].pc = "rb_usage" /\ ses[s].todo = {}
        /\ UNCHANGED <<fcp, dedicated, exists, deleting, held, volume>>
        /\ NextFunction(s, "rb_unreserve", Zero(s)) \/ Leave(s)
    BY DEF RbUsage, client, zvm
  <1>2. Zero(s) \subseteq ses[s].fcps /\ \A f \in Zero(s) : fcp[f].connections = 0
    BY <1>1, Request DEF ReadOK, Zero
  <1>3. CASE NextFunction(s, "rb_unreserve", Zero(s))
    <2>1. On(s, "rb_unreserve", Zero(s))
      BY <1>3, NextFunctionOn, Request
    <2>2. ReadOK(s)' /\ \A g \in Fcp : Counts(s, g)' <=> Counts(s, g)
      BY <1>1, <1>2, <2>1 DEF On, ReadOK, Counts
    <2> QED  BY <1>1, <1>2, <2>1, <2>2, OnRespects, QuietZvm DEF Attaching
  <1>4. CASE Leave(s)
    <2>1. Ends(s) /\ ses[s].vol \in Volume /\ ~volume[ses[s].vol].attached
      BY <1>1, <1>4, LeaveEnds, Request DEF WorkOK, Attaching
    <2>2. Way(s) /\ ReadOK(s)' /\ \A f \in Fcp : Shift(s, f)
      BY <1>1, <2>1 DEF Way, Attaching, ReadOK, Ends, Shift, Counts, CountsThen
    <2> QED  BY <1>1, <2>2, QuietZvm DEF Respects, TableStep, Attaching, Detaching
  <1> QED  BY <1>1, <1>3, <1>4

\* detach ends when its volume is not counted any more.
LEMMA DetachedRespects ==
  ASSUME OInv, NEW s \in Session, Detached(s), ZvmStep(s),
         ses[s].pc \in {"exist", "remove_disks", "undedicate"},
         UNCHANGED <<fcp, held>>
  PROVE  Respects(s)
  <1>1. Way(s) /\ ReadOK(s)' /\ \A f \in Fcp : ~CountsThen(s, f)
    BY DetachedEnds DEF Detaching
  <1>2. \A f \in Fcp : Shift(s, f)
    BY <1>1 DEF Shift, Counts
  <1> QED  BY <1>1, <1>2 DEF Respects, TableStep, Attaching, Detaching

LEMMA DecreaseRespects ==
  ASSUME OInv, NEW s \in Session, Decrease(s)
  PROVE  Respects(s)
  <1> DEFINE conns == [f \in Fcp |-> IF f \in ses[s].fcps
                        THEN decrease_connections(fcp, ses[s].fcps)[f].connections ELSE 0]
  <1>1. /\ ses[s].pc = "decrease" /\ db_lock = NoSession
        /\ fcp' = decrease_connections(fcp, ses[s].fcps)
        /\ UNCHANGED <<dedicated, exists, deleting, held>>
        /\ \/ Detached(s)
           \/ ses' = [ses EXCEPT ![s].pc = "exist", ![s].conns = conns] /\ volume' = volume
    BY DEF Decrease, Transaction, zvm
  <1>2. \A f \in ses[s].fcps : conns[f] = fcp'[f].connections
    BY <1>1, Request
  <1> HIDE DEF conns
  <1>3. Way(s) /\ ReadOK(s)' /\ \A f \in Fcp : ~CountsThen(s, f)
    <2>1. CASE Detached(s)
      BY <1>1, <2>1, DetachedEnds DEF Detaching
    <2>2. CASE ses' = [ses EXCEPT ![s].pc = "exist", ![s].conns = conns] /\ volume' = volume
      <3>1. On(s, "exist", ses[s].todo) /\ ses'[s].conns = conns
        BY <2>2, Request DEF On, Alone, IInv, TypeOK, Locals
      <3>2. Way(s)
        BY <1>1, <2>2, <3>1, Request DEF Way, Detaching
      <3>3. ReadOK(s)' /\ \A f \in Fcp : ~CountsThen(s, f)
        BY <1>2, <3>1 DEF ReadOK, On, CountsThen, Counts
      <3> QED  BY <3>2, <3>3
    <2> QED  BY <1>1, <2>1, <2>2
  <1>4. ses[s].vol \in Volume
    BY <1>1, Request DEF WorkOK, Detaching
  <1>5. ASSUME NEW f \in Fcp PROVE Shift(s, f)
    <2>1. Counts(s, f) <=> f \in ses[s].fcps
      BY <1>1 DEF Counts
    <2>2. f \in ses[s].fcps => fcp[f].connections > 0
      BY <1>4, <2>1, CountedIsConnected
    <2>3. fcp'[f].connections = IF f \in ses[s].fcps THEN fcp[f].connections - 1
                                ELSE fcp[f].connections
      BY <1>1, <2>2, Request, Connections
    <2> QED  BY <1>3, <2>1, <2>3 DEF Shift
  <1>6. TableStep(s)
    BY <1>1 DEF TableStep
  <1> QED  BY <1>1, <1>3, <1>5, <1>6, QuietZvm DEF Respects, Attaching, Detaching

LEMMA CheckUseridRespects ==
  ASSUME OInv, NEW s \in Session, CheckUserid(s)
  PROVE  Respects(s)
  <1>1. /\ ses[s].pc = "exist"
        /\ UNCHANGED <<fcp, dedicated, exists, deleting, held>>
        /\ Detached(s) \/ (Goto(s, "remove_disks") /\ volume' = volume)
    BY DEF CheckUserid, zvm
  <1>2. CASE Detached(s)
    BY <1>1, <1>2, DetachedRespects, QuietZvm
  <1>3. CASE Goto(s, "remove_disks") /\ volume' = volume
    <2>1. On(s, "remove_disks", ses[s].todo) /\ ses'[s].conns = ses[s].conns
      BY <1>3, GotoOn, Request
    <2>2. ReadOK(s)' /\ \A g \in Fcp : Counts(s, g)' <=> Counts(s, g)
      BY <1>1, <2>1, Request DEF On, ReadOK, Counts
    <2> QED  BY <1>1, <1>3, <2>1, <2>2, OnRespects, QuietZvm, Request DEF Detaching
  <1> QED  BY <1>1, <1>2, <1>3

\* The way into the undedicate loop.
LEMMA ZeroOn ==
  ASSUME OInv, NEW s \in Session, NEW pc \in {"undedicate", "rb_dedicate"},
         ses[s].pc \in {"remove_disks", "undedicate"},
         ses' = [ses EXCEPT ![s].pc = pc, ![s].todo = Zero(s)],
         UNCHANGED <<fcp, held, volume>>, ZvmStep(s)
  PROVE  Respects(s)
  <1>1. On(s, pc, Zero(s)) /\ ses'[s].conns = ses[s].conns
    BY SetTodoOn, Request
  <1>2. Zero(s) \subseteq ses[s].fcps /\ Zero(s)' = Zero(s)
    BY <1>1 DEF Zero, On
  <1>3. /\ ses'[s].pc = pc /\ ses'[s].todo = Zero(s) /\ ses'[s].fcps = ses[s].fcps
        /\ ses'[s].conns = ses[s].conns /\ fcp' = fcp
    BY <1>1 DEF On
  <1>4. \A f \in ses[s].fcps : ses[s].conns[f] = fcp[f].connections
    BY Request DEF ReadOK
  <1>5. ReadOK(s)'
    BY <1>2, <1>3, <1>4 DEF ReadOK
  <1>6. \A g \in Fcp : ~Counts(s, g) /\ ~Counts(s, g)'
    BY <1>3 DEF Counts
  <1> QED  BY <1>1, <1>2, <1>5, <1>6, OnRespects DEF Detaching

LEMMA RemoveDisksRespects ==
  ASSUME OInv, NEW s \in Session, RemoveDisks(s) \/ FailRemoveDisks(s)
  PROVE  Respects(s)
  <1>1. /\ ses[s].pc = "remove_disks"
        /\ UNCHANGED <<fcp, held, dedicated, exists, deleting>>
        /\ ToUndedicate(s) \/ (Goto(s, "rb_removed") /\ volume' = volume)
    BY DEF RemoveDisks, FailRemoveDisks
  <1>2. CASE Detached(s)
    BY <1>1, <1>2, DetachedRespects, QuietZvm
  <1>3. CASE /\ ses' = [ses EXCEPT ![s].pc = "undedicate", ![s].todo = Zero(s)]
             /\ volume' = volume
    BY <1>1, <1>3, ZeroOn, QuietZvm
  <1>4. CASE Goto(s, "rb_removed") /\ volume' = volume
    <2>1. On(s, "rb_removed", ses[s].todo)
      BY <1>4, GotoOn, Request
    <2>2. ReadOK(s)' /\ \A g \in Fcp : Counts(s, g)' <=> Counts(s, g)
      BY <1>1, <2>1 DEF On, ReadOK, Counts
    <2> QED  BY <1>1, <1>4, <2>1, <2>2, OnRespects, QuietZvm, Request DEF Detaching
  <1> QED  BY <1>1, <1>2, <1>3, <1>4 DEF ToUndedicate

LEMMA UndedicateRespects ==
  ASSUME OInv, NEW s \in Session, Undedicate(s)
  PROVE  Respects(s)
  <1>1. /\ ses[s].pc = "undedicate" /\ UNCHANGED <<fcp, held, exists, deleting>>
    BY DEF Undedicate
  <1>2. PICK f \in ses[s].todo :
          /\ undedicate_device(f, VmOf[s])
          /\ \/ ses' = [ses EXCEPT ![s].todo = @ \ {f}] /\ volume' = volume
             \/ Detached(s)
    BY DEF Undedicate
  <1>3. ZvmStep(s)
    BY <1>1, <1>2, Request, UndedicateStep
  <1>4. CASE Detached(s)
    BY <1>1, <1>3, <1>4, DetachedRespects
  <1>5. CASE ses' = [ses EXCEPT ![s].todo = @ \ {f}] /\ volume' = volume
    <2>1. On(s, "undedicate", ses[s].todo \ {f}) /\ ses'[s].conns = ses[s].conns
      BY <1>1, <1>5, RoundOn, Request
    <2>2. Zero(s)' = Zero(s)
      BY <2>1 DEF Zero, On
    <2>3. ReadOK(s)' /\ \A g \in Fcp : Counts(s, g)' <=> Counts(s, g)
      BY <1>1, <2>1, <2>2, Request DEF On, ReadOK, Counts
    <2> QED  BY <1>1, <1>3, <1>5, <2>1, <2>3, OnRespects, Request DEF Detaching
  <1> QED  BY <1>2, <1>4, <1>5

LEMMA FailUndedicateRespects ==
  ASSUME OInv, NEW s \in Session, FailUndedicate(s)
  PROVE  Respects(s)
  <1>1. /\ ses[s].pc = "undedicate" /\ UNCHANGED <<fcp, held, exists, deleting>>
        /\ \/ /\ ses' = [ses EXCEPT ![s].pc = "rb_dedicate", ![s].todo = Zero(s)]
              /\ volume' = volume
           \/ Detached(s)
    BY DEF FailUndedicate
  <1>2. PICK f \in ses[s].todo :
          undedicate_device(f, VmOf[s]) \/ UNCHANGED <<dedicated, online>>
    BY DEF FailUndedicate
  <1>3. ZvmStep(s)
    BY <1>1, <1>2, Request, UndedicateStep
  <1> QED  BY <1>1, <1>3, ZeroOn, DetachedRespects

LEMMA RbDedicateRespects ==
  ASSUME OInv, NEW s \in Session, RbDedicate(s)
  PROVE  Respects(s)
  <1>1. /\ ses[s].pc = "rb_dedicate" /\ UNCHANGED <<fcp, exists, deleting, held, volume>>
    BY DEF RbDedicate, client
  <1>2. PICK f \in ses[s].todo :
          /\ dedicated' = [dedicated EXCEPT ![f] = VmOf[s]] \/ dedicated' = dedicated
          /\ Loop(s, "rb_dedicate", ses[s].todo \ {f}, "rb_removed", {})
    BY DEF RbDedicate
  <1>3. ZvmStep(s)
    BY <1>1, <1>2, Request DEF ZvmStep, OInv, IInv, TypeOK
  <1>4. /\ ses'[s].conns = ses[s].conns
        /\ \/ On(s, "rb_dedicate", ses[s].todo \ {f})
           \/ On(s, "rb_removed", {})
    BY <1>2, LoopOn, Request
  <1>5. Zero(s)' = Zero(s)
    BY <1>4 DEF Zero, On
  <1>6. ReadOK(s)' /\ \A g \in Fcp : Counts(s, g)' <=> Counts(s, g)
    BY <1>1, <1>4, <1>5, Request DEF On, ReadOK, Counts
  <1> QED  BY <1>1, <1>3, <1>4, <1>6, OnRespects, Request DEF Detaching

LEMMA RbRemovedDisksRespects ==
  ASSUME OInv, NEW s \in Session, RbRemovedDisks(s)
  PROVE  Respects(s)
  <1>1. /\ ses[s].pc = "rb_removed"
        /\ UNCHANGED <<fcp, dedicated, exists, deleting, held, volume>>
        /\ ses' = [ses EXCEPT ![s].pc = "rb_increase", ![s].todo = ses[s].fcps]
    BY DEF RbRemovedDisks, client
  <1>2. On(s, "rb_increase", ses[s].fcps)
    BY <1>1, SetTodoOn, Request
  <1>3. ReadOK(s)' /\ \A g \in Fcp : Counts(s, g)' <=> Counts(s, g)
    BY <1>1, <1>2 DEF On, ReadOK, Counts
  <1> QED  BY <1>1, <1>2, <1>3, OnRespects, QuietZvm DEF Detaching

LEMMA RbIncreaseRespects ==
  ASSUME Orderly, OInv, NEW s \in Session, RbIncrease(s)
  PROVE  Respects(s)
  <1>1. ses[s].pc = "rb_increase" /\ UNCHANGED <<dedicated, exists, deleting, held, volume>>
    BY DEF RbIncrease, client, zvm
  <1>2. PICK f \in ses[s].todo :
          /\ \/ Transaction(increase_connections(fcp, {f}))
             \/ ~CanIncrease(fcp, {f}, VmOf[s])
          /\ \/ ses' = [ses EXCEPT ![s].todo = @ \ {f}]
             \/ ses[s].todo = {f} /\ Leave(s)
    BY DEF RbIncrease, Orderly
  <1>3. Transaction(increase_connections(fcp, {f}))
    BY <1>2, Request DEF CanIncrease, Mine
  <1>4. TableStep(s)
    BY <1>2, <1>3, Request DEF TableStep, Transaction
  <1>5. /\ ses[s].vol \in Volume /\ volume[ses[s].vol].attached
        /\ volume[ses[s].vol].vm = VmOf[s]
        /\ volume[ses[s].vol].fcps = ses[s].fcps
    BY <1>1, Request DEF WorkOK, Detaching
  <1>6. /\ Way(s) /\ ReadOK(s)'
        /\ \A g \in Fcp : CountsThen(s, g) <=> g \in ses[s].fcps \ (ses[s].todo \ {f})
    <2>1. CASE ses' = [ses EXCEPT ![s].todo = @ \ {f}]
      <3>1. On(s, "rb_increase", ses[s].todo \ {f})
        BY <1>1, <2>1, RoundOn, Request
      <3> QED  BY <1>1, <3>1, Request DEF Way, Detaching, ReadOK, On, CountsThen, Counts
    <2>2. CASE ses[s].todo = {f} /\ Leave(s)
      <3>1. Ends(s)
        BY <2>2, LeaveEnds, Request
      <3> QED  BY <1>1, <1>5, <2>2, <3>1 DEF Way, Detaching, ReadOK, Ends, CountsThen
    <2> QED  BY <1>2, <2>1, <2>2
  <1>7. ASSUME NEW g \in Fcp PROVE Shift(s, g)
    <2>1. Counts(s, g) <=> g \in ses[s].fcps \ ses[s].todo
      BY <1>1 DEF Counts
    <2>2. fcp'[g].connections = IF g = f THEN fcp[g].connections + 1
                                ELSE fcp[g].connections
      BY <1>3, Request, Connections DEF Transaction
    <2> QED  BY <1>2, <1>6, <2>1, <2>2, Request DEF Shift
  <1> QED  BY <1>1, <1>4, <1>6, <1>7, QuietZvm DEF Respects, Attaching, Detaching

-----------------------------------------------------------------------------
(* Connectors, and the end of a rollback *)

\* What happens to the row of a device in the transaction of a connector, or
\* at the end of a rollback: nothing, a free device is reserved, or the
\* reservation of one without connections is given up.
RowStep(s, f) ==
  /\ fcp'[f].connections = fcp[f].connections
  /\ \/ (fcp'[f].reserved <=> fcp[f].reserved) /\ fcp'[f].assigner = fcp[f].assigner
     \/ /\ ~fcp[f].reserved /\ dedicated[f] = NoVm
        /\ fcp'[f].reserved /\ fcp'[f].assigner = VmOf[s]
     \/ /\ fcp[f].connections = 0 /\ fcp[f].assigner = VmOf[s]
        /\ ~fcp'[f].reserved /\ fcp'[f].assigner = VmOf[s]

\* A step of a session that has no volume afterwards, and none before or one
\* that is neither attached nor counted.
Connects(s) ==
  /\ Alone(s)
  /\ \/ ses[s].pc \notin Attaching \cup Detaching
     \/ ses[s].pc = "rb_unreserve"
  /\ ses'[s].pc \notin Attaching \cup Detaching
  /\ ses'[s].vol = NoVolume /\ ses'[s].fcps = {} /\ ses'[s].todo = {}
  /\ ses'[s].rb \in {TRUE, ses[s].rb}
  /\ \/ ses'[s].root = FALSE
     \/ ses'[s].root = ses[s].root /\ ses[s].pc \notin Attaching
  /\ deleting[VmOf[s]] => ses'[s].pc = "idle"
  /\ ses'[s].pc = "release" \/ (ses'[s].pc = "query" /\ ses'[s].next = "release")
       => held'[s].fcps = {}
  /\ \A r \in Session \ {s} : held'[r] = held[r]
  /\ \A f \in held'[s].fcps : f \in Fcp /\ Mine(f, VmOf[s])'
  /\ UNCHANGED <<volume, dedicated, exists, deleting>>
  /\ \A f \in Fcp : RowStep(s, f)
  /\ fcp' = fcp \/ db_lock \in {NoSession, s}
  /\ ReadOK(s)'

\* Such a step leaves the devices that others know of alone.
LEMMA ConnectsOwners ==
  ASSUME Orderly, OInv, NEW s \in Session, Connects(s)
  PROVE  OwnersOK' /\ ReservedWhileConnected' /\ DedicatedToAssigner'
  <1>1. /\ OwnersOK /\ ReservedWhileConnected /\ DedicatedToAssigner
        /\ \A r \in Session : WorkOK(r)
    BY DEF OInv
  <1>2. /\ \A r \in Session : held[r].fcps \subseteq Fcp /\ ses[r].fcps \subseteq Fcp
        /\ \A v \in Volume : volume[v].fcps \subseteq Fcp
    BY LocalTypes DEF OInv, IInv, TypeOK
  <1>3. ASSUME NEW f \in Fcp, NEW vm, Mine(f, vm),
               vm # VmOf[s] \/ fcp[f].connections > 0
        PROVE  Mine(f, vm)'
    <2>1. RowStep(s, f) /\ fcp[f].connections \in Nat
      BY RowTypes DEF Connects, OInv
    <2> QED  BY <1>3, <2>1 DEF RowStep, Mine
  <1>4. ASSUME NEW r \in Session, NEW f \in held'[r].fcps \cup ses'[r].fcps
        PROVE  Mine(f, VmOf[r])'
    <2>1. CASE r = s
      BY <1>4, <2>1 DEF Connects
    <2>2. CASE r # s
      <3>1. f \in held[r].fcps \cup ses[r].fcps /\ f \in Fcp
        BY <1>2, <1>4, <2>2 DEF Connects, Alone
      <3>2. Mine(f, VmOf[r]) /\ VmOf[r] # VmOf[s]
        BY <1>1, <2>2, <3>1 DEF OwnersOK, Orderly
      <3> QED  BY <1>3, <3>1, <3>2
    <2> QED  BY <2>1, <2>2
  <1>5. ASSUME NEW v \in Volume, volume'[v].attached, NEW f \in volume'[v].fcps
        PROVE  Mine(f, volume[v].vm)'
    <2>1. volume'[v] = volume[v] /\ f \in Fcp /\ Mine(f, volume[v].vm)
      BY <1>1, <1>2, <1>5 DEF Connects, OwnersOK
    <2>2. volume[v].vm # VmOf[s] \/ fcp[f].connections > 0
      <3>1. CASE \A r \in Session : ses[r].vol # v
        BY <1>5, <2>1, <3>1, AttachedIsConnected
      <3>2. ASSUME NEW r \in Session, ses[r].vol = v
            PROVE  volume[v].vm # VmOf[s]
        <4>1. ses[r].pc \in Detaching /\ volume[v].vm = VmOf[r]
          BY <1>1, <1>5, <2>1, <3>2, SessionAssumption DEF WorkOK
        <4>2. r # s
          BY <4>1 DEF Connects, Detaching
        <4> QED  BY <4>1, <4>2 DEF Orderly
      <3> QED  BY <3>1, <3>2
    <2>3. Mine(f, volume[v].vm)' <=> fcp'[f].reserved /\ fcp'[f].assigner = volume[v].vm
      BY <2>1 DEF Mine
    <2>4. \A vm : Mine(f, vm)' <=> fcp'[f].reserved /\ fcp'[f].assigner = vm
      BY DEF Mine
    <2> QED  BY <1>3, <2>1, <2>2, <2>3, <2>4
  <1>6. ASSUME NEW f \in Fcp
        PROVE  /\ fcp'[f].connections > 0 => fcp'[f].reserved
               /\ fcp'[f].reserved => dedicated'[f] \in {NoVm, fcp'[f].assigner}
    <2>1. RowStep(s, f) /\ dedicated'[f] = dedicated[f] /\ fcp[f].connections \in Nat
      BY RowTypes DEF Connects, OInv
    <2> QED  BY <1>1, <2>1 DEF RowStep, ReservedWhileConnected, DedicatedToAssigner
  <1> QED  BY <1>4, <1>5, <1>6
           DEF OwnersOK, ReservedWhileConnected, DedicatedToAssigner

LEMMA ConnectsOInv ==
  ASSUME Orderly, OInv, IInv', NEW s \in Session, Connects(s)
  PROVE  OInv'
  <1>0. Alone(s) /\ Apart /\ volume' = volume /\ deleting' = deleting
    BY DEF Connects, OInv
  <1>1. ASSUME NEW r \in Session PROVE WorkOK(r)'
    <2>1. CASE r = s
      <3>1. ~ses'[s].rb => SomeKeep
        BY Request DEF Connects, WorkOK
      <3> QED  BY <2>1, <3>1 DEF Connects, WorkOK
    <2>2. CASE r # s
      <3>1. WorkOK(r) /\ ses'[r] = ses[r] /\ held'[r] = held[r]
        BY <2>2 DEF OInv, Connects, Alone
      <3> QED  BY <1>0, <3>1 DEF WorkOK
    <2> QED  BY <2>1, <2>2
  <1>2. Apart'
    BY <1>0 DEF Connects, Apart, Alone
  <1>3. ASSUME NEW r \in Session PROVE ReadOK(r)'
    <2>1. CASE r = s
      BY <2>1 DEF Connects
    <2>2. CASE r # s
      <3>1. /\ ReadOK(r) /\ ses'[r] = ses[r] /\ dedicated' = dedicated
            /\ ses[r].fcps \subseteq Fcp /\ ses[r].todo \subseteq ses[r].fcps
        BY <2>2, Request DEF Connects, Alone
      <3>2. \A f \in Fcp : fcp'[f].connections = fcp[f].connections
        BY DEF Connects, RowStep
      <3>3. ses[r].pc = "allocate" => fcp' = fcp
        BY <2>2, SessionAssumption DEF Connects, OInv, IInv, LocksMatchRequests
      <3>4. Zero(r)' = Zero(r)
        BY <3>1 DEF Zero
      <3> QED  BY <3>1, <3>2, <3>3, <3>4 DEF ReadOK
    <2> QED  BY <2>1, <2>2
  <1>4. CountOK'
    <2> SUFFICES ASSUME NEW f \in Fcp PROVE Users(f)' = Users(f)
      BY DEF CountOK, OInv, Connects, RowStep
    <2>1. ASSUME NEW v \in Volume PROVE Uses(v, f)' <=> Uses(v, f)
      <3>1. \A r \in Session : ses'[r] = ses[r] => (Counts(r, f)' <=> Counts(r, f))
        BY DEF Counts
      <3>2. v # NoVolume /\ ses'[s].vol = NoVolume
        BY SessionAssumption DEF Connects
      <3>3. CASE ses[s].vol # v
        BY <1>0, <3>1, <3>2, <3>3 DEF Uses, Alone
      <3>4. CASE ses[s].vol = v
        <4>1. ses[s].pc = "rb_unreserve"
          BY <3>2, <3>4, Request DEF WorkOK, Connects
        <4>2. ~Counts(s, f) /\ ~volume[v].attached
          BY <3>4, <4>1, Request DEF WorkOK, Attaching, Counts
        <4>3. \A r \in Session \ {s} : ses'[r].vol # v /\ ses[r].vol # v
          BY <1>0, <3>2, <3>4 DEF Apart, Alone
        <4> QED  BY <1>0, <3>2, <3>4, <4>2, <4>3 DEF Uses
      <3> QED  BY <3>3, <3>4
    <2> QED  BY <2>1 DEF Users
  <1> QED  BY <1>1, <1>2, <1>3, <1>4, ConnectsOwners DEF OInv

\* Leaving a connector, or a rollback.
LEMMA LeaveConnects ==
  ASSUME OInv, NEW s \in Session, Leave(s),
         ses[s].pc \notin Attaching \cup Detaching \/ ses[s].pc = "rb_unreserve",
         UNCHANGED <<volume, dedicated, exists, deleting>>,
         \A r \in Session \ {s} : held'[r] = held[r],
         \A f \in held'[s].fcps : f \in Fcp /\ Mine(f, VmOf[s])',
         \A f \in Fcp : RowStep(s, f),
         fcp' = fcp \/ db_lock \in {NoSession, s}
  PROVE  Connects(s)
  <1>1. Ends(s)
    BY LeaveEnds, Request
  <1> QED  BY <1>1 DEF Connects, Ends, ReadOK, Attaching, Detaching

\* The client keeps its connector, and nobody's row changes.
LEMMA SameRowsOwned ==
  ASSUME OInv, NEW s \in Session, fcp' = fcp, held' = held
  PROVE  /\ \A f \in held'[s].fcps : f \in Fcp /\ Mine(f, VmOf[s])'
         /\ \A f \in Fcp : RowStep(s, f)
  BY DEF OInv, IInv, TypeOK, OwnersOK, Mine, RowStep

\* Devices of the virtual machine without connections are given up.
LEMMA UnreserveRows ==
  ASSUME OInv, NEW s \in Session, NEW fs, fcp' = unreserve_fcps(fcp, fs),
         \A f \in fs : fcp[f].connections = 0 /\ fcp[f].assigner = VmOf[s],
         NEW f \in Fcp
  PROVE  RowStep(s, f)
  <1>1. fcp[f] \in Row
    BY DEF OInv, IInv, TypeOK
  <1>2. CASE f \in fs
    <2>1. fcp'[f] = [fcp[f] EXCEPT !.reserved = FALSE, !.tmpl = NoTmpl]
      BY <1>2 DEF unreserve_fcps
    <2>2. /\ fcp'[f].reserved = FALSE /\ fcp'[f].assigner = fcp[f].assigner
          /\ fcp'[f].connections = fcp[f].connections
      BY <1>1, <2>1 DEF Row
    <2> QED  BY <1>2, <2>2 DEF RowStep
  <1>3. CASE f \notin fs
    <2>1. fcp'[f] = fcp[f]
      BY <1>3 DEF unreserve_fcps
    <2> QED  BY <2>1 DEF RowStep
  <1> QED  BY <1>2, <1>3

LEMMA RbUnreserveConnects ==
  ASSUME OInv, NEW s \in Session, RbUnreserve(s)
  PROVE  Connects(s)
  <1>1. /\ ses[s].pc = "rb_unreserve" /\ Leave(s) /\ db_lock = NoSession
        /\ UNCHANGED <<dedicated, exists, deleting, held, volume>>
        /\ fcp' = unreserve_fcps(fcp, ses[s].todo) \/ fcp' = fcp
    BY DEF RbUnreserve, Transaction, zvm, client
  <1>2. \A f \in ses[s].todo : fcp[f].connections = 0 /\ fcp[f].assigner = VmOf[s]
    BY <1>1, Request DEF ReadOK, Mine
  <1>3. \A f \in Fcp : RowStep(s, f)
    BY <1>1, <1>2, UnreserveRows, SameRowsOwned
  <1>4. held'[s].fcps = {}
    BY <1>1, Request DEF WorkOK, Attaching
  <1> QED  BY <1>1, <1>3, <1>4, LeaveConnects

\* get_fcp_devices chooses among the free devices those not in use.
LEMMA ChoicesAreFree ==
  ASSUME NEW table, NEW free, NEW t, NEW fs \in get_fcp_devices(table, free, t)
  PROVE  fs \subseteq free /\ \A f \in fs : ~InUse(table[f])
  BY DEF get_fcp_devices

LEMMA ConnectorConnects ==
  ASSUME OInv, NEW s \in Session, Connector(s)
  PROVE  Connects(s)
  <1>0. /\ fcp \in [Fcp -> Row] /\ ses[s] \in Locals
        /\ held \in [Session -> [tmpl : Template \cup {NoTmpl}, fcps : SUBSET Fcp]]
    BY DEF OInv, IInv, TypeOK
  <1>1. CASE QueryZvm(s)
    <2> DEFINE free == {f \in Fcp : dedicated[f] = NoVm}
    <2>1. /\ ses[s].pc = "query" /\ ses' = [ses EXCEPT ![s].pc = ses[s].next, ![s].free = free]
          /\ UNCHANGED <<fcp, volume, dedicated, exists, deleting, held>>
      BY <1>1 DEF QueryZvm, zvm, client
    <2>2. \A f \in free : dedicated[f] = NoVm
      OBVIOUS
    <2> HIDE DEF free
    <2>3. /\ Alone(s) /\ ses'[s].pc = ses[s].next /\ ses'[s].free = free
          /\ ses'[s].vol = ses[s].vol /\ ses'[s].fcps = ses[s].fcps
          /\ ses'[s].todo = ses[s].todo /\ ses'[s].rb = ses[s].rb
          /\ ses'[s].root = ses[s].root
      BY <2>1 DEF Alone, OInv, IInv, TypeOK, Locals
    <2>4. /\ ses[s].next \in {"allocate", "release"}
          /\ ses[s].vol = NoVolume /\ ses[s].fcps = {} /\ ses[s].todo = {}
          /\ ~deleting[VmOf[s]]
          /\ ses[s].next = "release" => held[s].fcps = {}
      BY <1>0, <2>1, Request DEF Locals, WorkOK, Attaching, Detaching
    <2>5. ReadOK(s)'
      BY <2>1, <2>2, <2>3, <2>4 DEF ReadOK
    <2> QED  BY <2>1, <2>3, <2>4, <2>5, SameRowsOwned
             DEF Connects, Attaching, Detaching
  <1>2. CASE Allocate(s)
    <2>1. /\ ses[s].pc = "allocate" /\ Leave(s)
          /\ UNCHANGED <<volume, dedicated, exists, deleting>>
      BY <1>2 DEF Allocate, zvm
    <2>2. db_lock = s
      BY <2>1 DEF OInv, IInv, LocksMatchRequests
    <2>3. CASE held' = [held EXCEPT ![s] = NoConnector] /\ fcp' = fcp
      <3>1. held'[s].fcps = {} /\ \A r \in Session \ {s} : held'[r] = held[r]
        BY <1>0, <2>3 DEF NoConnector
      <3>2. \A f \in Fcp : RowStep(s, f)
        BY <2>3 DEF RowStep
      <3> QED  BY <2>1, <2>2, <3>1, <3>2, LeaveConnects DEF Attaching, Detaching
    <2>4. ASSUME NEW fs \in get_fcp_devices(fcp, ses[s].free, ses[s].tmpl),
                 fcp' = reserve_fcps(fcp, fs, VmOf[s], ses[s].tmpl),
                 held' = [held EXCEPT ![s] = [tmpl |-> ses[s].tmpl, fcps |-> fs]]
          PROVE  Connects(s)
      <3>0. fs \subseteq Fcp
        BY ChoicesAreFcps
      <3>1. /\ fs \subseteq Fcp /\ fs \subseteq ses[s].free
            /\ \A f \in fs : ~fcp[f].reserved
        BY <3>0, ChoicesAreFree DEF InUse
      <3>2. \A f \in fs : dedicated[f] = NoVm
        BY <2>1, <3>1, Request DEF ReadOK
      <3>3. held'[s].fcps = fs /\ \A r \in Session \ {s} : held'[r] = held[r]
        BY <1>0, <2>4
      <3>4. ASSUME NEW f \in fs
            PROVE  RowStep(s, f) /\ Mine(f, VmOf[s])'
        <4>1. fcp[f] \in Row /\ fcp'[f] =
                [fcp[f] EXCEPT !.reserved = TRUE, !.assigner = VmOf[s], !.tmpl = ses[s].tmpl]
          BY <1>0, <2>4, <3>1 DEF reserve_fcps
        <4>2. /\ fcp'[f].reserved = TRUE /\ fcp'[f].assigner = VmOf[s]
              /\ fcp'[f].connections = fcp[f].connections
          BY <4>1 DEF Row
        <4> QED  BY <3>1, <3>2, <4>2 DEF RowStep, Mine
      <3>5. ASSUME NEW f \in Fcp, f \notin fs
            PROVE  RowStep(s, f)
        <4>1. fcp'[f] = fcp[f]
          BY <2>4, <3>5 DEF reserve_fcps
        <4> QED  BY <4>1 DEF RowStep
      <3> QED  BY <2>1, <2>2, <3>1, <3>3, <3>4, <3>5, LeaveConnects DEF Attaching, Detaching
    <2> QED  BY <1>2, <2>3, <2>4 DEF Allocate
  <1>3. CASE Release(s)
    <2> DEFINE fs == {f \in get_reserved_fcps_from_assigner(
                              fcp, VmOf[s], ses[s].tmpl) :
                        fcp[f].connections = 0}
    <2>1. /\ ses[s].pc = "release" /\ Leave(s) /\ fcp' = unreserve_fcps(fcp, fs)
          /\ UNCHANGED <<volume, dedicated, exists, deleting, held>>
      BY <1>3 DEF Release, zvm, client
    <2>2. \A f \in fs : fcp[f].connections = 0 /\ fcp[f].assigner = VmOf[s]
      BY DEF get_reserved_fcps_from_assigner
    <2> HIDE DEF fs
    <2>3. \A f \in Fcp : RowStep(s, f)
      BY <2>1, <2>2, UnreserveRows
    <2>4. db_lock = s /\ held'[s].fcps = {}
      BY <2>1, Request DEF OInv, IInv, LocksMatchRequests, WorkOK
    <2> QED  BY <2>1, <2>3, <2>4, LeaveConnects DEF Attaching, Detaching
  <1>4. CASE FailConnector(s)
    <2>1. /\ ses[s].pc \in {"allocate", "release"} /\ Leave(s)
          /\ UNCHANGED <<fcp, volume, dedicated, exists, deleting, held>>
      BY <1>4 DEF FailConnector, zvm, client
    <2> QED  BY <2>1, SameRowsOwned, LeaveConnects DEF Attaching, Detaching
  <1> QED  BY <1>1, <1>2, <1>3, <1>4 DEF Connector

-----------------------------------------------------------------------------
(* Requests of clients *)

\* A session in no request, or in get_volume_connector.
LEMMA IdleFacts ==
  ASSUME OInv, NEW s \in Session, ses[s].pc = "idle"
  PROVE  ses[s].vol = NoVolume /\ ses[s].fcps = {} /\ ses[s].todo = {}
  BY Request DEF WorkOK, Attaching, Detaching

LEMMA ReuseFcpsConnects ==
  ASSUME OInv, NEW s \in Session, NEW t \in Template, ReuseFcps(s, t)
  PROVE  Connects(s)
  <1> DEFINE fs == get_allocated_fcps_from_assigner(fcp, VmOf[s], t)
  <1>1. /\ ses[s].pc = "idle" /\ UNCHANGED <<fcp, ses, volume, dedicated, exists, deleting>>
        /\ held' = [held EXCEPT ![s] = [tmpl |-> t, fcps |-> fs]]
    BY DEF ReuseFcps, CanEnter, sdk, zvm
  <1>2. fs \subseteq Fcp /\ \A f \in fs : fcp[f].assigner = VmOf[s] /\ fcp[f].tmpl = t
    BY MappingAssumption DEF get_allocated_fcps_from_assigner, FcpsOfTemplate
  <1> HIDE DEF fs
  <1>3. \A f \in Fcp : Consistent(fcp[f])
    BY DEF OInv, IInv, UsedRowHasAssigner
  <1>4. \A f \in fs : fcp[f].reserved
    BY <1>2, <1>3, TemplateAssumption DEF Consistent
  <1>5. held'[s].fcps = fs /\ \A r \in Session \ {s} : held'[r] = held[r]
    BY <1>1 DEF OInv, IInv, TypeOK
  <1>6. /\ \A f \in Fcp : RowStep(s, f)
        /\ \A f \in held'[s].fcps : f \in Fcp /\ Mine(f, VmOf[s])'
    BY <1>1, <1>2, <1>4, <1>5 DEF RowStep, Mine
  <1>7. /\ Alone(s) /\ ses'[s] = ses[s] /\ ses[s].vol = NoVolume
        /\ ses[s].fcps = {} /\ ses[s].todo = {}
    BY <1>1, IdleFacts DEF Alone
  <1> QED  BY <1>1, <1>5, <1>6, <1>7 DEF Connects, ReadOK, Attaching, Detaching

LEMMA BeginAllocateConnects ==
  ASSUME Orderly, OInv, NEW s \in Session, NEW t \in Template, BeginAllocate(s, t)
  PROVE  Connects(s)
  <1> DEFINE l == [Idle EXCEPT !.pc = "query", !.next = "allocate", !.tmpl = t]
  <1>1. /\ ses[s].pc = "idle" /\ ses' = [ses EXCEPT ![s] = l] /\ ~deleting[VmOf[s]]
        /\ UNCHANGED <<fcp, held, volume, dedicated, exists, deleting>>
    BY DEF BeginAllocate, Enter, CanEnter, Orderly, zvm, client
  <1>2. /\ l.pc = "query" /\ l.next = "allocate" /\ l.vol = NoVolume /\ l.fcps = {}
        /\ l.todo = {} /\ l.rb = TRUE /\ l.root = FALSE
    BY DEF Idle
  <1> HIDE DEF l
  <1>3. Alone(s) /\ ses'[s] = l
    BY <1>1 DEF Alone, OInv, IInv, TypeOK
  <1>4. ReadOK(s)'
    BY <1>2, <1>3 DEF ReadOK
  <1> QED  BY <1>1, <1>2, <1>3, <1>4, SameRowsOwned DEF Connects, Attaching, Detaching

LEMMA BeginReleaseConnects ==
  ASSUME Orderly, OInv, NEW s \in Session, NEW t \in Template, BeginRelease(s, t)
  PROVE  Connects(s)
  <1> DEFINE l == [Idle EXCEPT !.pc = "query", !.next = "release", !.tmpl = t]
  <1>1. /\ ses[s].pc = "idle" /\ ses' = [ses EXCEPT ![s] = l] /\ ~deleting[VmOf[s]]
        /\ UNCHANGED <<fcp, volume, dedicated, exists, deleting>>
        /\ held' = [held EXCEPT ![s] = NoConnector]
    BY DEF BeginRelease, Enter, CanEnter, Orderly, zvm
  <1>2. /\ l.pc = "query" /\ l.vol = NoVolume /\ l.fcps = {}
        /\ l.todo = {} /\ l.rb = TRUE /\ l.root = FALSE
    BY DEF Idle
  <1> HIDE DEF l
  <1>3. Alone(s) /\ ses'[s] = l
    BY <1>1 DEF Alone, OInv, IInv, TypeOK
  <1>4. ReadOK(s)'
    BY <1>2, <1>3 DEF ReadOK
  <1>5. held'[s].fcps = {} /\ \A r \in Session \ {s} : held'[r] = held[r]
    BY <1>1 DEF OInv, IInv, TypeOK, NoConnector
  <1>6. \A f \in Fcp : RowStep(s, f)
    BY <1>1 DEF RowStep
  <1> QED  BY <1>1, <1>2, <1>3, <1>4, <1>5, <1>6 DEF Connects, Attaching, Detaching

\* A request begins to work on a volume that nobody works on.  It counts it
\* if it is attached.
Begins(s, v) ==
  /\ ses[s].pc = "idle" /\ ~deleting[VmOf[s]] /\ Alone(s)
  /\ \A r \in Session : ses[r].vol # v
  /\ ses'[s].vol = v /\ ses'[s].todo = {}
  /\ ~ses'[s].rb => SomeKeep
  /\ \/ /\ ses'[s].pc = "reserve" /\ ~volume[v].attached
        /\ ses'[s].fcps = held[s].fcps /\ held'[s].fcps = {}
     \/ /\ ses'[s].pc = "decrease" /\ volume[v].attached
        /\ volume[v].vm = VmOf[s] /\ ses'[s].fcps = volume[v].fcps
        /\ held'[s] = held[s]
  /\ \A r \in Session \ {s} : held'[r] = held[r]
  /\ \A f \in Fcp : \/ dedicated'[f] = dedicated[f]
                    \/ f \in held[s].fcps /\ dedicated'[f] = VmOf[s]
  /\ UNCHANGED <<fcp, volume, exists, deleting>>

LEMMA BeginsOInv ==
  ASSUME OInv, IInv', NEW s \in Session, NEW v \in Volume, Begins(s, v)
  PROVE  OInv'
  <1>0. /\ Alone(s) /\ Apart /\ UNCHANGED <<fcp, volume, exists, deleting>>
        /\ \A r \in Session : ses[r].vol # v
        /\ ses'[s].vol = v /\ v # NoVolume /\ ses[s].vol = NoVolume
    BY SessionAssumption, IdleFacts DEF Begins, OInv
  <1>1. ASSUME NEW r \in Session PROVE WorkOK(r)'
    <2>1. CASE r = s
      BY <2>1, <1>0 DEF Begins, WorkOK, Attaching, Detaching
    <2>2. CASE r # s
      <3>1. WorkOK(r) /\ ses'[r] = ses[r] /\ held'[r] = held[r]
        BY <2>2 DEF OInv, Begins, Alone
      <3> QED  BY <1>0, <3>1 DEF WorkOK
    <2> QED  BY <2>1, <2>2
  <1>2. Apart'
    BY <1>0 DEF Apart, Alone
  <1>3. OwnersOK /\ DedicatedToAssigner /\ ReservedWhileConnected
    BY DEF OInv
  <1>4. \A f, vm : Mine(f, vm)' <=> Mine(f, vm)
    BY <1>0 DEF Mine
  <1>5. OwnersOK'
    <2>1. ASSUME NEW r \in Session, NEW f \in held'[r].fcps \cup ses'[r].fcps
          PROVE  Mine(f, VmOf[r])
      <3>1. CASE r # s
        BY <1>3, <2>1, <3>1 DEF Begins, Alone, OwnersOK
      <3>2. CASE r = s
        BY <1>3, <2>1, <3>2 DEF Begins, OwnersOK
      <3> QED  BY <3>1, <3>2
    <2>2. \A w \in Volume : volume'[w].attached =>
            \A f \in volume'[w].fcps : Mine(f, volume'[w].vm)
      BY <1>0, <1>3 DEF OwnersOK
    <2> QED  BY <1>0, <1>4, <2>1, <2>2 DEF OwnersOK
  <1>6. ReservedWhileConnected' /\ DedicatedToAssigner'
    <2>1. ASSUME NEW f \in Fcp, fcp[f].reserved
          PROVE  dedicated'[f] \in {NoVm, fcp[f].assigner}
      BY <1>3, <2>1 DEF Begins, DedicatedToAssigner, OwnersOK, Mine
    <2> QED  BY <1>0, <1>3, <2>1 DEF ReservedWhileConnected, DedicatedToAssigner
  <1>7. ASSUME NEW r \in Session PROVE ReadOK(r)'
    <2>1. CASE r = s
      BY <2>1 DEF Begins, ReadOK
    <2>2. CASE r # s
      <3>1. ReadOK(r) /\ ses'[r] = ses[r]
        BY <2>2 DEF OInv, Begins, Alone
      <3>2. ASSUME ses[r].pc = "allocate", NEW f \in ses[r].free
            PROVE  dedicated'[f] = NoVm \/ fcp'[f].reserved
        <4>1. f \in Fcp /\ (dedicated[f] = NoVm \/ fcp[f].reserved)
          BY <3>1, <3>2 DEF ReadOK, OInv, IInv, TypeOK, Locals
        <4> QED  BY <1>0, <1>3, <4>1 DEF Begins, OwnersOK, Mine
      <3>3. Zero(r)' = Zero(r)
        BY <3>1 DEF Zero
      <3> QED  BY <1>0, <3>1, <3>2, <3>3 DEF ReadOK
    <2> QED  BY <2>1, <2>2
  <1>8. CountOK'
    <2> SUFFICES ASSUME NEW f \in Fcp PROVE Users(f)' = Users(f)
      BY <1>0 DEF CountOK, OInv
    <2>1. ASSUME NEW w \in Volume PROVE Uses(w, f)' <=> Uses(w, f)
      <3>1. \A r \in Session : ses'[r] = ses[r] => (Counts(r, f)' <=> Counts(r, f))
        BY DEF Counts
      <3>2. CASE w # v
        BY <1>0, <3>1, <3>2, SessionAssumption DEF Uses, Alone
      <3>3. CASE w = v
        <4>1. Uses(v, f) <=> volume[v].attached /\ f \in volume[v].fcps
          BY <1>0 DEF Uses
        <4>2. Uses(v, f)' <=> Counts(s, f)'
          BY <1>0 DEF Uses, Alone
        <4>3. Counts(s, f)' <=> volume[v].attached /\ f \in volume[v].fcps
          BY DEF Begins, Counts
        <4> QED  BY <3>3, <4>1, <4>2, <4>3
      <3> QED  BY <3>2, <3>3
    <2> QED  BY <2>1 DEF Users
  <1> QED  BY <1>1, <1>2, <1>5, <1>6, <1>7, <1>8 DEF OInv

LEMMA CallAttachBegins ==
  ASSUME Orderly, OInv, NEW s \in Session, NEW v \in Volume, NEW root, NEW rb,
         ~rb => SomeKeep, CallAttach(s, v, root, rb)
  PROVE  Begins(s, v)
  <1> DEFINE l == [Idle EXCEPT !.pc = "reserve", !.vol = v, !.fcps = held[s].fcps,
                     !.tmpl = held[s].tmpl, !.root = root, !.rb = rb]
  <1>1. /\ ses[s].pc = "idle" /\ ses' = [ses EXCEPT ![s] = l] /\ ~deleting[VmOf[s]]
        /\ ~volume[v].attached /\ \A r \in Session : ses[r].vol # v
        /\ held' = [held EXCEPT ![s] = NoConnector]
        /\ UNCHANGED <<fcp, volume, exists, deleting>>
    BY DEF CallAttach, Enter, CanEnter, Orderly
  <1>2. \A f \in Fcp : \/ dedicated'[f] = dedicated[f]
                       \/ f \in held[s].fcps /\ dedicated'[f] = VmOf[s]
    <2>1. \/ dedicated' = dedicated
          \/ dedicated' = [f \in Fcp |-> IF f \in held[s].fcps /\ dedicated[f] = NoVm
                                         THEN VmOf[s] ELSE dedicated[f]]
      BY DEF CallAttach
    <2> QED  BY <2>1
  <1>3. /\ l.pc = "reserve" /\ l.vol = v /\ l.fcps = held[s].fcps
        /\ l.todo = {} /\ l.rb = rb
    BY DEF Idle
  <1> HIDE DEF l
  <1>4. Alone(s) /\ ses'[s] = l
    BY <1>1 DEF Alone, OInv, IInv, TypeOK
  <1>5. held'[s].fcps = {} /\ \A r \in Session \ {s} : held'[r] = held[r]
    BY <1>1 DEF OInv, IInv, TypeOK, NoConnector
  <1> QED  BY <1>1, <1>2, <1>3, <1>4, <1>5 DEF Begins

LEMMA CallDetachBegins ==
  ASSUME Orderly, OInv, NEW s \in Session, NEW v \in Volume, NEW only, NEW rb,
         ~rb => SomeKeep, CallDetach(s, v, only, rb)
  PROVE  Begins(s, v)
  <1> DEFINE l == [Idle EXCEPT !.pc = "decrease", !.vol = v,
                     !.fcps = volume[v].fcps, !.tmpl = volume[v].tmpl,
                     !.root = volume[v].root, !.only = only, !.rb = rb]
  <1>1. /\ ses[s].pc = "idle" /\ ses' = [ses EXCEPT ![s] = l] /\ ~deleting[VmOf[s]]
        /\ volume[v].attached /\ volume[v].vm = VmOf[s] /\ \A r \in Session : ses[r].vol # v
        /\ UNCHANGED <<fcp, volume, held, dedicated, exists, deleting>>
    BY DEF CallDetach, Enter, CanEnter, Orderly, zvm, client
  <1>2. /\ l.pc = "decrease" /\ l.vol = v /\ l.fcps = volume[v].fcps
        /\ l.todo = {} /\ l.rb = rb
    BY DEF Idle
  <1> HIDE DEF l
  <1>3. Alone(s) /\ ses'[s] = l
    BY <1>1 DEF Alone, OInv, IInv, TypeOK
  <1> QED  BY <1>1, <1>2, <1>3 DEF Begins

\* Requests of clients keep the invariant.
LEMMA CallOInv ==
  ASSUME Orderly, OInv, IInv', NEW s \in Session, Call(s)
  PROVE  OInv'
  <1>1. ASSUME NEW t \in Template, ReuseFcps(s, t) \/ BeginAllocate(s, t) \/ BeginRelease(s, t)
        PROVE  OInv'
    BY <1>1, ReuseFcpsConnects, BeginAllocateConnects, BeginReleaseConnects, ConnectsOInv
  <1>2. ASSUME NEW v \in Volume, NEW norb \in Flag("no rollback"),
               \/ \E root \in Flag("root") : CallAttach(s, v, root, ~norb)
               \/ \E only \in Flag("update only") : CallDetach(s, v, only, ~norb)
        PROVE  OInv'
    <2>1. norb \in BOOLEAN /\ (norb => SomeKeep)
      BY DEF Flag, SomeKeep
    <2>2. Begins(s, v)
      BY <1>2, <2>1, CallAttachBegins, CallDetachBegins
    <2> QED  BY <2>2, BeginsOInv
  <1> QED  BY <1>1, <1>2 DEF Call

-----------------------------------------------------------------------------
(* Guests, and the server itself *)

\* A guest is deleted while no request for it is running.
LEMMA DeleteUseridOInv ==
  ASSUME Orderly, OInv, IInv', NEW vm \in Vm, DeleteUserid(vm)
  PROVE  OInv'
  <1>1. /\ NotServed(vm) /\ UNCHANGED <<fcp, ses, held, volume>>
        /\ deleting' = [deleting EXCEPT ![vm] = TRUE]
        /\ dedicated' = [f \in Fcp |-> IF dedicated[f] = vm THEN NoVm ELSE dedicated[f]]
    BY DEF DeleteUserid, Orderly, sdk, client
  <1>2. \A f \in Fcp : dedicated'[f] \in {dedicated[f], NoVm}
    BY <1>1
  <1>3. \A s \in Session : WorkOK(s)'
    BY <1>1 DEF OInv, WorkOK, NotServed, IInv, TypeOK
  <1>4. ASSUME NEW s \in Session PROVE ReadOK(s)'
    <2>1. ReadOK(s) /\ ses[s].free \subseteq Fcp /\ Zero(s)' = Zero(s)
      BY <1>1 DEF OInv, IInv, TypeOK, Locals, Zero
    <2> QED  BY <1>1, <1>2, <2>1 DEF ReadOK
  <1>5. Apart' /\ OwnersOK' /\ ReservedWhileConnected'
    BY <1>1 DEF OInv, Apart, OwnersOK, Mine, ReservedWhileConnected
  <1>6. DedicatedToAssigner'
    BY <1>1, <1>2 DEF OInv, DedicatedToAssigner
  <1>7. CountOK'
    BY <1>1 DEF OInv, CountOK, Users, Uses, Counts
  <1> QED  BY <1>3, <1>4, <1>5, <1>6, <1>7 DEF OInv

\* A userid is defined again.
LEMMA CreateUseridOInv ==
  ASSUME OInv, IInv', NEW vm \in Vm, CreateUserid(vm)
  PROVE  OInv'
  <1>1. UNCHANGED <<fcp, ses, held, volume, dedicated, deleting>>
    BY DEF CreateUserid, sdk, client
  <1>2. \A s \in Session : WorkOK(s)' /\ ReadOK(s)'
    BY <1>1 DEF OInv, WorkOK, ReadOK, Zero
  <1>3. Apart' /\ OwnersOK' /\ ReservedWhileConnected' /\ DedicatedToAssigner'
    BY <1>1 DEF OInv, Apart, OwnersOK, Mine, ReservedWhileConnected, DedicatedToAssigner
  <1>4. CountOK'
    BY <1>1 DEF OInv, CountOK, Users, Uses, Counts
  <1> QED  BY <1>2, <1>3, <1>4 DEF OInv

\* The rows of a deleted guest are reset, and its volumes forgotten.
LEMMA ResetFcpsOInv ==
  ASSUME Orderly, OInv, IInv', NEW vm \in Vm, ResetFcps(vm)
  PROVE  OInv'
  <1>1. /\ deleting[vm] /\ db_lock = NoSession
        /\ fcp' = reset_fcps_of_assigner(fcp, vm)
        /\ deleting' = [deleting EXCEPT ![vm] = FALSE]
        /\ volume' = [v \in Volume |-> IF volume[v].vm # vm THEN volume[v] ELSE Unused]
        /\ held' = [s \in Session |-> IF VmOf[s] = vm THEN NoConnector ELSE held[s]]
        /\ UNCHANGED <<ses, dedicated, exists>>
    <2>1. "detach deleted" \notin Env
      BY DEF Orderly
    <2> QED  BY <2>1 DEF ResetFcps, Transaction
  <1>2. ASSUME NEW f \in Fcp, fcp[f].assigner = vm
        PROVE  ~fcp'[f].reserved /\ fcp'[f].connections = 0
    <2>1. fcp[f] \in Row
      BY DEF OInv, IInv, TypeOK
    <2> QED  BY <1>1, <1>2, <2>1 DEF reset_fcps_of_assigner, Row
  <1>3. ASSUME NEW f \in Fcp, fcp[f].assigner # vm PROVE fcp'[f] = fcp[f]
    BY <1>1, <1>3 DEF reset_fcps_of_assigner
  <1>4. \A v \in Volume : /\ volume[v].vm # vm => volume'[v] = volume[v]
                          /\ volume[v].vm = vm => ~volume'[v].attached
    BY <1>1 DEF Unused
  <1>5. \A s \in Session : /\ VmOf[s] # vm => held'[s] = held[s]
                           /\ VmOf[s] = vm => /\ held'[s].fcps = {} /\ ses[s].pc = "idle"
                                              /\ ses[s].vol = NoVolume /\ ses[s].fcps = {}
    <2>1. ASSUME NEW s \in Session, VmOf[s] = vm
          PROVE  held'[s].fcps = {} /\ ses[s].pc = "idle"
      BY <1>1, <2>1, Request DEF WorkOK, NoConnector
    <2> QED  BY <1>1, <2>1, IdleFacts
  <1>6. ASSUME NEW s \in Session PROVE WorkOK(s)'
    <2>1. WorkOK(s) /\ ses'[s] = ses[s]
      BY <1>1 DEF OInv
    <2>2. CASE VmOf[s] = vm
      BY <1>5, <2>1, <2>2, SessionAssumption DEF WorkOK, Attaching, Detaching
    <2>3. CASE VmOf[s] # vm
      <3>1. held'[s] = held[s] /\ (deleting'[VmOf[s]] <=> deleting[VmOf[s]])
        BY <1>1, <1>5, <2>3, SessionAssumption DEF OInv, IInv, TypeOK
      <3>2. ses[s].vol \in Volume =>
              /\ ~volume[ses[s].vol].attached => ~volume'[ses[s].vol].attached
              /\ volume[ses[s].vol].vm = VmOf[s] => volume'[ses[s].vol] = volume[ses[s].vol]
        BY <1>4, <2>3
      <3> QED  BY <2>1, <3>1, <3>2 DEF WorkOK
    <2> QED  BY <2>2, <2>3
  <1>7. ASSUME NEW f \in Fcp, NEW w, w # vm, Mine(f, w) PROVE Mine(f, w)'
    BY <1>3, <1>7 DEF Mine
  <1>8. /\ \A s \in Session : held[s].fcps \subseteq Fcp /\ ses[s].fcps \subseteq Fcp
        /\ \A v \in Volume : volume[v].fcps \subseteq Fcp
        /\ OwnersOK
    BY LocalTypes DEF OInv, IInv, TypeOK
  <1>9. OwnersOK'
    <2>1. ASSUME NEW s \in Session, NEW f \in held'[s].fcps \cup ses'[s].fcps
          PROVE  Mine(f, VmOf[s])'
      <3>1. VmOf[s] # vm /\ f \in held[s].fcps \cup ses[s].fcps
        BY <1>1, <1>5, <2>1
      <3> QED  BY <1>7, <1>8, <3>1 DEF OwnersOK
    <2>2. ASSUME NEW v \in Volume, volume'[v].attached, NEW f \in volume'[v].fcps
          PROVE  Mine(f, volume[v].vm)'
      <3>1. volume[v].vm # vm /\ volume'[v] = volume[v]
        BY <1>4, <2>2
      <3>2. Mine(f, volume[v].vm) /\ f \in Fcp
        BY <1>8, <2>2, <3>1 DEF OwnersOK
      <3>3. fcp'[f] = fcp[f]
        BY <1>3, <3>1, <3>2 DEF Mine
      <3> QED  BY <3>1, <3>2, <3>3 DEF Mine
    <2> QED  BY <2>1, <2>2 DEF OwnersOK
  <1>10. Apart' /\ ReservedWhileConnected' /\ DedicatedToAssigner'
    BY <1>1, <1>2, <1>3 DEF OInv, Apart, ReservedWhileConnected, DedicatedToAssigner
  <1>11. ASSUME NEW s \in Session PROVE ReadOK(s)'
    <2>1. /\ ReadOK(s) /\ ses'[s] = ses[s] /\ ses[s].pc # "allocate"
          /\ ses[s].todo \subseteq ses[s].fcps
      BY <1>1, SessionAssumption, Request DEF OInv, IInv, LocksMatchRequests
    <2>2. ASSUME NEW f \in ses[s].fcps PROVE fcp'[f] = fcp[f]
      <3>1. f \in Fcp /\ fcp[f].assigner = VmOf[s] /\ VmOf[s] # vm
        BY <1>5, <1>8, <2>2 DEF OwnersOK, Mine
      <3> QED  BY <1>3, <3>1
    <2>3. Zero(s)' = Zero(s)
      BY <2>1 DEF Zero
    <2> QED  BY <2>1, <2>2, <2>3 DEF ReadOK
  <1>12. CountOK'
    <2> SUFFICES ASSUME NEW f \in Fcp
                 PROVE  /\ IsFiniteSet(Users(f)')
                        /\ Cardinality(Users(f)') <= fcp'[f].connections
                        /\ ~MayStop => Cardinality(Users(f)') = fcp'[f].connections
      BY DEF CountOK
    <2>1. \A s \in Session : Counts(s, f)' <=> Counts(s, f)
      BY <1>1 DEF Counts
    <2>2. CASE fcp[f].assigner = vm
      <3>1. ASSUME NEW v \in Volume PROVE ~Uses(v, f)'
        <4>1. ASSUME NEW s \in Session PROVE ~Counts(s, f)
          <5>1. f \notin ses[s].fcps
            BY <1>5, <1>8, <2>2 DEF OwnersOK, Mine
          <5> QED  BY <5>1, Request DEF Counts
        <4>2. ~(volume'[v].attached /\ f \in volume'[v].fcps)
          BY <1>4, <1>8, <2>2 DEF OwnersOK, Mine
        <4> QED  BY <2>1, <4>1, <4>2 DEF Uses
      <3>2. Users(f)' = {}
        BY <3>1 DEF Users
      <3> QED  BY <1>2, <2>2, <3>2, FS_EmptySet
    <2>3. CASE fcp[f].assigner # vm
      <3>1. ASSUME NEW v \in Volume
            PROVE  volume'[v].attached /\ f \in volume'[v].fcps
                     <=> volume[v].attached /\ f \in volume[v].fcps
        <4>1. CASE volume[v].vm # vm
          BY <1>4, <4>1
        <4>2. CASE volume[v].vm = vm
          BY <1>4, <1>8, <2>3, <4>2 DEF OwnersOK, Mine
        <4> QED  BY <4>1, <4>2
      <3>2. Users(f)' = Users(f)
        BY <1>1, <2>1, <3>1 DEF Users, Uses
      <3> QED  BY <1>3, <2>3, <3>2 DEF OInv, CountOK
    <2> QED  BY <2>2, <2>3
  <1> QED  BY <1>6, <1>9, <1>10, <1>11, <1>12 DEF OInv

\* The server stops: the volumes that were worked on are not attached.
LEMMA CrashOInv ==
  ASSUME OInv, IInv', Crash
  PROVE  OInv'
  <1>1. /\ MayStop /\ UNCHANGED <<fcp, dedicated, deleting, held>>
        /\ ses' = [s \in Session |-> Idle]
    BY DEF Crash, zvm, MayStop
  <1>2. ASSUME NEW v \in Volume
        PROVE  /\ volume'[v].fcps = volume[v].fcps /\ volume'[v].vm = volume[v].vm
               /\ volume'[v].attached => volume[v].attached /\ \A s \in Session : ses[s].vol # v
    <2>1. volume[v] \in VolumeType
      BY DEF OInv, IInv, TypeOK, VolumeType
    <2> QED  BY <2>1 DEF Crash, VolumeType
  <1>3. \A s \in Session : /\ ses'[s].pc = "idle" /\ ses'[s].vol = NoVolume
                           /\ ses'[s].fcps = {} /\ ses'[s].todo = {} /\ ses'[s].rb = TRUE
    BY <1>1 DEF Idle
  <1>4. \A s \in Session : WorkOK(s)' /\ ReadOK(s)'
    BY <1>3 DEF WorkOK, ReadOK, Attaching, Detaching
  <1>5. Apart' /\ OwnersOK' /\ ReservedWhileConnected' /\ DedicatedToAssigner'
    BY <1>1, <1>2, <1>3
    DEF OInv, Apart, OwnersOK, Mine, ReservedWhileConnected, DedicatedToAssigner
  <1>6. ASSUME NEW f \in Fcp
        PROVE  IsFiniteSet(Users(f)') /\ Cardinality(Users(f)') <= fcp'[f].connections
    <2>1. Users(f)' \subseteq Users(f)
      BY <1>2, <1>3 DEF Users, Uses, Counts
    <2>2. /\ IsFiniteSet(Users(f)) /\ Cardinality(Users(f)) <= fcp[f].connections
          /\ fcp[f].connections \in Nat
      BY RowTypes DEF OInv, CountOK
    <2>3. IsFiniteSet(Users(f)') /\ Cardinality(Users(f)') <= Cardinality(Users(f))
      BY <2>1, <2>2, FS_Subset
    <2>4. Cardinality(Users(f)') \in Nat /\ Cardinality(Users(f)) \in Nat
      BY <2>2, <2>3, FS_CardinalityType
    <2> QED  BY <1>1, <2>2, <2>3, <2>4
  <1>7. CountOK'
    BY <1>1, <1>6 DEF CountOK
  <1> QED  BY <1>4, <1>5, <1>7 DEF OInv

\* Nothing is in use in the beginning.
LEMMA InitOInv == Init => OInv
  <1> SUFFICES ASSUME Init PROVE OInv
    OBVIOUS
  <1>1. IInv
    BY InitIInv
  <1>2. \A s \in Session : /\ ses[s].pc = "idle" /\ ses[s].vol = NoVolume /\ ses[s].fcps = {}
                           /\ ses[s].todo = {} /\ ses[s].rb = TRUE /\ held[s].fcps = {}
    BY DEF Init, Idle, NoConnector
  <1>3. /\ \A v \in Volume : ~volume[v].attached
        /\ \A f \in Fcp : fcp[f].connections = 0 /\ ~fcp[f].reserved
    BY DEF Init, Unused, NewRow
  <1>4. \A s \in Session : WorkOK(s) /\ ReadOK(s)
    BY <1>2 DEF WorkOK, ReadOK, Attaching, Detaching
  <1>5. Apart /\ OwnersOK /\ ReservedWhileConnected /\ DedicatedToAssigner
    BY <1>2, <1>3 DEF Apart, OwnersOK, ReservedWhileConnected, DedicatedToAssigner
  <1>6. \A f \in Fcp : Users(f) = {}
    BY <1>2, <1>3 DEF Users, Uses, Counts
  <1>7. CountOK
    BY <1>3, <1>6, FS_EmptySet DEF CountOK
  <1> QED  BY <1>1, <1>4, <1>5, <1>7 DEF OInv

\* A phase of attach or detach respects the others, except the end of a
\* rollback, which gives devices up.
LEMMA RequestRespects ==
  ASSUME Orderly, OInv, NEW s \in Session, Step(s)
  PROVE  Respects(s) \/ Connector(s) \/ RbUnreserve(s)
  <1>1. CASE DoAttach(s)
    BY <1>1, ReserveRespects, IncreaseRespects, FailInDatabaseRespects,
       DedicateRespects, FailDedicateRespects, AddDisksRespects,
       RbReadRespects, RbAddedDisksRespects, RbConnectionsRespects,
       RbUndedicateRespects, RbDecreaseRespects, RbUsageRespects DEF DoAttach
  <1>2. CASE DoDetach(s)
    BY <1>2, DecreaseRespects, CheckUseridRespects, RemoveDisksRespects,
       UndedicateRespects, FailUndedicateRespects, RbDedicateRespects,
       RbRemovedDisksRespects, RbIncreaseRespects DEF DoDetach
  <1>3. ~RbAborts(s)
    BY DEF RbAborts, Orderly
  <1> QED  BY <1>1, <1>2, <1>3 DEF Step

\* The steps of requests keep the invariant.
LEMMA StepOInv ==
  ASSUME Orderly, OInv, IInv', NEW s \in Session, Step(s)
  PROVE  OInv'
  BY RequestRespects, RespectsOInv, ConnectorConnects, RbUnreserveConnects, ConnectsOInv

\* The invariant is inductive.
LEMMA NextOInv == Orderly /\ OInv /\ [Next]_vars => OInv'
  <1> SUFFICES ASSUME Orderly, OInv, [Next]_vars PROVE OInv'
    OBVIOUS
  <1>1. IInv'
    BY NextIInv DEF OInv
  <1>2. CASE UNCHANGED vars
    <2>1. UNCHANGED <<fcp, ses, held, volume, dedicated, deleting>>
      BY <1>2 DEF vars, sdk, zvm, client
    <2>2. \A s \in Session : WorkOK(s)' /\ ReadOK(s)'
      BY <2>1 DEF OInv, WorkOK, ReadOK, Zero
    <2>3. Apart' /\ OwnersOK' /\ ReservedWhileConnected' /\ DedicatedToAssigner'
      BY <2>1 DEF OInv, Apart, OwnersOK, Mine, ReservedWhileConnected, DedicatedToAssigner
    <2>4. CountOK'
      BY <2>1 DEF OInv, CountOK, Users, Uses, Counts
    <2> QED  BY <1>1, <2>2, <2>3, <2>4 DEF OInv
  <1>3. ASSUME NEW s \in Session, Call(s) \/ Step(s) PROVE OInv'
    BY <1>1, <1>3, CallOInv, StepOInv
  <1>4. ASSUME NEW vm \in Vm, Guest(vm) PROVE OInv'
    BY <1>1, <1>4, DeleteUseridOInv, ResetFcpsOInv, CreateUseridOInv DEF Guest
  <1>5. CASE Crash
    BY <1>1, <1>5, CrashOInv
  <1> QED  BY <1>2, <1>3, <1>4, <1>5 DEF Next

(***************************************************************************)
(* What requests work on, who owns which device, and the connections of    *)
(* each: the invariant holds for any devices, machines and volumes, and    *)
(* whatever fails, is rolled back or stops, if the clients are orderly.    *)
(***************************************************************************)
THEOREM OrderlyInvariant == Orderly => (Spec => []OInv)
  <1> SUFFICES ASSUME Orderly PROVE Spec => []OInv
    OBVIOUS
  <1>1. OInv /\ [Next]_vars => OInv'
    BY NextOInv
  <1> QED  BY <1>1, InitOInv, PTL DEF Spec

(***************************************************************************)
(* A device with connections stays reserved: reading the connections and   *)
(* unreserving in two transactions is safe, since nobody else can connect  *)
(* anything through a device of this virtual machine in between.           *)
(***************************************************************************)
THEOREM ReservationsLast == Orderly => (Spec => []ReservedWhileConnected)
  <1>1. OInv => ReservedWhileConnected
    BY DEF OInv
  <1> QED  BY <1>1, OrderlyInvariant, PTL

(***************************************************************************)
(* z/VM never has a device dedicated to one virtual machine while the      *)
(* table has it reserved for another, also after crashes and rollbacks     *)
(* that failed half way: the query of z/VM before an allocation, made with *)
(* the database locked, is enough.                                         *)
(***************************************************************************)
THEOREM DedicationsAgree == Orderly => (Spec => []DedicatedToAssigner)
  <1>1. OInv => DedicatedToAssigner
    BY DEF OInv
  <1> QED  BY <1>1, OrderlyInvariant, PTL

(***************************************************************************)
(* The assigner of a device is the virtual machine whose volumes are       *)
(* connected through it: no allocation, release or rollback of one machine *)
(* takes a device from another.                                            *)
(***************************************************************************)
THEOREM AssignersAgree == Orderly => (Spec => []AssignerHasVolumes)
  <1>1. OInv => AssignerHasVolumes
    BY DEF OInv, OwnersOK, Mine, AssignerHasVolumes, VolumesOn
  <1> QED  BY <1>1, OrderlyInvariant, PTL

\* The volumes that use a device nobody works on are those attached to it.
LEMMA QuietUsers ==
  ASSUME OInv, NEW f \in Fcp, Quiet(f)
  PROVE  Users(f) = VolumesOn(f)
  <1>1. \A s \in Session : ~Counts(s, f)
    BY Request DEF Quiet, Counts
  <1>2. ASSUME NEW v \in Volume, NEW s \in Session, ses[s].vol = v
        PROVE  ~(volume[v].attached /\ f \in volume[v].fcps)
    BY <1>2, Request, SessionAssumption DEF Quiet, WorkOK
  <1> QED  BY <1>1, <1>2 DEF Users, Uses, VolumesOn

(***************************************************************************)
(* If the server does not stop, the column connections of every device     *)
(* that no request is working on is exactly the number of volumes attached *)
(* through it, after any number of attaches and detaches that failed in    *)
(* any phase and of rollbacks that failed as well.                         *)
(***************************************************************************)
THEOREM ConnectionsAreExact ==
  Orderly /\ "crash" \notin Env => (Spec => []ConnectionsCountVolumes)
  <1> SUFFICES ASSUME Orderly, "crash" \notin Env
               PROVE  Spec => []ConnectionsCountVolumes
    OBVIOUS
  <1>0. ~MayStop
    BY DEF MayStop
  <1>1. OInv => ConnectionsCountVolumes
    BY <1>0, QuietUsers DEF OInv, CountOK, ConnectionsCountVolumes
  <1> QED  BY <1>1, OrderlyInvariant, PTL

-----------------------------------------------------------------------------
(* The refinement of FcpOwnership *)

\* The table does not change.
LEMMA NoChange ==
  ASSUME fcp' = fcp
  PROVE  UNCHANGED Ownership!vars
  BY DEF Ownership!vars, Owner, ConnectionsOf

\* Owner and connections of a device, before and after.
LEMMA OwnerOf ==
  ASSUME NEW f \in Fcp
  PROVE  /\ Owner[f] = IF fcp[f].reserved THEN fcp[f].assigner ELSE NoVm
         /\ Owner'[f] = IF fcp'[f].reserved THEN fcp'[f].assigner ELSE NoVm
         /\ ConnectionsOf(fcp)[f] = fcp[f].connections
         /\ ConnectionsOf(fcp)'[f] = fcp'[f].connections
  BY DEF Owner, ConnectionsOf

\* The devices that a request reserves are its own already, or free.
LEMMA TakeStep ==
  ASSUME OInv, NEW fs \in SUBSET Fcp, NEW s \in Session, NEW t,
         fcp' = reserve_fcps(fcp, fs, VmOf[s], t),
         \A f \in fs : ~fcp[f].reserved \/ Mine(f, VmOf[s])
  PROVE  Ownership!Take(fs, VmOf[s])
  <1>1. ASSUME NEW f \in Fcp
        PROVE  /\ fcp'[f].connections = fcp[f].connections
               /\ f \in fs => fcp'[f].reserved /\ fcp'[f].assigner = VmOf[s]
               /\ f \notin fs => fcp'[f] = fcp[f]
    <2>1. fcp[f] \in Row
      BY DEF OInv, IInv, TypeOK
    <2> QED  BY <2>1 DEF reserve_fcps, Row
  <1>2. \A f \in fs : Owner[f] \in {NoVm, VmOf[s]}
    BY DEF Owner, Mine
  <1>3. Owner' = [f \in Fcp |-> IF f \in fs THEN VmOf[s] ELSE Owner[f]]
    BY <1>1 DEF Owner
  <1>4. ConnectionsOf(fcp)' = ConnectionsOf(fcp)
    BY <1>1 DEF ConnectionsOf
  <1> QED  BY <1>2, <1>3, <1>4 DEF Ownership!Take

\* What is given up has no connections.
LEMMA GiveStep ==
  ASSUME OInv, NEW fs \in SUBSET Fcp, fcp' = unreserve_fcps(fcp, fs),
         \A f \in fs : fcp[f].connections = 0
  PROVE  Ownership!Give(fs)
  <1>1. ASSUME NEW f \in Fcp
        PROVE  /\ fcp'[f].connections = fcp[f].connections
               /\ f \in fs => ~fcp'[f].reserved
               /\ f \notin fs => fcp'[f] = fcp[f]
    <2>1. fcp[f] \in Row
      BY DEF OInv, IInv, TypeOK
    <2> QED  BY <2>1 DEF unreserve_fcps, Row
  <1>2. \A f \in fs : ConnectionsOf(fcp)[f] = 0
    BY DEF ConnectionsOf
  <1>3. Owner' = [f \in Fcp |-> IF f \in fs THEN NoVm ELSE Owner[f]]
    BY <1>1 DEF Owner
  <1>4. ConnectionsOf(fcp)' = ConnectionsOf(fcp)
    BY <1>1 DEF ConnectionsOf
  <1> QED  BY <1>2, <1>3, <1>4 DEF Ownership!Give

\* A request connects a volume through devices of its virtual machine.
LEMMA UseStep ==
  ASSUME OInv, NEW fs \in SUBSET Fcp, NEW s \in Session,
         fcp' = increase_connections(fcp, fs), \A f \in fs : Mine(f, VmOf[s])
  PROVE  Ownership!Use(fs, VmOf[s])
  <1>1. ASSUME NEW f \in Fcp
        PROVE  /\ fcp'[f].reserved = fcp[f].reserved
               /\ fcp'[f].assigner = fcp[f].assigner
               /\ fcp'[f].connections = IF f \in fs THEN fcp[f].connections + 1
                                        ELSE fcp[f].connections
    <2>1. fcp[f] \in Row
      BY DEF OInv, IInv, TypeOK
    <2> QED  BY <2>1 DEF increase_connections, Row
  <1>2. \A f \in fs : Owner[f] = VmOf[s]
    BY DEF Owner, Mine
  <1>3. Owner' = Owner
    BY <1>1 DEF Owner
  <1>4. ConnectionsOf(fcp)' = [f \in Fcp |-> IF f \in fs THEN ConnectionsOf(fcp)[f] + 1
                                             ELSE ConnectionsOf(fcp)[f]]
    BY <1>1 DEF ConnectionsOf
  <1> QED  BY <1>2, <1>3, <1>4 DEF Ownership!Use

\* It disconnects one.
LEMMA UnuseStep ==
  ASSUME OInv, NEW fs \in SUBSET Fcp, fcp' = decrease_connections(fcp, fs)
  PROVE  \E gs \in SUBSET Fcp : Ownership!Unuse(gs)
  <1> DEFINE gs == {f \in fs : fcp[f].connections > 0}
  <1>0. /\ gs \in SUBSET Fcp /\ \A f \in gs : fcp[f].connections > 0
        /\ \A f \in Fcp : f \in gs <=> f \in fs /\ fcp[f].connections > 0
    OBVIOUS
  <1> HIDE DEF gs
  <1>1. ASSUME NEW f \in Fcp
        PROVE  /\ fcp'[f].reserved = fcp[f].reserved
               /\ fcp'[f].assigner = fcp[f].assigner
               /\ fcp'[f].connections = IF f \in gs THEN fcp[f].connections - 1
                                        ELSE fcp[f].connections
    <2>1. fcp[f] \in Row
      BY DEF OInv, IInv, TypeOK
    <2> QED  BY <1>0, <2>1 DEF decrease_connections, Row
  <1>2. \A f \in gs : ConnectionsOf(fcp)[f] > 0
    BY <1>0 DEF ConnectionsOf
  <1>3. Owner' = Owner
    BY <1>1 DEF Owner
  <1>4. ConnectionsOf(fcp)' = [f \in Fcp |-> IF f \in gs THEN ConnectionsOf(fcp)[f] - 1
                                             ELSE ConnectionsOf(fcp)[f]]
    BY <1>1 DEF ConnectionsOf
  <1> QED  BY <1>0, <1>2, <1>3, <1>4 DEF Ownership!Unuse

\* A virtual machine is deleted.
LEMMA ForgetStep ==
  ASSUME OInv, NEW vm \in Vm, fcp' = reset_fcps_of_assigner(fcp, vm)
  PROVE  Ownership!Forget(vm)
  <1>1. ASSUME NEW f \in Fcp
        PROVE  /\ fcp[f].assigner = vm => ~fcp'[f].reserved /\ fcp'[f].connections = 0
               /\ fcp[f].assigner # vm => fcp'[f] = fcp[f]
               /\ ~fcp[f].reserved => fcp[f].connections = 0
    <2>1. fcp[f] \in Row
      BY DEF OInv, IInv, TypeOK
    <2>2. ~fcp[f].reserved => fcp[f].connections = 0
      BY <2>1 DEF OInv, ReservedWhileConnected, Row
    <2> QED  BY <2>1, <2>2 DEF reset_fcps_of_assigner, Row
  <1>2. Owner' = [f \in Fcp |-> IF Owner[f] = vm THEN NoVm ELSE Owner[f]]
    BY <1>1, VmAssumption DEF Owner
  <1>3. ConnectionsOf(fcp)' = [f \in Fcp |-> IF Owner[f] = vm THEN 0 ELSE ConnectionsOf(fcp)[f]]
    BY <1>1, VmAssumption DEF ConnectionsOf, Owner
  <1> QED  BY <1>2, <1>3 DEF Ownership!Forget

\* The steps of requests.
LEMMA RespectsOwnership ==
  ASSUME OInv, NEW s \in Session, Respects(s)
  PROVE  Ownership!Next \/ UNCHANGED Ownership!vars
  <1>0. VmOf[s] \in Vm /\ ses[s].fcps \in SUBSET Fcp /\ \A f \in ses[s].fcps : Mine(f, VmOf[s])
    BY Request, LocalTypes
  <1>1. CASE fcp' = fcp
    BY <1>1, NoChange
  <1>2. CASE fcp' = reserve_fcps(fcp, ses[s].fcps, VmOf[s], ses[s].tmpl)
    BY <1>0, <1>2, TakeStep DEF Ownership!Next
  <1>3. ASSUME NEW fs \in SUBSET ses[s].fcps, fcp' = increase_connections(fcp, fs)
        PROVE  Ownership!Next
    <2>1. fs \in SUBSET Fcp /\ \A f \in fs : Mine(f, VmOf[s])
      BY <1>0
    <2> QED  BY <1>0, <1>3, <2>1, UseStep DEF Ownership!Next
  <1>4. ASSUME NEW fs \in SUBSET ses[s].fcps, fcp' = decrease_connections(fcp, fs)
        PROVE  Ownership!Next
    <2>1. fs \in SUBSET Fcp
      BY <1>0
    <2> QED  BY <1>4, <2>1, UnuseStep DEF Ownership!Next
  <1> QED  BY <1>1, <1>2, <1>3, <1>4 DEF Respects, TableStep

\* Those of connectors, and the end of a rollback.
LEMMA ConnectorOwnership ==
  ASSUME OInv, NEW s \in Session, Connector(s) \/ RbUnreserve(s)
  PROVE  Ownership!Next \/ UNCHANGED Ownership!vars
  <1>0. VmOf[s] \in Vm
    BY LocalTypes DEF OInv
  <1>1. CASE fcp' = fcp
    BY <1>1, NoChange
  <1>2. ASSUME NEW fs \in get_fcp_devices(fcp, ses[s].free, ses[s].tmpl),
               fcp' = reserve_fcps(fcp, fs, VmOf[s], ses[s].tmpl)
        PROVE  Ownership!Next
    <2>1. fs \in SUBSET Fcp
      BY ChoicesAreFcps
    <2>2. \A f \in fs : ~fcp[f].reserved
      BY ChoicesAreFree DEF InUse
    <2> QED  BY <1>0, <1>2, <2>1, <2>2, TakeStep DEF Ownership!Next
  <1>3. CASE Release(s)
    <2> DEFINE fs == {f \in get_reserved_fcps_from_assigner(
                              fcp, VmOf[s], ses[s].tmpl) :
                        fcp[f].connections = 0}
    <2>1. fcp' = unreserve_fcps(fcp, fs)
      BY <1>3 DEF Release
    <2>2. fs \in SUBSET Fcp /\ \A f \in fs : fcp[f].connections = 0
      BY MappingAssumption DEF get_reserved_fcps_from_assigner, FcpsOfTemplate
    <2> HIDE DEF fs
    <2> QED  BY <2>1, <2>2, GiveStep DEF Ownership!Next
  <1>4. CASE ses[s].pc = "rb_unreserve" /\ fcp' = unreserve_fcps(fcp, ses[s].todo)
    <2>1. ses[s].todo \in SUBSET Fcp /\ \A f \in ses[s].todo : fcp[f].connections = 0
      BY <1>4, Request DEF ReadOK
    <2> QED  BY <1>4, <2>1, GiveStep DEF Ownership!Next
  <1> QED  BY <1>1, <1>2, <1>3, <1>4
           DEF Connector, QueryZvm, Allocate, FailConnector, RbUnreserve, Transaction

\* Every step is a step of FcpOwnership, or none.
LEMMA NextOwnership ==
  ASSUME Orderly, OInv, [Next]_vars
  PROVE  Ownership!Next \/ UNCHANGED Ownership!vars
  <1>1. CASE fcp' = fcp
    BY <1>1, NoChange
  <1>2. ASSUME NEW s \in Session, Step(s)
        PROVE  Ownership!Next \/ UNCHANGED Ownership!vars
    BY <1>2, RequestRespects, RespectsOwnership, ConnectorOwnership
  <1>3. ASSUME NEW s \in Session, Call(s) PROVE fcp' = fcp
    BY <1>3 DEF Call, ReuseFcps, BeginAllocate, BeginRelease, CallAttach, CallDetach, sdk
  <1>4. ASSUME NEW vm \in Vm, Guest(vm)
        PROVE  fcp' = fcp \/ fcp' = reset_fcps_of_assigner(fcp, vm)
    BY <1>4 DEF Guest, DeleteUserid, CreateUserid, ResetFcps, Transaction, sdk
  <1>5. ASSUME NEW vm \in Vm, fcp' = reset_fcps_of_assigner(fcp, vm)
        PROVE  Ownership!Next
    BY <1>5, ForgetStep DEF Ownership!Next
  <1>6. CASE Crash \/ UNCHANGED vars
    BY <1>1, <1>6 DEF Crash, vars, sdk
  <1> QED  BY <1>1, <1>2, <1>3, <1>4, <1>5, <1>6 DEF Next

(***************************************************************************)
(* The table, the locks and the order of the phases keep every device in   *)
(* one hand at a time: with the assigner of a reserved device as its owner *)
(* and its connections as its uses, every transaction of orderly clients,  *)
(* and every rollback, is a step that FcpOwnership allows.                 *)
(***************************************************************************)
THEOREM OwnershipRefined == Orderly => (Spec => ImplementsFcpOwnership)
  <1> SUFFICES ASSUME Orderly PROVE Spec => ImplementsFcpOwnership
    OBVIOUS
  <1>1. Init => Ownership!Init
    BY DEF Init, Ownership!Init, Owner, ConnectionsOf, NewRow
  <1>2. OInv /\ [Next]_vars => [Ownership!Next]_(Ownership!vars)
    BY NextOwnership
  <1>3. Spec => []OInv
    BY OrderlyInvariant
  <1> QED  BY <1>1, <1>2, <1>3, PTL DEF Spec, ImplementsFcpOwnership, Ownership!Spec

(***************************************************************************)
(* What z/VM and the guests have of the devices.  No guest loses a device  *)
(* that another volume of it needs; and a device that the table counts     *)
(* connections of is dedicated.                                            *)
(***************************************************************************)

-----------------------------------------------------------------------------
(* Devices go offline with their last volume *)

\* The device serves no volume any more, or only that of the request.
Last(s, f) ==
  /\ f \in ses[s].fcps
  /\ \/ fcp[f].connections = 0
     \/ fcp[f].connections = 1 /\ Counts(s, f)

\* Then every attached volume on it is being worked on.
LEMMA LastVolume ==
  ASSUME OInv, NEW s \in Session, ses[s].vol \in Volume, NEW f, Last(s, f),
         NEW v \in VolumesOn(f)
  PROVE  \E r \in Session : ses[r].vol = v
  <1> SUFFICES ASSUME \A r \in Session : ses[r].vol # v PROVE FALSE
    OBVIOUS
  <1>0. f \in Fcp /\ v \in Volume /\ volume[v].attached /\ f \in volume[v].fcps
    BY Request DEF Last, VolumesOn
  <1>1. fcp[f].connections > 0
    BY <1>0, AttachedIsConnected
  <1>2. fcp[f].connections = 1 /\ Counts(s, f)
    BY <1>1 DEF Last
  <1>3. v \in Users(f) /\ ses[s].vol \in Users(f) /\ ses[s].vol # v
    BY <1>0, <1>2, UsesOfRequest, SessionAssumption DEF Users, Uses, OInv
  <1>4. IsFiniteSet(Users(f)) /\ Cardinality(Users(f)) <= 1
    BY <1>0, <1>2 DEF OInv, CountOK
  <1> DEFINE others == Users(f) \ {ses[s].vol}
  <1>5. IsFiniteSet(others) /\ Cardinality(others) = Cardinality(Users(f)) - 1
    BY <1>3, <1>4, FS_RemoveElement
  <1>6. Cardinality(others) \in Nat /\ Cardinality(Users(f)) \in Nat
    BY <1>4, <1>5, FS_CardinalityType
  <1>7. Cardinality(others) = 0
    BY <1>4, <1>5, <1>6
  <1> QED  BY <1>3, <1>5, <1>7, FS_EmptySet

\* z/VM takes a device, and with it the guest loses it.
LEMMA OfflineByUndedicate ==
  ASSUME OInv, NEW s \in Session, NEW g \in Fcp, undedicate_device(g, VmOf[s]),
         NEW vm \in Vm, NEW f \in online[vm] \ online'[vm]
  PROVE  f = g
  BY LocalTypes DEF undedicate_device, OInv, IInv, TypeOK

\* A request takes devices offline that served its volume last.
LEMMA OfflineLast ==
  ASSUME OInv, NEW s \in Session, Step(s), NEW vm \in Vm,
         NEW f \in online[vm] \ online'[vm]
  PROVE  Last(s, f) /\ ses[s].vol \in Volume
  <1>0. /\ online \in [Vm -> SUBSET Fcp] /\ VmOf[s] \in Vm
        /\ online'[vm] # online[vm] /\ online' # online
    BY LocalTypes DEF OInv, IInv, TypeOK
  <1>1. ses[s].pc \in Attaching \cup Detaching => ses[s].vol \in Volume
    BY Request DEF WorkOK
  <1>2. ASSUME NEW fs, online' = [online EXCEPT ![VmOf[s]] = @ \cup fs]
        PROVE  FALSE
    BY <1>0, <1>2
  <1>3. ASSUME NEW fs, online' = [online EXCEPT ![VmOf[s]] = @ \ fs]
        PROVE  f \in fs
    BY <1>0, <1>3
  <1>4. CASE RbAddedDisks(s)
    <2>1. /\ ses[s].pc = "rb_added" /\ ses[s].todo = {}
          /\ f \in ses[s].fcps /\ Zero(s) = ses[s].fcps
      BY <1>0, <1>3, <1>4 DEF RbAddedDisks, SkipScript
    <2>2. fcp[f].connections = 0
      BY <2>1, Request DEF ReadOK, Zero
    <2> QED  BY <1>1, <2>1, <2>2 DEF Last, Attaching
  <1>5. CASE RbUndedicate(s)
    <2>0. ses[s].pc = "rb_undedicate" /\ ses[s].todo \subseteq Fcp
      BY <1>5, Request DEF RbUndedicate
    <2>1. PICK g \in ses[s].todo :
            undedicate_device(g, VmOf[s]) \/ UNCHANGED <<dedicated, online>>
      BY <1>5 DEF RbUndedicate
    <2>2. f \in ses[s].fcps /\ fcp[f].connections = 1
      BY <1>0, <2>0, <2>1, OfflineByUndedicate, Request DEF ReadOK
    <2> QED  BY <1>1, <2>0, <2>2 DEF Last, Counts, Attaching
  <1>6. CASE RemoveDisks(s) \/ FailRemoveDisks(s)
    <2>1. ses[s].pc = "remove_disks" /\ f \in ses[s].fcps /\ Zero(s) = ses[s].fcps
      BY <1>0, <1>3, <1>6 DEF RemoveDisks, FailRemoveDisks, SkipScript
    <2>2. fcp[f].connections = 0
      BY <2>1, Request DEF ReadOK, Zero
    <2> QED  BY <1>1, <2>1, <2>2 DEF Last, Detaching
  <1>7. CASE Undedicate(s) \/ FailUndedicate(s)
    <2>1. ses[s].pc = "undedicate" /\ f \in ses[s].todo
      BY <1>0, <1>7, OfflineByUndedicate, Request DEF Undedicate, FailUndedicate
    <2>2. f \in ses[s].fcps /\ fcp[f].connections = 0
      BY <2>1, Request DEF ReadOK, Zero
    <2> QED  BY <1>1, <2>1, <2>2 DEF Last, Detaching
  <1>8. CASE AddDisks(s) \/ FailAddDisks(s) \/ RbRemovedDisks(s)
    BY <1>0, <1>2, <1>8 DEF AddDisks, FailAddDisks, RbRemovedDisks, SkipScript
  <1>9. CASE \/ Connector(s) \/ Reserve(s) \/ Increase(s) \/ FailInDatabase(s)
             \/ Dedicate(s) \/ FailDedicate(s) \/ RbRead(s)
             \/ RbConnections(s) \/ RbAborts(s)
             \/ RbDecrease(s) \/ RbUsage(s) \/ RbUnreserve(s)
             \/ Decrease(s) \/ CheckUserid(s) \/ RbDedicate(s) \/ RbIncrease(s)
    <2>1. online' = online
      BY <1>9 DEF Connector, QueryZvm, Allocate, Release, FailConnector, Reserve,
                  Increase, FailInDatabase, Dedicate, FailDedicate, RbRead,
                  RbConnections, RbAborts, RbDecrease, RbUsage, RbUnreserve, Decrease, CheckUserid,
                  RbDedicate, RbIncrease, zvm
    <2> QED  BY <1>0, <2>1
  <1> QED  BY <1>4, <1>5, <1>6, <1>7, <1>8, <1>9 DEF Step, DoAttach, DoDetach

(***************************************************************************)
(* No request and no rollback of orderly clients takes a device offline in *)
(* a guest that has another volume on it: whether the connections are 0,   *)
(* or 1 in a rollback, is decided on what an earlier transaction read, and *)
(* is still so when the device goes.                                       *)
(***************************************************************************)
THEOREM OthersStayOnline == Orderly => (Spec => NeverPullsOthers)
  <1> DEFINE Keeps == \A vm \in Vm : exists'[vm] =>
                \A f \in online[vm] \ online'[vm] : \A v \in VolumesOn(f) :
                  volume[v].vm = vm => \E s \in Session : ses[s].vol = v
  <1> SUFFICES ASSUME Orderly PROVE Spec => NeverPullsOthers
    OBVIOUS
  <1>1. ASSUME OInv, [Next]_vars, NEW vm \in Vm, exists'[vm],
               NEW f \in online[vm] \ online'[vm], NEW v \in VolumesOn(f)
        PROVE  \E s \in Session : ses[s].vol = v
    <2>0. online \in [Vm -> SUBSET Fcp] /\ online' # online /\ exists \in [Vm -> BOOLEAN]
      BY <1>1 DEF OInv, IInv, TypeOK
    <2>1. ASSUME NEW s \in Session, Step(s)
          PROVE  \E r \in Session : ses[r].vol = v
      BY <1>1, <2>1, OfflineLast, LastVolume
    <2>2. ASSUME NEW s \in Session, Call(s) PROVE FALSE
      <3>1. online' = online
        BY <2>2 DEF Call, ReuseFcps, BeginAllocate, BeginRelease, CallAttach, CallDetach, zvm
      <3> QED  BY <2>0, <3>1
    <2>3. ASSUME NEW w \in Vm, Guest(w) PROVE FALSE
      BY <1>1, <2>0, <2>3 DEF Guest, DeleteUserid, ResetFcps, CreateUserid
    <2>4. CASE Crash \/ UNCHANGED vars
      BY <2>0, <2>4 DEF Crash, vars, zvm
    <2> QED  BY <1>1, <2>1, <2>2, <2>3, <2>4 DEF Next
  <1>2. OInv /\ [Next]_vars => [Keeps]_vars
    BY <1>1
  <1>3. Spec => []OInv
    BY OrderlyInvariant
  <1> QED  BY <1>2, <1>3, PTL DEF Spec, NeverPullsOthers

-----------------------------------------------------------------------------
(* Devices with connections are dedicated *)

(***************************************************************************)
(* Every request is rolled back when it fails, to the end: otherwise the   *)
(* table may count connections through a device that was not dedicated, or *)
(* was undedicated.                                                        *)
(***************************************************************************)
Tidy ==
  "no rollback" \notin Env /\ "rollback fails" \notin Env /\ "crash" \notin Env

\* The device may be connected and not dedicated: the request is about to
\* dedicate it for its first volume, or has given up and will not count it.
Awaits(s, f) ==
  /\ f \in ses[s].fcps /\ fcp[f].connections = 1
  /\ \/ ses[s].pc \in {"rb_conns", "rb_undedicate"}
     \/ ses[s].pc \in {"dedicate", "rb_decrease"} /\ f \in ses[s].todo

\* The devices of the request are in its guest: it boots from them, or has
\* not undedicated any, or has dedicated them all again.
Has(s, f) ==
  \/ ses[s].root /\ ses[s].pc \in {"reserve", "increase"}
  \/ ses[s].pc \in {"exist", "remove_disks", "rb_removed", "rb_increase"}
  \/ ses[s].pc = "rb_dedicate" /\ f \notin ses[s].todo

\* Guests are there while requests work on them.
GuestsOK ==
  /\ \A vm \in Vm : exists[vm] => ~deleting[vm]
  /\ \A v \in Volume : volume[v].attached /\ ~volume[v].root =>
       exists[volume[v].vm] \/ deleting[volume[v].vm]
  /\ \A s \in Session :
       /\ ses[s].pc \in Detaching => ses[s].root = volume[ses[s].vol].root
       /\ ses[s].pc \in Attaching \cup Detaching /\ ~ses[s].root => exists[VmOf[s]]
       /\ ses[s].root => ses[s].pc \in {"reserve", "increase", "rb_usage",
                                        "rb_unreserve", "decrease"}

\* What is connected is dedicated, unless its guest is being deleted.
SettledOK ==
  /\ \A f \in Fcp :
       /\ fcp[f].connections > 0 /\ ~deleting[fcp[f].assigner]
       /\ \A s \in Session : ~Awaits(s, f)
       => dedicated[f] = fcp[f].assigner
  /\ \A s \in Session : \A f \in ses[s].fcps :
       Has(s, f) => dedicated[f] = VmOf[s]

\* The inductive invariant, for tidy clients, next to OInv.
TInv == GuestsOK /\ SettledOK

\* The phases of requests for a volume that a guest boots from.
Booting == {"reserve", "increase", "rb_usage", "rb_unreserve", "decrease"}

\* Outside the loops, what is connected is dedicated.
LEMMA SettledBefore ==
  ASSUME Orderly, OInv, TInv, NEW s \in Session, ses[s].pc # "idle",
         NEW f \in ses[s].fcps, fcp[f].connections > 0, ~Awaits(s, f)
  PROVE  dedicated[f] = VmOf[s]
  <1>1. /\ Mine(f, VmOf[s]) /\ f \in Fcp /\ ~deleting[VmOf[s]]
    BY Request DEF WorkOK
  <1>2. ASSUME NEW r \in Session PROVE ~Awaits(r, f)
    BY <1>1, OneOwner, Request DEF Awaits
  <1> QED  BY <1>1, <1>2 DEF TInv, SettledOK, Mine

\* What a step of a session does to a device of another machine, or to one
\* that it does not work on, and to one of its own.
Leaves(s, f) ==
  /\ f \notin ses[s].fcps
  /\ dedicated'[f] = dedicated[f]
  /\ fcp'[f].connections = fcp[f].connections
  /\ fcp[f].connections > 0 => fcp'[f].assigner = fcp[f].assigner
Settles(s, f) ==
  /\ Mine(f, VmOf[s]) /\ fcp'[f].assigner = VmOf[s]
  /\ fcp'[f].connections > 0 /\ ~Awaits(s, f)' => dedicated'[f] = VmOf[s]

LEMMA SettledStep ==
  ASSUME Orderly, OInv, TInv, NEW s \in Session, Alone(s), deleting' = deleting,
         \A f \in Fcp : Leaves(s, f) \/ Settles(s, f),
         \A f \in ses'[s].fcps : Has(s, f)' => dedicated'[f] = VmOf[s]
  PROVE  SettledOK'
  <1>1. ASSUME NEW f \in Fcp, fcp'[f].connections > 0, ~deleting'[fcp'[f].assigner],
               \A r \in Session : ~Awaits(r, f)'
        PROVE  dedicated'[f] = fcp'[f].assigner
    <2>1. CASE Settles(s, f)
      BY <1>1, <2>1 DEF Settles
    <2>2. CASE Leaves(s, f)
      <3>1. ASSUME NEW r \in Session PROVE ~Awaits(r, f)
        <4>1. CASE r = s
          BY <2>2, <4>1 DEF Leaves, Awaits
        <4>2. CASE r # s
          BY <1>1, <2>2, <4>2 DEF Leaves, Awaits, Alone
        <4> QED  BY <4>1, <4>2
      <3> QED  BY <1>1, <2>2, <3>1 DEF Leaves, TInv, SettledOK
    <2> QED  BY <2>1, <2>2
  <1>2. ASSUME NEW r \in Session, NEW f \in ses'[r].fcps, Has(r, f)'
        PROVE  dedicated'[f] = VmOf[r]
    <2>1. CASE r = s
      BY <1>2, <2>1
    <2>2. CASE r # s
      <3>1. ses'[r] = ses[r] /\ f \in Fcp /\ Mine(f, VmOf[r])
        BY <1>2, <2>2, Request DEF Alone
      <3>2. Leaves(s, f)
        BY <2>2, <3>1, OneOwner DEF Settles
      <3>3. Has(r, f)
        BY <1>2, <3>1 DEF Has
      <3> QED  BY <3>1, <3>2, <3>3 DEF Leaves, TInv, SettledOK
    <2> QED  BY <2>1, <2>2
  <1> QED  BY <1>1, <1>2 DEF SettledOK

\* A step of attach or detach that leaves z/VM as the table says.
Tidily(s) ==
  /\ \A f \in Fcp \ ses[s].fcps : dedicated'[f] = dedicated[f]
  /\ \A f \in ses[s].fcps :
       /\ fcp'[f].connections > 0 /\ ~Awaits(s, f)' => dedicated'[f] = VmOf[s]
       /\ Has(s, f)' => dedicated'[f] = VmOf[s]
  /\ ses[s].root => ses'[s].pc \in Booting \cup {"idle"}
  /\ \A v \in Volume : \/ volume'[v] = volume[v]
                       \/ ~volume'[v].attached
                       \/ volume'[v].root = ses[s].root

LEMMA TidilyTInv ==
  ASSUME Orderly, OInv, TInv, NEW s \in Session, Respects(s), Tidily(s)
  PROVE  TInv'
  <1>0. Way(s) /\ TableStep(s) /\ UNCHANGED <<exists, deleting>> /\ Alone(s)
    BY DEF Respects, ZvmStep, Way, On, Ends
  <1>1. ASSUME NEW f \in Fcp PROVE Leaves(s, f) \/ Settles(s, f)
    <2>1. CASE f \in ses[s].fcps
      BY <1>0, <2>1, SameOwners DEF Tidily, Settles, Mine
    <2>2. CASE f \notin ses[s].fcps
      BY <1>0, <2>2, SameOwners DEF Tidily, Leaves
    <2> QED  BY <2>1, <2>2
  <1>2. \A f \in ses'[s].fcps : f \in ses[s].fcps
    BY <1>0 DEF Way, On, Ends
  <1>3. SettledOK'
    BY <1>0, <1>1, <1>2, SettledStep DEF Tidily
  <1>4. ses[s].pc \in Attaching \cup Detaching /\ (~ses[s].root => exists[VmOf[s]])
        /\ ses[s].vol \in Volume
    BY Request DEF Respects, TInv, GuestsOK, WorkOK
  <1>5. ASSUME NEW v \in Volume, volume'[v].attached, ~volume'[v].root
        PROVE  exists[volume'[v].vm] \/ deleting[volume'[v].vm]
    <2>1. CASE volume'[v] = volume[v]
      BY <1>5, <2>1 DEF TInv, GuestsOK
    <2>2. CASE volume'[v] # volume[v]
      BY <1>0, <1>4, <1>5, <2>2 DEF Tidily, Way
    <2> QED  BY <2>1, <2>2
  <1>6. ASSUME NEW r \in Session
        PROVE  /\ ses'[r].pc \in Detaching => ses'[r].root = volume'[ses'[r].vol].root
               /\ ses'[r].pc \in Attaching \cup Detaching /\ ~ses'[r].root => exists[VmOf[r]]
               /\ ses'[r].root => ses'[r].pc \in Booting
    <2>1. CASE r # s
      <3>1. ses'[r] = ses[r]
        BY <1>0, <2>1 DEF Alone
      <3>2. ses[r].pc \in Detaching => volume'[ses[r].vol] = volume[ses[r].vol]
        <4>1. ses[r].pc \in Detaching => ses[r].vol \in Volume /\ ses[r].vol # ses[s].vol
          BY <2>1, Request, SessionAssumption DEF WorkOK, OInv, Apart
        <4> QED  BY <1>0, <4>1 DEF Way
      <3> QED  BY <3>1, <3>2 DEF TInv, GuestsOK, Booting
    <2>2. CASE r = s
      <3>1. CASE Ends(s)
        BY <2>2, <3>1 DEF Ends, Attaching, Detaching
      <3>2. ASSUME NEW pc, NEW todo, On(s, pc, todo), volume' = volume,
                   \/ ses[s].pc \in Attaching /\ pc \in Attaching
                   \/ ses[s].pc \in Detaching /\ pc \in Detaching
            PROVE  /\ ses'[s].pc \in Detaching => ses'[s].root = volume'[ses'[s].vol].root
                   /\ ~ses'[s].root => exists[VmOf[s]]
                   /\ ses'[s].root => ses'[s].pc \in Booting
        <4>1. /\ ses'[s].pc = pc /\ ses'[s].root = ses[s].root /\ ses'[s].vol = ses[s].vol
              /\ pc # "idle" /\ (pc \in Detaching => ses[s].pc \in Detaching)
          BY <3>2 DEF On, Attaching, Detaching
        <4> QED  BY <1>4, <3>2, <4>1 DEF TInv, GuestsOK, Tidily
      <3> QED  BY <1>0, <2>2, <3>1, <3>2 DEF Way
    <2> QED  BY <2>1, <2>2
  <1>7. GuestsOK'
    BY <1>0, <1>5, <1>6 DEF GuestsOK, TInv, Booting
  <1> QED  BY <1>3, <1>7 DEF TInv

\* A step that changes neither connections nor dedications, after which the
\* request awaits what it awaited, and has no more than it had.
LEMMA QuietTidily ==
  ASSUME Orderly, OInv, TInv, NEW s \in Session,
         ses[s].pc \in Attaching \cup Detaching, dedicated' = dedicated,
         \A f \in Fcp : fcp'[f].connections = fcp[f].connections,
         \A f \in ses[s].fcps : /\ Awaits(s, f) => Awaits(s, f)'
                                /\ Has(s, f)' => Has(s, f),
         ses[s].root => ses'[s].pc \in Booting \cup {"idle"},
         \A v \in Volume : \/ volume'[v] = volume[v]
                           \/ ~volume'[v].attached
                           \/ volume'[v].root = ses[s].root
  PROVE  Tidily(s)
  <1>1. ses[s].pc # "idle" /\ ses[s].fcps \subseteq Fcp
    BY Request DEF Attaching, Detaching
  <1>2. ASSUME NEW f \in ses[s].fcps, fcp'[f].connections > 0, ~Awaits(s, f)'
        PROVE  dedicated'[f] = VmOf[s]
    BY <1>1, <1>2, SettledBefore
  <1>3. ASSUME NEW f \in ses[s].fcps, Has(s, f)' PROVE dedicated'[f] = VmOf[s]
    BY <1>3 DEF TInv, SettledOK
  <1> QED  BY <1>2, <1>3 DEF Tidily

\* A request for a volume that a guest boots from is in one of these phases.
LEMMA RootBoots ==
  ASSUME TInv, NEW s \in Session, ses[s].root
  PROVE  ses[s].pc \in Booting
  BY DEF TInv, GuestsOK, Booting

\* The volume of a request when it ends.
LEMMA RootOfVolume ==
  ASSUME OInv, NEW s \in Session, Attached(s) \/ Detached(s), NEW v \in Volume
  PROVE  \/ volume'[v] = volume[v]
         \/ ~volume'[v].attached
         \/ volume'[v].root = ses[s].root
  BY DEF Attached, Detached, OInv, IInv, TypeOK

\* A request that has ended awaits nothing.
LEMMA EndsIdle ==
  ASSUME NEW s \in Session, Ends(s), NEW f
  PROVE  ~Awaits(s, f)' /\ ~Has(s, f)'
  BY DEF Ends, Awaits, Has

LEMMA ReserveTidily ==
  ASSUME Orderly, OInv, TInv, NEW s \in Session, Reserve(s)
  PROVE  Tidily(s)
  <1>1. On(s, "increase", ses[s].todo)
    BY Request, GotoOn DEF Reserve
  <1>2. /\ ses[s].pc = "reserve" /\ dedicated' = dedicated /\ volume' = volume
        /\ fcp' = reserve_fcps(fcp, ses[s].fcps, VmOf[s], ses[s].tmpl)
    BY DEF Reserve, Transaction, zvm, client
  <1>3. ASSUME NEW f \in Fcp PROVE fcp'[f].connections = fcp[f].connections
    <2>1. fcp[f] \in Row
      BY DEF OInv, IInv, TypeOK
    <2> QED  BY <1>2, <2>1 DEF reserve_fcps, Row
  <1>4. \A f \in ses[s].fcps : ~Awaits(s, f) /\ (Has(s, f)' => Has(s, f))
    BY <1>1, <1>2 DEF On, Awaits, Has
  <1>5. ses'[s].pc \in Booting
    BY <1>1 DEF On, Booting
  <1> QED  BY <1>2, <1>3, <1>4, <1>5, QuietTidily DEF Attaching

LEMMA FailInDatabaseTidily ==
  ASSUME Orderly, OInv, TInv, NEW s \in Session, FailInDatabase(s)
  PROVE  Tidily(s)
  <1>1. /\ ses[s].pc \in {"reserve", "increase"}
        /\ UNCHANGED <<dedicated, fcp>>
    BY DEF FailInDatabase, zvm
  <1>2. CanIncrease(fcp, ses[s].fcps, VmOf[s])
    BY Request DEF CanIncrease, Mine
  <1>3. "database error" \in Env
    BY <1>2 DEF FailInDatabase
  <1>4. ses[s].rb
    BY <1>3, Request DEF Orderly, SomeKeep, WorkOK
  <1>5. On(s, "rb_usage", ses[s].fcps) /\ volume' = volume
    BY <1>4, SetTodoOn, Request DEF FailInDatabase
  <1>6. \A f \in ses[s].fcps : ~Awaits(s, f) /\ ~Has(s, f)'
    BY <1>1, <1>5 DEF On, Awaits, Has
  <1>7. ses'[s].pc \in Booting
    BY <1>5 DEF On, Booting
  <1> QED  BY <1>1, <1>5, <1>6, <1>7, QuietTidily DEF Attaching

\* The devices that had connections are dedicated; the others are dedicated
\* for booting, or are going to be.
LEMMA IncreaseTidily ==
  ASSUME Orderly, OInv, TInv, NEW s \in Session, Increase(s)
  PROVE  Tidily(s)
  <1> DEFINE first == {f \in ses[s].fcps :
        increase_connections(fcp, ses[s].fcps)[f].connections = 1}
  <1>1. /\ ses[s].pc = "increase" /\ dedicated' = dedicated
        /\ fcp' = increase_connections(fcp, ses[s].fcps)
        /\ \/ ses[s].root /\ Attached(s)
           \/ /\ ~ses[s].root /\ volume' = volume
              /\ Loop(s, "dedicate", first, "add_disks", {})
    BY DEF Increase, Transaction, zvm
  <1>2. first \subseteq ses[s].fcps /\ \A f \in ses[s].fcps : f \in first <=> fcp'[f].connections = 1
    BY <1>1
  <1> HIDE DEF first
  <1>3. ses[s].fcps \subseteq Fcp /\ \A f \in ses[s].fcps : ~Awaits(s, f)
    BY <1>1, Request DEF Awaits
  <1>4. ASSUME NEW f \in ses[s].fcps, fcp'[f].connections # 1
        PROVE  dedicated[f] = VmOf[s]
    <2>1. fcp[f].connections \in Nat /\ fcp'[f].connections = fcp[f].connections + 1
      BY <1>1, <1>3, Request, Connections, RowTypes
    <2>2. fcp[f].connections > 0
      BY <1>4, <2>1
    <2> QED  BY <1>1, <1>3, <2>2, SettledBefore
  <1>5. CASE ses[s].root /\ Attached(s)
    <2>1. Ends(s)
      BY <1>5, LeaveEnds, Request DEF Attached
    <2>2. \A f \in ses[s].fcps : dedicated[f] = VmOf[s]
      BY <1>1, <1>5 DEF TInv, SettledOK, Has
    <2>3. ses'[s].pc = "idle"
      BY <2>1 DEF Ends
    <2> QED  BY <1>1, <1>5, <2>2, <2>3, RootOfVolume DEF Tidily
  <1>6. CASE ~ses[s].root /\ volume' = volume /\ Loop(s, "dedicate", first, "add_disks", {})
    <2>1. \/ On(s, "dedicate", first)
          \/ first = {} /\ On(s, "add_disks", {})
      BY <1>6, LoopOn, Request
    <2>2. ASSUME NEW f \in ses[s].fcps
          PROVE  /\ ~Awaits(s, f)' => fcp'[f].connections # 1
                 /\ ~Has(s, f)'
      BY <1>2, <1>6, <2>1 DEF On, Awaits, Has
    <2> QED  BY <1>1, <1>4, <1>6, <2>2 DEF Tidily
  <1> QED  BY <1>1, <1>5, <1>6

\* A device is given to the guest of the request, and others are not touched.
LEMMA DedicateOne ==
  ASSUME OInv, NEW s \in Session, NEW f \in ses[s].todo,
         dedicated' = [dedicated EXCEPT ![f] = VmOf[s]]
  PROVE  /\ f \in ses[s].fcps /\ f \in Fcp /\ dedicated'[f] = VmOf[s]
         /\ \A g \in Fcp : g # f => dedicated'[g] = dedicated[g]
  BY Request DEF OInv, IInv, TypeOK

LEMMA DedicateTidily ==
  ASSUME Orderly, OInv, TInv, NEW s \in Session, Dedicate(s)
  PROVE  Tidily(s)
  <1>1. ses[s].pc = "dedicate" /\ UNCHANGED <<fcp, volume>> /\ ses[s].fcps \subseteq Fcp
    BY Request DEF Dedicate, client
  <1>2. PICK f \in ses[s].todo :
          /\ dedicated' = [dedicated EXCEPT ![f] = VmOf[s]]
          /\ Loop(s, "dedicate", ses[s].todo \ {f}, "add_disks", {})
    BY DEF Dedicate
  <1>3. \/ On(s, "dedicate", ses[s].todo \ {f})
        \/ On(s, "add_disks", {}) /\ ses[s].todo \ {f} = {}
    BY <1>2, LoopOn, Request
  <1>4. ~ses[s].root
    BY <1>1, RootBoots DEF Booting
  <1>5. ASSUME NEW g \in ses[s].fcps
        PROVE  /\ ~Has(s, g)'
               /\ fcp'[g].connections > 0 /\ ~Awaits(s, g)' => dedicated'[g] = VmOf[s]
    <2>1. ~Has(s, g)' /\ (g # f /\ Awaits(s, g) => Awaits(s, g)')
      BY <1>1, <1>3, <1>4 DEF On, Awaits, Has
    <2>2. CASE g = f
      BY <1>2, <2>1, <2>2, DedicateOne
    <2>3. CASE g # f
      BY <1>1, <1>2, <2>1, <2>3, DedicateOne, SettledBefore
    <2> QED  BY <2>1, <2>2, <2>3
  <1> QED  BY <1>1, <1>2, <1>4, <1>5, DedicateOne DEF Tidily

LEMMA FailDedicateTidily ==
  ASSUME Orderly, Tidy, OInv, TInv, NEW s \in Session, FailDedicate(s)
  PROVE  Tidily(s)
  <1>1. /\ ses[s].pc = "dedicate" /\ UNCHANGED <<fcp, volume>> /\ ses[s].fcps \subseteq Fcp
        /\ ses[s].rb
    BY Request DEF FailDedicate, client, Tidy, WorkOK, SomeKeep
  <1>2. PICK f \in ses[s].todo :
          dedicated' = dedicated \/ dedicated' = [dedicated EXCEPT ![f] = VmOf[s]]
    BY DEF FailDedicate
  <1>3. On(s, "rb_conns", ses[s].fcps)
    BY <1>1, SetTodoOn, Request DEF FailDedicate
  <1>4. ~ses[s].root
    BY <1>1, RootBoots DEF Booting
  <1>5. ASSUME NEW g \in ses[s].fcps
        PROVE  /\ ~Has(s, g)'
               /\ fcp'[g].connections > 0 /\ ~Awaits(s, g)' => dedicated'[g] = VmOf[s]
    <2>1. ~Has(s, g)' /\ (Awaits(s, g) => Awaits(s, g)')
      BY <1>1, <1>3, <1>4 DEF On, Awaits, Has
    <2>2. dedicated'[g] \in {dedicated[g], VmOf[s]}
      BY <1>1, <1>2, DedicateOne
    <2> QED  BY <1>1, <2>1, <2>2, SettledBefore
  <1>6. \A g \in Fcp \ ses[s].fcps : dedicated'[g] = dedicated[g]
    BY <1>2, DedicateOne
  <1> QED  BY <1>1, <1>4, <1>5, <1>6 DEF Tidily

LEMMA AddDisksTidily ==
  ASSUME Orderly, OInv, TInv, NEW s \in Session, AddDisks(s) \/ FailAddDisks(s)
  PROVE  Tidily(s)
  <1>1. /\ ses[s].pc = "add_disks" /\ UNCHANGED <<fcp, dedicated>>
        /\ \/ Attached(s)
           \/ /\ ses' = [ses EXCEPT ![s].pc = "rb_added", ![s].todo = ses[s].fcps]
              /\ volume' = volume
    BY DEF AddDisks, FailAddDisks
  <1>2. \A f \in ses[s].fcps : ~Awaits(s, f)
    BY <1>1 DEF Awaits
  <1>3. ~ses[s].root
    BY <1>1, RootBoots DEF Booting
  <1>4. \A f \in ses[s].fcps : ~Has(s, f)'
    <2>1. CASE Attached(s)
      BY <2>1, LeaveEnds, EndsIdle, Request DEF Attached
    <2>2. CASE ses' = [ses EXCEPT ![s].pc = "rb_added", ![s].todo = ses[s].fcps]
      <3>1. On(s, "rb_added", ses[s].fcps)
        BY <2>2, SetTodoOn, Request
      <3> QED  BY <3>1 DEF On, Has
    <2> QED  BY <1>1, <2>1, <2>2
  <1>5. \A v \in Volume : \/ volume'[v] = volume[v]
                          \/ ~volume'[v].attached
                          \/ volume'[v].root = ses[s].root
    BY <1>1, RootOfVolume
  <1> QED  BY <1>1, <1>2, <1>3, <1>4, <1>5, QuietTidily DEF Attaching

LEMMA RbReadTidily ==
  ASSUME Orderly, OInv, TInv, NEW s \in Session, RbRead(s)
  PROVE  Tidily(s)
  <1>1. /\ ses[s].pc \in {"rb_added", "rb_conns", "rb_usage"}
        /\ UNCHANGED <<fcp, dedicated, volume>>
    BY DEF RbRead, client, zvm
  <1>2. /\ ses'[s].pc = ses[s].pc /\ ses'[s].fcps = ses[s].fcps
        /\ ses'[s].root = ses[s].root
    BY DEF RbRead, OInv, IInv, TypeOK, Locals
  <1>3. ses[s].root => ses'[s].pc \in Booting
    BY <1>2, RootBoots
  <1>4. \A f \in ses[s].fcps : (Awaits(s, f) => Awaits(s, f)') /\ ~Has(s, f)'
    BY <1>1, <1>2 DEF Awaits, Has
  <1> QED  BY <1>1, <1>3, <1>4, QuietTidily DEF Attaching

LEMMA RbAddedDisksTidily ==
  ASSUME Orderly, OInv, TInv, NEW s \in Session, RbAddedDisks(s)
  PROVE  Tidily(s)
  <1>1. ses[s].pc = "rb_added" /\ UNCHANGED <<fcp, dedicated, volume>>
    BY DEF RbAddedDisks, client
  <1>2. On(s, "rb_conns", ses[s].fcps)
    BY NextFunctionOn, Request DEF RbAddedDisks
  <1>3. ~ses[s].root
    BY <1>1, RootBoots DEF Booting
  <1>4. \A f \in ses[s].fcps : ~Awaits(s, f) /\ ~Has(s, f)'
    BY <1>1, <1>2 DEF On, Awaits, Has
  <1> QED  BY <1>1, <1>3, <1>4, QuietTidily DEF Attaching

LEMMA RbConnectionsTidily ==
  ASSUME Orderly, OInv, TInv, NEW s \in Session, RbConnections(s)
  PROVE  Tidily(s)
  <1> DEFINE one == {f \in ses[s].fcps : ses[s].conns[f] = 1}
  <1>1. /\ ses[s].pc = "rb_conns" /\ UNCHANGED <<fcp, dedicated, volume>>
        /\ \/ NextFunction(s, "rb_undedicate", one)
           \/ NextFunction(s, "rb_decrease", ses[s].fcps)
    BY DEF RbConnections, client, zvm
  <1> HIDE DEF one
  <1>2. On(s, "rb_undedicate", one) \/ On(s, "rb_decrease", ses[s].fcps)
    BY <1>1, NextFunctionOn, Request
  <1>3. ~ses[s].root
    BY <1>1, RootBoots DEF Booting
  <1>4. \A f \in ses[s].fcps : (Awaits(s, f) => Awaits(s, f)') /\ ~Has(s, f)'
    BY <1>1, <1>2 DEF On, Awaits, Has
  <1> QED  BY <1>1, <1>3, <1>4, QuietTidily DEF Attaching

\* z/VM takes a device from the guest of the request, or it does not.
LEMMA UndedicateOne ==
  ASSUME OInv, NEW s \in Session, NEW f \in ses[s].todo,
         undedicate_device(f, VmOf[s]) \/ UNCHANGED <<dedicated, online>>
  PROVE  /\ f \in ses[s].fcps /\ f \in Fcp
         /\ \A g \in Fcp : g # f => dedicated'[g] = dedicated[g]
  BY Request DEF OInv, IInv, TypeOK, undedicate_device

\* Only devices that will not be connected are undedicated.
LEMMA RbUndedicateTidily ==
  ASSUME Orderly, OInv, TInv, NEW s \in Session, RbUndedicate(s)
  PROVE  Tidily(s)
  <1>1. /\ ses[s].pc = "rb_undedicate" /\ UNCHANGED <<fcp, volume>>
        /\ ses[s].fcps \subseteq Fcp
    BY Request DEF RbUndedicate, client
  <1>2. PICK f \in ses[s].todo :
          /\ undedicate_device(f, VmOf[s]) \/ UNCHANGED <<dedicated, online>>
          /\ Loop(s, "rb_undedicate", ses[s].todo \ {f}, "rb_decrease", ses[s].fcps)
    BY DEF RbUndedicate
  <1>3. \/ On(s, "rb_undedicate", ses[s].todo \ {f})
        \/ On(s, "rb_decrease", ses[s].fcps)
    BY <1>2, LoopOn, Request
  <1>4. ~ses[s].root
    BY <1>1, RootBoots DEF Booting
  <1>5. ASSUME NEW g \in ses[s].fcps
        PROVE  /\ ~Has(s, g)'
               /\ fcp'[g].connections > 0 /\ ~Awaits(s, g)' => dedicated'[g] = VmOf[s]
    <2>1. ~Has(s, g)' /\ (Awaits(s, g) => Awaits(s, g)')
      BY <1>1, <1>3, <1>4 DEF On, Awaits, Has
    <2>2. CASE g = f
      <3>1. fcp[f].connections = 1
        BY <1>1, Request DEF ReadOK
      <3>2. Awaits(s, g)
        BY <1>1, <2>2, <3>1 DEF Awaits
      <3> QED  BY <2>1, <3>2
    <2>3. CASE g # f
      BY <1>1, <1>2, <2>1, <2>3, UndedicateOne, SettledBefore
    <2> QED  BY <2>1, <2>2, <2>3
  <1>6. \A g \in Fcp \ ses[s].fcps : dedicated'[g] = dedicated[g]
    BY <1>2, UndedicateOne
  <1> QED  BY <1>1, <1>4, <1>5, <1>6 DEF Tidily

\* A device that keeps connections after the decrease had more than one.
LEMMA RbDecreaseTidily ==
  ASSUME Orderly, OInv, TInv, NEW s \in Session, RbDecrease(s)
  PROVE  Tidily(s)
  <1>1. /\ ses[s].pc = "rb_decrease" /\ UNCHANGED <<dedicated, volume>>
        /\ ses[s].fcps \subseteq Fcp
    BY Request DEF RbDecrease, client, zvm
  <1>2. PICK f \in ses[s].todo :
          /\ fcp' = decrease_connections(fcp, {f})
          /\ Loop(s, "rb_decrease", ses[s].todo \ {f}, "rb_usage", ses[s].fcps)
    BY DEF RbDecrease, Transaction, Orderly
  <1>3. \/ On(s, "rb_decrease", ses[s].todo \ {f})
        \/ On(s, "rb_usage", ses[s].fcps) /\ ses[s].todo \ {f} = {}
    BY <1>2, LoopOn, Request
  <1>4. ~ses[s].root
    BY <1>1, RootBoots DEF Booting
  <1>5. ASSUME NEW g \in ses[s].fcps
        PROVE  /\ ~Has(s, g)'
               /\ fcp'[g].connections > 0 /\ ~Awaits(s, g)' => dedicated'[g] = VmOf[s]
    <2>0. /\ fcp[g].connections \in Nat
          /\ fcp'[g].connections = IF g = f /\ fcp[g].connections > 0
                                   THEN fcp[g].connections - 1 ELSE fcp[g].connections
      BY <1>1, <1>2, Connections, RowTypes DEF OInv
    <2>1. ~Has(s, g)'
      BY <1>3, <1>4 DEF On, Has
    <2>2. CASE g = f
      <3>1. fcp'[g].connections > 0 => fcp[g].connections > 0 /\ fcp[g].connections # 1
        BY <2>0, <2>2
      <3>2. fcp'[g].connections > 0 => ~Awaits(s, g)
        BY <3>1 DEF Awaits
      <3> QED  BY <1>1, <2>1, <3>1, <3>2, SettledBefore
    <2>3. CASE g # f
      <3>1. fcp'[g].connections = fcp[g].connections
        BY <2>0, <2>3
      <3>2. Awaits(s, g) => Awaits(s, g)'
        BY <1>1, <1>3, <2>3, <3>1 DEF On, Awaits
      <3> QED  BY <1>1, <2>1, <3>1, <3>2, SettledBefore
    <2> QED  BY <2>2, <2>3
  <1> QED  BY <1>1, <1>4, <1>5 DEF Tidily

LEMMA RbUsageTidily ==
  ASSUME Orderly, OInv, TInv, NEW s \in Session, RbUsage(s)
  PROVE  Tidily(s)
  <1>1. /\ ses[s].pc = "rb_usage" /\ UNCHANGED <<fcp, dedicated, volume>>
        /\ NextFunction(s, "rb_unreserve", Zero(s)) \/ Leave(s)
    BY DEF RbUsage, client, zvm
  <1>2. On(s, "rb_unreserve", Zero(s)) \/ Ends(s)
    BY <1>1, NextFunctionOn, LeaveEnds, Request
  <1>3. \A f \in ses[s].fcps : ~Awaits(s, f) /\ ~Has(s, f)'
    BY <1>1, <1>2 DEF On, Ends, Awaits, Has
  <1>4. ses'[s].pc \in Booting \cup {"idle"}
    BY <1>2 DEF On, Ends, Booting
  <1> QED  BY <1>1, <1>3, <1>4, QuietTidily DEF Attaching

\* The devices of a volume that is detached were dedicated.
LEMMA DecreaseTidily ==
  ASSUME Orderly, OInv, TInv, NEW s \in Session, Decrease(s)
  PROVE  Tidily(s)
  <1> DEFINE conns == [f \in Fcp |-> IF f \in ses[s].fcps
                        THEN decrease_connections(fcp, ses[s].fcps)[f].connections ELSE 0]
  <1>1. /\ ses[s].pc = "decrease" /\ dedicated' = dedicated
        /\ \/ Detached(s)
           \/ /\ ~ses[s].root /\ volume' = volume
              /\ ses' = [ses EXCEPT ![s].pc = "exist", ![s].conns = conns]
    BY DEF Decrease, zvm
  <1> HIDE DEF conns
  <1>2. ses[s].vol \in Volume /\ ses[s].fcps \subseteq Fcp
    BY <1>1, Request DEF WorkOK, Detaching
  <1>3. ASSUME NEW f \in ses[s].fcps PROVE dedicated[f] = VmOf[s]
    <2>1. fcp[f].connections > 0
      BY <1>1, <1>2, CountedIsConnected DEF Counts
    <2>2. ~Awaits(s, f)
      BY <1>1 DEF Awaits
    <2> QED  BY <1>1, <2>1, <2>2, SettledBefore
  <1>4. ses[s].root => ses'[s].pc = "idle"
    BY <1>1, LeaveEnds, Request DEF Detached, Ends
  <1>5. \A v \in Volume : \/ volume'[v] = volume[v]
                          \/ ~volume'[v].attached
                          \/ volume'[v].root = ses[s].root
    BY <1>1, RootOfVolume
  <1> QED  BY <1>1, <1>3, <1>4, <1>5 DEF Tidily

\* detach goes on, or ends, without touching z/VM.
LEMMA CheckUseridTidily ==
  ASSUME Orderly, OInv, TInv, NEW s \in Session, CheckUserid(s)
  PROVE  Tidily(s)
  <1>1. /\ ses[s].pc = "exist" /\ UNCHANGED <<fcp, dedicated>>
        /\ Detached(s) \/ (Goto(s, "remove_disks") /\ volume' = volume)
    BY DEF CheckUserid, zvm
  <1>2. ~ses[s].root
    BY <1>1, RootBoots DEF Booting
  <1>3. \A f \in ses[s].fcps : ~Awaits(s, f) /\ Has(s, f)
    BY <1>1 DEF Awaits, Has
  <1>4. \A v \in Volume : \/ volume'[v] = volume[v]
                          \/ ~volume'[v].attached
                          \/ volume'[v].root = ses[s].root
    BY <1>1, RootOfVolume
  <1> QED  BY <1>1, <1>2, <1>3, <1>4, QuietTidily DEF Detaching

LEMMA RemoveDisksTidily ==
  ASSUME Orderly, OInv, TInv, NEW s \in Session, RemoveDisks(s) \/ FailRemoveDisks(s)
  PROVE  Tidily(s)
  <1>1. /\ ses[s].pc = "remove_disks" /\ UNCHANGED <<fcp, dedicated>>
        /\ Detached(s) \/ volume' = volume
    BY DEF RemoveDisks, FailRemoveDisks, ToUndedicate
  <1>2. ~ses[s].root
    BY <1>1, RootBoots DEF Booting
  <1>3. \A f \in ses[s].fcps : ~Awaits(s, f) /\ Has(s, f)
    BY <1>1 DEF Awaits, Has
  <1>4. \A v \in Volume : \/ volume'[v] = volume[v]
                          \/ ~volume'[v].attached
                          \/ volume'[v].root = ses[s].root
    BY <1>1, RootOfVolume
  <1> QED  BY <1>1, <1>2, <1>3, <1>4, QuietTidily DEF Detaching

\* Only devices without connections are undedicated.
LEMMA UndedicateTidily ==
  ASSUME Orderly, OInv, TInv, NEW s \in Session, Undedicate(s) \/ FailUndedicate(s)
  PROVE  Tidily(s)
  <1>1. /\ ses[s].pc = "undedicate" /\ fcp' = fcp /\ ses[s].fcps \subseteq Fcp
        /\ \/ Detached(s)
           \/ volume' = volume /\ ses' = [ses EXCEPT ![s].pc = "rb_dedicate", ![s].todo = Zero(s)]
           \/ volume' = volume /\ \E f : ses' = [ses EXCEPT ![s].todo = @ \ {f}]
    BY Request DEF Undedicate, FailUndedicate
  <1>2. PICK f \in ses[s].todo :
          undedicate_device(f, VmOf[s]) \/ UNCHANGED <<dedicated, online>>
    BY DEF Undedicate, FailUndedicate
  <1>3. ~ses[s].root
    BY <1>1, RootBoots DEF Booting
  <1>4. /\ ses[s].todo \subseteq Zero(s)
        /\ \A g \in ses[s].fcps : g \in Zero(s) <=> fcp[g].connections = 0
    BY <1>1, Request DEF ReadOK, Zero
  <1>5. ASSUME NEW g \in ses[s].fcps, fcp[g].connections > 0
        PROVE  dedicated'[g] = VmOf[s]
    <2>1. g # f
      BY <1>4, <1>5
    <2>2. ~Awaits(s, g)
      BY <1>1 DEF Awaits
    <2>3. dedicated[g] = VmOf[s]
      BY <1>1, <1>5, <2>2, SettledBefore
    <2> QED  BY <1>1, <1>2, <2>1, <2>3, UndedicateOne
  <1>6. ASSUME NEW g \in ses[s].fcps, Has(s, g)' PROVE dedicated'[g] = VmOf[s]
    <2>1. CASE Detached(s)
      BY <1>6, <2>1, LeaveEnds, EndsIdle, Request DEF Detached
    <2>2. CASE ses' = [ses EXCEPT ![s].pc = "rb_dedicate", ![s].todo = Zero(s)]
      <3>1. On(s, "rb_dedicate", Zero(s))
        BY <2>2, SetTodoOn, Request
      <3>2. fcp[g].connections # 0
        BY <1>3, <1>4, <1>6, <3>1 DEF On, Has
      <3>3. fcp[g].connections > 0
        BY <1>1, <3>2, RowTypes DEF OInv
      <3> QED  BY <1>5, <3>3
    <2>3. ASSUME NEW h, ses' = [ses EXCEPT ![s].todo = @ \ {h}] PROVE FALSE
      <3>0. IInv /\ ses[s].pc = "undedicate"
        BY <1>1 DEF OInv
      <3>1. On(s, "undedicate", ses[s].todo \ {h})
        BY <2>3, <3>0, RoundOn
      <3> QED  BY <1>3, <1>6, <3>1 DEF On, Has
    <2> QED  BY <1>1, <2>1, <2>2, <2>3
  <1>7. \A g \in Fcp \ ses[s].fcps : dedicated'[g] = dedicated[g]
    BY <1>2, UndedicateOne
  <1>8. \A v \in Volume : \/ volume'[v] = volume[v]
                          \/ ~volume'[v].attached
                          \/ volume'[v].root = ses[s].root
    BY <1>1, RootOfVolume
  <1> QED  BY <1>1, <1>3, <1>5, <1>6, <1>7, <1>8 DEF Tidily

\* A device that cannot be dedicated again has not been undedicated.
LEMMA RbDedicateTidily ==
  ASSUME Orderly, Tidy, OInv, TInv, NEW s \in Session, RbDedicate(s)
  PROVE  Tidily(s)
  <1>1. /\ ses[s].pc = "rb_dedicate" /\ UNCHANGED <<fcp, volume>> /\ ses[s].fcps \subseteq Fcp
    BY Request DEF RbDedicate, client
  <1>2. ~ses[s].root
    BY <1>1, RootBoots DEF Booting
  <1>3. PICK f \in ses[s].todo :
          /\ \/ dedicated' = [dedicated EXCEPT ![f] = VmOf[s]]
             \/ ~Dedicable(f, VmOf[s]) /\ dedicated' = dedicated
          /\ Loop(s, "rb_dedicate", ses[s].todo \ {f}, "rb_removed", {})
    BY DEF RbDedicate, Tidy
  <1>4. f \in ses[s].fcps /\ dedicated'[f] = VmOf[s]
    <2>1. CASE dedicated' = [dedicated EXCEPT ![f] = VmOf[s]]
      BY <2>1, DedicateOne
    <2>2. CASE ~Dedicable(f, VmOf[s]) /\ dedicated' = dedicated
      <3>1. exists[VmOf[s]]
        BY <1>1, <1>2 DEF TInv, GuestsOK, Detaching
      <3>2. f \in ses[s].fcps /\ f \in Fcp /\ Mine(f, VmOf[s])
        BY <1>1, Request
      <3>3. dedicated[f] \in {NoVm, VmOf[s]}
        BY <3>2 DEF OInv, DedicatedToAssigner, Mine
      <3> QED  BY <2>2, <3>1, <3>2, <3>3 DEF Dedicable
    <2> QED  BY <1>3, <2>1, <2>2
  <1>5. \A g \in Fcp : g # f => dedicated'[g] = dedicated[g]
    BY <1>3, DedicateOne
  <1>6. \/ On(s, "rb_dedicate", ses[s].todo \ {f})
        \/ On(s, "rb_removed", {}) /\ ses[s].todo \ {f} = {}
    BY <1>3, LoopOn, Request
  <1>7. ASSUME NEW g \in ses[s].fcps
        PROVE  /\ Has(s, g)' => dedicated'[g] = VmOf[s]
               /\ fcp'[g].connections > 0 => dedicated'[g] = VmOf[s]
    <2>1. CASE g = f
      BY <1>4, <2>1
    <2>2. CASE g # f
      <3>1. ~Awaits(s, g) /\ (Has(s, g)' => Has(s, g))
        BY <1>1, <1>2, <1>6, <2>2 DEF On, Awaits, Has
      <3>2. Has(s, g) => dedicated[g] = VmOf[s]
        BY DEF TInv, SettledOK
      <3>3. fcp[g].connections > 0 => dedicated[g] = VmOf[s]
        BY <1>1, <3>1, SettledBefore
      <3> QED  BY <1>1, <1>5, <2>2, <3>1, <3>2, <3>3
    <2> QED  BY <2>1, <2>2
  <1> QED  BY <1>1, <1>2, <1>4, <1>5, <1>7 DEF Tidily

LEMMA RbRemovedDisksTidily ==
  ASSUME Orderly, OInv, TInv, NEW s \in Session, RbRemovedDisks(s)
  PROVE  Tidily(s)
  <1>1. /\ ses[s].pc = "rb_removed" /\ UNCHANGED <<fcp, dedicated, volume>>
    BY DEF RbRemovedDisks, client
  <1>2. ~ses[s].root
    BY <1>1, RootBoots DEF Booting
  <1>3. \A f \in ses[s].fcps : ~Awaits(s, f) /\ Has(s, f)
    BY <1>1 DEF Awaits, Has
  <1> QED  BY <1>1, <1>2, <1>3, QuietTidily DEF Detaching

LEMMA RbIncreaseTidily ==
  ASSUME Orderly, OInv, TInv, NEW s \in Session, RbIncrease(s)
  PROVE  Tidily(s)
  <1>1. ses[s].pc = "rb_increase" /\ UNCHANGED <<dedicated, volume>>
    BY DEF RbIncrease, client, zvm
  <1>2. ~ses[s].root
    BY <1>1, RootBoots DEF Booting
  <1>3. \A f \in ses[s].fcps : dedicated[f] = VmOf[s]
    BY <1>1 DEF TInv, SettledOK, Has
  <1> QED  BY <1>1, <1>2, <1>3 DEF Tidily

-----------------------------------------------------------------------------
(* Connectors, requests and guests *)

\* A step of a session that has no volume afterwards.
LEMMA ConnectsTInv ==
  ASSUME Orderly, OInv, TInv, NEW s \in Session, Connects(s)
  PROVE  TInv'
  <1>0. /\ Alone(s) /\ UNCHANGED <<volume, dedicated, exists, deleting>>
        /\ ses'[s].fcps = {} /\ ses'[s].pc \notin Attaching \cup Detaching
        /\ \A f \in Fcp : RowStep(s, f)
    BY DEF Connects
  <1>1. /\ ses[s].pc \in Attaching \cup Detaching => ses[s].pc = "rb_unreserve"
        /\ ~ses'[s].root
    <2>1. ses[s].root => ses[s].pc \in Attaching \cup Detaching
      BY RootBoots DEF Booting, Attaching, Detaching
    <2>2. ses[s].pc = "rb_unreserve" => ses[s].pc \in Attaching
      BY DEF Attaching
    <2> QED  BY <2>1, <2>2 DEF Connects
  <1>2. ASSUME NEW f \in Fcp PROVE Leaves(s, f) \/ Settles(s, f)
    <2>1. /\ fcp'[f].connections = fcp[f].connections /\ fcp[f].connections \in Nat
          /\ fcp[f].connections > 0 => fcp[f].reserved /\ fcp'[f].assigner = fcp[f].assigner
      BY <1>0, RowTypes DEF RowStep, OInv, ReservedWhileConnected
    <2>2. CASE f \notin ses[s].fcps
      BY <1>0, <2>1, <2>2 DEF Leaves
    <2>3. CASE f \in ses[s].fcps
      <3>1. ses[s].pc = "rb_unreserve" /\ Mine(f, VmOf[s])
        BY <1>1, <2>3, Request DEF WorkOK
      <3>2. ~Awaits(s, f)
        BY <3>1 DEF Awaits
      <3>3. fcp'[f].connections > 0 => dedicated'[f] = VmOf[s]
        BY <1>0, <2>1, <2>3, <3>1, <3>2, SettledBefore
      <3>4. fcp'[f].assigner = VmOf[s]
        BY <1>0, <3>1 DEF RowStep, Mine
      <3> QED  BY <3>1, <3>3, <3>4 DEF Settles
    <2> QED  BY <2>2, <2>3
  <1>3. SettledOK'
    BY <1>0, <1>2, SettledStep
  <1>4. ASSUME NEW r \in Session
        PROVE  /\ ses'[r].pc \in Detaching => ses'[r].root = volume'[ses'[r].vol].root
               /\ ses'[r].pc \in Attaching \cup Detaching /\ ~ses'[r].root => exists[VmOf[r]]
               /\ ses'[r].root => ses'[r].pc \in Booting
    <2>1. CASE r # s
      <3>1. ses'[r] = ses[r]
        BY <1>0, <2>1 DEF Alone
      <3> QED  BY <1>0, <3>1 DEF TInv, GuestsOK, Booting
    <2>2. CASE r = s
      BY <1>0, <1>1, <2>2
    <2> QED  BY <2>1, <2>2
  <1>5. GuestsOK'
    BY <1>0, <1>4 DEF TInv, GuestsOK, Booting
  <1> QED  BY <1>3, <1>5 DEF TInv

\* A request begins to work on a volume of a guest that is there.
LEMMA BeginsTInv ==
  ASSUME Orderly, OInv, TInv, NEW s \in Session, NEW v \in Volume, Begins(s, v),
         ses'[s].pc = "decrease" => ses'[s].root = volume[v].root,
         ses'[s].pc = "reserve" /\ ~ses'[s].root => exists[VmOf[s]],
         ses'[s].pc = "reserve" /\ ses'[s].root =>
           \A f \in ses'[s].fcps : dedicated'[f] = VmOf[s]
  PROVE  TInv'
  <1>0. /\ Alone(s) /\ UNCHANGED <<fcp, volume, exists, deleting>>
        /\ ses[s].pc = "idle" /\ ses'[s].pc \in {"reserve", "decrease"}
        /\ ~deleting[VmOf[s]] /\ ses'[s].vol = v
        /\ ses'[s].pc = "decrease" => volume[v].attached /\ volume[v].vm = VmOf[s]
        /\ \A f \in Fcp : \/ dedicated'[f] = dedicated[f]
                          \/ f \in held[s].fcps /\ dedicated'[f] = VmOf[s]
    BY DEF Begins
  <1>1. ASSUME NEW f \in Fcp PROVE Leaves(s, f) \/ Settles(s, f)
    <2>1. f \notin ses[s].fcps
      BY <1>0, IdleFacts
    <2>2. f \in held[s].fcps => Mine(f, VmOf[s])
      BY DEF OInv, OwnersOK
    <2> QED  BY <1>0, <2>1, <2>2 DEF Leaves, Settles, Mine
  <1>2. SettledOK'
    BY <1>0, <1>1, SettledStep DEF Has
  <1>3. ASSUME NEW r \in Session
        PROVE  /\ ses'[r].pc \in Detaching => ses'[r].root = volume'[ses'[r].vol].root
               /\ ses'[r].pc \in Attaching \cup Detaching /\ ~ses'[r].root => exists[VmOf[r]]
               /\ ses'[r].root => ses'[r].pc \in Booting
    <2>1. CASE r # s
      <3>1. ses'[r] = ses[r]
        BY <1>0, <2>1 DEF Alone
      <3> QED  BY <1>0, <3>1 DEF TInv, GuestsOK, Booting
    <2>2. CASE r = s
      <3>1. ses'[s].pc \in Booting /\ (ses'[s].pc \in Detaching => ses'[s].pc = "decrease")
        BY <1>0 DEF Booting, Detaching
      <3>2. ses'[s].pc = "decrease" /\ ~ses'[s].root => exists[VmOf[s]]
        BY <1>0 DEF TInv, GuestsOK
      <3> QED  BY <1>0, <2>2, <3>1, <3>2
    <2> QED  BY <2>1, <2>2
  <1>4. GuestsOK'
    BY <1>0, <1>3 DEF TInv, GuestsOK, Booting
  <1> QED  BY <1>2, <1>4 DEF TInv

LEMMA CallAttachTInv ==
  ASSUME Orderly, OInv, TInv, NEW s \in Session, NEW v \in Volume,
         NEW root \in BOOLEAN, NEW rb, ~rb => SomeKeep, CallAttach(s, v, root, rb)
  PROVE  TInv'
  <1> DEFINE l == [Idle EXCEPT !.pc = "reserve", !.vol = v, !.fcps = held[s].fcps,
                     !.tmpl = held[s].tmpl, !.root = root, !.rb = rb]
  <1>1. /\ ses' = [ses EXCEPT ![s] = l] /\ (exists[VmOf[s]] \/ root)
        /\ root => dedicated' = [f \in Fcp |-> IF f \in held[s].fcps /\ dedicated[f] = NoVm
                                               THEN VmOf[s] ELSE dedicated[f]]
    BY DEF CallAttach, Enter
  <1>2. l.pc = "reserve" /\ l.fcps = held[s].fcps /\ l.root = root
    BY DEF Idle
  <1> HIDE DEF l
  <1>3. ses'[s] = l
    BY <1>1 DEF OInv, IInv, TypeOK
  <1>4. ASSUME root, NEW f \in held[s].fcps PROVE dedicated'[f] = VmOf[s]
    <2>1. f \in Fcp /\ Mine(f, VmOf[s])
      BY DEF OInv, OwnersOK, IInv, TypeOK
    <2>2. dedicated[f] \in {NoVm, VmOf[s]}
      BY <2>1 DEF OInv, DedicatedToAssigner, Mine
    <2> QED  BY <1>1, <1>4, <2>1, <2>2
  <1>5. Begins(s, v)
    BY CallAttachBegins
  <1> QED  BY <1>1, <1>2, <1>3, <1>4, <1>5, BeginsTInv

LEMMA CallDetachTInv ==
  ASSUME Orderly, OInv, TInv, NEW s \in Session, NEW v \in Volume,
         NEW only, NEW rb, ~rb => SomeKeep, CallDetach(s, v, only, rb)
  PROVE  TInv'
  <1> DEFINE l == [Idle EXCEPT !.pc = "decrease", !.vol = v,
                     !.fcps = volume[v].fcps, !.tmpl = volume[v].tmpl,
                     !.root = volume[v].root, !.only = only, !.rb = rb]
  <1>1. ses' = [ses EXCEPT ![s] = l]
    BY DEF CallDetach, Enter
  <1>2. l.pc = "decrease" /\ l.root = volume[v].root
    BY DEF Idle
  <1> HIDE DEF l
  <1>3. ses'[s] = l
    BY <1>1 DEF OInv, IInv, TypeOK
  <1>4. Begins(s, v)
    BY CallDetachBegins
  <1> QED  BY <1>2, <1>3, <1>4, BeginsTInv

LEMMA CallTInv ==
  ASSUME Orderly, OInv, TInv, NEW s \in Session, Call(s)
  PROVE  TInv'
  <1>1. ASSUME NEW t \in Template, ReuseFcps(s, t) \/ BeginAllocate(s, t) \/ BeginRelease(s, t)
        PROVE  TInv'
    BY <1>1, ReuseFcpsConnects, BeginAllocateConnects, BeginReleaseConnects, ConnectsTInv
  <1>2. ASSUME NEW v \in Volume, NEW norb \in Flag("no rollback"),
               \/ \E root \in Flag("root") : CallAttach(s, v, root, ~norb)
               \/ \E only \in Flag("update only") : CallDetach(s, v, only, ~norb)
        PROVE  TInv'
    <2>1. norb \in BOOLEAN /\ (norb => SomeKeep) /\ Flag("root") \subseteq BOOLEAN
      BY DEF Flag, SomeKeep
    <2> QED  BY <1>2, <2>1, CallAttachTInv, CallDetachTInv
  <1> QED  BY <1>1, <1>2 DEF Call

\* A guest is deleted, which frees its devices ...
LEMMA DeleteUseridTInv ==
  ASSUME Orderly, OInv, TInv, NEW vm \in Vm, DeleteUserid(vm)
  PROVE  TInv'
  <1>1. /\ NotServed(vm) /\ UNCHANGED <<fcp, ses, volume>>
        /\ exists' = [exists EXCEPT ![vm] = FALSE]
        /\ deleting' = [deleting EXCEPT ![vm] = TRUE]
        /\ dedicated' = [f \in Fcp |-> IF dedicated[f] = vm THEN NoVm ELSE dedicated[f]]
    BY DEF DeleteUserid, Orderly, sdk, client
  <1>2. /\ exists \in [Vm -> BOOLEAN] /\ deleting \in [Vm -> BOOLEAN]
        /\ \A v \in Volume : volume[v].vm \in Vm \cup {NoVm}
        /\ \A s \in Session : VmOf[s] \in Vm /\ ses[s].fcps \subseteq Fcp
        /\ \A f \in Fcp : fcp[f].assigner \in Vm \cup {NoVm}
    BY LocalTypes, RowTypes DEF OInv, IInv, TypeOK
  <1>3. /\ exists'[vm] = FALSE /\ deleting'[vm] = TRUE
        /\ \A w : w # vm => exists'[w] = exists[w] /\ deleting'[w] = deleting[w]
    BY <1>1, <1>2
  <1>4. ASSUME NEW s \in Session, ses[s].pc # "idle" PROVE VmOf[s] # vm
    BY <1>1, <1>4 DEF NotServed
  <1>5. ASSUME NEW s \in Session
        PROVE  /\ ses[s].pc \in Detaching => ses[s].root = volume[ses[s].vol].root
               /\ ses[s].pc \in Attaching \cup Detaching /\ ~ses[s].root => exists'[VmOf[s]]
               /\ ses[s].root => ses[s].pc \in Booting
    <2>1. ses[s].pc \in Attaching \cup Detaching => ses[s].pc # "idle"
      BY DEF Attaching, Detaching
    <2> QED  BY <1>3, <1>4, <2>1 DEF TInv, GuestsOK, Booting
  <1>6. GuestsOK'
    BY <1>1, <1>3, <1>5 DEF TInv, GuestsOK, Booting
  <1>7. ASSUME NEW f \in Fcp, fcp[f].connections > 0, ~deleting'[fcp[f].assigner],
               \A s \in Session : ~Awaits(s, f)
        PROVE  dedicated'[f] = fcp[f].assigner
    <2>1. fcp[f].assigner # vm
      BY <1>3, <1>7
    <2>2. dedicated[f] = fcp[f].assigner
      BY <1>3, <1>7, <2>1 DEF TInv, SettledOK
    <2> QED  BY <1>1, <2>1, <2>2
  <1>8. ASSUME NEW s \in Session, NEW f \in ses[s].fcps, Has(s, f)
        PROVE  dedicated'[f] = VmOf[s]
    <2>1. ses[s].pc # "idle"
      BY <1>8 DEF Has
    <2>2. dedicated[f] = VmOf[s] /\ VmOf[s] # vm
      BY <1>4, <1>8, <2>1 DEF TInv, SettledOK
    <2> QED  BY <1>1, <1>2, <2>2
  <1>9. SettledOK'
    BY <1>1, <1>7, <1>8 DEF SettledOK, Awaits, Has
  <1> QED  BY <1>6, <1>9 DEF TInv

\* ... its rows are reset, and its volumes forgotten ...
LEMMA ResetFcpsTInv ==
  ASSUME Orderly, OInv, TInv, NEW vm \in Vm, ResetFcps(vm)
  PROVE  TInv'
  <1>1. /\ deleting[vm] /\ fcp' = reset_fcps_of_assigner(fcp, vm)
        /\ deleting' = [deleting EXCEPT ![vm] = FALSE]
        /\ volume' = [v \in Volume |-> IF volume[v].vm # vm THEN volume[v] ELSE Unused]
        /\ UNCHANGED <<ses, dedicated, exists>>
    <2>1. "detach deleted" \notin Env
      BY DEF Orderly
    <2> QED  BY <2>1 DEF ResetFcps, Transaction
  <1>2. /\ deleting \in [Vm -> BOOLEAN]
        /\ \A s \in Session : VmOf[s] \in Vm /\ ses[s].fcps \subseteq Fcp
    BY LocalTypes DEF OInv, IInv, TypeOK
  <1>3. ~deleting'[vm] /\ ~exists[vm] /\ \A w : w # vm => deleting'[w] = deleting[w]
    BY <1>1, <1>2 DEF TInv, GuestsOK
  <1>4. ASSUME NEW f \in Fcp
        PROVE  /\ fcp[f].assigner = vm => fcp'[f].connections = 0
               /\ fcp[f].assigner # vm => fcp'[f] = fcp[f]
    <2>1. fcp[f] \in Row
      BY DEF OInv, IInv, TypeOK
    <2> QED  BY <1>1, <2>1 DEF reset_fcps_of_assigner, Row
  <1>5. \A v \in Volume : /\ volume[v].vm # vm => volume'[v] = volume[v]
                          /\ volume[v].vm = vm => ~volume'[v].attached
    BY <1>1 DEF Unused
  <1>6. ASSUME NEW s \in Session, ses[s].pc # "idle" PROVE VmOf[s] # vm
    BY <1>1, <1>6, Request DEF WorkOK
  <1>7. ASSUME NEW s \in Session, ses[s].pc \in Detaching
        PROVE  volume'[ses[s].vol] = volume[ses[s].vol]
    <2>1. ses[s].pc # "idle" /\ ses[s].vol \in Volume /\ volume[ses[s].vol].vm = VmOf[s]
      BY <1>7, Request DEF WorkOK, Detaching
    <2> QED  BY <1>5, <1>6, <2>1
  <1>8. ASSUME NEW s \in Session
        PROVE  /\ ses[s].pc \in Detaching => ses[s].root = volume'[ses[s].vol].root
               /\ ses[s].pc \in Attaching \cup Detaching /\ ~ses[s].root => exists[VmOf[s]]
               /\ ses[s].root => ses[s].pc \in Booting
    BY <1>7 DEF TInv, GuestsOK, Booting
  <1>9. ASSUME NEW v \in Volume, volume'[v].attached, ~volume'[v].root
        PROVE  exists[volume'[v].vm] \/ deleting'[volume'[v].vm]
    <2>1. volume[v].vm # vm /\ volume'[v] = volume[v]
      BY <1>5, <1>9
    <2> QED  BY <1>3, <1>9, <2>1 DEF TInv, GuestsOK
  <1>10. \A w \in Vm : exists[w] => ~deleting'[w]
    BY <1>3 DEF TInv, GuestsOK
  <1>11. GuestsOK'
    BY <1>1, <1>8, <1>9, <1>10 DEF GuestsOK, Booting
  <1>12. ASSUME NEW f \in Fcp, fcp'[f].connections > 0, ~deleting'[fcp'[f].assigner],
                \A s \in Session : ~Awaits(s, f)'
         PROVE  dedicated[f] = fcp'[f].assigner
    <2>1. fcp[f].assigner # vm /\ fcp'[f] = fcp[f]
      BY <1>4, <1>12
    <2>2. \A s \in Session : ~Awaits(s, f)
      BY <1>1, <1>12, <2>1 DEF Awaits
    <2> QED  BY <1>3, <1>12, <2>1, <2>2 DEF TInv, SettledOK
  <1>13. ASSUME NEW s \in Session, NEW f \in ses[s].fcps, Has(s, f)'
         PROVE  dedicated[f] = VmOf[s]
    <2>1. Has(s, f)
      BY <1>1, <1>13 DEF Has
    <2> QED  BY <2>1 DEF TInv, SettledOK
  <1>14. SettledOK'
    BY <1>1, <1>12, <1>13 DEF SettledOK
  <1> QED  BY <1>11, <1>14 DEF TInv

\* ... and its userid is defined again.
LEMMA CreateUseridTInv ==
  ASSUME OInv, TInv, NEW vm \in Vm, CreateUserid(vm)
  PROVE  TInv'
  <1>1. /\ ~deleting[vm] /\ exists' = [exists EXCEPT ![vm] = TRUE]
        /\ UNCHANGED <<fcp, ses, volume, dedicated, deleting>>
    BY DEF CreateUserid, sdk, client
  <1>2. exists \in [Vm -> BOOLEAN]
    BY DEF OInv, IInv, TypeOK
  <1>3. exists'[vm] /\ \A w : w # vm => exists'[w] = exists[w]
    BY <1>1, <1>2
  <1>4. GuestsOK'
    BY <1>1, <1>3 DEF TInv, GuestsOK
  <1>5. SettledOK'
    BY <1>1 DEF TInv, SettledOK, Awaits, Has
  <1> QED  BY <1>4, <1>5 DEF TInv

LEMMA InitTInv == Init => TInv
  <1> SUFFICES ASSUME Init PROVE TInv
    OBVIOUS
  <1>1. \A s \in Session : ses[s].pc = "idle" /\ ses[s].fcps = {} /\ ses[s].root = FALSE
    BY DEF Init, Idle
  <1>2. /\ \A v \in Volume : ~volume[v].attached
        /\ \A f \in Fcp : fcp[f].connections = 0
        /\ \A vm \in Vm : ~deleting[vm]
    BY DEF Init, Unused, NewRow
  <1> QED  BY <1>1, <1>2 DEF TInv, GuestsOK, SettledOK, Attaching, Detaching

\* The phases of requests.
LEMMA StepTInv ==
  ASSUME Orderly, Tidy, OInv, TInv, NEW s \in Session, Step(s)
  PROVE  TInv'
  <1>1. CASE Connector(s) \/ RbUnreserve(s)
    BY <1>1, ConnectorConnects, RbUnreserveConnects, ConnectsTInv
  <1>2. CASE ~(Connector(s) \/ RbUnreserve(s))
    <2>1. Respects(s)
      BY <1>2, RequestRespects
    <2>2. CASE DoAttach(s)
      <3>1. Tidily(s)
        BY <1>2, <2>2, ReserveTidily, IncreaseTidily, FailInDatabaseTidily,
           DedicateTidily, FailDedicateTidily, AddDisksTidily,
           RbReadTidily, RbAddedDisksTidily, RbConnectionsTidily, RbUndedicateTidily,
           RbDecreaseTidily, RbUsageTidily DEF DoAttach
      <3> QED  BY <2>1, <3>1, TidilyTInv
    <2>3. CASE DoDetach(s)
      <3>1. Tidily(s)
        BY <2>3, DecreaseTidily, CheckUseridTidily, RemoveDisksTidily,
           UndedicateTidily, RbDedicateTidily, RbRemovedDisksTidily,
           RbIncreaseTidily DEF DoDetach
      <3> QED  BY <2>1, <3>1, TidilyTInv
    <2>4. ~RbAborts(s)
      BY DEF RbAborts, Orderly
    <2> QED  BY <1>2, <2>2, <2>3, <2>4 DEF Step
  <1> QED  BY <1>1, <1>2

\* The invariant is inductive.
LEMMA NextTInv ==
  ASSUME Orderly, Tidy, OInv, TInv, [Next]_vars
  PROVE  TInv'
  <1>1. CASE UNCHANGED vars
    <2>1. UNCHANGED <<fcp, ses, volume, dedicated, exists, deleting>>
      BY <1>1 DEF vars, sdk, zvm, client
    <2> QED  BY <2>1 DEF TInv, GuestsOK, SettledOK, Awaits, Has
  <1>2. ASSUME NEW s \in Session, Call(s) \/ Step(s) PROVE TInv'
    BY <1>2, CallTInv, StepTInv
  <1>3. ASSUME NEW vm \in Vm, Guest(vm) PROVE TInv'
    BY <1>3, DeleteUseridTInv, ResetFcpsTInv, CreateUseridTInv DEF Guest
  <1>4. CASE Crash
    BY <1>4 DEF Crash, Tidy
  <1> QED  BY <1>1, <1>2, <1>3, <1>4 DEF Next

(***************************************************************************)
(* If requests that fail are rolled back to the end, what the table counts *)
(* connections of is dedicated in z/VM, except by a request that is about  *)
(* to dedicate it or to take its connection back; and the guests of these  *)
(* requests are there.                                                     *)
(***************************************************************************)
THEOREM TidyInvariant == Orderly /\ Tidy => (Spec => [](OInv /\ TInv))
  <1> SUFFICES ASSUME Orderly, Tidy PROVE Spec => [](OInv /\ TInv)
    OBVIOUS
  <1>1. Init => OInv /\ TInv
    BY InitOInv, InitTInv
  <1>2. OInv /\ TInv /\ [Next]_vars => (OInv /\ TInv)'
    BY NextOInv, NextTInv
  <1> QED  BY <1>1, <1>2, PTL DEF Spec

(***************************************************************************)
(* A device with connections that no request works on is dedicated to its  *)
(* assigner in z/VM: _do_attach may skip the dedication of a device that   *)
(* has more than one connection, and the rollbacks of attach and detach    *)
(* put back what they found.                                               *)
(***************************************************************************)
THEOREM ConnectedIsDedicated ==
  Orderly /\ Tidy => (Spec => []DedicatedWhenConnected)
  <1> SUFFICES ASSUME Orderly, Tidy PROVE Spec => []DedicatedWhenConnected
    OBVIOUS
  <1>1. ASSUME OInv, TInv, NEW f \in Fcp, Quiet(f), fcp[f].connections > 0,
               exists[fcp[f].assigner]
        PROVE  dedicated[f] = fcp[f].assigner
    <2>1. fcp[f].reserved /\ Consistent(fcp[f]) /\ fcp[f].assigner \in Vm \cup {NoVm}
      BY <1>1, RowTypes DEF OInv, ReservedWhileConnected, IInv, UsedRowHasAssigner
    <2>2. fcp[f].assigner \in Vm
      BY <2>1 DEF Consistent, InUse
    <2>3. ~deleting[fcp[f].assigner]
      BY <1>1, <2>2 DEF TInv, GuestsOK
    <2>4. \A s \in Session : ~Awaits(s, f)
      BY <1>1 DEF Quiet, Awaits
    <2> QED  BY <1>1, <2>3, <2>4 DEF TInv, SettledOK
  <1>2. OInv /\ TInv => DedicatedWhenConnected
    BY <1>1 DEF DedicatedWhenConnected
  <1>3. Spec => [](OInv /\ TInv)
    BY TidyInvariant
  <1> QED  BY <1>2, <1>3, PTL
=============================================================================
