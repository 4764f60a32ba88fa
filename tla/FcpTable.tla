------------------------------ MODULE FcpTable ------------------------------
(***************************************************************************)
(* The tables of the FCP database and the statements FCPDbOperator         *)
(* executes on them, as operators from a table to the next one.  A table   *)
(* is a function from FCP devices to rows.  Of the columns that come from  *)
(* z/VM, WWPNs and channel ids are left out, and the state, which is only  *)
(* read in the transaction that has just refreshed it, is the set of free  *)
(* devices of that transaction.  The rows of template_fcp_mapping are the  *)
(* constant Mapping.                                                       *)
(***************************************************************************)
EXTENDS Naturals, FiniteSets

CONSTANTS Fcp,       \* FCP devices: the fcp_id column
          Vm, NoVm,  \* userids of virtual machines, and the empty assigner_id
          Template, NoTmpl,  \* template ids, and the empty tmpl_id
          Mapping,   \* template_fcp_mapping: a set of <<tmpl_id, fcp_id, path>>
          MinPaths   \* template id -> min_fcp_paths_count

ASSUME VmAssumption == NoVm \notin Vm

ASSUME TemplateAssumption == NoTmpl \notin Template

ASSUME MappingAssumption ==
  /\ \A m \in Mapping : m[1] \in Template /\ m[2] \in Fcp
  /\ MinPaths \in [Template -> Nat]

Row == [assigner    : Vm \cup {NoVm},
        connections : Nat,
        reserved    : BOOLEAN,
        tmpl        : Template \cup {NoTmpl}]

\* DEFAULT values of the columns.
NewRow == [assigner |-> NoVm, connections |-> 0, reserved |-> FALSE,
           tmpl |-> NoTmpl]

InUse(row) == row.connections # 0 \/ row.reserved

\* A row in use names its virtual machine, and a reserved one its template.
Consistent(row) ==
  /\ InUse(row) => row.assigner # NoVm
  /\ row.reserved <=> row.tmpl # NoTmpl

-----------------------------------------------------------------------------
\* reserve_fcps: whoever had the device, it is vm's afterwards.
reserve_fcps(table, fs, vm, t) ==
  [f \in Fcp |->
     IF f \in fs
     THEN [table[f] EXCEPT !.reserved = TRUE, !.assigner = vm, !.tmpl = t]
     ELSE table[f]]

\* unreserve_fcps: assigner_id stays.
unreserve_fcps(table, fs) ==
  [f \in Fcp |->
     IF f \in fs THEN [table[f] EXCEPT !.reserved = FALSE, !.tmpl = NoTmpl]
                 ELSE table[f]]

\* Mutant: the connections survive.
ResetKeepsConnections(table, vm) ==
  [f \in Fcp |->
     IF table[f].assigner = vm
     THEN [table[f] EXCEPT !.assigner = NoVm, !.reserved = FALSE,
                           !.tmpl = NoTmpl]
     ELSE table[f]]

reset_fcps_of_assigner(table, vm) ==
  [f \in Fcp |->
     IF table[f].assigner = vm
     THEN [table[f] EXCEPT !.assigner = NoVm, !.reserved = FALSE,
                           !.connections = 0, !.tmpl = NoTmpl]
     ELSE table[f]]

\* increase_connections_by_assigner raises for a device of another assigner.
CanIncrease(table, fs, vm) == \A f \in fs : table[f].assigner = vm

increase_connections(table, fs) ==
  [f \in Fcp |->
     IF f \in fs THEN [table[f] EXCEPT !.connections = @ + 1] ELSE table[f]]

\* Mutant: 0 is decreased as well.
DecreaseBelowZero(table, fs) ==
  [f \in Fcp |->
     IF f \in fs THEN [table[f] EXCEPT !.connections = @ - 1] ELSE table[f]]

\* decrease_connections raises at 0, and every caller goes on: 0 stays 0.
\* Whose device it is does not matter.
decrease_connections(table, fs) ==
  [f \in Fcp |->
     IF f \in fs /\ table[f].connections > 0
     THEN [table[f] EXCEPT !.connections = @ - 1]
     ELSE table[f]]

\* The connections of all devices.
ConnectionsOf(table) == [f \in Fcp |-> table[f].connections]

-----------------------------------------------------------------------------
FcpsOfTemplate(t) == {m[2] : m \in {x \in Mapping : x[1] = t}}

PathOf(t, f) == (CHOOSE m \in Mapping : m[1] = t /\ m[2] = f)[3]

get_allocated_fcps_from_assigner(table, vm, t) ==
  {f \in FcpsOfTemplate(t) :
     table[f].assigner = vm /\ table[f].tmpl = t /\ InUse(table[f])}

get_reserved_fcps_from_assigner(table, vm, t) ==
  {f \in FcpsOfTemplate(t) :
     table[f].assigner = vm /\ table[f].tmpl = t /\ table[f].reserved}

\* Mutant: a reserved device without connections counts as free.
GetReservedDevices(table, free, t) ==
  {fs \in SUBSET {f \in FcpsOfTemplate(t) \cap free :
                    table[f].connections = 0} :
     /\ fs # {}
     /\ Cardinality(fs) >= MinPaths[t]
     /\ \A f, g \in fs : PathOf(t, f) = PathOf(t, g) => f = g}

\* get_fcp_devices (the default choice): free devices, one per path, on at
\* least min_fcp_paths_count paths.  Which ones, and how many more paths,
\* depends on the capacity of the channels and on chance: any choice is
\* possible here.
get_fcp_devices(table, free, t) ==
  {fs \in SUBSET {f \in FcpsOfTemplate(t) \cap free : ~InUse(table[f])} :
     /\ fs # {}
     /\ Cardinality(fs) >= MinPaths[t]
     /\ \A f, g \in fs : PathOf(t, f) = PathOf(t, g) => f = g}
=============================================================================
