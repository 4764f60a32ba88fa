CONSTANTS
  s1 = s1
  s2 = s2
  s3 = s3
  vm1 = vm1
  vm2 = vm2
  t1 = t1
  a1 = a1
  b1 = b1
  v1 = v1
  v2 = v2
  Fcp = {a1}
  Vm = {vm1, vm2}
  NoVm = NoVm
  Template = {t1}
  NoTmpl = NoTmpl
  Mapping <- OneDevice
  MinPaths <- AtLeastOne
  Session = {s1, s2}
  NoSession = NoSession
  VmOf <- OneEach
  Volume = {v1}
  NoVolume = NoVolume
  MaxConnections = 2
  Env = {"stale connector", "detach twice", "detach deleted", "delete",
         "delete busy", "create", "root", "update only", "no rollback", "guest off", "database error", "rollback fails",
         "rollback database error", "crash"}
SPECIFICATION FairSpec
INVARIANT IInv
INVARIANT UsedRowHasAssigner
INVARIANT LocksMatchRequests
PROPERTY RequestsEndAlone
