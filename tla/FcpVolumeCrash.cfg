CONSTANTS
  s1 = s1
  s2 = s2
  s3 = s3
  vm1 = vm1
  vm2 = vm2
  t1 = t1
  a1 = a1
  b1 = b1
  v1 = v1
  v2 = v2
  Fcp = {a1, b1}
  Vm = {vm1, vm2}
  NoVm = NoVm
  Template = {t1}
  NoTmpl = NoTmpl
  Mapping <- OnePathEach
  MinPaths <- AtLeastOne
  Session = {s1, s2}
  NoSession = NoSession
  VmOf <- OneEach
  Volume = {v1, v2}
  NoVolume = NoVolume
  MaxConnections = 2
  Env = {"crash", "rollback fails", "no rollback", "update only"}
SPECIFICATION Spec
SYMMETRY Alike
INVARIANT DedicatedToAssigner
