CONSTANTS
  Thread = {t1, t2, t3}
  Name = {vm1, vm2}
  Lock = {l1, l2, l3, l4}
  NoThread = NoThread
  NoLock = NoLock
SPECIFICATION FairSpec
INVARIANT IInv
INVARIANT MutualExclusion
INVARIANT PoolTracksUsers
PROPERTY ImplementsNamedLock
PROPERTY SomebodyGetsIn
