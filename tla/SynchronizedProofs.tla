------------------------- MODULE SynchronizedProofs -------------------------
(***************************************************************************)
(* Proofs about utils.synchronized, for any finite set of threads and any  *)
(* sets of names and lock objects.                                         *)
(***************************************************************************)
EXTENDS Synchronized, FiniteSetTheorems, TLAPS

\* The users of a name are finitely many, so that they can be counted.
LEMMA UsersFinite ==
  ASSUME NEW n \in Name
  PROVE  IsFiniteSet(Users(n)) /\ Cardinality(Users(n)) \in Nat
  <1>1. IsFiniteSet(Users(n))
    BY ThreadAssumption, FS_Subset DEF Users
  <1> QED  BY <1>1, FS_CardinalityType

\* The pool is empty at first, and nobody counts on it.
LEMMA InitIInv == Init => IInv
  <1> SUFFICES ASSUME Init PROVE IInv
    OBVIOUS
  <1>1. TypeOK
    BY DEF Init, TypeOK
  <1>2. PoolTracksUsers
    <2> SUFFICES ASSUME NEW n \in Name
                 PROVE  /\ concurrent_thread_count[n] = Cardinality(Users(n))
                        /\ lock_pool[n] = NoLock <=> Users(n) = {}
      BY DEF PoolTracksUsers
    <2>1. Users(n) = {}
      BY DEF Init, Users
    <2> QED  BY <2>1, FS_EmptySet DEF Init
  <1>3. SameLock /\ DistinctLocks
    BY DEF Init, SameLock, DistinctLocks
  <1>4. InsideOwns
    BY DEF Init, InsideOwns
  <1> QED  BY <1>1, <1>2, <1>3, <1>4 DEF IInv

\* A lock that some thread waits for, or holds, is an object of Lock.
LEMMA TheLockInLock ==
  ASSUME IInv, NEW t \in Thread, pc[t] \in {"waiting", "inside", "released"}
  PROVE  the_lock[t] \in Lock
  <1> DEFINE n == formatted_name[t]
  <1>1. n \in Name /\ t \in Users(n)
    BY DEF IInv, TypeOK, Users
  <1>2. lock_pool[n] # NoLock
    BY <1>1 DEF IInv, PoolTracksUsers
  <1>3. the_lock[t] = lock_pool[n]
    BY DEF IInv, SameLock
  <1> QED  BY <1>1, <1>2, <1>3 DEF IInv, TypeOK

\* Registering adds one user, and a lock object that nobody refers to if it
\* is the first one of its name.
LEMMA RegisterIInv ==
  ASSUME IInv, NEW t \in Thread, NEW n \in Name, Register(t, n)
  PROVE  IInv'
  <1> USE DEF IInv
  <1>a. t \notin Users(n)
    BY DEF Users, Register
  <1>b. Users(n)' = Users(n) \cup {t}
    BY DEF Users, Register, TypeOK
  <1>c. \A m \in Name \ {n} : Users(m)' = Users(m)
    BY DEF Users, Register, TypeOK
  <1>d. Cardinality(Users(n)') = Cardinality(Users(n)) + 1
    BY <1>a, <1>b, UsersFinite, FS_AddElement
  <1>1. TypeOK'
    BY DEF TypeOK, Register
  <1>2. PoolTracksUsers'
    <2> SUFFICES ASSUME NEW m \in Name
                 PROVE  /\ concurrent_thread_count'[m] = Cardinality(Users(m)')
                        /\ lock_pool'[m] = NoLock <=> Users(m)' = {}
      BY DEF PoolTracksUsers
    <2>1. CASE m # n
      BY <2>1, <1>c DEF PoolTracksUsers, Register, TypeOK
    <2>2. CASE m = n /\ lock_pool[n] = NoLock
      <3>1. Cardinality(Users(n)) = 0
        BY <2>2, FS_EmptySet DEF PoolTracksUsers
      <3> QED  BY <2>2, <3>1, <1>b, <1>d, LockAssumption
               DEF Register, TypeOK
    <2>3. CASE m = n /\ lock_pool[n] # NoLock
      BY <2>3, <1>b, <1>d DEF PoolTracksUsers, Register, TypeOK
    <2> QED  BY <2>1, <2>2, <2>3
  <1>3. SameLock'
    <2> SUFFICES ASSUME NEW u \in Thread,
                        pc'[u] \in {"waiting", "inside", "released"}
                 PROVE  the_lock'[u] = lock_pool'[formatted_name'[u]]
      BY DEF SameLock
    <2>1. u # t /\ pc'[u] = pc[u] /\ formatted_name'[u] = formatted_name[u]
      BY DEF Register, TypeOK
    <2>2. u \in Users(formatted_name[u]) /\ formatted_name[u] \in Name
      BY <2>1 DEF Users, TypeOK
    <2>3. lock_pool[formatted_name[u]] # NoLock
      BY <2>2 DEF PoolTracksUsers
    <2> QED  BY <2>1, <2>2, <2>3 DEF SameLock, Register, TypeOK
  <1>4. DistinctLocks'
    BY DEF DistinctLocks, Register, TypeOK, Unreferenced
  <1>5. InsideOwns'
    <2>1. ASSUME NEW u \in Thread, pc'[u] = "inside"
          PROVE  owner'[the_lock'[u]] = u
      <3>1. pc[u] = "inside"
        BY <2>1 DEF Register, TypeOK
      <3>2. the_lock[u] \in Lock
        BY <3>1, TheLockInLock
      <3> QED  BY <2>1, <3>1, <3>2
               DEF InsideOwns, Register, TypeOK, Unreferenced
    <2>2. ASSUME NEW m \in Name, lock_pool'[m] \in Lock,
                 owner'[lock_pool'[m]] # NoThread
          PROVE  LET u == owner'[lock_pool'[m]]
                 IN  pc'[u] = "inside" /\ formatted_name'[u] = m
      <3>1. CASE lock_pool[n] = NoLock
        <4>1. PICK l \in Lock : /\ Unreferenced(l)
                                /\ lock_pool' = [lock_pool EXCEPT ![n] = l]
                                /\ owner' = [owner EXCEPT ![l] = NoThread]
          BY <3>1 DEF Register
        <4>2. m # n /\ lock_pool'[m] = lock_pool[m] /\ lock_pool[m] # l
          BY <2>2, <4>1 DEF TypeOK, Unreferenced
        <4>3. owner'[lock_pool'[m]] = owner[lock_pool[m]]
          BY <2>2, <4>1, <4>2 DEF TypeOK
        <4>4. owner[lock_pool[m]] \in Thread
          BY <2>2, <4>2, <4>3 DEF TypeOK
        <4> QED  BY <2>2, <4>2, <4>3, <4>4 DEF InsideOwns, Register, TypeOK
      <3>2. CASE lock_pool[n] # NoLock
        <4>1. lock_pool' = lock_pool /\ owner' = owner
          BY <3>2 DEF Register
        <4>2. owner[lock_pool[m]] \in Thread
          BY <2>2, <4>1 DEF TypeOK
        <4> QED  BY <2>2, <4>1, <4>2 DEF InsideOwns, Register, TypeOK
      <3> QED  BY <3>1, <3>2
    <2> QED  BY <2>1, <2>2 DEF InsideOwns
  <1> QED  BY <1>1, <1>2, <1>3, <1>4, <1>5

\* A step of a thread that stays registered under its name keeps every count.
LEMMA SameUsers ==
  ASSUME IInv, NEW t \in Thread, LookUp(t) \/ Acquire(t) \/ Release(t)
  PROVE  \A n \in Name : Users(n)' = Users(n)
  BY DEF IInv, TypeOK, Users, LookUp, Acquire, Release

\* The lookup outside meta_lock finds the lock of the name: the thread is
\* counted, so nobody has dropped it.
LEMMA LookUpIInv ==
  ASSUME IInv, NEW t \in Thread, LookUp(t)
  PROVE  IInv'
  <1> USE DEF IInv
  <1>1. TypeOK'
    BY DEF TypeOK, LookUp
  <1>2. PoolTracksUsers'
    BY SameUsers DEF PoolTracksUsers, LookUp
  <1>3. SameLock'
    BY DEF SameLock, LookUp, TypeOK
  <1>4. DistinctLocks'
    BY DEF DistinctLocks, LookUp
  <1>5. InsideOwns'
    <2>1. \A u \in Thread : pc'[u] = "inside" => owner'[the_lock'[u]] = u
      BY DEF InsideOwns, LookUp, TypeOK
    <2>2. ASSUME NEW m \in Name, lock_pool[m] \in Lock,
                 owner[lock_pool[m]] # NoThread
          PROVE  LET u == owner[lock_pool[m]]
                 IN  pc'[u] = "inside" /\ formatted_name'[u] = m
      <3>1. owner[lock_pool[m]] \in Thread
        BY <2>2 DEF TypeOK
      <3> QED  BY <2>2, <3>1 DEF InsideOwns, LookUp, TypeOK
    <2> QED  BY <2>1, <2>2 DEF InsideOwns, LookUp
  <1> QED  BY <1>1, <1>2, <1>3, <1>4, <1>5

\* The lock a thread takes is still the one of its name in the pool.
LEMMA AcquireIInv ==
  ASSUME IInv, NEW t \in Thread, Acquire(t)
  PROVE  IInv'
  <1> USE DEF IInv
  <1> DEFINE n == formatted_name[t]
  <1>l. the_lock[t] \in Lock /\ the_lock[t] = lock_pool[n] /\ n \in Name
    BY TheLockInLock DEF Acquire, SameLock, TypeOK
  <1>1. TypeOK'
    BY DEF TypeOK, Acquire
  <1>2. PoolTracksUsers'
    BY SameUsers DEF PoolTracksUsers, Acquire
  <1>3. SameLock'
    BY DEF SameLock, Acquire, TypeOK
  <1>4. DistinctLocks'
    BY DEF DistinctLocks, Acquire
  <1>5. InsideOwns'
    <2>1. ASSUME NEW u \in Thread, pc'[u] = "inside"
          PROVE  owner'[the_lock'[u]] = u
      <3>1. CASE u = t
        BY <3>1, <1>l DEF Acquire, TypeOK
      <3>2. CASE u # t
        <4>1. pc[u] = "inside" /\ owner[the_lock[u]] = u
          BY <2>1, <3>2 DEF InsideOwns, Acquire, TypeOK
        <4>2. the_lock[u] # the_lock[t]
          BY <4>1, ThreadAssumption DEF Acquire
        <4> QED  BY <4>1, <4>2 DEF Acquire, TypeOK
      <3> QED  BY <3>1, <3>2
    <2>2. ASSUME NEW m \in Name, lock_pool[m] \in Lock,
                 owner'[lock_pool[m]] # NoThread
          PROVE  LET u == owner'[lock_pool[m]]
                 IN  pc'[u] = "inside" /\ formatted_name'[u] = m
      <3>1. CASE m = n
        BY <3>1, <1>l DEF Acquire, TypeOK
      <3>2. CASE m # n
        <4>1. lock_pool[m] # the_lock[t]
          BY <3>2, <2>2, <1>l, LockAssumption DEF DistinctLocks
        <4>2. owner'[lock_pool[m]] = owner[lock_pool[m]]
          BY <4>1, <2>2 DEF Acquire, TypeOK
        <4>3. owner[lock_pool[m]] \in Thread
          BY <4>2, <2>2 DEF TypeOK
        <4> QED  BY <2>2, <4>2, <4>3 DEF InsideOwns, Acquire, TypeOK
      <3> QED  BY <3>1, <3>2
    <2> QED  BY <2>1, <2>2 DEF InsideOwns, Acquire
  <1> QED  BY <1>1, <1>2, <1>3, <1>4, <1>5

\* Only the thread inside owned the lock that it frees.
LEMMA ReleaseIInv ==
  ASSUME IInv, NEW t \in Thread, Release(t)
  PROVE  IInv'
  <1> USE DEF IInv
  <1> DEFINE n == formatted_name[t]
  <1>l. the_lock[t] \in Lock /\ the_lock[t] = lock_pool[n] /\ n \in Name
    BY TheLockInLock DEF Release, SameLock, TypeOK
  <1>1. TypeOK'
    BY DEF TypeOK, Release
  <1>2. PoolTracksUsers'
    BY SameUsers DEF PoolTracksUsers, Release
  <1>3. SameLock'
    BY DEF SameLock, Release, TypeOK
  <1>4. DistinctLocks'
    BY DEF DistinctLocks, Release
  <1>5. InsideOwns'
    <2>1. ASSUME NEW u \in Thread, pc'[u] = "inside"
          PROVE  owner'[the_lock'[u]] = u
      <3>1. u # t /\ pc[u] = "inside" /\ owner[the_lock[u]] = u
        BY <2>1 DEF InsideOwns, Release, TypeOK
      <3>2. the_lock[u] # the_lock[t]
        BY <3>1 DEF InsideOwns, Release
      <3> QED  BY <3>1, <3>2 DEF Release, TypeOK
    <2>2. ASSUME NEW m \in Name, lock_pool[m] \in Lock,
                 owner'[lock_pool[m]] # NoThread
          PROVE  LET u == owner'[lock_pool[m]]
                 IN  pc'[u] = "inside" /\ formatted_name'[u] = m
      <3>1. lock_pool[m] # the_lock[t]
        BY <2>2, <1>l DEF Release, TypeOK
      <3>2. owner'[lock_pool[m]] = owner[lock_pool[m]]
        BY <3>1, <2>2 DEF Release, TypeOK
      <3>3. owner[lock_pool[m]] \in Thread
        BY <3>2, <2>2 DEF TypeOK
      <3>4. owner[lock_pool[m]] # t
        BY <3>1, <3>2, <2>2, <1>l DEF InsideOwns
      <3> QED  BY <2>2, <3>2, <3>3, <3>4 DEF InsideOwns, Release, TypeOK
    <2> QED  BY <2>1, <2>2 DEF InsideOwns, Release
  <1> QED  BY <1>1, <1>2, <1>3, <1>4, <1>5

\* The thread that drops a lock is the last user of its name.
LEMMA LastUser ==
  ASSUME IInv, NEW t \in Thread, pc[t] # "outside",
         concurrent_thread_count[formatted_name[t]] = 1
  PROVE  Users(formatted_name[t]) = {t}
  <1> DEFINE n == formatted_name[t]
  <1>1. n \in Name /\ t \in Users(n)
    BY DEF IInv, TypeOK, Users
  <1>2. IsFiniteSet(Users(n)) /\ Cardinality(Users(n)) = 1
    BY <1>1, UsersFinite DEF IInv, PoolTracksUsers
  <1>3. PICK x : Users(n) = {x}
    BY <1>2, FS_Singleton
  <1> QED  BY <1>1, <1>3

\* Unregistering drops the lock only with its last user.
LEMMA UnregisterIInv ==
  ASSUME IInv, NEW t \in Thread, Unregister(t)
  PROVE  IInv'
  <1> USE DEF IInv
  <1> DEFINE n == formatted_name[t]
  <1>a. n \in Name /\ t \in Users(n) /\ pc[t] = "released"
    BY DEF Users, Unregister, TypeOK
  <1>b. Users(n)' = Users(n) \ {t}
    BY DEF Users, Unregister, TypeOK
  <1>c. \A m \in Name \ {n} : Users(m)' = Users(m)
    BY DEF Users, Unregister, TypeOK
  <1>d. Cardinality(Users(n)') = Cardinality(Users(n)) - 1
    BY <1>a, <1>b, UsersFinite, FS_RemoveElement
  <1>e. concurrent_thread_count[n] = Cardinality(Users(n))
    BY <1>a DEF PoolTracksUsers
  <1>f. Cardinality(Users(n)) # 0
    BY <1>a, UsersFinite, FS_EmptySet
  <1>g. Cardinality(Users(n)) = 1 => Users(n) = {t}
    BY <1>a, <1>e, LastUser
  <1>h. Users(n) = {t} => Cardinality(Users(n)) = 1
    BY FS_Singleton
  <1>1. TypeOK'
    BY <1>e, <1>f, <1>a, UsersFinite DEF TypeOK, Unregister
  <1>2. PoolTracksUsers'
    <2> SUFFICES ASSUME NEW m \in Name
                 PROVE  /\ concurrent_thread_count'[m] = Cardinality(Users(m)')
                        /\ lock_pool'[m] = NoLock <=> Users(m)' = {}
      BY DEF PoolTracksUsers
    <2>1. CASE m # n
      BY <2>1, <1>c DEF PoolTracksUsers, Unregister, TypeOK
    <2>2. CASE m = n /\ concurrent_thread_count[n] = 1
      BY <2>2, <1>b, <1>d, <1>e, <1>g DEF Unregister, TypeOK
    <2>3. CASE m = n /\ concurrent_thread_count[n] # 1
      <3>1. Users(n)' # {}
        BY <2>3, <1>a, <1>b, <1>e, <1>h
      <3>2. lock_pool[n] # NoLock /\ lock_pool' = lock_pool
        BY <2>3, <1>a DEF PoolTracksUsers, Unregister
      <3> QED  BY <2>3, <3>1, <3>2, <1>d, <1>e DEF Unregister, TypeOK
    <2> QED  BY <2>1, <2>2, <2>3
  <1>3. SameLock'
    <2> SUFFICES ASSUME NEW u \in Thread,
                        pc'[u] \in {"waiting", "inside", "released"}
                 PROVE  the_lock'[u] = lock_pool'[formatted_name'[u]]
      BY DEF SameLock
    <2>1. /\ u # t /\ pc'[u] = pc[u] /\ the_lock'[u] = the_lock[u]
          /\ formatted_name'[u] = formatted_name[u]
          /\ formatted_name[u] \in Name
      BY DEF Unregister, TypeOK
    <2>2. CASE formatted_name[u] # n
      BY <2>1, <2>2 DEF SameLock, Unregister, TypeOK
    <2>3. CASE formatted_name[u] = n
      <3>1. u \in Users(n)
        BY <2>1, <2>3 DEF Users
      <3>2. concurrent_thread_count[n] # 1
        BY <3>1, <2>1, <1>e, <1>g
      <3> QED  BY <2>1, <3>2 DEF SameLock, Unregister
    <2> QED  BY <2>2, <2>3
  <1>4. DistinctLocks'
    BY DEF DistinctLocks, Unregister, TypeOK
  <1>5. InsideOwns'
    <2>1. ASSUME NEW u \in Thread, pc'[u] = "inside"
          PROVE  owner'[the_lock'[u]] = u
      BY <2>1 DEF InsideOwns, Unregister, TypeOK
    <2>2. ASSUME NEW m \in Name, lock_pool'[m] \in Lock,
                 owner'[lock_pool'[m]] # NoThread
          PROVE  LET u == owner'[lock_pool'[m]]
                 IN  pc'[u] = "inside" /\ formatted_name'[u] = m
      <3>1. lock_pool'[m] = lock_pool[m] /\ owner' = owner
        BY <2>2, LockAssumption DEF Unregister, TypeOK
      <3>2. owner[lock_pool[m]] \in Thread
        BY <2>2, <3>1 DEF TypeOK
      <3> QED  BY <2>2, <3>1, <3>2, <1>a DEF InsideOwns, Unregister, TypeOK
    <2> QED  BY <2>1, <2>2 DEF InsideOwns
  <1> QED  BY <1>1, <1>2, <1>3, <1>4, <1>5

\* The invariant is inductive: one case for each action.
LEMMA NextIInv == IInv /\ [Next]_vars => IInv'
  <1> SUFFICES ASSUME IInv, [Next]_vars PROVE IInv'
    OBVIOUS
  <1>1. ASSUME NEW t \in Thread, NEW n \in Name, Register(t, n) PROVE IInv'
    BY <1>1, RegisterIInv
  <1>2. ASSUME NEW t \in Thread, Step(t) PROVE IInv'
    BY <1>2, LookUpIInv, AcquireIInv, ReleaseIInv, UnregisterIInv DEF Step
  <1>3. CASE UNCHANGED vars
    BY <1>3 DEF vars, IInv, TypeOK, PoolTracksUsers, Users, SameLock,
                DistinctLocks, InsideOwns
  <1> QED  BY <1>1, <1>2, <1>3 DEF Next

-----------------------------------------------------------------------------
(***************************************************************************)
(* The strengthened invariant of the lock pool holds for any number of     *)
(* threads, names and lock objects.                                        *)
(***************************************************************************)
THEOREM IInvariant == Spec => []IInv
  BY InitIInv, NextIInv, PTL DEF Spec

(***************************************************************************)
(* utils.synchronized lets one thread at a time into the functions guarded *)
(* by a name, however often the lock object of the name is recreated.      *)
(***************************************************************************)
THEOREM Exclusion == Spec => []MutualExclusion
  <1>1. IInv => MutualExclusion
    <2> SUFFICES ASSUME IInv, NEW t \in Thread, NEW u \in Thread,
                        pc[t] = "inside", pc[u] = "inside",
                        formatted_name[t] = formatted_name[u]
                 PROVE  t = u
      BY DEF MutualExclusion
    <2>1. the_lock[t] = the_lock[u]
      BY DEF IInv, SameLock
    <2> QED  BY <2>1 DEF IInv, InsideOwns
  <1> QED  BY <1>1, IInvariant, PTL

(***************************************************************************)
(* The counter of a name is the number of its users, and the pool holds a  *)
(* lock exactly for the names in use.                                      *)
(***************************************************************************)
THEOREM Bookkeeping == Spec => []PoolTracksUsers
  <1>1. IInv => PoolTracksUsers
    BY DEF IInv
  <1> QED  BY <1>1, IInvariant, PTL

-----------------------------------------------------------------------------
\* Nobody holds a name in the initial states.
LEMMA InitRefines == Init => Abstract!Init
  BY DEF Init, Abstract!Init, Holder

\* Acquire enters, Release exits, and the other steps change no holder: a lock
\* object is created free, and dropped when nobody owns it.
LEMMA NextRefines == IInv /\ [Next]_vars => [Abstract!Next]_Holder
  <1> SUFFICES ASSUME IInv, [Next]_vars PROVE [Abstract!Next]_Holder
    OBVIOUS
  <1> USE DEF IInv
  <1>1. ASSUME NEW t \in Thread, NEW n \in Name, Register(t, n)
        PROVE  Holder' = Holder
    <2> SUFFICES ASSUME NEW m \in Name PROVE Holder'[m] = Holder[m]
      BY DEF Holder
    <2>1. CASE lock_pool[n] # NoLock
      BY <1>1, <2>1 DEF Register, Holder
    <2>2. CASE lock_pool[n] = NoLock
      <3>1. PICK l \in Lock : /\ Unreferenced(l)
                              /\ lock_pool' = [lock_pool EXCEPT ![n] = l]
                              /\ owner' = [owner EXCEPT ![l] = NoThread]
        BY <1>1, <2>2 DEF Register
      <3> QED  BY <3>1, <2>2, LockAssumption DEF Holder, Unreferenced, TypeOK
    <2> QED  BY <2>1, <2>2
  <1>2. ASSUME NEW t \in Thread, LookUp(t)
        PROVE  Holder' = Holder
    BY <1>2 DEF LookUp, Holder
  <1>3. ASSUME NEW t \in Thread, Acquire(t)
        PROVE  Abstract!Enter(t, formatted_name[t])
    <2> DEFINE n == formatted_name[t]
    <2>1. the_lock[t] \in Lock /\ the_lock[t] = lock_pool[n] /\ n \in Name
      BY <1>3, TheLockInLock DEF Acquire, SameLock, TypeOK
    <2>2. \A m \in Name \ {n} : lock_pool[m] # the_lock[t]
      BY <2>1, LockAssumption DEF DistinctLocks
    <2>3. Holder[n] = NoThread
      BY <1>3, <2>1, LockAssumption DEF Acquire, Holder
    <2>4. ASSUME NEW m \in Name
          PROVE  Holder'[m] = IF m = n THEN t ELSE Holder[m]
      BY <1>3, <2>1, <2>2, LockAssumption DEF Acquire, Holder, TypeOK
    <2>5. Holder' = [Holder EXCEPT ![n] = t]
      BY <2>4 DEF Holder
    <2> QED  BY <2>3, <2>5 DEF Abstract!Enter
  <1>4. ASSUME NEW t \in Thread, Release(t)
        PROVE  Abstract!Exit(t, formatted_name[t])
    <2> DEFINE n == formatted_name[t]
    <2>1. the_lock[t] \in Lock /\ the_lock[t] = lock_pool[n] /\ n \in Name
      BY <1>4, TheLockInLock DEF Release, SameLock, TypeOK
    <2>2. \A m \in Name \ {n} : lock_pool[m] # the_lock[t]
      BY <2>1, LockAssumption DEF DistinctLocks
    <2>3. Holder[n] = t
      BY <1>4, <2>1, LockAssumption DEF Release, Holder, InsideOwns
    <2>4. ASSUME NEW m \in Name
          PROVE  Holder'[m] = IF m = n THEN NoThread ELSE Holder[m]
      BY <1>4, <2>1, <2>2, LockAssumption DEF Release, Holder, TypeOK
    <2>5. Holder' = [Holder EXCEPT ![n] = NoThread]
      BY <2>4 DEF Holder
    <2> QED  BY <2>3, <2>5 DEF Abstract!Exit
  <1>5. ASSUME NEW t \in Thread, Unregister(t)
        PROVE  Holder' = Holder
    <2> DEFINE n == formatted_name[t]
    <2>1. n \in Name /\ pc[t] = "released" /\ owner' = owner
      BY <1>5 DEF Unregister, TypeOK
    <2>2. CASE concurrent_thread_count[n] # 1
      BY <1>5, <2>2 DEF Unregister, Holder
    <2>3. CASE concurrent_thread_count[n] = 1
      <3>1. lock_pool' = [lock_pool EXCEPT ![n] = NoLock]
        BY <1>5, <2>3 DEF Unregister
      <3>2. Users(n) = {t}
        BY <2>1, <2>3, LastUser
      <3>3. lock_pool[n] \in Lock
        BY <2>1, <3>2 DEF PoolTracksUsers, TypeOK
      <3>4. owner[lock_pool[n]] = NoThread
        <4> SUFFICES ASSUME owner[lock_pool[n]] # NoThread PROVE FALSE
          OBVIOUS
        <4>1. owner[lock_pool[n]] \in Thread
          BY <3>3 DEF TypeOK
        <4>2. owner[lock_pool[n]] \in Users(n) /\
              pc[owner[lock_pool[n]]] = "inside"
          BY <4>1, <3>3, <2>1 DEF InsideOwns, Users
        <4> QED  BY <4>2, <3>2, <2>1
      <3>5. ASSUME NEW m \in Name PROVE Holder'[m] = Holder[m]
        BY <3>1, <3>4, <2>1 DEF Holder, TypeOK
      <3> QED  BY <3>5 DEF Holder
    <2> QED  BY <2>2, <2>3
  <1>6. CASE UNCHANGED vars
    BY <1>6 DEF vars, Holder
  <1> QED  BY <1>1, <1>2, <1>3, <1>4, <1>5, <1>6
           DEF Next, Step, Abstract!Next, TypeOK

(***************************************************************************)
(* The pool of short-lived lock objects implements one lock per name.      *)
(***************************************************************************)
THEOREM Refinement == Spec => ImplementsNamedLock
  <1>1. Init => Abstract!Init
    BY InitRefines
  <1>2. IInv /\ [Next]_vars => [Abstract!Next]_Holder
    BY NextRefines
  <1> QED  BY <1>1, <1>2, IInvariant, PTL
           DEF Spec, ImplementsNamedLock, Abstract!Spec
=============================================================================
