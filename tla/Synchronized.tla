---------------------------- MODULE Synchronized ----------------------------
(***************************************************************************)
(* The decorator utils.synchronized(lock_name): a pool of locks indexed by *)
(* the formatted lock name, in which a lock object lives only while some   *)
(* thread uses or waits for it.  A call goes through five steps: register  *)
(* under meta_lock (creating the lock if it is the first), look the lock   *)
(* up outside meta_lock, acquire it, run the function and release it, and  *)
(* unregister under meta_lock (dropping the lock if it was the last).      *)
(***************************************************************************)
EXTENDS Naturals, FiniteSets

CONSTANTS Thread,    \* the threads of the SDK server
          Name,      \* formatted lock names
          Lock,      \* RLock objects; one that nobody refers to may be reused
          NoThread,  \* no thread: the owner of a lock that is not held
          NoLock     \* no lock object

ASSUME ThreadAssumption == IsFiniteSet(Thread) /\ NoThread \notin Thread

ASSUME LockAssumption == NoLock \notin Lock

VARIABLES lock_pool,                \* name -> lock object, NoLock if absent
          concurrent_thread_count,  \* name -> users and waiters, 0 if absent
          owner,                    \* lock object -> thread that holds it
          pc,                       \* thread -> where it is in _wrapper
          formatted_name,           \* thread -> local variable of _wrapper
          the_lock                  \* thread -> local variable of _wrapper

vars == <<lock_pool, concurrent_thread_count, owner, pc, formatted_name,
          the_lock>>

TypeOK ==
  /\ lock_pool \in [Name -> Lock \cup {NoLock}]
  /\ concurrent_thread_count \in [Name -> Nat]
  /\ owner \in [Lock -> Thread \cup {NoThread}]
  /\ pc \in [Thread -> {"outside", "registered", "waiting", "inside",
                        "released"}]
  /\ formatted_name \in [Thread -> Name]
  /\ the_lock \in [Thread -> Lock \cup {NoLock}]

Init ==
  /\ lock_pool = [n \in Name |-> NoLock]
  /\ concurrent_thread_count = [n \in Name |-> 0]
  /\ owner = [l \in Lock |-> NoThread]
  /\ pc = [t \in Thread |-> "outside"]
  /\ formatted_name \in [Thread -> Name]
  /\ the_lock = [t \in Thread |-> NoLock]

-----------------------------------------------------------------------------
\* A lock object that neither the pool nor a local variable refers to.
Unreferenced(l) ==
  /\ \A n \in Name : lock_pool[n] # l
  /\ \A t \in Thread : the_lock[t] # l

\* Mutant: a thread that finds the lock in the pool is not counted.
RegisterUncounted(t, n) ==
  /\ pc[t] = "outside"
  /\ \/ /\ lock_pool[n] = NoLock
        /\ \E l \in Lock :
             /\ Unreferenced(l)
             /\ lock_pool' = [lock_pool EXCEPT ![n] = l]
             /\ owner' = [owner EXCEPT ![l] = NoThread]
        /\ concurrent_thread_count' =
             [concurrent_thread_count EXCEPT ![n] = 1]
     \/ /\ lock_pool[n] # NoLock
        /\ UNCHANGED <<lock_pool, owner, concurrent_thread_count>>
  /\ formatted_name' = [formatted_name EXCEPT ![t] = n]
  /\ pc' = [pc EXCEPT ![t] = "registered"]
  /\ UNCHANGED the_lock

\* Mutant: every thread creates a lock object.
RegisterReplaces(t, n) ==
  /\ pc[t] = "outside"
  /\ \E l \in Lock :
       /\ Unreferenced(l)
       /\ lock_pool' = [lock_pool EXCEPT ![n] = l]
       /\ owner' = [owner EXCEPT ![l] = NoThread]
  /\ concurrent_thread_count' = [concurrent_thread_count EXCEPT ![n] = @ + 1]
  /\ formatted_name' = [formatted_name EXCEPT ![t] = n]
  /\ pc' = [pc EXCEPT ![t] = "registered"]
  /\ UNCHANGED the_lock

\* The first with meta_lock block: create only one lock per formatted_name.
Register(t, n) ==
  /\ pc[t] = "outside"
  /\ \/ /\ lock_pool[n] = NoLock
        /\ \E l \in Lock :
             /\ Unreferenced(l)
             /\ lock_pool' = [lock_pool EXCEPT ![n] = l]
             /\ owner' = [owner EXCEPT ![l] = NoThread]
        /\ concurrent_thread_count' =
             [concurrent_thread_count EXCEPT ![n] = 1]
     \/ /\ lock_pool[n] # NoLock
        /\ concurrent_thread_count' =
             [concurrent_thread_count EXCEPT ![n] = @ + 1]
        /\ UNCHANGED <<lock_pool, owner>>
  /\ formatted_name' = [formatted_name EXCEPT ![t] = n]
  /\ pc' = [pc EXCEPT ![t] = "registered"]
  /\ UNCHANGED the_lock

\* the_lock = lock_pool[formatted_name], outside meta_lock.
LookUp(t) ==
  /\ pc[t] = "registered"
  /\ the_lock' = [the_lock EXCEPT ![t] = lock_pool[formatted_name[t]]]
  /\ pc' = [pc EXCEPT ![t] = "waiting"]
  /\ UNCHANGED <<lock_pool, concurrent_thread_count, owner, formatted_name>>

\* Mutant: acquire has a timeout, and nobody looks at its result.
AcquireTimesOut(t) ==
  /\ pc[t] = "waiting"
  /\ owner' = [owner EXCEPT ![the_lock[t]] = t]
  /\ pc' = [pc EXCEPT ![t] = "inside"]
  /\ UNCHANGED <<lock_pool, concurrent_thread_count, formatted_name, the_lock>>

\* the_lock.acquire(); no decorated function calls another one, so the lock
\* is never taken again by its own holder.
Acquire(t) ==
  /\ pc[t] = "waiting"
  /\ owner[the_lock[t]] = NoThread
  /\ owner' = [owner EXCEPT ![the_lock[t]] = t]
  /\ pc' = [pc EXCEPT ![t] = "inside"]
  /\ UNCHANGED <<lock_pool, concurrent_thread_count, formatted_name, the_lock>>

\* Mutant: the function raises and the lock stays taken.
ReleaseForgets(t) ==
  /\ pc[t] = "inside"
  /\ pc' = [pc EXCEPT ![t] = "released"]
  /\ UNCHANGED <<lock_pool, concurrent_thread_count, owner, formatted_name,
                 the_lock>>

\* The function returns or raises; finally: the_lock.release().
Release(t) ==
  /\ pc[t] = "inside"
  /\ owner' = [owner EXCEPT ![the_lock[t]] = NoThread]
  /\ pc' = [pc EXCEPT ![t] = "released"]
  /\ UNCHANGED <<lock_pool, concurrent_thread_count, formatted_name, the_lock>>

\* Mutant: the lock is dropped although another thread counts on it.
UnregisterEarly(t) ==
  LET n == formatted_name[t] IN
  /\ pc[t] = "released"
  /\ lock_pool' = [lock_pool EXCEPT ![n] = NoLock]
  /\ concurrent_thread_count' = [concurrent_thread_count EXCEPT ![n] = @ - 1]
  /\ the_lock' = [the_lock EXCEPT ![t] = NoLock]
  /\ pc' = [pc EXCEPT ![t] = "outside"]
  /\ UNCHANGED <<owner, formatted_name>>

\* The second with meta_lock block: drop the lock if nobody else counts on it.
Unregister(t) ==
  LET n == formatted_name[t] IN
  /\ pc[t] = "released"
  /\ \/ /\ concurrent_thread_count[n] = 1
        /\ lock_pool' = [lock_pool EXCEPT ![n] = NoLock]
        /\ concurrent_thread_count' =
             [concurrent_thread_count EXCEPT ![n] = 0]
     \/ /\ concurrent_thread_count[n] # 1
        /\ concurrent_thread_count' =
             [concurrent_thread_count EXCEPT ![n] = @ - 1]
        /\ UNCHANGED lock_pool
  /\ the_lock' = [the_lock EXCEPT ![t] = NoLock]
  /\ pc' = [pc EXCEPT ![t] = "outside"]
  /\ UNCHANGED <<owner, formatted_name>>

Step(t) == LookUp(t) \/ Acquire(t) \/ Release(t) \/ Unregister(t)

Next == \E t \in Thread : Step(t) \/ \E n \in Name : Register(t, n)

Spec == Init /\ [][Next]_vars

\* A thread that can take its next step takes it: the decorated functions
\* return, and an RLock that is free is given to somebody who waits for it.
\* Nothing is assumed about who gets it.
FairSpec == Spec /\ \A t \in Thread : WF_vars(Step(t))

-----------------------------------------------------------------------------
\* The threads that the counter of n stands for.
Users(n) == {t \in Thread : pc[t] # "outside" /\ formatted_name[t] = n}

(***************************************************************************)
(* Two threads are never inside functions guarded by the same name, even   *)
(* when the lock object of that name is dropped from the pool and another  *)
(* one created while threads come and go.                                  *)
(***************************************************************************)
MutualExclusion ==
  \A t, u \in Thread :
    /\ pc[t] = "inside"
    /\ pc[u] = "inside"
    /\ formatted_name[t] = formatted_name[u]
    => t = u

(***************************************************************************)
(* concurrent_thread_count counts exactly the threads between the two      *)
(* meta_lock blocks, and the pool has a lock exactly for the names in use: *)
(* the lookup outside meta_lock finds its lock (no KeyError), and a name   *)
(* nobody uses leaves nothing behind in the pool.                          *)
(***************************************************************************)
PoolTracksUsers ==
  \A n \in Name :
    /\ concurrent_thread_count[n] = Cardinality(Users(n))
    /\ lock_pool[n] = NoLock <=> Users(n) = {}

\* The inductive invariant: besides the two above, every thread that has
\* looked its lock up has the one that is still in the pool, two names never
\* share a lock object, and who is inside owns its lock.
SameLock ==
  \A t \in Thread :
    pc[t] \in {"waiting", "inside", "released"} =>
      the_lock[t] = lock_pool[formatted_name[t]]

DistinctLocks ==
  \A m, n \in Name : m # n /\ lock_pool[m] = lock_pool[n] =>
                       lock_pool[m] = NoLock

InsideOwns ==
  /\ \A t \in Thread : pc[t] = "inside" => owner[the_lock[t]] = t
  /\ \A n \in Name : lock_pool[n] \in Lock /\ owner[lock_pool[n]] # NoThread =>
       LET t == owner[lock_pool[n]]
       IN  pc[t] = "inside" /\ formatted_name[t] = n

IInv == TypeOK /\ PoolTracksUsers /\ SameLock /\ DistinctLocks /\ InsideOwns

(***************************************************************************)
(* Whenever threads wait for a name, one of them gets in: the pool never   *)
(* hands out a lock object that nobody will release.                       *)
(***************************************************************************)
SomebodyGetsIn ==
  \A n \in Name :
    (\E t \in Thread : pc[t] = "waiting" /\ formatted_name[t] = n)
      ~> (\E t \in Thread : pc[t] = "inside" /\ formatted_name[t] = n)

-----------------------------------------------------------------------------
\* The holder of a name is the owner of the lock object in the pool.
Holder ==
  [n \in Name |-> IF lock_pool[n] = NoLock THEN NoThread
                                           ELSE owner[lock_pool[n]]]

Abstract == INSTANCE NamedLock WITH holder <- Holder

(***************************************************************************)
(* The pool implements one lock per name, as if the locks were permanent.  *)
(***************************************************************************)
ImplementsNamedLock == Abstract!Spec
=============================================================================
