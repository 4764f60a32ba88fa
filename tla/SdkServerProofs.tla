--------------------------- MODULE SdkServerProofs ---------------------------
(***************************************************************************)
(* Proofs about the threads of SDKServer, for any number of connections    *)
(* and threads and any limits: the types with the limits of the queue and  *)
(* of the workers, and OnePlace.                                           *)
(***************************************************************************)
EXTENDS SdkServer, FiniteSetTheorems, SequenceTheorems, TLAPS

\* The places of c in a queue, and the workers that have it.
At(s, c) == {i \in DOMAIN s : s[i] = c}
Holders(c) == {w \in Worker : worker[w].conn = c}

(***************************************************************************)
(* What a thread has in hand where: run refers to an open connection or to *)
(* none, and never to one that it has not accepted yet; a worker that      *)
(* serves has a connection; the one that it keeps when serve_API has       *)
(* returned early was malformed; and it sends a call its own results.      *)
(***************************************************************************)
HandsOK ==
  /\ main.pc = "put" => main.conn # NoConn
  /\ main.conn # NoConn => Open(main.conn)
  /\ \A i \in DOMAIN backlog : backlog[i] # main.conn
  /\ \A w \in Worker :
       /\ worker[w].pc \in {"serve", "send"} => worker[w].conn # NoConn
       /\ worker[w].pc = "none" => worker[w].conn = NoConn
       /\ worker[w].conn # NoConn /\ worker[w].pc \in {"get", "exit"}
            => conn[worker[w].conn].kind \in Malformed
       /\ worker[w].pc = "send"
            => /\ conn[worker[w].conn].kind # "silent"
               /\ conn[worker[w].conn].kind = "call" => worker[w].results = "own"

\* The inductive invariant.
IInv == TypeOK /\ HandsOK /\ OnePlace

ConnType == [st    : {"new", "waiting", "gone", "answered", "unsent", "dropped"},
             kind  : Kind \cup {"silent"},
             about : Conn \cup {NoConn}]

WorkerType == [pc      : {"none", "get", "serve", "send", "exit"},
               conn    : Conn \cup {NoConn},
               results : {"own", "internal"}]

-----------------------------------------------------------------------------
(* Counting *)

\* A queue has finitely many places.
LEMMA AtFinite ==
  ASSUME NEW s \in Seq(Conn), NEW c
  PROVE  IsFiniteSet(At(s, c)) /\ Cardinality(At(s, c)) \in Nat
  <1>1. DOMAIN s = 1..Len(s) /\ Len(s) \in Nat
    BY LenProperties
  <1>2. IsFiniteSet(1..Len(s))
    BY <1>1, FS_Interval
  <1>3. IsFiniteSet(At(s, c))
    BY <1>1, <1>2, FS_Subset DEF At
  <1> QED  BY <1>3, FS_CardinalityType

\* Append adds one place of its element, and changes nothing for the others.
LEMMA AtAppend ==
  ASSUME NEW s \in Seq(Conn), NEW x \in Conn, NEW c
  PROVE  Cardinality(At(Append(s, x), c)) = Cardinality(At(s, c)) + (IF x = c THEN 1 ELSE 0)
  <1> DEFINE t == Append(s, x)
  <1>1. /\ DOMAIN s = 1..Len(s) /\ Len(s) \in Nat
        /\ DOMAIN t = 1..(Len(s) + 1)
        /\ \A i \in 1..Len(s) : t[i] = s[i]
        /\ t[Len(s) + 1] = x
    BY LenProperties, AppendProperties
  <1>2. CASE x = c
    <2>1. At(t, c) = At(s, c) \cup {Len(s) + 1}
      BY <1>1, <1>2 DEF At
    <2>2. Len(s) + 1 \notin At(s, c)
      BY <1>1 DEF At
    <2> QED  BY <2>1, <2>2, <1>2, AtFinite, FS_AddElement
  <1>3. CASE x # c
    <2>1. At(t, c) = At(s, c)
      BY <1>1, <1>3 DEF At
    <2> QED  BY <2>1, <1>3, AtFinite
  <1> QED  BY <1>2, <1>3

\* Tail takes away one place of the head.
LEMMA AtTail ==
  ASSUME NEW s \in Seq(Conn), s # <<>>, NEW c
  PROVE  Cardinality(At(s, c)) = Cardinality(At(Tail(s), c)) + (IF Head(s) = c THEN 1 ELSE 0)
  <1> DEFINE t == Tail(s)
             S == At(s, c) \ {1}
             T == At(t, c)
             f == [i \in S |-> i - 1]
  <1>1. /\ DOMAIN s = 1..Len(s) /\ Len(s) \in Nat \ {0}
        /\ DOMAIN t = 1..(Len(s) - 1)
        /\ \A i \in 1..(Len(s) - 1) : t[i] = s[i + 1]
        /\ t \in Seq(Conn)
        /\ Head(s) = s[1]
    BY LenProperties, HeadTailProperties, EmptySeq
  <1>2. f \in [S -> T]
    BY <1>1 DEF At
  <1>3. \A a, b \in S : f[a] = f[b] => a = b
    BY <1>1 DEF At
  <1>4. \A y \in T : \E i \in S : f[i] = y
    <2> TAKE y \in T
    <2>1. y + 1 \in S
      BY <1>1 DEF At
    <2> QED  BY <2>1, <1>1 DEF At
  <1>5. ExistsBijection(S, T)
    BY <1>2, <1>3, <1>4
       DEF ExistsBijection, Bijection, Injection, Surjection, IsInjective
  <1>6. IsFiniteSet(At(s, c)) /\ Cardinality(At(s, c)) \in Nat
    BY AtFinite
  <1>7. /\ IsFiniteSet(S)
        /\ Cardinality(S) = IF 1 \in At(s, c) THEN Cardinality(At(s, c)) - 1
                            ELSE Cardinality(At(s, c))
    BY <1>6, FS_RemoveElement
  <1>8. Cardinality(T) = Cardinality(S)
    BY <1>5, <1>7, FS_Bijection
  <1>9. 1 \in At(s, c) <=> Head(s) = c
    BY <1>1 DEF At
  <1> QED  BY <1>6, <1>7, <1>8, <1>9

\* There are finitely many workers.
LEMMA HoldersFinite ==
  ASSUME NEW c
  PROVE  /\ IsFiniteSet(Holders(c)) /\ Cardinality(Holders(c)) \in Nat
         /\ Cardinality(Holders(c)') \in Nat
  <1>1. IsFiniteSet(Holders(c)) /\ IsFiniteSet(Holders(c)')
    BY ServerAssumption, FS_Subset DEF Holders
  <1> QED  BY <1>1, FS_CardinalityType

LEMMA AliveFinite == IsFiniteSet(Alive) /\ Cardinality(Alive) \in Nat
  <1>1. IsFiniteSet(Alive)
    BY ServerAssumption, FS_Subset DEF Alive
  <1> QED  BY <1>1, FS_CardinalityType

\* A worker that takes x in the place of y: one holder more, and one less.
LEMMA HoldersChange ==
  ASSUME TypeOK, NEW w \in Worker, NEW x \in Conn \cup {NoConn}, NEW c,
         worker' \in [Worker -> WorkerType],
         worker'[w].conn = x,
         \A u \in Worker \ {w} : worker'[u].conn = worker[u].conn
  PROVE  Cardinality(Holders(c)') + (IF worker[w].conn = c THEN 1 ELSE 0)
           = Cardinality(Holders(c)) + (IF x = c THEN 1 ELSE 0)
  <1> DEFINE rest == Holders(c) \ {w}
  <1>1. IsFiniteSet(Holders(c)) /\ Cardinality(Holders(c)) \in Nat
    BY HoldersFinite
  <1>2. /\ IsFiniteSet(rest)
        /\ Cardinality(rest) = IF w \in Holders(c) THEN Cardinality(Holders(c)) - 1
                               ELSE Cardinality(Holders(c))
    BY <1>1, FS_RemoveElement
  <1>3. w \in Holders(c) <=> worker[w].conn = c
    BY DEF Holders
  <1>4. Holders(c)' = IF x = c THEN rest \cup {w} ELSE rest
    BY DEF Holders
  <1>5. /\ w \notin rest
        /\ Cardinality(rest \cup {w}) = Cardinality(rest) + 1
    BY <1>2, FS_AddElement
  <1>6. Cardinality(rest) \in Nat
    BY <1>2, FS_CardinalityType
  <1>7. CASE x = c
    BY <1>1, <1>2, <1>3, <1>4, <1>5, <1>6, <1>7
  <1>8. CASE x # c
    BY <1>1, <1>2, <1>3, <1>4, <1>6, <1>8
  <1> QED  BY <1>7, <1>8

\* As long as the connections of the workers stay the same, so do the holders.
LEMMA HoldersSame ==
  ASSUME NEW c, \A w \in Worker : worker'[w].conn = worker[w].conn
  PROVE  Holders(c)' = Holders(c)
  BY DEF Holders

\* The hands that c is in, in terms of the above.
LEMMA HandsIs ==
  ASSUME NEW c
  PROVE  Hands(c) = Cardinality(At(backlog, c))
                    + (IF main.pc = "put" /\ main.conn = c THEN 1 ELSE 0)
                    + Cardinality(At(request_queue, c)) + Cardinality(Holders(c))
  BY DEF Hands, At, Holders

LEMMA HandsIsNext ==
  ASSUME NEW c
  PROVE  Hands(c)' = Cardinality(At(backlog', c))
                     + (IF main'.pc = "put" /\ main'.conn = c THEN 1 ELSE 0)
                     + Cardinality(At(request_queue', c)) + Cardinality(Holders(c)')
  BY DEF Hands, At, Holders

\* The counts are naturals.
LEMMA PartsNat ==
  ASSUME TypeOK, NEW c
  PROVE  /\ Cardinality(At(backlog, c)) \in Nat
         /\ Cardinality(At(request_queue, c)) \in Nat
         /\ Cardinality(Holders(c)) \in Nat
         /\ Hands(c) \in Nat
  <1>1. /\ Cardinality(At(backlog, c)) \in Nat
        /\ Cardinality(At(request_queue, c)) \in Nat
        /\ Cardinality(Holders(c)) \in Nat
    BY AtFinite, HoldersFinite DEF TypeOK
  <1> QED  BY <1>1, HandsIs

\* No hand has c exactly if each of these sets is empty.
LEMMA NoHand ==
  ASSUME TypeOK, NEW c, Hands(c) = 0
  PROVE  /\ At(backlog, c) = {} /\ At(request_queue, c) = {} /\ Holders(c) = {}
         /\ ~(main.pc = "put" /\ main.conn = c)
  <1>1. /\ Cardinality(At(backlog, c)) = 0 /\ Cardinality(At(request_queue, c)) = 0
        /\ Cardinality(Holders(c)) = 0
        /\ ~(main.pc = "put" /\ main.conn = c)
    BY HandsIs, PartsNat
  <1>2. /\ IsFiniteSet(At(backlog, c)) /\ IsFiniteSet(At(request_queue, c))
        /\ IsFiniteSet(Holders(c))
    BY AtFinite, HoldersFinite DEF TypeOK
  <1> QED  BY <1>1, <1>2, FS_EmptySet

\* What is still referred to and in no hand is what run still refers to.
LEMMA StillReferredByRun ==
  ASSUME NEW c, request_queue' \in Seq(Conn), backlog' \in Seq(Conn),
         StillReferred(c), Hands(c)' = 0
  PROVE  main'.conn = c
  <1>1. /\ IsFiniteSet(At(request_queue', c)) /\ Cardinality(At(request_queue', c)) \in Nat
        /\ Cardinality(At(backlog', c)) \in Nat
        /\ IsFiniteSet(Holders(c)') /\ Cardinality(Holders(c)') \in Nat
    <2>1. Holders(c)' \subseteq Worker
      BY DEF Holders
    <2> QED  BY <2>1, AtFinite, HoldersFinite, ServerAssumption, FS_Subset
  <1>2. Cardinality(At(request_queue', c)) = 0 /\ Cardinality(Holders(c)') = 0
    BY <1>1, HandsIsNext
  <1>3. At(request_queue', c) = {} /\ Holders(c)' = {}
    BY <1>1, <1>2, FS_EmptySet
  <1> QED  BY <1>3 DEF StillReferred, At, Holders

\* A connection that a worker has is in no other hand, and it is open.
LEMMA HeldByOne ==
  ASSUME IInv, NEW w \in Worker, worker[w].conn # NoConn
  PROVE  /\ worker[w].conn \in Conn
         /\ Open(worker[w].conn)
         /\ Hands(worker[w].conn) = 1
         /\ ~(main.pc = "put" /\ main.conn = worker[w].conn)
         /\ \A u \in Worker \ {w} : worker[u].conn # worker[w].conn
  <1> DEFINE c == worker[w].conn
  <1>1. c \in Conn
    BY DEF IInv, TypeOK
  <1>2. w \in Holders(c) /\ IsFiniteSet(Holders(c)) /\ Cardinality(Holders(c)) \in Nat
    BY HoldersFinite DEF Holders
  <1>3. Cardinality(Holders(c)) # 0
    BY <1>2, FS_EmptySet
  <1>4. Hands(c) \in Nat /\ Hands(c) <= 1 /\ (Hands(c) = 1 => Open(c))
    BY <1>1, PartsNat DEF IInv, OnePlace
  <1>5. /\ Cardinality(Holders(c)) = 1 /\ Hands(c) = 1
        /\ ~(main.pc = "put" /\ main.conn = c)
    <2> HIDE DEF c
    <2> QED  BY <1>2, <1>3, <1>4, HandsIs, PartsNat DEF IInv
  <1>6. \E x : Holders(c) = {x}
    BY <1>2, <1>5, FS_Singleton
  <1> QED  BY <1>1, <1>2, <1>4, <1>5, <1>6 DEF Holders

\* A connection that is not open is nowhere in the server.
LEMMA ClosedIsNowhere ==
  ASSUME IInv, NEW c \in Conn, ~Open(c)
  PROVE  Hands(c) = 0 /\ main.conn # c /\ \A w \in Worker : worker[w].conn # c
  <1>1. Hands(c) = 0
    BY PartsNat DEF IInv, OnePlace
  <1>2. main.conn # c
    BY ServerAssumption DEF IInv, HandsOK
  <1> QED  BY <1>1, <1>2, NoHand DEF IInv, Holders

-----------------------------------------------------------------------------
(* Letting go of a connection *)

\* Only y changes, and only if nothing refers to it any more.
LEMMA LetGoFrame ==
  ASSUME TypeOK, NEW y \in Conn \cup {NoConn}, LetGo(y)
  PROVE  /\ conn' \in [Conn -> ConnType]
         /\ \A d \in Conn : d # y \/ StillReferred(d) => conn'[d] = conn[d]
         /\ \A d \in Conn : d = y /\ ~StillReferred(d) =>
              /\ conn'[d].st \in {"new", "dropped"}
              /\ conn'[d].st = "dropped" => conn'[d].kind = conn[d].kind
  <1>1. CASE y = NoConn \/ StillReferred(y)
    BY <1>1, ServerAssumption DEF LetGo, TypeOK, ConnType
  <1>2. CASE y # NoConn /\ ~StillReferred(y)
    <2>1. y \in Conn
      BY <1>2
    <2> DEFINE v == IF conn[y].st = "gone" THEN Closed
                    ELSE [st |-> "dropped", kind |-> conn[y].kind, about |-> NoConn]
    <2>2. conn' = [conn EXCEPT ![y] = v]
      BY <1>2 DEF LetGo, Close
    <2>3. /\ v \in ConnType
          /\ v.st \in {"new", "dropped"}
          /\ v.st = "dropped" => v.kind = conn[y].kind
      BY <2>1 DEF Closed, Kind, TypeOK, ConnType
    <2>4. conn \in [Conn -> ConnType]
      BY DEF TypeOK, ConnType
    <2> HIDE DEF v
    <2> QED  BY <1>2, <2>1, <2>2, <2>3, <2>4
  <1> QED  BY <1>1, <1>2

\* What is needed of the hands after a step that lets y go.
LEMMA LetGoOnePlace ==
  ASSUME IInv, NEW y \in Conn \cup {NoConn}, LetGo(y),
         \A d \in Conn :
           /\ Hands(d)' \in Nat /\ Hands(d)' <= 1
           /\ Hands(d)' = 1 => Open(d) /\ (d # y \/ StillReferred(d))
           /\ Open(d) /\ Hands(d)' = 0 /\ (d # y \/ StillReferred(d))
                => main'.conn = d /\ conn[d].kind \in Malformed
           /\ d = y /\ ~StillReferred(d) => conn[d].kind \in Malformed
  PROVE  OnePlace'
  <1> SUFFICES ASSUME NEW d \in Conn
               PROVE  /\ Hands(d)' <= 1
                      /\ Hands(d)' = 1 => Open(d)'
                      /\ Open(d)' /\ Hands(d)' = 0
                           => main'.conn = d /\ conn'[d].kind \in Malformed
                      /\ conn'[d].st = "dropped" => conn'[d].kind \in Malformed
                      /\ conn'[d].st = "answered" /\ conn'[d].kind = "call"
                           => conn'[d].about = d
    BY DEF OnePlace, Malformed
  <1>1. CASE d # y \/ StillReferred(d)
    <2>1. conn'[d] = conn[d]
      BY <1>1, LetGoFrame DEF IInv
    <2> QED  BY <1>1, <2>1 DEF IInv, OnePlace, Open
  <1>2. CASE d = y /\ ~StillReferred(d)
    <2>1. /\ conn'[d].st \in {"new", "dropped"}
          /\ conn'[d].st = "dropped" => conn'[d].kind = conn[d].kind
      BY <1>2, LetGoFrame DEF IInv
    <2> QED  BY <1>2, <2>1 DEF Open
  <1> QED  BY <1>1, <1>2

\* A worker that lets its connection go: one hand less for this one.
LEMMA WorkerLetsGo ==
  ASSUME IInv, NEW w \in Worker, worker[w].pc \in {"get", "exit"},
         LetGo(worker[w].conn), UNCHANGED <<main, backlog>>,
         request_queue' \in Seq(Conn),
         \A d \in Conn : /\ Hands(d)' \in Nat
                         /\ Hands(d)' + (IF worker[w].conn = d THEN 1 ELSE 0) = Hands(d)
  PROVE  OnePlace'
  <1> DEFINE y == worker[w].conn
  <1>1. y \in Conn \cup {NoConn}
    BY DEF IInv, TypeOK
  <1>2. y \in Conn => conn[y].kind \in Malformed
    BY ServerAssumption DEF IInv, HandsOK
  <1>3. ASSUME NEW d \in Conn
        PROVE  /\ Hands(d)' \in Nat /\ Hands(d)' <= 1
               /\ Hands(d)' = 1 => Open(d) /\ d # y
               /\ Open(d) /\ Hands(d)' = 0 /\ (d # y \/ StillReferred(d))
                    => main'.conn = d /\ conn[d].kind \in Malformed
    <2>1. /\ Hands(d) \in Nat /\ Hands(d) <= 1 /\ (Hands(d) = 1 => Open(d))
          /\ Open(d) /\ Hands(d) = 0 => main.conn = d /\ conn[d].kind \in Malformed
      BY PartsNat DEF IInv, OnePlace
    <2>2. backlog' \in Seq(Conn)
      BY DEF IInv, TypeOK
    <2>3. StillReferred(d) /\ Hands(d)' = 0 => main'.conn = d
      BY <2>2, StillReferredByRun
    <2>4. CASE y = d
      BY <1>2, <1>3, <2>1, <2>3, <2>4
    <2>5. CASE y # d
      BY <1>3, <2>1, <2>5
    <2> QED  BY <2>4, <2>5
  <1> HIDE DEF y
  <1> QED  BY <1>1, <1>2, <1>3, LetGoOnePlace DEF y

\* The hands of the threads after such a step: who is still referred to is as
\* it was.
LEMMA StillInHand ==
  ASSUME IInv, NEW y \in Conn \cup {NoConn}, LetGo(y), NEW w \in Worker,
         worker' \in [Worker -> WorkerType],
         \A u \in Worker \ {w} : worker'[u] = worker[u],
         main' \in [pc : {"accept", "put", "start"}, conn : Conn \cup {NoConn}]
  PROVE  /\ \A u \in Worker \ {w} : worker[u].conn # NoConn
              => conn'[worker[u].conn] = conn[worker[u].conn]
         /\ main'.conn # NoConn => conn'[main'.conn] = conn[main'.conn]
  <1>1. \A u \in Worker \ {w} : worker[u].conn # NoConn
          => worker[u].conn \in Conn /\ StillReferred(worker[u].conn)
    BY DEF StillReferred, IInv, TypeOK
  <1>2. main'.conn # NoConn => main'.conn \in Conn /\ StillReferred(main'.conn)
    BY DEF StillReferred
  <1> QED  BY <1>1, <1>2, LetGoFrame DEF IInv

-----------------------------------------------------------------------------
(* The actions *)

LEMMA InitIInv == Init => IInv
  <1> SUFFICES ASSUME Init PROVE IInv
    OBVIOUS
  <1>1. Alive = {} /\ \A c \in Conn : Holders(c) = {}
    BY ServerAssumption DEF Init, Alive, NoWorker, Holders
  <1>2. \A c \in Conn : At(backlog, c) = {} /\ At(request_queue, c) = {}
    BY DEF Init, At
  <1>3. TypeOK
    <2>1. Cardinality(Alive) <= max_worker_count
      BY <1>1, FS_EmptySet, ServerAssumption
    <2>2. Len(request_queue) <= request_queue_size
      BY ServerAssumption DEF Init
    <2> QED  BY <2>1, <2>2 DEF Init, TypeOK, Alive, NoWorker, Closed, Kind
  <1>4. HandsOK
    BY DEF Init, HandsOK, NoWorker
  <1>5. OnePlace
    <2> SUFFICES ASSUME NEW c \in Conn
                 PROVE  Hands(c) = 0 /\ conn[c].st = "new"
      BY DEF OnePlace, Open
    <2>1. Hands(c) = Cardinality({}) + 0 + Cardinality({}) + Cardinality({})
      BY <1>1, <1>2, HandsIs DEF Init
    <2>2. Hands(c) = 0
      BY <2>1, FS_EmptySet
    <2> QED  BY <2>2 DEF Init, Closed
  <1> QED  BY <1>3, <1>4, <1>5 DEF IInv

\* A new connection was nowhere, and is in the backlog.
LEMMA ConnectIInv ==
  ASSUME IInv, NEW c \in Conn, Connect(c)
  PROVE  IInv'
  <1> USE DEF IInv
  <1>0. /\ ~Open(c) /\ UNCHANGED <<main, request_queue, worker, internal>>
        /\ conn'[c].st = "waiting" /\ conn'[c].kind = "silent"
        /\ \A d \in Conn \ {c} : conn'[d] = conn[d]
        /\ conn' \in [Conn -> ConnType]
    BY ServerAssumption DEF Connect, TypeOK, ConnType
  <1>1. TypeOK'
    BY <1>0, AppendProperties DEF TypeOK, Connect, ConnType
  <1>2. HandsOK'
    <2>1. main.conn # c /\ \A w \in Worker : worker[w].conn # c
      BY <1>0, ClosedIsNowhere
    <2>2. \A i \in DOMAIN backlog' : backlog'[i] # main.conn
      BY <2>1, AppendProperties, LenProperties DEF Connect, HandsOK, TypeOK
    <2>3. \A w \in Worker : worker[w].conn # NoConn => conn'[worker[w].conn] = conn[worker[w].conn]
      BY <1>0, <2>1 DEF TypeOK
    <2>4. main.conn # NoConn => conn'[main.conn] = conn[main.conn]
      BY <1>0, <2>1 DEF TypeOK
    <2> QED  BY <1>0, <2>2, <2>3, <2>4 DEF HandsOK, Open
  <1>3. OnePlace'
    <2> SUFFICES ASSUME NEW d \in Conn
                 PROVE  /\ Hands(d)' <= 1
                        /\ Hands(d)' = 1 => Open(d)'
                        /\ Open(d)' /\ Hands(d)' = 0
                             => main'.conn = d /\ conn'[d].kind \in Malformed
                        /\ conn'[d].st = "dropped" => conn'[d].kind \in Malformed
                        /\ conn'[d].st = "answered" /\ conn'[d].kind = "call"
                             => conn'[d].about = d
      BY DEF OnePlace, Malformed
    <2>1. Cardinality(At(backlog', d)) = Cardinality(At(backlog, d)) + (IF c = d THEN 1 ELSE 0)
      BY AtAppend DEF Connect, TypeOK
    <2>2. Holders(d)' = Holders(d)
      BY <1>0, HoldersSame
    <2>3. Hands(d)' = Hands(d) + (IF c = d THEN 1 ELSE 0)
      BY <1>0, <2>1, <2>2, HandsIsNext, HandsIs, PartsNat
    <2>4. CASE c = d
      <3>1. Hands(d) = 0
        BY <1>0, <2>4, ClosedIsNowhere
      <3> QED  BY <1>0, <2>3, <2>4, <3>1 DEF Open
    <2>5. CASE c # d
      <3>1. Hands(d)' = Hands(d) /\ conn'[d] = conn[d] /\ main' = main
        BY <1>0, <2>3, <2>5, PartsNat
      <3> QED  BY <3>1 DEF OnePlace, Open
    <2> QED  BY <2>4, <2>5
  <1> QED  BY <1>1, <1>2, <1>3

\* A client speaks, or gives up: the hands stay the same, and a malformed
\* request stays malformed.
LEMMA ClientIInv ==
  ASSUME IInv, NEW c \in Conn, GiveUp(c) \/ \E k \in Sends : Request(c, k)
  PROVE  IInv'
  <1> USE DEF IInv
  <1>1. /\ conn' \in [Conn -> ConnType]
        /\ \A d \in Conn \ {c} : conn'[d] = conn[d]
        /\ Open(c) /\ conn'[c].st \in {"waiting", "gone"}
        /\ conn'[c].kind # "silent"
        /\ conn[c].kind # "silent" => conn'[c].kind = conn[c].kind
        /\ UNCHANGED <<backlog, main, request_queue, worker, internal>>
    <2>0. conn \in [Conn -> ConnType] /\ conn[c] \in ConnType
      BY DEF TypeOK, ConnType
    <2>1. CASE GiveUp(c)
      <3> DEFINE k == IF conn[c].kind = "silent" THEN "nothing" ELSE conn[c].kind
      <3>1. conn' = [conn EXCEPT ![c].st = "gone", ![c].kind = k]
        BY <2>1 DEF GiveUp
      <3>2. k \in Kind /\ k # "silent" /\ (conn[c].kind # "silent" => k = conn[c].kind)
        BY <2>0 DEF ConnType, Kind
      <3> HIDE DEF k
      <3>3. /\ conn'[c] = [conn[c] EXCEPT !.st = "gone", !.kind = k]
            /\ \A d \in Conn \ {c} : conn'[d] = conn[d]
            /\ conn' \in [Conn -> ConnType]
        BY ZenonT(60), <2>0, <3>1, <3>2 DEF ConnType
      <3>4. conn'[c].st = "gone" /\ conn'[c].kind = k
        BY <2>0, <3>3 DEF ConnType
      <3> QED  BY <2>1, <3>2, <3>3, <3>4 DEF GiveUp, Open
    <2>2. CASE \E k \in Sends : Request(c, k)
      <3> PICK k \in Sends : Request(c, k)
        BY <2>2
      <3>1. k \in Kind /\ k # "silent"
        BY ServerAssumption DEF Kind
      <3>2. /\ conn' = [conn EXCEPT ![c].kind = k]
            /\ conn[c].st = "waiting" /\ conn[c].kind = "silent"
            /\ UNCHANGED <<backlog, main, request_queue, worker, internal>>
        BY DEF Request
      <3>3. /\ conn'[c].kind = k /\ conn'[c].st = "waiting"
            /\ \A d \in Conn \ {c} : conn'[d] = conn[d]
            /\ conn' \in [Conn -> ConnType]
        BY <2>0, <3>1, <3>2 DEF ConnType
      <3> QED  BY <3>1, <3>2, <3>3 DEF Open
    <2> QED  BY <2>1, <2>2
  <1>2. \A d \in Conn : /\ Open(d)' <=> Open(d)
                        /\ conn[d].kind # "silent" => conn'[d].kind = conn[d].kind
                        /\ conn'[d].st \in {"dropped", "answered"} => conn'[d] = conn[d]
    BY <1>1 DEF Open
  <1>3. TypeOK'
    BY <1>1 DEF TypeOK, ConnType
  <1>4. HandsOK'
    <2>1. main.conn # NoConn => conn'[main.conn].st \in {"waiting", "gone"}
      <3>1. main.conn # NoConn => main.conn \in Conn /\ Open(main.conn)
        BY DEF HandsOK, TypeOK
      <3> QED  BY <1>2, <3>1 DEF Open
    <2>2. ASSUME NEW w \in Worker
          PROVE  /\ worker[w].conn # NoConn /\ worker[w].pc \in {"get", "exit"}
                      => conn'[worker[w].conn].kind \in Malformed
                 /\ worker[w].pc = "send"
                      => /\ conn'[worker[w].conn].kind # "silent"
                         /\ conn'[worker[w].conn].kind = "call" => worker[w].results = "own"
      <3>1. worker[w].conn # NoConn => worker[w].conn \in Conn
        BY DEF TypeOK
      <3>2. CASE worker[w].conn # NoConn /\ worker[w].pc \in {"get", "exit"}
        BY <1>2, <3>1, <3>2 DEF HandsOK, Malformed
      <3>3. CASE worker[w].pc = "send"
        BY <1>2, <3>1, <3>3 DEF HandsOK
      <3> QED  BY <3>2, <3>3
    <2> QED  BY <1>1, <2>1, <2>2 DEF HandsOK, Malformed, Open
  <1>5. OnePlace'
    <2> SUFFICES ASSUME NEW d \in Conn
                 PROVE  /\ Hands(d)' <= 1
                        /\ Hands(d)' = 1 => Open(d)'
                        /\ Open(d)' /\ Hands(d)' = 0
                             => main'.conn = d /\ conn'[d].kind \in Malformed
                        /\ conn'[d].st = "dropped" => conn'[d].kind \in Malformed
                        /\ conn'[d].st = "answered" /\ conn'[d].kind = "call"
                             => conn'[d].about = d
      BY DEF OnePlace, Malformed
    <2> DEFINE n == Hands(d)
    <2>1. Hands(d)' = n /\ main' = main
      BY <1>1 DEF Hands
    <2>2. /\ n <= 1 /\ (n = 1 => Open(d))
          /\ Open(d) /\ n = 0 => main.conn = d /\ conn[d].kind \in Malformed
      BY DEF OnePlace
    <2> HIDE DEF n
    <2>3. n <= 1 /\ (n = 1 => Open(d)')
      BY <1>2, <2>2
    <2>4. Open(d)' /\ n = 0 => main'.conn = d /\ conn'[d].kind \in Malformed
      BY <1>2, <2>1, <2>2 DEF Malformed
    <2>5. /\ conn'[d].st = "dropped" => conn'[d].kind \in Malformed
          /\ conn'[d].st = "answered" /\ conn'[d].kind = "call" => conn'[d].about = d
      BY <1>2 DEF OnePlace
    <2> QED  BY <2>1, <2>3, <2>4, <2>5
  <1> QED  BY <1>3, <1>4, <1>5

\* From the backlog into the hand of the main thread, whose variable referred
\* to another connection.
LEMMA AcceptIInv ==
  ASSUME IInv, Accept
  PROVE  IInv'
  <1> USE DEF IInv
  <1> DEFINE h == Head(backlog)
             y == main.conn
  <1>0. /\ h \in Conn /\ backlog' \in Seq(Conn) /\ y \in Conn \cup {NoConn}
        /\ main'.pc = "put" /\ main'.conn = h /\ main.pc = "accept"
        /\ main' \in [pc : {"accept", "put", "start"}, conn : Conn \cup {NoConn}]
        /\ UNCHANGED <<request_queue, worker, internal>>
        /\ LetGo(y)
    BY HeadTailProperties DEF TypeOK, Accept
  <1>1. TypeOK'
    BY <1>0, LetGoFrame DEF TypeOK, ConnType
  <1>2. \A d \in Conn : Cardinality(At(backlog, d))
            = Cardinality(At(backlog', d)) + (IF h = d THEN 1 ELSE 0)
    BY AtTail DEF Accept, TypeOK
  <1>3. \A d \in Conn : Holders(d)' = Holders(d)
    BY <1>0, HoldersSame
  <1>4. \A d \in Conn : Cardinality(At(backlog', d)) \in Nat /\ IsFiniteSet(At(backlog', d))
    BY <1>0, AtFinite
  <1> HIDE DEF h, y
  <1>5. ASSUME NEW d \in Conn PROVE Hands(d)' = Hands(d) /\ Hands(d) \in Nat
    <2>1. Hands(d) = Cardinality(At(backlog, d)) + 0
                     + Cardinality(At(request_queue, d)) + Cardinality(Holders(d))
      BY <1>0, HandsIs
    <2>2. Hands(d)' = Cardinality(At(backlog', d)) + (IF h = d THEN 1 ELSE 0)
                      + Cardinality(At(request_queue, d)) + Cardinality(Holders(d))
      BY <1>0, <1>3, HandsIsNext
    <2> QED  BY <1>2, <1>4, <2>1, <2>2, PartsNat
  <1>6. Hands(h) = 1 /\ Open(h) /\ At(backlog', h) = {}
    <2>1. Hands(h) <= 1 /\ Hands(h) \in Nat
      BY <1>0, <1>5 DEF OnePlace
    <2>2. Hands(h) = 1 /\ Cardinality(At(backlog', h)) = 0
      BY <1>0, <1>2, <1>4, <2>1, HandsIs, PartsNat
    <2> QED  BY <1>0, <1>4, <2>2, FS_EmptySet DEF OnePlace
  <1>7. OnePlace'
    <2>1. ASSUME NEW d \in Conn
          PROVE  /\ Hands(d)' \in Nat /\ Hands(d)' <= 1
                 /\ Hands(d)' = 1 => Open(d) /\ (d # y \/ StillReferred(d))
                 /\ Open(d) /\ Hands(d)' = 0 /\ (d # y \/ StillReferred(d))
                      => main'.conn = d /\ conn[d].kind \in Malformed
                 /\ d = y /\ ~StillReferred(d) => conn[d].kind \in Malformed
      <3>1. /\ Hands(d) <= 1 /\ (Hands(d) = 1 => Open(d))
            /\ Open(d) /\ Hands(d) = 0 => y = d /\ conn[d].kind \in Malformed
        BY DEF OnePlace, y
      <3>2. StillReferred(d) /\ Hands(d)' = 0 => main'.conn = d
        BY <1>0, StillReferredByRun DEF TypeOK
      <3>3. d = y => Open(d)
        BY ServerAssumption DEF HandsOK, y
      <3>4. ASSUME d = y, Hands(d) = 1 PROVE StillReferred(d)
        <4>1. At(backlog, d) = {}
          BY <3>4 DEF HandsOK, At, y
        <4>2. At(request_queue, d) # {} \/ Holders(d) # {}
          <5>1. SUFFICES ASSUME At(request_queue, d) = {}, Holders(d) = {} PROVE FALSE
            OBVIOUS
          <5>2. Hands(d) = Cardinality({}) + 0 + Cardinality({}) + Cardinality({})
            BY <1>0, <4>1, <5>1, HandsIs
          <5> QED  BY <3>4, <5>2, FS_EmptySet
        <4> QED  BY <1>0, <4>2 DEF StillReferred, At, Holders
      <3> QED  BY <1>5, <3>1, <3>2, <3>3, <3>4
    <2> QED  BY <1>0, <2>1, LetGoOnePlace
  <1>8. HandsOK'
    <2>1. conn'[h] = conn[h]
      BY <1>0, LetGoFrame DEF StillReferred
    <2>2. \A u \in Worker : worker[u].conn # NoConn
            => conn'[worker[u].conn] = conn[worker[u].conn]
      BY <1>0, LetGoFrame DEF StillReferred, TypeOK
    <2>3. \A i \in DOMAIN backlog' : backlog'[i] # h
      BY <1>6 DEF At
    <2>4. h # NoConn /\ conn'[h].st \in {"waiting", "gone"}
      BY <1>0, <1>6, <2>1, ServerAssumption DEF Open
    <2>5. /\ main'.conn # NoConn /\ conn'[main'.conn].st \in {"waiting", "gone"}
          /\ \A i \in DOMAIN backlog' : backlog'[i] # main'.conn
      BY <1>0, <2>3, <2>4
    <2> QED  BY <1>0, <2>2, <2>5 DEF HandsOK, Open
  <1> QED  BY <1>1, <1>7, <1>8

\* From the hand of the main thread into the queue, which has a slot; the
\* variable of run stays as it is.
LEMMA PutIInv ==
  ASSUME IInv, Put
  PROVE  IInv'
  <1> USE DEF IInv
  <1>0. /\ main.conn \in Conn /\ main.pc = "put"
        /\ main'.pc = "start" /\ main'.conn = main.conn
        /\ main' \in [pc : {"accept", "put", "start"}, conn : Conn \cup {NoConn}]
        /\ UNCHANGED <<conn, backlog, worker, internal>>
    BY DEF TypeOK, HandsOK, Put
  <1>1. TypeOK'
    BY <1>0, AppendProperties, LenProperties, ServerAssumption DEF TypeOK, Put
  <1>2. HandsOK'
    BY <1>0 DEF HandsOK, Open
  <1>3. OnePlace'
    <2> SUFFICES ASSUME NEW d \in Conn
                 PROVE  Hands(d)' = Hands(d)
      BY <1>0 DEF OnePlace, Open
    <2>1. Cardinality(At(request_queue', d))
            = Cardinality(At(request_queue, d)) + (IF main.conn = d THEN 1 ELSE 0)
      BY <1>0, AtAppend DEF Put, TypeOK
    <2>2. Holders(d)' = Holders(d)
      BY <1>0, HoldersSame
    <2> QED  BY <1>0, <2>1, <2>2, HandsIs, HandsIsNext, PartsNat
  <1> QED  BY <1>1, <1>2, <1>3

\* A worker is started if that does not make one too many.
LEMMA StartWorkerIInv ==
  ASSUME IInv, StartWorker
  PROVE  IInv'
  <1> USE DEF IInv
  <1>0. /\ main.pc = "start" /\ main'.pc = "accept" /\ main'.conn = main.conn
        /\ main' \in [pc : {"accept", "put", "start"}, conn : Conn \cup {NoConn}]
        /\ UNCHANGED <<conn, backlog, request_queue, internal>>
    BY DEF StartWorker, TypeOK
  <1>1. \A w \in Worker : worker'[w].conn = worker[w].conn
    BY DEF StartWorker, TypeOK
  <1>2. Cardinality(Alive') <= max_worker_count
    <2>1. CASE UNCHANGED worker
      BY <2>1 DEF Alive, TypeOK
    <2>2. CASE 1 + Cardinality(Alive) <= max_worker_count
               /\ \E w \in Worker \ Alive : worker' = [worker EXCEPT ![w].pc = "get"]
      <3> PICK w \in Worker \ Alive : worker' = [worker EXCEPT ![w].pc = "get"]
        BY <2>2
      <3>1. Alive' = Alive \cup {w}
        BY DEF Alive, TypeOK
      <3>2. Cardinality(Alive') = Cardinality(Alive) + 1
        BY <3>1, AliveFinite, FS_AddElement
      <3> QED  BY <2>2, <3>2, AliveFinite, ServerAssumption
    <2> QED  BY <2>1, <2>2 DEF StartWorker
  <1>3. TypeOK'
    <2>1. worker' \in [Worker -> WorkerType]
      <3>1. CASE \E w \in Worker : worker' = [worker EXCEPT ![w].pc = "get"]
        <4> PICK w \in Worker : worker' = [worker EXCEPT ![w].pc = "get"]
          BY <3>1
        <4> QED  BY DEF TypeOK, WorkerType
      <3>2. CASE UNCHANGED worker
        BY <3>2 DEF TypeOK, WorkerType
      <3> QED  BY <3>1, <3>2 DEF StartWorker
    <2> QED  BY <1>0, <1>2, <2>1 DEF TypeOK, Alive, WorkerType
  <1>4. HandsOK'
    <2>1. ASSUME NEW w \in Worker
          PROVE  \/ worker'[w] = worker[w]
                 \/ worker[w].pc = "none" /\ worker'[w].pc = "get"
      <3>1. CASE \E u \in Worker \ Alive : worker' = [worker EXCEPT ![u].pc = "get"]
        <4> PICK u \in Worker \ Alive : worker' = [worker EXCEPT ![u].pc = "get"]
          BY <3>1
        <4> QED  BY DEF TypeOK, Alive
      <3> QED  BY <3>1 DEF StartWorker
    <2> QED  BY <1>0, <1>1, <2>1 DEF HandsOK, Open
  <1>5. OnePlace'
    <2> SUFFICES ASSUME NEW d \in Conn
                 PROVE  Hands(d)' = Hands(d)
      BY <1>0 DEF OnePlace, Open
    <2>1. Holders(d)' = Holders(d)
      BY <1>1, HoldersSame
    <2> QED  BY <1>0, <2>1, HandsIs, HandsIsNext, PartsNat
  <1> QED  BY <1>3, <1>4, <1>5

\* A worker that is already there keeps its place among the living.
LEMMA AliveSame ==
  ASSUME TypeOK, NEW w \in Worker, w \in Alive, worker'[w].pc # "none",
         \A u \in Worker \ {w} : worker'[u] = worker[u]
  PROVE  Alive' = Alive
  BY DEF Alive

\* From the queue into the hand of a worker, which lets go what it had.
LEMMA GetIInv ==
  ASSUME IInv, NEW w \in Worker, Get(w)
  PROVE  IInv'
  <1> USE DEF IInv
  <1> DEFINE x == Head(request_queue)
  <1>0. x \in Conn /\ request_queue' \in Seq(Conn)
        /\ Len(request_queue') = Len(request_queue) - 1
        /\ Len(request_queue) \in Nat
    BY HeadTailProperties, LenProperties DEF TypeOK, Get
  <1>1. /\ LetGo(worker[w].conn) /\ worker[w].conn \in Conn \cup {NoConn}
        /\ worker[w].pc = "get" /\ UNCHANGED <<backlog, main, internal>>
    BY DEF Get, TypeOK
  <1>2. /\ worker' \in [Worker -> WorkerType]
        /\ worker'[w].conn = x /\ worker'[w].pc = "serve"
        /\ \A u \in Worker \ {w} : worker'[u] = worker[u]
    <2> HIDE DEF x
    <2> QED  BY ZenonT(60), <1>0 DEF Get, TypeOK, x, WorkerType
  <1>3. Alive' = Alive
    BY <1>2, AliveSame DEF Get, Alive
  <1>4. TypeOK'
    <2>1. Cardinality(Alive') <= max_worker_count
      BY <1>3 DEF TypeOK, Alive
    <2>2. Len(request_queue') <= request_queue_size
      BY <1>0, ServerAssumption DEF TypeOK
    <2>3. conn' \in [Conn -> ConnType]
      BY <1>1, LetGoFrame
    <2> QED  BY <1>0, <1>1, <1>2, <2>1, <2>2, <2>3 DEF TypeOK, Alive, WorkerType, ConnType
  <1>5. HandsOK'
    <2>1. /\ \A u \in Worker \ {w} : worker[u].conn # NoConn
               => conn'[worker[u].conn] = conn[worker[u].conn]
          /\ main.conn # NoConn => conn'[main.conn] = conn[main.conn]
      BY <1>1, <1>2, <1>4, StillInHand DEF TypeOK
    <2>2. x # NoConn
      BY <1>0, ServerAssumption
    <2> QED  BY <1>1, <1>2, <2>1, <2>2 DEF HandsOK, Open
  <1>6. OnePlace'
    <2>1. ASSUME NEW d \in Conn
          PROVE  /\ Hands(d)' + (IF worker[w].conn = d THEN 1 ELSE 0) = Hands(d)
                 /\ Hands(d)' \in Nat
      <3>1. Cardinality(At(request_queue, d))
              = Cardinality(At(request_queue', d)) + (IF x = d THEN 1 ELSE 0)
        BY AtTail DEF Get, TypeOK
      <3>2. Cardinality(Holders(d)') + (IF worker[w].conn = d THEN 1 ELSE 0)
              = Cardinality(Holders(d)) + (IF x = d THEN 1 ELSE 0)
        BY <1>0, <1>2, HoldersChange
      <3>3. /\ Cardinality(At(request_queue', d)) \in Nat
            /\ Cardinality(Holders(d)') \in Nat
        BY HoldersFinite, AtFinite, <1>0
      <3> HIDE DEF x
      <3>4. Hands(d)' = Cardinality(At(backlog, d))
                        + (IF main.pc = "put" /\ main.conn = d THEN 1 ELSE 0)
                        + Cardinality(At(request_queue', d)) + Cardinality(Holders(d)')
        BY <1>1, HandsIsNext
      <3> QED  BY <3>1, <3>2, <3>3, <3>4, HandsIs, PartsNat
    <2> QED  BY <1>0, <1>1, <2>1, WorkerLetsGo
  <1> QED  BY <1>4, <1>5, <1>6

LEMMA ExitIInv ==
  ASSUME IInv, NEW w \in Worker, Exit(w)
  PROVE  IInv'
  <1> USE DEF IInv
  <1>1. /\ LetGo(worker[w].conn) /\ worker[w].conn \in Conn \cup {NoConn}
        /\ worker[w].pc = "exit" /\ UNCHANGED <<backlog, main, request_queue, internal>>
    BY DEF Exit, TypeOK
  <1>2. /\ worker' \in [Worker -> WorkerType]
        /\ worker'[w].conn = NoConn /\ worker'[w].pc = "none"
        /\ \A u \in Worker \ {w} : worker'[u] = worker[u]
    BY DEF Exit, NoWorker, TypeOK, WorkerType
  <1>3. Alive' = Alive \ {w}
    BY DEF Exit, Alive, NoWorker, TypeOK
  <1>4. TypeOK'
    <2>1. Cardinality(Alive) <= max_worker_count
      BY DEF TypeOK, Alive
    <2>2. Cardinality(Alive \ {w}) <= Cardinality(Alive) /\ Cardinality(Alive \ {w}) \in Nat
      BY AliveFinite, FS_Subset, FS_CardinalityType
    <2>3. Cardinality(Alive') <= max_worker_count
      BY <1>3, <2>1, <2>2, AliveFinite, ServerAssumption
    <2>4. conn' \in [Conn -> ConnType]
      BY <1>1, LetGoFrame
    <2> QED  BY <1>1, <1>2, <2>3, <2>4 DEF TypeOK, Alive, WorkerType, ConnType
  <1>5. HandsOK'
    <2>1. /\ \A u \in Worker \ {w} : worker[u].conn # NoConn
               => conn'[worker[u].conn] = conn[worker[u].conn]
          /\ main.conn # NoConn => conn'[main.conn] = conn[main.conn]
      BY <1>1, <1>2, <1>4, StillInHand DEF TypeOK
    <2> QED  BY <1>1, <1>2, <2>1 DEF HandsOK, Open
  <1>6. OnePlace'
    <2>1. ASSUME NEW d \in Conn
          PROVE  /\ Hands(d)' + (IF worker[w].conn = d THEN 1 ELSE 0) = Hands(d)
                 /\ Hands(d)' \in Nat
      <3>1. Cardinality(Holders(d)') + (IF worker[w].conn = d THEN 1 ELSE 0)
              = Cardinality(Holders(d)) + (IF NoConn = d THEN 1 ELSE 0)
        BY <1>2, HoldersChange
      <3>2. NoConn # d /\ Cardinality(Holders(d)') \in Nat
        BY ServerAssumption, HoldersFinite
      <3>3. Hands(d)' = Cardinality(At(backlog, d))
                        + (IF main.pc = "put" /\ main.conn = d THEN 1 ELSE 0)
                        + Cardinality(At(request_queue, d)) + Cardinality(Holders(d)')
        BY <1>1, HandsIsNext
      <3> QED  BY <3>1, <3>2, <3>3, HandsIs, PartsNat
    <2>2. request_queue' \in Seq(Conn)
      BY <1>4 DEF TypeOK
    <2> QED  BY <1>1, <2>1, <2>2, WorkerLetsGo
  <1> QED  BY <1>4, <1>5, <1>6

\* A worker closes its connection, and run no longer refers to it.
LEMMA SendIInv ==
  ASSUME IInv, NEW w \in Worker, Send(w)
  PROVE  IInv'
  <1> USE DEF IInv
  <1> DEFINE c == worker[w].conn
  <1>0. worker[w].pc = "send" /\ c # NoConn
        /\ UNCHANGED <<backlog, request_queue, internal>>
    BY DEF Send, HandsOK
  <1>1. /\ c \in Conn /\ Open(c) /\ Hands(c) = 1
        /\ ~(main.pc = "put" /\ main.conn = c)
        /\ \A u \in Worker \ {w} : worker[u].conn # c
    BY <1>0, HeldByOne
  <1>2. /\ conn' \in [Conn -> ConnType]
        /\ \A d \in Conn \ {c} : conn'[d] = conn[d]
        /\ conn'[c].st \in {"new", "answered", "unsent"}
        /\ conn'[c].st = "answered" /\ conn'[c].kind = "call" => conn'[c].about = c
    <2> DEFINE whose == IF worker[w].results = "own" THEN c ELSE internal
               v1 == IF conn[c].st = "gone" THEN Closed
                     ELSE [st |-> "answered", kind |-> conn[c].kind, about |-> whose]
               v2 == IF conn[c].st = "gone" THEN Closed
                     ELSE [st |-> "unsent", kind |-> conn[c].kind, about |-> NoConn]
    <2>1. \E v \in {v1, v2} : conn' = [conn EXCEPT ![c] = v]
      BY DEF Send, Close
    <2>2. conn[c].kind = "call" => whose = c
      BY <1>0 DEF HandsOK
    <2>3. whose \in Conn \cup {NoConn} /\ conn \in [Conn -> ConnType]
      BY DEF TypeOK, ConnType
    <2> HIDE DEF c, whose
    <2>4. \A v \in {v1, v2} : /\ v \in ConnType
                              /\ v.st \in {"new", "answered", "unsent"}
                              /\ v.st = "answered" /\ v.kind = "call" => v.about = c
      <3>1. CASE conn[c].st = "gone"
        <4>1. v1 = Closed /\ v2 = Closed
          BY <3>1 DEF v1, v2
        <4>2. Closed \in ConnType /\ Closed.st = "new"
          BY DEF Closed, ConnType, Kind
        <4> QED  BY <4>1, <4>2
      <3>2. CASE conn[c].st # "gone"
        <4>1. v1 \in ConnType /\ v2 \in ConnType
          BY <1>1, <2>3, <3>2 DEF ConnType
        <4> QED  BY <2>2, <3>2, <4>1
      <3> QED  BY <3>1, <3>2
    <2> HIDE DEF v1, v2
    <2> QED  BY <1>1, <2>1, <2>3, <2>4
  <1>3. /\ worker' \in [Worker -> WorkerType]
        /\ worker'[w].conn = NoConn /\ worker'[w].pc = "get"
        /\ \A u \in Worker \ {w} : worker'[u] = worker[u]
    BY DEF Send, NoWorker, TypeOK, WorkerType
  <1>4. /\ main' \in [pc : {"accept", "put", "start"}, conn : Conn \cup {NoConn}]
        /\ main'.pc = main.pc
        /\ main.conn # c => main'.conn = main.conn
        /\ main.conn = c => main'.conn = NoConn
    BY DEF Send, TypeOK
  <1>5. Alive' = Alive
    BY <1>0, <1>3, AliveSame DEF Alive
  <1> HIDE DEF c
  <1>6. TypeOK'
    <2>1. Cardinality(Alive') <= max_worker_count
      BY <1>5 DEF TypeOK, Alive
    <2> QED  BY <1>0, <1>2, <1>3, <1>4, <2>1 DEF TypeOK, Alive, WorkerType, ConnType
  <1>7. HandsOK'
    <2>1. \A u \in Worker \ {w} : worker[u].conn # NoConn
            => conn'[worker[u].conn] = conn[worker[u].conn]
      BY <1>1, <1>2 DEF TypeOK
    <2>2. main'.conn # NoConn
            => main'.conn = main.conn /\ conn'[main'.conn].st \in {"waiting", "gone"}
      <3>1. main'.conn # NoConn => main'.conn = main.conn /\ main.conn \in Conn \ {c}
        BY <1>4 DEF TypeOK
      <3> QED  BY <1>2, <3>1 DEF HandsOK, Open
    <2>3. \A i \in DOMAIN backlog : backlog[i] # main'.conn
      <3>1. \A i \in DOMAIN backlog : backlog[i] \in Conn
        BY ElementOfSeq, LenProperties DEF TypeOK
      <3> QED  BY <1>4, <3>1, ServerAssumption DEF HandsOK
    <2>4. main'.pc = "put" => main'.conn # NoConn
      BY <1>1, <1>4 DEF HandsOK
    <2> QED  BY <1>0, <1>3, <2>1, <2>2, <2>3, <2>4 DEF HandsOK, Open
  <1>8. OnePlace'
    <2> SUFFICES ASSUME NEW d \in Conn
                 PROVE  /\ Hands(d)' <= 1
                        /\ Hands(d)' = 1 => Open(d)'
                        /\ Open(d)' /\ Hands(d)' = 0
                             => main'.conn = d /\ conn'[d].kind \in Malformed
                        /\ conn'[d].st = "dropped" => conn'[d].kind \in Malformed
                        /\ conn'[d].st = "answered" /\ conn'[d].kind = "call"
                             => conn'[d].about = d
      BY DEF OnePlace, Malformed
    <2>1. Cardinality(Holders(d)') + (IF c = d THEN 1 ELSE 0)
            = Cardinality(Holders(d)) + (IF NoConn = d THEN 1 ELSE 0)
      BY <1>3, HoldersChange DEF c
    <2>2. NoConn # d /\ Cardinality(Holders(d)') \in Nat
      BY ServerAssumption, HoldersFinite
    <2>3. (main'.pc = "put" /\ main'.conn = d) <=> (main.pc = "put" /\ main.conn = d)
      BY <1>1, <1>4, <2>2
    <2>4. Hands(d)' + (IF c = d THEN 1 ELSE 0) = Hands(d) /\ Hands(d)' \in Nat
      <3>1. Hands(d)' = Cardinality(At(backlog, d))
                        + (IF main.pc = "put" /\ main.conn = d THEN 1 ELSE 0)
                        + Cardinality(At(request_queue, d)) + Cardinality(Holders(d)')
        BY <1>0, <2>3, HandsIsNext
      <3> QED  BY <2>1, <2>2, <3>1, HandsIs, PartsNat
    <2>5. CASE c = d
      <3>1. Hands(d)' = 0
        BY <1>1, <2>4, <2>5
      <3> QED  BY <1>2, <2>5, <3>1 DEF Open
    <2>6. CASE c # d
      <3>1. Hands(d)' = Hands(d) /\ conn'[d] = conn[d]
        BY <1>2, <2>4, <2>6, PartsNat
      <3> QED  BY <1>4, <2>6, <3>1 DEF OnePlace, Open
    <2> QED  BY <2>5, <2>6
  <1> QED  BY <1>6, <1>7, <1>8

\* Only the place in the program of a worker changes: it keeps its connection.
LEMMA WorkerMoves ==
  ASSUME IInv, NEW w \in Worker, w \in Alive,
         worker' \in [Worker -> WorkerType],
         worker'[w].conn = worker[w].conn, worker'[w].pc \in {"get", "send", "exit"},
         worker[w].conn # NoConn /\ worker'[w].pc \in {"get", "exit"}
           => conn[worker[w].conn].kind \in Malformed,
         worker'[w].pc = "send"
           => /\ worker[w].conn # NoConn /\ conn[worker[w].conn].kind # "silent"
              /\ conn[worker[w].conn].kind = "call" => worker'[w].results = "own",
         \A u \in Worker \ {w} : worker'[u] = worker[u],
         internal' \in Conn \cup {NoConn},
         UNCHANGED <<conn, backlog, main, request_queue>>
  PROVE  IInv'
  <1> USE DEF IInv
  <1>1. Alive' = Alive
    BY AliveSame
  <1>2. Cardinality(Alive') <= max_worker_count
    BY <1>1 DEF TypeOK, Alive
  <1>3. TypeOK'
    BY <1>2 DEF TypeOK, Alive, WorkerType
  <1>4. HandsOK'
    BY DEF HandsOK, Open
  <1>5. OnePlace'
    <2> SUFFICES ASSUME NEW d \in Conn
                 PROVE  Hands(d)' = Hands(d)
      BY DEF OnePlace, Open
    <2>1. Holders(d)' = Holders(d)
      BY HoldersSame
    <2> QED  BY <2>1, HandsIs, HandsIsNext
  <1> QED  BY <1>3, <1>4, <1>5

LEMMA EmptyIInv ==
  ASSUME IInv, NEW w \in Worker, Empty(w)
  PROVE  IInv'
  <1>1. worker' \in [Worker -> WorkerType]
    BY DEF Empty, IInv, TypeOK, WorkerType
  <1>2. /\ worker'[w].conn = worker[w].conn /\ worker'[w].pc = "exit"
        /\ \A u \in Worker \ {w} : worker'[u] = worker[u]
    BY DEF Empty, IInv, TypeOK
  <1> QED  BY <1>1, <1>2, WorkerMoves DEF Empty, IInv, TypeOK, HandsOK, Alive

LEMMA ServeIInv ==
  ASSUME IInv, NEW w \in Worker, Serve(w)
  PROVE  IInv'
  <1> DEFINE c == worker[w].conn
  <1>1. c # NoConn /\ c \in Conn /\ w \in Alive
    BY DEF Serve, IInv, TypeOK, HandsOK, Alive
  <1>2. \E p \in {"get", "send"}, r \in {"own", "internal"} :
          /\ \/ worker' = [worker EXCEPT ![w].pc = p, ![w].results = r]
             \/ p = "get" /\ worker' = [worker EXCEPT ![w].pc = p]
          /\ p = "get" => conn[c].kind \in Malformed
          /\ p = "send" => /\ conn[c].kind # "silent"
                           /\ conn[c].kind = "call" => r = "own"
    BY DEF Serve, Malformed
  <1>3. PICK p \in {"get", "send"}, r \in {"own", "internal"} :
          /\ \/ worker' = [worker EXCEPT ![w].pc = p, ![w].results = r]
             \/ p = "get" /\ worker' = [worker EXCEPT ![w].pc = p]
          /\ p = "get" => conn[c].kind \in Malformed
          /\ p = "send" => /\ conn[c].kind # "silent"
                           /\ conn[c].kind = "call" => r = "own"
    BY <1>2
  <1>4. worker' \in [Worker -> WorkerType]
    <2>1. CASE worker' = [worker EXCEPT ![w].pc = p, ![w].results = r]
      BY ZenonT(60), <2>1 DEF IInv, TypeOK, WorkerType
    <2>2. CASE worker' = [worker EXCEPT ![w].pc = p]
      BY <2>2 DEF IInv, TypeOK, WorkerType
    <2> QED  BY <1>3, <2>1, <2>2
  <1>5. /\ worker'[w].conn = c /\ worker'[w].pc = p
        /\ p = "send" => worker'[w].results = r
        /\ \A u \in Worker \ {w} : worker'[u] = worker[u]
    BY <1>3 DEF IInv, TypeOK
  <1>6. internal' \in Conn \cup {NoConn} /\ UNCHANGED <<conn, backlog, main, request_queue>>
    BY <1>1 DEF Serve, IInv, TypeOK
  <1> QED  BY <1>1, <1>3, <1>4, <1>5, <1>6, WorkerMoves

-----------------------------------------------------------------------------
(* The theorems *)

LEMMA NextIInv == IInv /\ [Next]_vars => IInv'
  <1> SUFFICES ASSUME IInv, [Next]_vars PROVE IInv'
    OBVIOUS
  <1>1. CASE UNCHANGED vars
    <2>1. TypeOK' /\ HandsOK'
      BY <1>1 DEF vars, IInv, TypeOK, HandsOK, Open
    <2>2. \A c \in Conn : Hands(c)' = Hands(c)
      BY <1>1 DEF vars, Hands
    <2>3. OnePlace'
      BY <1>1, <2>2 DEF vars, IInv, OnePlace, Open
    <2> QED  BY <2>1, <2>3 DEF IInv
  <1>2. CASE \E c \in Conn : Connect(c) \/ GiveUp(c) \/ \E k \in Sends : Request(c, k)
    BY <1>2, ConnectIInv, ClientIInv
  <1>3. CASE Main
    BY <1>3, AcceptIInv, PutIInv, StartWorkerIInv DEF Main
  <1>4. CASE \E w \in Worker : Work(w)
    BY <1>4, GetIInv, EmptyIInv, ExitIInv, ServeIInv, SendIInv DEF Work
  <1> QED  BY <1>1, <1>2, <1>3, <1>4 DEF Next

(***************************************************************************)
(* The invariant holds in every reachable state.                           *)
(***************************************************************************)
THEOREM ServerInvariant == Spec => []IInv
  BY InitIInv, NextIInv, PTL DEF Spec

(***************************************************************************)
(* The queue never has more than request_queue_size connections, although  *)
(* Put and Get are steps of different threads, and there are never more    *)
(* than max_worker_count workers, although the count is taken, used and    *)
(* outdated by threads that end.                                           *)
(***************************************************************************)
THEOREM Limits == Spec => []TypeOK
  <1>1. IInv => TypeOK
    BY DEF IInv
  <1> QED  BY <1>1, ServerInvariant, PTL

(***************************************************************************)
(* No connection is lost or served twice between the backlog, the main     *)
(* thread, the queue and the workers, also when a socket is closed only    *)
(* because nothing refers to it any more; that happens to malformed        *)
(* requests only, so that for every call sending the results is tried; and *)
(* a call gets its own results.                                            *)
(***************************************************************************)
THEOREM OneHand == Spec => []OnePlace
  <1>1. IInv => OnePlace
    BY DEF IInv
  <1> QED  BY <1>1, ServerInvariant, PTL
==============================================================================
