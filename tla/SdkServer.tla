------------------------------ MODULE SdkServer ------------------------------
(***************************************************************************)
(* SDKServer: the main thread accepts connections and puts them into a     *)
(* bounded queue; worker threads, started as long as there are not too     *)
(* many, take connections from it, serve one request on each and exit when *)
(* the queue is empty.  What the API functions do is left out: a request   *)
(* is one of a few kinds.                                                  *)
(***************************************************************************)
EXTENDS Naturals, Sequences, FiniteSets

CONSTANTS Conn,    \* connections; one that is closed may be opened again
          NoConn,
          Worker,  \* worker threads; one that ended may be started again
          Sends,   \* kinds of requests, a subset of Kind
          request_queue_size,
          max_worker_count

(***************************************************************************)
(* What a client sends:                                                    *)
(* "call"        a call that returns or raises an exception with results   *)
(* "raises"      one that raises another exception, or cannot be decoded   *)
(* "nothing"     it fails or quits before it has sent anything             *)
(* "wrong form"  not a list of three                                       *)
(* "wrong name"  a call of a function that is not in the API               *)
(***************************************************************************)
Kind == {"call", "raises", "nothing", "wrong form", "wrong name"}

\* The kinds on which serve_API returns before there is anything to send.
Malformed == {"nothing", "wrong form", "wrong name"}

ASSUME ServerAssumption ==
  /\ NoConn \notin Conn
  /\ IsFiniteSet(Worker)
  /\ Sends \subseteq Kind
  /\ request_queue_size \in Nat
  /\ max_worker_count \in Nat

VARIABLES conn,           \* connection -> how it stands with its client
          backlog,        \* connections that are not accepted yet
          main,           \* the main thread
          request_queue,
          worker,         \* worker thread -> where it is
          internal        \* whose error is in returncode.errors['internal']

vars == <<conn, backlog, main, request_queue, worker, internal>>

(***************************************************************************)
(* A client that waits is "waiting"; one that has given up is "gone", and  *)
(* the server does not know.  The kind is "silent" until it has sent       *)
(* something.  A connection that the server closed is "answered", and      *)
(* about is whose results were sent; "unsent", if sending them failed; or  *)
(* "dropped", if it was closed because nothing referred to it any more.    *)
(* A variable that refers to a socket that is closed counts as NoConn.     *)
(***************************************************************************)
TypeOK ==
  /\ conn \in [Conn -> [st    : {"new", "waiting", "gone", "answered",
                                 "unsent", "dropped"},
                        kind  : Kind \cup {"silent"},
                        about : Conn \cup {NoConn}]]
  /\ backlog \in Seq(Conn)
  /\ main \in [pc : {"accept", "put", "start"}, conn : Conn \cup {NoConn}]
  /\ request_queue \in Seq(Conn)
  /\ Len(request_queue) <= request_queue_size
  /\ worker \in [Worker -> [pc      : {"none", "get", "serve", "send", "exit"},
                            conn    : Conn \cup {NoConn},
                            results : {"own", "internal"}]]
  /\ Cardinality({w \in Worker : worker[w].pc # "none"}) <= max_worker_count
  /\ internal \in Conn \cup {NoConn}

NoWorker == [pc |-> "none", conn |-> NoConn, results |-> "own"]

Closed == [st |-> "new", kind |-> "nothing", about |-> NoConn]

Init ==
  /\ conn = [c \in Conn |-> Closed]
  /\ backlog = <<>>
  /\ main = [pc |-> "accept", conn |-> NoConn]
  /\ request_queue = <<>>
  /\ worker = [w \in Worker |-> NoWorker]
  /\ internal = NoConn

Alive == {w \in Worker : worker[w].pc # "none"}

-----------------------------------------------------------------------------
(* Clients *)

Open(c) == conn[c].st \in {"waiting", "gone"}

Connect(c) ==
  /\ ~Open(c)
  /\ conn' = [conn EXCEPT ![c] = [st    |-> "waiting",
                                  kind  |-> "silent",
                                  about |-> NoConn]]
  /\ backlog' = Append(backlog, c)
  /\ UNCHANGED <<main, request_queue, worker, internal>>

Request(c, k) ==
  /\ conn[c].st = "waiting"
  /\ conn[c].kind = "silent"
  /\ conn' = [conn EXCEPT ![c].kind = k]
  /\ UNCHANGED <<backlog, main, request_queue, worker, internal>>

\* The client waits no longer than its timeout, or quits.
GiveUp(c) ==
  /\ conn[c].st = "waiting"
  /\ conn' = [conn EXCEPT
       ![c].st = "gone",
       ![c].kind = IF @ = "silent" THEN "nothing" ELSE @]
  /\ UNCHANGED <<backlog, main, request_queue, worker, internal>>

-----------------------------------------------------------------------------
(* Sockets *)

\* After the step, a variable of a thread or the queue refers to c.
StillReferred(c) ==
  \/ main'.conn = c
  \/ \E i \in DOMAIN request_queue' : request_queue'[i] = c
  \/ \E w \in Worker : worker'[w].conn = c

\* The server closes c with this outcome.
Close(c, outcome, whose) ==
  conn' = [conn EXCEPT
    ![c] = IF @.st = "gone" THEN Closed
           ELSE [st |-> outcome, kind |-> @.kind, about |-> whose]]

\* A step that takes away a reference to c closes it if no other is left.
LetGo(c) ==
  \/ /\ c = NoConn \/ StillReferred(c)
     /\ UNCHANGED conn
  \/ /\ c # NoConn /\ ~StillReferred(c)
     /\ Close(c, "dropped", NoConn)

-----------------------------------------------------------------------------
(* run, the loop of the main thread *)

\* The variable of run refers to a connection until the next is accepted.
Accept ==
  /\ main.pc = "accept"
  /\ backlog # <<>>
  /\ main' = [pc |-> "put", conn |-> Head(backlog)]
  /\ backlog' = Tail(backlog)
  /\ UNCHANGED <<request_queue, worker, internal>>
  /\ LetGo(main.conn)

\* Mutant: the queue has no limit.
PutUnbounded ==
  /\ main.pc = "put"
  /\ request_queue' = Append(request_queue, main.conn)
  /\ main' = [main EXCEPT !.pc = "start"]
  /\ UNCHANGED <<conn, backlog, worker, internal>>

\* request_queue.put waits for a slot.
Put ==
  /\ main.pc = "put"
  /\ Len(request_queue) < request_queue_size
  /\ request_queue' = Append(request_queue, main.conn)
  /\ main' = [main EXCEPT !.pc = "start"]
  /\ UNCHANGED <<conn, backlog, worker, internal>>

\* active_count counts the main thread, and workers that are about to end.
StartWorker ==
  LET thread_count == 1 + Cardinality(Alive) IN
  /\ main.pc = "start"
  /\ \/ /\ thread_count <= max_worker_count
        /\ \E w \in Worker \ Alive :
             worker' = [worker EXCEPT ![w].pc = "get"]
     \/ /\ thread_count > max_worker_count
        /\ UNCHANGED worker
  /\ main' = [main EXCEPT !.pc = "accept"]
  /\ UNCHANGED <<conn, backlog, request_queue, internal>>

-----------------------------------------------------------------------------
(* worker_loop *)

\* Mutant: the request stays in the queue until task_done.
GetPeeks(w) ==
  /\ worker[w].pc = "get"
  /\ request_queue # <<>>
  /\ worker' = [worker EXCEPT ![w].pc = "serve",
                              ![w].conn = Head(request_queue)]
  /\ UNCHANGED <<backlog, main, request_queue, internal>>
  /\ LetGo(worker[w].conn)

\* Mutant: the last request is served first.
GetLast(w) ==
  /\ worker[w].pc = "get"
  /\ request_queue # <<>>
  /\ worker' = [worker EXCEPT ![w].pc = "serve",
                              ![w].conn = request_queue[Len(request_queue)]]
  /\ request_queue' = SubSeq(request_queue, 1, Len(request_queue) - 1)
  /\ UNCHANGED <<backlog, main, internal>>
  /\ LetGo(worker[w].conn)

\* The variable of the previous connection is overwritten.
Get(w) ==
  /\ worker[w].pc = "get"
  /\ request_queue # <<>>
  /\ worker' = [worker EXCEPT ![w].pc = "serve",
                              ![w].conn = Head(request_queue)]
  /\ request_queue' = Tail(request_queue)
  /\ UNCHANGED <<backlog, main, internal>>
  /\ LetGo(worker[w].conn)

\* Queue.Empty: the worker leaves its loop ...
Empty(w) ==
  /\ worker[w].pc = "get"
  /\ request_queue = <<>>
  /\ worker' = [worker EXCEPT ![w].pc = "exit"]
  /\ UNCHANGED <<conn, backlog, main, request_queue, internal>>

\* ... and ends.
Exit(w) ==
  /\ worker[w].pc = "exit"
  /\ worker' = [worker EXCEPT ![w] = NoWorker]
  /\ UNCHANGED <<backlog, main, request_queue, internal>>
  /\ LetGo(worker[w].conn)

\* serve_API up to the results.  construct_internal_error fills in the one
\* dictionary that all threads share.  Three ways return before anything is
\* sent.  recv has no timeout: for a silent client the worker waits.  For one
\* that has quit recv may also raise.
Serve(w) ==
  LET c == worker[w].conn IN
  /\ worker[w].pc = "serve"
  /\ \/ /\ conn[c].kind = "call"
        /\ worker' = [worker EXCEPT ![w].pc = "send", ![w].results = "own"]
        /\ UNCHANGED internal
     \/ /\ \/ conn[c].kind = "raises"
           \/ conn[c].kind = "nothing" /\ conn[c].st = "gone"
        /\ worker' = [worker EXCEPT ![w].pc = "send",
                                    ![w].results = "internal"]
        /\ internal' = c
     \/ /\ conn[c].kind = "wrong form"
        /\ worker' = [worker EXCEPT ![w].pc = "get"]
        /\ internal' = c
     \/ /\ conn[c].kind \in {"nothing", "wrong name"}
        /\ worker' = [worker EXCEPT ![w].pc = "get"]
        /\ UNCHANGED internal
  /\ UNCHANGED <<conn, backlog, main, request_queue>>

\* The rest of serve_API: send_results, whose errors are only logged, and
\* close, which does not ask who else refers to the socket.
Send(w) ==
  LET c == worker[w].conn IN
  /\ worker[w].pc = "send"
  /\ \/ Close(c, "answered",
              IF worker[w].results = "own" THEN c ELSE internal)
     \/ Close(c, "unsent", NoConn)
  /\ worker' = [worker EXCEPT ![w] = [NoWorker EXCEPT !.pc = "get"]]
  /\ main' = [main EXCEPT !.conn = IF @ = c THEN NoConn ELSE @]
  /\ UNCHANGED <<backlog, request_queue, internal>>

-----------------------------------------------------------------------------
Main == Accept \/ Put \/ StartWorker

Work(w) == Get(w) \/ Empty(w) \/ Exit(w) \/ Serve(w) \/ Send(w)

Next ==
  \/ \E c \in Conn : Connect(c) \/ GiveUp(c) \/ \E k \in Sends : Request(c, k)
  \/ Main
  \/ \E w \in Worker : Work(w)

Spec == Init /\ [][Next]_vars

\* The threads run, and the API functions return; clients do as they like.
FairSpec == Spec /\ WF_vars(Main) /\ \A w \in Worker : WF_vars(Work(w))

-----------------------------------------------------------------------------
(* Properties *)

\* In how many hands a request is on its way through the server.
Hands(c) ==
  Cardinality({i \in DOMAIN backlog : backlog[i] = c})
  + (IF main.pc = "put" /\ main.conn = c THEN 1 ELSE 0)
  + Cardinality({i \in DOMAIN request_queue : request_queue[i] = c})
  + Cardinality({w \in Worker : worker[w].conn = c})

(***************************************************************************)
(* No request is served twice, and none is lost between the queue and the  *)
(* workers: a connection is in one hand at most and then it is open; one   *)
(* that is open and in no hand was malformed, and run still refers to it.  *)
(* A connection is closed without any attempt to send results only if its  *)
(* request was malformed, never after a call, also one that raised; and a  *)
(* call gets no other results than its own.                                *)
(***************************************************************************)
OnePlace ==
  \A c \in Conn :
    /\ Hands(c) <= 1
    /\ Hands(c) = 1 => Open(c)
    /\ Open(c) /\ Hands(c) = 0
         => main.conn = c /\ conn[c].kind \in Malformed
    /\ conn[c].st = "dropped" => conn[c].kind \in Malformed
    /\ conn[c].st = "answered" /\ conn[c].kind = "call" => conn[c].about = c

(***************************************************************************)
(* As long as connections keep coming and the main thread keeps accepting  *)
(* them, every connection whose client has sent something, or has quit, is *)
(* taken from the queue, served and closed, also when serve_API returns    *)
(* early, and whatever silent clients there are.                           *)
(***************************************************************************)
ServedWhileBusy ==
  []<>(main.pc = "put") /\ []<>(main.pc = "accept")
    => \A c \in Conn : Open(c) /\ conn[c].kind # "silent" ~> ~Open(c)
==============================================================================
