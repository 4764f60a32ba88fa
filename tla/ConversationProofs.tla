------------------------- MODULE ConversationProofs --------------------------
(***************************************************************************)
(* Proofs about the conversation with SMAPI, for any limits of the retries *)
(* and any number of parts of a field: the types of the conversation,      *)
(* RunOnce, FieldsInStep and NothingLeft, of getAndParseSmapiBuffer as a   *)
(* whole.                                                                  *)
(***************************************************************************)
EXTENDS GetAndParse, FiniteSetTheorems, SequenceTheorems, TLAPS

Codes == {"found", "again", "no data", "error"}
Values == {"none", "full", "short"} \cup Codes
StreamPart == [field : Reading, of : Requests, value : Values, part : 1..Parts]

\* The field that SMAPI sends behind another one.
After(field) ==
  CASE field = "id" -> "length"
    [] field = "length" -> "data"
    [] field = "recovery id" -> "recovery length"
    [] field = "recovery length" -> "recovery codes"
    [] field = "recovery codes" -> "data"
    [] OTHER -> "none"

Types ==
  /\ ConvTypeOK
  /\ stream \in Seq(StreamPart)
  /\ conn \in {"nothing", "request", "recovery"}
  /\ value \in Values
  /\ lost \in Nat

(***************************************************************************)
(* Where the call stands says how many rounds it has had, what SMAPI has   *)
(* seen of the request of this round, and what it holds.                   *)
(***************************************************************************)
Over == {"allocate", "data", "parse"}
Asking == {"length", "recovery connect"} \cup InRecovery
RoundOK ==
  /\ step \notin {"redrive", "done"} => k < SEND_RETRY_LIMIT
  /\ step \in Asking => jk < SEND_RETRY_LIMIT
  /\ \A n \in Requests : n > Current => status[n] = "none"
  /\ step \in {"redrive", "connect", "write"} /\ k < SEND_RETRY_LIMIT => status[Current] = "none"
  /\ step \in Reading \cup {"allocate", "recovery connect", "recovery write"} => status[Current] # "none"
HoldsOK ==
  /\ step \in Over => input = "freed"
  /\ step \notin Over \cup {"done"} => input = "held"
  /\ buffer = "held" => step \in {"data", "parse"}
  /\ step \in Connecting \cup {"parse"} => sock # "open"
  /\ step = "redrive" /\ sock = "open" => saverc = "again" /\ k > 0
  /\ step = "done" =>
       /\ input = "held" =>
            /\ result \in ConnectErrors /\ k < SEND_RETRY_LIMIT
            /\ status[Current] # "none"
       /\ sock = "open" => result \in {"invalid data", "no memory", "again", "no data", "error"}

(***************************************************************************)
(* The rounds that are over without a lost id were dropped by SMAPI.       *)
(***************************************************************************)
Missed == {n \in 1..k : status[n] # "dropped"}
MissedOK == Cardinality(Missed) <= lost

(***************************************************************************)
(* What is on the connection: parts that follow one another, of which the  *)
(* first is the one that is read next; and how far SMAPI is.               *)
(***************************************************************************)
Follows(a, b) ==
  IF a.part < Parts THEN b.field = a.field /\ b.part = a.part + 1
  ELSE b.field = After(a.field) /\ b.part = 1
InOrder(s) == \A i \in 1..(Len(s) - 1) : Follows(s[i], s[i + 1])
Expected(e) ==
  IF step = "allocate" THEN e.field = "data" /\ e.part = 1
  ELSE IF got < Parts THEN e.field = step /\ e.part = got + 1
  ELSE e.field = After(step) /\ e.part = 1
Receives == sock = "open" /\ step \in Reading \cup {"allocate"}

OrderOK ==
  Receives =>
    /\ \A i \in 1..Len(stream) : stream[i].of = Current
    /\ InOrder(stream)
    /\ stream # <<>> => Expected(stream[1])
CodesOK ==
  /\ \A i \in 1..Len(stream) : stream[i].field = "recovery codes" => stream[i].value \in Codes
  /\ step = "recovery codes" /\ got > 0 => value \in Codes
  /\ step = "recovery codes" /\ value = "again" => status[Current] = "dropped"
  /\ Receives =>
       \A i \in 1..Len(stream) :
         stream[i].field = "recovery codes" /\ stream[i].value = "again" => status[Current] = "dropped"
Nothing == stream = <<>> /\ got = 0
AskedOK ==
  sock = "open" =>
    /\ step \in Writing => conn = "nothing" /\ stream = <<>>
    /\ step = "redrive" => conn = "nothing"
    /\ step \in InRecovery => conn # "request"
    /\ conn = "recovery" => step = "recovery id" /\ Nothing
    /\ conn = "request" /\ link = "up" /\ k < SEND_RETRY_LIMIT =>
         /\ status[Current] \in {"sent", "taken", "ran"}
         /\ status[Current] = "sent" => step = "id" /\ Nothing
         /\ status[Current] = "taken" =>
              /\ \A i \in 1..Len(stream) : stream[i].field = "id"
              /\ stream = <<>> => (step = "id" /\ got = Parts) \/ (step = "length" /\ got = 0)
              /\ stream # <<>> => stream[Len(stream)].part = Parts /\ step = "id"

\* The inductive invariant.
IInv == Types /\ RoundOK /\ HoldsOK /\ MissedOK /\ OrderOK /\ CodesOK /\ AskedOK
-----------------------------------------------------------------------------
(* The client *)

Steps == {"redrive", "allocate", "parse", "done"} \cup Connecting \cup Writing \cup Reading
Excused == {"invalid data", "no memory", "again", "no data", "error"}

\* The types, when a step leaves alone what SMAPI has.
LEMMA TypesKept ==
  ASSUME Types, UNCHANGED smapiVars, step' \in Steps,
         k' \in 0..SEND_RETRY_LIMIT, j' \in 0..SEND_RETRY_LIMIT, jk' \in 0..SEND_RETRY_LIMIT,
         retryConnection' \in 1..RETRY_CONNECTION_LIMIT,
         sock' \in {"none", "open", "closed"}, input' \in {"held", "freed"},
         buffer' \in {"none", "held", "freed"}, sent' \in 0..Parts,
         got' \in 0..Parts, retryNoData' \in 0..(NoDataLimit + 1), value' \in Values,
         lost' \in Nat
  PROVE  Types'
  BY DEF Types, ConvTypeOK, Steps, smapiVars

(***************************************************************************)
(* getAndParseSmapiBuffer returns.  The request is freed, or it was, or    *)
(* the connection for a recovery has failed; the socket is closed but for  *)
(* the three returns that forget it.                                       *)
(***************************************************************************)
LEMMA ReturnOK ==
  ASSUME IInv, NEW rc, NEW freed \in BOOLEAN, Return(rc, freed), UNCHANGED smapiVars,
         step # "done",
         sock' \in {"none", "open", "closed"}, buffer' \in {"none", "freed"},
         ~freed => input = "freed" \/ (step = "recovery connect" /\ rc \in ConnectErrors),
         sock' = "open" =>
           /\ sock = "open" /\ rc \in Excused
           /\ step \in {"allocate", "redrive", "recovery codes"}
  PROVE  IInv'
  <1>0. /\ step' = "done" /\ result' = rc /\ k' = k /\ j' = j /\ jk' = jk
        /\ retryConnection' = retryConnection /\ sent' = sent /\ got' = got /\ value' = value
        /\ retryNoData' = retryNoData /\ lost' = lost
        /\ link' = link /\ conn' = conn /\ stream' = stream /\ status' = status
        /\ input' = IF freed THEN "freed" ELSE input
    BY DEF Return, loopVars, readVars, smapiVars
  <1>1. Types'
    BY <1>0, TypesKept DEF IInv, Types, ConvTypeOK, Steps
  <1>2. RoundOK'
    BY <1>0 DEF IInv, RoundOK, Current, Reading, Asking, InRecovery
  <1>3. HoldsOK'
    <2>1. step = "recovery connect" => k < SEND_RETRY_LIMIT /\ status[Current] # "none"
      BY DEF IInv, RoundOK
    <2> QED  BY <1>0, <2>1 DEF IInv, Types, ConvTypeOK, HoldsOK, Current, Over, Connecting, Excused
  <1>4. MissedOK'
    BY <1>0 DEF IInv, MissedOK, Missed
  <1>5. OrderOK'
    BY <1>0 DEF OrderOK, Receives, Reading
  <1>6. CodesOK'
    BY <1>0 DEF IInv, CodesOK, Receives, Reading
  <1>7. AskedOK'
    <2> SUFFICES ASSUME sock' = "open" PROVE AskedOK'
      BY DEF AskedOK
    <2>1. /\ sock = "open" /\ conn # "recovery"
          /\ step \notin {"id", "length"}
      BY DEF IInv, AskedOK
    <2> QED  BY <1>0, <2>1 DEF IInv, AskedOK, Writing, InRecovery, Current, Nothing
  <1> QED  BY <1>1, <1>2, <1>3, <1>4, <1>5, <1>6, <1>7 DEF IInv

\* Nothing on the connection.
LEMMA EmptyStream ==
  1..Len(<<>>) = {} /\ 1..(Len(<<>>) - 1) = {} /\ <<>> \in Seq(StreamPart)
  OBVIOUS

(* The head of the main loop. *)
LEMMA RedriveOK ==
  ASSUME IInv, Redrive
  PROVE  IInv'
  <1>0. step = "redrive" /\ UNCHANGED <<buffer, smapiVars>> /\ input = "held" /\ buffer # "held"
    BY DEF Redrive, IInv, HoldsOK, Over
  <1>a. CASE RoundsUsedUp /\ GivesUp /\ UNCHANGED sock
    <2>1. Return(saverc, TRUE) /\ sock' = sock
      BY <1>a DEF GivesUp
    <2>2. sock = "open" => saverc \in Excused
      BY <1>0 DEF IInv, HoldsOK, Excused
    <2>3. sock \in {"none", "open", "closed"} /\ buffer \in {"none", "freed"}
      BY <1>0 DEF IInv, Types, ConvTypeOK
    <2> QED  BY <1>0, <2>1, <2>2, <2>3, ReturnOK
  <1>b. CASE ~RoundsUsedUp
    <2>0. /\ step = "redrive" /\ sock' = IF k > 0 THEN "closed" ELSE sock
          /\ step' = "connect" /\ retryConnection' = 1
          /\ k' = k /\ j' = j /\ jk' = jk /\ input' = input /\ buffer' = buffer
          /\ saverc' = saverc /\ result' = result /\ sent' = sent /\ got' = got
          /\ value' = value /\ retryNoData' = retryNoData /\ link' = link /\ conn' = conn
          /\ stream' = stream /\ status' = status /\ lost' = lost
      BY <1>b DEF Redrive, readVars, smapiVars
    <2>l. k \in 0..SEND_RETRY_LIMIT /\ k < SEND_RETRY_LIMIT /\ 1 \in 1..RETRY_CONNECTION_LIMIT
      BY <1>b, ConversationAssumption DEF RoundsUsedUp, IInv, Types, ConvTypeOK
    <2>1. Types'
      BY <2>0, <2>l, TypesKept DEF IInv, Types, ConvTypeOK, Values, Steps, Connecting, Writing,
         Reading
    <2>2. RoundOK'
      BY <2>0, <2>l DEF IInv, Types, ConvTypeOK, RoundOK, Connecting, Writing, Reading,
         InRecovery, Over, Asking, Requests, Current
    <2>3. HoldsOK'
      BY <2>0, <2>l DEF IInv, Types, ConvTypeOK, HoldsOK, Over, Connecting, Current
    <2>4. MissedOK'
      BY <2>0, <2>l DEF IInv, MissedOK, Missed
    <2>5. OrderOK'
      BY <2>0, <2>l DEF IInv, Types, ConvTypeOK, OrderOK, InOrder, Expected, Receives, After,
         Reading, Current
    <2>6. CodesOK'
      BY <2>0, <2>l DEF IInv, Types, ConvTypeOK, CodesOK, Receives, Reading, Current
    <2>7. AskedOK'
      BY <2>0, <2>l DEF IInv, AskedOK, Nothing, Writing, InRecovery, Current
    <2> QED  BY <2>1, <2>2, <2>3, <2>4, <2>5, <2>6, <2>7 DEF IInv
  <1> QED  BY <1>a, <1>b DEF Redrive

(* The connection is refused, or there is no socket. *)
LEMMA ConnectFailsOK ==
  ASSUME IInv, step \in Connecting, NEW rc \in ConnectErrors, ConnectFails(rc),
         sock' \in {"none", "closed"}, UNCHANGED <<buffer, smapiVars>>
  PROVE  IInv'
  <1>1. buffer' \in {"none", "freed"}
    BY DEF IInv, Types, ConvTypeOK, HoldsOK, Connecting
  <1>2. step # "connect" => step = "recovery connect"
    BY DEF Connecting
  <1> QED  BY <1>1, <1>2, ReturnOK DEF ConnectFails, Connecting

LEMMA NoSocketOK ==
  ASSUME IInv, NoSocket \/ ConnectError
  PROVE  IInv'
  BY ConnectFailsOK DEF NoSocket, ConnectError, ConnectErrors

LEMMA RefusedOK ==
  ASSUME IInv, Refused
  PROVE  IInv'
  <1>a. CASE \E rc \in {"refused", "try again"} : ConnectFails(rc)
    BY <1>a, ConnectFailsOK DEF Refused, ConnectErrors
  <1>b. CASE /\ retryConnection < RETRY_CONNECTION_LIMIT
             /\ retryConnection' = retryConnection + 1
             /\ UNCHANGED <<step, k, j, jk, input, saverc, result, sent, readVars, lost>>
    <2>0. /\ step \in Connecting /\ sock' = "closed" /\ retryConnection' = retryConnection + 1
          /\ step' = step /\ k' = k /\ j' = j /\ jk' = jk /\ input' = input /\ buffer' = buffer
          /\ saverc' = saverc /\ result' = result /\ sent' = sent /\ got' = got
          /\ value' = value /\ retryNoData' = retryNoData /\ link' = link /\ conn' = conn
          /\ stream' = stream /\ status' = status /\ lost' = lost
      BY <1>b DEF Refused, readVars, smapiVars
    <2>l. retryConnection' \in 1..RETRY_CONNECTION_LIMIT
      BY <1>b, ConversationAssumption DEF IInv, Types, ConvTypeOK
    <2>1. Types'
      BY <2>0, <2>l, TypesKept DEF IInv, Types, ConvTypeOK, Values, Steps, Connecting, Writing,
         Reading
    <2>2. RoundOK'
      BY <2>0, <2>l DEF IInv, Types, ConvTypeOK, RoundOK, Connecting, Writing, Reading,
         InRecovery, Over, Asking, Requests, Current
    <2>3. HoldsOK'
      BY <2>0, <2>l DEF IInv, Types, ConvTypeOK, HoldsOK, Over, Connecting, Current
    <2>4. MissedOK'
      BY <2>0, <2>l DEF IInv, MissedOK, Missed
    <2>5. OrderOK'
      BY <2>0, <2>l DEF IInv, Types, ConvTypeOK, OrderOK, InOrder, Expected, Receives, After,
         Reading, Current
    <2>6. CodesOK'
      BY <2>0, <2>l DEF IInv, Types, ConvTypeOK, CodesOK, Receives, Reading, Current
    <2>7. AskedOK'
      BY <2>0, <2>l DEF IInv, AskedOK, Nothing, Writing, InRecovery, Current
    <2> QED  BY <2>1, <2>2, <2>3, <2>4, <2>5, <2>6, <2>7 DEF IInv
  <1> QED  BY <1>a, <1>b DEF Refused

(* A new connection. *)
LEMMA ConnectOK ==
  ASSUME IInv, Connect
  PROVE  IInv'
  <1>0. /\ step \in Connecting /\ step' = IF step = "connect" THEN "write" ELSE "recovery write"
        /\ sock' = "open" /\ link' = "up" /\ conn' = "nothing" /\ stream' = <<>>
        /\ j' = 0 /\ sent' = 0
        /\ k' = k /\ jk' = jk /\ retryConnection' = retryConnection /\ input' = input
        /\ buffer' = buffer /\ result' = result /\ got' = got /\ value' = value
        /\ retryNoData' = retryNoData /\ status' = status /\ lost' = lost
    BY DEF Connect, readVars
  <1>e. /\ stream' = <<>> /\ 1..Len(stream') = {} /\ 1..(Len(stream') - 1) = {}
        /\ stream' \in Seq(StreamPart)
    BY <1>0, EmptyStream
  <1>l. 0 \in 0..SEND_RETRY_LIMIT /\ 0 \in 0..Parts
    BY ConversationAssumption
  <1>1. Types'
    <2>1. step' \in Writing
      BY <1>0 DEF Connecting, Writing
    <2> QED  BY <1>0, <1>e, <1>l, <2>1 DEF IInv, Types, ConvTypeOK
  <1>2. RoundOK'
    BY <1>0, <1>l DEF IInv, Types, ConvTypeOK, RoundOK, Connecting, Writing, Reading, InRecovery,
       Over, Asking, Requests, Current
  <1>3. HoldsOK'
    BY <1>0, <1>l DEF IInv, Types, ConvTypeOK, HoldsOK, Over, Connecting, Current
  <1>4. MissedOK'
    BY <1>0, <1>l DEF IInv, MissedOK, Missed
  <1>5. OrderOK'
    BY <1>0, <1>e DEF OrderOK, InOrder
  <1>6. CodesOK'
    BY <1>0, <1>e DEF IInv, CodesOK, Connecting
  <1>7. AskedOK'
    BY <1>0, <1>l DEF IInv, AskedOK, Nothing, Writing, InRecovery, Current
  <1> QED  BY <1>1, <1>2, <1>3, <1>4, <1>5, <1>6, <1>7 DEF IInv

(* A part of the request, or of the Response_Recovery, is sent. *)
LEMMA SendOK ==
  ASSUME IInv, Send
  PROVE  IInv'
  <1>0. /\ step \in Writing /\ sock = "open" /\ link = "up" /\ conn = "nothing" /\ stream = <<>>
        /\ k' = k /\ j' = j /\ jk' = jk /\ retryConnection' = retryConnection /\ sock' = sock
        /\ input' = input /\ buffer' = buffer /\ saverc' = saverc /\ result' = result
        /\ link' = link /\ stream' = stream /\ lost' = lost
    BY DEF Send, IInv, AskedOK, loopVars
  <1>e. /\ stream' = <<>> /\ 1..Len(stream') = {} /\ 1..(Len(stream') - 1) = {}
        /\ stream' \in Seq(StreamPart)
    BY <1>0, EmptyStream
  <1>k. k \in 0..SEND_RETRY_LIMIT /\ k < SEND_RETRY_LIMIT /\ Current \in Requests /\ Current = k + 1
    <2>1. k \in 0..SEND_RETRY_LIMIT /\ k < SEND_RETRY_LIMIT
      BY <1>0 DEF IInv, Types, ConvTypeOK, RoundOK, Writing
    <2> QED  BY <2>1, ConversationAssumption DEF Current, Requests
  <1>a. CASE sent + 1 < Parts
    <2>0. /\ sent' = sent + 1 /\ step' = step /\ got' = got /\ value' = value
          /\ retryNoData' = retryNoData /\ conn' = conn /\ status' = status
      BY <1>a DEF Send, readVars
    <2>l. sent' \in 0..Parts
      BY <1>a, <2>0, ConversationAssumption DEF IInv, Types, ConvTypeOK
    <2>1. Types'
      BY <1>0, <2>0, <2>l DEF IInv, Types, ConvTypeOK
    <2>2. RoundOK'
      BY <1>0, <2>0, <2>l DEF IInv, Types, ConvTypeOK, RoundOK, Connecting, Writing, Reading,
         InRecovery, Over, Asking, Requests, Current
    <2>3. HoldsOK'
      BY <1>0, <2>0, <2>l DEF IInv, Types, ConvTypeOK, HoldsOK, Over, Connecting, Current
    <2>4. MissedOK'
      BY <1>0, <2>0, <2>l DEF IInv, MissedOK, Missed
    <2>5. OrderOK'
      BY <1>0, <2>0, <2>l DEF IInv, Types, ConvTypeOK, OrderOK, InOrder, Expected, Receives,
         After, Reading, Current
    <2>6. CodesOK'
      BY <1>0, <2>0, <2>l DEF IInv, Types, ConvTypeOK, CodesOK, Receives, Reading, Current
    <2>7. AskedOK'
      BY <1>0, <2>0, <2>l DEF IInv, AskedOK, Nothing, Writing, InRecovery, Current
    <2> QED  BY <2>1, <2>2, <2>3, <2>4, <2>5, <2>6, <2>7 DEF IInv
  <1>n. ASSUME ~(sent + 1 < Parts)
        PROVE  /\ sent' = 0 /\ got' = 0 /\ value' = "none" /\ retryNoData' = 0
               /\ sent' \in 0..Parts /\ got' \in 0..Parts /\ retryNoData' \in 0..(NoDataLimit + 1)
               /\ value' \in Values
    <2>1. sent' = 0 /\ got' = 0 /\ value' = "none" /\ retryNoData' = 0
      BY <1>n DEF Send, NewRead
    <2> QED  BY <2>1, ConversationAssumption DEF Values
  <1>b. CASE ~(sent + 1 < Parts) /\ step = "write"
    <2>b. step' = "id" /\ conn' = "request" /\ status' = [status EXCEPT ![Current] = "sent"]
      BY <1>b DEF Send
    <2>0. /\ status' \in [Requests -> {"none", "sent", "taken", "ran", "dropped"}]
          /\ status'[Current] = "sent"
          /\ \A n \in Requests : n # Current => status'[n] = status[n]
      BY <2>b, <1>k DEF IInv, Types, ConvTypeOK
    <2>c. Current' = Current
      BY <1>0 DEF Current
    <2>1. Types'
      BY <1>0, <1>b, <1>n, <2>b, <2>0 DEF IInv, Types, ConvTypeOK, Reading
    <2>2. RoundOK'
      <3>1. \A n \in Requests : n > Current => n # Current
        BY <1>k DEF Requests
      <3>2. \A n \in Requests : n > Current' => status'[n] = "none"
        BY <2>0, <2>c, <3>1 DEF IInv, RoundOK
      <3> QED  BY <1>0, <2>b, <1>k, <2>0, <2>c, <3>2 DEF RoundOK, Asking, InRecovery, Reading
    <2>3. HoldsOK'
      BY <1>0, <2>b DEF IInv, HoldsOK, Over, Connecting, Writing
    <2>4. MissedOK'
      <3>1. Missed' = Missed
        <4>1. \A n \in 1..k : n \in Requests /\ n # Current
          BY <1>k, ConversationAssumption DEF Requests
        <4> QED  BY <1>0, <2>0, <4>1 DEF Missed
      <3> QED  BY <1>0, <3>1 DEF IInv, MissedOK
    <2>5. OrderOK'
      BY <1>e DEF OrderOK, InOrder
    <2>6. CodesOK'
      BY <2>b, <1>e DEF CodesOK
    <2>7. AskedOK'
      BY <1>0, <1>b, <1>n, <2>b, <2>0, <2>c DEF AskedOK, Nothing, Writing, InRecovery
    <2> QED  BY <2>1, <2>2, <2>3, <2>4, <2>5, <2>6, <2>7 DEF IInv
  <1>c. CASE ~(sent + 1 < Parts) /\ step = "recovery write"
    <2>0. step' = "recovery id" /\ conn' = "recovery" /\ status' = status
      BY <1>c DEF Send
    <2>1. Types'
      BY <1>0, <1>c, <1>n, <2>0 DEF IInv, Types, ConvTypeOK, Reading
    <2>2. RoundOK'
      BY <1>0, <1>c, <1>n, <2>0 DEF IInv, Types, ConvTypeOK, RoundOK, Connecting, Writing,
         Reading, InRecovery, Over, Asking, Requests, Current
    <2>3. HoldsOK'
      BY <1>0, <1>c, <1>n, <2>0 DEF IInv, Types, ConvTypeOK, HoldsOK, Over, Connecting, Current
    <2>4. MissedOK'
      BY <1>0, <1>c, <1>n, <2>0 DEF IInv, MissedOK, Missed
    <2>5. OrderOK'
      BY <1>e DEF OrderOK, InOrder
    <2>6. CodesOK'
      BY <2>0, <1>e DEF CodesOK
    <2>7. AskedOK'
      BY <1>0, <1>c, <1>n, <2>0 DEF IInv, AskedOK, Nothing, Writing, InRecovery, Current
    <2> QED  BY <2>1, <2>2, <2>3, <2>4, <2>5, <2>6, <2>7 DEF IInv
  <1> QED  BY <1>0, <1>a, <1>b, <1>c DEF Writing

(* smSocketWrite fails: it is called again, with the closed socket. *)
LEMMA WriteFailsOK ==
  ASSUME IInv, WriteFails
  PROVE  IInv'
  <1>0. /\ step = "write" /\ sock' = "closed" /\ UNCHANGED <<buffer, smapiVars>>
        /\ buffer \in {"none", "freed"}
    BY DEF WriteFails, IInv, Types, ConvTypeOK, HoldsOK
  <1>a. ASSUME NEW rc, Return(rc, TRUE) PROVE IInv'
    BY <1>0, <1>a, ReturnOK
  <1>b. CASE /\ j < SEND_RETRY_LIMIT /\ j' = j + 1 /\ sent' = 0
             /\ UNCHANGED <<step, k, jk, retryConnection, input, saverc, result, readVars, lost>>
    <2>0. /\ step = "write" /\ sock' = "closed" /\ sent' = 0
          /\ step' = step /\ k' = k /\ jk' = jk /\ retryConnection' = retryConnection
          /\ input' = input /\ buffer' = buffer /\ saverc' = saverc /\ result' = result
          /\ got' = got /\ value' = value /\ retryNoData' = retryNoData /\ link' = link
          /\ conn' = conn /\ stream' = stream /\ status' = status /\ lost' = lost
      BY <1>0, <1>b DEF readVars, smapiVars
    <2>l. j' \in 0..SEND_RETRY_LIMIT /\ sent' \in 0..Parts
      BY <1>b, ConversationAssumption DEF IInv, Types, ConvTypeOK
    <2>1. Types'
      BY <2>0, <2>l, TypesKept DEF IInv, Types, ConvTypeOK, Values, Steps, Connecting, Writing,
         Reading
    <2>2. RoundOK'
      BY <2>0, <2>l DEF IInv, Types, ConvTypeOK, RoundOK, Connecting, Writing, Reading,
         InRecovery, Over, Asking, Requests, Current
    <2>3. HoldsOK'
      BY <2>0, <2>l DEF IInv, Types, ConvTypeOK, HoldsOK, Over, Connecting, Current
    <2>4. MissedOK'
      BY <2>0, <2>l DEF IInv, MissedOK, Missed
    <2>5. OrderOK'
      BY <2>0, <2>l DEF IInv, Types, ConvTypeOK, OrderOK, InOrder, Expected, Receives, After,
         Reading, Current
    <2>6. CodesOK'
      BY <2>0, <2>l DEF IInv, Types, ConvTypeOK, CodesOK, Receives, Reading, Current
    <2>7. AskedOK'
      BY <2>0, <2>l DEF IInv, AskedOK, Nothing, Writing, InRecovery, Current
    <2> QED  BY <2>1, <2>2, <2>3, <2>4, <2>5, <2>6, <2>7 DEF IInv
  <1> QED  BY <1>a, <1>b DEF WriteFails

-----------------------------------------------------------------------------
(* smSocketRead *)

\* Where the call stands while it reads.
LEMMA ReadingIs ==
  ASSUME IInv, step \in Reading
  PROVE  /\ k \in Nat /\ k < SEND_RETRY_LIMIT /\ Current = k + 1 /\ Current \in Requests
         /\ status[Current] # "none" /\ Current \in Nat
         /\ step # "data" => input = "held" /\ buffer \in {"none", "freed"}
  <1>0. k \in 0..SEND_RETRY_LIMIT /\ k < SEND_RETRY_LIMIT /\ status[Current] # "none"
    BY DEF IInv, Types, ConvTypeOK, RoundOK, Reading
  <1>1. k \in Nat /\ k < SEND_RETRY_LIMIT /\ status[Current] # "none"
    BY <1>0, ConversationAssumption
  <1>2. step # "data" => input = "held" /\ buffer \in {"none", "freed"}
    BY DEF IInv, Types, ConvTypeOK, HoldsOK, Reading, Over
  <1> QED  BY <1>1, <1>2, ConversationAssumption DEF Current, Requests

(* A part of the field comes. *)
LEMMA ReceiveOK ==
  ASSUME IInv, Receive
  PROVE  IInv'
  <1>0. /\ step \in Reading /\ sock = "open" /\ got < Parts /\ stream # <<>>
        /\ got' = got + 1 /\ value' = Head(stream).value /\ stream' = Tail(stream)
        /\ step' = step /\ k' = k /\ j' = j /\ jk' = jk /\ retryConnection' = retryConnection
        /\ sock' = sock /\ input' = input /\ buffer' = buffer /\ saverc' = saverc
        /\ result' = result /\ sent' = sent /\ retryNoData' = retryNoData /\ link' = link
        /\ conn' = conn /\ status' = status /\ lost' = lost
    BY DEF Receive, loopVars
  <1>s. /\ stream \in Seq(StreamPart) /\ Len(stream) \in Nat \ {0}
        /\ got \in Nat /\ Parts \in Nat /\ got' \in 0..Parts
    BY <1>0, ConversationAssumption, LenProperties, EmptySeq DEF IInv, Types, ConvTypeOK
  <1>t. /\ Tail(stream) \in Seq(StreamPart) /\ Len(Tail(stream)) = Len(stream) - 1
        /\ \A i \in 1..(Len(stream) - 1) : Tail(stream)[i] = stream[i + 1]
        /\ Head(stream) = stream[1] /\ stream[1] \in StreamPart
    BY <1>0, <1>s, HeadTailProperties, ElementOfSeq
  <1>h. /\ stream[1].field = step /\ stream[1].part = got + 1
        /\ \A i \in 1..Len(stream) : stream[i].of = Current
        /\ InOrder(stream)
    BY <1>0 DEF IInv, OrderOK, Receives, Expected, Reading
  <1>l. Len(stream') = Len(stream) - 1 /\ \A i \in 1..Len(stream') : stream'[i] = stream[i + 1]
    BY <1>0, <1>t
  <1>m. ASSUME NEW i \in 1..Len(stream') PROVE i + 1 \in 1..Len(stream)
    BY <1>l, <1>s
  <1>c. Current' = Current
    BY <1>0 DEF Current
  <1>1. Types'
    <2>1. value' \in Values
      BY <1>0, <1>t DEF StreamPart
    <2> QED  BY <1>0, <1>s, <1>t, <2>1 DEF IInv, Types, ConvTypeOK
  <1>2. RoundOK'
    BY <1>0 DEF IInv, RoundOK, Current
  <1>3. HoldsOK'
    BY <1>0 DEF IInv, Types, ConvTypeOK, HoldsOK, Over, Connecting, Current
  <1>4. MissedOK'
    BY <1>0 DEF IInv, MissedOK, Missed
  <1>5. OrderOK'
    <2>1. \A i \in 1..Len(stream') : stream'[i].of = Current'
      BY <1>h, <1>l, <1>m, <1>c
    <2>2. ASSUME NEW i \in 1..(Len(stream') - 1) PROVE Follows(stream'[i], stream'[i + 1])
      <3>1. i + 1 \in 1..(Len(stream) - 1) /\ i \in 1..Len(stream') /\ i + 1 \in 1..Len(stream')
        BY <1>l, <1>s
      <3>2. Follows(stream[i + 1], stream[i + 1 + 1])
        BY <1>h, <3>1 DEF InOrder
      <3> QED  BY <1>l, <3>1, <3>2
    <2>3. InOrder(stream')
      BY <2>2 DEF InOrder
    <2>4. ASSUME stream' # <<>> PROVE Expected(stream[1])'
      <3>1. 1 \in 1..(Len(stream) - 1) /\ 1 \in 1..Len(stream')
        <4>1. Len(stream') \in Nat \ {0}
          BY <1>0, <1>t, <2>4, LenProperties, EmptySeq
        <4> QED  BY <4>1, <1>l, <1>s
      <3>2. Follows(stream[1], stream[1 + 1])
        BY <1>h, <3>1 DEF InOrder
      <3>3. stream'[1] = stream[1 + 1]
        BY <1>l, <3>1
      <3>4. stream'[1].field = IF got + 1 < Parts THEN step ELSE After(step)
        BY <1>h, <3>2, <3>3 DEF Follows
      <3>5. stream'[1].part = IF got + 1 < Parts THEN got + 1 + 1 ELSE 1
        BY <1>h, <3>2, <3>3 DEF Follows
      <3>6. step' = step /\ step # "allocate" /\ got' = got + 1
        BY <1>0 DEF Reading
      <3> QED  BY <3>4, <3>5, <3>6 DEF Expected
    <2> QED  BY <2>1, <2>3, <2>4 DEF OrderOK, InOrder, Follows
  <1>6. CodesOK'
    <2>1. 1 \in 1..Len(stream)
      BY <1>s
    <2>2. /\ value' = stream[1].value /\ stream[1].field = step
          /\ Receives /\ (Receives' <=> Receives)
      BY <1>0, <1>t, <1>h DEF Receives
    <2>3. step = "recovery codes" => value' \in Codes /\ (value' = "again" => status[Current] = "dropped")
      BY <2>1, <2>2 DEF IInv, CodesOK
    <2>4. ASSUME NEW i \in 1..Len(stream'), stream'[i].field = "recovery codes"
          PROVE  /\ stream'[i].value \in Codes
                 /\ stream'[i].value = "again" => status[Current] = "dropped"
      BY <1>l, <1>m, <2>2, <2>4 DEF IInv, CodesOK
    <2> QED  BY <1>0, <1>c, <2>2, <2>3, <2>4 DEF CodesOK
  <1>7. AskedOK'
    <2>1. conn # "recovery"
      BY <1>0 DEF IInv, AskedOK, Nothing
    <2>2. ASSUME conn = "request", link = "up", k < SEND_RETRY_LIMIT, status[Current] = "taken"
          PROVE  /\ \A i \in 1..Len(stream') : stream'[i].field = "id"
                 /\ stream' = <<>> => step = "id" /\ got' = Parts
                 /\ stream' # <<>> => stream'[Len(stream')].part = Parts /\ step = "id"
      <3>1. /\ \A i \in 1..Len(stream) : stream[i].field = "id"
            /\ stream[Len(stream)].part = Parts /\ step = "id"
        BY <1>0, <2>2 DEF IInv, AskedOK
      <3>2. \A i \in 1..Len(stream') : stream'[i].field = "id"
        BY <3>1, <1>l, <1>m
      <3>3. ASSUME stream' = <<>> PROVE got' = Parts
        <4>1. Len(stream) = 1
          BY <1>s, <1>l, <3>3, EmptySeq
        <4> QED  BY <1>0, <1>h, <3>1, <4>1
      <3>4. ASSUME stream' # <<>> PROVE stream'[Len(stream')].part = Parts
        <4>1. Len(stream') \in Nat \ {0}
          BY <1>0, <1>t, <3>4, LenProperties, EmptySeq
        <4>2. Len(stream') \in 1..Len(stream') /\ Len(stream') + 1 = Len(stream)
          BY <4>1, <1>l, <1>s
        <4> QED  BY <1>l, <4>2, <3>1
      <3> QED  BY <3>1, <3>2, <3>3, <3>4
    <2>3. status[Current] = "sent" /\ conn = "request" /\ link = "up" /\ k < SEND_RETRY_LIMIT => FALSE
      BY <1>0 DEF IInv, AskedOK, Nothing
    <2>4. step \notin Writing /\ step # "redrive"
      BY <1>0 DEF Reading, Writing
    <2> QED  BY <1>0, <1>c, <2>1, <2>2, <2>3, <2>4 DEF IInv, AskedOK
  <1> QED  BY <1>1, <1>2, <1>3, <1>4, <1>5, <1>6, <1>7 DEF IInv

(* Nothing comes from a closed connection. *)
LEMMA ReceiveNothingOK ==
  ASSUME IInv, ReceiveNothing
  PROVE  IInv'
  <1>0. /\ step \in Reading
        /\ step' = step /\ k' = k /\ j' = j /\ jk' = jk /\ retryConnection' = retryConnection
        /\ sock' = sock /\ input' = input /\ buffer' = buffer /\ saverc' = saverc
        /\ result' = result /\ sent' = sent /\ got' = got /\ value' = value /\ link' = link
        /\ conn' = conn /\ stream' = stream /\ status' = status /\ lost' = lost
    BY DEF ReceiveNothing, loopVars, smapiVars
  <1>l. retryNoData' \in 0..(NoDataLimit + 1)
    BY ConversationAssumption DEF IInv, Types, ConvTypeOK, ReceiveNothing
  <1>1. Types'
    BY <1>0, <1>l DEF IInv, Types, ConvTypeOK
  <1>2. RoundOK'
    BY <1>0, <1>l DEF IInv, Types, ConvTypeOK, RoundOK, Connecting, Writing, Reading, InRecovery,
       Over, Asking, Requests, Current
  <1>3. HoldsOK'
    BY <1>0, <1>l DEF IInv, Types, ConvTypeOK, HoldsOK, Over, Connecting, Current
  <1>4. MissedOK'
    BY <1>0, <1>l DEF IInv, MissedOK, Missed
  <1>5. OrderOK'
    BY <1>0, <1>l DEF IInv, Types, ConvTypeOK, OrderOK, InOrder, Expected, Receives, After,
       Reading, Current
  <1>6. CodesOK'
    BY <1>0, <1>l DEF IInv, Types, ConvTypeOK, CodesOK, Receives, Reading, Current
  <1>7. AskedOK'
    BY <1>0, <1>l DEF IInv, AskedOK, Nothing, Writing, InRecovery, Current
  <1> QED  BY <1>1, <1>2, <1>3, <1>4, <1>5, <1>6, <1>7 DEF IInv

(* The next smSocketRead starts with nothing. *)
LEMMA NewReadIs ==
  ASSUME NewRead
  PROVE  /\ got' = 0 /\ value' = "none" /\ retryNoData' = 0
         /\ ~(got' > 0) /\ got' < Parts /\ got' + 1 = 1
         /\ got' \in 0..Parts /\ value' \in Values /\ retryNoData' \in 0..(NoDataLimit + 1)
  <1>1. got' = 0 /\ value' = "none" /\ retryNoData' = 0
    BY DEF NewRead
  <1> QED  BY <1>1, ConversationAssumption DEF Values

(* The request id has come. *)
LEMMA IdReadOK ==
  ASSUME IInv, IdRead
  PROVE  IInv'
  <1>0. /\ step = "id" /\ got = Parts /\ sock = "open" /\ step' = "length" /\ jk' = 0
        /\ k' = k /\ j' = j /\ retryConnection' = retryConnection /\ sock' = sock
        /\ input' = input /\ buffer' = buffer /\ saverc' = saverc /\ result' = result
        /\ sent' = sent /\ link' = link /\ conn' = conn /\ stream' = stream /\ status' = status
        /\ lost' = lost
    BY DEF IdRead, FieldRead, smapiVars
  <1>l. 0 \in 0..SEND_RETRY_LIMIT /\ 0 < SEND_RETRY_LIMIT
    BY ConversationAssumption
  <1>n. /\ got' = 0 /\ value' = "none" /\ retryNoData' = 0
        /\ ~(got' > 0) /\ got' < Parts /\ got' + 1 = 1
        /\ got' \in 0..Parts /\ value' \in Values /\ retryNoData' \in 0..(NoDataLimit + 1)
    BY NewReadIs DEF IdRead
  <1>1. Types'
    BY <1>0, <1>l, <1>n, TypesKept DEF IInv, Types, ConvTypeOK, Values, Steps, Connecting,
       Writing, Reading
  <1>2. RoundOK'
    BY <1>0, <1>l, <1>n DEF IInv, Types, ConvTypeOK, RoundOK, Connecting, Writing, Reading,
       InRecovery, Over, Asking, Requests, Current
  <1>3. HoldsOK'
    BY <1>0, <1>l, <1>n DEF IInv, Types, ConvTypeOK, HoldsOK, Over, Connecting, Current
  <1>4. MissedOK'
    BY <1>0, <1>l, <1>n DEF IInv, MissedOK, Missed
  <1>5. OrderOK'
    BY <1>0, <1>l, <1>n DEF IInv, Types, ConvTypeOK, OrderOK, InOrder, Expected, Receives, After,
       Reading, Current
  <1>6. CodesOK'
    BY <1>0, <1>l, <1>n DEF IInv, Types, ConvTypeOK, CodesOK, Receives, Reading, Current
  <1>7. AskedOK'
    <2>1. stream # <<>> => stream[1].field = "length"
      BY <1>0, ConversationAssumption DEF IInv, OrderOK, Receives, Expected, After, Reading
    <2>2. stream # <<>> => 1 \in 1..Len(stream)
      BY LenProperties, EmptySeq DEF IInv, Types
    <2> QED  BY <1>0, <1>n, <2>1, <2>2 DEF IInv, AskedOK, Nothing, Writing, InRecovery, Current
  <1> QED  BY <1>1, <1>2, <1>3, <1>4, <1>5, <1>6, <1>7 DEF IInv

\* One round more is one missed round more at most.
LEMMA MissedMore ==
  ASSUME k \in Nat, k' = k + 1, status' = status
  PROVE  /\ IsFiniteSet(Missed) /\ Cardinality(Missed) \in Nat
         /\ Cardinality(Missed') \in Nat
         /\ Cardinality(Missed') <= Cardinality(Missed) + 1
  <1>1. IsFiniteSet(1..k)
    BY FS_Interval
  <1>2. IsFiniteSet(Missed)
    BY <1>1, FS_Subset DEF Missed
  <1>3. Missed' \subseteq Missed \cup {k + 1}
    BY DEF Missed
  <1>4. k + 1 \notin Missed
    BY DEF Missed
  <1>5. /\ IsFiniteSet(Missed \cup {k + 1})
        /\ Cardinality(Missed \cup {k + 1}) = Cardinality(Missed) + 1
    BY <1>2, <1>4, FS_AddElement
  <1>6. IsFiniteSet(Missed') /\ Cardinality(Missed') <= Cardinality(Missed \cup {k + 1})
    BY <1>3, <1>5, FS_Subset
  <1> QED  BY <1>2, <1>5, <1>6, FS_CardinalityType

(* It does not come: the request is sent again, in a new round. *)
LEMMA IdFailsOK ==
  ASSUME IInv, IdFails
  PROVE  IInv'
  <1>0. /\ step = "id" /\ sock' = "closed" /\ UNCHANGED <<buffer, smapiVars>>
        /\ buffer \in {"none", "freed"} /\ input = "held"
        /\ k \in Nat /\ k < SEND_RETRY_LIMIT
    BY ReadingIs DEF IdFails, ReadFails, Reading
  <1>a. ASSUME NEW rc, Return(rc, TRUE) PROVE IInv'
    BY <1>0, <1>a, ReturnOK
  <1>b. CASE /\ k' = k + 1 /\ lost' = lost + 1 /\ step' = "redrive"
             /\ UNCHANGED <<j, jk, retryConnection, input, result, sent, readVars>>
    <2>0. /\ step' = "redrive" /\ sock' = "closed" /\ k' = k + 1 /\ lost' = lost + 1
          /\ j' = j /\ jk' = jk /\ retryConnection' = retryConnection /\ input' = input
          /\ buffer' = buffer /\ result' = result /\ sent' = sent /\ got' = got
          /\ value' = value /\ retryNoData' = retryNoData /\ link' = link /\ conn' = conn
          /\ stream' = stream /\ status' = status
      BY <1>0, <1>b DEF readVars, smapiVars
    <2>l. k' \in 0..SEND_RETRY_LIMIT /\ lost \in Nat /\ lost' \in Nat
      BY <1>0, <2>0, ConversationAssumption DEF IInv, Types
    <2>c. Current' = Current + 1 /\ Current \in Nat
      BY <1>0, <2>0 DEF Current
    <2>1. Types'
      BY <1>0, <2>0, <2>l, TypesKept DEF IInv, Types, ConvTypeOK, Values, Steps, Connecting,
         Writing, Reading
    <2>2. RoundOK'
      <3>0. \A n \in Requests : n > Current' => n > Current
        BY <2>c DEF Requests
      <3>1. \A n \in Requests : n > Current' => status[n] = "none"
        BY <3>0 DEF IInv, RoundOK
      <3>2. k' < SEND_RETRY_LIMIT => Current' \in Requests /\ Current' > Current
        BY <1>0, <2>0, <2>c, ConversationAssumption DEF Current, Requests
      <3>3. k' < SEND_RETRY_LIMIT => status'[Current'] = "none"
        BY <2>0, <3>2 DEF IInv, RoundOK
      <3> QED  BY <2>0, <3>1, <3>3 DEF RoundOK, Asking, InRecovery, Reading
    <2>3. HoldsOK'
      BY <1>0, <2>0, <2>l DEF IInv, Types, ConvTypeOK, HoldsOK, Over, Connecting, Current
    <2>4. MissedOK'
      BY <1>0, <2>0, <2>l, MissedMore DEF IInv, MissedOK
    <2>5. OrderOK'
      BY <1>0, <2>0, <2>l DEF IInv, Types, ConvTypeOK, OrderOK, InOrder, Expected, Receives,
         After, Reading, Current
    <2>6. CodesOK'
      BY <1>0, <2>0, <2>l DEF IInv, Types, ConvTypeOK, CodesOK, Receives, Reading, Current
    <2>7. AskedOK'
      BY <1>0, <2>0, <2>l DEF IInv, AskedOK, Nothing, Writing, InRecovery, Current
    <2> QED  BY <2>1, <2>2, <2>3, <2>4, <2>5, <2>6, <2>7 DEF IInv
  <1> QED  BY <1>a, <1>b DEF IdFails

(* The length of the answer has come: the request is not needed any more. *)
LEMMA LengthReadOK ==
  ASSUME IInv, LengthRead
  PROVE  IInv'
  <1>0. /\ step = "length" /\ got = Parts /\ sock = "open" /\ step' = "allocate"
        /\ input' = "freed"
        /\ k' = k /\ j' = j /\ jk' = jk /\ retryConnection' = retryConnection /\ sock' = sock
        /\ buffer' = buffer /\ saverc' = saverc /\ result' = result /\ sent' = sent
        /\ got' = got /\ value' = value /\ retryNoData' = retryNoData /\ link' = link
        /\ conn' = conn /\ stream' = stream /\ status' = status /\ lost' = lost
    BY DEF LengthRead, FieldRead, loopVars, readVars, smapiVars
  <1>l. Parts \in Nat /\ Parts # 0 /\ ~(Parts < Parts)
    BY ConversationAssumption
  <1>1. Types'
    BY <1>0, <1>l, TypesKept DEF IInv, Types, ConvTypeOK, Values, Steps, Connecting, Writing,
       Reading
  <1>2. RoundOK'
    BY <1>0, <1>l DEF IInv, Types, ConvTypeOK, RoundOK, Connecting, Writing, Reading, InRecovery,
       Over, Asking, Requests, Current
  <1>3. HoldsOK'
    BY <1>0, <1>l DEF IInv, Types, ConvTypeOK, HoldsOK, Over, Connecting, Current
  <1>4. MissedOK'
    BY <1>0, <1>l DEF IInv, MissedOK, Missed
  <1>5. OrderOK'
    BY <1>0, <1>l DEF IInv, Types, ConvTypeOK, OrderOK, InOrder, Expected, Receives, After,
       Reading, Current
  <1>6. CodesOK'
    BY <1>0, <1>l DEF IInv, Types, ConvTypeOK, CodesOK, Receives, Reading, Current
  <1>7. AskedOK'
    BY <1>0, <1>l DEF IInv, AskedOK, Nothing, Writing, InRecovery, Current
  <1> QED  BY <1>1, <1>2, <1>3, <1>4, <1>5, <1>6, <1>7 DEF IInv

(* It does not come: Response_Recovery is tried. *)
LEMMA LengthFailsOK ==
  ASSUME IInv, LengthFails
  PROVE  IInv'
  <1>0. /\ step = "length" /\ sock' = "closed" /\ UNCHANGED <<buffer, smapiVars>>
        /\ buffer \in {"none", "freed"}
    BY ReadingIs DEF LengthFails, ReadFails, Reading
  <1>a. ASSUME NEW rc, Return(rc, TRUE) PROVE IInv'
    BY <1>0, <1>a, ReturnOK
  <1>b. CASE /\ step' = "recovery connect" /\ retryConnection' = 1
             /\ UNCHANGED <<k, j, jk, input, result, sent, readVars, lost>>
    <2>0. /\ step = "length" /\ step' = "recovery connect" /\ sock' = "closed"
          /\ retryConnection' = 1
          /\ k' = k /\ j' = j /\ jk' = jk /\ input' = input /\ buffer' = buffer
          /\ result' = result /\ sent' = sent /\ got' = got /\ value' = value
          /\ retryNoData' = retryNoData /\ link' = link /\ conn' = conn /\ stream' = stream
          /\ status' = status /\ lost' = lost
      BY <1>0, <1>b DEF readVars, smapiVars
    <2>l. 1 \in 1..RETRY_CONNECTION_LIMIT
      BY ConversationAssumption
    <2>1. Types'
      BY <2>0, <2>l, TypesKept DEF IInv, Types, ConvTypeOK, Values, Steps, Connecting, Writing,
         Reading
    <2>2. RoundOK'
      BY <2>0, <2>l DEF IInv, Types, ConvTypeOK, RoundOK, Connecting, Writing, Reading,
         InRecovery, Over, Asking, Requests, Current
    <2>3. HoldsOK'
      BY <2>0, <2>l DEF IInv, Types, ConvTypeOK, HoldsOK, Over, Connecting, Current
    <2>4. MissedOK'
      BY <2>0, <2>l DEF IInv, MissedOK, Missed
    <2>5. OrderOK'
      BY <2>0, <2>l DEF IInv, Types, ConvTypeOK, OrderOK, InOrder, Expected, Receives, After,
         Reading, Current
    <2>6. CodesOK'
      BY <2>0, <2>l DEF IInv, Types, ConvTypeOK, CodesOK, Receives, Reading, Current
    <2>7. AskedOK'
      BY <2>0, <2>l DEF IInv, AskedOK, Nothing, Writing, InRecovery, Current
    <2> QED  BY <2>1, <2>2, <2>3, <2>4, <2>5, <2>6, <2>7 DEF IInv
  <1> QED  BY <1>a, <1>b DEF LengthFails

(* The first two fields of a Response_Recovery. *)
LEMMA RecoveryFieldReadOK ==
  ASSUME IInv, RecoveryFieldRead
  PROVE  IInv'
  <1>0. /\ \/ step = "recovery id" /\ step' = "recovery length"
           \/ step = "recovery length" /\ step' = "recovery codes"
        /\ got = Parts /\ sock = "open"
        /\ k' = k /\ j' = j /\ jk' = jk /\ retryConnection' = retryConnection /\ sock' = sock
        /\ input' = input /\ buffer' = buffer /\ saverc' = saverc /\ result' = result
        /\ sent' = sent /\ link' = link /\ conn' = conn /\ stream' = stream /\ status' = status
        /\ lost' = lost
    BY DEF RecoveryFieldRead, FieldRead, loopVars, smapiVars
  <1>l. Parts \in Nat /\ Parts # 0 /\ ~(Parts < Parts)
    BY ConversationAssumption
  <1>n. /\ got' = 0 /\ value' = "none" /\ retryNoData' = 0
        /\ ~(got' > 0) /\ got' < Parts /\ got' + 1 = 1
        /\ got' \in 0..Parts /\ value' \in Values /\ retryNoData' \in 0..(NoDataLimit + 1)
    BY NewReadIs DEF RecoveryFieldRead
  <1>1. Types'
    BY <1>0, <1>l, <1>n, TypesKept DEF IInv, Types, ConvTypeOK, Values, Steps, Connecting,
       Writing, Reading
  <1>2. RoundOK'
    BY <1>0, <1>l, <1>n DEF IInv, Types, ConvTypeOK, RoundOK, Connecting, Writing, Reading,
       InRecovery, Over, Asking, Requests, Current
  <1>3. HoldsOK'
    BY <1>0, <1>l, <1>n DEF IInv, Types, ConvTypeOK, HoldsOK, Over, Connecting, Current
  <1>4. MissedOK'
    BY <1>0, <1>l, <1>n DEF IInv, MissedOK, Missed
  <1>5. OrderOK'
    <2>1. step \in Reading /\ step' \in Reading /\ step' = After(step) /\ step' # "allocate"
      BY <1>0 DEF Reading, After
    <2>2. /\ \A i \in 1..Len(stream) : stream[i].of = Current
          /\ InOrder(stream)
          /\ stream # <<>> => stream[1].field = After(step) /\ stream[1].part = 1
      BY <1>0, <1>l, <2>1 DEF IInv, OrderOK, Receives, Expected, Reading
    <2> QED  BY <1>0, <1>n, <2>1, <2>2 DEF OrderOK, InOrder, Expected, Current
  <1>6. CodesOK'
    <2>1. Receives /\ value' # "again" /\ ~(got' > 0)
      BY <1>0, <1>n DEF Receives, Reading
    <2> QED  BY <1>0, <2>1 DEF IInv, CodesOK, Current
  <1>7. AskedOK'
    BY <1>0, <1>l, <1>n DEF IInv, AskedOK, Nothing, Writing, InRecovery, Current
  <1> QED  BY <1>1, <1>2, <1>3, <1>4, <1>5, <1>6, <1>7 DEF IInv

(* The codes of the Response_Recovery. *)
LEMMA RecoveryCodesOK ==
  ASSUME IInv, RecoveryCodes
  PROVE  IInv'
  <1>0. /\ step = "recovery codes" /\ got = Parts /\ sock = "open"
        /\ UNCHANGED <<sock, buffer, smapiVars>>
        /\ buffer \in {"none", "freed"} /\ input = "held" /\ k \in Nat /\ k < SEND_RETRY_LIMIT
        /\ status[Current] # "none" /\ Current \in Requests /\ Current = k + 1
    BY ReadingIs DEF RecoveryCodes, FieldRead, Reading
  <1>k. k \in Nat /\ k < SEND_RETRY_LIMIT /\ Current = k + 1 /\ SEND_RETRY_LIMIT \in Nat
    BY <1>0, ConversationAssumption
  <1>l. Parts \in Nat /\ Parts # 0 /\ Parts > 0 /\ ~(Parts < Parts)
    BY ConversationAssumption
  <1>v. value \in Codes /\ conn # "recovery" /\ (value = "again" => status[Current] = "dropped")
    BY <1>0, <1>l DEF IInv, CodesOK, AskedOK
  <1>a. CASE /\ value = "found" /\ step' = "allocate" /\ input' = "freed" /\ value' = "full"
             /\ UNCHANGED <<loopVars, result, sent, got, retryNoData, lost>>
    <2>0. /\ step' = "allocate" /\ input' = "freed" /\ value' = "full"
          /\ k' = k /\ j' = j /\ jk' = jk /\ retryConnection' = retryConnection /\ sock' = sock
          /\ buffer' = buffer /\ result' = result /\ sent' = sent /\ got' = got
          /\ retryNoData' = retryNoData /\ link' = link /\ conn' = conn /\ stream' = stream
          /\ status' = status /\ lost' = lost
      BY <1>0, <1>a DEF loopVars, smapiVars
    <2>1. Types'
      BY <1>0, <1>l, <2>0, TypesKept DEF IInv, Types, ConvTypeOK, Values, Steps, Connecting,
         Writing, Reading
    <2>2. RoundOK'
      BY <1>0, <1>l, <2>0 DEF IInv, Types, ConvTypeOK, RoundOK, Connecting, Writing, Reading,
         InRecovery, Over, Asking, Requests, Current
    <2>3. HoldsOK'
      BY <1>0, <1>l, <2>0 DEF IInv, Types, ConvTypeOK, HoldsOK, Over, Connecting, Current
    <2>4. MissedOK'
      BY <1>0, <1>l, <2>0 DEF IInv, MissedOK, Missed
    <2>5. OrderOK'
      BY <1>0, <1>l, <2>0 DEF IInv, Types, ConvTypeOK, OrderOK, InOrder, Expected, Receives,
         After, Reading, Current
    <2>6. CodesOK'
      BY <1>0, <1>l, <2>0 DEF IInv, Types, ConvTypeOK, CodesOK, Receives, Reading, Current
    <2>7. AskedOK'
      BY <1>0, <1>l, <2>0 DEF IInv, AskedOK, Nothing, Writing, InRecovery, Current
    <2> QED  BY <2>1, <2>2, <2>3, <2>4, <2>5, <2>6, <2>7 DEF IInv
  <1>b. CASE /\ value = "again" /\ step' = "redrive" /\ k' = k + 1 /\ saverc' = "again"
             /\ UNCHANGED <<j, jk, retryConnection, input, result, sent, readVars, lost>>
    <2>0. /\ step' = "redrive" /\ k' = k + 1 /\ saverc' = "again"
          /\ j' = j /\ jk' = jk /\ retryConnection' = retryConnection /\ sock' = sock
          /\ input' = input /\ buffer' = buffer /\ result' = result /\ sent' = sent
          /\ got' = got /\ value' = value /\ retryNoData' = retryNoData /\ link' = link
          /\ conn' = conn /\ stream' = stream /\ status' = status /\ lost' = lost
      BY <1>0, <1>b DEF readVars, smapiVars
    <2>d. status[k + 1] = "dropped"
      BY <1>0, <1>b, <1>v DEF Current
    <2>c. Current' = k + 1 + 1
      BY <2>0 DEF Current
    <2>m. k' = k + 1
      BY <2>0
    <2>l. k' \in 0..SEND_RETRY_LIMIT /\ k' > 0
      BY <1>k, <2>m
    <2>1. Types'
      BY <1>0, <2>0, <2>l, TypesKept DEF IInv, Types, ConvTypeOK, Values, Steps, Connecting,
         Writing, Reading
    <2>2. RoundOK'
      <3>0. \A n \in Requests : n > Current' => n > Current
        BY <1>k, <2>c DEF Requests
      <3>1. \A n \in Requests : n > Current' => status[n] = "none"
        BY <3>0 DEF IInv, RoundOK
      <3>2. k' < SEND_RETRY_LIMIT => Current' \in Requests /\ Current' > Current
        BY <1>k, <2>m, <2>c DEF Requests
      <3>3. k' < SEND_RETRY_LIMIT => status'[Current'] = "none"
        BY <2>0, <3>2 DEF IInv, RoundOK
      <3> QED  BY <2>0, <3>1, <3>3 DEF RoundOK, Asking, InRecovery, Reading
    <2>3. HoldsOK'
      BY <1>0, <2>0, <2>l DEF IInv, Types, ConvTypeOK, HoldsOK, Over, Connecting, Current
    <2>4. MissedOK'
      <3>1. \A n : n \in 1..(k + 1) <=> n \in 1..k \/ n = k + 1
        BY <1>k
      <3>2. Missed' = Missed
        BY <2>0, <2>d, <3>1 DEF Missed
      <3> QED  BY <2>0, <3>2 DEF IInv, MissedOK
    <2>5. OrderOK'
      BY <1>0, <2>0, <2>l DEF IInv, Types, ConvTypeOK, OrderOK, InOrder, Expected, Receives,
         After, Reading, Current
    <2>6. CodesOK'
      BY <1>0, <2>0, <2>l DEF IInv, Types, ConvTypeOK, CodesOK, Receives, Reading, Current
    <2>7. AskedOK'
      <3>1. conn = "nothing"
        BY <1>0, <1>v DEF IInv, Types, AskedOK, InRecovery
      <3> QED  BY <1>0, <2>0, <3>1 DEF AskedOK, Writing, InRecovery
    <2> QED  BY <2>1, <2>2, <2>3, <2>4, <2>5, <2>6, <2>7 DEF IInv
  <1>c. CASE value \notin {"found", "again"} /\ Return(value, TRUE)
    <2>1. value \in Excused
      BY <1>c, <1>v DEF Codes, Excused
    <2> QED  BY <1>0, <1>c, <2>1, ReturnOK
  <1> QED  BY <1>a, <1>b, <1>c DEF RecoveryCodes

(* The Response_Recovery does not come: the length is waited for again, or  *)
(* the tries are used up.                                                   *)
LEMMA RecoveryFailsOK ==
  ASSUME IInv, RecoveryFails
  PROVE  IInv'
  <1>0. /\ step \in InRecovery /\ sock' = "closed" /\ UNCHANGED <<buffer, smapiVars>>
        /\ buffer \in {"none", "freed"} /\ input = "held"
    BY DEF RecoveryFails, ReadFails, InRecovery, IInv, Types, ConvTypeOK, HoldsOK, Over
  <1>k. k < SEND_RETRY_LIMIT /\ status[Current] # "none" /\ jk < SEND_RETRY_LIMIT
    BY <1>0 DEF IInv, RoundOK, InRecovery, Asking, Reading
  <1>j. jk + 1 \in 0..SEND_RETRY_LIMIT
    <2>1. jk \in 0..SEND_RETRY_LIMIT /\ jk < SEND_RETRY_LIMIT
      BY <1>k DEF IInv, Types, ConvTypeOK
    <2> QED  BY <2>1, ConversationAssumption
  <1>a. ASSUME NEW rc, Return(rc, TRUE) PROVE IInv'
    <2>1. step # "done"
      BY <1>0 DEF InRecovery
    <2> QED  BY <1>0, <1>a, <2>1, ReturnOK
  <1>b. ASSUME NEW rc, RecoverAgain(rc), jk + 1 >= SEND_RETRY_LIMIT PROVE IInv'
    <2>0. /\ step \in InRecovery /\ step' = "done" /\ sock' = "closed" /\ input' = "freed"
          /\ jk' = jk + 1
          /\ k' = k /\ j' = j /\ retryConnection' = retryConnection /\ buffer' = buffer
          /\ sent' = sent /\ got' = got /\ value' = value /\ retryNoData' = retryNoData
          /\ link' = link /\ conn' = conn /\ stream' = stream /\ status' = status
          /\ lost' = lost
      BY <1>0, <1>b DEF RecoverAgain, readVars, smapiVars
    <2>l. jk' \in 0..SEND_RETRY_LIMIT
      BY <1>j, <2>0
    <2>1. Types'
      BY <2>0, <2>l, TypesKept DEF IInv, Types, ConvTypeOK, Values, Steps, Connecting, Writing,
         Reading
    <2>2. RoundOK'
      BY <2>0, <2>l DEF IInv, Types, ConvTypeOK, RoundOK, Connecting, Writing, Reading,
         InRecovery, Over, Asking, Requests, Current
    <2>3. HoldsOK'
      BY <1>0, <2>0 DEF HoldsOK, Over, Connecting
    <2>4. MissedOK'
      BY <2>0, <2>l DEF IInv, MissedOK, Missed
    <2>5. OrderOK'
      BY <2>0, <2>l DEF IInv, Types, ConvTypeOK, OrderOK, InOrder, Expected, Receives, After,
         Reading, Current
    <2>6. CodesOK'
      BY <2>0, <2>l DEF IInv, Types, ConvTypeOK, CodesOK, Receives, Reading, Current
    <2>7. AskedOK'
      BY <2>0, <2>l DEF IInv, AskedOK, Nothing, Writing, InRecovery, Current
    <2> QED  BY <2>1, <2>2, <2>3, <2>4, <2>5, <2>6, <2>7 DEF IInv
  <1>c. ASSUME NEW rc, RecoverAgain(rc), ~(jk + 1 >= SEND_RETRY_LIMIT) PROVE IInv'
    <2>0. /\ step \in InRecovery /\ step' = "length" /\ sock' = "closed" /\ jk' = jk + 1
          /\ k' = k /\ j' = j /\ retryConnection' = retryConnection /\ input' = input
          /\ buffer' = buffer /\ sent' = sent /\ link' = link /\ conn' = conn
          /\ stream' = stream /\ status' = status /\ lost' = lost
      BY <1>0, <1>c DEF RecoverAgain, smapiVars
    <2>n. /\ got' \in 0..Parts /\ value' \in Values /\ retryNoData' \in 0..(NoDataLimit + 1)
      BY <1>c, NewReadIs DEF RecoverAgain
    <2>l. jk' \in 0..SEND_RETRY_LIMIT /\ jk' < SEND_RETRY_LIMIT
      <3>1. jk + 1 \in 0..SEND_RETRY_LIMIT /\ jk + 1 < SEND_RETRY_LIMIT
        BY <1>j, <1>c, ConversationAssumption
      <3> QED  BY <2>0, <3>1
    <2>1. Types'
      BY <1>k, <2>0, <2>l, <2>n, TypesKept DEF IInv, Types, ConvTypeOK, Values, Steps, Connecting,
         Writing, Reading
    <2>2. RoundOK'
      BY <1>k, <2>0, <2>l, <2>n DEF IInv, Types, ConvTypeOK, RoundOK, Connecting, Writing,
         Reading, InRecovery, Over, Asking, Requests, Current
    <2>3. HoldsOK'
      BY <1>0, <2>0 DEF HoldsOK, Over, Connecting
    <2>4. MissedOK'
      BY <1>k, <2>0, <2>l, <2>n DEF IInv, MissedOK, Missed
    <2>5. OrderOK'
      BY <1>k, <2>0, <2>l, <2>n DEF IInv, Types, ConvTypeOK, OrderOK, InOrder, Expected, Receives,
         After, Reading, Current
    <2>6. CodesOK'
      BY <1>k, <2>0, <2>l, <2>n DEF IInv, Types, ConvTypeOK, CodesOK, Receives, Reading, Current
    <2>7. AskedOK'
      BY <1>k, <2>0, <2>l, <2>n DEF IInv, AskedOK, Nothing, Writing, InRecovery, Current
    <2> QED  BY <2>1, <2>2, <2>3, <2>4, <2>5, <2>6, <2>7 DEF IInv
  <1> QED  BY <1>a, <1>b, <1>c DEF RecoveryFails, RecoverAgain

-----------------------------------------------------------------------------
(* The answer *)

(* The buffer of the answer. *)
LEMMA AllocateOK ==
  ASSUME IInv, Allocate
  PROVE  IInv'
  <1>0. /\ step = "allocate" /\ UNCHANGED <<sock, smapiVars>> /\ input = "freed"
        /\ buffer \in {"none", "freed"} /\ sock \in {"none", "open", "closed"}
    BY DEF Allocate, IInv, Types, ConvTypeOK, HoldsOK, Over
  <1>a. ASSUME NEW rc \in Excused, Return(rc, FALSE), UNCHANGED buffer PROVE IInv'
    BY <1>0, <1>a, ReturnOK
  <1>b. CASE /\ buffer' = "held" /\ step' = "data" /\ NewRead
             /\ UNCHANGED <<loopVars, input, saverc, result, sent, lost>>
    <2>0. /\ step = "allocate" /\ step' = "data" /\ buffer' = "held"
          /\ k' = k /\ j' = j /\ jk' = jk /\ retryConnection' = retryConnection /\ sock' = sock
          /\ input' = input /\ saverc' = saverc /\ result' = result /\ sent' = sent
          /\ link' = link /\ conn' = conn /\ stream' = stream /\ status' = status
          /\ lost' = lost
      BY <1>0, <1>b DEF loopVars, smapiVars
    <2>n. /\ got' = 0 /\ value' = "none" /\ retryNoData' = 0
          /\ ~(got' > 0) /\ got' < Parts /\ got' + 1 = 1
          /\ got' \in 0..Parts /\ value' \in Values /\ retryNoData' \in 0..(NoDataLimit + 1)
      BY <1>b, NewReadIs
    <2>1. Types'
      BY <1>0, <2>0, <2>n, TypesKept DEF IInv, Types, ConvTypeOK, Values, Steps, Connecting,
         Writing, Reading
    <2>2. RoundOK'
      BY <1>0, <2>0, <2>n DEF IInv, Types, ConvTypeOK, RoundOK, Connecting, Writing, Reading,
         InRecovery, Over, Asking, Requests, Current
    <2>3. HoldsOK'
      BY <1>0, <2>0, <2>n DEF IInv, Types, ConvTypeOK, HoldsOK, Over, Connecting, Current
    <2>4. MissedOK'
      BY <1>0, <2>0, <2>n DEF IInv, MissedOK, Missed
    <2>5. OrderOK'
      BY <1>0, <2>0, <2>n DEF IInv, Types, ConvTypeOK, OrderOK, InOrder, Expected, Receives,
         After, Reading, Current
    <2>6. CodesOK'
      BY <1>0, <2>0, <2>n DEF IInv, Types, ConvTypeOK, CodesOK, Receives, Reading, Current
    <2>7. AskedOK'
      BY <1>0, <2>0, <2>n DEF IInv, AskedOK, Nothing, Writing, InRecovery, Current
    <2> QED  BY <2>1, <2>2, <2>3, <2>4, <2>5, <2>6, <2>7 DEF IInv
  <1> QED  BY <1>a, <1>b DEF Allocate, Excused

(* The answer does not come, or the socket cannot be closed. *)
LEMMA DataFailsOK ==
  ASSUME IInv, DataFails \/ TerminateFails
  PROVE  IInv'
  <1>1. /\ step = "data" /\ sock' = "closed" /\ buffer' = "freed" /\ UNCHANGED smapiVars
        /\ \E rc \in ReadFailures \cup {"processing"} : Return(rc, FALSE)
    BY DEF DataFails, TerminateFails, ReadFails, FieldRead
  <1>2. input = "freed"
    BY <1>1 DEF IInv, HoldsOK, Over
  <1> QED  BY <1>1, <1>2, ReturnOK

(* The answer has come: it will be parsed. *)
LEMMA DataReadOK ==
  ASSUME IInv, DataRead
  PROVE  IInv'
  <1>0. /\ step = "data" /\ step' = "parse" /\ sock' = "closed"
        /\ k' = k /\ j' = j /\ jk' = jk /\ retryConnection' = retryConnection /\ input' = input
        /\ buffer' = buffer /\ saverc' = saverc /\ result' = result /\ sent' = sent
        /\ link' = link /\ conn' = conn /\ stream' = stream /\ status' = status /\ lost' = lost
    BY DEF DataRead, FieldRead, ClosedSocket, loopVars, smapiVars
  <1>n. got' \in 0..Parts /\ value' \in Values /\ retryNoData' \in 0..(NoDataLimit + 1)
    BY NewReadIs DEF DataRead
  <1>1. Types'
    BY <1>0, <1>n, TypesKept DEF IInv, Types, ConvTypeOK, Values, Steps, Connecting, Writing,
       Reading
  <1>2. RoundOK'
    BY <1>0, <1>n DEF IInv, Types, ConvTypeOK, RoundOK, Connecting, Writing, Reading, InRecovery,
       Over, Asking, Requests, Current
  <1>3. HoldsOK'
    BY <1>0, <1>n DEF IInv, Types, ConvTypeOK, HoldsOK, Over, Connecting, Current
  <1>4. MissedOK'
    BY <1>0, <1>n DEF IInv, MissedOK, Missed
  <1>5. OrderOK'
    BY <1>0, <1>n DEF IInv, Types, ConvTypeOK, OrderOK, InOrder, Expected, Receives, After,
       Reading, Current
  <1>6. CodesOK'
    BY <1>0, <1>n DEF IInv, Types, ConvTypeOK, CodesOK, Receives, Reading, Current
  <1>7. AskedOK'
    BY <1>0, <1>n DEF IInv, AskedOK, Nothing, Writing, InRecovery, Current
  <1> QED  BY <1>1, <1>2, <1>3, <1>4, <1>5, <1>6, <1>7 DEF IInv

(* A step of getAndParseSmapiBuffer. *)
LEMMA ClientOK ==
  ASSUME IInv, Client
  PROVE  IInv'
  BY RedriveOK, ConnectOK, NoSocketOK, RefusedOK, SendOK, WriteFailsOK, ReceiveOK,
     ReceiveNothingOK, IdReadOK, IdFailsOK, LengthReadOK, LengthFailsOK, RecoveryFieldReadOK,
     RecoveryCodesOK, RecoveryFailsOK, AllocateOK, DataReadOK, DataFailsOK DEF Client

-----------------------------------------------------------------------------
(* SMAPI *)

Ends(s, name) == s # <<>> /\ s[Len(s)].field = name /\ s[Len(s)].part = Parts
Starts(s, name) == s # <<>> /\ s[1].field = name /\ s[1].part = 1

\* A field on the connection.
LEMMA FieldIs ==
  ASSUME NEW name \in Reading, NEW n \in Requests, NEW v \in Values
  PROVE  LET f == Field(name, n, v)
         IN /\ f \in Seq(StreamPart) /\ Len(f) = Parts /\ InOrder(f)
            /\ Starts(f, name) /\ Ends(f, name)
            /\ \A i \in 1..Len(f) : f[i].field = name /\ f[i].of = n /\ f[i].value = v
  <1> DEFINE f == Field(name, n, v)
  <1>0. Parts \in Nat /\ Parts # 0
    BY ConversationAssumption
  <1>1. f \in [1..Parts -> StreamPart]
    BY DEF Field, StreamPart
  <1>2. /\ \A i \in 1..Parts : f[i].field = name /\ f[i].of = n /\ f[i].value = v
        /\ \A i \in 1..Parts : f[i].part = i
    BY DEF Field
  <1>3. f \in Seq(StreamPart)
    BY <1>0, <1>1, SeqDef
  <1>4. Len(f) = Parts
    <2>1. DOMAIN f = 1..Parts
      BY <1>1
    <2> QED  BY <1>0, <1>3, <2>1, LenProperties
  <1> HIDE DEF f
  <1>5. f # <<>>
    BY <1>0, <1>4, EmptySeq
  <1>6. InOrder(f)
    <2> SUFFICES ASSUME NEW i \in 1..(Parts - 1) PROVE Follows(f[i], f[i + 1])
      BY <1>4 DEF InOrder
    <2>1. i \in 1..Parts /\ i + 1 \in 1..Parts /\ i < Parts
      BY <1>0
    <2> QED  BY <1>2, <2>1 DEF Follows
  <1>7. 1 \in 1..Parts /\ Parts \in 1..Parts
    BY <1>0
  <1>8. Starts(f, name) /\ Ends(f, name)
    BY <1>2, <1>4, <1>5, <1>7 DEF Starts, Ends
  <1> QED  BY <1>2, <1>3, <1>4, <1>6, <1>8 DEF f

\* A field behind what is on the connection already.
LEMMA FieldBehind ==
  ASSUME NEW s \in Seq(StreamPart), InOrder(s),
         NEW before, NEW name \in Reading, NEW n \in Requests, NEW v \in Values,
         Ends(s, before), After(before) = name
  PROVE  LET t == s \o Field(name, n, v)
         IN /\ t \in Seq(StreamPart) /\ InOrder(t) /\ Ends(t, name)
            /\ t # <<>> /\ t[1] = s[1]
            /\ \A i \in 1..Len(t) :
                 \/ i \in 1..Len(s) /\ t[i] = s[i]
                 \/ t[i].field = name /\ t[i].of = n /\ t[i].value = v
  <1> DEFINE f == Field(name, n, v)
             t == s \o f
  <1>1. /\ f \in Seq(StreamPart) /\ Len(f) = Parts /\ InOrder(f) /\ Starts(f, name) /\ Ends(f, name)
        /\ \A i \in 1..Len(f) : f[i].field = name /\ f[i].of = n /\ f[i].value = v
    BY FieldIs
  <1> HIDE DEF f
  <1>2. /\ t \in Seq(StreamPart) /\ Len(t) = Len(s) + Len(f)
        /\ \A i \in 1..(Len(s) + Len(f)) : t[i] = IF i <= Len(s) THEN s[i] ELSE f[i - Len(s)]
    BY <1>1, ConcatProperties
  <1>3. Len(s) \in Nat /\ Len(s) # 0 /\ Len(f) \in Nat /\ Len(f) # 0
    <2>1. s # <<>> /\ f # <<>>
      BY <1>1 DEF Ends
    <2> QED  BY <1>1, <2>1, EmptySeq
  <1> HIDE DEF t
  <1>4. \A i \in 1..Len(s) : t[i] = s[i]
    BY <1>2, <1>3
  <1>5. \A i \in 1..Len(f) : t[Len(s) + i] = f[i]
    BY <1>2, <1>3
  <1>6. ASSUME NEW i \in 1..Len(t)
        PROVE  \/ i \in 1..Len(s) /\ t[i] = s[i]
               \/ \E m \in 1..Len(f) : i = Len(s) + m /\ t[i] = f[m]
    <2>1. CASE i <= Len(s)
      BY <2>1, <1>2, <1>3, <1>4
    <2>2. CASE ~(i <= Len(s))
      <3>1. i - Len(s) \in 1..Len(f) /\ i = Len(s) + (i - Len(s))
        BY <2>2, <1>2, <1>3
      <3> QED  BY <3>1, <1>5
    <2> QED  BY <2>1, <2>2
  <1>7. InOrder(t)
    <2> SUFFICES ASSUME NEW i \in 1..(Len(t) - 1) PROVE Follows(t[i], t[i + 1])
      BY DEF InOrder
    <2>1. CASE i < Len(s)
      <3>1. i \in 1..(Len(s) - 1) /\ i \in 1..Len(s) /\ i + 1 \in 1..Len(s)
        BY <2>1, <1>3
      <3> QED  BY <3>1, <1>4 DEF InOrder
    <2>2. CASE i = Len(s)
      <3>1. i \in 1..Len(s) /\ 1 \in 1..Len(f)
        BY <2>2, <1>3
      <3>2. t[i] = s[Len(s)] /\ t[i + 1] = f[1]
        BY <2>2, <3>1, <1>4, <1>5
      <3>3. Parts \in Nat
        BY ConversationAssumption
      <3> QED  BY <3>2, <3>3, <1>1 DEF Follows, Ends, Starts
    <2>3. CASE i > Len(s)
      <3>1. /\ i - Len(s) \in 1..(Len(f) - 1) /\ i - Len(s) \in 1..Len(f)
            /\ i - Len(s) + 1 \in 1..Len(f)
            /\ Len(s) + (i - Len(s)) = i /\ Len(s) + (i - Len(s) + 1) = i + 1
        BY <2>3, <1>2, <1>3
      <3>2. t[i] = f[i - Len(s)] /\ t[i + 1] = f[i - Len(s) + 1]
        BY <3>1, <1>5
      <3> QED  BY <3>1, <3>2, <1>1 DEF InOrder
    <2> QED  BY <2>1, <2>2, <2>3, <1>2, <1>3
  <1>8. Ends(t, name) /\ t # <<>>
    <2>1. Len(f) \in 1..Len(f)
      BY <1>3
    <2>2. t[Len(t)] = f[Len(f)]
      BY <2>1, <1>2, <1>5
    <2>3. t # <<>>
      BY <1>2, <1>3, EmptySeq
    <2> QED  BY <2>2, <2>3, <1>1 DEF Ends
  <1>9. t[1] = s[1]
    BY <1>3, <1>4
  <1>10. ASSUME NEW i \in 1..Len(t)
         PROVE  \/ i \in 1..Len(s) /\ t[i] = s[i]
                \/ t[i].field = name /\ t[i].of = n /\ t[i].value = v
    BY <1>1, <1>6
  <1> QED  BY <1>2, <1>7, <1>8, <1>9, <1>10 DEF t, f

(* SMAPI goes on with a request that it has. *)
LEMMA StatusMoves ==
  ASSUME IInv, NEW n \in Requests, NEW s \in {"taken", "ran", "dropped"},
         status[n] \in {"sent", "taken"}, s = "dropped" => n = Current,
         status' = [status EXCEPT ![n] = s], UNCHANGED clientVars
  PROVE  /\ RoundOK' /\ HoldsOK' /\ MissedOK'
         /\ status' \in [Requests -> {"none", "sent", "taken", "ran", "dropped"}]
         /\ status'[n] = s /\ \A m \in Requests : m # n => status'[m] = status[m]
         /\ \A m \in Requests : status[m] = "dropped" => status'[m] = "dropped"
         /\ Current' = Current
  <1>0. /\ step' = step /\ k' = k /\ j' = j /\ jk' = jk /\ retryConnection' = retryConnection
        /\ sock' = sock /\ input' = input /\ buffer' = buffer /\ saverc' = saverc
        /\ result' = result /\ sent' = sent /\ got' = got /\ value' = value
        /\ retryNoData' = retryNoData /\ lost' = lost
    BY DEF clientVars, loopVars, readVars
  <1>1. /\ status' \in [Requests -> {"none", "sent", "taken", "ran", "dropped"}]
        /\ status'[n] = s /\ \A m \in Requests : m # n => status'[m] = status[m]
    BY DEF IInv, Types, ConvTypeOK
  <1>2. Current' = Current
    BY <1>0 DEF Current
  <1>3. RoundOK'
    <2>1. \A m \in Requests : m > Current => status'[m] = "none"
      BY <1>1 DEF IInv, RoundOK
    <2>2. k < SEND_RETRY_LIMIT => Current \in Requests
      <3>1. k \in 0..SEND_RETRY_LIMIT
        BY DEF IInv, Types, ConvTypeOK
      <3> QED  BY <3>1, ConversationAssumption DEF Current, Requests
    <2>3. step # "redrive" /\ step # "done" => k < SEND_RETRY_LIMIT
      BY DEF IInv, RoundOK
    <2> QED  BY <1>0, <1>1, <1>2, <2>1, <2>2, <2>3
          DEF IInv, RoundOK, Asking, InRecovery, Reading
  <1>4. HoldsOK'
    <2>1. k < SEND_RETRY_LIMIT => Current \in Requests
      <3>1. k \in 0..SEND_RETRY_LIMIT
        BY DEF IInv, Types, ConvTypeOK
      <3> QED  BY <3>1, ConversationAssumption DEF Current, Requests
    <2>2. k < SEND_RETRY_LIMIT /\ status[Current] # "none" => status'[Current] # "none"
      BY <1>1, <2>1
    <2> QED  BY <1>0, <1>2, <2>2 DEF IInv, HoldsOK
  <1>5. MissedOK'
    <2>1. \A m \in 1..k : m \in Requests /\ m # Current
      <3>1. k \in 0..SEND_RETRY_LIMIT
        BY DEF IInv, Types, ConvTypeOK
      <3> QED  BY <3>1, ConversationAssumption DEF Current, Requests
    <2>2. \A m \in 1..k : status'[m] # "dropped" <=> status[m] # "dropped"
      BY <1>1, <2>1
    <2>3. Missed' = Missed
      BY <1>0, <2>2 DEF Missed
    <2> QED  BY <1>0, <2>3 DEF IInv, MissedOK
  <1> QED  BY <1>1, <1>2, <1>3, <1>4, <1>5

(* Nobody waits for it: the connection does not see it. *)
LEMMA UnseenOK ==
  ASSUME IInv, NEW n \in Requests, NEW s \in {"taken", "ran"},
         status[n] \in {"sent", "taken"}, ~Waits(n),
         status' = [status EXCEPT ![n] = s], stream' = stream,
         UNCHANGED <<clientVars, link, conn>>
  PROVE  IInv'
  <1>0. /\ link' = link /\ conn' = conn /\ stream' = stream
        /\ step' = step /\ k' = k /\ j' = j /\ jk' = jk /\ retryConnection' = retryConnection
        /\ sock' = sock /\ input' = input /\ buffer' = buffer /\ saverc' = saverc
        /\ result' = result /\ sent' = sent /\ got' = got /\ value' = value
        /\ retryNoData' = retryNoData /\ lost' = lost
    BY DEF clientVars, loopVars, readVars
  <1>1. /\ RoundOK' /\ HoldsOK' /\ MissedOK'
        /\ status' \in [Requests -> {"none", "sent", "taken", "ran", "dropped"}]
        /\ \A m \in Requests : m # n => status'[m] = status[m]
        /\ \A m \in Requests : status[m] = "dropped" => status'[m] = "dropped"
        /\ Current' = Current
    BY StatusMoves
  <1>2. k < SEND_RETRY_LIMIT => Current \in Requests
    <2>1. k \in 0..SEND_RETRY_LIMIT
      BY DEF IInv, Types, ConvTypeOK
    <2> QED  BY <2>1, ConversationAssumption DEF Current, Requests
  <1>3. Types'
    BY <1>0, <1>1 DEF IInv, Types, ConvTypeOK
  <1>4. OrderOK'
    BY <1>0, <1>1 DEF IInv, OrderOK, Receives, Expected, InOrder
  <1>5. CodesOK'
    <2>1. step = "recovery codes" \/ Receives => Current \in Requests
      BY <1>2 DEF IInv, RoundOK, Receives, Reading
    <2> QED  BY <1>0, <1>1, <2>1 DEF IInv, CodesOK, Receives
  <1>6. AskedOK'
    <2>1. conn = "request" /\ link = "up" /\ sock = "open" /\ k < SEND_RETRY_LIMIT
            => status'[Current] = status[Current]
      BY <1>1, <1>2 DEF Waits
    <2> QED  BY <1>0, <1>1, <2>1 DEF IInv, AskedOK, Nothing
  <1> QED  BY <1>1, <1>3, <1>4, <1>5, <1>6 DEF IInv

(* SMAPI takes a request. *)
LEMMA TakeOK ==
  ASSUME IInv, NEW n \in Requests, Take(n)
  PROVE  IInv'
  <1>0. /\ status[n] = "sent" /\ status' = [status EXCEPT ![n] = "taken"]
        /\ link' = link /\ conn' = conn
        /\ step' = step /\ k' = k /\ j' = j /\ jk' = jk /\ retryConnection' = retryConnection
        /\ sock' = sock /\ input' = input /\ buffer' = buffer /\ saverc' = saverc
        /\ result' = result /\ sent' = sent /\ got' = got /\ value' = value
        /\ retryNoData' = retryNoData /\ lost' = lost
    BY DEF Take, clientVars, loopVars, readVars
  <1>a. CASE ~Waits(n)
    BY <1>0, <1>a, UnseenOK DEF Take
  <1>b. CASE Waits(n)
    <2>0. /\ n = Current /\ conn = "request" /\ sock = "open" /\ link = "up"
          /\ stream' = Field("id", n, "none") /\ k < SEND_RETRY_LIMIT
      <3>1. n = k + 1 /\ k \in 0..SEND_RETRY_LIMIT
        BY <1>b DEF Waits, Current, IInv, Types, ConvTypeOK
      <3>2. k < SEND_RETRY_LIMIT
        BY <3>1, ConversationAssumption DEF Requests
      <3> QED  BY <1>b, <3>2 DEF Waits, Take
    <2>1. step = "id" /\ got = 0
      BY <1>0, <2>0 DEF IInv, AskedOK, Nothing
    <2>2. /\ RoundOK' /\ HoldsOK' /\ MissedOK' /\ Current' = Current
          /\ status' \in [Requests -> {"none", "sent", "taken", "ran", "dropped"}]
          /\ status'[Current] = "taken"
      BY <1>0, <2>0, StatusMoves DEF Take
    <2>3. /\ stream' \in Seq(StreamPart) /\ InOrder(stream')
          /\ Starts(stream', "id") /\ Ends(stream', "id")
          /\ \A i \in 1..Len(stream') : stream'[i].field = "id" /\ stream'[i].of = n
      <3>1. "id" \in Reading /\ "none" \in Values
        BY DEF Reading, Values
      <3> QED  BY <2>0, <3>1, FieldIs
    <2>4. Types'
      BY <1>0, <2>2, <2>3 DEF IInv, Types, ConvTypeOK
    <2>5. OrderOK'
      <3>1. Expected(stream[1])'
        BY <1>0, <2>1, <2>3, ConversationAssumption DEF Expected, Starts
      <3> QED  BY <2>0, <2>2, <2>3, <3>1 DEF OrderOK, InOrder, Follows
    <2>6. CodesOK'
      BY <1>0, <2>1, <2>3 DEF CodesOK
    <2>7. AskedOK'
      BY <1>0, <2>0, <2>1, <2>2, <2>3 DEF AskedOK, Ends, Writing, InRecovery
    <2> QED  BY <2>2, <2>4, <2>5, <2>6, <2>7 DEF IInv
  <1> QED  BY <1>a, <1>b

(* SMAPI runs it, and answers if somebody waits. *)
LEMMA RunOK ==
  ASSUME IInv, NEW n \in Requests, Run(n)
  PROVE  IInv'
  <1>0. /\ status[n] = "taken" /\ status' = [status EXCEPT ![n] = "ran"]
        /\ link' = link /\ conn' = conn
        /\ step' = step /\ k' = k /\ j' = j /\ jk' = jk /\ retryConnection' = retryConnection
        /\ sock' = sock /\ input' = input /\ buffer' = buffer /\ saverc' = saverc
        /\ result' = result /\ sent' = sent /\ got' = got /\ value' = value
        /\ retryNoData' = retryNoData /\ lost' = lost
    BY DEF Run, clientVars, loopVars, readVars
  <1>a. CASE ~Waits(n)
    <2>1. stream' = stream
      BY <1>a DEF Run
    <2> QED  BY <1>0, <1>a, <2>1, UnseenOK DEF Run
  <1>b. CASE Waits(n)
    <2>0. /\ n = Current /\ conn = "request" /\ sock = "open" /\ link = "up"
          /\ k < SEND_RETRY_LIMIT
      <3>1. n = k + 1 /\ k \in 0..SEND_RETRY_LIMIT
        BY <1>b DEF Waits, Current, IInv, Types, ConvTypeOK
      <3>2. k < SEND_RETRY_LIMIT
        BY <3>1, ConversationAssumption DEF Requests
      <3> QED  BY <1>b, <3>2 DEF Waits
    <2>1. /\ \A i \in 1..Len(stream) : stream[i].field = "id"
          /\ stream = <<>> => (step = "id" /\ got = Parts) \/ (step = "length" /\ got = 0)
          /\ stream # <<>> => stream[Len(stream)].part = Parts /\ step = "id"
      BY <1>0, <2>0 DEF IInv, AskedOK
    <2>2. /\ RoundOK' /\ HoldsOK' /\ MissedOK' /\ Current' = Current
          /\ status' \in [Requests -> {"none", "sent", "taken", "ran", "dropped"}]
          /\ status'[Current] = "ran"
      BY <1>0, <2>0, StatusMoves DEF Run
    <2>3. PICK size \in {"full", "short"} :
            stream' = stream \o Field("length", n, size)
                             \o (IF size = "full" THEN Field("data", n, "none") ELSE <<>>)
      BY <1>b DEF Run
    <2>s. /\ stream \in Seq(StreamPart) /\ step \in {"id", "length"} /\ Receives
          /\ InOrder(stream) /\ \A i \in 1..Len(stream) : stream[i].of = n
          /\ stream # <<>> => Expected(stream[1])
      <3>1. stream \in Seq(StreamPart) /\ step \in {"id", "length"}
        BY <2>1 DEF IInv, Types
      <3>2. Receives
        BY <2>0, <3>1 DEF Receives, Reading
      <3> QED  BY <2>0, <3>1, <3>2 DEF IInv, OrderOK
    <2>v. /\ "length" \in Reading /\ "data" \in Reading /\ size \in Values /\ "none" \in Values
          /\ After("id") = "length" /\ After("length") = "data"
      BY DEF Reading, Values, After
    <2> DEFINE t == stream \o Field("length", n, size)
    <2>4. /\ t \in Seq(StreamPart) /\ InOrder(t) /\ Ends(t, "length") /\ t # <<>>
          /\ \A i \in 1..Len(t) : t[i].of = n /\ t[i].field \in {"id", "length"}
          /\ IF stream = <<>> THEN Starts(t, "length") ELSE t[1] = stream[1]
      <3>1. CASE stream = <<>>
        <4> DEFINE f == Field("length", n, size)
        <4>1. /\ f \in Seq(StreamPart) /\ InOrder(f) /\ Starts(f, "length") /\ Ends(f, "length")
              /\ \A i \in 1..Len(f) : f[i].field = "length" /\ f[i].of = n
          BY <2>v, FieldIs
        <4>2. t = f
          BY <3>1, <4>1, ConcatEmptySeq
        <4> HIDE DEF f, t
        <4> QED  BY <3>1, <4>1, <4>2 DEF Starts
      <3>2. CASE stream # <<>>
        <4>1. Ends(stream, "id")
          <5>1. Len(stream) \in 1..Len(stream)
            BY <2>s, <3>2, EmptySeq
          <5> QED  BY <2>1, <3>2, <5>1 DEF Ends
        <4>2. /\ t \in Seq(StreamPart) /\ InOrder(t) /\ Ends(t, "length")
              /\ t # <<>> /\ t[1] = stream[1]
              /\ \A i \in 1..Len(t) :
                   \/ i \in 1..Len(stream) /\ t[i] = stream[i]
                   \/ t[i].field = "length" /\ t[i].of = n /\ t[i].value = size
          BY <2>s, <2>v, <4>1, FieldBehind
        <4> HIDE DEF t
        <4> QED  BY <2>1, <2>s, <3>2, <4>2
      <3> QED  BY <3>1, <3>2
    <2> HIDE DEF t
    <2>5. /\ stream' \in Seq(StreamPart) /\ InOrder(stream') /\ stream' # <<>>
          /\ \A i \in 1..Len(stream') :
               stream'[i].of = n /\ stream'[i].field \in {"id", "length", "data"}
          /\ stream'[1] = t[1]
      <3>1. CASE size = "full"
        <4> DEFINE u == t \o Field("data", n, "none")
        <4>1. stream' = u
          BY <2>3, <3>1 DEF t
        <4>2. /\ u \in Seq(StreamPart) /\ InOrder(u) /\ u # <<>> /\ u[1] = t[1]
              /\ \A i \in 1..Len(u) :
                   \/ i \in 1..Len(t) /\ u[i] = t[i]
                   \/ u[i].field = "data" /\ u[i].of = n /\ u[i].value = "none"
          BY <2>v, <2>4, FieldBehind
        <4> HIDE DEF u
        <4> QED  BY <2>4, <4>1, <4>2
      <3>2. CASE size # "full"
        <4>1. stream' = t
          BY <2>3, <2>4, <3>2, ConcatEmptySeq DEF t
        <4> QED  BY <2>4, <4>1
      <3> QED  BY <3>1, <3>2
    <2>6. Types'
      BY <1>0, <2>2, <2>5 DEF IInv, Types, ConvTypeOK
    <2>7. OrderOK'
      <3>1. Expected(stream[1])'
        <4>1. CASE stream = <<>>
          <5>1. stream'[1].field = "length" /\ stream'[1].part = 1
            BY <2>4, <2>5, <4>1 DEF Starts
          <5>2. Parts \in Nat /\ Parts # 0 /\ ~(Parts < Parts) /\ 0 < Parts
            BY ConversationAssumption
          <5>3. step' = step /\ got' = got
            BY <1>0
          <5>4. CASE step = "id" /\ got = Parts
            BY <2>v, <5>1, <5>2, <5>3, <5>4 DEF Expected
          <5>5. CASE step = "length" /\ got = 0
            BY <5>1, <5>2, <5>3, <5>5 DEF Expected
          <5> QED  BY <2>1, <4>1, <5>4, <5>5
        <4>2. CASE stream # <<>>
          BY <1>0, <2>s, <2>4, <2>5, <4>2 DEF Expected
        <4> QED  BY <4>1, <4>2
      <3> QED  BY <2>0, <2>2, <2>5, <3>1 DEF OrderOK, InOrder, Follows
    <2>8. CodesOK'
      BY <1>0, <2>s, <2>5 DEF CodesOK
    <2>9. AskedOK'
      BY <1>0, <2>0, <2>s, <2>2 DEF AskedOK, Writing, InRecovery
    <2> QED  BY <2>2, <2>6, <2>7, <2>8, <2>9 DEF IInv
  <1> QED  BY <1>a, <1>b

\* The fields of the answer to Response_Recovery, each behind the other.
Recovered(a, b, c, d, n, v) ==
  Field(a, n, "none") \o Field(b, n, "full") \o Field(c, n, v)
  \o (IF v = "found" THEN Field(d, n, "none") ELSE <<>>)

LEMMA RecoveredIs ==
  ASSUME NEW a \in Reading, NEW b \in Reading, NEW c \in Reading, NEW d \in Reading,
         After(a) = b, After(b) = c, After(c) = d, a # c, b # c, d # c,
         NEW n \in Requests, NEW v \in Values
  PROVE  LET e == Recovered(a, b, c, d, n, v)
         IN /\ e \in Seq(StreamPart) /\ InOrder(e) /\ Starts(e, a)
            /\ \A i \in 1..Len(e) : e[i].of = n /\ (e[i].field = c => e[i].value = v)
  <1>v. "none" \in Values /\ "full" \in Values
    BY DEF Values
  <1> DEFINE f == Field(a, n, "none")
  <1>f. /\ f \in Seq(StreamPart) /\ InOrder(f) /\ Starts(f, a) /\ Ends(f, a)
        /\ \A i \in 1..Len(f) : f[i].field = a /\ f[i].of = n
    BY <1>v, FieldIs
  <1> HIDE DEF f
  <1> DEFINE s == f \o Field(b, n, "full")
  <1>s. /\ s \in Seq(StreamPart) /\ InOrder(s) /\ Starts(s, a) /\ Ends(s, b)
        /\ \A i \in 1..Len(s) : s[i].of = n /\ s[i].field # c
    <2>1. /\ s \in Seq(StreamPart) /\ InOrder(s) /\ Ends(s, b) /\ s # <<>> /\ s[1] = f[1]
          /\ \A i \in 1..Len(s) :
               \/ i \in 1..Len(f) /\ s[i] = f[i]
               \/ s[i].field = b /\ s[i].of = n /\ s[i].value = "full"
      BY <1>v, <1>f, FieldBehind
    <2> HIDE DEF s
    <2> QED  BY <1>f, <2>1 DEF Starts
  <1> HIDE DEF s
  <1> DEFINE t == s \o Field(c, n, v)
  <1>t. /\ t \in Seq(StreamPart) /\ InOrder(t) /\ Starts(t, a) /\ Ends(t, c)
        /\ \A i \in 1..Len(t) : t[i].of = n /\ (t[i].field = c => t[i].value = v)
    <2>1. /\ t \in Seq(StreamPart) /\ InOrder(t) /\ Ends(t, c) /\ t # <<>> /\ t[1] = s[1]
          /\ \A i \in 1..Len(t) :
               \/ i \in 1..Len(s) /\ t[i] = s[i]
               \/ t[i].field = c /\ t[i].of = n /\ t[i].value = v
      BY <1>s, FieldBehind
    <2> HIDE DEF t
    <2> QED  BY <1>s, <2>1 DEF Starts
  <1> HIDE DEF t
  <1> DEFINE u == t \o Field(d, n, "none")
  <1>u. /\ u \in Seq(StreamPart) /\ InOrder(u) /\ Starts(u, a)
        /\ \A i \in 1..Len(u) : u[i].of = n /\ (u[i].field = c => u[i].value = v)
    <2>1. /\ u \in Seq(StreamPart) /\ InOrder(u) /\ u # <<>> /\ u[1] = t[1]
          /\ \A i \in 1..Len(u) :
               \/ i \in 1..Len(t) /\ u[i] = t[i]
               \/ u[i].field = d /\ u[i].of = n /\ u[i].value = "none"
      BY <1>v, <1>t, FieldBehind
    <2> HIDE DEF u
    <2> QED  BY <1>t, <2>1 DEF Starts
  <1> DEFINE e == Recovered(a, b, c, d, n, v)
  <1>e. e = IF v = "found" THEN u ELSE t
    BY <1>t, ConcatEmptySeq DEF f, s, t, Recovered
  <1> HIDE DEF u, e
  <1>1. /\ e \in Seq(StreamPart) /\ InOrder(e) /\ Starts(e, a)
        /\ \A i \in 1..Len(e) : e[i].of = n /\ (e[i].field = c => e[i].value = v)
    <2>1. CASE e = u
      BY <1>u, <2>1
    <2>2. CASE e = t
      BY <1>t, <2>2
    <2> QED  BY <1>e, <2>1, <2>2
  <1> QED  BY <1>1 DEF e

(* SMAPI answers a Response_Recovery. *)
LEMMA RecoverOK ==
  ASSUME IInv, Recover
  PROVE  IInv'
  <1>0. /\ conn = "recovery" /\ sock = "open" /\ link = "up" /\ conn' = "nothing"
        /\ link' = link
        /\ step' = step /\ k' = k /\ j' = j /\ jk' = jk /\ retryConnection' = retryConnection
        /\ sock' = sock /\ input' = input /\ buffer' = buffer /\ saverc' = saverc
        /\ result' = result /\ sent' = sent /\ got' = got /\ value' = value
        /\ retryNoData' = retryNoData /\ lost' = lost
    BY DEF Recover, clientVars, loopVars, readVars
  <1>1. step = "recovery id" /\ got = 0
    BY <1>0 DEF IInv, AskedOK, Nothing
  <1>2. Current \in Requests /\ Current' = Current
    BY <1>0, <1>1, ReadingIs DEF Reading, Current
  <1>p. PICK n \in Requests : n = Current
    BY <1>2
  <1>a. PICK a \in Reading, b \in Reading, c \in Reading, d \in Reading :
          a = "recovery id" /\ b = "recovery length" /\ c = "recovery codes" /\ d = "data"
    BY DEF Reading
  <1>3. PICK codes \in Codes :
          /\ codes = "again" => status[Current] = "taken"
          /\ status' = IF codes = "again" THEN [status EXCEPT ![Current] = "dropped"] ELSE status
          /\ stream' = Field(a, n, "none") \o Field(b, n, "full") \o Field(c, n, codes)
                       \o (IF codes = "found" THEN Field(d, n, "none") ELSE <<>>)
    BY <1>p, <1>a DEF Recover, Codes
  <1>4. /\ RoundOK' /\ HoldsOK' /\ MissedOK'
        /\ status' \in [Requests -> {"none", "sent", "taken", "ran", "dropped"}]
        /\ codes = "again" => status'[Current] = "dropped"
    <2>1. CASE codes = "again"
      <3>1. status' = [status EXCEPT ![Current] = "dropped"] /\ status[Current] = "taken"
        BY <1>3, <2>1
      <3> QED  BY <1>2, <3>1, StatusMoves DEF Recover
    <2>2. CASE codes # "again"
      <3>1. status' = status
        BY <1>3, <2>2
      <3>2. RoundOK'
        BY <1>0, <1>2, <3>1 DEF IInv, RoundOK
      <3>3. HoldsOK'
        BY <1>0, <1>2, <3>1 DEF IInv, HoldsOK
      <3>4. MissedOK'
        BY <1>0, <3>1 DEF IInv, MissedOK, Missed
      <3> QED  BY <2>2, <3>1, <3>2, <3>3, <3>4 DEF IInv, Types, ConvTypeOK
    <2> QED  BY <2>1, <2>2
  <1>v. /\ a # c /\ b # c /\ d # c /\ After(a) = b /\ After(b) = c /\ After(c) = d
        /\ codes \in Values
    BY <1>a DEF Values, After
  <1>5. /\ stream' \in Seq(StreamPart) /\ InOrder(stream') /\ Starts(stream', a)
        /\ \A i \in 1..Len(stream') :
             stream'[i].of = n /\ (stream'[i].field = c => stream'[i].value = codes)
    <2> DEFINE e == Recovered(a, b, c, d, n, codes)
    <2>1. /\ e \in Seq(StreamPart) /\ InOrder(e) /\ Starts(e, a)
          /\ \A i \in 1..Len(e) : e[i].of = n /\ (e[i].field = c => e[i].value = codes)
      BY <1>v, RecoveredIs
    <2>2. stream' = e
      BY <1>3 DEF Recovered
    <2> HIDE DEF e
    <2> QED  BY <2>1, <2>2
  <1>6. Types'
    BY <1>0, <1>4, <1>5 DEF IInv, Types, ConvTypeOK
  <1>7. OrderOK'
    <2>1. stream'[1].field = "recovery id" /\ stream'[1].part = 1
      BY <1>5, <1>a DEF Starts
    <2>2. 0 < Parts /\ 0 + 1 = 1
      BY ConversationAssumption
    <2>3. Expected(stream[1])'
      BY <1>0, <1>1, <2>1, <2>2 DEF Expected
    <2> QED  BY <1>2, <1>p, <1>5, <2>3 DEF OrderOK, InOrder, Follows
  <1>8. CodesOK'
    BY <1>0, <1>1, <1>2, <1>p, <1>a, <1>4, <1>5 DEF CodesOK
  <1>9. AskedOK'
    BY <1>0, <1>1 DEF AskedOK, Writing
  <1> QED  BY <1>4, <1>6, <1>7, <1>8, <1>9 DEF IInv

(* The connection breaks, and what was on it is lost. *)
LEMMA BreakOK ==
  ASSUME IInv, Break
  PROVE  IInv'
  <1>0. /\ link' = "broken" /\ stream' = <<>>
        /\ step' = step /\ k' = k /\ j' = j /\ jk' = jk /\ retryConnection' = retryConnection
        /\ sock' = sock /\ input' = input /\ buffer' = buffer /\ saverc' = saverc
        /\ result' = result /\ sent' = sent /\ got' = got /\ value' = value
        /\ retryNoData' = retryNoData /\ conn' = conn /\ status' = status /\ lost' = lost
    BY DEF Break, clientVars, loopVars, readVars
  <1>e. /\ 1..Len(stream') = {} /\ 1..(Len(stream') - 1) = {} /\ stream' \in Seq(StreamPart)
    BY <1>0, EmptyStream
  <1>1. Types'
    BY <1>0, <1>e DEF IInv, Types, ConvTypeOK
  <1>2. RoundOK'
    BY <1>0 DEF IInv, Types, ConvTypeOK, RoundOK, Connecting, Writing, Reading, InRecovery, Over,
       Asking, Requests, Current
  <1>3. HoldsOK'
    BY <1>0 DEF IInv, Types, ConvTypeOK, HoldsOK, Over, Connecting, Current
  <1>4. MissedOK'
    BY <1>0 DEF IInv, MissedOK, Missed
  <1>5. OrderOK'
    BY <1>0, <1>e DEF OrderOK, InOrder
  <1>6. CodesOK'
    BY <1>0, <1>e DEF IInv, CodesOK, Current
  <1>7. AskedOK'
    BY <1>0 DEF IInv, AskedOK, Nothing
  <1> QED  BY <1>1, <1>2, <1>3, <1>4, <1>5, <1>6, <1>7 DEF IInv

(* SMAPI closes the connection: a part of what was on it still comes. *)
LEMMA CloseOK ==
  ASSUME IInv, Close
  PROVE  IInv'
  <1>0. /\ link' = "closed"
        /\ step' = step /\ k' = k /\ j' = j /\ jk' = jk /\ retryConnection' = retryConnection
        /\ sock' = sock /\ input' = input /\ buffer' = buffer /\ saverc' = saverc
        /\ result' = result /\ sent' = sent /\ got' = got /\ value' = value
        /\ retryNoData' = retryNoData /\ conn' = conn /\ status' = status /\ lost' = lost
    BY DEF Close, clientVars, loopVars, readVars
  <1>p. PICK m \in 0..Len(stream) : stream' = SubSeq(stream, 1, m)
    BY DEF Close
  <1>s. stream \in Seq(StreamPart) /\ Len(stream) \in Nat
    BY LenProperties DEF IInv, Types
  <1>q. /\ stream' \in Seq(StreamPart) /\ Len(stream') = m
        /\ \A i \in 1..m : stream'[i] = stream[i]
    <2>1. m \in Int /\ 1 \in Int /\ m >= 0 /\ m <= Len(stream)
      BY <1>s
    <2>2. \A i \in 1..m : stream[i] \in StreamPart
      <3>1. \A i \in 1..m : i \in 1..Len(stream)
        BY <1>s, <2>1
      <3> QED  BY <1>s, <3>1, ElementOfSeq
    <2>3. /\ SubSeq(stream, 1, m) \in Seq(StreamPart)
          /\ Len(SubSeq(stream, 1, m)) = IF 1 <= m THEN m - 1 + 1 ELSE 0
          /\ \A i \in 1..(m - 1 + 1) : SubSeq(stream, 1, m)[i] = stream[1 + i - 1]
      BY <2>1, <2>2, SubSeqProperties
    <2>4. /\ stream' \in Seq(StreamPart)
          /\ Len(stream') = IF 1 <= m THEN m - 1 + 1 ELSE 0
          /\ \A i \in 1..(m - 1 + 1) : stream'[i] = stream[1 + i - 1]
      BY <1>p, <2>3
    <2>5. Len(stream') = m
      BY <2>1, <2>4
    <2>6. \A i \in 1..m : i \in 1..(m - 1 + 1) /\ 1 + i - 1 = i
      BY <2>1
    <2> QED  BY <2>4, <2>5, <2>6
  <1>r. \A i \in 1..Len(stream') : i \in 1..Len(stream) /\ stream'[i] = stream[i]
    BY <1>s, <1>q
  <1>h. stream' # <<>> => stream # <<>> /\ 1 \in 1..Len(stream') /\ stream'[1] = stream[1]
    <2> SUFFICES ASSUME stream' # <<>> PROVE m # 0
      BY <1>s, <1>q, <1>r, EmptySeq
    <2> QED  BY <1>q, EmptySeq
  <1>1. Types'
    BY <1>0, <1>q DEF IInv, Types, ConvTypeOK
  <1>2. RoundOK'
    BY <1>0 DEF IInv, Types, ConvTypeOK, RoundOK, Connecting, Writing, Reading, InRecovery, Over,
       Asking, Requests, Current
  <1>3. HoldsOK'
    BY <1>0 DEF IInv, Types, ConvTypeOK, HoldsOK, Over, Connecting, Current
  <1>4. MissedOK'
    BY <1>0 DEF IInv, MissedOK, Missed
  <1>5. OrderOK'
    <2>1. InOrder(stream) => InOrder(stream')
      <3> SUFFICES ASSUME InOrder(stream), NEW i \in 1..(Len(stream') - 1)
                   PROVE  Follows(stream'[i], stream'[i + 1])
        BY DEF InOrder
      <3>1. i \in 1..(Len(stream) - 1) /\ i \in 1..Len(stream') /\ i + 1 \in 1..Len(stream')
        BY <1>s, <1>q
      <3> QED  BY <1>r, <3>1 DEF InOrder
    <2>2. Receives' <=> Receives
      BY <1>0 DEF Receives
    <2>3. ASSUME Receives, stream' # <<>> PROVE Expected(stream[1])'
      BY <1>0, <1>h, <2>3 DEF IInv, OrderOK, Expected
    <2>4. Current' = Current
      BY <1>0 DEF Current
    <2> QED  BY <1>r, <2>1, <2>2, <2>3, <2>4 DEF IInv, OrderOK, InOrder, Follows
  <1>6. CodesOK'
    BY <1>0, <1>r DEF IInv, CodesOK, Receives, Current
  <1>7. AskedOK'
    BY <1>0, <1>h DEF IInv, AskedOK, Nothing
  <1> QED  BY <1>1, <1>2, <1>3, <1>4, <1>5, <1>6, <1>7 DEF IInv

(* A step of SMAPI, or of the connection. *)
LEMMA SmapiOK ==
  ASSUME IInv, Smapi
  PROVE  IInv'
  BY TakeOK, RunOK, RecoverOK, BreakOK, CloseOK DEF Smapi

-----------------------------------------------------------------------------
(* The whole call *)

\* A step of the parser, or none.
LEMMA ConversationRests ==
  ASSUME IInv, UNCHANGED convVars
  PROVE  IInv'
  <1>0. /\ step' = step /\ k' = k /\ j' = j /\ jk' = jk /\ retryConnection' = retryConnection
        /\ sock' = sock /\ input' = input /\ buffer' = buffer /\ saverc' = saverc
        /\ result' = result /\ sent' = sent /\ got' = got /\ value' = value
        /\ retryNoData' = retryNoData /\ link' = link /\ conn' = conn /\ stream' = stream
        /\ status' = status /\ lost' = lost
    BY DEF convVars
  <1>1. Types'
    BY <1>0 DEF IInv, Types, ConvTypeOK
  <1>5. RoundOK'
    BY <1>0 DEF IInv, RoundOK, Current
  <1>6. HoldsOK'
    BY <1>0 DEF IInv, HoldsOK, Current
  <1>2. MissedOK'
    BY <1>0 DEF IInv, MissedOK, Missed
  <1>3. OrderOK' /\ CodesOK'
    BY <1>0 DEF IInv, OrderOK, InOrder, Expected, CodesOK, Receives, Current
  <1>4. AskedOK'
    BY <1>0 DEF IInv, AskedOK, Nothing, Current
  <1> QED  BY <1>1, <1>2, <1>3, <1>4, <1>5, <1>6 DEF IInv

(* The result of the parser is returned. *)
LEMMA ParserReturnsOK ==
  ASSUME IInv, ParserReturns
  PROVE  IInv'
  <1>0. /\ step = "parse" /\ step' = "done" /\ buffer' = "freed"
        /\ k' = k /\ j' = j /\ jk' = jk /\ retryConnection' = retryConnection /\ sock' = sock
        /\ input' = input /\ saverc' = saverc /\ sent' = sent /\ got' = got /\ value' = value
        /\ retryNoData' = retryNoData /\ link' = link /\ conn' = conn /\ stream' = stream
        /\ status' = status /\ lost' = lost
    BY DEF ParserReturns, loopVars, readVars, smapiVars
  <1>1. Types'
    BY <1>0, TypesKept DEF IInv, Types, ConvTypeOK, Values, Steps, Connecting, Writing, Reading
  <1>2. RoundOK'
    BY <1>0 DEF IInv, Types, ConvTypeOK, RoundOK, Connecting, Writing, Reading, InRecovery, Over,
       Asking, Requests, Current
  <1>3. HoldsOK'
    BY <1>0 DEF IInv, Types, ConvTypeOK, HoldsOK, Over, Connecting, Current
  <1>4. MissedOK'
    BY <1>0 DEF IInv, MissedOK, Missed
  <1>5. OrderOK'
    BY <1>0 DEF IInv, Types, ConvTypeOK, OrderOK, InOrder, Expected, Receives, After, Reading,
       Current
  <1>6. CodesOK'
    BY <1>0 DEF IInv, Types, ConvTypeOK, CodesOK, Receives, Reading, Current
  <1>7. AskedOK'
    BY <1>0 DEF IInv, AskedOK, Nothing, Writing, InRecovery, Current
  <1> QED  BY <1>1, <1>2, <1>3, <1>4, <1>5, <1>6, <1>7 DEF IInv

(* The call starts, or its answer has been read. *)
LEMMA InitOK == Init => IInv
  <1>a. ASSUME Calling PROVE IInv
    <2>0. /\ step = "redrive" /\ k = 0 /\ sock = "none" /\ input = "held" /\ buffer = "none"
          /\ got = 0 /\ value = "none" /\ stream = <<>> /\ conn = "nothing" /\ lost = 0
          /\ status = [n \in Requests |-> "none"]
      BY <1>a DEF Calling
    <2>e. /\ 1..Len(stream) = {} /\ 1..(Len(stream) - 1) = {} /\ stream \in Seq(StreamPart)
      BY <2>0, EmptyStream
    <2>1. Types
      <3>1. /\ k \in 0..SEND_RETRY_LIMIT /\ j \in 0..SEND_RETRY_LIMIT /\ jk \in 0..SEND_RETRY_LIMIT
            /\ retryConnection \in 1..RETRY_CONNECTION_LIMIT /\ got \in 0..Parts
            /\ sent \in 0..Parts /\ retryNoData \in 0..(NoDataLimit + 1) /\ lost \in Nat
        BY <1>a, ConversationAssumption DEF Calling
      <3> QED  BY <1>a, <2>0, <2>e, <3>1 DEF Calling, Types, ConvTypeOK, Values
    <2>2. RoundOK
      <3>1. k < SEND_RETRY_LIMIT => Current \in Requests
        BY <2>0, ConversationAssumption DEF Current, Requests
      <3> QED  BY <2>0, <3>1 DEF RoundOK, Asking, InRecovery, Reading
    <2>3. HoldsOK
      BY <2>0 DEF HoldsOK, Over, Connecting
    <2>4. MissedOK
      <3>1. Missed = {}
        BY <2>0 DEF Missed
      <3> QED  BY <2>0, <3>1, FS_EmptySet DEF MissedOK
    <2>5. OrderOK /\ CodesOK /\ AskedOK
      BY <2>0, <2>e DEF OrderOK, InOrder, CodesOK, AskedOK
    <2> QED  BY <2>1, <2>2, <2>3, <2>4, <2>5 DEF IInv
  <1>b. ASSUME Answered PROVE IInv
    <2>0. /\ step = "parse" /\ k = 0 /\ sock = "closed" /\ input = "freed" /\ buffer = "held"
          /\ got = 0 /\ value = "none" /\ stream = <<>> /\ conn = "request" /\ lost = 0
          /\ status = [n \in Requests |-> IF n = 1 THEN "ran" ELSE "none"]
      BY <1>b DEF Answered
    <2>e. /\ 1..Len(stream) = {} /\ 1..(Len(stream) - 1) = {} /\ stream \in Seq(StreamPart)
      BY <2>0, EmptyStream
    <2>1. Types
      <3>1. /\ k \in 0..SEND_RETRY_LIMIT /\ j \in 0..SEND_RETRY_LIMIT /\ jk \in 0..SEND_RETRY_LIMIT
            /\ retryConnection \in 1..RETRY_CONNECTION_LIMIT /\ got \in 0..Parts
            /\ sent \in 0..Parts /\ retryNoData \in 0..(NoDataLimit + 1) /\ lost \in Nat
        BY <1>b, ConversationAssumption DEF Answered
      <3>2. status \in [Requests -> {"none", "sent", "taken", "ran", "dropped"}]
        BY <2>0
      <3> QED  BY <1>b, <2>0, <2>e, <3>1, <3>2 DEF Answered, Types, ConvTypeOK, Values
    <2>2. RoundOK
      <3>1. k < SEND_RETRY_LIMIT /\ \A n \in Requests : n > Current => n # 1
        BY <2>0, ConversationAssumption DEF Current, Requests
      <3>2. \A n \in Requests : n > Current => status[n] = "none"
        BY <2>0, <3>1
      <3> QED  BY <2>0, <3>1, <3>2 DEF RoundOK, Asking, InRecovery, Reading
    <2>3. HoldsOK
      BY <2>0 DEF HoldsOK, Over, Connecting
    <2>4. MissedOK
      <3>1. Missed = {}
        BY <2>0 DEF Missed
      <3> QED  BY <2>0, <3>1, FS_EmptySet DEF MissedOK
    <2>5. OrderOK /\ CodesOK /\ AskedOK
      BY <2>0, <2>e DEF OrderOK, InOrder, Receives, CodesOK, AskedOK
    <2> QED  BY <2>1, <2>2, <2>3, <2>4, <2>5 DEF IInv
  <1> QED  BY <1>a, <1>b DEF Init

LEMMA StepOK ==
  ASSUME IInv, [Next]_vars
  PROVE  IInv'
  BY ClientOK, SmapiOK, ParserReturnsOK, ConversationRests
     DEF Next, Talk, Parse, vars

-----------------------------------------------------------------------------
(* In every state of a call of getAndParseSmapiBuffer the counters of its   *)
(* loops, what it holds, what is on the connection and how far SMAPI is go  *)
(* together, whatever SMAPI and the connection do.                          *)
THEOREM ConversationInvariant == Spec => []IInv
  <1>1. IInv /\ [Next]_vars => IInv'
    BY StepOK
  <1> QED  BY InitOK, <1>1, PTL DEF Spec

(* The counters of getAndParseSmapiBuffer and of smSocketRead keep within   *)
(* their limits, and no more requests are sent than SEND_RETRY_LIMIT.       *)
THEOREM ConversationTypes == Spec => []ConvTypeOK
  <1>1. IInv => ConvTypeOK
    BY DEF IInv, Types
  <1> QED  BY ConversationInvariant, <1>1, PTL

(* SMAPI runs a request once, and once more at most for each time that its  *)
(* id did not come and getAndParseSmapiBuffer sent it again; a recovery     *)
(* with Response_Recovery never has it run again.                           *)
THEOREM RequestRunOnce == Spec => []RunOnce
  <1>1. ASSUME IInv PROVE RunOnce
    <2> DEFINE Ran == {n \in Requests : status[n] = "ran"}
    <2>0. k \in Nat /\ Current = k + 1 /\ lost \in Nat
      <3>1. k \in 0..SEND_RETRY_LIMIT /\ lost \in Nat
        BY <1>1 DEF IInv, Types, ConvTypeOK
      <3> QED  BY <3>1, ConversationAssumption DEF Current
    <2>1. Ran \subseteq Missed \cup {Current}
      <3> SUFFICES ASSUME NEW n \in Requests, status[n] = "ran", n # Current
                   PROVE  n \in Missed
        OBVIOUS
      <3>1. ~(n > Current)
        BY <1>1 DEF IInv, RoundOK
      <3>2. n \in 1..k
        BY <2>0, <3>1 DEF Requests
      <3> QED  BY <3>2 DEF Missed
    <2>2. IsFiniteSet(Missed) /\ Current \notin Missed
      <3>1. IsFiniteSet(1..k)
        BY <2>0, FS_Interval
      <3> QED  BY <2>0, <3>1, FS_Subset DEF Missed
    <2>3. /\ IsFiniteSet(Missed \cup {Current})
          /\ Cardinality(Missed \cup {Current}) = Cardinality(Missed) + 1
      BY <2>2, FS_AddElement
    <2>4. IsFiniteSet(Ran) /\ Cardinality(Ran) <= Cardinality(Missed) + 1
      BY <2>1, <2>3, FS_Subset
    <2>5. Cardinality(Ran) \in Nat /\ Cardinality(Missed) \in Nat
      BY <2>2, <2>4, FS_CardinalityType
    <2>6. Cardinality(Missed) <= lost
      BY <1>1 DEF IInv, MissedOK
    <2> HIDE DEF Ran
    <2>7. Cardinality(Ran) <= 1 + lost
      BY <2>0, <2>4, <2>5, <2>6
    <2> QED  BY <2>7 DEF RunOnce, Ran
  <1> QED  BY ConversationInvariant, <1>1, PTL

(* What smSocketRead receives next is the next part of the field that       *)
(* getAndParseSmapiBuffer or tryRecoveryUsingRequestId reads, of the        *)
(* request of this round, however often reads and writes failed within a    *)
(* field before.                                                            *)
THEOREM FieldsKeepStep == Spec => []FieldsInStep
  <1>1. ASSUME IInv PROVE FieldsInStep
    <2> SUFFICES ASSUME sock = "open", stream # <<>>, step \in Reading, got < Parts
                 PROVE  /\ Head(stream).field = step /\ Head(stream).part = got + 1
                        /\ Head(stream).of = Current
      BY DEF FieldsInStep
    <2>1. /\ stream \in Seq(StreamPart) /\ step # "allocate"
          /\ \A i \in 1..Len(stream) : stream[i].of = Current
          /\ stream[1].field = step /\ stream[1].part = got + 1
      BY <1>1 DEF IInv, Types, OrderOK, Receives, Expected, Reading
    <2>2. Head(stream) = stream[1] /\ 1 \in 1..Len(stream)
      BY <2>1, EmptySeq, HeadTailProperties
    <2> QED  BY <2>1, <2>2
  <1> QED  BY ConversationInvariant, <1>1, PTL

(* When getAndParseSmapiBuffer returns, however it does, the request and    *)
(* the buffer of the answer are freed and the socket is closed, but for the *)
(* exceptions of NothingLeft; and a request is never sent after it was      *)
(* freed.                                                                   *)
THEOREM NothingIsLeft == Spec => []NothingLeft
  <1>1. IInv => NothingLeft
    BY DEF IInv, HoldsOK, Over, NothingLeft
  <1> QED  BY ConversationInvariant, <1>1, PTL
==============================================================================
