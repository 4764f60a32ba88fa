-------------------------- MODULE SmapiConversation --------------------------
(***************************************************************************)
(* How a request gets its answer from SMAPI: getAndParseSmapiBuffer up to  *)
(* the parser, tryRecoveryUsingRequestId, and the functions of smSocket.c. *)
(*                                                                         *)
(* A connection carries the request to SMAPI, and back the request id, the *)
(* length of the answer and the answer.  If the id does not come, the      *)
(* whole request is sent again on a new connection; if the length does not *)
(* come, SMAPI is asked with Response_Recovery for the answer of that id.  *)
(* Every field crosses the connection in Parts parts, so that a connection *)
(* may be lost within a field.  SMAPI itself is external: it takes         *)
(* requests, runs them whether or not somebody still waits, and answers.   *)
(***************************************************************************)
EXTENDS Integers, Sequences, FiniteSets

CONSTANTS
  SEND_RETRY_LIMIT,
  RETRY_CONNECTION_LIMIT,
  NoDataLimit,    \* the empty receives smSocketRead accepts (10)
  Parts           \* parts in which a field crosses the connection

ASSUME ConversationAssumption ==
  /\ SEND_RETRY_LIMIT \in Nat \ {0} /\ RETRY_CONNECTION_LIMIT \in Nat \ {0}
  /\ NoDataLimit \in Nat /\ Parts \in Nat \ {0}

VARIABLES
  step,     \* the call that getAndParseSmapiBuffer is in
  k, j, jk, \* its counters: requests, sends of one request, recoveries
  retryConnection,
  sock,     \* sockDesc: "none", "open", "closed"
  input,    \* *inputPp: "held", "freed"
  buffer,   \* smapiOutputP: "none", "held", "freed"
  saverc, result,
  sent,     \* the parts of the message smSocketWrite has sent
  got,      \* lenRead in parts
  value,    \* the value of the field being read
  retryNoData,
  link,     \* the connection: "up", "broken", or "closed" by SMAPI
  conn,     \* what was asked on the connection: "nothing", "request", "recovery"
  stream,   \* what SMAPI has sent and the client has not received
  status,   \* what SMAPI has done with each request
  lost      \* the requests whose id did not come

convVars == <<step, k, j, jk, retryConnection, sock, input, buffer, saverc, result, sent, got,
              value, retryNoData, link, conn, stream, status, lost>>
loopVars == <<k, j, jk, retryConnection>>
readVars == <<got, value, retryNoData>>
smapiVars == <<link, conn, stream, status>>

Requests == 1..SEND_RETRY_LIMIT
Current == k + 1   \* the request of this round of the main loop

Retriable == {"timeout", "not connected", "refused"}
ConnectErrors == {"obtain", "refused", "try again", "processing"}
Connecting == {"connect", "recovery connect"}
Writing == {"write", "recovery write"}
InRecovery == {"recovery write", "recovery id", "recovery length", "recovery codes"}
Reading == {"id", "length", "data", "recovery id", "recovery length", "recovery codes"}

(* A field, of the n-th request, as SMAPI puts it on the connection. *)
Field(name, n, v) ==
  [part \in 1..Parts |-> [field |-> name, of |-> n, value |-> v, part |-> part]]

ConvTypeOK ==
  /\ step \in {"redrive", "allocate", "parse", "done"} \cup Connecting \cup Writing \cup Reading
  /\ k \in 0..SEND_RETRY_LIMIT /\ j \in 0..SEND_RETRY_LIMIT /\ jk \in 0..SEND_RETRY_LIMIT
  /\ retryConnection \in 1..RETRY_CONNECTION_LIMIT
  /\ sock \in {"none", "open", "closed"} /\ link \in {"up", "broken", "closed"}
  /\ input \in {"held", "freed"} /\ buffer \in {"none", "held", "freed"}
  /\ got \in 0..Parts /\ sent \in 0..Parts /\ retryNoData \in 0..(NoDataLimit + 1)
  /\ status \in [Requests -> {"none", "sent", "taken", "ran", "dropped"}]

Calling ==
  /\ step = "redrive" /\ k = 0 /\ j = 0 /\ jk = 0 /\ retryConnection = 1
  /\ sock = "none" /\ input = "held" /\ buffer = "none"
  /\ saverc = "none" /\ result = "none"
  /\ sent = 0 /\ got = 0 /\ value = "none" /\ retryNoData = 0
  /\ link = "closed" /\ conn = "nothing" /\ stream = <<>>
  /\ status = [n \in Requests |-> "none"] /\ lost = 0

-----------------------------------------------------------------------------
(* The return of getAndParseSmapiBuffer, with or without FREE_MEMORY. *)
Return(rc, freed) ==
  /\ step' = "done" /\ result' = rc
  /\ input' = IF freed THEN "freed" ELSE input
  /\ UNCHANGED <<loopVars, saverc, sent, readVars, lost>>

\* Mutant: the request is not freed when the retries are used up.
KeepsInput == Return(saverc, FALSE)

GivesUp == Return(saverc, TRUE)

\* Mutant: one round too many.
OneRoundMore == k > SEND_RETRY_LIMIT

RoundsUsedUp == k >= SEND_RETRY_LIMIT

(* The head of the main loop: the old socket is closed. *)
Redrive ==
  /\ step = "redrive"
  /\ UNCHANGED <<buffer, smapiVars>>
  /\ \/ RoundsUsedUp /\ GivesUp /\ UNCHANGED sock
     \/ /\ ~RoundsUsedUp
        /\ sock' = IF k > 0 THEN "closed" ELSE sock
        /\ step' = "connect" /\ retryConnection' = 1
        /\ UNCHANGED <<k, j, jk, input, saverc, result, sent, readVars, lost>>

-----------------------------------------------------------------------------
(* smSocketInitialize *)

(* getAndParseSmapiBuffer returns at once.  Only the first of its two calls *)
(* is followed by a FREE_MEMORY.                                            *)
ConnectFails(rc) == Return(rc, step = "connect")

(* A new connection. *)
Connect ==
  /\ step \in Connecting
  /\ sock' = "open" /\ link' = "up" /\ conn' = "nothing" /\ stream' = <<>>
  /\ step' = IF step = "connect" THEN "write" ELSE "recovery write"
  /\ saverc' = IF step = "connect" THEN "none" ELSE saverc
  /\ j' = 0 /\ sent' = 0
  /\ UNCHANGED <<k, jk, retryConnection, input, buffer, result, readVars, status, lost>>

NoSocket ==
  /\ step \in Connecting
  /\ sock' = "none" /\ ConnectFails("obtain")
  /\ UNCHANGED <<buffer, smapiVars>>

(* ECONNREFUSED and EAGAIN: the socket is closed and another one obtained,  *)
(* up to the limit.                                                         *)
Refused ==
  /\ step \in Connecting
  /\ sock' = "closed"
  /\ UNCHANGED <<buffer, smapiVars>>
  /\ \/ /\ retryConnection < RETRY_CONNECTION_LIMIT
        /\ retryConnection' = retryConnection + 1
        /\ UNCHANGED <<step, k, j, jk, input, saverc, result, sent, readVars, lost>>
     \/ /\ retryConnection >= RETRY_CONNECTION_LIMIT
        /\ \E rc \in {"refused", "try again"} : ConnectFails(rc)

(* Any other errno. *)
ConnectError ==
  /\ step \in Connecting
  /\ sock' = "closed" /\ ConnectFails("processing")
  /\ UNCHANGED <<buffer, smapiVars>>

-----------------------------------------------------------------------------
(* smSocketWrite *)

(* Where the next smSocketRead starts. *)
NewRead == got' = 0 /\ value' = "none" /\ retryNoData' = 0

Send ==
  /\ step \in Writing /\ sock = "open" /\ link = "up"
  /\ UNCHANGED <<loopVars, sock, input, buffer, saverc, result, link, stream, lost>>
  /\ IF sent + 1 < Parts
     THEN sent' = sent + 1 /\ UNCHANGED <<step, readVars, conn, status>>
     ELSE /\ sent' = 0 /\ NewRead
          /\ IF step = "write"
             THEN /\ step' = "id" /\ conn' = "request"
                  /\ status' = [status EXCEPT ![Current] = "sent"]
             ELSE step' = "recovery id" /\ conn' = "recovery" /\ UNCHANGED status

(* What a call of smSocketWrite or smSocketRead can come to.  The socket is *)
(* closed every time; on one that is closed already setsockopt fails.       *)
Failures ==
  IF sock = "closed" THEN {"processing"}
  ELSE (IF stream = <<>> /\ link # "closed" THEN {"timeout"} ELSE {})
       \cup (IF link = "broken" THEN {"not connected", "lost"} ELSE {})
SendFailures == IF link = "closed" /\ sock = "open" THEN {"not connected", "lost"} ELSE Failures

(* The loop around smSocketWrite goes on with the closed socket; its last  *)
(* failure gets the general code.                                          *)
WriteFails ==
  /\ step = "write"
  /\ sock' = "closed"
  /\ UNCHANGED <<buffer, smapiVars>>
  /\ \E rc \in SendFailures :
       \/ /\ rc \in Retriable /\ j < SEND_RETRY_LIMIT
          /\ j' = j + 1 /\ sent' = 0
          /\ UNCHANGED <<step, k, jk, retryConnection, input, saverc, result, readVars, lost>>
       \/ rc \in Retriable /\ j >= SEND_RETRY_LIMIT /\ Return("write error", TRUE)
       \/ rc \notin Retriable /\ Return(rc, TRUE)

-----------------------------------------------------------------------------
(* smSocketRead *)

(* One recv that returns data. *)
Receive ==
  /\ step \in Reading /\ sock = "open" /\ got < Parts /\ stream # <<>>
  /\ got' = got + 1 /\ value' = Head(stream).value /\ stream' = Tail(stream)
  /\ UNCHANGED <<step, loopVars, sock, input, buffer, saverc, result, sent, retryNoData,
                 link, conn, status, lost>>

\* Mutant: the empty receives are not limited.
NeverTooMany == FALSE

TooManyEmpty == retryNoData >= NoDataLimit /\ got = 0

(* recv returns 0 when SMAPI has closed the connection.  Only if nothing of *)
(* the field has come is that limited.  The count stops above its limit.    *)
ReceiveNothing ==
  /\ step \in Reading /\ sock = "open" /\ got < Parts /\ stream = <<>> /\ link = "closed"
  /\ ~TooManyEmpty
  /\ retryNoData' = IF retryNoData > NoDataLimit THEN retryNoData ELSE retryNoData + 1
  /\ UNCHANGED <<step, loopVars, sock, input, buffer, saverc, result, sent, got, value,
                 smapiVars, lost>>

(* smSocketRead returns an error. *)
ReadFailures ==
  Failures \cup (IF stream = <<>> /\ link = "closed" /\ TooManyEmpty THEN {"lost"} ELSE {})
\* Mutant: a receive that fails leaves the socket open.
FailsAndKeepsSocket(rc) == rc \in ReadFailures /\ got < Parts /\ sock' = sock /\ UNCHANGED smapiVars

ReadFails(rc) == rc \in ReadFailures /\ got < Parts /\ sock' = "closed" /\ UNCHANGED smapiVars

FieldRead(field) == step = field /\ sock = "open" /\ got = Parts

-----------------------------------------------------------------------------
(* The request id. *)

IdRead ==
  /\ FieldRead("id")
  /\ step' = "length" /\ jk' = 0 /\ NewRead
  /\ UNCHANGED <<k, j, retryConnection, sock, input, buffer, saverc, result, sent, smapiVars, lost>>

(* Without an id the entire request is redriven. *)
IdFails ==
  /\ step = "id"
  /\ UNCHANGED buffer
  /\ \E rc \in ReadFailures :
       /\ ReadFails(rc)
       /\ \/ /\ rc \in Retriable
             /\ saverc' = rc /\ k' = k + 1 /\ lost' = lost + 1 /\ step' = "redrive"
             /\ UNCHANGED <<j, jk, retryConnection, input, result, sent, readVars>>
          \/ rc \notin Retriable /\ Return(rc, TRUE)

-----------------------------------------------------------------------------
(* The length, and the recovery of a request whose length does not come. *)

LengthRead ==
  /\ FieldRead("length")
  /\ step' = "allocate" /\ input' = "freed"
  /\ UNCHANGED <<loopVars, sock, buffer, saverc, result, sent, readVars, smapiVars, lost>>

LengthFails ==
  /\ step = "length"
  /\ UNCHANGED buffer
  /\ \E rc \in ReadFailures :
       /\ ReadFails(rc)
       /\ \/ /\ rc \in Retriable
             /\ saverc' = rc /\ step' = "recovery connect" /\ retryConnection' = 1
             /\ UNCHANGED <<k, j, jk, input, result, sent, readVars, lost>>
          \/ rc \notin Retriable /\ Return(rc, TRUE)

(* The first two fields of the answer to Response_Recovery. *)
RecoveryFieldRead ==
  /\ FieldRead("recovery id") \/ FieldRead("recovery length")
  /\ step' = IF step = "recovery id" THEN "recovery length" ELSE "recovery codes"
  /\ NewRead
  /\ UNCHANGED <<loopVars, sock, input, buffer, saverc, result, sent, smapiVars, lost>>

(* Its codes.  0: the answer follows.  4/4: the request is to be sent       *)
(* again.  All others are the result.                                       *)
RecoveryCodes ==
  /\ FieldRead("recovery codes")
  /\ UNCHANGED <<sock, buffer, smapiVars>>
  /\ \/ /\ value = "found"
        /\ step' = "allocate" /\ input' = "freed" /\ value' = "full" /\ saverc' = "none"
        /\ UNCHANGED <<loopVars, result, sent, got, retryNoData, lost>>
     \/ /\ value = "again"
        /\ step' = "redrive" /\ k' = k + 1 /\ saverc' = "again"
        /\ UNCHANGED <<j, jk, retryConnection, input, result, sent, readVars, lost>>
     \/ value \notin {"found", "again"} /\ Return(value, TRUE)

\* Mutant: a recovery that fails lets the request be sent again.
RedriveAfterRecovery(rc) ==
  /\ k' = k + 1 /\ saverc' = rc /\ step' = "redrive"
  /\ UNCHANGED <<j, jk, retryConnection, input, result, sent, readVars, lost>>

(* The length is waited for once more, on the closed socket. *)
RecoverAgain(rc) ==
  IF jk + 1 >= SEND_RETRY_LIMIT
  THEN /\ step' = "done" /\ result' = rc /\ saverc' = rc /\ input' = "freed" /\ jk' = jk + 1
       /\ UNCHANGED <<k, j, retryConnection, sent, readVars, lost>>
  ELSE /\ jk' = jk + 1 /\ saverc' = rc /\ step' = "length" /\ NewRead
       /\ UNCHANGED <<k, j, retryConnection, input, result, sent, lost>>

RecoveryFails ==
  /\ step \in InRecovery
  /\ UNCHANGED buffer
  /\ \E rc \in ReadFailures \cup SendFailures :
       /\ IF step = "recovery write"
          THEN rc \in SendFailures /\ sock' = "closed" /\ UNCHANGED smapiVars
          ELSE ReadFails(rc)
       /\ \/ rc \in Retriable /\ RecoverAgain(rc)
          \/ rc \notin Retriable /\ Return(rc, TRUE)

-----------------------------------------------------------------------------
(* The answer. *)

Allocate ==
  /\ step = "allocate"
  /\ UNCHANGED <<sock, smapiVars>>
  /\ \/ value = "short" /\ Return("invalid data", FALSE) /\ UNCHANGED buffer
     \/ value = "full" /\ Return("no memory", FALSE) /\ UNCHANGED buffer
     \/ /\ value = "full"
        /\ buffer' = "held" /\ step' = "data" /\ NewRead
        /\ UNCHANGED <<loopVars, input, saverc, result, sent, lost>>

DataFails ==
  /\ step = "data"
  /\ buffer' = "freed"
  /\ \E rc \in ReadFailures : ReadFails(rc) /\ Return(rc, FALSE)

ClosedSocket == "closed"

(* The answer is complete: smSocketTerminate. *)
DataRead ==
  /\ FieldRead("data")
  /\ step' = "parse" /\ sock' = ClosedSocket /\ NewRead
  /\ UNCHANGED <<loopVars, input, buffer, saverc, result, sent, smapiVars, lost>>

(* The close in smSocketTerminate fails. *)
TerminateFails ==
  /\ FieldRead("data")
  /\ sock' = "closed" /\ buffer' = "freed" /\ Return("processing", FALSE)
  /\ UNCHANGED smapiVars

Client ==
  \/ Redrive \/ Connect \/ NoSocket \/ Refused \/ ConnectError \/ Send \/ WriteFails
  \/ Receive \/ ReceiveNothing \/ IdRead \/ IdFails \/ LengthRead \/ LengthFails
  \/ RecoveryFieldRead \/ RecoveryCodes \/ RecoveryFails \/ Allocate \/ DataRead \/ DataFails
  \/ TerminateFails

-----------------------------------------------------------------------------
(* SMAPI, external. *)

clientVars == <<step, loopVars, sock, input, buffer, saverc, result, sent, readVars, lost>>
Waits(n) == n = Current /\ conn = "request" /\ sock = "open" /\ link = "up"

(* SMAPI takes a request, and sends its id if the connection still is. *)
Take(n) ==
  /\ status[n] = "sent"
  /\ status' = [status EXCEPT ![n] = "taken"]
  /\ stream' = IF Waits(n) THEN Field("id", n, "none") ELSE stream
  /\ UNCHANGED <<clientVars, link, conn>>

(* SMAPI runs it.  An answer may be too short. *)
Run(n) ==
  /\ status[n] = "taken"
  /\ status' = [status EXCEPT ![n] = "ran"]
  /\ \E size \in {"full", "short"} :
       stream' = IF Waits(n)
                 THEN stream \o Field("length", n, size)
                             \o (IF size = "full" THEN Field("data", n, "none") ELSE <<>>)
                 ELSE stream
  /\ UNCHANGED <<clientVars, link, conn>>

(* Response_Recovery: the answer of a request that ran.  One that did not   *)
(* run is given up, and may be sent again.                                  *)
Recover ==
  /\ conn = "recovery" /\ sock = "open" /\ link = "up"
  /\ conn' = "nothing"
  /\ \E codes \in {"found", "again", "no data", "error"} :
       /\ codes = "found" => status[Current] = "ran"
       /\ codes = "again" => status[Current] = "taken"
       /\ status' = IF codes = "again" THEN [status EXCEPT ![Current] = "dropped"] ELSE status
       /\ stream' = Field("recovery id", Current, "none") \o Field("recovery length", Current, "full")
                    \o Field("recovery codes", Current, codes)
                    \o (IF codes = "found" THEN Field("data", Current, "none") ELSE <<>>)
  /\ UNCHANGED <<clientVars, link>>

(* The connection breaks, or SMAPI closes it, perhaps within a field. *)
Break ==
  /\ sock = "open" /\ link = "up"
  /\ link' = "broken" /\ stream' = <<>>
  /\ UNCHANGED <<clientVars, conn, status>>

Close ==
  /\ sock = "open" /\ link = "up"
  /\ link' = "closed"
  /\ \E m \in 0..Len(stream) : stream' = SubSeq(stream, 1, m)
  /\ UNCHANGED <<clientVars, conn, status>>

Smapi == (\E n \in Requests : Take(n) \/ Run(n)) \/ Recover \/ Break \/ Close

-----------------------------------------------------------------------------
(* A request is run once, and once more for each time that its id did not   *)
(* come; a recovery, however it fails, never has it run again.              *)
RunOnce == Cardinality({n \in Requests : status[n] = "ran"}) <= 1 + lost

(* The next thing to come on an open connection is the next part of the     *)
(* field that is being read, for this request: a read or a write that fails *)
(* within a field never leaves a connection on which the fields are taken   *)
(* for others.                                                              *)
FieldsInStep ==
  sock = "open" /\ stream # <<>> /\ step \in Reading /\ got < Parts =>
    /\ Head(stream).field = step /\ Head(stream).part = got + 1
    /\ Head(stream).of = Current

(* Whatever happens, nothing is left when the call returns: the request is  *)
(* freed, and not sent from afterwards, the buffer of the answer is freed   *)
(* and the socket is closed.  The exceptions: the request, when the         *)
(* connection for a recovery fails; the socket, when the answer is too      *)
(* short or does not fit into memory, or Response_Recovery itself refuses.  *)
NothingLeft ==
  /\ step = "write" => input = "held"
  /\ step = "done" =>
       /\ buffer # "held"
       /\ input = "held" => result \in ConnectErrors /\ status[Current] # "none"
       /\ sock = "open" => result \in {"invalid data", "no memory", "again", "no data", "error"}

(* The endless loop of smSocketRead: SMAPI closed the connection within a   *)
(* field.                                                                   *)
ClosedWithinField ==
  step \in Reading /\ sock = "open" /\ link = "closed" /\ stream = <<>> /\ got \in 1..(Parts - 1)
=============================================================================
