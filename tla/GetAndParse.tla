----------------------------- MODULE GetAndParse -----------------------------
(***************************************************************************)
(* getAndParseSmapiBuffer as a whole: the conversation with SMAPI and then *)
(* the two passes of the table parser over the answer that it brought.     *)
(***************************************************************************)
EXTENDS SmapiConversation, TableParser

CONSTANT Sample   \* the answers a conversation is followed with from its start

ASSUME SampleAssumption == Sample \subseteq Answers

vars == <<convVars, parserVars>>

(* A call; or one whose conversation went well, at the point where the      *)
(* answer has been read: that is where the answers make a difference.       *)
Answered ==
  /\ step = "parse" /\ k = 0 /\ j = 0 /\ jk = 0 /\ retryConnection = 1
  /\ sock = "closed" /\ input = "freed" /\ buffer = "held"
  /\ saverc = "none" /\ result = "none"
  /\ sent = 0 /\ got = 0 /\ value = "none" /\ retryNoData = 0
  /\ link = "up" /\ conn = "request" /\ stream = <<>>
  /\ status = [n \in Requests |-> IF n = 1 THEN "ran" ELSE "none"] /\ lost = 0

Init ==
  /\ NotParsing
  /\ \/ Calling /\ answer \in Sample
     \/ Answered /\ answer \in Answers

Talk == (Client \/ Smapi) /\ UNCHANGED parserVars

Parse == step = "parse" /\ ParserStep /\ UNCHANGED convVars

(* The answer is freed and the result of the parser returned. *)
ParserReturns ==
  /\ step = "parse" /\ pass \in Parsed
  /\ step' = "done" /\ result' = pass /\ buffer' = "freed"
  /\ UNCHANGED <<parserVars, loopVars, sock, input, saverc, sent, readVars, smapiVars, lost>>

Next == Talk \/ Parse \/ ParserReturns

(* The calling thread goes on as long as it can: every receive and send has *)
(* a timeout.  Nothing is assumed of SMAPI.                                 *)
Spec == Init /\ [][Next]_vars /\ WF_vars((Client /\ UNCHANGED parserVars) \/ Parse \/ ParserReturns)

TypeOK == ConvTypeOK /\ ParserTypeOK

(* Every call returns, whatever SMAPI and the connection do.  The exception *)
(* is a connection closed by SMAPI within a field: smSocketRead does not    *)
(* limit its empty receives once it has a part.                             *)
CallReturns == <>(step = "done" \/ ClosedWithinField)
=============================================================================
