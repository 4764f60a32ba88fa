-------------------------------- MODULE Smcli --------------------------------
(***************************************************************************)
(* A program of zthin: smcli run with one command line, or a program that  *)
(* is linked with libzthin and calls a vmapi function with strings of its  *)
(* own.  smcli asks for the level of SMAPI, refuses names the level does   *)
(* not have, lets the function of the name read the options, tests that    *)
(* the required ones are there, calls the vmapi function (SmapiRequest)    *)
(* and turns the answer into output and an exit status.  With              *)
(* --addRCheader the first line of the output tells the caller, the SMT    *)
(* layer, how the command ended.                                           *)
(*                                                                         *)
(* SMAPI itself is external: any answer of Answers may come back.          *)
(***************************************************************************)
EXTENDS SmapiRequest, SmcliCommands, FiniteSets

CONSTANTS
  Lines,          \* the command lines
  LibraryCalls,   \* the calls of programs linked with the library
  Answers,        \* what getAndParseSmapiBuffer may return
  AsyncRetries,   \* SLEEP_ASYNCH_RETRIES
  ActivateTries   \* how often imageActivate calls at most

VARIABLES
  phase,    \* where the program stands
  line,     \* its command line
  answer,   \* the last answer of SMAPI
  headers,  \* the categories of the header lines printed, two at most
  exit,     \* the exit status
  tries     \* the calls left for Async and Activating

vars == <<requestVars, phase, line, answer, headers, exit, tries>>
smcliVars == <<phase, line, answer, headers, exit, tries>>

(* Exit statuses: success, failure, or the code of a library error. *)
Success == 0
Failure == 1
LibraryError == 2

(* "refused" is an exit of main itself, "exited" one of a command. *)
Ended == {"exited", "refused", "died"}
NoLevel == 0   \* getSmapiLevel could not tell the level
NoAnswer == [rc |-> 0, code |-> 0, reason |-> 0]

(* A command line: the name, what is given of its options, where getopt    *)
(* stops, whether --addRCheader is there and stands before the name, and   *)
(* the level of SMAPI where it runs.  Without a name it is "none"; --help  *)
(* and -h are "help".                                                      *)
NoLine == [name |-> "none", given |-> {}, value |-> 0, keys |-> 0, stop |-> "none",
           header |-> FALSE, first |-> FALSE, level |-> 0]

Cmd == Dispatch[line.name]
Letters(cmd) == {cmd.options[i].letter : i \in 1..Len(cmd.options)} \ {"none"}
OptionOf(cmd, l) == LET i == CHOOSE i \in 1..Len(cmd.options) : cmd.options[i].letter = l
                    IN cmd.options[i]
KeyOptions(cmd) == {i \in 1..Len(cmd.options) : cmd.options[i].start = "keys"}

(* smcli starts with a command line, another program with a call to make. *)
Init ==
  /\ RequestInit
  /\ \/ phase = "level" /\ line \in Lines /\ call = NoCall
     \/ phase = "link" /\ line = NoLine /\ call \in LibraryCalls
  /\ answer = NoAnswer
  /\ headers = <<>> /\ exit = Success /\ tries = 0

(* The header lines c are printed when the caller asked for them. *)
Printed(c) ==
  IF line.header /\ Len(headers) + Len(c) <= 2 THEN headers \o c
  ELSE headers

Leave(c, status) ==
  /\ phase' = "exited"
  /\ headers' = Printed(c)
  /\ exit' = status

-----------------------------------------------------------------------------
(* main *)

(* getSmapiLevel fails: main leaves before it looks at the command line. *)
LevelUnknown ==
  /\ phase = "level" /\ line.level = NoLevel
  /\ phase' = "refused" /\ exit' = Failure
  /\ UNCHANGED <<requestVars, line, answer, headers, tries>>

(* The level is held against argV[1], before --addRCheader is taken out of *)
(* the arguments: where it stands first the name is not looked at.         *)
RefusedHere == ~line.first /\ RefusedAt(line.name, line.level)

(* The help is asked for in argV[1], or there is no name.                  *)
WantsHelp == line.name = "none" \/ (line.name = "help" /\ ~line.first)

MainHelp ==
  /\ phase = "level" /\ line.level # NoLevel /\ WantsHelp
  /\ phase' = "refused" /\ exit' = Success
  /\ UNCHANGED <<requestVars, line, answer, headers, tries>>

(* A name the level does not have, or that smcli does not have, is refused *)
(* before or after the header keyword is looked for, without a header.     *)
Unsupported ==
  /\ phase = "level" /\ line.level # NoLevel /\ ~WantsHelp
  /\ RefusedHere \/ line.name \notin DOMAIN Dispatch
  /\ phase' = "refused" /\ exit' = Failure
  /\ UNCHANGED <<requestVars, line, answer, headers, tries>>

Dispatched ==
  /\ phase = "level" /\ line.level # NoLevel
  /\ ~RefusedHere /\ line.name \in DOMAIN Dispatch
  /\ phase' = "options"
  /\ UNCHANGED <<requestVars, line, answer, headers, exit, tries>>

-----------------------------------------------------------------------------
(* The function of the command: its options. *)

(* The function asks for the level once more, for its help or its layout.  *)
(* getSmapiLevel that fails on the clock or on the file of the level has   *)
(* printed no header; refused by SMAPI, or not sent, it has printed one.   *)
LevelUnknownAgain ==
  /\ phase = "options"
  /\ \/ Cmd.level = "plain" /\ \E c \in {<<>>, <<8>>, <<25>>} : Leave(c, Failure)
     \/ Cmd.level = "header" /\ \E c \in {<<25>>, <<8, 25>>, <<25, 25>>} : Leave(c, Failure)
  /\ UNCHANGED <<requestVars, line, answer, tries>>

(* One function does not look at what getSmapiLevel returns: its header is *)
(* out before the options are read.                                        *)
LevelIgnored ==
  /\ phase = "options" /\ Cmd.level = "ignored" /\ headers = <<>>
  /\ headers' \in {Printed(<<8>>), Printed(<<25>>)}
  /\ UNCHANGED <<requestVars, phase, line, answer, exit, tries>>

Help ==
  /\ phase = "options" /\ line.stop = "help"
  /\ Leave(IF "help" \in Cmd.silent THEN <<>> ELSE <<0>>, Success)
  /\ UNCHANGED <<requestVars, line, answer, tries>>

(* An option getopt does not know, or one the switch has no case for. *)
UnknownOption ==
  /\ phase = "options"
  /\ \/ line.stop = "unknown"
     \/ line.stop = "none" /\ \E l \in line.given : OptionOf(Cmd, l).start = "nocase"
  /\ Leave(<<24>>, Failure)
  /\ UNCHANGED <<requestVars, line, answer, tries>>

TooManyKeys ==
  /\ phase = "options" /\ line.stop = "none"
  /\ \E i \in KeyOptions(Cmd) : line.keys > Cmd.options[i].most
  /\ Leave(IF "keys" \in Cmd.silent THEN <<>>
           ELSE IF Cmd.chatty THEN <<24, 24>> ELSE <<24>>, LibraryError)
  /\ UNCHANGED <<requestVars, line, answer, tries>>

\* Mutant: the switch stores one -k too many.
OneKeyMoreRead ==
  /\ phase = "options" /\ line.stop = "none"
  /\ \A l \in line.given : OptionOf(Cmd, l).start # "nocase"
  /\ \A i \in KeyOptions(Cmd) : line.keys <= Cmd.options[i].most + 1
  /\ phase' = "check"
  /\ headers' = IF Cmd.chatty /\ line.keys > 0 THEN Printed(<<24>>) ELSE headers
  /\ UNCHANGED <<requestVars, line, answer, exit, tries>>

OptionsRead ==
  /\ phase = "options" /\ line.stop = "none"
  /\ \A l \in line.given : OptionOf(Cmd, l).start # "nocase"
  /\ \A i \in KeyOptions(Cmd) : line.keys <= Cmd.options[i].most
  /\ phase' = "check"
  /\ headers' = IF Cmd.chatty /\ line.keys > 0 THEN Printed(<<24>>) ELSE headers
  /\ UNCHANGED <<requestVars, line, answer, exit, tries>>

(* What the missing-option test sees of an option. *)
Missing(o) ==
  \/ o.start = "keys" /\ line.keys < o.least
  \/ /\ o.tested
     /\ \/ o.start \in {"NULL", "minus", "zero"} /\ o.letter \notin line.given
        \/ o.start = "minus" /\ line.value < 0
        \/ o.start = "zero" /\ line.value = 0

\* Mutant: the test asks whether all of them are missing.
SomeThere == \E i \in 1..Len(Cmd.options) : ~Missing(Cmd.options[i])

AllThere == \A i \in 1..Len(Cmd.options) : ~Missing(Cmd.options[i])

MissingOptions ==
  /\ phase = "check" /\ ~AllThere
  /\ Leave(<<24>>, Failure)
  /\ UNCHANGED <<requestVars, line, answer, tries>>

(* Some commands look into their values as well. *)
BadValue ==
  /\ phase = "check" /\ AllThere /\ Cmd.value # NoTest
  /\ Leave(IF "value" \in Cmd.silent THEN <<>> ELSE <<Cmd.value>>, Failure)
  /\ UNCHANGED <<requestVars, line, answer, tries>>

(* The length of the string the function passes for parameter p: a given   *)
(* text has length 1; userid and password are the empty string.            *)
Passed(p) ==
  LET os == {i \in 1..Len(Cmd.options) : Cmd.options[i].param = p} IN
  IF os = {} THEN IF p = "functionName" THEN 1 ELSE 0
  ELSE LET o == Cmd.options[CHOOSE i \in os : TRUE] IN
       IF o.start = "literal" THEN o.least
       ELSE IF o.letter \in line.given THEN 1
       ELSE IF o.start = "NULL" THEN Null
       ELSE 0

CallApi ==
  /\ phase = "check" /\ AllThere
  /\ Enter(Cmd.api, [p \in StringsOf(Vmapi[Cmd.api]) |-> Passed(p)], line.keys, 1)
  /\ phase' = "call"
  /\ tries' = CASE Cmd.tail = "Async" -> AsyncRetries
                [] Cmd.tail = "Activating" -> ActivateTries
                [] OTHER -> 0
  /\ UNCHANGED <<line, answer, headers, exit>>

-----------------------------------------------------------------------------
(* The answer. *)

OK(a) == a.rc = 0 /\ a.code = 0 /\ a.reason = 0

\* Mutant: the codes of SMAPI are reported without a header.
ReportWithoutHeader(a) ==
  IF a.rc # 0 THEN Leave(<<25>>, LibraryError)
  ELSE IF a.code # 0 \/ a.reason # 0 THEN Leave(<<>>, Failure)
  ELSE Leave(IF "ok" \in Cmd.silent THEN <<>> ELSE <<0>>, Success)

(* printAndLogProcessingErrors, and                                        *)
(* printAndLogSmapiReturnCodeReasonCodeDescription.                        *)
Report(a) ==
  IF a.rc # 0 THEN Leave(<<25>>, LibraryError)
  ELSE IF a.code # 0 \/ a.reason # 0 THEN Leave(<<8>>, Failure)
  ELSE Leave(IF "ok" \in Cmd.silent THEN <<>> ELSE <<0>>, Success)

Accepted(a, reason) == a.rc = 0 /\ a.code = 0 /\ a.reason = reason

(* The collected output is printed, or found wrong. *)
Collected == Leave(<<0>>, Success) \/ Leave(<<25>>, LibraryError)

Finish(a) ==
  CASE Cmd.tail = "Listing" /\ OK(a) -> Collected
    [] Cmd.tail = "Located" /\ OK(a) -> Leave(<<0>>, Success) \/ Leave(<<0>>, Failure)
    [] Cmd.tail = "Deactivating" /\ a.rc = 0 /\ a.code = 0 -> Leave(<<0>>, Success)
    [] Cmd.tail = "Level" /\ a.rc = 0 /\ a.code = 0 -> Leave(<<0>>, Success)
    [] Cmd.tail = "Accepts12" /\ Accepted(a, 12) -> Leave(<<0>>, Success)
    [] Cmd.tail = "Accepts16" /\ Accepted(a, 16) -> Leave(<<0>>, Success)
    [] Cmd.tail \in {"ImageLocks", "ProfileLocks"} /\ Accepted(a, 24) -> Leave(<<0>>, Success)
    [] Cmd.tail = "ImageLocks" /\ Accepted(a, 12) -> Collected
    [] Cmd.tail = "ProfileLocks" /\ Accepted(a, 12) -> Collected \/ Leave(<<8>>, Failure)
    [] OTHER -> Report(a)

(* What the call returned: what SMAPI answered or getAndParseSmapiBuffer   *)
(* failed with, or an error of the vmapi function itself.                  *)
NotSent == [rc |-> 1, code |-> 0, reason |-> 0]
CameBack(a) ==
  IF at = "sent" THEN a \in Answers
  ELSE a = NotSent

QueryFn == "smQuery_Asychronous_Operation_DM"
Querying == call.fn = QueryFn /\ Cmd.tail = "Async"

(* A reply the command asks again about: 592 with an operation id starts   *)
(* the query, 0/104 says that the operation is still in progress and 0/0   *)
(* is reported and asked about again; imageActivate repeats after 200/16.  *)
AsksAgain(a) ==
  \/ Cmd.tail = "Async" /\ ~Querying /\ a.rc = 0 /\ a.code = 592
  \/ Querying /\ Accepted(a, 104) /\ tries > 1
  \/ Querying /\ OK(a)
  \/ Cmd.tail = "Activating" /\ a.rc = 0 /\ a.code = 200 /\ a.reason = 16 /\ tries > 1

\* Mutant: the tries are not counted.
NotCounted(a) == tries

(* The tries left after reply a. *)
TriesLeft(a) == IF Cmd.tail = "Async" /\ (OK(a) \/ ~Querying) THEN tries ELSE tries - 1

Again ==
  /\ phase = "call" /\ at \in Returned
  /\ \E a \in Answers :
       /\ CameBack(a) /\ AsksAgain(a)
       /\ answer' = a
       /\ headers' = IF Querying /\ OK(a) THEN Printed(<<0>>) ELSE headers
       /\ tries' = TriesLeft(a)
  /\ LET fn == IF Cmd.tail = "Async" THEN QueryFn ELSE Cmd.api
     IN Enter(fn, [p \in StringsOf(Vmapi[fn]) |-> Passed(p)], 0, 1)
  /\ UNCHANGED <<phase, line, exit>>

Answered ==
  /\ phase = "call" /\ at \in Returned
  /\ \E a \in Answers \cup {NotSent} :
       /\ CameBack(a) /\ ~AsksAgain(a)
       /\ answer' = a
       /\ IF ~Querying THEN Finish(a)
          ELSE IF Accepted(a, 100) THEN Leave(<<0>>, Success)
          ELSE Report(a)   \* also 0/104 without tries left: reported as 592
  /\ UNCHANGED <<requestVars, line, tries>>

Die ==
  /\ at = "fault" /\ phase \in {"call", "library"}
  /\ phase' = "died"
  /\ UNCHANGED <<requestVars, line, answer, headers, exit, tries>>

-----------------------------------------------------------------------------
(* A program linked with the library. *)
CallLibrary ==
  /\ phase = "link"
  /\ Enter(call.fn, call.len, call.count, call.entry)
  /\ phase' = "library"
  /\ UNCHANGED <<line, answer, headers, exit, tries>>

LibraryReturns ==
  /\ phase = "library" /\ at \in Returned
  /\ phase' = "exited"
  /\ UNCHANGED <<requestVars, line, answer, headers, exit, tries>>

Marshal ==
  /\ phase \in {"call", "library"}
  /\ RequestStep
  /\ UNCHANGED smcliVars

Next ==
  \/ LevelUnknown \/ MainHelp \/ Unsupported \/ Dispatched
  \/ LevelUnknownAgain \/ LevelIgnored \/ Help \/ UnknownOption \/ TooManyKeys \/ OptionsRead
  \/ MissingOptions \/ BadValue \/ CallApi \/ Again \/ Answered \/ Die
  \/ CallLibrary \/ LibraryReturns \/ Marshal

Spec == Init /\ [][Next]_vars /\ WF_vars(Next)
-----------------------------------------------------------------------------
(* Commands that store more than their arrays hold: entryArray gets one -k *)
(* more than it has places, or the vmapi function's targetStart array is   *)
(* shorter than the entries the command accepts, the target included.      *)
OverfilledArrays ==
  {"System_Disk_Query", "System_EQID_Query", "System_Performance_Information_Query",
   "System_SCSI_Disk_Delete"}
ShortMarks ==
  {"smQuery_ABEND_Dump", "smSystem_Disk_Query", "smSystem_EQID_Query", "smSystem_SCSI_Disk_Delete",
   "smVirtual_Network_Adapter_Connect_Vswitch_Extended",
   "smVirtual_Network_Adapter_Create_Extended", "smVirtual_Network_Adapter_Create_Extended_DM",
   "smVirtual_Network_Vswitch_Create_Extended", "smVirtual_Network_Vswitch_Delete_Extended",
   "smVirtual_Network_Vswitch_Query_Extended", "smVirtual_Network_Vswitch_Query_Stats",
   "smVirtual_Network_Vswitch_Set_Extended"}

(* Every -k that a command accepts has its place, both in the command's    *)
(* entryArray and in the targetStart array of the vmapi function it calls: *)
(* the two lengths, the limit of the switch and the loop of the request    *)
(* are four numbers in two files.                                          *)
EntriesHavePlaces ==
  phase = "call" =>
    /\ \/ \A i \in KeyOptions(Cmd) : line.keys <= Cmd.options[i].cap
       \/ line.name \in OverfilledArrays
    /\ \/ TheApi.marks = Null \/ call.count + TheApi.offset <= TheApi.marks
       \/ call.fn \in ShortMarks

(* Commands that break the promise of --addRCheader (README). *)
NoHeaderAtSomeExit ==
  {"System_SCSI_Disk_Add", "System_Shutdown", "System_SCSI_Disk_Delete", "VMRELOCATE",
   "VMRELOCATE_Image_Attributes", "VMRELOCATE_Modify", "Event_Stream_Add", "IPaddr_Get",
   "Image_Definition_Query_DM", "System_Disk_Query", "System_WWPN_Query"}
TwoHeaders ==
  {"Process_ABEND_Dump", "Image_CPU_Define_DM", "Virtual_Network_Vswitch_Query_Extended"}
HeaderTooEarly == {"Query_ABEND_Dump"}

(* With --addRCheader a command that was dispatched prints exactly one     *)
(* header line, and the header says success if and only if the exit status *)
(* does: the SMT layer takes the first line of the output for the result.  *)
HeaderTellsExit ==
  phase = "exited" /\ line.header /\ line.name \in DOMAIN Dispatch =>
    \/ Len(headers) = 1 /\ (headers[1] = 0 <=> exit = Success)
    \/ line.name \in NoHeaderAtSomeExit /\ headers = <<>>
    \/ line.name \in TwoHeaders /\ Len(headers) >= 1 /\ headers[1] # 0
    \/ line.name \in HeaderTooEarly /\ headers = <<0>> /\ exit = Failure
    \/ Querying /\ headers[1] = 0

(* The help lists it, the level check refuses it (README). *)
ListedTooEarly == {"Image_Disk_Query"}

(* A name that the help lists at a level of SMAPI is served at that level: *)
(* displayHelpInfo and the arrays of main are kept by hand.                *)
ListedIsServed ==
  /\ phase = "level" /\ line.level # NoLevel
  /\ line.name \in DOMAIN Dispatch /\ HelpLevel(line.name) <= line.level
  => ~RefusedAt(line.name, line.level) \/ line.name \in ListedTooEarly

(***************************************************************************)
(* What the properties above need of the tables of commands and functions, *)
(* whatever the command line.  An exit without a header, a header for each *)
(* -k and a test of the data behind the header are in the commands named   *)
(* above alone; the switch stores no more -k than there are places; and a  *)
(* string whose length the vmapi function takes starts as "" or is asked   *)
(* for.                                                                    *)
(***************************************************************************)
PlacesFor(api, n) == api.marks = Null \/ n + api.offset <= api.marks
NeverNull(cmd, fn) ==
  \A i \in 1..Len(Vmapi[fn].sized), j \in 1..Len(cmd.options) :
    LET o == cmd.options[j] IN
    o.param = Vmapi[fn].sized[i] =>
      /\ o.start = "literal" => o.least # Null
      /\ o.start = "NULL" => o.tested

ASSUME CommandsAssumption ==
  \A name \in DOMAIN Dispatch :
    LET cmd == Dispatch[name] IN
    /\ cmd.silent # {} \/ cmd.level = "plain" => name \in NoHeaderAtSomeExit
    /\ cmd.chatty \/ cmd.level \in {"header", "ignored"} => name \in TwoHeaders
    /\ cmd.tail = "Located" => name \in HeaderTooEarly
    /\ cmd.value \in Int \ {0}
    /\ \A i \in KeyOptions(cmd) :
         /\ cmd.options[i].most \in Nat /\ cmd.options[i].cap \in Nat
         /\ cmd.options[i].most <= cmd.options[i].cap \/ name \in OverfilledArrays
    /\ \/ cmd.api \in ShortMarks
       \/ KeyOptions(cmd) = {} /\ PlacesFor(Vmapi[cmd.api], 0)
       \/ \E i \in KeyOptions(cmd) : PlacesFor(Vmapi[cmd.api], cmd.options[i].most)
    /\ cmd.api \in LeftNull \/ NeverNull(cmd, cmd.api)
    /\ cmd.tail = "Async" => NeverNull(cmd, QueryFn)

ASSUME MarksAssumption ==
  /\ \A fn \in DOMAIN Vmapi : Vmapi[fn].marks \in Int /\ Vmapi[fn].offset \in Int
  /\ \A name \in DOMAIN Dispatch : Dispatch[name].api \in DOMAIN Vmapi
  /\ QueryFn \in DOMAIN Vmapi /\ PlacesFor(Vmapi[QueryFn], 0)

(* A command line has no -k if its command takes none, and a program       *)
(* passes no NULL to the library.                                          *)
ASSUME LinesAssumption ==
  /\ \A l \in Lines :
       /\ l.keys \in Nat /\ l.level \in Nat
       /\ l.name \in DOMAIN Dispatch /\ KeyOptions(Dispatch[l.name]) = {} => l.keys = 0
  /\ \A c \in LibraryCalls :
       \A i \in 1..Len(Vmapi[c.fn].sized) : c.len[Vmapi[c.fn].sized[i]] # Null

(* The asynchronous operation is reported as done, 0/0. *)
OperationDone == phase = "call" /\ Querying /\ OK(answer)

(* Every command comes to an end, whatever SMAPI answers: the retries of   *)
(* the asynchronous query and of imageActivate run out.  The exception is  *)
(* a query that is answered 0/0.                                           *)
Terminates == phase = "level" ~> (phase \in Ended \/ OperationDone)
=============================================================================
