----------------------------- MODULE SmcliProofs -----------------------------
(***************************************************************************)
(* Proofs about smcli for any command lines, answers of SMAPI and numbers  *)
(* of retries: what the header tells, that entries have places, that no    *)
(* length is taken of NULL, and that what the help lists is served.        *)
(***************************************************************************)
EXTENDS Smcli, TLAPS

(***************************************************************************)
(* Which command line is served, and which call it has come to.            *)
(***************************************************************************)
Reading == {"options", "check", "call"}

LineOK ==
  /\ phase \in {"level"} \cup Reading => line \in Lines
  /\ phase \in Reading => line.name \in DOMAIN Dispatch
  /\ phase \in {"link", "library"} => line = NoLine
  /\ phase = "exited" => line = NoLine \/ line \in Lines
  /\ phase = "link" => call \in LibraryCalls

\* The command's own call, or a query of the operation it has started.
TheCall ==
  \/ call.fn = Cmd.api /\ call.count \in {0, line.keys}
  \/ Cmd.tail = "Async" /\ call.fn = QueryFn /\ call.count = 0

OptionsOK ==
  /\ phase \in {"check", "call"} => \A i \in KeyOptions(Cmd) : line.keys <= Cmd.options[i].most
  /\ phase = "call" => AllThere /\ TheCall

(***************************************************************************)
(* The headers: there are none before the command leaves, but for those of *)
(* every -k, of every query that was answered 0/0 and of a level that was  *)
(* not told and not needed.                                                *)
(***************************************************************************)
ForKeys == Cmd.chatty /\ Len(headers) >= 1 /\ headers[1] = 24
ForQueries == Querying /\ Len(headers) >= 1 /\ headers[1] = 0
ForLevel == Cmd.level = "ignored" /\ Len(headers) >= 1 /\ headers[1] # 0
EarlyHeaders == headers = <<>> \/ ForKeys \/ ForQueries \/ ForLevel

HeadersOK ==
  /\ headers \in Seq(Int)
  /\ phase \in {"level", "link", "library"} => headers = <<>>
  /\ phase = "options" => headers = <<>> \/ ForLevel
  /\ phase = "check" => headers = <<>> \/ ForKeys \/ ForLevel
  /\ phase = "call" => EarlyHeaders
  /\ HeaderTellsExit

SmcliInv == LineOK /\ OptionsOK /\ HeadersOK /\ NoNullString

-----------------------------------------------------------------------------
(* Headers *)

LEMMA PrintedFirst ==
  ASSUME headers \in Seq(Int), NEW c \in Seq(Int)
  PROVE  /\ Printed(c) \in Seq(Int)
         /\ Len(headers) >= 1 => Len(Printed(c)) >= 1 /\ Printed(c)[1] = headers[1]
  BY DEF Printed

LEMMA PrintedAlone ==
  ASSUME headers = <<>>, line.header, NEW c \in Seq(Int), Len(c) <= 2
  PROVE  Printed(c) = c
  <1>1. Len(headers) + Len(c) <= 2
    <2>1. Len(headers) = 0 /\ Len(c) \in Nat
      OBVIOUS
    <2> QED  BY <2>1
  <1>2. headers \o c = c
    OBVIOUS
  <1> QED  BY <1>1, <1>2 DEF Printed

\* The header lines c go with the exit status.
Tells(c, status) ==
  \/ c = <<>> /\ (Cmd.silent # {} \/ Cmd.level = "plain")
  \/ \E x \in Int : c = <<x>> /\ (x = 0 <=> status = Success)
  \/ c = <<0>> /\ Cmd.tail = "Located" /\ status = Failure
  \/ c = <<24, 24>> /\ Cmd.chatty
  \/ \E x \in {8, 25} : c = <<x, 25>> /\ Cmd.level = "header"

LEMMA LeaveTells ==
  ASSUME headers \in Seq(Int), EarlyHeaders,
         line.name \in DOMAIN Dispatch, NEW c \in Seq(Int), NEW status, Tells(c, status),
         Leave(c, status), line' = line, call' = call
  PROVE  headers' \in Seq(Int) /\ HeaderTellsExit'
  <1>1. /\ headers' = Printed(c) /\ phase' = "exited" /\ exit' = status
        /\ Cmd' = Cmd /\ Querying' = Querying
    BY DEF Leave, Cmd, Querying
  <1>2. headers' \in Seq(Int)
    BY <1>1, PrintedFirst
  <1>3. CASE ForKeys
    <2>1. Len(headers') >= 1 /\ headers'[1] = 24
      BY <1>1, <1>3, PrintedFirst DEF ForKeys
    <2>2. line'.name \in TwoHeaders
      BY <1>3, CommandsAssumption DEF ForKeys, Cmd
    <2> QED  BY <1>2, <2>1, <2>2 DEF HeaderTellsExit
  <1>4. CASE ForQueries
    <2>1. headers'[1] = 0 /\ Querying'
      BY <1>1, <1>4, PrintedFirst DEF ForQueries
    <2> QED  BY <1>2, <2>1 DEF HeaderTellsExit
  <1>6. CASE ForLevel
    <2>1. Len(headers') >= 1 /\ headers'[1] # 0
      BY <1>1, <1>6, PrintedFirst DEF ForLevel
    <2>2. line'.name \in TwoHeaders
      BY <1>6, CommandsAssumption DEF ForLevel, Cmd
    <2> QED  BY <1>2, <2>1, <2>2 DEF HeaderTellsExit
  <1>5. CASE headers = <<>>
    <2> SUFFICES ASSUME line.header PROVE HeaderTellsExit'
      BY <1>2 DEF HeaderTellsExit
    <2>1. Len(c) <= 2
      <3>1. /\ Len(<<>>) = 0 /\ (\A x \in Int : Len(<<x>>) = 1) /\ Len(<<24, 24>>) = 2
            /\ \A x \in {8, 25} : Len(<<x, 25>>) = 2
        OBVIOUS
      <3> DEFINE n == Len(c)
      <3>2. n = 0 \/ n = 1 \/ n = 2
        BY <3>1, Zenon DEF Tells
      <3> HIDE DEF n
      <3>3. n <= 2
        BY <3>2
      <3> QED  BY <3>3 DEF n
    <2>2. headers' = c
      BY <1>1, <1>5, <2>1, PrintedAlone
    <2>3. CASE c = <<>> /\ (Cmd.silent # {} \/ Cmd.level = "plain")
      <3>1. line'.name \in NoHeaderAtSomeExit
        BY <2>3, CommandsAssumption DEF Cmd
      <3> QED  BY <2>2, <2>3, <3>1 DEF HeaderTellsExit
    <2>4. CASE \E x \in Int : c = <<x>> /\ (x = 0 <=> status = Success)
      <3>1. Len(headers') = 1 /\ (headers'[1] = 0 <=> exit' = Success)
        BY <1>1, <2>2, <2>4
      <3> QED  BY <3>1 DEF HeaderTellsExit, Success
    <2>5. CASE c = <<0>> /\ Cmd.tail = "Located" /\ status = Failure
      <3>1. line'.name \in HeaderTooEarly
        BY <2>5, CommandsAssumption DEF Cmd
      <3> QED  BY <1>1, <2>2, <2>5, <3>1 DEF HeaderTellsExit, Failure
    <2>6. CASE c = <<24, 24>> /\ Cmd.chatty
      <3>1. line'.name \in TwoHeaders
        BY <2>6, CommandsAssumption DEF Cmd
      <3>2. Len(headers') >= 1 /\ headers'[1] = 24
        BY <2>2, <2>6
      <3> QED  BY <3>1, <3>2 DEF HeaderTellsExit
    <2>7. ASSUME NEW x \in {8, 25}, c = <<x, 25>>, Cmd.level = "header" PROVE HeaderTellsExit'
      <3>1. line'.name \in TwoHeaders
        BY <2>7, CommandsAssumption DEF Cmd
      <3>2. Len(headers') >= 1 /\ headers'[1] # 0
        BY <2>2, <2>7
      <3> QED  BY <3>1, <3>2 DEF HeaderTellsExit
    <2> QED  BY <2>3, <2>4, <2>5, <2>6, <2>7 DEF Tells
  <1> QED  BY <1>2, <1>3, <1>4, <1>5, <1>6 DEF EarlyHeaders

LEMMA ReportTells ==
  ASSUME headers \in Seq(Int), EarlyHeaders,
         line.name \in DOMAIN Dispatch, NEW a, Report(a), line' = line, call' = call
  PROVE  headers' \in Seq(Int) /\ HeaderTellsExit' /\ phase' = "exited"
  <1>0. <<25>> \in Seq(Int) /\ <<8>> \in Seq(Int) /\ <<0>> \in Seq(Int)
    OBVIOUS
  <1>1. /\ Tells(<<25>>, LibraryError) /\ Tells(<<8>>, Failure) /\ Tells(<<0>>, Success)
        /\ Cmd.silent # {} => Tells(<<>>, Success)
    BY DEF Tells, LibraryError, Failure, Success
  <1>2. CASE Leave(<<25>>, LibraryError)
    BY <1>0, <1>1, <1>2, LeaveTells DEF Leave
  <1>3. CASE Leave(<<8>>, Failure)
    BY <1>0, <1>1, <1>3, LeaveTells DEF Leave
  <1>4. CASE Leave(<<0>>, Success)
    BY <1>0, <1>1, <1>4, LeaveTells DEF Leave
  <1>5. CASE Cmd.silent # {} /\ Leave(<<>>, Success)
    <2>1. <<>> \in Seq(Int)
      OBVIOUS
    <2> QED  BY <1>1, <1>5, <2>1, LeaveTells DEF Leave
  <1> QED  BY <1>2, <1>3, <1>4, <1>5 DEF Report

LEMMA FinishTells ==
  ASSUME headers \in Seq(Int), EarlyHeaders,
         line.name \in DOMAIN Dispatch, NEW a, Finish(a), line' = line, call' = call
  PROVE  headers' \in Seq(Int) /\ HeaderTellsExit' /\ phase' = "exited"
  <1>0. <<25>> \in Seq(Int) /\ <<8>> \in Seq(Int) /\ <<0>> \in Seq(Int)
    OBVIOUS
  <1>1. /\ Tells(<<25>>, LibraryError) /\ Tells(<<8>>, Failure) /\ Tells(<<0>>, Success)
        /\ Cmd.tail = "Located" => Tells(<<0>>, Failure)
    BY DEF Tells, LibraryError, Failure, Success
  <1>2. CASE Leave(<<25>>, LibraryError)
    BY <1>0, <1>1, <1>2, LeaveTells DEF Leave
  <1>3. CASE Leave(<<8>>, Failure)
    BY <1>0, <1>1, <1>3, LeaveTells DEF Leave
  <1>4. CASE Leave(<<0>>, Success)
    BY <1>0, <1>1, <1>4, LeaveTells DEF Leave
  <1>5. CASE Cmd.tail = "Located" /\ Leave(<<0>>, Failure)
    BY <1>0, <1>1, <1>5, LeaveTells DEF Leave
  <1>6. CASE Report(a)
    BY <1>6, ReportTells
  <1> QED  BY <1>2, <1>3, <1>4, <1>5, <1>6 DEF Finish, Collected

-----------------------------------------------------------------------------
(* Strings *)

LEMMA PassedNotNull ==
  ASSUME AllThere, NEW fn, NeverNull(Cmd, fn), NEW i \in 1..Len(Vmapi[fn].sized)
  PROVE  Passed(Vmapi[fn].sized[i]) # Null
  <1> DEFINE p == Vmapi[fn].sized[i]
             os == {j \in 1..Len(Cmd.options) : Cmd.options[j].param = p}
             k == CHOOSE j \in os : TRUE
             o == Cmd.options[k]
  <1>1. CASE os = {}
    <2>1. Passed(p) \in {0, 1}
      BY <1>1 DEF Passed
    <2> QED  BY <2>1 DEF Null
  <1>2. CASE os # {}
    <2>1. k \in 1..Len(Cmd.options) /\ o.param = p
      BY <1>2
    <2>2. /\ o.start = "literal" => o.least # Null
          /\ o.start = "NULL" => o.tested
      BY <2>1 DEF NeverNull
    <2>3. Passed(p) = IF o.start = "literal" THEN o.least
                      ELSE IF o.letter \in line.given THEN 1
                      ELSE IF o.start = "NULL" THEN Null
                      ELSE 0
      BY <1>2 DEF Passed
    <2>4. ~Missing(o)
      BY <2>1 DEF AllThere
    <2>5. o.start = "NULL" => o.letter \in line.given
      BY <2>2, <2>4 DEF Missing
    <2>6. CASE o.start = "literal"
      BY <2>2, <2>3, <2>6, Zenon
    <2>7. CASE o.start # "literal"
      <3>1. Passed(p) = 1 \/ Passed(p) = 0
        BY <2>3, <2>5, <2>7, Zenon
      <3> QED  BY <3>1 DEF Null
    <2> QED  BY <2>6, <2>7
  <1> QED  BY <1>1, <1>2

LEMMA NothingFaults ==
  ASSUME AllThere, NEW fn, NeverNull(Cmd, fn), NEW n,
         Enter(fn, [p \in StringsOf(Vmapi[fn]) |-> Passed(p)], n, 1)
  PROVE  at' # "fault"
  <1> DEFINE api == Vmapi[fn]
             len == [p \in StringsOf(api) |-> Passed(p)]
             a == [fn |-> fn, len |-> len, count |-> n, entry |-> 1]
  <1>1. ASSUME NEW i \in 1..Len(api.sized) PROVE a.len[api.sized[i]] # Null
    <2>1. api.sized[i] \in StringsOf(api)
      BY DEF StringsOf
    <2>2. a.len[api.sized[i]] = Passed(api.sized[i])
      BY <2>1
    <2> QED  BY <2>2, PassedNotNull
  <1>2. ~Faults(api, a)
    BY <1>1 DEF Faults
  <1>3. at' = IF Contradicts(api, a) THEN "refused"
              ELSE IF Faults(api, a) THEN "fault"
              ELSE "entered"
    BY DEF Enter
  <1> HIDE DEF a, api
  <1> QED  BY <1>2, <1>3

LEMMA Entered ==
  ASSUME NEW fn, NEW len, NEW n, NEW e, Enter(fn, len, n, e)
  PROVE  call'.fn = fn /\ call'.count = n
  BY DEF Enter

-----------------------------------------------------------------------------
(* The steps *)

\* A command leaves with a header that tells how.
LEMMA Leaves ==
  ASSUME SmcliInv, phase \in Reading, phase' = "exited", line' = line, call' = call, at' = at,
         headers' \in Seq(Int), HeaderTellsExit'
  PROVE  SmcliInv'
  <1>1. LineOK'
    BY DEF SmcliInv, LineOK, Reading
  <1>2. OptionsOK' /\ HeadersOK'
    BY DEF OptionsOK, HeadersOK
  <1>3. NoNullString'
    BY DEF SmcliInv, NoNullString
  <1> QED  BY <1>1, <1>2, <1>3 DEF SmcliInv

LEMMA CommandServed ==
  ASSUME SmcliInv, phase \in Reading
  PROVE  /\ line \in Lines /\ line.name \in DOMAIN Dispatch
         /\ headers \in Seq(Int) /\ EarlyHeaders
  BY DEF SmcliInv, LineOK, HeadersOK, EarlyHeaders, Reading

LEMMA OptionsLeave ==
  ASSUME SmcliInv,
         LevelUnknownAgain \/ Help \/ UnknownOption \/ TooManyKeys \/ MissingOptions \/ BadValue
  PROVE  SmcliInv'
  <1>1. phase \in Reading /\ line' = line /\ call' = call /\ at' = at
    BY DEF LevelUnknownAgain, Help, UnknownOption, TooManyKeys, MissingOptions, BadValue, Reading,
           requestVars
  <1>2. PICK c \in Seq(Int) : \E status : Tells(c, status) /\ Leave(c, status)
    <2>0. /\ <<25>> \in Seq(Int) /\ <<24>> \in Seq(Int) /\ <<24, 24>> \in Seq(Int)
          /\ <<0>> \in Seq(Int) /\ <<>> \in Seq(Int)
          /\ <<8, 25>> \in Seq(Int) /\ <<25, 25>> \in Seq(Int) /\ <<8>> \in Seq(Int)
      OBVIOUS
    <2>1. /\ Tells(<<25>>, Failure) /\ Tells(<<24>>, Failure) /\ Tells(<<0>>, Success)
          /\ Tells(<<24>>, LibraryError)
          /\ Cmd.chatty => Tells(<<24, 24>>, LibraryError)
          /\ Cmd.silent # {} => \A status : Tells(<<>>, status)
      BY DEF Tells, LibraryError, Failure, Success
    <2>2. <<Cmd.value>> \in Seq(Int) /\ Tells(<<Cmd.value>>, Failure)
      <3>1. Cmd.value \in Int \ {0}
        BY <1>1, CommandServed, CommandsAssumption DEF Cmd
      <3> DEFINE x == Cmd.value
      <3> HIDE DEF x
      <3>2. <<x>> \in Seq(Int) /\ Tells(<<x>>, Failure)
        BY <3>1 DEF Tells, Failure, Success, x
      <3> QED  BY <3>2 DEF x
    <2>3. CASE UnknownOption \/ MissingOptions
      BY <2>0, <2>1, <2>3 DEF UnknownOption, MissingOptions
    <2>7. CASE LevelUnknownAgain
      <3>1. Tells(<<8>>, Failure)
        BY DEF Tells, Failure, Success
      <3>2. CASE Cmd.level = "plain" /\ \E d \in {<<>>, <<8>>, <<25>>} : Leave(d, Failure)
        <4>1. Tells(<<>>, Failure)
          BY <3>2 DEF Tells
        <4> QED  BY <2>0, <2>1, <3>1, <3>2, <4>1
      <3>3. CASE Cmd.level = "header"
                 /\ \E d \in {<<25>>, <<8, 25>>, <<25, 25>>} : Leave(d, Failure)
        <4>1. Tells(<<8, 25>>, Failure) /\ Tells(<<25, 25>>, Failure)
          BY <3>3 DEF Tells
        <4> QED  BY <2>0, <2>1, <3>3, <4>1
      <3> QED  BY <2>7, <3>2, <3>3 DEF LevelUnknownAgain
    <2>4. CASE Help
      BY <2>0, <2>1, <2>4 DEF Help
    <2>5. CASE TooManyKeys
      BY <2>0, <2>1, <2>5 DEF TooManyKeys
    <2>6. CASE BadValue
      BY <2>0, <2>1, <2>2, <2>6 DEF BadValue
    <2> QED  BY <2>3, <2>4, <2>5, <2>6, <2>7
  <1>3. PICK status : Tells(c, status) /\ Leave(c, status)
    BY <1>2
  <1>4. headers' \in Seq(Int) /\ HeaderTellsExit' /\ phase' = "exited"
    BY <1>1, <1>3, CommandServed, LeaveTells DEF Leave
  <1> QED  BY <1>1, <1>4, Leaves

LEMMA AnswerLeaves ==
  ASSUME SmcliInv, Answered
  PROVE  SmcliInv'
  <1>1. phase \in Reading /\ line' = line /\ call' = call /\ at' = at
    BY DEF Answered, Reading, requestVars
  <1>2. headers' \in Seq(Int) /\ HeaderTellsExit' /\ phase' = "exited"
    <2>1. PICK a : Finish(a) \/ Leave(<<0>>, Success) \/ Report(a)
      BY DEF Answered
    <2>2. <<0>> \in Seq(Int) /\ Tells(<<0>>, Success)
      BY DEF Tells, Success
    <2>3. CASE Leave(<<0>>, Success)
      BY <1>1, <2>2, <2>3, CommandServed, LeaveTells DEF Leave
    <2>4. CASE Finish(a)
      BY <1>1, <2>4, CommandServed, FinishTells
    <2>5. CASE Report(a)
      BY <1>1, <2>5, CommandServed, ReportTells
    <2> QED  BY <2>1, <2>3, <2>4, <2>5
  <1> QED  BY <1>1, <1>2, Leaves

LEMMA MainKeeps ==
  ASSUME SmcliInv, LevelUnknown \/ MainHelp \/ Unsupported \/ Dispatched
  PROVE  SmcliInv'
  <1>1. /\ line' = line /\ call' = call /\ at' = at /\ headers' = headers /\ headers = <<>>
        /\ line \in Lines /\ headers \in Seq(Int)
    BY DEF SmcliInv, LineOK, HeadersOK, LevelUnknown, MainHelp, Unsupported, Dispatched,
           requestVars
  <1>2. phase' = "refused" \/ (phase' = "options" /\ line.name \in DOMAIN Dispatch)
    BY DEF LevelUnknown, MainHelp, Unsupported, Dispatched
  <1>3. LineOK'
    BY <1>1, <1>2 DEF LineOK, Reading
  <1>4. OptionsOK'
    BY <1>2 DEF OptionsOK
  <1>5. HeadersOK'
    BY <1>1, <1>2 DEF HeadersOK, HeaderTellsExit
  <1>6. NoNullString'
    BY <1>1 DEF SmcliInv, NoNullString
  <1> QED  BY <1>3, <1>4, <1>5, <1>6 DEF SmcliInv

LEMMA LevelIgnoredKeeps ==
  ASSUME SmcliInv, LevelIgnored
  PROVE  SmcliInv'
  <1>1. /\ line' = line /\ call' = call /\ at' = at /\ phase = "options" /\ phase' = "options"
        /\ Cmd' = Cmd /\ Cmd.level = "ignored" /\ headers = <<>>
    BY DEF LevelIgnored, requestVars, Cmd
  <1>2. LineOK' /\ OptionsOK' /\ NoNullString'
    BY <1>1 DEF SmcliInv, LineOK, OptionsOK, NoNullString, Reading
  <1>3. headers' = <<>> \/ headers' = <<8>> \/ headers' = <<25>>
    BY <1>1 DEF LevelIgnored, Printed
  <1>4. headers' \in Seq(Int) /\ (headers' = <<>> \/ (Len(headers') >= 1 /\ headers'[1] # 0))
    <2>1. CASE headers' = <<>>
      BY <2>1
    <2>2. CASE headers' = <<8>>
      BY <2>2
    <2>3. CASE headers' = <<25>>
      BY <2>3
    <2> QED  BY <1>3, <2>1, <2>2, <2>3, Zenon
  <1>5. HeadersOK'
    BY <1>1, <1>4 DEF HeadersOK, HeaderTellsExit, ForLevel
  <1> QED  BY <1>2, <1>5 DEF SmcliInv

LEMMA OptionsReadKeeps ==
  ASSUME SmcliInv, OptionsRead
  PROVE  SmcliInv'
  <1>1. /\ line' = line /\ call' = call /\ at' = at /\ phase = "options" /\ phase' = "check"
        /\ line \in Lines /\ line.name \in DOMAIN Dispatch /\ Cmd' = Cmd
        /\ headers \in Seq(Int) /\ (headers = <<>> \/ ForLevel)
    BY DEF SmcliInv, LineOK, HeadersOK, OptionsRead, requestVars, Reading, Cmd
  <1>2. LineOK'
    BY <1>1 DEF LineOK, Reading
  <1>3. OptionsOK'
    BY <1>1 DEF OptionsRead, OptionsOK, KeyOptions
  <1>4. headers' = headers \/ (Cmd.chatty /\ headers' = Printed(<<24>>))
    BY DEF OptionsRead
  <1>5. HeadersOK'
    <2>1. CASE headers' = headers
      BY <1>1, <2>1 DEF HeadersOK, HeaderTellsExit, ForLevel
    <2>2. CASE Cmd.chatty /\ headers' = Printed(<<24>>)
      <3>0. <<24>> \in Seq(Int) /\ <<24>>[1] = 24 /\ Len(<<24>>) >= 1 /\ <<>> \in Seq(Int)
        OBVIOUS
      <3>1. CASE headers = <<>>
        <4>1. headers' = <<24>> \/ headers' = <<>>
          BY <2>2, <3>1 DEF Printed
        <4>2. headers' \in Seq(Int) /\ (headers' = <<>> \/ ForKeys')
          BY <1>1, <2>2, <3>0, <4>1 DEF ForKeys
        <4> QED  BY <1>1, <4>2 DEF HeadersOK, HeaderTellsExit
      <3>2. CASE ForLevel
        <4>1. /\ headers' \in Seq(Int) /\ Len(headers') >= 1
              /\ headers'[1] = headers[1]
          BY <1>1, <2>2, <3>0, <3>2, PrintedFirst DEF ForLevel
        <4>2. ForLevel'
          BY <1>1, <3>2, <4>1 DEF ForLevel
        <4> QED  BY <1>1, <4>1, <4>2 DEF HeadersOK, HeaderTellsExit
      <3> QED  BY <1>1, <3>1, <3>2
    <2> QED  BY <1>4, <2>1, <2>2
  <1>6. NoNullString'
    BY <1>1 DEF SmcliInv, NoNullString
  <1> QED  BY <1>2, <1>3, <1>5, <1>6 DEF SmcliInv

LEMMA CallApiKeeps ==
  ASSUME SmcliInv, CallApi
  PROVE  SmcliInv'
  <1>1. /\ line' = line /\ headers' = headers /\ phase = "check" /\ phase' = "call"
        /\ line \in Lines /\ line.name \in DOMAIN Dispatch /\ AllThere
        /\ headers \in Seq(Int) /\ (headers = <<>> \/ ForKeys \/ ForLevel)
        /\ \A i \in KeyOptions(Cmd) : line.keys <= Cmd.options[i].most
    BY DEF SmcliInv, LineOK, HeadersOK, OptionsOK, CallApi, Reading
  <1>2. Cmd' = Cmd /\ AllThere' /\ (ForKeys <=> ForKeys') /\ (ForLevel <=> ForLevel')
    BY <1>1 DEF Cmd, AllThere, Missing, ForKeys, ForLevel
  <1>3. Enter(Cmd.api, [p \in StringsOf(Vmapi[Cmd.api]) |-> Passed(p)], line.keys, 1)
    BY DEF CallApi
  <1>4. call'.fn = Cmd.api /\ call'.count = line.keys
    BY <1>3, Entered
  <1>5. NoNullString'
    <2>1. Cmd.api \in LeftNull \/ NeverNull(Cmd, Cmd.api)
      BY <1>1, CommandsAssumption DEF Cmd
    <2>2. Cmd.api \in LeftNull \/ at' # "fault"
      BY <1>1, <1>3, <2>1, NothingFaults
    <2> QED  BY <1>4, <2>2 DEF NoNullString
  <1>6. LineOK'
    BY <1>1 DEF LineOK, Reading
  <1>7. OptionsOK'
    BY <1>1, <1>2, <1>4 DEF OptionsOK, TheCall, KeyOptions
  <1>8. HeadersOK'
    BY <1>1, <1>2 DEF HeadersOK, HeaderTellsExit, EarlyHeaders
  <1> QED  BY <1>5, <1>6, <1>7, <1>8 DEF SmcliInv

LEMMA AgainKeeps ==
  ASSUME SmcliInv, Again
  PROVE  SmcliInv'
  <1>1. /\ line' = line /\ phase = "call" /\ phase' = "call"
        /\ line \in Lines /\ line.name \in DOMAIN Dispatch /\ AllThere
        /\ headers \in Seq(Int) /\ EarlyHeaders
        /\ \A i \in KeyOptions(Cmd) : line.keys <= Cmd.options[i].most
    BY DEF SmcliInv, LineOK, HeadersOK, OptionsOK, Again, Reading
  <1>2. Cmd' = Cmd /\ AllThere'
    BY <1>1 DEF Cmd, AllThere, Missing
  <1> DEFINE fn == IF Cmd.tail = "Async" THEN QueryFn ELSE Cmd.api
  <1>3. Enter(fn, [p \in StringsOf(Vmapi[fn]) |-> Passed(p)], 0, 1)
    BY DEF Again
  <1>4. call'.fn = fn /\ call'.count = 0
    BY <1>3, Entered
  <1>5. Querying => Querying'
    BY <1>2, <1>4 DEF Querying
  <1>6. headers' = headers \/ (Querying /\ headers' = Printed(<<0>>))
    BY DEF Again
  <1>7. headers' \in Seq(Int) /\ EarlyHeaders'
    <2>1. CASE headers' = headers
      BY <1>1, <1>2, <1>5, <2>1 DEF EarlyHeaders, ForKeys, ForQueries, ForLevel
    <2>2. CASE Querying /\ headers' = Printed(<<0>>)
      <3>1. <<0>> \in Seq(Int)
        OBVIOUS
      <3>2. /\ headers' \in Seq(Int)
            /\ Len(headers) >= 1 => Len(headers') >= 1 /\ headers'[1] = headers[1]
        BY <1>1, <2>2, <3>1, PrintedFirst
      <3>3. CASE headers = <<>>
        <4>1. headers' = <<>> \/ headers' = <<0>>
          BY <2>2, <3>3 DEF Printed
        <4>2. Len(<<0>>) >= 1 /\ <<0>>[1] = 0
          OBVIOUS
        <4> QED  BY <1>5, <2>2, <3>2, <4>1, <4>2 DEF EarlyHeaders, ForQueries
      <3>4. CASE ForKeys \/ ForQueries \/ ForLevel
        BY <1>2, <1>5, <3>2, <3>4 DEF EarlyHeaders, ForKeys, ForQueries, ForLevel
      <3> QED  BY <1>1, <3>3, <3>4 DEF EarlyHeaders
    <2> QED  BY <1>6, <2>1, <2>2
  <1>8. NoNullString'
    <2>1. fn \in LeftNull \/ NeverNull(Cmd, fn)
      BY <1>1, CommandsAssumption DEF Cmd
    <2>2. fn \in LeftNull \/ at' # "fault"
      BY <1>1, <1>3, <2>1, NothingFaults
    <2> QED  BY <1>4, <2>2 DEF NoNullString
  <1>9. LineOK'
    BY <1>1 DEF LineOK, Reading
  <1>10. OptionsOK'
    BY <1>1, <1>2, <1>4 DEF OptionsOK, TheCall, KeyOptions
  <1>11. HeadersOK'
    BY <1>1, <1>7 DEF HeadersOK, HeaderTellsExit
  <1> QED  BY <1>8, <1>9, <1>10, <1>11 DEF SmcliInv

LEMMA LibraryKeeps ==
  ASSUME SmcliInv, CallLibrary \/ LibraryReturns
  PROVE  SmcliInv'
  <1>1. line' = line /\ line = NoLine /\ headers' = headers /\ headers = <<>>
    BY DEF SmcliInv, LineOK, HeadersOK, CallLibrary, LibraryReturns
  <1>2. phase' = "library" \/ phase' = "exited"
    BY DEF CallLibrary, LibraryReturns
  <1>3. NoNullString'
    <2>1. CASE CallLibrary
      <3>1. call \in LibraryCalls /\ Enter(call.fn, call.len, call.count, call.entry)
        BY <2>1 DEF SmcliInv, LineOK, CallLibrary
      <3> DEFINE a == [fn |-> call.fn, len |-> call.len, count |-> call.count,
                       entry |-> call.entry]
      <3>2. ~Faults(Vmapi[call.fn], a)
        BY <3>1, LinesAssumption DEF Faults
      <3>3. at' # "fault"
        BY <3>1, <3>2 DEF Enter
      <3> QED  BY <3>3 DEF NoNullString
    <2>2. CASE LibraryReturns
      BY <2>2 DEF SmcliInv, LibraryReturns, NoNullString, requestVars
    <2> QED  BY <2>1, <2>2
  <1>4. LineOK' /\ OptionsOK'
    BY <1>1, <1>2 DEF LineOK, OptionsOK, Reading
  <1>5. HeadersOK'
    <2>1. headers' \in Seq(Int) /\ ~line'.header
      BY <1>1 DEF NoLine
    <2> QED  BY <1>1, <1>2, <2>1 DEF HeadersOK, HeaderTellsExit
  <1> QED  BY <1>3, <1>4, <1>5 DEF SmcliInv

LEMMA DieKeeps ==
  ASSUME SmcliInv, Die
  PROVE  SmcliInv'
  BY DEF SmcliInv, Die, LineOK, OptionsOK, HeadersOK, HeaderTellsExit, NoNullString, Reading,
         requestVars

\* A step of the vmapi function, or none.
LEMMA MarshalKeeps ==
  ASSUME SmcliInv, UNCHANGED smcliVars, call' = call, at' = "fault" => at = "fault"
  PROVE  SmcliInv'
  <1>1. /\ phase' = phase /\ line' = line /\ headers' = headers /\ exit' = exit
        /\ Cmd' = Cmd
    BY DEF smcliVars, Cmd
  <1>2. LineOK'
    BY <1>1 DEF SmcliInv, LineOK
  <1>3. OptionsOK'
    BY <1>1 DEF SmcliInv, OptionsOK, TheCall, AllThere, Missing, KeyOptions
  <1>4. HeadersOK'
    BY <1>1 DEF SmcliInv, HeadersOK, HeaderTellsExit, ForKeys, ForQueries, ForLevel,
                EarlyHeaders, Querying
  <1>5. NoNullString'
    BY DEF SmcliInv, NoNullString
  <1> QED  BY <1>2, <1>3, <1>4, <1>5 DEF SmcliInv

(* The command line, the call, what was printed and the exit status of     *)
(* smcli go together (main, the functions of smcli*.c).                    *)
THEOREM SmcliInvariant == Spec => []SmcliInv
  <1>1. Init => SmcliInv
    <2> SUFFICES ASSUME Init PROVE SmcliInv
      OBVIOUS
    <2>1. headers \in Seq(Int)
      BY DEF Init
    <2> QED  BY <2>1 DEF Init, RequestInit, SmcliInv, LineOK, OptionsOK, HeadersOK,
                         HeaderTellsExit, NoNullString, Reading
  <1>2. SmcliInv /\ [Next]_vars => SmcliInv'
    <2> SUFFICES ASSUME SmcliInv, [Next]_vars PROVE SmcliInv'
      OBVIOUS
    <2>1. CASE LevelUnknown \/ MainHelp \/ Unsupported \/ Dispatched
      BY <2>1, MainKeeps
    <2>2. CASE \/ LevelUnknownAgain \/ Help \/ UnknownOption
               \/ TooManyKeys \/ MissingOptions \/ BadValue
      BY <2>2, OptionsLeave
    <2>3. CASE OptionsRead
      BY <2>3, OptionsReadKeeps
    <2>11. CASE LevelIgnored
      BY <2>11, LevelIgnoredKeeps
    <2>4. CASE CallApi
      BY <2>4, CallApiKeeps
    <2>5. CASE Again
      BY <2>5, AgainKeeps
    <2>6. CASE Answered
      BY <2>6, AnswerLeaves
    <2>7. CASE CallLibrary \/ LibraryReturns
      BY <2>7, LibraryKeeps
    <2>8. CASE Die
      BY <2>8, DieKeeps
    <2>9. CASE Marshal
      BY <2>9, MarshalKeeps DEF Marshal, RequestStep, Allocate, FailAllocate, Put, Send
    <2>10. CASE UNCHANGED vars
      BY <2>10, MarshalKeeps DEF vars, smcliVars, requestVars
    <2> QED  BY <2>1, <2>2, <2>3, <2>4, <2>5, <2>6, <2>7, <2>8, <2>9, <2>10, <2>11
             DEF Next
  <1> QED  BY <1>1, <1>2, PTL DEF Spec

(* With --addRCheader a command that was dispatched tells its exit status  *)
(* with its one header line, for any options and any answers of SMAPI, but *)
(* for the commands that the property names.                               *)
THEOREM HeadersTell == Spec => []HeaderTellsExit
  <1>1. SmcliInv => HeaderTellsExit
    BY DEF SmcliInv, HeadersOK
  <1> QED  BY <1>1, SmcliInvariant, PTL

(* No vmapi function takes strlen of NULL, whichever options were given.   *)
THEOREM NoStringIsNull == Spec => []NoNullString
  <1>1. SmcliInv => NoNullString
    BY DEF SmcliInv
  <1> QED  BY <1>1, SmcliInvariant, PTL

(* However many -k there are on the command line, those that are stored    *)
(* have their places in entryArray and in targetStart, but for the arrays  *)
(* that the property names.                                                *)
THEOREM EntriesFit == Spec => []EntriesHavePlaces
  <1>1. SmcliInv => EntriesHavePlaces
    <2> SUFFICES ASSUME SmcliInv, phase = "call" PROVE EntriesHavePlaces
      BY DEF EntriesHavePlaces
    <2>1. /\ line \in Lines /\ line.name \in DOMAIN Dispatch /\ TheCall
          /\ \A i \in KeyOptions(Cmd) : line.keys <= Cmd.options[i].most
      BY DEF SmcliInv, LineOK, OptionsOK, Reading
    <2>2. line.keys \in Nat /\ (KeyOptions(Cmd) = {} => line.keys = 0)
      BY <2>1, LinesAssumption DEF Cmd
    <2>3. \A i \in KeyOptions(Cmd) :
            /\ Cmd.options[i].most \in Nat /\ Cmd.options[i].cap \in Nat
            /\ Cmd.options[i].most <= Cmd.options[i].cap \/ line.name \in OverfilledArrays
      BY <2>1, CommandsAssumption DEF Cmd
    <2>4. \/ \A i \in KeyOptions(Cmd) : line.keys <= Cmd.options[i].cap
          \/ line.name \in OverfilledArrays
      BY <2>1, <2>2, <2>3
    <2>5. CASE call.fn = Cmd.api /\ call.count \in {0, line.keys}
      <3>1. /\ Vmapi[call.fn].marks \in Int /\ Vmapi[call.fn].offset \in Int
            /\ call.count \in Nat /\ call.count <= line.keys
        BY <2>1, <2>2, <2>5, MarksAssumption DEF Cmd
      <3>2. \/ call.fn \in ShortMarks
            \/ KeyOptions(Cmd) = {} /\ PlacesFor(Vmapi[call.fn], 0)
            \/ \E i \in KeyOptions(Cmd) : PlacesFor(Vmapi[call.fn], Cmd.options[i].most)
        BY <2>1, <2>5, CommandsAssumption DEF Cmd
      <3>3. call.fn \in ShortMarks \/ PlacesFor(Vmapi[call.fn], call.count)
        <4>1. CASE KeyOptions(Cmd) = {} /\ PlacesFor(Vmapi[call.fn], 0)
          <5>1. call.count = 0
            BY <2>2, <3>1, <4>1
          <5> QED  BY <4>1, <5>1
        <4>2. CASE \E i \in KeyOptions(Cmd) : PlacesFor(Vmapi[call.fn], Cmd.options[i].most)
          <5>1. PICK i \in KeyOptions(Cmd) : PlacesFor(Vmapi[call.fn], Cmd.options[i].most)
            BY <4>2
          <5>2. call.count <= Cmd.options[i].most /\ Cmd.options[i].most \in Nat
            BY <2>1, <2>2, <2>3, <3>1
          <5> QED  BY <3>1, <5>1, <5>2 DEF PlacesFor
        <4> QED  BY <3>2, <4>1, <4>2
      <3> QED  BY <2>4, <3>3 DEF EntriesHavePlaces, PlacesFor, TheApi
    <2>6. CASE call.fn = QueryFn /\ call.count = 0
      <3>1. PlacesFor(TheApi, call.count)
        BY <2>6, MarksAssumption DEF TheApi
      <3> QED  BY <2>4, <3>1 DEF EntriesHavePlaces, PlacesFor
    <2> QED  BY <2>1, <2>5, <2>6 DEF TheCall
  <1> QED  BY <1>1, SmcliInvariant, PTL

(* A name that the help lists at a level is not refused at it, for every   *)
(* level: the sets of displayHelpInfo and of main are compared name by     *)
(* name.                                                                   *)
THEOREM HelpIsServed == Spec => []ListedIsServed
  <1>1. APIS_611 \ ListedTooEarly \subseteq Listed611
    BY DEF APIS_611, Listed611, ListedTooEarly
  <1>2. APIS_620 \subseteq Listed620
    BY DEF APIS_620, Listed620
  <1>3. APIS_630 \subseteq Listed630
    BY DEF APIS_630, Listed630
  <1>4. SmcliInv => ListedIsServed
    <2> SUFFICES ASSUME SmcliInv, phase = "level", HelpLevel(line.name) <= line.level,
                        line.name \notin ListedTooEarly
                 PROVE  ~RefusedAt(line.name, line.level)
      BY DEF ListedIsServed
    <2>1. line.level \in Nat
      BY LinesAssumption DEF SmcliInv, LineOK
    <2> DEFINE n == line.name
               level == line.level
    <2>2. n \in Listed630 => HelpLevel(n) \in {630, 640, 720}
      BY DEF HelpLevel
    <2>3. n \in Listed620 => HelpLevel(n) \in {620, 630, 640, 720}
      BY DEF HelpLevel
    <2>4. n \in Listed611 => HelpLevel(n) \in {611, 620, 630, 640, 720}
      BY DEF HelpLevel
    <2> HIDE DEF n, level
    <2>5. /\ HelpLevel(n) \in {630, 640, 720} => ~(level < 630)
          /\ HelpLevel(n) \in {620, 630, 640, 720} => ~(level < 620)
          /\ HelpLevel(n) \in {611, 620, 630, 640, 720} => ~(level < 611)
      BY <2>1 DEF n, level
    <2>6. n \notin ListedTooEarly
      BY DEF n
    <2>7. n \in APIS_611 => ~(level < 611)
      BY <1>1, <2>4, <2>5, <2>6
    <2>8. n \in APIS_620 => ~(level < 620)
      BY <1>2, <2>3, <2>5
    <2>9. n \in APIS_630 => ~(level < 630)
      BY <1>3, <2>2, <2>5
    <2>10. ~RefusedAt(n, level)
      BY <2>7, <2>8, <2>9 DEF RefusedAt
    <2> QED  BY <2>10 DEF n, level
  <1> QED  BY <1>4, SmcliInvariant, PTL
=============================================================================
