---------------------------- MODULE SmapiRequest ----------------------------
(***************************************************************************)
(* One call of a vmapi function, up to the moment its request is handed    *)
(* to getAndParseSmapiBuffer: the size is summed, the buffer is allocated  *)
(* and the fields are put through the cursor, one step per field.  Which   *)
(* bytes are stored is abstracted to how far the stores reach.             *)
(***************************************************************************)
EXTENDS VmapiLayouts

VARIABLES
  at,      \* where the call stands
  call,    \* the function called, its strings' lengths, its list
  room,    \* the bytes malloc'ed for the request
  cursor,  \* the offset of the cursor in them
  high,    \* one past the last byte stored
  done     \* how many fields are put

requestVars == <<at, call, room, cursor, high, done>>

NoCall == [fn |-> "none"]
LengthWord == 4   \* the request starts with inputSize - 4

(* The states in which the function has come back to its caller. *)
Returned == {"sent", "refused", "nomemory"}

TheApi == Vmapi[call.fn]

RequestInit ==
  /\ at = "idle"
  /\ room = 0 /\ cursor = 0 /\ high = 0 /\ done = 0

(* strlen() of a NULL pointer ends the program. *)
Faults(api, a) == \E i \in 1..Len(api.sized) : a.len[api.sized[i]] = Null

(* smImage_Create_DM takes a password and an account only without records. *)
Contradicts(api, a) ==
  /\ a.count > 0
  /\ \E i \in 1..Len(api.exclusive) : a.len[api.exclusive[i]] > 0

(* Entering the function: inputSize is summed. *)
Enter(fn, len, count, entry) ==
  LET a == [fn |-> fn, len |-> len, count |-> count, entry |-> entry] IN
  /\ at \in {"idle"} \cup Returned
  /\ call' = a
  /\ at' = IF Contradicts(Vmapi[fn], a) THEN "refused"
           ELSE IF Faults(Vmapi[fn], a) THEN "fault"
           ELSE "entered"
  /\ room' = 0 /\ cursor' = 0 /\ high' = 0 /\ done' = 0

(* malloc succeeds; the length of the rest of the request is put. *)
Allocate ==
  /\ at = "entered"
  /\ at' = "putting"
  /\ room' = InputSize(TheApi, call) + TheApi.spare
  /\ cursor' = LengthWord /\ high' = LengthWord
  /\ UNCHANGED <<call, done>>

(* malloc fails: MEMORY_ERROR. *)
FailAllocate ==
  /\ at = "entered"
  /\ at' = "nomemory"
  /\ UNCHANGED <<call, room, cursor, high, done>>

(* One field is put. *)
Put ==
  /\ at = "putting" /\ done < Len(TheApi.fields)
  /\ LET f == TheApi.fields[done + 1]
         n == PutBytes(f, call)
     IN /\ cursor' = IF f.part = "touch" THEN cursor ELSE cursor + n
        /\ high' = IF f.part = "skip" THEN high ELSE cursor + n
  /\ done' = done + 1
  /\ UNCHANGED <<at, call, room>>

(* The request, inputSize bytes of it, is given to getAndParseSmapiBuffer. *)
Send ==
  /\ at = "putting" /\ done = Len(TheApi.fields)
  /\ at' = "sent"
  /\ UNCHANGED <<call, room, cursor, high, done>>

RequestStep == Allocate \/ FailAllocate \/ Put \/ Send

-----------------------------------------------------------------------------
(* Requests that the code lays out wrongly; each is described in the       *)
(* README.  The properties below hold of every other function.             *)

(* smMetadataSet puts the length of a first entry even when there is none. *)
PutsWithoutEntries == {"smMetadataSet"}

(* These sum strlen(password) and passwordLength, or a word that is not    *)
(* put: bytes at the end of the request are sent as malloc left them.      *)
SumsPasswordTwice ==
  {"smImage_MDISK_Link_Query", "smSystem_Disk_IO_Query", "smSystem_Page_Utilization_Query",
   "smSystem_Spool_Utilization_Query"}
SumsTooMuch == {"smXCAT_Commands_IUO"}

(* No field of a request is stored past the memory allocated for it,       *)
(* whatever the lengths of the strings and the number of entries: the sum  *)
(* that sizes the buffer covers every put.                                 *)
StoresInBuffer ==
  at \in {"putting", "sent"} =>
    \/ high <= room
    \/ call.fn \in PutsWithoutEntries /\ call.count = 0

(* A request is sent complete: when getAndParseSmapiBuffer gets it, the    *)
(* puts have stored exactly the inputSize bytes that will be written to    *)
(* the socket, so no byte SMAPI reads is what malloc left in the buffer.   *)
RequestFilled ==
  at = "sent" =>
    \/ high = InputSize(TheApi, call)
    \/ call.fn \in PutsWithoutEntries /\ call.count = 0
    \/ call.fn \in SumsPasswordTwice /\ call.len["password"] > 0
    \/ call.fn \in SumsTooMuch

(* A list whose size is announced is followed by exactly as many bytes as  *)
(* were announced: the announcement is summed in one loop and the entries  *)
(* are put by another.                                                     *)
ListAsAnnounced ==
  at = "sent" =>
    \A i \in 1..Len(TheApi.fields) :
      LET f == TheApi.fields[i]
          rest == SubSeq(TheApi.fields, i + 1, Len(TheApi.fields))
          after[j \in 0..Len(rest)] ==
            IF j = 0 THEN 0 ELSE after[j - 1] + PutBytes(rest[j], call)
      IN f.part = "announce" =>
           \/ Announced(f, call) = after[Len(rest)]
           \/ call.fn \in PutsWithoutEntries /\ call.count = 0

(* No vmapi function takes the length of a string that its caller left     *)
(* NULL: what smcli's option check lets through is what the function       *)
(* needs.                                                                  *)
LeftNull == {"smVirtual_Network_Adapter_Disconnect_DM"}
NoNullString == at = "fault" => call.fn \in LeftNull
=============================================================================
