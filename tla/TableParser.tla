----------------------------- MODULE TableParser -----------------------------
(***************************************************************************)
(* smapiTableParser.c: an answer of SMAPI is walked through twice with the *)
(* table of the request.  The scan adds up how many structures and how     *)
(* many bytes of strings the answer holds, getAndParseSmapiBuffer          *)
(* allocates them, and the second pass populates them.  One step is one    *)
(* row of the table for one place of the answer.                           *)
(*                                                                         *)
(* An answer is a function from byte offsets to what SMAPI put there:      *)
(* numbers with their value, texts with their length.  A read at an offset *)
(* where the answer has something else is a misreading; what follows from  *)
(* it is not modelled.                                                     *)
(***************************************************************************)
EXTENDS VmapiTables, FiniteSets

CONSTANTS
  Answers,       \* what SMAPI may send
  StructIndexes  \* 0 .. MAX_STRUCT_ARRAYS - 1

VARIABLES
  pass,    \* "idle", "scan", "allocate", "populate", or how it ended
  answer,  \* smapiOutputP
  cursor,  \* smapiBufferCursor, as an offset
  bytes,   \* byteCount
  wanted,  \* outStringByteCount
  stored,  \* the bytes stored at inStringCursor
  counted, \* outStructCount
  kind,    \* the structure outStructSizes holds the size of
  carved,  \* how often inStructAddrs was moved
  frames   \* the calls: parseBufferWithTable, handleArrays, ...

parserVars == <<pass, answer, cursor, bytes, wanted, stored, counted, kind, carved, frames>>
passVars == <<wanted, stored, counted, kind, carved>>

None == "none"
Walking == {"scan", "populate"}
Parsed == {"ok", "bad table", "bad size", "no memory", "misread"}

Table == Tables[answer.table]
Top == frames[Len(frames)]
Under == SubSeq(frames, 1, Len(frames) - 1)
RowAt(i) == Table[i]

(* The rows of an array: its first one, the row of its structure, is       *)
(* behind the array and the row of its count, and its last one is the last *)
(* that is nested deeper than the array.                                   *)
FirstRowOf(t, array) == IF t[array + 1].type = "ARRAY_STRUCT_COUNT" THEN array + 2 ELSE array + 1
IsLastRow(t, array, first, m) ==
  /\ \A i \in (first + 1)..m : t[i].nest > t[array].nest
  /\ m = Len(t) \/ t[m + 1].nest <= t[array].nest

Base(i) == [call |-> "base", i |-> i, start |-> 0, last |-> 0, limit |-> 0, n |-> 0,
            size |-> 0, used |-> 0, open |-> FALSE, implied |-> FALSE, from |-> 0]

ParserTypeOK ==
  /\ pass \in {"idle", "allocate"} \cup Walking \cup Parsed
  /\ cursor \in Nat /\ bytes \in Nat /\ wanted \in Int /\ stored \in Nat
  /\ counted \in [StructIndexes -> Nat] /\ carved \in [StructIndexes -> Nat]
  /\ Len(frames) <= Cardinality(StructIndexes)

(* Before the parser is called. *)
NotParsing ==
  /\ pass = "idle"
  /\ cursor = 0 /\ bytes = 0 /\ wanted = 0 /\ stored = 0
  /\ counted = [x \in StructIndexes |-> 0] /\ carved = counted
  /\ kind = [x \in StructIndexes |-> None]
  /\ frames = <<>>

-----------------------------------------------------------------------------
(* What the answer has at an offset. *)
Has(off, what) == off \in DOMAIN answer.at /\ answer.at[off].what = what
Value(off) == answer.at[off].value

Texts == {"STRING_LEN", "CHARBUF_LEN"}
Simple == {"INT1", "INT4", "RC_INT4", "RS_INT4", "INT8", "FIXED_STR_PTR", "C_STR_PTR"} \cup Texts
Lists == {"ARRAY_LEN", "ARRAY_NO_LENGTH", "ARRAY_COUNT"}

Readable(r, off) ==
  CASE r.type = "INT1" -> Has(off, "byte")
    [] r.type = "INT8" -> Has(off, "long")
    [] r.type = "FIXED_STR_PTR" -> Has(off, "text") /\ Value(off) = r.max
    [] r.type = "C_STR_PTR" -> Has(off, "cstring")
    [] r.type \in Texts -> Has(off, "int") /\ (Value(off) > 0 => Has(off + 4, "text"))
    [] OTHER -> Has(off, "int")

(* The length of a string, and the bytes a row takes from the answer. *)
TextLength(r, off) == IF r.type \in Texts \cup {"C_STR_PTR"} THEN Value(off) ELSE 0
Taken(r, off) ==
  CASE r.type = "INT1" -> 1
    [] r.type = "INT8" -> 8
    [] r.type = "FIXED_STR_PTR" -> r.max
    [] r.type = "C_STR_PTR" -> Value(off) + 1
    [] r.type \in Texts -> 4 + Value(off)
    [] OTHER -> 4

(* A string outside the limits of its row ends the parse. *)
SizeFits(r, off) ==
  r.type \in Texts \cup {"C_STR_PTR"} =>
    /\ TextLength(r, off) >= r.min
    /\ r.max # Unbounded => TextLength(r, off) <= r.max

\* Mutant: the scan has no byte for the terminator.
BytesForText(r, off, base) == TextLength(r, off)

(* What the scan adds to outStringByteCount.  A character buffer needs no  *)
(* terminator: the base structure takes the byte off again, also when the  *)
(* buffer is empty and none was added.                                     *)
StringBytes(r, off, base) ==
  LET n == TextLength(r, off) IN
  CASE r.type = "FIXED_STR_PTR" -> r.max + 1
    [] r.type \in Texts \cup {"C_STR_PTR"} ->
         (IF n > 0 THEN n + 1 ELSE 0) - (IF base /\ r.type = "CHARBUF_LEN" THEN 1 ELSE 0)
    [] OTHER -> 0

(* What the second pass stores at inStringCursor. *)
StoredBytes(r, off) ==
  LET n == TextLength(r, off) IN
  CASE r.type = "FIXED_STR_PTR" -> r.max + 1
    [] r.type \in Texts \cup {"C_STR_PTR"} /\ n > 0 ->
         IF r.type = "CHARBUF_LEN" THEN n ELSE n + 1
    [] OTHER -> 0

\* Mutant: the row of the count is not skipped in a structure.
RowsOnlyInBase(r, off, base) == IF r.type = "CHARBUF_LEN" /\ base THEN 2 ELSE 1

(* The rows a row uses up: a character buffer has one for its count, which *)
(* the populating of a structure only skips when the buffer is not empty.  *)
Rows(r, off, base) ==
  IF r.type = "CHARBUF_LEN" /\ (base \/ pass = "scan" \/ TextLength(r, off) > 0) THEN 2 ELSE 1

Storing(r, base) ==
  IF pass = "scan"
  THEN wanted' = wanted + StringBytes(r, cursor, base) /\ UNCHANGED stored
  ELSE stored' = stored + StoredBytes(r, cursor) /\ UNCHANGED wanted

Fail(how) ==
  /\ pass' = how
  /\ UNCHANGED <<answer, cursor, bytes, passVars, frames>>

-----------------------------------------------------------------------------
(* parseBufferWithTable *)

(* getAndParseSmapiBuffer calls it for the scan. *)
StartScan ==
  /\ pass = "idle"
  /\ pass' = "scan"
  /\ counted' = [counted EXCEPT ![0] = 1]
  /\ kind' = [kind EXCEPT ![0] = RowAt(1).of]
  /\ carved' = [carved EXCEPT ![0] = 1]   \* inStructAddrs[0] itself is the structure
  /\ frames' = <<Base(2)>>
  /\ UNCHANGED <<answer, cursor, bytes, wanted, stored>>

InBase == pass \in Walking /\ Len(frames) = 1 /\ Top.call = "base"
MoreRows == Top.i <= Len(Table) /\ bytes < answer.size
BaseRow(types) == InBase /\ MoreRows /\ RowAt(Top.i).type \in types

(* An error buffer follows the codes: the rest of the answer is taken for  *)
(* it.  In the second pass a length in front of it is left out.            *)
ErrorBuffer == answer.refused /\ answer.errors # None
TakesErrors == RowAt(Top.i).type = "RS_INT4" /\ ErrorBuffer /\ bytes + 4 < answer.size
ErrorBytes == answer.size - (bytes + 4)
HasErrorRow == \E i \in Top.i..Len(Table) : RowAt(i).type = "ERROR_BUFF_PTR"

BaseErrors ==
  /\ BaseRow({"RS_INT4"}) /\ TakesErrors
  /\ LET n == ErrorBytes - (IF answer.errors = "with length" THEN 4 ELSE 0) IN
     IF pass = "scan" THEN wanted' = wanted + ErrorBytes /\ UNCHANGED stored
     ELSE stored' = stored + (IF HasErrorRow THEN n ELSE 0) /\ UNCHANGED wanted
  /\ cursor' = cursor + 4 + (IF pass = "populate" /\ answer.errors = "with length" THEN 4 ELSE 0)
  /\ bytes' = answer.size
  /\ frames' = <<Base(Top.i + 1)>>
  /\ UNCHANGED <<pass, answer, counted, kind, carved>>

BaseField ==
  /\ BaseRow(Simple) /\ ~TakesErrors
  /\ LET r == RowAt(Top.i) IN
     /\ Readable(r, cursor) /\ SizeFits(r, cursor)
     /\ Storing(r, TRUE)
     /\ cursor' = cursor + Taken(r, cursor) /\ bytes' = bytes + Taken(r, cursor)
     /\ frames' = <<Base(Top.i + Rows(r, cursor, TRUE))>>
  /\ UNCHANGED <<pass, answer, counted, kind, carved>>

(* The rows of the error buffer are passed over. *)
BaseSkip ==
  /\ BaseRow({"ERROR_BUFF_LEN", "ERROR_BUFF_PTR"})
  /\ frames' = <<Base(Top.i + 1)>>
  /\ UNCHANGED <<pass, answer, cursor, bytes, passVars>>

(* Null terminated strings up to the end of the answer: the rows of the    *)
(* array, its count, its structure and its string belong together.         *)
IsStrings(i) ==
  /\ i + 3 <= Len(Table)
  /\ RowAt(i + 1).type = "C_STR_ARRAY_COUNT" /\ RowAt(i + 2).type = "C_STR_STRUCT_LEN"
  /\ RowAt(i + 3).type = "C_STR_PTR"

BaseStrings ==
  /\ BaseRow({"C_STR_ARRAY_PTR"}) /\ IsStrings(Top.i)
  /\ Has(cursor, "cstring")
  /\ LET n == Value(cursor) + 1
         s == RowAt(Top.i + 2)
     IN /\ IF pass = "scan"
           THEN /\ wanted' = wanted + n
                /\ counted' = [counted EXCEPT ![s.index] = @ + 1]
                /\ kind' = [kind EXCEPT ![s.index] = IF @ = None THEN s.of ELSE @]
                /\ UNCHANGED <<stored, carved>>
           ELSE /\ stored' = stored + n
                /\ carved' = [carved EXCEPT ![s.index] = @ + 1]
                /\ UNCHANGED <<wanted, counted, kind>>
        /\ cursor' = cursor + n /\ bytes' = bytes + n
  /\ UNCHANGED <<pass, answer, frames>>   \* until the answer is used up

(* The table or the answer is at its end. *)
PassEnds ==
  /\ InBase /\ ~MoreRows
  /\ pass' = IF pass = "scan" THEN "allocate" ELSE "ok"
  /\ UNCHANGED <<answer, cursor, bytes, passVars, frames>>

(* Structures and strings are allocated and the second pass starts. *)
Populate ==
  /\ pass = "allocate"
  /\ pass' = "populate"
  /\ cursor' = 0 /\ bytes' = 0
  /\ frames' = <<Base(2)>>
  /\ UNCHANGED <<answer, passVars>>

NoMemory == pass = "allocate" /\ Fail("no memory")

-----------------------------------------------------------------------------
(* handleArrays and handleCountedArrays *)

InStruct == pass \in Walking /\ Top.call # "base" /\ Top.open
StructEnds == Top.i > Top.last \/ (~Top.implied /\ Top.used >= Top.size)
StructRow(types) == InStruct /\ ~StructEnds /\ RowAt(Top.i).type \in types

(* The last row of the structure. *)
LastRow(array, s) == CHOOSE m \in s..Len(Table) : IsLastRow(Table, array, s, m)
FirstRow(array) == FirstRowOf(Table, array)

(* A row announces an array, by its length, by its number of elements or   *)
(* as the rest of the answer.                                              *)
EnterList ==
  /\ \/ BaseRow(Lists)
     \/ StructRow({"ARRAY_LEN", "ARRAY_COUNT"})
  /\ LET r == RowAt(Top.i)
         rest == r.type = "ARRAY_NO_LENGTH"
         s == FirstRow(Top.i)
     IN /\ rest \/ Has(cursor, "int")
        /\ cursor' = IF rest THEN cursor ELSE cursor + 4
        /\ frames' = Append(frames,
             [Base(s) EXCEPT !.call = IF r.type = "ARRAY_COUNT" THEN "counted" ELSE "sized",
                             !.start = s, !.last = LastRow(Top.i, s),
                             !.limit = IF rest THEN answer.size - bytes ELSE Value(cursor),
                             !.from = cursor])
  /\ UNCHANGED <<pass, answer, bytes, passVars>>

InList == pass \in Walking /\ Top.call # "base" /\ ~Top.open
NextStruct == InList /\ Top.n < Top.limit
HeadRow == RowAt(Top.start)
Implied == HeadRow.type = "NOBUFFER_STRUCT_LEN"

(* handleCountedArrays takes a first word of 0 for an empty structure, also *)
(* where the table says that there is no length: then it looks at the same  *)
(* word for ever.                                                           *)
LooksAgain ==
  Implied /\ Top.call = "counted" /\ Has(cursor, "int") /\ Value(cursor) = 0

(* The next structure of the array.  Its length is read, unless the table  *)
(* says that it has none.                                                  *)
OpenStruct ==
  /\ NextStruct /\ ~LooksAgain
  /\ HeadRow.type \in {"STRUCT_LEN", "NOBUFFER_STRUCT_LEN"}
  /\ Implied \/ (Has(cursor, "int") /\ Value(cursor) > 0)
  /\ cursor' = IF Implied THEN cursor ELSE cursor + 4
  /\ IF pass = "scan"
     THEN /\ counted' = [counted EXCEPT ![HeadRow.index] = @ + 1]
          /\ kind' = [kind EXCEPT ![HeadRow.index] = IF @ = None THEN HeadRow.of ELSE @]
          /\ UNCHANGED carved
     ELSE /\ carved' = [carved EXCEPT ![HeadRow.index] = @ + 1]
          /\ UNCHANGED <<counted, kind>>
  /\ frames' = Append(Under,
       [Top EXCEPT !.open = TRUE, !.implied = Implied, !.i = Top.start + 1, !.used = 0,
                   !.size = IF Implied THEN 0 ELSE Value(cursor)])
  /\ UNCHANGED <<pass, answer, bytes, wanted, stored>>

(* A structure of length 0 is skipped; neither count is moved. *)
SkipStruct ==
  /\ NextStruct /\ ~Implied
  /\ Has(cursor, "int") /\ Value(cursor) = 0
  /\ cursor' = cursor + 4
  /\ UNCHANGED <<pass, answer, bytes, passVars, frames>>

StructField ==
  /\ StructRow(Simple \ {"RC_INT4", "RS_INT4"})
  /\ LET r == RowAt(Top.i) IN
     /\ Readable(r, cursor) /\ SizeFits(r, cursor)
     /\ Storing(r, FALSE)
     /\ cursor' = cursor + Taken(r, cursor)
     /\ bytes' = IF r.type = "FIXED_STR_PTR" THEN bytes + r.max ELSE bytes
     /\ frames' = Append(Under, [Top EXCEPT !.i = @ + Rows(r, cursor, FALSE),
                                            !.used = @ + Taken(r, cursor)])
  /\ UNCHANGED <<pass, answer, counted, kind, carved>>

(* What a structure adds to the count that the limit of its array is for.  *)
(* If the answer has more than the table, the rest is taken for used.      *)
StructUsed(f) ==
  IF f.call = "counted" THEN 1
  ELSE IF f.implied THEN f.used
  ELSE (IF f.used < f.size THEN f.size ELSE f.used) + 4

CloseStruct ==
  /\ InStruct /\ StructEnds
  /\ frames' = Append(Under, [Top EXCEPT !.open = FALSE, !.n = @ + StructUsed(Top)])
  /\ UNCHANGED <<pass, answer, cursor, bytes, passVars>>

(* The array is complete: its caller goes on behind its rows. *)
LeaveList ==
  /\ InList /\ Top.n >= Top.limit
  /\ LET caller == Under[Len(Under)]
     IN frames' = Append(SubSeq(Under, 1, Len(Under) - 1),
                    [caller EXCEPT !.i = Top.last + 1, !.used = @ + (cursor - Top.from)])
  /\ UNCHANGED <<pass, answer, cursor, bytes, passVars>>

-----------------------------------------------------------------------------
(* The ways a parse fails. *)

(* A row that the walk has no case for. *)
BadTable ==
  /\ \/ /\ InBase /\ MoreRows
        /\ RowAt(Top.i).type \notin Simple \cup Lists \cup
             {"C_STR_ARRAY_PTR", "ERROR_BUFF_LEN", "ERROR_BUFF_PTR"}
     \/ BaseRow({"C_STR_ARRAY_PTR"}) /\ ~IsStrings(Top.i)
     \/ /\ InStruct /\ ~StructEnds
        /\ RowAt(Top.i).type \notin (Simple \ {"RC_INT4", "RS_INT4"}) \cup {"ARRAY_LEN", "ARRAY_COUNT"}
     \/ NextStruct /\ HeadRow.type \notin {"STRUCT_LEN", "NOBUFFER_STRUCT_LEN"}
  /\ Fail("bad table")

BadSize ==
  /\ (BaseRow(Simple) /\ ~TakesErrors) \/ StructRow(Simple \ {"RC_INT4", "RS_INT4"})
  /\ LET r == RowAt(Top.i) IN Readable(r, cursor) /\ ~SizeFits(r, cursor)
  /\ Fail("bad size")

(* The answer has something else at the cursor than the row says. *)
Misread ==
  /\ \/ /\ (BaseRow(Simple) /\ ~TakesErrors) \/ StructRow(Simple \ {"RC_INT4", "RS_INT4"})
        /\ ~Readable(RowAt(Top.i), cursor)
     \/ BaseRow({"C_STR_ARRAY_PTR"}) /\ IsStrings(Top.i) /\ ~Has(cursor, "cstring")
     \/ /\ BaseRow({"ARRAY_LEN", "ARRAY_COUNT"}) \/ StructRow({"ARRAY_LEN", "ARRAY_COUNT"})
        /\ ~Has(cursor, "int")
     \/ NextStruct /\ HeadRow.type = "STRUCT_LEN" /\ ~Has(cursor, "int")
  /\ Fail("misread")

ParserStep ==
  \/ StartScan \/ BaseField \/ BaseErrors \/ BaseSkip \/ BaseStrings \/ PassEnds
  \/ Populate \/ NoMemory
  \/ EnterList \/ OpenStruct \/ SkipStruct \/ StructField \/ CloseStruct \/ LeaveList
  \/ BadTable \/ BadSize \/ Misread
-----------------------------------------------------------------------------
(* These store one byte more than the scan allocated, or fail, for some    *)
(* answers that their tables allow; each is described in the README.       *)
OneByteShort == {"Image_SCSI_Characteristics_Query_DM"}
EmptyBufferFails == {"Profile_Query_DM"}
TableIncomplete == {"Response_Recovery"}

(* What holds of every table of the headers, and is needed below.  Rows    *)
(* that belong together are behind one another: an array, the count and    *)
(* the rows of its structure; a character buffer and its count.  Rows of   *)
(* the base structure follow on each other, and numbers of four bytes come *)
(* before the reason code.                                                 *)
RowsBelong(t) ==
  /\ Len(t) \in Nat /\ Len(t) >= 2 /\ t[2].nest = 0
  /\ \A i \in 1..Len(t) :
       /\ t[i].nest \in 0..(Cardinality(StructIndexes) - 2) /\ t[i].index \in StructIndexes
       /\ t[i].min \in Int /\ t[i].max \in Int
       /\ t[i].type = "CHARBUF_LEN" => i < Len(t) /\ t[i + 1].type = "CHARBUF_COUNT"
       /\ t[i].type \in Lists =>
            /\ i < Len(t) /\ FirstRowOf(t, i) <= Len(t)
            /\ \E m \in FirstRowOf(t, i)..Len(t) : IsLastRow(t, i, FirstRowOf(t, i), m)
       /\ t[i].type = "RS_INT4" => \A m \in 2..(i - 1) : t[m].type \in {"INT4", "RC_INT4"}
       /\ /\ i < Len(t) /\ t[i].nest = 0
          /\ t[i].type \in Simple \cup {"CHARBUF_COUNT", "ERROR_BUFF_LEN", "ERROR_BUFF_PTR"}
          => t[i + 1].nest = 0 \/ t[i + 1].type = "C_STR_STRUCT_LEN"

(* A character buffer of the base structure that may be empty, for which   *)
(* the scan takes off a byte that it has not added.  There is one at most, *)
(* and but for OneByteShort nothing else in its table is stored.           *)
MayTakeOff(t, i) == t[i].type = "CHARBUF_LEN" /\ t[i].nest = 0 /\ t[i].min <= 0
Stored == Texts \cup Lists \cup {"FIXED_STR_PTR", "C_STR_PTR", "C_STR_ARRAY_PTR"}

ASSUME TablesAssumption ==
  /\ 0 \in StructIndexes /\ IsFiniteSet(StructIndexes)
  /\ \A name \in DOMAIN Tables :
       LET t == Tables[name] IN
       /\ RowsBelong(t)
       /\ \A i, m \in 1..Len(t) :
            MayTakeOff(t, i) =>
              /\ MayTakeOff(t, m) => m = i
              /\ t[m].type = "RS_INT4" => m < i
              /\ t[m].type \in Stored => m = i \/ name \in OneByteShort

(* Of SMAPI it is assumed that it answers one of the requests, that the    *)
(* lengths and numbers it sends are not negative, and that an error buffer *)
(* with a length has room for it: the code does not check that.            *)
ASSUME AnswersAssumption ==
  \A a \in Answers :
    /\ a.table \in DOMAIN Tables /\ a.size \in Nat
    /\ \A off \in DOMAIN a.at : a.at[off].value \in Nat
    /\ a.refused /\ a.errors = "with length" =>
         \A i \in 1..Len(Tables[a.table]) :
           Tables[a.table][i].type = "RS_INT4" => a.size - 4 * (i - 1) \notin 1..3

(* The second pass stays within what was allocated after the first: it     *)
(* never carves more structures of an index than were counted, nor stores  *)
(* more bytes of strings, although the two passes are two walks with       *)
(* branches of their own.                                                  *)
StorageHolds ==
  pass \in {"populate", "ok"} =>
    /\ \A x \in StructIndexes : carved[x] <= counted[x]
    /\ \/ stored <= wanted \/ stored = 0
       \/ answer.table \in OneByteShort /\ stored = wanted + 1

(* An answer that SMAPI lays out as the table says is understood: the      *)
(* parse ends with success, having carved every element that SMAPI sent,   *)
(* and, unless it is an error buffer, having read the answer to its end.   *)
(* An answer with a string longer than its row allows is refused.          *)
AnswerUnderstood ==
  pass \in Parsed \ {"no memory"} =>
    /\ answer.odd = None =>
         \/ /\ pass = "ok" /\ carved = answer.elements
            /\ cursor = answer.size \/ ErrorBuffer
         \/ pass = "bad table" /\ answer.table \in EmptyBufferFails \cup TableIncomplete
    /\ answer.odd = "long string" => pass = "bad size"
=============================================================================
