----------------------------- MODULE ParserRows ------------------------------
(***************************************************************************)
(* The rows of which the parser tables of the vmapi headers are made       *)
(* (smapiTableParser.h): a type and the bounds of the length.              *)
(***************************************************************************)
EXTENDS Integers, Sequences, TLC

LOCAL Row(type, min, max) == [type |-> type, min |-> min, max |-> max]
Unbounded == -1

BaseStructLen == Row("BASE_STRUCT_LEN", 4, 4)
Int1 == Row("INT1", 1, 1)
Int4 == Row("INT4", 4, 4)
Int8 == Row("INT8", 8, 8)
RcInt4 == Row("RC_INT4", 4, 4)
RsInt4 == Row("RS_INT4", 4, 4)
String(min, max) == Row("STRING_LEN", min, max)
CharBuf(min, max) == Row("CHARBUF_LEN", min, max)
CharBufCount == Row("CHARBUF_COUNT", 0, 4)
CStr(min, max) == Row("C_STR_PTR", min, max)
Fixed(size) == Row("FIXED_STR_PTR", size, size)
ArrayLen == Row("ARRAY_LEN", 4, 4)
ArrayCount == Row("ARRAY_COUNT", 4, 4)
ArrayNoLength == Row("ARRAY_NO_LENGTH", 4, 4)
StructCount == Row("ARRAY_STRUCT_COUNT", 4, 4)
StructLen == Row("STRUCT_LEN", 4, 4)
NoBufferStructLen == Row("NOBUFFER_STRUCT_LEN", 4, 4)
CStrArrayPtr == Row("C_STR_ARRAY_PTR", 4, 4)
CStrArrayCount == Row("C_STR_ARRAY_COUNT", 4, 4)
CStrStructLen == Row("C_STR_STRUCT_LEN", 4, 4)
ErrorBuffLen == Row("ERROR_BUFF_LEN", 4, 4)
ErrorBuffPtr == Row("ERROR_BUFF_PTR", 4, 4)

(* Consecutive rows of one structure: its STRUCT_INDX, its NEST_LEVEL and  *)
(* its type.                                                               *)
Part(index, nest, of, rows) ==
  [i \in DOMAIN rows |-> rows[i] @@ [index |-> index, nest |-> nest, of |-> of]]

(* The base structure starts with the request id and the two codes. *)
Reply(of, rows) == Part(0, 0, of, <<BaseStructLen, Int4, RcInt4, RsInt4>> \o rows)
Plain(of) == Reply(of, <<>>)
=============================================================================
