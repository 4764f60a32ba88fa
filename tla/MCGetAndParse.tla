---------------------------- MODULE MCGetAndParse ----------------------------
(***************************************************************************)
(* The answers of SMAPI for every table of the vmapi headers.  SMAPI is    *)
(* external: what it sends is laid out as the table says, with a choice of *)
(* lengths, and also in the ways in which SMAPI is known to deviate.       *)
(***************************************************************************)
EXTENDS GetAndParse, SequencesExt

Item(what, v, size) == [what |-> what, value |-> v, size |-> size]
Number(v) == <<Item("int", v, 4)>>
Bytes(items) == FoldLeft(LAMBDA n, x : n + x.size, 0, items)
Copies(n, items) == FlattenSeq([i \in 1..n |-> items])

(* A shape: the number of structures in the outer and in the nested arrays, *)
(* a row whose string is as short, and one whose string is longer than the  *)
(* table allows (0: none), codes that refuse, and what is odd about it.     *)
Shape(o, i, short, long, refused, odd) ==
  [outer |-> o, inner |-> i, short |-> short, long |-> long, refused |-> refused, odd |-> odd]

TextRow(r) == r.type \in Texts \cup {"C_STR_PTR"}
Full(r) == IF r.max # Unbounded /\ r.min + 1 > r.max THEN r.min ELSE r.min + 1
LengthOf(r, i, sh) == CASE sh.short = i -> r.min [] sh.long = i -> r.max + 1 [] OTHER -> Full(r)

FieldItems(r, n) ==
  CASE r.type = "INT1" -> <<Item("byte", 0, 1)>>
    [] r.type = "INT8" -> <<Item("long", 0, 8)>>
    [] r.type = "FIXED_STR_PTR" -> <<Item("text", r.max, r.max)>>
    [] r.type = "C_STR_PTR" -> <<Item("cstring", n, n + 1)>>
    [] r.type \in Texts -> IF n = 0 THEN Number(0) ELSE Number(n) \o <<Item("text", n, n)>>
    [] r.type \in {"INT4", "RC_INT4", "RS_INT4"} -> Number(0)
    [] OTHER -> <<>>

Deeper(t, i, s) ==
  CHOOSE m \in s..Len(t) : (\A x \in (s + 1)..m : t[x].nest > t[i].nest)
                           /\ (m = Len(t) \/ t[m + 1].nest <= t[i].nest)

(* The rows i .. last laid out one after the other. *)
RECURSIVE Lay(_, _, _, _)
Lay(t, i, last, sh) ==
  IF i > last THEN <<>>
  ELSE LET r == t[i] IN
    IF r.type \in Lists THEN
      LET s == IF t[i + 1].type = "ARRAY_STRUCT_COUNT" THEN i + 2 ELSE i + 1
          m == Deeper(t, i, s)
          sized == t[s].type = "STRUCT_LEN"
          fields == Lay(t, s + 1, m, sh) \o (IF sh.odd = "newer fields" THEN Number(7) ELSE <<>>)
          element == <<Item("element", t[s].index, 0)>>
                     \o (IF sized THEN Number(Bytes(fields)) ELSE <<>>) \o fields
          n == IF r.nest = 0 THEN sh.outer ELSE sh.inner
          empty == sized /\ sh.odd = "empty structure"
          all == (IF empty THEN Number(0) ELSE <<>>) \o Copies(n, element)
      IN (CASE r.type = "ARRAY_LEN" -> Number(Bytes(all))
            [] r.type = "ARRAY_COUNT" -> Number(IF empty THEN n + 1 ELSE n)
            [] OTHER -> <<>>) \o all \o Lay(t, m + 1, last, sh)
    ELSE IF r.type = "C_STR_ARRAY_PTR" THEN
      Copies(sh.outer, <<Item("element", t[i + 2].index, 0), Item("cstring", 1, 2)>>)
    ELSE FieldItems(r, IF TextRow(r) THEN LengthOf(r, i, sh) ELSE 0) \o Lay(t, i + 1, last, sh)

ErrorsOf(name) ==
  IF name \in ErrorsWithLength THEN "with length"
  ELSE IF name \in ErrorsWithoutLength THEN "without length" ELSE None

Body(name, sh) ==
  IF ~sh.refused THEN Lay(Tables[name], 2, Len(Tables[name]), sh)
  ELSE Number(0) \o Number(8) \o Number(0) \o
       (IF sh.inner = 0 THEN <<>>
        ELSE CASE ErrorsOf(name) = "with length" -> Number(5) \o <<Item("text", 5, 5)>>
               [] ErrorsOf(name) = "without length" -> <<Item("text", 5, 5)>>
               [] OTHER -> <<>>)

RECURSIVE Placed(_, _, _)
Placed(items, i, off) ==
  IF i > Len(items) THEN <<>>
  ELSE LET rest == Placed(items, i + 1, off + items[i].size)
       IN IF items[i].what = "element" THEN rest ELSE (off :> items[i]) @@ rest

AnswerOf(name, sh) ==
  LET items == Body(name, sh) IN
  [table |-> name, size |-> Bytes(items), refused |-> sh.refused, errors |-> ErrorsOf(name),
   odd |-> sh.odd, at |-> Placed(items, 1, 0),
   elements |-> [x \in StructIndexes |->
      IF x = 0 THEN 1
      ELSE Cardinality({i \in 1..Len(items) : items[i].what = "element" /\ items[i].value = x})]]

HasRow(t, types) == \E i \in 1..Len(t) : t[i].type \in types
Nested(t) == \E i \in 1..Len(t) : t[i].type \in Lists /\ t[i].nest > 0
ShortRows(t) == {i \in 1..Len(t) : TextRow(t[i]) /\ t[i].min < Full(t[i])}
LongRows(t) ==
  {i \in 2..Len(t) : TextRow(t[i]) /\ t[i].max # Unbounded /\ t[i - 1].type # "C_STR_STRUCT_LEN"}
ShapesOf(t) ==
  {Shape(o, i, short, 0, FALSE, None) :
     o \in IF HasRow(t, Lists \cup {"C_STR_ARRAY_PTR"}) THEN 0..2 ELSE {0},
     i \in IF Nested(t) THEN 0..2 ELSE {0}, short \in {0} \cup ShortRows(t)}
  \cup {Shape(1, 1, 0, long, FALSE, "long string") : long \in LongRows(t)}
  \cup {Shape(0, i, 0, 0, TRUE, None) : i \in IF HasRow(t, {"RS_INT4"}) THEN 0..1 ELSE {}}
  \cup {Shape(2, 1, 0, 0, FALSE, odd) :
          odd \in IF HasRow(t, {"STRUCT_LEN"}) THEN {"newer fields", "empty structure"} ELSE {}}

MCAnswers == UNION {{AnswerOf(name, sh) : sh \in ShapesOf(Tables[name])} : name \in DOMAIN Tables}
MCSample == {AnswerOf("Image_Status_Query", Shape(1, 0, 0, 0, FALSE, None))}
=============================================================================
