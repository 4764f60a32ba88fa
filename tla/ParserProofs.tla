---------------------------- MODULE ParserProofs -----------------------------
(***************************************************************************)
(* Proofs about the two passes of the table parser, for any answers of     *)
(* SMAPI that AnswersAssumption allows: the types of getAndParseSmapiBuffer *)
(* as a whole, and StorageHolds.                                           *)
(***************************************************************************)
EXTENDS ConversationProofs

(***************************************************************************)
(* The frames: the base structure, and an array within each other one.     *)
(***************************************************************************)
Frame == [call : {"base", "sized", "counted"}, i : Nat, start : Nat, last : Nat, limit : Int,
          n : Int, size : Int, used : Int, open : BOOLEAN, implied : BOOLEAN, from : Int]

BaseRows == Simple \cup {"CHARBUF_COUNT", "ERROR_BUFF_LEN", "ERROR_BUFF_PTR"}

\* The base structure does not get into the rows of an array.
BaseOK(f) ==
  /\ f.call = "base" /\ f.i >= 2
  /\ f.i > Len(Table) \/ RowAt(f.i).nest = 0 \/ RowAt(f.i).type = "C_STR_STRUCT_LEN"

\* The array of frame m is at the row its caller has come to.
ArrayOK(m) ==
  LET f == frames[m]
      array == frames[m - 1].i
  IN /\ f.call # "base"
     /\ array \in 1..Len(Table) /\ RowAt(array).type \in Lists
     /\ RowAt(array).nest >= m - 2
     /\ f.start = FirstRow(array) /\ f.last = LastRow(array, f.start)
     /\ f.open => f.i > f.start
     /\ m < Len(frames) => f.open /\ f.i <= f.last

FramesOK ==
  /\ frames \in Seq(Frame)
  /\ pass # "idle" => Len(frames) >= 1
  /\ pass = "idle" => frames = <<>>
  /\ Len(frames) >= 1 => BaseOK(frames[1])
  /\ \A m \in 2..Len(frames) : ArrayOK(m)

\* Up to the reason code the base structure has numbers only.
BytesOK ==
  pass \in Walking =>
    \A m \in 1..Len(Table) :
      RowAt(m).type = "RS_INT4" /\ frames[1].i <= m => bytes = 4 * (frames[1].i - 2)

Walked ==
  /\ answer \in Answers
  /\ pass \in {"idle", "allocate"} \cup Walking \cup Parsed
  /\ cursor \in Nat /\ bytes \in Nat /\ wanted \in Int /\ stored \in Nat
  /\ counted \in [StructIndexes -> Nat] /\ carved \in [StructIndexes -> Nat]
  /\ FramesOK /\ BytesOK

\* The base structure is not walked back.
Onward == frames'[1].i >= frames[1].i

(***************************************************************************)
(* The scan as the places it comes to.  A place is how far it is and what  *)
(* it has added up; owed is 1 if it has taken off a byte that it had not   *)
(* added.                                                                  *)
(***************************************************************************)
Place == [cursor : Nat, bytes : Nat, frames : Seq(Frame), wanted : Int,
          counted : [StructIndexes -> Nat], owed : {0, 1}]

FirstPlace ==
  [cursor |-> 0, bytes |-> 0, frames |-> <<Base(2)>>, wanted |-> 0,
   counted |-> [x \in StructIndexes |-> IF x = 0 THEN 1 ELSE 0], owed |-> 0]

Last1(c) == c.frames[Len(c.frames)]
Below(c) == SubSeq(c.frames, 1, Len(c.frames) - 1)
Goes(d, to, by, fs) == d.cursor = to /\ d.bytes = by /\ d.frames = fs
Keeps(c, d) == d.wanted = c.wanted /\ d.counted = c.counted /\ d.owed = c.owed
Counts(c, d, x) == d.counted = [c.counted EXCEPT ![x] = @ + 1]

TakesOff(r, off) == IF r.type = "CHARBUF_LEN" /\ TextLength(r, off) = 0 THEN 1 ELSE 0
RowsScanned(r) == IF r.type = "CHARBUF_LEN" THEN 2 ELSE 1

AtBase(c) == Last1(c).call = "base"
Errors(c) ==
  /\ RowAt(Last1(c).i).type = "RS_INT4" /\ answer.refused /\ answer.errors # None
  /\ c.bytes + 4 < answer.size
EndOfScan(c) == AtBase(c) /\ (Last1(c).i > Len(Table) \/ c.bytes >= answer.size)

Enters(c, d) ==
  LET i == Last1(c).i
      rest == RowAt(i).type = "ARRAY_NO_LENGTH"
      s == FirstRow(i)
  IN /\ Keeps(c, d)
     /\ Goes(d, IF rest THEN c.cursor ELSE c.cursor + 4, c.bytes,
             Append(c.frames,
               [Base(s) EXCEPT !.call = IF RowAt(i).type = "ARRAY_COUNT" THEN "counted" ELSE "sized",
                               !.start = s, !.last = LastRow(i, s),
                               !.limit = IF rest THEN answer.size - c.bytes ELSE Value(c.cursor),
                               !.from = c.cursor]))

ScansBase(c, d) ==
  LET i == Last1(c).i
      r == RowAt(i)
  IN /\ r.type \in Simple /\ ~Errors(c) =>
          /\ Goes(d, c.cursor + Taken(r, c.cursor), c.bytes + Taken(r, c.cursor),
                  <<Base(i + RowsScanned(r))>>)
          /\ d.wanted = c.wanted + StringBytes(r, c.cursor, TRUE)
          /\ d.owed = c.owed + TakesOff(r, c.cursor)
          /\ d.counted = c.counted
     /\ Errors(c) =>
          /\ Goes(d, c.cursor + 4, answer.size, <<Base(i + 1)>>)
          /\ d.wanted = c.wanted + (answer.size - (c.bytes + 4))
          /\ d.owed = c.owed /\ d.counted = c.counted
     /\ r.type \in {"ERROR_BUFF_LEN", "ERROR_BUFF_PTR"} =>
          Goes(d, c.cursor, c.bytes, <<Base(i + 1)>>) /\ Keeps(c, d)
     /\ r.type = "C_STR_ARRAY_PTR" =>
          LET n == Value(c.cursor) + 1 IN
          /\ Goes(d, c.cursor + n, c.bytes + n, c.frames)
          /\ d.wanted = c.wanted + n /\ d.owed = c.owed
          /\ Counts(c, d, RowAt(i + 2).index)
     /\ r.type \in Lists => Enters(c, d)

ScansArray(c, d) ==
  LET f == Last1(c)
      h == RowAt(f.start)
      implied == h.type = "NOBUFFER_STRUCT_LEN"
      caller == Below(c)[Len(Below(c))]
  IN /\ f.n >= f.limit =>
          /\ Keeps(c, d)
          /\ Goes(d, c.cursor, c.bytes,
                  Append(SubSeq(Below(c), 1, Len(Below(c)) - 1),
                         [caller EXCEPT !.i = f.last + 1, !.used = @ + (c.cursor - f.from)]))
     /\ f.n < f.limit /\ ~implied /\ Value(c.cursor) = 0 =>
          Goes(d, c.cursor + 4, c.bytes, c.frames) /\ Keeps(c, d)
     /\ f.n < f.limit /\ (implied \/ Value(c.cursor) # 0) =>
          /\ Goes(d, IF implied THEN c.cursor ELSE c.cursor + 4, c.bytes,
                  Append(Below(c),
                    [f EXCEPT !.open = TRUE, !.implied = implied, !.i = f.start + 1, !.used = 0,
                              !.size = IF implied THEN 0 ELSE Value(c.cursor)]))
          /\ d.wanted = c.wanted /\ d.owed = c.owed /\ Counts(c, d, h.index)

ScansStruct(c, d) ==
  LET f == Last1(c)
      ends == f.i > f.last \/ (~f.implied /\ f.used >= f.size)
      r == RowAt(f.i)
  IN /\ ends =>
          /\ Keeps(c, d)
          /\ Goes(d, c.cursor, c.bytes,
                  Append(Below(c), [f EXCEPT !.open = FALSE, !.n = @ + StructUsed(f)]))
     /\ ~ends /\ r.type \in Simple =>
          /\ Goes(d, c.cursor + Taken(r, c.cursor),
                  IF r.type = "FIXED_STR_PTR" THEN c.bytes + r.max ELSE c.bytes,
                  Append(Below(c), [f EXCEPT !.i = @ + RowsScanned(r),
                                             !.used = @ + Taken(r, c.cursor)]))
          /\ d.wanted = c.wanted + StringBytes(r, c.cursor, FALSE)
          /\ d.owed = c.owed /\ d.counted = c.counted
     /\ ~ends /\ r.type \in Lists => Enters(c, d)

\* The place d is next behind c.
Scans(c, d) ==
  /\ AtBase(c) => ScansBase(c, d)
  /\ ~AtBase(c) /\ ~Last1(c).open => ScansArray(c, d)
  /\ ~AtBase(c) /\ Last1(c).open => ScansStruct(c, d)

\* Nothing that was added up is lost, but for what is owed.
Least(c, d) ==
  /\ c.wanted + c.owed <= d.wanted + d.owed
  /\ \A x \in StructIndexes : c.counted[x] <= d.counted[x]

Path(s, n) ==
  /\ n \in Nat /\ n >= 1 /\ s[1] = FirstPlace
  /\ \A m \in 1..n : s[m] \in Place /\ Least(s[m], s[n])
  /\ \A m \in 1..(n - 1) : Scans(s[m], s[m + 1])

\* When a byte is owed: a character buffer that may be empty is behind.
OwedOK(c) ==
  /\ c.owed = 1 => \E b \in 1..Len(Table) : MayTakeOff(Table, b) /\ c.frames[1].i > b
  /\ answer.table \notin OneByteShort =>
       \A b \in 1..Len(Table) :
         MayTakeOff(Table, b) =>
           /\ c.owed = 1 => c.wanted = -1
           /\ c.frames[1].i <= b /\ c.bytes < answer.size => c.wanted = 0

(***************************************************************************)
(* The second pass is where the scan has been.  In a structure it can be a *)
(* row behind, at the count of an empty buffer, and gets nowhere from      *)
(* there but to the end of the structure.                                  *)
(***************************************************************************)
Agrees(f, g) ==
  \/ f = g
  \/ /\ g.call # "base" /\ f = [g EXCEPT !.i = f.i]
     /\ g.open => /\ g.i \in 1..Len(Table) /\ RowAt(g.i).type = "CHARBUF_COUNT"
                  /\ f.i = g.i + 1

OnScan(c) ==
  /\ c.bytes = bytes /\ c.counted = carved /\ stored <= c.wanted + c.owed
  /\ Len(c.frames) = Len(frames) /\ Below(c) = Under /\ Agrees(Last1(c), Top)
  /\ c.cursor = cursor \/ (Top.call = "base" /\ bytes >= answer.size)

\* The parser is at the place c of its scan.
Stands(c) == Goes(c, cursor, bytes, frames) /\ c.wanted = wanted /\ c.counted = counted

NothingPopulated == carved = FirstPlace.counted /\ stored = 0

Scanned(s, n) ==
  /\ Path(s, n) /\ EndOfScan(s[n])
  /\ s[n].wanted = wanted /\ s[n].counted = counted
  /\ s[n].owed = 1 => answer.table \in OneByteShort \/ wanted = -1

ScanOK ==
  pass = "scan" =>
    /\ \E s : \E n \in Nat :
         Path(s, n) /\ Stands(s[n]) /\ OwedOK(s[n])
    /\ NothingPopulated

PopulateOK ==
  /\ pass = "allocate" => (\E s : \E n \in Nat : Scanned(s, n)) /\ NothingPopulated
  /\ pass \in {"populate", "ok"} =>
       \E s : \E n \in Nat : Scanned(s, n) /\ \E m \in 1..n : OnScan(s[m])

IdleOK ==
  pass = "idle" =>
    /\ counted = [x \in StructIndexes |-> 0] /\ carved = counted
    /\ bytes = 0 /\ cursor = 0 /\ wanted = 0 /\ stored = 0

ParserInv == Walked /\ IdleOK /\ ScanOK /\ PopulateOK

\* The steps that walk through the answer.
Walks ==
  \/ BaseField \/ BaseErrors \/ BaseSkip \/ BaseStrings
  \/ EnterList \/ OpenStruct \/ SkipStruct \/ StructField \/ CloseStruct \/ LeaveList

-----------------------------------------------------------------------------
(* Facts about rows. *)

LEMMA TableFacts ==
  ASSUME answer \in Answers
  PROVE  /\ answer.table \in DOMAIN Tables /\ answer.size \in Nat
         /\ \A off \in DOMAIN answer.at : answer.at[off].value \in Nat
         /\ Len(Table) \in Nat /\ Len(Table) >= 2
         /\ 0 \in StructIndexes
         /\ RowAt(2).nest = 0
  BY TablesAssumption, AnswersAssumption DEF RowsBelong, Table, RowAt

LEMMA RowFacts ==
  ASSUME answer \in Answers, NEW i \in 1..Len(Table)
  PROVE  /\ RowAt(i).nest \in Nat /\ RowAt(i).nest <= Cardinality(StructIndexes) - 2
         /\ RowAt(i).index \in StructIndexes
         /\ RowAt(i).min \in Int /\ RowAt(i).max \in Int
         /\ RowAt(i).type = "CHARBUF_LEN" =>
              i < Len(Table) /\ RowAt(i + 1).type = "CHARBUF_COUNT"
         /\ RowAt(i).type = "RS_INT4" =>
              \A m \in 2..(i - 1) : RowAt(m).type \in {"INT4", "RC_INT4"}
  <1>1. RowsBelong(Table)
    BY TableFacts, TablesAssumption DEF Table
  <1>2. Cardinality(StructIndexes) \in Nat
    BY TablesAssumption, FS_CardinalityType
  <1> QED  BY <1>1, <1>2 DEF RowsBelong, RowAt

LEMMA BaseGoesOn ==
  ASSUME answer \in Answers, NEW i \in 1..Len(Table), i < Len(Table),
         RowAt(i).nest = 0, RowAt(i).type \in BaseRows
  PROVE  RowAt(i + 1).nest = 0 \/ RowAt(i + 1).type = "C_STR_STRUCT_LEN"
  <1>1. RowsBelong(Table)
    BY TableFacts, TablesAssumption DEF Table
  <1> QED  BY <1>1 DEF RowsBelong, RowAt, BaseRows

LEMMA ArrayRows ==
  ASSUME answer \in Answers, NEW i \in 1..Len(Table), RowAt(i).type \in Lists
  PROVE  /\ FirstRow(i) \in 2..Len(Table) /\ FirstRow(i) > i
         /\ LastRow(i, FirstRow(i)) \in FirstRow(i)..Len(Table)
         /\ \A m \in (FirstRow(i) + 1)..LastRow(i, FirstRow(i)) : RowAt(m).nest > RowAt(i).nest
         /\ \/ LastRow(i, FirstRow(i)) = Len(Table)
            \/ RowAt(LastRow(i, FirstRow(i)) + 1).nest <= RowAt(i).nest
  <1>1. RowsBelong(Table)
    BY TableFacts, TablesAssumption DEF Table
  <1>2. /\ i < Len(Table) /\ FirstRowOf(Table, i) <= Len(Table)
        /\ \E m \in FirstRowOf(Table, i)..Len(Table) : IsLastRow(Table, i, FirstRowOf(Table, i), m)
    BY <1>1 DEF RowsBelong, RowAt
  <1>3. FirstRow(i) = FirstRowOf(Table, i)
    BY DEF FirstRow
  <1>4. FirstRow(i) \in Nat /\ FirstRow(i) > i
    BY DEF FirstRow, FirstRowOf
  <1>5. /\ LastRow(i, FirstRow(i)) \in FirstRow(i)..Len(Table)
        /\ IsLastRow(Table, i, FirstRow(i), LastRow(i, FirstRow(i)))
    BY <1>2, <1>3 DEF LastRow
  <1> QED  BY <1>2, <1>3, <1>4, <1>5, TableFacts DEF IsLastRow, RowAt

(* What a readable row takes, adds and stores. *)
LEMMA RowNumbers ==
  ASSUME answer \in Answers, NEW i \in 1..Len(Table), NEW off, RowAt(i).type \in Simple,
         Readable(RowAt(i), off), SizeFits(RowAt(i), off)
  PROVE  /\ TextLength(RowAt(i), off) \in Nat
         /\ Taken(RowAt(i), off) \in Nat
         /\ RowAt(i).type = "FIXED_STR_PTR" => RowAt(i).max \in Nat
         /\ RowAt(i).type \in {"INT4", "RC_INT4", "RS_INT4"} => Taken(RowAt(i), off) = 4
         /\ \A b \in BOOLEAN : StringBytes(RowAt(i), off, b) \in Int
         /\ StoredBytes(RowAt(i), off) \in Nat
         /\ TakesOff(RowAt(i), off) \in {0, 1}
         /\ 0 <= StringBytes(RowAt(i), off, TRUE) + TakesOff(RowAt(i), off)
         /\ StoredBytes(RowAt(i), off) <= StringBytes(RowAt(i), off, TRUE) + TakesOff(RowAt(i), off)
         /\ StoredBytes(RowAt(i), off) <= StringBytes(RowAt(i), off, FALSE)
  <1> DEFINE r == RowAt(i)
  <1>1. TextLength(r, off) \in Nat
    BY TableFacts DEF TextLength, Readable, Has, Value, Texts
  <1>2. r.type = "FIXED_STR_PTR" => r.max \in Nat
    BY TableFacts DEF Readable, Has, Value, Texts
  <1>3. r.type \in Texts \cup {"C_STR_PTR"} => TextLength(r, off) = Value(off)
    BY DEF TextLength
  <1>4. r.type \in {"INT1", "INT4", "RC_INT4", "RS_INT4", "INT8", "FIXED_STR_PTR", "C_STR_PTR",
                    "STRING_LEN", "CHARBUF_LEN"}
    BY DEF Simple, Texts
  <1> HIDE DEF r
  <1>5. Taken(r, off) \in Nat /\ (r.type \in {"INT4", "RC_INT4", "RS_INT4"} => Taken(r, off) = 4)
    BY <1>1, <1>2, <1>3, <1>4 DEF Taken, Texts
  <1>6. /\ \A b \in BOOLEAN : StringBytes(r, off, b) \in Int
        /\ StoredBytes(r, off) \in Nat
        /\ TakesOff(r, off) \in {0, 1}
    BY <1>1, <1>2, <1>4 DEF StringBytes, StoredBytes, TakesOff, Texts
  <1>7. /\ 0 <= StringBytes(r, off, TRUE) + TakesOff(r, off)
        /\ StoredBytes(r, off) <= StringBytes(r, off, TRUE) + TakesOff(r, off)
        /\ StoredBytes(r, off) <= StringBytes(r, off, FALSE)
    BY <1>1, <1>2, <1>4 DEF StringBytes, StoredBytes, TakesOff, Texts
  <1> QED  BY <1>1, <1>2, <1>5, <1>6, <1>7 DEF r

-----------------------------------------------------------------------------
(* Facts about frames. *)

LEMMA Popped ==
  ASSUME NEW q \in Seq(Frame), Len(q) >= 1
  PROVE  /\ Len(q) \in Nat /\ q[Len(q)] \in Frame
         /\ SubSeq(q, 1, Len(q) - 1) \in Seq(Frame)
         /\ Len(SubSeq(q, 1, Len(q) - 1)) = Len(q) - 1
         /\ \A m \in 1..(Len(q) - 1) : SubSeq(q, 1, Len(q) - 1)[m] = q[m]
  <1>1. Len(q) \in Nat /\ \A m \in 1..Len(q) : q[m] \in Frame
    BY LenProperties, ElementOfSeq
  <1>2. \A m \in 1..(Len(q) - 1) : q[m] \in Frame
    BY <1>1
  <1> DEFINE t == Len(q) - 1
  <1>3. t \in Int /\ t >= 0 /\ 1 \in Int
    BY <1>1
  <1>4. \A m \in 1..t : q[m] \in Frame
    BY <1>2
  <1> HIDE DEF t
  <1>5. /\ SubSeq(q, 1, t) \in Seq(Frame)
        /\ Len(SubSeq(q, 1, t)) = IF 1 <= t THEN t - 1 + 1 ELSE 0
        /\ \A m \in 1..(t - 1 + 1) : SubSeq(q, 1, t)[m] = q[1 + m - 1]
    BY <1>3, <1>4, SubSeqProperties
  <1>6. Len(SubSeq(q, 1, t)) = t /\ \A m \in 1..t : SubSeq(q, 1, t)[m] = q[m]
    BY <1>3, <1>5
  <1>7. q[Len(q)] \in Frame
    BY <1>1
  <1> QED  BY <1>1, <1>5, <1>6, <1>7 DEF t

LEMMA Pushed ==
  ASSUME NEW q \in Seq(Frame), NEW f \in Frame
  PROVE  /\ Append(q, f) \in Seq(Frame) /\ Len(Append(q, f)) = Len(q) + 1
         /\ Append(q, f)[Len(q) + 1] = f
         /\ \A m \in 1..Len(q) : Append(q, f)[m] = q[m]
         /\ SubSeq(Append(q, f), 1, Len(q)) = q
  <1>0. Len(q) \in Nat
    BY LenProperties
  <1>1. /\ Append(q, f) \in Seq(Frame) /\ Len(Append(q, f)) = Len(q) + 1
        /\ Append(q, f)[Len(q) + 1] = f
        /\ \A m \in 1..Len(q) : Append(q, f)[m] = q[m]
    BY <1>0
  <1> DEFINE p == Append(q, f)
  <1>2. p \in Seq(Frame) /\ Len(p) >= 1 /\ Len(p) - 1 = Len(q)
    BY <1>0, <1>1
  <1> HIDE DEF p
  <1>3. /\ SubSeq(p, 1, Len(p) - 1) \in Seq(Frame)
        /\ Len(SubSeq(p, 1, Len(p) - 1)) = Len(p) - 1
        /\ \A m \in 1..(Len(p) - 1) : SubSeq(p, 1, Len(p) - 1)[m] = p[m]
    BY <1>2, Popped
  <1>4. SubSeq(p, 1, Len(q)) \in Seq(Frame) /\ Len(SubSeq(p, 1, Len(q))) = Len(q)
        /\ \A m \in 1..Len(q) : SubSeq(p, 1, Len(q))[m] = p[m]
    BY <1>2, <1>3
  <1>5. SubSeq(p, 1, Len(q)) = q
    BY <1>1, <1>4, SeqEqual DEF p
  <1> QED  BY <1>1, <1>5 DEF p

LEMMA BaseFrame ==
  ASSUME NEW i \in Nat
  PROVE  /\ Base(i) \in Frame /\ Base(i).i = i /\ Base(i).call = "base"
         /\ <<Base(i)>> \in Seq(Frame) /\ Len(<<Base(i)>>) = 1 /\ <<Base(i)>>[1] = Base(i)
         /\ SubSeq(<<Base(i)>>, 1, 0) = <<>>
  <1>1. Base(i) \in Frame /\ Base(i).i = i /\ Base(i).call = "base"
    BY DEF Base, Frame
  <1>2. SubSeq(<<Base(i)>>, 1, 0) = <<>>
    BY SubSeqEmpty
  <1> HIDE DEF Base
  <1> QED  BY <1>1, <1>2

LEMMA Moved ==
  ASSUME NEW f \in Frame, NEW a \in Nat, NEW b \in Int
  PROVE  LET h == [f EXCEPT !.i = a, !.used = b] IN
         /\ h \in Frame /\ h.i = a /\ h.used = b
         /\ h.call = f.call /\ h.start = f.start /\ h.last = f.last /\ h.limit = f.limit
         /\ h.n = f.n /\ h.size = f.size /\ h.open = f.open /\ h.implied = f.implied
         /\ h.from = f.from
  BY DEF Frame

LEMMA Closed ==
  ASSUME NEW f \in Frame, NEW a \in Int
  PROVE  LET h == [f EXCEPT !.open = FALSE, !.n = a] IN
         /\ h \in Frame /\ ~h.open /\ h.n = a
         /\ h.call = f.call /\ h.start = f.start /\ h.last = f.last /\ h.limit = f.limit
         /\ h.i = f.i /\ h.size = f.size /\ h.used = f.used /\ h.implied = f.implied
         /\ h.from = f.from
  BY DEF Frame

LEMMA RowsSame ==
  ASSUME answer' = answer
  PROVE  /\ Table' = Table /\ \A i : RowAt(i)' = RowAt(i)
         /\ \A i : FirstRow(i)' = FirstRow(i)
         /\ \A i, s : LastRow(i, s)' = LastRow(i, s)
  <1>1. Table' = Table
    BY DEF Table
  <1>2. \A i, s : LastRow(i, s)' = LastRow(i, s)
    BY <1>1 DEF LastRow
  <1> QED  BY <1>1, <1>2 DEF RowAt, FirstRow

LEMMA FramesAre ==
  ASSUME Walked, pass # "idle"
  PROVE  /\ Len(frames) \in Nat /\ Len(frames) >= 1 /\ Top \in Frame
         /\ Under \in Seq(Frame) /\ Len(Under) = Len(frames) - 1
         /\ \A m \in 1..(Len(frames) - 1) : Under[m] = frames[m]
         /\ \A m \in 1..Len(frames) : frames[m] \in Frame
         /\ BaseOK(frames[1])
         /\ Top.call = "base" <=> Len(frames) < 2
  <1>1. frames \in Seq(Frame) /\ Len(frames) >= 1 /\ BaseOK(frames[1])
    BY DEF Walked, FramesOK
  <1>2. Len(frames) \in Nat /\ \A m \in 1..Len(frames) : frames[m] \in Frame
    BY <1>1, LenProperties, ElementOfSeq
  <1>3. /\ Top \in Frame /\ Under \in Seq(Frame) /\ Len(Under) = Len(frames) - 1
        /\ \A m \in 1..(Len(frames) - 1) : Under[m] = frames[m]
    BY <1>1, Popped DEF Top, Under
  <1>4. Len(frames) < 2 => Top.call = "base"
    <2> SUFFICES ASSUME Len(frames) < 2 PROVE Top.call = "base"
      OBVIOUS
    <2> DEFINE l == Len(frames)
    <2>1. l \in Nat /\ l >= 1 /\ l < 2 /\ Top = frames[l]
      BY <1>1, <1>2 DEF Top
    <2> HIDE DEF l
    <2>2. l = 1
      BY <2>1
    <2> QED  BY <1>1, <2>1, <2>2 DEF BaseOK
  <1>5. Len(frames) >= 2 => Top.call # "base"
    <2>1. \A m \in 2..Len(frames) : ArrayOK(m)
      BY DEF Walked, FramesOK
    <2>2. Len(frames) >= 2 => Len(frames) \in 2..Len(frames)
      BY <1>1, <1>2
    <2> QED  BY <2>1, <2>2 DEF ArrayOK, Top
  <1> QED  BY <1>1, <1>2, <1>3, <1>4, <1>5

(* The frames after a step: of the base structure alone, ... *)
LEMMA FramesBase ==
  ASSUME answer \in Answers, answer' = answer, pass' # "idle",
         NEW i \in Nat, i >= 2,
         i > Len(Table) \/ RowAt(i).nest = 0 \/ RowAt(i).type = "C_STR_STRUCT_LEN",
         frames' = <<Base(i)>>
  PROVE  FramesOK' /\ frames'[1] = Base(i)
  <1>1. frames' \in Seq(Frame) /\ Len(frames') = 1 /\ frames'[1] = Base(i)
    BY BaseFrame
  <1>2. BaseOK(frames[1])'
    BY <1>1, BaseFrame, RowsSame DEF BaseOK
  <1> QED  BY <1>1, <1>2 DEF FramesOK

(* ... with the last one changed, ... *)
LEMMA FramesReplaced ==
  ASSUME Walked, pass # "idle", answer' = answer, pass' # "idle", Top.call # "base",
         NEW g \in Frame, g.call = Top.call, g.start = Top.start, g.last = Top.last,
         g.open => g.i > g.start,
         frames' = Append(Under, g)
  PROVE  FramesOK' /\ frames'[1] = frames[1]
  <1>1. Len(frames) \in Nat /\ Len(frames) >= 2
    BY FramesAre
  <1>2. /\ frames' \in Seq(Frame) /\ Len(frames') = Len(frames)
        /\ frames'[Len(frames)] = g
        /\ \A m \in 1..(Len(frames) - 1) : frames'[m] = frames[m]
    <2>1. Under \in Seq(Frame) /\ Len(Under) = Len(frames) - 1
          /\ \A m \in 1..(Len(frames) - 1) : Under[m] = frames[m]
      BY FramesAre
    <2>2. /\ Append(Under, g) \in Seq(Frame) /\ Len(Append(Under, g)) = Len(Under) + 1
          /\ Append(Under, g)[Len(Under) + 1] = g
          /\ \A m \in 1..Len(Under) : Append(Under, g)[m] = Under[m]
      BY <2>1, Pushed
    <2> QED  BY <1>1, <2>1, <2>2
  <1>3. frames'[1] = frames[1]
    BY <1>1, <1>2
  <1>4. BaseOK(frames[1])'
    BY <1>3, FramesAre, RowsSame DEF BaseOK
  <1>5. \A m \in 2..Len(frames) : ArrayOK(m)
    BY DEF Walked, FramesOK
  <1>6. ASSUME NEW m \in 2..Len(frames') PROVE ArrayOK(m)'
    <2>1. CASE m < Len(frames)
      <3>1. frames'[m] = frames[m] /\ frames'[m - 1] = frames[m - 1]
        BY <1>1, <1>2, <2>1
      <3> QED  BY <1>1, <1>2, <1>5, <2>1, <3>1, RowsSame DEF ArrayOK
    <2>2. CASE m = Len(frames)
      <3>1. frames'[m] = g /\ frames'[m - 1] = frames[m - 1]
        BY <1>1, <1>2, <2>2
      <3> QED  BY <1>1, <1>2, <1>5, <2>2, <3>1, RowsSame DEF ArrayOK, Top
    <2> QED  BY <1>1, <1>2, <2>1, <2>2
  <1> QED  BY <1>1, <1>2, <1>3, <1>4, <1>6 DEF FramesOK

(* ... with an array entered, ... *)
LEMMA FramesEntered ==
  ASSUME Walked, pass # "idle", answer' = answer, pass' # "idle",
         Top.i \in 1..Len(Table), RowAt(Top.i).type \in Lists,
         Top.call # "base" => Top.open /\ Top.i <= Top.last,
         NEW f \in Frame, f.call # "base", f.start = FirstRow(Top.i),
         f.last = LastRow(Top.i, FirstRow(Top.i)), ~f.open,
         frames' = Append(frames, f)
  PROVE  FramesOK' /\ frames'[1] = frames[1]
  <1>0. answer \in Answers
    BY DEF Walked
  <1>1. Len(frames) \in Nat /\ Len(frames) >= 1
    BY FramesAre
  <1>2. /\ frames' \in Seq(Frame) /\ Len(frames') = Len(frames) + 1
        /\ frames'[Len(frames) + 1] = f
        /\ \A m \in 1..Len(frames) : frames'[m] = frames[m]
    BY Pushed DEF Walked, FramesOK
  <1>3. frames'[1] = frames[1]
    BY <1>1, <1>2
  <1>4. BaseOK(frames[1])'
    BY <1>3, FramesAre, RowsSame DEF BaseOK
  <1>5. \A m \in 2..Len(frames) : ArrayOK(m)
    BY DEF Walked, FramesOK
  <1>6. RowAt(Top.i).nest >= Len(frames) - 1
    <2>1. CASE Len(frames) < 2
      BY <1>0, <1>1, <2>1, RowFacts
    <2>2. CASE Len(frames) >= 2
      <3> DEFINE a == frames[Len(frames) - 1].i
      <3>1. ArrayOK(Len(frames))
        BY <1>1, <1>5, <2>2
      <3>2. /\ a \in 1..Len(Table) /\ RowAt(a).type \in Lists
            /\ RowAt(a).nest >= Len(frames) - 2
            /\ Top.start = FirstRow(a) /\ Top.last = LastRow(a, FirstRow(a))
            /\ Top.open => Top.i > Top.start
        BY <3>1 DEF ArrayOK, Top
      <3>3. Top.open /\ Top.i <= Top.last
        BY <1>1, <2>2, FramesAre
      <3> HIDE DEF a
      <3>4. RowAt(Top.i).nest > RowAt(a).nest
        <4>1. FirstRow(a) \in Nat /\ LastRow(a, FirstRow(a)) \in Nat
          BY <1>0, <3>2, TableFacts, ArrayRows
        <4>2. Top.i \in (FirstRow(a) + 1)..LastRow(a, FirstRow(a))
          BY <3>2, <3>3, <4>1, TableFacts, <1>0
        <4> QED  BY <1>0, <3>2, <4>2, ArrayRows
      <3> QED  BY <1>0, <1>1, <3>2, <3>4, RowFacts
    <2>3. Len(frames) < 2 \/ Len(frames) >= 2
      BY <1>1
    <2> QED  BY <2>1, <2>2, <2>3
  <1>7. ASSUME NEW m \in 2..Len(frames') PROVE ArrayOK(m)'
    <2>1. CASE m < Len(frames)
      <3>1. frames'[m] = frames[m] /\ frames'[m - 1] = frames[m - 1]
        BY <1>1, <1>2, <2>1
      <3> QED  BY <1>1, <1>2, <1>5, <2>1, <3>1, RowsSame DEF ArrayOK
    <2>2. CASE m = Len(frames)
      <3>1. frames'[m] = frames[m] /\ frames'[m - 1] = frames[m - 1]
        BY <1>1, <1>2, <2>2
      <3>2. Top.open /\ Top.i <= Top.last
        BY <2>2, FramesAre
      <3> QED  BY <1>1, <1>2, <1>5, <2>2, <3>1, <3>2, RowsSame DEF ArrayOK, Top
    <2>3. CASE m = Len(frames) + 1
      <3>1. frames'[m] = f /\ frames'[m - 1] = Top
        BY <1>1, <1>2, <2>3 DEF Top
      <3> QED  BY <1>1, <1>2, <1>6, <2>3, <3>1, RowsSame DEF ArrayOK
    <2> QED  BY <1>1, <1>2, <2>1, <2>2, <2>3
  <1> QED  BY <1>1, <1>2, <1>3, <1>4, <1>7 DEF FramesOK

(* ... and with an array left. *)
LEMMA FramesLeft ==
  ASSUME Walked, pass # "idle", answer' = answer, pass' # "idle", Top.call # "base",
         NEW f \in Frame, f.call = Under[Len(Under)].call, f.start = Under[Len(Under)].start,
         f.last = Under[Len(Under)].last, f.open = Under[Len(Under)].open, f.i = Top.last + 1,
         NEW q \in Seq(Frame), Len(q) = Len(frames) - 2,
         \A m \in 1..(Len(frames) - 2) : q[m] = frames[m],
         frames' = Append(q, f)
  PROVE  /\ FramesOK' /\ Len(frames) >= 2
         /\ Len(frames) >= 3 => frames'[1] = frames[1]
         /\ Len(frames) < 3 => frames'[1] = f /\ f.i > frames[1].i
  <1>0. answer \in Answers
    BY DEF Walked
  <1>1. Len(frames) \in Nat /\ Len(frames) >= 2 /\ Len(Under) = Len(frames) - 1
        /\ Under \in Seq(Frame) /\ \A m \in 1..(Len(frames) - 1) : Under[m] = frames[m]
    BY FramesAre
  <1> DEFINE c == frames[Len(frames) - 1]
  <1>2. c = Under[Len(Under)]
    BY <1>1
  <1>4. /\ frames' \in Seq(Frame) /\ Len(frames') = Len(frames) - 1
        /\ frames'[Len(frames) - 1] = f
        /\ \A m \in 1..(Len(frames) - 2) : frames'[m] = frames[m]
    <2>1. /\ frames' \in Seq(Frame) /\ Len(frames') = Len(q) + 1
          /\ frames'[Len(q) + 1] = f
          /\ \A m \in 1..Len(q) : frames'[m] = q[m]
      BY Pushed
    <2> QED  BY <1>1, <2>1
  <1>5. /\ \A m \in 2..Len(frames) : ArrayOK(m)
        /\ BaseOK(frames[1])
    BY <1>1 DEF Walked, FramesOK
  <1>6. /\ c.i \in 1..Len(Table) /\ RowAt(c.i).type \in Lists
        /\ Top.start = FirstRow(c.i) /\ Top.last = LastRow(c.i, FirstRow(c.i))
    BY <1>1, <1>5 DEF ArrayOK, Top
  <1>7. Top.last \in Nat /\ Top.last > c.i
        /\ (Top.last = Len(Table) \/ RowAt(Top.last + 1).nest <= RowAt(c.i).nest)
    <2> DEFINE a == c.i
               s == FirstRow(a)
    <2>1. a \in 1..Len(Table) /\ RowAt(a).type \in Lists /\ Top.last = LastRow(a, s)
      BY <1>6
    <2> HIDE DEF a
    <2>2. /\ s \in 2..Len(Table) /\ s > a /\ LastRow(a, s) \in s..Len(Table)
          /\ LastRow(a, s) = Len(Table) \/ RowAt(LastRow(a, s) + 1).nest <= RowAt(a).nest
      BY <1>0, <2>1, ArrayRows
    <2> HIDE DEF s
    <2>3. a \in Int /\ Len(Table) \in Nat
      BY <1>0, <2>1, TableFacts
    <2>4. Top.last \in Nat /\ Top.last > a
      BY <2>1, <2>2, <2>3
    <2> QED  BY <2>1, <2>2, <2>4 DEF a
  <1>8. \A m \in 1..Len(frames) : frames[m] \in Frame
    BY FramesAre
  <1>9. CASE Len(frames) < 3
    <2>1. frames'[1] = f /\ f.call = "base" /\ c = frames[1]
      BY <1>1, <1>2, <1>4, <1>5, <1>9 DEF BaseOK
    <2>2. RowAt(c.i).nest = 0
      <3>1. c.i <= Len(Table) /\ RowAt(c.i).type # "C_STR_STRUCT_LEN"
        BY <1>0, <1>6, TableFacts DEF Lists
      <3> QED  BY <1>0, <1>5, <1>6, <2>1, <3>1, TableFacts DEF BaseOK
    <2>3. f.i > Len(Table) \/ RowAt(f.i).nest = 0
      <3>1. CASE Top.last = Len(Table)
        BY <1>7, <3>1
      <3>2. CASE Top.last # Len(Table)
        <4>1. Top.last + 1 \in 1..Len(Table)
          BY <1>0, <1>6, <1>7, <3>2, ArrayRows, TableFacts
        <4> QED  BY <1>0, <1>7, <2>2, <3>2, <4>1, RowFacts
      <3> QED  BY <3>1, <3>2
    <2>4. BaseOK(frames[1])'
      <3>1. f.i >= 2
        BY <1>6, <1>7
      <3> QED  BY <2>1, <2>3, <3>1, RowsSame DEF BaseOK
    <2>5. f.i > c.i
      BY <1>6, <1>7
    <2> QED  BY <1>1, <1>4, <1>9, <2>1, <2>4, <2>5 DEF FramesOK
  <1>10. CASE Len(frames) >= 3
    <2>1. frames'[1] = frames[1]
      BY <1>1, <1>4, <1>10
    <2>2. BaseOK(frames[1])'
      BY <1>5, <2>1, RowsSame DEF BaseOK
    <2>3. ASSUME NEW m \in 2..Len(frames') PROVE ArrayOK(m)'
      <3>1. CASE m < Len(frames) - 1
        <4>1. frames'[m] = frames[m] /\ frames'[m - 1] = frames[m - 1]
          BY <1>1, <1>4, <3>1
        <4>2. ArrayOK(m) /\ m < Len(frames) /\ Len(frames') = Len(frames) - 1
          BY <1>1, <1>4, <1>5, <3>1
        <4> QED  BY <3>1, <4>1, <4>2, RowsSame DEF ArrayOK
      <3>2. CASE m = Len(frames) - 1
        <4>1. frames'[m] = f /\ frames'[m - 1] = frames[m - 1] /\ frames[m] = c
          BY <1>1, <1>4, <3>2
        <4>2. ArrayOK(m) /\ m < Len(frames)
          BY <1>1, <1>5, <3>2
        <4>3. f.i > f.start
          <5>1. c.i > c.start
            BY <4>1, <4>2 DEF ArrayOK
          <5>2. c \in Frame
            BY <1>1, <1>8
          <5>3. c.start \in Nat /\ c.i \in Nat
            BY <5>2 DEF Frame
          <5> QED  BY <1>2, <1>7, <5>1, <5>3, SMTT(60)
        <4> QED  BY <1>1, <1>2, <1>4, <3>2, <4>1, <4>2, <4>3, RowsSame DEF ArrayOK
      <3> QED  BY <1>1, <1>4, <3>1, <3>2
    <2>4. frames' \in Seq(Frame) /\ Len(frames') >= 1
      BY <1>1, <1>4
    <2>5. FramesOK'
      BY <2>2, <2>3, <2>4 DEF FramesOK
    <2> QED  BY <1>10, <2>1, <2>5
  <1> QED  BY <1>1, <1>9, <1>10

-----------------------------------------------------------------------------
(* Every step keeps the types and the frames. *)

LEMMA BaseTop ==
  ASSUME Walked, InBase
  PROVE  /\ pass # "idle" /\ Top = frames[1] /\ Top \in Frame /\ Top.i \in Nat /\ Top.i >= 2
         /\ Len(frames) < 2
         /\ MoreRows => /\ Top.i \in 1..Len(Table) /\ Top.i \in 2..Len(Table)
                        /\ RowAt(Top.i).nest = 0 \/ RowAt(Top.i).type = "C_STR_STRUCT_LEN"
  <1>1. pass # "idle" /\ answer \in Answers
    BY DEF InBase, Walking, Walked
  <1>2. Top = frames[1] /\ Len(frames) < 2
    BY DEF InBase, Top
  <1>3. Top \in Frame /\ BaseOK(Top)
    BY <1>1, <1>2, FramesAre
  <1>4. Top.i \in Nat /\ Top.i >= 2
    BY <1>3 DEF Frame, BaseOK
  <1>5. ASSUME MoreRows PROVE Top.i <= Len(Table) /\ Len(Table) \in Nat
    BY <1>1, <1>5, TableFacts DEF MoreRows
  <1> QED  BY <1>1, <1>2, <1>3, <1>4, <1>5 DEF BaseOK

LEMMA ArrayTop ==
  ASSUME Walked, pass # "idle", Top.call # "base"
  PROVE  /\ Top \in Frame /\ Len(frames) >= 2 /\ Len(Table) \in Nat
         /\ Top.start \in 2..Len(Table) /\ Top.last \in Nat /\ Top.last <= Len(Table)
         /\ frames[1].i \in 2..Len(Table) /\ RowAt(frames[1].i).type \in Lists
         /\ Top.open /\ ~StructEnds => Top.i \in 1..Len(Table) /\ Top.i <= Top.last
  <1>0. answer \in Answers /\ Len(Table) \in Nat
    BY TableFacts DEF Walked
  <1>1. Len(frames) \in Nat /\ Len(frames) >= 2 /\ Top \in Frame /\ frames[1] \in Frame
    BY FramesAre
  <1>2. \A m \in 2..Len(frames) : ArrayOK(m)
    BY DEF Walked, FramesOK
  <1>3. ArrayOK(2) /\ ArrayOK(Len(frames))
    BY <1>1, <1>2
  <1>4. frames[1].i \in 2..Len(Table) /\ RowAt(frames[1].i).type \in Lists
    <2>1. frames[1].i \in 1..Len(Table) /\ RowAt(frames[1].i).type \in Lists
      BY <1>3 DEF ArrayOK
    <2>2. frames[1].i >= 2
      BY FramesAre DEF BaseOK
    <2> QED  BY <1>0, <2>1, <2>2
  <1>5. Top.start \in 2..Len(Table) /\ Top.last \in Nat /\ Top.last <= Len(Table)
        /\ (Top.open => Top.i > Top.start)
    <2> DEFINE a == frames[Len(frames) - 1].i
    <2>1. /\ a \in 1..Len(Table) /\ RowAt(a).type \in Lists
          /\ Top.start = FirstRow(a) /\ Top.last = LastRow(a, FirstRow(a))
          /\ Top.open => Top.i > Top.start
      BY <1>3 DEF ArrayOK, Top
    <2> HIDE DEF a
    <2> QED  BY <1>0, <2>1, ArrayRows
  <1>6. ASSUME Top.open, ~StructEnds PROVE Top.i \in 1..Len(Table) /\ Top.i <= Top.last
    <2>1. Top.i \in Nat /\ ~(Top.i > Top.last)
      BY <1>1, <1>6 DEF Frame, StructEnds
    <2> QED  BY <1>0, <1>5, <1>6, <2>1
  <1> QED  BY <1>0, <1>1, <1>4, <1>5, <1>6

(* Only numbers of four bytes come before the reason code. *)
LEMMA ReasonBehind ==
  ASSUME answer \in Answers, NEW i \in 2..Len(Table),
         RowAt(i).type \notin {"INT4", "RC_INT4"},
         NEW m \in 1..Len(Table), RowAt(m).type = "RS_INT4"
  PROVE  m <= i
  <1>1. Len(Table) \in Nat
    BY TableFacts
  <1>2. SUFFICES ASSUME m > i PROVE FALSE
    BY <1>1
  <1>3. i \in 2..(m - 1)
    BY <1>1, <1>2
  <1>4. RowAt(i).type \in {"INT4", "RC_INT4"}
    BY <1>3, RowFacts
  <1> QED  BY <1>4

LEMMA BaseNext ==
  ASSUME answer \in Answers, NEW i \in 1..Len(Table), RowAt(i).nest = 0,
         RowAt(i).type \in Simple \cup {"ERROR_BUFF_LEN", "ERROR_BUFF_PTR"}
  PROVE  LET n == i + RowsScanned(RowAt(i)) IN
         n > Len(Table) \/ RowAt(n).nest = 0 \/ RowAt(n).type = "C_STR_STRUCT_LEN"
  <1>1. Len(Table) \in Nat
    BY TableFacts
  <1>2. RowAt(i).type \in BaseRows
    BY DEF BaseRows
  <1>3. i < Len(Table) => RowAt(i + 1).nest = 0 \/ RowAt(i + 1).type = "C_STR_STRUCT_LEN"
    BY <1>2, BaseGoesOn
  <1>4. CASE RowAt(i).type = "CHARBUF_LEN"
    <2>1. i + 1 \in 1..Len(Table) /\ RowAt(i + 1).type = "CHARBUF_COUNT"
      BY <1>1, <1>4, RowFacts
    <2>2. RowAt(i + 1).nest = 0
      BY <1>1, <1>3, <2>1
    <2>3. i + 1 < Len(Table) => RowAt((i + 1) + 1).nest = 0 \/ RowAt((i + 1) + 1).type = "C_STR_STRUCT_LEN"
      BY <2>1, <2>2, BaseGoesOn DEF BaseRows
    <2>4. (i + 1) + 1 = i + 2 /\ (i + 1 < Len(Table) \/ i + 2 > Len(Table))
      BY <1>1
    <2>5. RowsScanned(RowAt(i)) = 2
      BY <1>4 DEF RowsScanned
    <2> QED  BY <2>3, <2>4, <2>5
  <1>5. CASE RowAt(i).type # "CHARBUF_LEN"
    <2>1. RowsScanned(RowAt(i)) = 1
      BY <1>5 DEF RowsScanned
    <2>2. i < Len(Table) \/ i + 1 > Len(Table)
      BY <1>1
    <2> QED  BY <1>3, <2>1, <2>2
  <1> QED  BY <1>4, <1>5

LEMMA StartScanWalked ==
  ASSUME ParserInv, StartScan
  PROVE  Walked'
  <1>1. Walked /\ bytes = 0 /\ answer \in Answers /\ 0 \in StructIndexes /\ RowAt(2).nest = 0
    BY TableFacts DEF ParserInv, IdleOK, StartScan, Walked
  <1>2. FramesOK' /\ frames'[1] = Base(2)
    BY <1>1, FramesBase DEF StartScan
  <1>3. BytesOK'
    BY <1>1, <1>2, BaseFrame DEF BytesOK, StartScan
  <1> QED  BY <1>1, <1>2, <1>3 DEF Walked, StartScan, Walking

LEMMA PopulateWalked ==
  ASSUME Walked, Populate
  PROVE  Walked'
  <1>1. answer \in Answers /\ RowAt(2).nest = 0
    BY TableFacts DEF Walked
  <1>2. FramesOK' /\ frames'[1] = Base(2)
    BY <1>1, FramesBase DEF Populate
  <1>3. BytesOK'
    BY <1>1, <1>2, BaseFrame DEF BytesOK, Populate
  <1> QED  BY <1>1, <1>2, <1>3 DEF Walked, Populate, passVars, Walking

LEMMA BaseFieldWalked ==
  ASSUME Walked, BaseField
  PROVE  Walked' /\ Onward
  <1> DEFINE i == Top.i
             r == RowAt(i)
             l == i + RowsScanned(r)
  <1>1. InBase /\ MoreRows /\ r.type \in Simple /\ Readable(r, cursor) /\ SizeFits(r, cursor)
    BY DEF BaseField, BaseRow
  <1>2. i \in 1..Len(Table) /\ i \in 2..Len(Table) /\ Top = frames[1] /\ answer \in Answers
        /\ pass # "idle" /\ r.nest = 0
    BY <1>1, BaseTop DEF Walked, Simple, Texts
  <1>3. Rows(r, cursor, TRUE) = RowsScanned(r)
    BY DEF Rows, RowsScanned
  <1>4. /\ answer' = answer /\ pass' = pass /\ counted' = counted /\ carved' = carved
        /\ frames' = <<Base(l)>>
        /\ cursor' = cursor + Taken(r, cursor) /\ bytes' = bytes + Taken(r, cursor)
        /\ wanted' = wanted + StringBytes(r, cursor, TRUE) \/ wanted' = wanted
        /\ stored' = stored + StoredBytes(r, cursor) \/ stored' = stored
    BY <1>3 DEF BaseField, Storing
  <1>5. /\ Taken(r, cursor) \in Nat /\ StringBytes(r, cursor, TRUE) \in Int
        /\ StoredBytes(r, cursor) \in Nat
        /\ r.type \in {"INT4", "RC_INT4", "RS_INT4"} => Taken(r, cursor) = 4
    BY <1>1, <1>2, RowNumbers
  <1>6. l \in Nat /\ l >= 2 /\ l > i
    BY <1>2 DEF RowsScanned
  <1>7. l > Len(Table) \/ RowAt(l).nest = 0 \/ RowAt(l).type = "C_STR_STRUCT_LEN"
    BY <1>1, <1>2, BaseNext
  <1> HIDE DEF l
  <1>8. FramesOK' /\ frames'[1] = Base(l)
    BY <1>2, <1>4, <1>6, <1>7, FramesBase
  <1>9. BytesOK'
    <2> SUFFICES ASSUME NEW m \in 1..Len(Table), RowAt(m).type = "RS_INT4", l <= m
                 PROVE  bytes' = 4 * (l - 2)
      BY <1>4, <1>6, <1>8, BaseFrame, RowsSame DEF BytesOK
    <2>1. m > i /\ i <= m /\ Len(Table) \in Nat
      BY <1>2, <1>6, TableFacts
    <2>2. r.type \in {"INT4", "RC_INT4"}
      BY <1>2, <2>1, ReasonBehind
    <2>3. Taken(r, cursor) = 4 /\ l = i + 1
      BY <1>5, <2>2 DEF l, RowsScanned
    <2>4. bytes = 4 * (i - 2)
      BY <1>1, <1>2, <2>1 DEF Walked, BytesOK, InBase
    <2> QED  BY <1>2, <1>4, <2>3, <2>4, SMTT(60)
  <1>10. cursor' \in Nat /\ bytes' \in Nat /\ wanted' \in Int /\ stored' \in Nat
    <2>1. cursor \in Nat /\ bytes \in Nat /\ wanted \in Int /\ stored \in Nat
      BY DEF Walked
    <2>2. /\ Taken(r, cursor) \in Nat /\ StringBytes(r, cursor, TRUE) \in Int
          /\ StoredBytes(r, cursor) \in Nat
      BY <1>5
    <2>3. /\ cursor' = cursor + Taken(r, cursor) /\ bytes' = bytes + Taken(r, cursor)
          /\ wanted' = wanted + StringBytes(r, cursor, TRUE) \/ wanted' = wanted
          /\ stored' = stored + StoredBytes(r, cursor) \/ stored' = stored
      BY <1>4
    <2>4. cursor' \in Nat /\ bytes' \in Nat
      BY <2>1, <2>2, <2>3
    <2>5. wanted' \in Int
      <3> DEFINE u == StringBytes(r, cursor, TRUE)
      <3>1. wanted \in Int /\ u \in Int /\ (wanted' = wanted + u \/ wanted' = wanted)
        BY <2>1, <2>2, <2>3
      <3> HIDE DEF u
      <3> QED  BY <3>1
    <2>6. stored' \in Nat
      BY <2>1, <2>2, <2>3
    <2> QED  BY <2>4, <2>5, <2>6
  <1>11. Onward
    BY <1>2, <1>6, <1>8, BaseFrame DEF Onward
  <1> QED  BY <1>4, <1>8, <1>9, <1>10, <1>11 DEF Walked

(* The length in front of an error buffer is part of the answer. *)
LEMMA ErrorsFit ==
  ASSUME Walked, BaseRow({"RS_INT4"}), TakesErrors
  PROVE  /\ ErrorBytes \in Nat
         /\ answer.errors = "with length" => ErrorBytes - 4 \in Nat
         /\ Top.i \in 2..Len(Table) /\ RowAt(Top.i).nest = 0
  <1>1. InBase /\ MoreRows /\ RowAt(Top.i).type = "RS_INT4"
    BY DEF BaseRow
  <1>2. Top.i \in 1..Len(Table) /\ Top.i \in 2..Len(Table) /\ Top = frames[1] /\ answer \in Answers
        /\ RowAt(Top.i).nest = 0 /\ answer.size \in Nat /\ bytes \in Nat
    BY <1>1, BaseTop, TableFacts DEF Walked
  <1>3. bytes = 4 * (Top.i - 2)
    BY <1>1, <1>2 DEF Walked, BytesOK, InBase
  <1>4. bytes + 4 < answer.size /\ ErrorBytes = answer.size - (bytes + 4)
    BY DEF TakesErrors, ErrorBytes
  <1>5. answer.errors = "with length" => answer.size - 4 * (Top.i - 1) \notin 1..3
    BY <1>1, <1>2, AnswersAssumption DEF TakesErrors, ErrorBuffer, Table, RowAt
  <1>6. 4 * (Top.i - 1) = bytes + 4
    BY <1>2, <1>3
  <1>7. ErrorBytes \in Nat /\ ErrorBytes > 0
    BY <1>2, <1>4
  <1>8. answer.errors = "with length" => ErrorBytes \notin 1..3
    BY <1>4, <1>5, <1>6
  <1>9. ASSUME answer.errors = "with length" PROVE ErrorBytes - 4 \in Nat
    <2>1. ErrorBytes \notin 1..3
      BY <1>8, <1>9
    <2> QED  BY <1>7, <2>1
  <1> QED  BY <1>2, <1>7, <1>9

LEMMA BaseErrorsWalked ==
  ASSUME Walked, BaseErrors
  PROVE  Walked' /\ Onward
  <1> DEFINE i == Top.i
             l == i + 1
  <1>1. InBase /\ MoreRows /\ RowAt(i).type = "RS_INT4" /\ BaseRow({"RS_INT4"}) /\ TakesErrors
    BY DEF BaseErrors, BaseRow
  <1>2. i \in 1..Len(Table) /\ i \in 2..Len(Table) /\ Top = frames[1] /\ answer \in Answers
        /\ pass # "idle" /\ RowAt(i).nest = 0 /\ answer.size \in Nat
    BY <1>1, BaseTop, TableFacts DEF Walked
  <1>3. /\ ErrorBytes \in Nat
        /\ answer.errors = "with length" => ErrorBytes - 4 \in Nat
    BY <1>1, ErrorsFit
  <1>4. /\ answer' = answer /\ pass' = pass /\ counted' = counted /\ carved' = carved
        /\ frames' = <<Base(l)>> /\ bytes' = answer.size
        /\ cursor' = cursor + 4 \/ cursor' = cursor + 4 + 4
        /\ wanted' = wanted \/ wanted' = wanted + ErrorBytes
    <2>1. answer' = answer /\ pass' = pass /\ counted' = counted /\ carved' = carved
          /\ frames' = <<Base(l)>> /\ bytes' = answer.size
          /\ (wanted' = wanted \/ wanted' = wanted + ErrorBytes)
      BY DEF BaseErrors
    <2>2. cursor' = cursor + 4 + 0 \/ cursor' = cursor + 4 + 4
      BY DEF BaseErrors
    <2>3. cursor + 4 + 0 = cursor + 4
      BY DEF Walked
    <2> QED  BY <2>1, <2>2, <2>3
  <1>5. i + 1 \in Nat /\ i + 1 >= 2 /\ RowsScanned(RowAt(i)) = 1
    BY <1>1, <1>2 DEF RowsScanned
  <1>6. l > Len(Table) \/ RowAt(l).nest = 0 \/ RowAt(l).type = "C_STR_STRUCT_LEN"
    BY <1>1, <1>2, <1>5, BaseNext DEF Simple
  <1>10. l \in Nat /\ l >= 2
    BY <1>5
  <1> HIDE DEF l
  <1>7. FramesOK' /\ frames'[1] = Base(l)
    BY <1>2, <1>4, <1>6, <1>10, FramesBase
  <1>8. BytesOK'
    <2> SUFFICES ASSUME NEW m \in 1..Len(Table), RowAt(m).type = "RS_INT4", l <= m
                 PROVE  FALSE
      BY <1>4, <1>7, <1>10, BaseFrame, RowsSame DEF BytesOK
    <2>1. m <= i
      BY <1>1, <1>2, ReasonBehind
    <2> QED  BY <1>2, <2>1 DEF l
  <1>9. wanted' \in Int /\ stored' \in Nat /\ cursor' \in Nat /\ bytes' \in Nat
    <2>1. wanted \in Int /\ stored \in Nat /\ cursor \in Nat
      BY DEF Walked
    <2>2. ErrorBytes \in Nat /\ answer.size \in Nat
      BY <1>2, <1>3
    <2>3. stored' \in Nat
      <3>1. stored' = stored \/ \E n : n \in Nat /\ stored' = stored + n
        <4>1. CASE answer.errors = "with length"
          <5>1. stored' = stored \/ stored' = stored + (ErrorBytes - 4) \/ stored' = stored + 0
            BY <4>1 DEF BaseErrors
          <5> QED  BY <1>3, <4>1, <5>1
        <4>2. CASE answer.errors # "with length"
          <5>1. stored' = stored \/ stored' = stored + (ErrorBytes - 0) \/ stored' = stored + 0
            BY <4>2 DEF BaseErrors
          <5>2. ErrorBytes - 0 \in Nat
            BY <2>2
          <5> QED  BY <5>1, <5>2
        <4> QED  BY <4>1, <4>2
      <3> QED  BY <2>1, <3>1
    <2>4. wanted' = wanted \/ wanted' = wanted + ErrorBytes
      BY <1>4
    <2>5. (cursor' = cursor + 4 \/ cursor' = cursor + 4 + 4) /\ bytes' = answer.size
      BY <1>4
    <2> QED  BY <2>1, <2>2, <2>3, <2>4, <2>5
  <1>11. Onward
    BY <1>2, <1>7, <1>10, BaseFrame DEF Onward, l
  <1> QED  BY <1>4, <1>7, <1>8, <1>9, <1>11 DEF Walked

LEMMA BaseSkipWalked ==
  ASSUME Walked, BaseSkip
  PROVE  Walked' /\ Onward
  <1> DEFINE i == Top.i
  <1>1. InBase /\ MoreRows /\ RowAt(i).type \in {"ERROR_BUFF_LEN", "ERROR_BUFF_PTR"}
    BY DEF BaseSkip, BaseRow
  <1>2. i \in 1..Len(Table) /\ i \in 2..Len(Table) /\ Top = frames[1] /\ answer \in Answers
        /\ pass # "idle" /\ RowAt(i).nest = 0
    BY <1>1, BaseTop DEF Walked
  <1>4. /\ answer' = answer /\ pass' = pass /\ counted' = counted /\ carved' = carved
        /\ frames' = <<Base(i + 1)>> /\ bytes' = bytes /\ cursor' = cursor
        /\ wanted' = wanted /\ stored' = stored
    BY DEF BaseSkip, passVars
  <1>5. i + 1 \in Nat /\ i + 1 >= 2 /\ RowsScanned(RowAt(i)) = 1
    BY <1>1, <1>2 DEF RowsScanned
  <1>6. i + 1 > Len(Table) \/ RowAt(i + 1).nest = 0 \/ RowAt(i + 1).type = "C_STR_STRUCT_LEN"
    BY <1>1, <1>2, <1>5, BaseNext
  <1>7. FramesOK' /\ frames'[1] = Base(i + 1)
    <2> DEFINE l == i + 1
    <2> HIDE DEF l
    <2> QED  BY <1>2, <1>4, <1>5, <1>6, FramesBase DEF l
  <1>8. BytesOK'
    <2> SUFFICES ASSUME NEW m \in 1..Len(Table), RowAt(m).type = "RS_INT4", i + 1 <= m
                 PROVE  FALSE
      BY <1>4, <1>5, <1>7, BaseFrame, RowsSame DEF BytesOK
    <2>1. m <= i
      BY <1>1, <1>2, ReasonBehind
    <2> QED  BY <1>2, <2>1
  <1>9. Onward
    BY <1>2, <1>5, <1>7, BaseFrame DEF Onward
  <1> QED  BY <1>2, <1>4, <1>7, <1>8, <1>9 DEF Walked

LEMMA SameFrames ==
  ASSUME Walked, answer' = answer, pass # "idle", pass' # "idle", frames' = frames
  PROVE  FramesOK'
  <1>1. /\ frames \in Seq(Frame) /\ Len(frames) >= 1 /\ BaseOK(frames[1])
        /\ \A m \in 2..Len(frames) : ArrayOK(m)
    BY DEF Walked, FramesOK
  <1>2. BaseOK(frames[1])'
    BY <1>1, RowsSame DEF BaseOK
  <1>3. ASSUME NEW m \in 2..Len(frames) PROVE ArrayOK(m)'
    BY <1>1, RowsSame DEF ArrayOK
  <1> QED  BY <1>1, <1>2, <1>3 DEF FramesOK

LEMMA CountedOn ==
  ASSUME Walked, NEW x \in StructIndexes
  PROVE  /\ counted \in [StructIndexes -> Nat] /\ carved \in [StructIndexes -> Nat]
         /\ [counted EXCEPT ![x] = @ + 1] \in [StructIndexes -> Nat]
         /\ [carved EXCEPT ![x] = @ + 1] \in [StructIndexes -> Nat]
  <1>1. counted \in [StructIndexes -> Nat] /\ carved \in [StructIndexes -> Nat]
    BY DEF Walked
  <1>2. counted[x] + 1 \in Nat /\ carved[x] + 1 \in Nat
    BY <1>1
  <1> QED  BY <1>1, <1>2

LEMMA SameStart ==
  ASSUME Walked, pass # "idle", frames'[1] = frames[1]
  PROVE  Onward
  <1>1. frames[1] \in Frame
    BY FramesAre
  <1> QED  BY <1>1 DEF Frame, Onward

LEMMA BaseStringsWalked ==
  ASSUME Walked, BaseStrings
  PROVE  Walked' /\ Onward
  <1> DEFINE i == Top.i
             n == Value(cursor) + 1
             x == RowAt(i + 2).index
  <1>1. InBase /\ MoreRows /\ RowAt(i).type = "C_STR_ARRAY_PTR" /\ IsStrings(i)
        /\ Has(cursor, "cstring")
    BY DEF BaseStrings, BaseRow
  <1>2. i \in 1..Len(Table) /\ i \in 2..Len(Table) /\ Top = frames[1] /\ answer \in Answers
        /\ pass # "idle" /\ Len(Table) \in Nat
    BY <1>1, BaseTop, TableFacts DEF Walked
  <1>3. n \in Nat
    BY <1>1, <1>2, TableFacts DEF Has, Value
  <1>4. x \in StructIndexes
    <2>1. i + 2 \in 1..Len(Table)
      BY <1>1, <1>2 DEF IsStrings
    <2> QED  BY <1>2, <2>1, RowFacts
  <1> HIDE DEF n, x
  <1>5. /\ answer' = answer /\ pass' = pass /\ frames' = frames
        /\ cursor' = cursor + n /\ bytes' = bytes + n
        /\ wanted' = wanted + n \/ wanted' = wanted
        /\ stored' = stored + n \/ stored' = stored
        /\ counted' = [counted EXCEPT ![x] = @ + 1] \/ counted' = counted
        /\ carved' = [carved EXCEPT ![x] = @ + 1] \/ carved' = carved
    BY DEF BaseStrings, n, x
  <1>6. counted' \in [StructIndexes -> Nat] /\ carved' \in [StructIndexes -> Nat]
    BY <1>4, <1>5, CountedOn
  <1>7. FramesOK'
    BY <1>2, <1>5, SameFrames
  <1>8. BytesOK'
    <2> SUFFICES ASSUME NEW m \in 1..Len(Table), RowAt(m).type = "RS_INT4", i <= m
                 PROVE  FALSE
      BY <1>2, <1>5, RowsSame DEF BytesOK
    <2>1. m <= i
      BY <1>1, <1>2, ReasonBehind
    <2>2. m = i
      BY <1>2, <2>1
    <2> QED  BY <1>1, <2>2
  <1>9. Onward
    BY <1>2, <1>5, SameStart
  <1> QED  BY <1>2, <1>3, <1>5, <1>6, <1>7, <1>8, <1>9 DEF Walked

(* A step that goes on in the same row of the base structure. *)
LEMMA SameBytes ==
  ASSUME Walked, answer' = answer, pass' = pass, frames'[1] = frames[1], bytes' = bytes
  PROVE  BytesOK'
  <1>1. BytesOK
    BY DEF Walked
  <1> QED  BY <1>1, RowsSame DEF BytesOK

LEMMA EnterListWalked ==
  ASSUME Walked, EnterList
  PROVE  Walked' /\ Onward
  <1> DEFINE i == Top.i
             r == RowAt(i)
             s == FirstRow(i)
             limit == IF r.type = "ARRAY_NO_LENGTH" THEN answer.size - bytes ELSE Value(cursor)
             c == IF r.type = "ARRAY_COUNT" THEN "counted" ELSE "sized"
             last == LastRow(i, s)
             f == [Base(s) EXCEPT !.call = c, !.start = s, !.last = last,
                                  !.limit = limit, !.from = cursor]
  <1>1. pass # "idle" /\ answer \in Answers /\ i \in 1..Len(Table) /\ r.type \in Lists
        /\ (Top.call # "base" => Top.open /\ Top.i <= Top.last)
    <2>1. CASE BaseRow(Lists)
      <3>1. InBase /\ MoreRows /\ r.type \in Lists
        BY <2>1 DEF BaseRow
      <3> QED  BY <3>1, BaseTop DEF Walked, InBase
    <2>2. CASE StructRow({"ARRAY_LEN", "ARRAY_COUNT"})
      <3>1. pass # "idle" /\ Top.call # "base" /\ Top.open /\ ~StructEnds /\ r.type \in Lists
        BY <2>2 DEF StructRow, InStruct, Walking, Lists
      <3> QED  BY <3>1, ArrayTop DEF Walked
    <2> QED  BY <2>1, <2>2 DEF EnterList
  <1>2. /\ answer' = answer /\ pass' = pass /\ bytes' = bytes
        /\ wanted' = wanted /\ stored' = stored /\ counted' = counted /\ carved' = carved
        /\ cursor' = cursor \/ cursor' = cursor + 4
        /\ frames' = Append(frames, f)
        /\ r.type = "ARRAY_NO_LENGTH" \/ Has(cursor, "int")
    BY DEF EnterList, passVars
  <1>3. s \in Nat /\ LastRow(i, s) \in Nat
    BY <1>1, ArrayRows, TableFacts
  <1>4. limit \in Int
    BY <1>1, <1>2, TableFacts DEF Has, Value, Walked
  <1>5. f \in Frame /\ f.call # "base" /\ f.start = s /\ f.last = LastRow(i, s) /\ ~f.open
    <2>1. c \in {"sized", "counted"} /\ c # "base" /\ cursor \in Int
      BY DEF Walked
    <2>2. s \in Nat /\ last \in Nat /\ limit \in Int
      BY <1>3, <1>4
    <2> HIDE DEF s, c, last, limit
    <2>3. f \in Frame /\ f.call = c /\ f.start = s /\ f.last = last /\ ~f.open
      <3>1. c \in {"sized", "counted"} /\ cursor \in Int
        BY <2>1
      <3> DEFINE b == Base(s)
      <3>2. b \in Frame
        BY <2>2, BaseFrame
      <3>3. ~b.open
        BY DEF Base
      <3> HIDE DEF b
      <3>4. [b EXCEPT !.call = c, !.start = s, !.last = last, !.limit = limit, !.from = cursor]
              \in Frame
        BY <2>2, <3>1, <3>2 DEF Frame
      <3>5. LET h == [b EXCEPT !.call = c, !.start = s, !.last = last, !.limit = limit,
                               !.from = cursor] IN
            h.call = c /\ h.start = s /\ h.last = last /\ ~h.open
        BY <3>2, <3>3 DEF Frame
      <3> QED  BY <3>4, <3>5 DEF b
    <2> QED  BY <2>1, <2>3 DEF last
  <1> HIDE DEF f
  <1>6. FramesOK' /\ frames'[1] = frames[1]
    BY <1>1, <1>2, <1>5, FramesEntered
  <1>7. BytesOK'
    BY <1>2, <1>6, SameBytes
  <1>8. Onward
    BY <1>1, <1>6, SameStart
  <1> QED  BY <1>2, <1>6, <1>7, <1>8 DEF Walked

LEMMA OpenStructWalked ==
  ASSUME Walked, OpenStruct
  PROVE  Walked' /\ Onward
  <1> DEFINE x == HeadRow.index
             i == Top.start + 1
             size == IF Implied THEN 0 ELSE Value(cursor)
             g == [Top EXCEPT !.open = TRUE, !.implied = Implied, !.i = i, !.used = 0,
                              !.size = size]
  <1>1. pass # "idle" /\ answer \in Answers /\ Top.call # "base" /\ Top \in Frame
        /\ Top.start \in 1..Len(Table)
    <2>1. pass # "idle" /\ Top.call # "base"
      BY DEF OpenStruct, NextStruct, InList, Walking
    <2> QED  BY <2>1, ArrayTop DEF Walked
  <1>2. x \in StructIndexes
    BY <1>1, RowFacts DEF HeadRow
  <1> HIDE DEF x
  <1>3. /\ answer' = answer /\ pass' = pass /\ bytes' = bytes
        /\ wanted' = wanted /\ stored' = stored
        /\ counted' = [counted EXCEPT ![x] = @ + 1] \/ counted' = counted
        /\ carved' = [carved EXCEPT ![x] = @ + 1] \/ carved' = carved
        /\ cursor' = cursor \/ cursor' = cursor + 4
        /\ frames' = Append(Under, g)
        /\ Implied \/ Has(cursor, "int")
    BY DEF OpenStruct, x
  <1>4. ~Implied => Value(cursor) \in Nat
    BY <1>1, <1>3, TableFacts DEF Has, Value
  <1>5. g \in Frame /\ g.call = Top.call /\ g.start = Top.start /\ g.last = Top.last
        /\ g.i > g.start
    <2>1. i \in Nat /\ i > Top.start
      BY <1>1 DEF Frame
    <2>2. Implied \in BOOLEAN /\ size \in Int
      BY <1>4 DEF Implied
    <2> HIDE DEF i, size
    <2>3. g \in Frame /\ g.call = Top.call /\ g.start = Top.start /\ g.last = Top.last /\ g.i = i
      <3>1. Top \in Frame
        BY <1>1
      <3>2. i \in Nat
        BY <2>1
      <3>3. 0 \in Int
        OBVIOUS
      <3>4. g \in Frame
        BY <2>2, <3>1, <3>2, <3>3, Zenon DEF Frame
      <3>5. g.call = Top.call /\ g.start = Top.start /\ g.last = Top.last /\ g.i = i
        BY <2>2, <3>1, <3>2 DEF Frame
      <3> QED  BY <3>4, <3>5
    <2> QED  BY <2>1, <2>3
  <1> HIDE DEF g
  <1>6. FramesOK' /\ frames'[1] = frames[1]
    BY <1>1, <1>3, <1>5, FramesReplaced
  <1>7. BytesOK'
    BY <1>3, <1>6, SameBytes
  <1>8. counted' \in [StructIndexes -> Nat] /\ carved' \in [StructIndexes -> Nat]
    BY <1>2, <1>3, CountedOn
  <1>9. Onward
    BY <1>1, <1>6, SameStart
  <1> QED  BY <1>3, <1>6, <1>7, <1>8, <1>9 DEF Walked

LEMMA SkipStructWalked ==
  ASSUME Walked, SkipStruct
  PROVE  Walked' /\ Onward
  <1>1. /\ answer' = answer /\ pass' = pass /\ bytes' = bytes /\ frames' = frames
        /\ wanted' = wanted /\ stored' = stored /\ counted' = counted /\ carved' = carved
        /\ cursor' = cursor + 4 /\ pass # "idle"
    BY DEF SkipStruct, passVars, NextStruct, InList, Walking
  <1>2. FramesOK'
    BY <1>1, SameFrames
  <1>3. BytesOK'
    BY <1>1, SameBytes
  <1>4. Onward
    BY <1>1, SameStart
  <1> QED  BY <1>1, <1>2, <1>3, <1>4 DEF Walked

LEMMA StructFieldWalked ==
  ASSUME Walked, StructField
  PROVE  Walked' /\ Onward
  <1> DEFINE i == Top.i
             r == RowAt(i)
             to == Top.i + Rows(r, cursor, FALSE)
             used == Top.used + Taken(r, cursor)
             g == [Top EXCEPT !.i = to, !.used = used]
  <1>1. pass \in Walking /\ Top.call # "base" /\ Top.open /\ ~StructEnds /\ r.type \in Simple
        /\ Readable(r, cursor) /\ SizeFits(r, cursor)
    BY DEF StructField, StructRow, InStruct
  <1>2. pass # "idle" /\ answer \in Answers /\ Top \in Frame /\ i \in 1..Len(Table)
        /\ frames[1].i \in 2..Len(Table) /\ RowAt(frames[1].i).type \in Lists
        /\ Len(frames) >= 2
    BY <1>1, ArrayTop DEF Walked, Walking
  <1>3. /\ answer' = answer /\ pass' = pass /\ counted' = counted /\ carved' = carved
        /\ frames' = Append(Under, g)
        /\ cursor' = cursor + Taken(r, cursor)
        /\ bytes' = IF r.type = "FIXED_STR_PTR" THEN bytes + r.max ELSE bytes
        /\ wanted' = wanted + StringBytes(r, cursor, FALSE) \/ wanted' = wanted
        /\ stored' = stored + StoredBytes(r, cursor) \/ stored' = stored
    BY DEF StructField, Storing
  <1>4. /\ Taken(r, cursor) \in Nat /\ StringBytes(r, cursor, FALSE) \in Int
        /\ StoredBytes(r, cursor) \in Nat /\ (r.type = "FIXED_STR_PTR" => r.max \in Nat)
    BY <1>1, <1>2, RowNumbers
  <1>5. Rows(r, cursor, FALSE) \in 1..2
    BY DEF Rows
  <1>6. Top.i > Top.start
    <2>1. ArrayOK(Len(frames))
      <3>1. Len(frames) \in 2..Len(frames)
        BY <1>2, FramesAre
      <3> QED  BY <3>1 DEF Walked, FramesOK
    <2> QED  BY <1>1, <2>1 DEF ArrayOK, Top
  <1>7. g \in Frame /\ g.call = Top.call /\ g.start = Top.start /\ g.last = Top.last
        /\ g.i > g.start
    <2>1. to \in Nat /\ to > Top.start /\ used \in Int
      <3>1. Top.i \in Nat /\ Top.start \in Nat /\ Top.used \in Int
        BY <1>2 DEF Frame
      <3>2. Taken(r, cursor) \in Nat
        BY <1>4
      <3> DEFINE a == Rows(r, cursor, FALSE)
                 b == Taken(r, cursor)
      <3>3. a \in 1..2 /\ b \in Nat
        BY <1>5, <3>2
      <3> HIDE DEF a, b
      <3>4. to = Top.i + a /\ used = Top.used + b
        BY DEF a, b
      <3> HIDE DEF to, used
      <3> QED  BY <1>6, <3>1, <3>3, <3>4
    <2> HIDE DEF to, used
    <2>2. g \in Frame /\ g.call = Top.call /\ g.start = Top.start /\ g.last = Top.last /\ g.i = to
      <3>1. Top \in Frame
        BY <1>2
      <3>2. to \in Nat /\ used \in Int
        BY <2>1
      <3> QED  BY <3>1, <3>2, Moved, ZenonT(60)
    <2> QED  BY <2>1, <2>2
  <1> HIDE DEF g
  <1>8. FramesOK' /\ frames'[1] = frames[1]
    BY <1>1, <1>2, <1>3, <1>7, FramesReplaced
  <1>9. BytesOK'
    <2> SUFFICES ASSUME NEW m \in 1..Len(Table), RowAt(m).type = "RS_INT4", frames[1].i <= m
                 PROVE  FALSE
      BY <1>3, <1>8, RowsSame DEF BytesOK
    <2>1. m <= frames[1].i
      BY <1>2, ReasonBehind DEF Lists
    <2>2. m = frames[1].i
      BY <1>2, <2>1
    <2> QED  BY <1>2, <2>2 DEF Lists
  <1>10. cursor' \in Nat /\ bytes' \in Nat /\ wanted' \in Int /\ stored' \in Nat
    <2>1. cursor \in Nat /\ bytes \in Nat /\ wanted \in Int /\ stored \in Nat
      BY DEF Walked
    <2>2. Taken(r, cursor) \in Nat /\ StringBytes(r, cursor, FALSE) \in Int
          /\ StoredBytes(r, cursor) \in Nat
      BY <1>4
    <2>3. bytes' = bytes \/ \E n \in Nat : bytes' = bytes + n
      BY <1>3, <1>4
    <2>4. /\ cursor' = cursor + Taken(r, cursor)
          /\ wanted' = wanted + StringBytes(r, cursor, FALSE) \/ wanted' = wanted
          /\ stored' = stored + StoredBytes(r, cursor) \/ stored' = stored
      BY <1>3
    <2>5. cursor' \in Nat /\ bytes' \in Nat
      BY <2>1, <2>2, <2>3, <2>4
    <2>6. wanted' \in Int
      <3> DEFINE u == StringBytes(r, cursor, FALSE)
      <3>1. wanted \in Int /\ u \in Int /\ (wanted' = wanted + u \/ wanted' = wanted)
        BY <2>1, <2>2, <2>4
      <3> HIDE DEF u
      <3> QED  BY <3>1
    <2>7. stored' \in Nat
      BY <2>1, <2>2, <2>4
    <2> QED  BY <2>5, <2>6, <2>7
  <1>11. Onward
    BY <1>2, <1>8, SameStart
  <1> QED  BY <1>3, <1>8, <1>9, <1>10, <1>11 DEF Walked

LEMMA CloseStructWalked ==
  ASSUME Walked, CloseStruct
  PROVE  Walked' /\ Onward
  <1> DEFINE g == [Top EXCEPT !.open = FALSE, !.n = @ + StructUsed(Top)]
  <1>1. pass # "idle" /\ Top.call # "base" /\ Top \in Frame
    <2>1. pass # "idle" /\ Top.call # "base"
      BY DEF CloseStruct, InStruct, Walking
    <2> QED  BY <2>1, ArrayTop
  <1>2. /\ answer' = answer /\ pass' = pass /\ bytes' = bytes /\ cursor' = cursor
        /\ wanted' = wanted /\ stored' = stored /\ counted' = counted /\ carved' = carved
        /\ frames' = Append(Under, g)
    BY DEF CloseStruct, passVars
  <1>3. StructUsed(Top) \in Int
    BY <1>1 DEF StructUsed, Frame
  <1>4. g \in Frame /\ g.call = Top.call /\ g.start = Top.start /\ g.last = Top.last /\ ~g.open
    <2> DEFINE u == StructUsed(Top)
    <2> HIDE DEF u
    <2>1. u \in Int
      BY <1>3 DEF u
    <2>2. LET h == [Top EXCEPT !.open = FALSE, !.n = @ + u] IN
          h \in Frame /\ h.call = Top.call /\ h.start = Top.start /\ h.last = Top.last /\ ~h.open
      <3>1. Top.n + u \in Int
        BY <1>1, <2>1 DEF Frame
      <3> QED  BY <1>1, <3>1, Closed
    <2> QED  BY <2>2 DEF u
  <1> HIDE DEF g
  <1>5. FramesOK' /\ frames'[1] = frames[1]
    BY <1>1, <1>2, <1>4, FramesReplaced
  <1>6. BytesOK'
    BY <1>2, <1>5, SameBytes
  <1>7. Onward
    BY <1>1, <1>5, SameStart
  <1> QED  BY <1>2, <1>5, <1>6, <1>7 DEF Walked

LEMMA LeaveListWalked ==
  ASSUME Walked, LeaveList
  PROVE  Walked' /\ Onward
  <1> DEFINE c == Under[Len(Under)]
             q == SubSeq(Under, 1, Len(Under) - 1)
             to == Top.last + 1
             used == c.used + (cursor - Top.from)
             g == [c EXCEPT !.i = to, !.used = used]
  <1>1. pass \in Walking /\ pass # "idle" /\ Top.call # "base" /\ answer \in Answers
    BY DEF LeaveList, InList, Walking, Walked
  <1>2. Top \in Frame /\ Top.last \in Nat /\ Len(frames) >= 2 /\ Len(frames) \in Nat
        /\ frames[1].i \in 2..Len(Table) /\ RowAt(frames[1].i).type \in Lists
        /\ Under \in Seq(Frame) /\ Len(Under) = Len(frames) - 1
        /\ \A m \in 1..(Len(frames) - 1) : Under[m] = frames[m]
    BY <1>1, ArrayTop, FramesAre
  <1>3. Len(Under) >= 1
    BY <1>2
  <1>4. c \in Frame /\ q \in Seq(Frame) /\ Len(q) = Len(Under) - 1
        /\ \A m \in 1..(Len(Under) - 1) : q[m] = Under[m]
    BY <1>2, <1>3, Popped
  <1>5. /\ answer' = answer /\ pass' = pass /\ bytes' = bytes /\ cursor' = cursor
        /\ wanted' = wanted /\ stored' = stored /\ counted' = counted /\ carved' = carved
        /\ frames' = Append(q, g)
    BY DEF LeaveList, passVars
  <1> HIDE DEF q
  <1>6. g \in Frame /\ g.call = c.call /\ g.start = c.start /\ g.last = c.last
        /\ g.open = c.open /\ g.i = Top.last + 1
    <2>1. to \in Nat /\ used \in Int
      <3>1. Top.from \in Int /\ cursor \in Nat /\ c.used \in Int
        BY <1>2, <1>4 DEF Walked, Frame
      <3> QED  BY <1>2, <3>1, SMTT(60)
    <2> HIDE DEF to, used, c
    <2>2. /\ g \in Frame /\ g.call = c.call /\ g.start = c.start /\ g.last = c.last
          /\ g.open = c.open /\ g.i = to
      <3>1. c \in Frame
        BY <1>4
      <3>2. g \in Frame /\ g.call = c.call /\ g.start = c.start /\ g.last = c.last /\ g.i = to
        BY <2>1, <3>1, Moved, ZenonT(60)
      <3>3. g.open = c.open
        BY <2>1, <3>1 DEF Frame
      <3> QED  BY <3>2, <3>3
    <2> QED  BY <2>2 DEF to
  <1> HIDE DEF g
  <1>7. Len(q) = Len(frames) - 2 /\ \A m \in 1..(Len(frames) - 2) : q[m] = frames[m]
    <2>1. Len(frames) \in Nat /\ Len(Under) = Len(frames) - 1 /\ Len(q) = Len(Under) - 1
      BY <1>2, <1>4
    <2>2. \A m \in 1..(Len(frames) - 1) : Under[m] = frames[m]
      BY <1>2
    <2>3. \A m \in 1..(Len(Under) - 1) : q[m] = Under[m]
      BY <1>4
    <2>4. Len(q) = Len(frames) - 2
      BY <2>1
    <2>5. ASSUME NEW m \in 1..(Len(frames) - 2) PROVE q[m] = frames[m]
      <3>1. m \in 1..(Len(frames) - 1) /\ m \in 1..(Len(Under) - 1)
        BY <2>1
      <3> QED  BY <2>2, <2>3, <3>1
    <2> QED  BY <2>4, <2>5
  <1>8. /\ FramesOK'
        /\ Len(frames) >= 3 => frames'[1] = frames[1]
        /\ Len(frames) < 3 => frames'[1] = g /\ g.i > frames[1].i
    BY <1>1, <1>4, <1>5, <1>6, <1>7, FramesLeft
  <1>9. BytesOK'
    <2>1. CASE Len(frames) >= 3
      BY <1>5, <1>8, <2>1, SameBytes
    <2>2. CASE Len(frames) < 3
      <3> SUFFICES ASSUME NEW m \in 1..Len(Table), RowAt(m).type = "RS_INT4", g.i <= m
                   PROVE  FALSE
        BY <1>5, <1>8, <2>2, RowsSame DEF BytesOK
      <3>1. m <= frames[1].i
        BY <1>1, <1>2, ReasonBehind DEF Lists
      <3>2. g.i \in Nat
        BY <1>6 DEF Frame
      <3> QED  BY <1>2, <1>8, <2>2, <3>1, <3>2
    <2> QED  BY <1>2, <2>1, <2>2
  <1>10. Onward
    <2>1. CASE Len(frames) >= 3
      BY <1>1, <1>8, <2>1, SameStart
    <2>2. CASE Len(frames) < 3
      <3>1. g.i \in Nat /\ frames[1].i \in Nat
        <4>1. g \in Frame /\ frames[1] \in Frame
          BY <1>1, <1>6, FramesAre
        <4> QED  BY <4>1 DEF Frame
      <3> QED  BY <1>8, <2>2, <3>1 DEF Onward
    <2> QED  BY <1>2, <2>1, <2>2
  <1> QED  BY <1>5, <1>8, <1>9, <1>10 DEF Walked

(* The end of a pass, and a parse that fails. *)
LEMMA EndWalked ==
  ASSUME Walked, PassEnds \/ NoMemory \/ BadTable \/ BadSize \/ Misread
  PROVE  Walked'
  <1>1. /\ answer' = answer /\ bytes' = bytes /\ cursor' = cursor /\ frames' = frames
        /\ wanted' = wanted /\ stored' = stored /\ counted' = counted /\ carved' = carved
        /\ pass' \in {"allocate"} \cup Parsed
    BY DEF PassEnds, NoMemory, BadTable, BadSize, Misread, Fail, passVars, Parsed
  <1>2. pass # "idle"
    BY DEF PassEnds, NoMemory, BadTable, BadSize, Misread, InBase, BaseRow, InStruct, StructRow,
           NextStruct, InList, Walking
  <1>3. pass' # "idle" /\ pass' \notin Walking
    BY <1>1 DEF Parsed, Walking
  <1>4. FramesOK'
    BY <1>1, <1>2, <1>3, SameFrames
  <1>5. BytesOK'
    BY <1>3 DEF BytesOK, Walking
  <1> QED  BY <1>1, <1>4, <1>5 DEF Walked

LEMMA StepWalked ==
  ASSUME ParserInv, ParserStep
  PROVE  Walked'
  <1>1. Walked
    BY DEF ParserInv
  <1>2. CASE StartScan
    BY <1>2, StartScanWalked
  <1> QED  BY <1>1, <1>2, BaseFieldWalked, BaseErrorsWalked, BaseSkipWalked, BaseStringsWalked,
              PopulateWalked, EnterListWalked, OpenStructWalked, SkipStructWalked,
              StructFieldWalked, CloseStructWalked, LeaveListWalked, EndWalked DEF ParserStep

-----------------------------------------------------------------------------
(* What the answer alone decides stays. *)

LEMMA EntersSame ==
  ASSUME answer' = answer, NEW c, NEW d
  PROVE  Enters(c, d)' <=> Enters(c, d)
  <1>1. \A i, s : LastRow(i, s)' = LastRow(i, s)
    BY RowsSame
  <1> QED  BY <1>1 DEF Enters, Keeps, Goes, RowAt, Table, FirstRow, Value, Last1

LEMMA BaseSame ==
  ASSUME answer' = answer, NEW c, NEW d
  PROVE  ScansBase(c, d)' <=> ScansBase(c, d)
  BY EntersSame, ZenonT(60) DEF ScansBase, Keeps, Goes, Counts, RowAt, Table, Value, Last1, Errors, Taken,
     StringBytes, TakesOff, TextLength

LEMMA ArraySame ==
  ASSUME answer' = answer, NEW c, NEW d
  PROVE  ScansArray(c, d)' <=> ScansArray(c, d)
  BY DEF ScansArray, Keeps, Goes, Counts, RowAt, Table, Value, Last1, Below

LEMMA StructSame ==
  ASSUME answer' = answer, NEW c, NEW d
  PROVE  ScansStruct(c, d)' <=> ScansStruct(c, d)
  BY EntersSame DEF ScansStruct, Keeps, Goes, RowAt, Table, Value, Last1, Below, Taken,
     StringBytes, TextLength

LEMMA ScansSame ==
  ASSUME answer' = answer, NEW c, NEW d
  PROVE  Scans(c, d)' <=> Scans(c, d)
  BY BaseSame, ArraySame, StructSame DEF Scans, AtBase, Last1

LEMMA EndSame ==
  ASSUME answer' = answer, NEW c
  PROVE  (EndOfScan(c)' <=> EndOfScan(c)) /\ (OwedOK(c)' <=> OwedOK(c))
  BY DEF EndOfScan, OwedOK, AtBase, Last1, Table

LEMMA PathSame ==
  ASSUME answer' = answer, NEW s, NEW n, Path(s, n)
  PROVE  Path(s, n)'
  BY ScansSame DEF Path, FirstPlace, Least, Place

-----------------------------------------------------------------------------
(* The scan goes from place to place. *)

LEMMA PlaceTypes ==
  ASSUME NEW c \in Place
  PROVE  /\ c.cursor \in Nat /\ c.bytes \in Nat /\ c.frames \in Seq(Frame)
         /\ c.wanted \in Int /\ c.owed \in {0, 1} /\ c.wanted + c.owed \in Int
         /\ c.counted \in [StructIndexes -> Nat]
         /\ \A x \in StructIndexes : c.counted[x] \in Nat
  <1>1. /\ c.cursor \in Nat /\ c.bytes \in Nat /\ c.frames \in Seq(Frame)
        /\ c.wanted \in Int /\ c.owed \in {0, 1}
        /\ c.counted \in [StructIndexes -> Nat]
    BY DEF Place
  <1>2. c.wanted + c.owed \in Int
    BY <1>1
  <1>3. \A x \in StructIndexes : c.counted[x] \in Nat
    BY <1>1
  <1> QED  BY <1>1, <1>2, <1>3

LEMMA LeastIf ==
  ASSUME NEW c \in Place, NEW d \in Place, c.wanted + c.owed <= d.wanted + d.owed,
         d.counted = c.counted \/ \E x \in StructIndexes : Counts(c, d, x)
  PROVE  Least(c, d)
  <1>1. c.counted \in [StructIndexes -> Nat] /\ \A y \in StructIndexes : c.counted[y] \in Nat
    BY PlaceTypes
  <1>2. ASSUME NEW y \in StructIndexes PROVE c.counted[y] <= d.counted[y]
    <2>1. CASE d.counted = c.counted
      BY <1>1, <2>1
    <2>2. ASSUME NEW x \in StructIndexes, Counts(c, d, x) PROVE c.counted[y] <= d.counted[y]
      <3>1. d.counted[y] = c.counted[y] \/ d.counted[y] = c.counted[y] + 1
        BY <1>1, <2>2 DEF Counts
      <3> QED  BY <1>1, <3>1
    <2> QED  BY <2>1, <2>2
  <1> QED  BY <1>2 DEF Least

LEMMA PathExtended ==
  ASSUME NEW s, NEW n \in Nat, Path(s, n), NEW d \in Place, Scans(s[n], d), Least(s[n], d)
  PROVE  \E t : Path(t, n + 1) /\ t[n + 1] = d
  <1> DEFINE t == [m \in 1..(n + 1) |-> IF m <= n THEN s[m] ELSE d]
  <1>1. n >= 1 /\ \A m \in 1..n : s[m] \in Place /\ Least(s[m], s[n])
    BY DEF Path
  <1>2. t[n + 1] = d /\ \A m \in 1..n : t[m] = s[m]
    OBVIOUS
  <1> HIDE DEF t
  <1>3. \A m \in 1..n : t[m] \in Place /\ Least(t[m], d)
    <2>1. ASSUME NEW m \in 1..n PROVE Least(s[m], d)
      <3>1. s[m] \in Place /\ s[n] \in Place /\ Least(s[m], s[n])
        BY <1>1
      <3>2. /\ s[m].wanted + s[m].owed \in Int /\ s[n].wanted + s[n].owed \in Int
            /\ d.wanted + d.owed \in Int
            /\ \A x \in StructIndexes :
                 s[m].counted[x] \in Nat /\ s[n].counted[x] \in Nat /\ d.counted[x] \in Nat
        BY <3>1, PlaceTypes
      <3> QED  BY <3>1, <3>2 DEF Least
    <2> QED  BY <1>1, <1>2, <2>1
  <1>4. Least(d, d)
    BY DEF Least, Place
  <1>5. \A m \in 1..((n + 1) - 1) : Scans(t[m], t[m + 1])
    <2> SUFFICES ASSUME NEW m \in 1..n PROVE Scans(t[m], t[m + 1])
      OBVIOUS
    <2>1. CASE m = n
      BY <1>2, <2>1
    <2>2. CASE m # n
      <3>1. m \in 1..(n - 1) /\ m + 1 \in 1..n
        BY <2>2
      <3> QED  BY <1>2, <3>1 DEF Path
    <2> QED  BY <2>1, <2>2
  <1>6. t[1] = FirstPlace
    BY <1>1, <1>2 DEF Path
  <1>7. \A m \in 1..(n + 1) : t[m] \in Place /\ Least(t[m], t[n + 1])
    <2> SUFFICES ASSUME NEW m \in 1..(n + 1) PROVE t[m] \in Place /\ Least(t[m], d)
      BY <1>2
    <2>1. CASE m = n + 1
      BY <1>2, <1>4, <2>1
    <2>2. CASE m # n + 1
      BY <1>3, <2>2
    <2> QED  BY <2>1, <2>2
  <1>8. Path(t, n + 1)
    BY <1>1, <1>5, <1>6, <1>7 DEF Path
  <1> QED  BY <1>2, <1>8

(* The place of the parser after a step. *)
LEMMA NextPlace ==
  ASSUME Walked', NEW o \in {0, 1}
  PROVE  \E d \in Place : Stands(d)' /\ d.owed = o
  <1>0. PICK d : d = [cursor |-> cursor', bytes |-> bytes', frames |-> frames', wanted |-> wanted',
                      counted |-> counted', owed |-> o]
    OBVIOUS
  <1>1. d \in Place
    BY <1>0 DEF Place, Walked, FramesOK
  <1>2. Stands(d)' /\ d.owed = o
    BY <1>0 DEF Stands, Goes
  <1> QED  BY <1>1, <1>2

LEMMA StandsAt ==
  ASSUME NEW c, Stands(c)
  PROVE  /\ c.cursor = cursor /\ c.bytes = bytes /\ c.frames = frames
         /\ c.wanted = wanted /\ c.counted = counted
         /\ Last1(c) = Top /\ Below(c) = Under /\ (AtBase(c) <=> Top.call = "base")
         /\ RowAt(Last1(c).i).type = "RS_INT4" => (Errors(c) <=> TakesErrors)
         /\ Errors(c) => RowAt(Last1(c).i).type = "RS_INT4"
  BY DEF Stands, Goes, Last1, Below, AtBase, Top, Under, Errors, TakesErrors, ErrorBuffer

(* There is one character buffer at most that may take off a byte. *)
LEMMA OneBuffer ==
  ASSUME answer \in Answers, NEW b \in 1..Len(Table), MayTakeOff(Table, b),
         NEW m \in 1..Len(Table)
  PROVE  /\ MayTakeOff(Table, m) => m = b
         /\ RowAt(m).type = "RS_INT4" => m < b
         /\ RowAt(m).type \in Stored => m = b \/ answer.table \in OneByteShort
  BY TableFacts, TablesAssumption DEF Table, RowAt

LEMMA TakenOff ==
  ASSUME answer \in Answers, NEW i \in 1..Len(Table), RowAt(i).nest = 0, NEW off,
         RowAt(i).type \in Simple, Readable(RowAt(i), off), SizeFits(RowAt(i), off),
         TakesOff(RowAt(i), off) # 0
  PROVE  MayTakeOff(Table, i) /\ TakesOff(RowAt(i), off) = 1
  <1>1. RowAt(i).type = "CHARBUF_LEN" /\ TextLength(RowAt(i), off) = 0
        /\ TakesOff(RowAt(i), off) = 1
    BY DEF TakesOff
  <1>2. TextLength(RowAt(i), off) >= RowAt(i).min
    BY <1>1 DEF SizeFits, Texts
  <1>3. RowAt(i).min \in Int
    BY RowFacts
  <1> QED  BY <1>1, <1>2, <1>3 DEF MayTakeOff, RowAt

LEMMA OwedStays ==
  ASSUME Walked, Walked', pass # "idle", pass' = pass, answer' = answer, Onward,
         NEW c \in Place, Stands(c), OwedOK(c), NEW d \in Place, Stands(d)', d.owed = c.owed,
         \/ wanted' = wanted /\ bytes' >= bytes
         \/ \E m \in 1..Len(Table) : RowAt(m).type \in Stored /\ ~MayTakeOff(Table, m)
         \/ bytes' >= answer.size /\ c.owed # 1
  PROVE  OwedOK(d)
  <1>0. answer \in Answers /\ answer.size \in Nat
    BY TableFacts DEF Walked
  <1>1. /\ c.frames = frames /\ c.wanted = wanted /\ c.bytes = bytes
        /\ d.frames = frames' /\ d.wanted = wanted' /\ d.bytes = bytes'
    BY DEF Stands, Goes
  <1>2. frames[1].i \in Nat /\ frames'[1].i \in Nat /\ bytes \in Nat /\ bytes' \in Nat
        /\ wanted \in Int /\ wanted' \in Int
    <2>1. frames[1] \in Frame
      BY FramesAre
    <2>2. frames'[1] \in Frame
      BY DEF Walked, FramesOK
    <2> QED  BY <2>1, <2>2 DEF Walked, Frame
  <1>3. ASSUME d.owed = 1 PROVE \E b \in 1..Len(Table) : MayTakeOff(Table, b) /\ d.frames[1].i > b
    <2>1. PICK b \in 1..Len(Table) : MayTakeOff(Table, b) /\ frames[1].i > b
      BY <1>1, <1>3 DEF OwedOK
    <2>2. frames'[1].i > b
      BY <1>2, <2>1 DEF Onward
    <2> QED  BY <1>1, <2>1, <2>2
  <1>4. ASSUME answer.table \notin OneByteShort,
               NEW b \in 1..Len(Table), MayTakeOff(Table, b)
        PROVE  /\ d.owed = 1 => d.wanted = -1
               /\ d.frames[1].i <= b /\ d.bytes < answer.size => d.wanted = 0
    <2>1. /\ c.owed = 1 => wanted = -1
          /\ frames[1].i <= b /\ bytes < answer.size => wanted = 0
      BY <1>1, <1>4 DEF OwedOK
    <2>2. CASE wanted' = wanted /\ bytes' >= bytes
      <3>1. d.owed = 1 => d.wanted = -1
        BY <1>1, <2>1, <2>2
      <3>2. ASSUME frames'[1].i <= b, bytes' < answer.size PROVE wanted' = 0
        <4>1. frames[1].i <= b /\ bytes < answer.size
          BY <1>0, <1>2, <2>2, <3>2 DEF Onward
        <4> QED  BY <2>1, <2>2, <4>1
      <3> QED  BY <1>1, <3>1, <3>2
    <2>3. CASE \E m \in 1..Len(Table) : RowAt(m).type \in Stored /\ ~MayTakeOff(Table, m)
      BY <1>0, <1>4, <2>3, OneBuffer
    <2>4. CASE bytes' >= answer.size /\ c.owed # 1
      BY <1>0, <1>1, <1>2, <2>4
    <2> QED  BY <2>2, <2>3, <2>4
  <1> QED  BY <1>3, <1>4 DEF OwedOK

LEMMA BaseFieldScans ==
  ASSUME Walked, pass = "scan", BaseField, NEW c \in Place, Stands(c), NEW d \in Place, Stands(d)',
         d.owed = c.owed + TakesOff(RowAt(Top.i), cursor)
  PROVE  Scans(c, d) /\ Least(c, d)
  <1> DEFINE i == Top.i
             r == RowAt(i)
  <1>1. InBase /\ MoreRows /\ r.type \in Simple /\ Readable(r, cursor) /\ SizeFits(r, cursor)
        /\ ~TakesErrors /\ i \in 1..Len(Table) /\ answer \in Answers
    BY BaseTop DEF BaseField, BaseRow, Walked
  <1>2. /\ c.cursor = cursor /\ c.bytes = bytes /\ c.wanted = wanted /\ c.counted = counted
        /\ Last1(c) = Top /\ AtBase(c) /\ ~Errors(c)
    BY <1>1, StandsAt DEF InBase
  <1>3. /\ d.cursor = cursor' /\ d.bytes = bytes' /\ d.frames = frames'
        /\ d.wanted = wanted' /\ d.counted = counted'
    BY DEF Stands, Goes
  <1>4. Rows(r, cursor, TRUE) = RowsScanned(r)
    BY DEF Rows, RowsScanned
  <1>5. /\ cursor' = cursor + Taken(r, cursor) /\ bytes' = bytes + Taken(r, cursor)
        /\ frames' = <<Base(i + RowsScanned(r))>>
        /\ wanted' = wanted + StringBytes(r, cursor, TRUE) /\ counted' = counted
    BY <1>4 DEF BaseField, Storing
  <1>6. ScansBase(c, d)
    <2>1. r.type \notin {"ERROR_BUFF_LEN", "ERROR_BUFF_PTR", "C_STR_ARRAY_PTR"} /\ r.type \notin Lists
      BY <1>1 DEF Simple, Texts, Lists
    <2> HIDE DEF r
    <2> QED  BY <1>2, <1>3, <1>5, <2>1 DEF ScansBase, Goes, r
  <1>7. c.wanted + c.owed <= d.wanted + d.owed
    <2> DEFINE u == StringBytes(r, cursor, TRUE)
               v == TakesOff(r, cursor)
    <2>1. u \in Int /\ v \in {0, 1} /\ 0 <= u + v
      BY <1>1, RowNumbers
    <2>2. d.wanted = c.wanted + u /\ d.owed = c.owed + v
      BY <1>2, <1>3, <1>5
    <2> HIDE DEF u, v
    <2>3. c.wanted \in Int /\ c.owed \in {0, 1}
      BY PlaceTypes
    <2> QED  BY <2>1, <2>2, <2>3
  <1> QED  BY <1>2, <1>3, <1>5, <1>6, <1>7, LeastIf DEF Scans

LEMMA BaseErrorsScans ==
  ASSUME Walked, pass = "scan", BaseErrors, NEW c \in Place, Stands(c), NEW d \in Place, Stands(d)',
         d.owed = c.owed
  PROVE  Scans(c, d) /\ Least(c, d)
  <1> DEFINE i == Top.i
             r == RowAt(i)
  <1>1. InBase /\ MoreRows /\ r.type = "RS_INT4" /\ TakesErrors /\ BaseRow({"RS_INT4"})
    BY DEF BaseErrors, BaseRow
  <1>2. /\ c.cursor = cursor /\ c.bytes = bytes /\ c.wanted = wanted /\ c.counted = counted
        /\ Last1(c) = Top /\ AtBase(c) /\ Errors(c)
    BY <1>1, StandsAt DEF InBase
  <1>3. /\ d.cursor = cursor' /\ d.bytes = bytes' /\ d.frames = frames'
        /\ d.wanted = wanted' /\ d.counted = counted'
    BY DEF Stands, Goes
  <1>4. ErrorBytes \in Nat
    BY <1>1, ErrorsFit
  <1>5. /\ cursor' = cursor + 4 /\ bytes' = answer.size /\ frames' = <<Base(i + 1)>>
        /\ wanted' = wanted + ErrorBytes /\ counted' = counted
    <2>1. /\ cursor' = cursor + 4 + 0 /\ bytes' = answer.size /\ frames' = <<Base(i + 1)>>
          /\ wanted' = wanted + ErrorBytes /\ counted' = counted
      BY DEF BaseErrors
    <2>2. cursor + 4 + 0 = cursor + 4
      BY DEF Walked
    <2> QED  BY <2>1, <2>2
  <1>6. ScansBase(c, d)
    <2> HIDE DEF r
    <2> QED  BY <1>1, <1>2, <1>3, <1>5 DEF ScansBase, Goes, r, ErrorBytes, Simple, Texts, Lists
  <1>7. c.wanted + c.owed <= d.wanted + d.owed
    <2>1. d.wanted = c.wanted + ErrorBytes
      BY <1>2, <1>3, <1>5
    <2>2. c.wanted \in Int /\ c.owed \in {0, 1}
      BY PlaceTypes
    <2> QED  BY <1>4, <2>1, <2>2
  <1> QED  BY <1>2, <1>3, <1>5, <1>6, <1>7, LeastIf DEF Scans

(* The steps that change no sum. *)
LEMMA LeastSame ==
  ASSUME NEW c \in Place, NEW d \in Place, Keeps(c, d)
  PROVE  Least(c, d)
  <1>1. c.wanted + c.owed <= d.wanted + d.owed
    <2>1. c.wanted + c.owed \in Int
      BY PlaceTypes
    <2> QED  BY <2>1 DEF Keeps
  <1> QED  BY <1>1, LeastIf DEF Keeps

LEMMA BaseSkipScans ==
  ASSUME Walked, pass = "scan", BaseSkip, NEW c \in Place, Stands(c), NEW d \in Place, Stands(d)',
         d.owed = c.owed
  PROVE  Scans(c, d) /\ Least(c, d)
  <1> DEFINE i == Top.i
             r == RowAt(i)
  <1>1. InBase /\ r.type \in {"ERROR_BUFF_LEN", "ERROR_BUFF_PTR"}
    BY DEF BaseSkip, BaseRow
  <1>2. /\ c.cursor = cursor /\ c.bytes = bytes /\ c.wanted = wanted /\ c.counted = counted
        /\ Last1(c) = Top /\ AtBase(c) /\ ~Errors(c)
    BY <1>1, StandsAt DEF InBase
  <1>3. /\ d.cursor = cursor' /\ d.bytes = bytes' /\ d.frames = frames'
        /\ d.wanted = wanted' /\ d.counted = counted'
    BY DEF Stands, Goes
  <1>5. /\ cursor' = cursor /\ bytes' = bytes /\ frames' = <<Base(i + 1)>>
        /\ wanted' = wanted /\ counted' = counted
    BY DEF BaseSkip, passVars
  <1>6. Keeps(c, d) /\ Goes(d, c.cursor, c.bytes, <<Base(i + 1)>>)
    BY <1>2, <1>3, <1>5 DEF Keeps, Goes
  <1>7. ScansBase(c, d)
    BY <1>1, <1>2, <1>6 DEF ScansBase, Simple, Texts, Lists
  <1> QED  BY <1>2, <1>6, <1>7, LeastSame DEF Scans

LEMMA BaseStringsScans ==
  ASSUME Walked, pass = "scan", BaseStrings, NEW c \in Place, Stands(c),
         NEW d \in Place, Stands(d)', d.owed = c.owed
  PROVE  Scans(c, d) /\ Least(c, d)
  <1> DEFINE i == Top.i
             n == Value(cursor) + 1
             x == RowAt(i + 2).index
  <1>1. InBase /\ MoreRows /\ RowAt(i).type = "C_STR_ARRAY_PTR" /\ IsStrings(i)
        /\ Has(cursor, "cstring")
    BY DEF BaseStrings, BaseRow
  <1>2. answer \in Answers /\ i \in 1..Len(Table) /\ Len(Table) \in Nat
    BY <1>1, BaseTop, TableFacts DEF Walked
  <1>3. /\ c.cursor = cursor /\ c.bytes = bytes /\ c.wanted = wanted /\ c.counted = counted
        /\ c.frames = frames /\ Last1(c) = Top /\ AtBase(c) /\ ~Errors(c)
    BY <1>1, StandsAt DEF InBase
  <1>4. /\ d.cursor = cursor' /\ d.bytes = bytes' /\ d.frames = frames'
        /\ d.wanted = wanted' /\ d.counted = counted'
    BY DEF Stands, Goes
  <1>5. n \in Nat
    BY <1>1, <1>2, TableFacts DEF Has, Value
  <1>6. x \in StructIndexes
    <2>1. i + 2 \in 1..Len(Table)
      BY <1>1, <1>2 DEF IsStrings
    <2> QED  BY <1>2, <2>1, RowFacts
  <1>7. /\ cursor' = cursor + n /\ bytes' = bytes + n /\ frames' = frames
        /\ wanted' = wanted + n /\ counted' = [counted EXCEPT ![x] = @ + 1]
    BY DEF BaseStrings
  <1>8. /\ Goes(d, c.cursor + n, c.bytes + n, c.frames)
        /\ d.wanted = c.wanted + n /\ d.owed = c.owed /\ Counts(c, d, x)
    BY <1>3, <1>4, <1>7 DEF Goes, Counts
  <1>9. ScansBase(c, d)
    BY <1>1, <1>3, <1>8 DEF ScansBase, Simple, Texts, Lists
  <1>10. c.wanted + c.owed <= d.wanted + d.owed
    <2> HIDE DEF n
    <2>1. c.wanted \in Int /\ c.owed \in {0, 1}
      BY PlaceTypes
    <2>2. d.wanted = c.wanted + n /\ d.owed = c.owed
      BY <1>8
    <2> QED  BY <1>5, <2>1, <2>2
  <1> QED  BY <1>3, <1>6, <1>8, <1>9, <1>10, LeastIf DEF Scans

LEMMA EnterListScans ==
  ASSUME Walked, pass = "scan", EnterList, NEW c \in Place, Stands(c),
         NEW d \in Place, Stands(d)', d.owed = c.owed
  PROVE  Scans(c, d) /\ Least(c, d)
  <1>1. RowAt(Top.i).type \in Lists
    BY DEF EnterList, BaseRow, StructRow, Lists
  <1>2. /\ c.cursor = cursor /\ c.bytes = bytes /\ c.wanted = wanted /\ c.counted = counted
        /\ c.frames = frames /\ Last1(c) = Top /\ (AtBase(c) <=> Top.call = "base")
        /\ ~Errors(c)
    BY <1>1, StandsAt DEF Lists
  <1>3. /\ d.cursor = cursor' /\ d.bytes = bytes' /\ d.frames = frames'
        /\ d.wanted = wanted' /\ d.counted = counted'
    BY DEF Stands, Goes
  <1>4. Keeps(c, d)
    BY <1>2, <1>3 DEF Keeps, EnterList, passVars
  <1>5. Enters(c, d)
    BY <1>2, <1>3, <1>4 DEF Enters, EnterList, Goes
  <1>6. ScansBase(c, d)
    BY <1>1, <1>2, <1>5 DEF ScansBase, Simple, Texts, Lists
  <1>7. Top.call # "base" => Top.open /\ ~(Top.i > Top.last \/ (~Top.implied /\ Top.used >= Top.size))
    BY DEF EnterList, BaseRow, InBase, StructRow, InStruct, StructEnds
  <1>8. Top.call # "base" => ScansStruct(c, d)
    BY <1>1, <1>2, <1>5, <1>7 DEF ScansStruct, Simple, Texts, Lists
  <1> QED  BY <1>2, <1>4, <1>6, <1>7, <1>8, LeastSame DEF Scans

LEMMA OpenStructScans ==
  ASSUME Walked, pass = "scan", OpenStruct, NEW c \in Place, Stands(c),
         NEW d \in Place, Stands(d)', d.owed = c.owed
  PROVE  Scans(c, d) /\ Least(c, d)
  <1>1. Top.call # "base" /\ ~Top.open /\ Top.n < Top.limit /\ pass # "idle"
        /\ (Implied \/ (Has(cursor, "int") /\ Value(cursor) > 0))
    BY DEF OpenStruct, NextStruct, InList
  <1>2. /\ c.cursor = cursor /\ c.bytes = bytes /\ c.wanted = wanted /\ c.counted = counted
        /\ Last1(c) = Top /\ Below(c) = Under /\ ~AtBase(c)
    BY <1>1, StandsAt
  <1>3. /\ d.cursor = cursor' /\ d.bytes = bytes' /\ d.frames = frames'
        /\ d.wanted = wanted' /\ d.counted = counted'
    BY DEF Stands, Goes
  <1>4. Top \in Frame /\ Top.start \in 1..Len(Table) /\ answer \in Answers
    BY <1>1, ArrayTop DEF Walked
  <1>5. Top.n \in Int /\ Top.limit \in Int /\ ~(Top.n >= Top.limit)
    BY <1>1, <1>4 DEF Frame
  <1>6. HeadRow.index \in StructIndexes
    BY <1>4, RowFacts DEF HeadRow
  <1>7. d.wanted = c.wanted /\ Counts(c, d, HeadRow.index)
    BY <1>2, <1>3 DEF OpenStruct, Counts
  <1>8. /\ cursor' = IF Implied THEN cursor ELSE cursor + 4
        /\ bytes' = bytes
        /\ frames' = Append(Under,
             [Top EXCEPT !.open = TRUE, !.implied = Implied, !.i = Top.start + 1, !.used = 0,
                         !.size = IF Implied THEN 0 ELSE Value(cursor)])
    BY DEF OpenStruct
  <1>9. ~Implied => Value(cursor) # 0
    BY <1>1
  <1>10. Goes(d, IF Implied THEN cursor ELSE cursor + 4, bytes, Append(Under,
             [Top EXCEPT !.open = TRUE, !.implied = Implied, !.i = Top.start + 1, !.used = 0,
                         !.size = IF Implied THEN 0 ELSE Value(cursor)]))
    BY <1>3, <1>8 DEF Goes
  <1>11. ScansArray(c, d)
    BY <1>1, <1>2, <1>5, <1>7, <1>9, <1>10 DEF ScansArray, HeadRow, Implied
  <1>12. c.wanted + c.owed <= d.wanted + d.owed
    <2>1. c.wanted + c.owed \in Int
      BY PlaceTypes
    <2> QED  BY <1>7, <2>1
  <1> QED  BY <1>1, <1>2, <1>6, <1>7, <1>11, <1>12, LeastIf DEF Scans

LEMMA SkipStructScans ==
  ASSUME Walked, pass = "scan", SkipStruct, NEW c \in Place, Stands(c),
         NEW d \in Place, Stands(d)', d.owed = c.owed
  PROVE  Scans(c, d) /\ Least(c, d)
  <1>1. Top.call # "base" /\ ~Top.open /\ Top.n < Top.limit /\ pass # "idle"
        /\ ~Implied /\ Value(cursor) = 0
    BY DEF SkipStruct, NextStruct, InList
  <1>2. /\ c.cursor = cursor /\ c.bytes = bytes /\ c.wanted = wanted /\ c.counted = counted
        /\ c.frames = frames /\ Last1(c) = Top /\ ~AtBase(c)
    BY <1>1, StandsAt
  <1>3. Top.n \in Int /\ Top.limit \in Int /\ ~(Top.n >= Top.limit)
    BY <1>1, ArrayTop DEF Frame
  <1>4. Goes(d, c.cursor + 4, c.bytes, c.frames) /\ Keeps(c, d)
    BY <1>2 DEF Stands, Goes, Keeps, SkipStruct, passVars
  <1>5. ScansArray(c, d)
    BY <1>1, <1>2, <1>3, <1>4 DEF ScansArray, HeadRow, Implied
  <1> QED  BY <1>1, <1>2, <1>4, <1>5, LeastSame DEF Scans

LEMMA StructFieldScans ==
  ASSUME Walked, pass = "scan", StructField, NEW c \in Place, Stands(c),
         NEW d \in Place, Stands(d)', d.owed = c.owed
  PROVE  Scans(c, d) /\ Least(c, d)
  <1> DEFINE i == Top.i
             r == RowAt(i)
             u == StringBytes(r, cursor, FALSE)
  <1>1. Top.call # "base" /\ Top.open /\ ~StructEnds /\ r.type \in Simple /\ pass # "idle"
        /\ Readable(r, cursor) /\ SizeFits(r, cursor)
    BY DEF StructField, StructRow, InStruct
  <1>2. i \in 1..Len(Table) /\ answer \in Answers
    BY <1>1, ArrayTop DEF Walked
  <1>3. /\ c.cursor = cursor /\ c.bytes = bytes /\ c.wanted = wanted /\ c.counted = counted
        /\ Last1(c) = Top /\ Below(c) = Under /\ ~AtBase(c)
    BY <1>1, StandsAt
  <1>4. /\ d.cursor = cursor' /\ d.bytes = bytes' /\ d.frames = frames'
        /\ d.wanted = wanted' /\ d.counted = counted'
    BY DEF Stands, Goes
  <1>5. Rows(r, cursor, FALSE) = RowsScanned(r)
    BY DEF Rows, RowsScanned
  <1>6. /\ cursor' = cursor + Taken(r, cursor)
        /\ bytes' = IF r.type = "FIXED_STR_PTR" THEN bytes + r.max ELSE bytes
        /\ frames' = Append(Under, [Top EXCEPT !.i = @ + RowsScanned(r),
                                               !.used = @ + Taken(r, cursor)])
        /\ wanted' = wanted + u /\ counted' = counted
    BY <1>5 DEF StructField, Storing
  <1>7. u \in Int /\ u >= 0
    <2> DEFINE v == StoredBytes(r, cursor)
    <2>1. u \in Int /\ v \in Nat /\ v <= u
      BY <1>1, <1>2, RowNumbers
    <2> HIDE DEF u, v
    <2> QED  BY <2>1
  <1>8. /\ d.wanted = c.wanted + u /\ d.counted = c.counted
        /\ Goes(d, cursor + Taken(r, cursor),
                IF r.type = "FIXED_STR_PTR" THEN bytes + r.max ELSE bytes,
                Append(Under, [Top EXCEPT !.i = @ + RowsScanned(r), !.used = @ + Taken(r, cursor)]))
    BY <1>3, <1>4, <1>6 DEF Goes
  <1>9. ScansStruct(c, d)
    <2>1. ~(Top.i > Top.last \/ (~Top.implied /\ Top.used >= Top.size))
      BY <1>1 DEF StructEnds
    <2>2. r.type \notin Lists
      BY <1>1 DEF Simple, Texts, Lists
    <2> QED  BY <1>1, <1>3, <1>8, <2>1, <2>2 DEF ScansStruct
  <1>10. c.wanted + c.owed <= d.wanted + d.owed
    <2> HIDE DEF u
    <2>1. c.wanted \in Int /\ c.owed \in {0, 1}
      BY PlaceTypes
    <2>2. d.wanted = c.wanted + u /\ d.owed = c.owed
      BY <1>8
    <2> QED  BY <1>7, <2>1, <2>2
  <1> QED  BY <1>1, <1>3, <1>8, <1>9, <1>10, LeastIf DEF Scans

LEMMA CloseStructScans ==
  ASSUME Walked, pass = "scan", CloseStruct, NEW c \in Place, Stands(c),
         NEW d \in Place, Stands(d)', d.owed = c.owed
  PROVE  Scans(c, d) /\ Least(c, d)
  <1>1. Top.call # "base" /\ Top.open
        /\ (Top.i > Top.last \/ (~Top.implied /\ Top.used >= Top.size))
    BY DEF CloseStruct, InStruct, StructEnds
  <1>2. /\ c.cursor = cursor /\ c.bytes = bytes /\ c.wanted = wanted /\ c.counted = counted
        /\ Last1(c) = Top /\ Below(c) = Under /\ ~AtBase(c)
    BY <1>1, StandsAt
  <1>3. Keeps(c, d) /\ Goes(d, c.cursor, c.bytes,
          Append(Under, [Top EXCEPT !.open = FALSE, !.n = @ + StructUsed(Top)]))
    BY <1>2 DEF Stands, Goes, Keeps, CloseStruct, passVars
  <1>4. ScansStruct(c, d)
    BY <1>1, <1>2, <1>3 DEF ScansStruct
  <1> QED  BY <1>1, <1>2, <1>3, <1>4, LeastSame DEF Scans

LEMMA LeaveListScans ==
  ASSUME Walked, pass = "scan", LeaveList, NEW c \in Place, Stands(c),
         NEW d \in Place, Stands(d)', d.owed = c.owed
  PROVE  Scans(c, d) /\ Least(c, d)
  <1>1. Top.call # "base" /\ ~Top.open /\ Top.n >= Top.limit /\ pass # "idle"
    BY DEF LeaveList, InList
  <1>2. /\ c.cursor = cursor /\ c.bytes = bytes /\ c.wanted = wanted /\ c.counted = counted
        /\ Last1(c) = Top /\ Below(c) = Under /\ ~AtBase(c)
    BY <1>1, StandsAt
  <1>3. Top.n \in Int /\ Top.limit \in Int /\ ~(Top.n < Top.limit)
    BY <1>1, ArrayTop DEF Frame
  <1>4. Keeps(c, d) /\ Goes(d, cursor, c.bytes,
          Append(SubSeq(Under, 1, Len(Under) - 1),
            [Under[Len(Under)] EXCEPT !.i = Top.last + 1, !.used = @ + (cursor - Top.from)]))
    BY <1>2 DEF Stands, Goes, Keeps, LeaveList, passVars
  <1>5. ScansArray(c, d)
    BY <1>1, <1>2, <1>3, <1>4 DEF ScansArray
  <1> QED  BY <1>1, <1>2, <1>4, <1>5, LeastSame DEF Scans

LEMMA ScanGoesOn ==
  ASSUME ParserInv, pass = "scan", pass' = pass, answer' = answer,
         carved' = carved, stored' = stored,
         \A c \in Place : Stands(c) /\ OwedOK(c) =>
           \E d \in Place : Stands(d)' /\ Scans(c, d) /\ Least(c, d) /\ OwedOK(d)
  PROVE  ScanOK'
  <1>1. /\ \E s : \E n \in Nat : Path(s, n) /\ Stands(s[n]) /\ OwedOK(s[n])
        /\ NothingPopulated
    BY DEF ParserInv, ScanOK
  <1>2. PICK s : \E n \in Nat : Path(s, n) /\ Stands(s[n]) /\ OwedOK(s[n])
    BY <1>1
  <1>3. PICK n \in Nat : Path(s, n) /\ Stands(s[n]) /\ OwedOK(s[n])
    BY <1>2
  <1>4. s[n] \in Place
    BY <1>3 DEF Path
  <1>5. PICK d \in Place : Stands(d)' /\ Scans(s[n], d) /\ Least(s[n], d) /\ OwedOK(d)
    BY <1>3, <1>4
  <1>6. PICK t : Path(t, n + 1) /\ t[n + 1] = d
    BY <1>3, <1>5, PathExtended
  <1>7. Path(t, n + 1)'
    BY <1>6, PathSame
  <1>8. Stands(t[n + 1])' /\ OwedOK(t[n + 1])'
    <2>1. OwedOK(t[n + 1])
      BY <1>5, <1>6
    <2>2. OwedOK(t[n + 1])'
      BY <2>1, EndSame
    <2>3. Stands(t[n + 1])'
      BY <1>5, <1>6 DEF Stands, Goes
    <2> QED  BY <2>2, <2>3
  <1>9. \E r : \E m \in Nat : Path(r, m)' /\ Stands(r[m])' /\ OwedOK(r[m])'
    <2>1. n + 1 \in Nat
      OBVIOUS
    <2> QED  BY <1>7, <1>8, <2>1
  <1>10. NothingPopulated'
    BY <1>1 DEF NothingPopulated, FirstPlace
  <1> QED  BY <1>9, <1>10 DEF ScanOK

LEMMA BaseFieldOwed ==
  ASSUME Walked, Walked', Onward, pass = "scan", BaseField, NEW c \in Place, Stands(c), OwedOK(c)
  PROVE  /\ c.owed + TakesOff(RowAt(Top.i), cursor) \in {0, 1}
         /\ \A d \in Place :
              Stands(d)' /\ d.owed = c.owed + TakesOff(RowAt(Top.i), cursor) => OwedOK(d)
  <1> DEFINE i == Top.i
             r == RowAt(i)
  <1>1. InBase /\ MoreRows /\ r.type \in Simple /\ Readable(r, cursor) /\ SizeFits(r, cursor)
    BY DEF BaseField, BaseRow
  <1>2. /\ answer \in Answers /\ i \in 1..Len(Table) /\ r.nest = 0 /\ pass # "idle"
        /\ Top = frames[1] /\ bytes < answer.size
    BY <1>1, BaseTop DEF Walked, Simple, Texts, MoreRows
  <1>3. /\ bytes' = bytes + Taken(r, cursor) /\ wanted' = wanted + StringBytes(r, cursor, TRUE)
        /\ frames' = <<Base(i + RowsScanned(r))>> /\ answer' = answer /\ pass' = pass
    BY DEF BaseField, Storing, Rows, RowsScanned
  <1>4. c.frames = frames /\ c.wanted = wanted /\ c.bytes = bytes
    BY DEF Stands, Goes
  <1>5. c.owed \in {0, 1}
    BY PlaceTypes
  <1>6. CASE ~MayTakeOff(Table, i)
    <2>1. TakesOff(r, cursor) = 0
      BY <1>1, <1>2, <1>6, TakenOff
    <2>2. \/ wanted' = wanted /\ bytes' >= bytes
          \/ \E m \in 1..Len(Table) : RowAt(m).type \in Stored /\ ~MayTakeOff(Table, m)
      <3>1. CASE r.type \in Stored
        BY <1>2, <1>6, <3>1
      <3>2. CASE r.type \notin Stored
        <4>1. StringBytes(r, cursor, TRUE) = 0
          BY <3>2 DEF Stored, StringBytes
        <4>2. Taken(r, cursor) \in Nat
          BY <1>1, <1>2, RowNumbers
        <4>3. wanted' = wanted + 0
          BY <1>3, <4>1
        <4>4. wanted \in Int /\ bytes \in Nat
          BY DEF Walked
        <4>5. bytes' = bytes + Taken(r, cursor)
          BY <1>3
        <4>6. bytes' >= bytes
          BY <4>2, <4>4, <4>5
        <4>7. wanted' = wanted
          BY <4>3, <4>4
        <4> QED  BY <4>6, <4>7
      <3> QED  BY <3>1, <3>2
    <2>3. c.owed + TakesOff(r, cursor) = c.owed
      BY <1>5, <2>1
    <2>4. ASSUME NEW d \in Place, Stands(d)', d.owed = c.owed PROVE OwedOK(d)
      BY <1>2, <1>3, <2>2, <2>4, OwedStays
    <2> QED  BY <1>5, <2>3, <2>4
  <1>7. CASE MayTakeOff(Table, i)
    <2>1. \A b \in 1..Len(Table) : MayTakeOff(Table, b) => b = i
      BY <1>2, <1>7, OneBuffer
    <2>2. c.owed = 0
      <3>1. c.owed # 1
        <4>1. SUFFICES ASSUME c.owed = 1 PROVE FALSE
          OBVIOUS
        <4>2. PICK b \in 1..Len(Table) : MayTakeOff(Table, b) /\ i > b
          BY <1>2, <1>4, <4>1 DEF OwedOK
        <4> QED  BY <2>1, <4>2
      <3> QED  BY <1>5, <3>1
    <2>3. answer.table \notin OneByteShort => wanted = 0
      <3>1. c.frames[1].i <= i /\ c.bytes < answer.size
        BY <1>2, <1>4
      <3> QED  BY <1>2, <1>4, <1>7, <3>1 DEF OwedOK
    <2>4. TakesOff(r, cursor) \in {0, 1}
      BY DEF TakesOff
    <2>5. r.type = "CHARBUF_LEN"
      BY <1>7 DEF MayTakeOff, RowAt
    <2>6. TakesOff(r, cursor) = 1 => StringBytes(r, cursor, TRUE) = -1
      BY <2>5 DEF TakesOff, StringBytes, Texts
    <2>7. frames'[1].i = i + 2
      <3>1. RowsScanned(r) = 2
        BY <2>5 DEF RowsScanned
      <3> DEFINE l == i + RowsScanned(r)
      <3>2. l = i + 2 /\ l \in Nat
        BY <1>2, <3>1
      <3> HIDE DEF l
      <3> QED  BY <1>3, <3>2, BaseFrame DEF l
    <2>8. ASSUME NEW d \in Place, Stands(d)', d.owed = TakesOff(r, cursor) PROVE OwedOK(d)
      <3>1. d.frames[1].i = i + 2 /\ d.wanted = wanted'
        BY <2>7, <2>8 DEF Stands, Goes
      <3>2. \E b \in 1..Len(Table) : MayTakeOff(Table, b) /\ d.frames[1].i > b
        BY <1>2, <1>7, <3>1
      <3>3. ASSUME answer.table \notin OneByteShort, NEW b \in 1..Len(Table), MayTakeOff(Table, b)
            PROVE  /\ d.owed = 1 => d.wanted = -1
                   /\ d.frames[1].i <= b /\ d.bytes < answer.size => d.wanted = 0
        <4>1. b = i /\ ~(d.frames[1].i <= b)
          BY <1>2, <2>1, <3>1, <3>3
        <4>2. ASSUME d.owed = 1 PROVE d.wanted = -1
          <5>1. StringBytes(r, cursor, TRUE) = -1 /\ wanted = 0
            BY <2>3, <2>6, <2>8, <3>3, <4>2
          <5>2. wanted' = 0 + (-1)
            BY <1>3, <5>1
          <5> QED  BY <3>1, <5>2
        <4> QED  BY <4>1, <4>2
      <3> QED  BY <3>2, <3>3 DEF OwedOK
    <2>9. c.owed + TakesOff(r, cursor) = TakesOff(r, cursor)
      BY <2>2, <2>4
    <2> QED  BY <2>4, <2>8, <2>9
  <1> QED  BY <1>6, <1>7

LEMMA BaseFieldScanOK ==
  ASSUME ParserInv, pass = "scan", BaseField
  PROVE  ScanOK'
  <1>1. Walked /\ Walked' /\ Onward
    BY BaseFieldWalked DEF ParserInv
  <1>2. answer' = answer /\ pass' = pass /\ carved' = carved /\ stored' = stored
    BY DEF BaseField, Storing
  <1>3. ASSUME NEW c \in Place, Stands(c), OwedOK(c)
        PROVE  \E d \in Place : Stands(d)' /\ Scans(c, d) /\ Least(c, d) /\ OwedOK(d)
    <2> DEFINE o == c.owed + TakesOff(RowAt(Top.i), cursor)
    <2>1. o \in {0, 1} /\ \A d \in Place : Stands(d)' /\ d.owed = o => OwedOK(d)
      BY <1>1, <1>3, BaseFieldOwed
    <2>2. PICK d \in Place : Stands(d)' /\ d.owed = o
      <3> HIDE DEF o
      <3> QED  BY <1>1, <2>1, NextPlace
    <2>3. Scans(c, d) /\ Least(c, d)
      BY <1>1, <1>3, <2>2, BaseFieldScans
    <2> QED  BY <2>1, <2>2, <2>3
  <1> QED  BY <1>2, <1>3, ScanGoesOn

LEMMA BaseErrorsScanOK ==
  ASSUME ParserInv, pass = "scan", BaseErrors
  PROVE  ScanOK'
  <1>1. Walked /\ Walked' /\ Onward
    BY BaseErrorsWalked DEF ParserInv
  <1>2. answer' = answer /\ pass' = pass /\ carved' = carved /\ stored' = stored
    BY DEF BaseErrors
  <1>3. InBase /\ MoreRows /\ RowAt(Top.i).type = "RS_INT4"
    BY DEF BaseErrors, BaseRow
  <1>4. Top = frames[1] /\ Top.i \in 1..Len(Table) /\ answer \in Answers /\ answer.size \in Nat
    BY <1>1, <1>3, BaseTop, TableFacts DEF Walked
  <1>5. bytes' >= answer.size
    BY <1>4 DEF BaseErrors
  <1>6. ASSUME NEW c \in Place, Stands(c), OwedOK(c)
        PROVE  \E d \in Place : Stands(d)' /\ Scans(c, d) /\ Least(c, d) /\ OwedOK(d)
    <2>1. c.owed # 1
      <3>1. SUFFICES ASSUME c.owed = 1 PROVE FALSE
        OBVIOUS
      <3>2. c.frames = frames
        BY <1>6 DEF Stands, Goes
      <3>3. PICK b \in 1..Len(Table) : MayTakeOff(Table, b) /\ Top.i > b
        BY <1>4, <1>6, <3>1, <3>2 DEF OwedOK
      <3>4. Top.i < b
        BY <1>3, <1>4, <3>3, OneBuffer
      <3> QED  BY <1>4, <3>3, <3>4
    <2>2. c.owed \in {0, 1}
      BY PlaceTypes
    <2>3. PICK d \in Place : Stands(d)' /\ d.owed = c.owed
      BY <1>1, <2>2, NextPlace
    <2>4. Scans(c, d) /\ Least(c, d)
      BY <1>1, <1>6, <2>3, BaseErrorsScans
    <2>5. OwedOK(d)
      BY <1>1, <1>2, <1>5, <1>6, <2>1, <2>3, OwedStays
    <2> QED  BY <2>3, <2>4, <2>5
  <1> QED  BY <1>2, <1>6, ScanGoesOn

(* The steps that cannot take off a byte. *)
LEMMA OtherScanOK ==
  ASSUME ParserInv, Walked', Onward, pass = "scan", pass' = pass, answer' = answer,
         carved' = carved, stored' = stored,
         \/ wanted' = wanted /\ bytes' >= bytes
         \/ \E m \in 1..Len(Table) : RowAt(m).type \in Stored /\ ~MayTakeOff(Table, m),
         \A c, d \in Place : Stands(c) /\ Stands(d)' /\ d.owed = c.owed => Scans(c, d) /\ Least(c, d)
  PROVE  ScanOK'
  <1>1. Walked
    BY DEF ParserInv
  <1>2. ASSUME NEW c \in Place, Stands(c), OwedOK(c)
        PROVE  \E d \in Place : Stands(d)' /\ Scans(c, d) /\ Least(c, d) /\ OwedOK(d)
    <2>1. c.owed \in {0, 1}
      BY PlaceTypes
    <2>2. PICK d \in Place : Stands(d)' /\ d.owed = c.owed
      BY <2>1, NextPlace
    <2>3. OwedOK(d)
      BY <1>1, <1>2, <2>2, OwedStays
    <2> QED  BY <1>2, <2>2, <2>3
  <1> QED  BY <1>2, ScanGoesOn

LEMMA BaseStringsScanOK ==
  ASSUME ParserInv, pass = "scan", BaseStrings
  PROVE  ScanOK'
  <1>1. Walked /\ Walked' /\ Onward
    BY BaseStringsWalked DEF ParserInv
  <1>2. answer' = answer /\ pass' = pass /\ carved' = carved /\ stored' = stored
    BY DEF BaseStrings
  <1>3. \E m \in 1..Len(Table) : RowAt(m).type \in Stored /\ ~MayTakeOff(Table, m)
    <2>1. InBase /\ MoreRows /\ RowAt(Top.i).type = "C_STR_ARRAY_PTR"
      BY DEF BaseStrings, BaseRow
    <2>2. Top.i \in 1..Len(Table)
      BY <1>1, <2>1, BaseTop
    <2> QED  BY <2>1, <2>2 DEF Stored, MayTakeOff, RowAt
  <1>4. ASSUME NEW c \in Place, NEW d \in Place, Stands(c), Stands(d)', d.owed = c.owed
        PROVE  Scans(c, d) /\ Least(c, d)
    BY <1>1, <1>4, BaseStringsScans
  <1> QED  BY <1>1, <1>2, <1>3, <1>4, OtherScanOK

LEMMA StructFieldScanOK ==
  ASSUME ParserInv, pass = "scan", StructField
  PROVE  ScanOK'
  <1>1. Walked /\ Walked' /\ Onward
    BY StructFieldWalked DEF ParserInv
  <1>2. answer' = answer /\ pass' = pass /\ carved' = carved /\ stored' = stored
    BY DEF StructField, Storing
  <1>3. \E m \in 1..Len(Table) : RowAt(m).type \in Stored /\ ~MayTakeOff(Table, m)
    <2>1. Top.call # "base" /\ pass # "idle"
      BY DEF StructField, StructRow, InStruct
    <2>2. frames[1].i \in 1..Len(Table) /\ RowAt(frames[1].i).type \in Lists
      BY <1>1, <2>1, ArrayTop
    <2> QED  BY <2>2 DEF Stored, MayTakeOff, RowAt, Lists
  <1>4. ASSUME NEW c \in Place, NEW d \in Place, Stands(c), Stands(d)', d.owed = c.owed
        PROVE  Scans(c, d) /\ Least(c, d)
    BY <1>1, <1>4, StructFieldScans
  <1> QED  BY <1>1, <1>2, <1>3, <1>4, OtherScanOK

LEMMA StepScanOK ==
  ASSUME ParserInv, pass = "scan",
         BaseSkip \/ EnterList \/ OpenStruct \/ SkipStruct \/ CloseStruct \/ LeaveList
  PROVE  ScanOK'
  <1>1. Walked /\ Walked' /\ Onward
    BY BaseSkipWalked, EnterListWalked, OpenStructWalked, SkipStructWalked, CloseStructWalked,
       LeaveListWalked DEF ParserInv
  <1>2. /\ answer' = answer /\ pass' = pass /\ carved' = carved /\ stored' = stored
        /\ wanted' = wanted /\ bytes' = bytes
    BY DEF BaseSkip, EnterList, OpenStruct, SkipStruct, CloseStruct, LeaveList, passVars
  <1>3. bytes' >= bytes
    BY <1>1, <1>2 DEF Walked
  <1>4. ASSUME NEW c \in Place, NEW d \in Place, Stands(c), Stands(d)', d.owed = c.owed
        PROVE  Scans(c, d) /\ Least(c, d)
    BY <1>1, <1>4, BaseSkipScans, EnterListScans, OpenStructScans, SkipStructScans,
       CloseStructScans, LeaveListScans
  <1> QED  BY <1>1, <1>2, <1>3, <1>4, OtherScanOK

LEMMA StartScanOK ==
  ASSUME ParserInv, StartScan
  PROVE  ScanOK'
  <1>0. 0 \in StructIndexes
    BY TablesAssumption
  <1>1. FirstPlace \in Place
    BY BaseFrame DEF FirstPlace, Place
  <1>2. Least(FirstPlace, FirstPlace)
    BY <1>1, LeastIf, PlaceTypes
  <1> DEFINE s == [m \in {1} |-> FirstPlace]
  <1>3. Path(s, 1)'
    BY <1>1, <1>2 DEF Path, FirstPlace, Place, Least
  <1>4. /\ counted' = [x \in StructIndexes |-> IF x = 0 THEN 1 ELSE 0]
        /\ carved' = [x \in StructIndexes |-> IF x = 0 THEN 1 ELSE 0]
    BY <1>0 DEF ParserInv, IdleOK, StartScan
  <1>5. /\ cursor' = 0 /\ bytes' = 0 /\ wanted' = 0 /\ stored' = 0 /\ frames' = <<Base(2)>>
    BY DEF ParserInv, IdleOK, StartScan
  <1>6. Stands(s[1])'
    BY <1>4, <1>5 DEF Stands, Goes, FirstPlace
  <1>7. OwedOK(s[1])'
    BY DEF OwedOK, FirstPlace
  <1>8. NothingPopulated'
    BY <1>4, <1>5 DEF NothingPopulated, FirstPlace
  <1> QED  BY <1>3, <1>6, <1>7, <1>8 DEF ScanOK

-----------------------------------------------------------------------------
(* The second pass follows the scan. *)

LEMMA FrameEqual ==
  ASSUME NEW f \in Frame, NEW g \in Frame,
         f.call = g.call, f.i = g.i, f.start = g.start, f.last = g.last, f.limit = g.limit,
         f.n = g.n, f.size = g.size, f.used = g.used, f.open = g.open, f.implied = g.implied,
         f.from = g.from
  PROVE  f = g
  BY DEF Frame

(* Two frames that agree are the same but for the row. *)
LEMMA AgreesFields ==
  ASSUME NEW f, NEW g \in Frame, Agrees(f, g)
  PROVE  /\ f.call = g.call /\ f.start = g.start /\ f.last = g.last /\ f.limit = g.limit
         /\ f.n = g.n /\ f.size = g.size /\ f.used = g.used /\ f.from = g.from
         /\ f.open = g.open /\ f.implied = g.implied
         /\ f = g \/ g.call # "base"
  <1>1. CASE f = g
    BY <1>1
  <1>2. CASE f # g
    <2>1. g.call # "base" /\ f = [g EXCEPT !.i = f.i]
      BY <1>2 DEF Agrees
    <2>2. PICK x : f = [g EXCEPT !.i = x]
      BY <2>1
    <2>3. /\ f.call = g.call /\ f.start = g.start /\ f.last = g.last /\ f.limit = g.limit
          /\ f.n = g.n /\ f.size = g.size /\ f.used = g.used /\ f.from = g.from
      BY <2>2 DEF Frame
    <2>4. f.open = g.open /\ f.implied = g.implied
      BY <2>2 DEF Frame
    <2> QED  BY <2>1, <2>3, <2>4
  <1> QED  BY <1>1, <1>2

LEMMA SameUnder ==
  ASSUME NEW p \in Seq(Frame), NEW q \in Seq(Frame), Len(p) >= 1, Len(q) = Len(p),
         SubSeq(p, 1, Len(p) - 1) = SubSeq(q, 1, Len(q) - 1), p[Len(p)] = q[Len(q)]
  PROVE  p = q
  <1>1. Len(p) \in Nat
    OBVIOUS
  <1>2. \A m \in 1..(Len(p) - 1) : SubSeq(p, 1, Len(p) - 1)[m] = p[m]
    BY Popped
  <1>3. \A m \in 1..(Len(p) - 1) : SubSeq(q, 1, Len(q) - 1)[m] = q[m]
    BY Popped
  <1>4. ASSUME NEW m \in 1..Len(p) PROVE p[m] = q[m]
    <2>1. CASE m = Len(p)
      BY <2>1
    <2>2. CASE m # Len(p)
      <3>1. m \in 1..(Len(p) - 1)
        BY <1>1, <2>2
      <3> QED  BY <1>2, <1>3, <3>1
    <2> QED  BY <2>1, <2>2
  <1> QED  BY <1>4, SeqEqual

LEMMA FollowsFields ==
  ASSUME Walked, pass = "populate", NEW c \in Place, OnScan(c)
  PROVE  /\ c.bytes = bytes /\ c.counted = carved /\ stored <= c.wanted + c.owed
         /\ Below(c) = Under /\ Agrees(Last1(c), Top) /\ Top \in Frame /\ Last1(c) \in Frame
         /\ AtBase(c) <=> Top.call = "base"
         /\ Last1(c) = Top => c.frames = frames
         /\ c.cursor = cursor \/ (Top.call = "base" /\ bytes >= answer.size)
         /\ Top.call = "base" => Last1(c) = Top
  <1>1. Top \in Frame /\ frames \in Seq(Frame) /\ Len(frames) >= 1
    BY FramesAre DEF Walked, FramesOK
  <1>2. /\ c.bytes = bytes /\ c.counted = carved /\ stored <= c.wanted + c.owed
        /\ Below(c) = Under /\ Agrees(Last1(c), Top) /\ Len(c.frames) = Len(frames)
        /\ c.cursor = cursor \/ (Top.call = "base" /\ bytes >= answer.size)
    BY DEF OnScan
  <1>3. c.frames \in Seq(Frame) /\ Len(c.frames) >= 1
    BY <1>1, <1>2, PlaceTypes
  <1>4. Last1(c) \in Frame
    BY <1>3, Popped DEF Last1
  <1>5. Last1(c).call = Top.call /\ (Last1(c) = Top \/ Top.call # "base")
    BY <1>1, <1>2, AgreesFields
  <1>6. ASSUME Last1(c) = Top PROVE c.frames = frames
    BY <1>1, <1>2, <1>3, <1>6, SameUnder DEF Last1, Top, Below, Under
  <1> QED  BY <1>1, <1>2, <1>4, <1>5, <1>6 DEF AtBase

LEMMA FollowsSame ==
  ASSUME NEW d, d.frames = frames', d.bytes = bytes', d.counted = carved',
         stored' <= d.wanted + d.owed, d.cursor = cursor'
  PROVE  OnScan(d)'
  BY DEF OnScan, Below, Under, Last1, Top, Agrees

(* The last frame may lag. *)
LEMMA FollowsBehind ==
  ASSUME Walked, pass = "populate", answer' = answer,
         NEW f \in Frame, NEW g \in Frame, frames' = Append(Under, g),
         NEW d, d.frames = Append(Under, f), Agrees(f, g),
         d.bytes = bytes', d.counted = carved', stored' <= d.wanted + d.owed, d.cursor = cursor'
  PROVE  OnScan(d)'
  <1>1. Under \in Seq(Frame)
    BY FramesAre
  <1> DEFINE l == Len(Under)
  <1>2. /\ l \in Nat
        /\ Len(Append(Under, g)) = l + 1 /\ Len(Append(Under, f)) = l + 1
        /\ Append(Under, g)[l + 1] = g /\ Append(Under, f)[l + 1] = f
        /\ SubSeq(Append(Under, g), 1, l) = Under /\ SubSeq(Append(Under, f), 1, l) = Under
    BY <1>1, Pushed
  <1>3. (l + 1) - 1 = l
    BY <1>2
  <1> HIDE DEF l
  <1>4. Len(d.frames) = Len(frames') /\ Below(d) = Under' /\ Last1(d) = f /\ Top' = g
    BY <1>2, <1>3 DEF Below, Under, Last1, Top
  <1>5. Agrees(f, g)'
    BY RowsSame DEF Agrees, Table
  <1> QED  BY <1>4, <1>5 DEF OnScan, Last1, Below

LEMMA BaseFieldFollows ==
  ASSUME Walked, pass = "populate", BaseField, NEW c \in Place, OnScan(c),
         NEW d \in Place, Scans(c, d)
  PROVE  OnScan(d)'
  <1> DEFINE i == Top.i
             r == RowAt(i)
  <1>1. /\ InBase /\ MoreRows /\ r.type \in Simple /\ Readable(r, cursor) /\ SizeFits(r, cursor)
        /\ ~TakesErrors /\ i \in 1..Len(Table) /\ answer \in Answers /\ bytes < answer.size
        /\ bytes \in Nat /\ answer.size \in Nat
    BY BaseTop, TableFacts DEF BaseField, BaseRow, Walked, MoreRows
  <1>2. Top.call = "base" /\ ~(bytes >= answer.size)
    BY <1>1 DEF InBase
  <1>3. /\ c.cursor = cursor /\ c.bytes = bytes /\ c.counted = carved
        /\ stored <= c.wanted + c.owed /\ Last1(c) = Top /\ AtBase(c)
    BY <1>2, FollowsFields
  <1>4. ~Errors(c)
    BY <1>1, <1>3 DEF Errors, TakesErrors, ErrorBuffer
  <1>5. /\ Goes(d, cursor + Taken(r, cursor), bytes + Taken(r, cursor), <<Base(i + RowsScanned(r))>>)
        /\ d.wanted = c.wanted + StringBytes(r, cursor, TRUE)
        /\ d.owed = c.owed + TakesOff(r, cursor)
        /\ d.counted = carved
    BY <1>1, <1>3, <1>4 DEF Scans, ScansBase
  <1>6. Rows(r, cursor, TRUE) = RowsScanned(r)
    BY DEF Rows, RowsScanned
  <1>7. /\ cursor' = cursor + Taken(r, cursor) /\ bytes' = bytes + Taken(r, cursor)
        /\ frames' = <<Base(i + RowsScanned(r))>>
        /\ stored' = stored + StoredBytes(r, cursor) /\ carved' = carved
    BY <1>6 DEF BaseField, Storing
  <1>8. stored' <= d.wanted + d.owed
    <2> DEFINE u == StringBytes(r, cursor, TRUE)
               v == TakesOff(r, cursor)
               w == StoredBytes(r, cursor)
    <2>1. u \in Int /\ v \in {0, 1} /\ w \in Nat /\ w <= u + v
      BY <1>1, RowNumbers
    <2>2. d.wanted = c.wanted + u /\ d.owed = c.owed + v /\ stored' = stored + w
      BY <1>5, <1>7
    <2> HIDE DEF u, v, w
    <2>3. c.wanted \in Int /\ c.owed \in {0, 1} /\ stored \in Nat /\ stored <= c.wanted + c.owed
      BY <1>3, PlaceTypes DEF Walked
    <2> QED  BY <2>1, <2>2, <2>3
  <1> QED  BY <1>5, <1>7, <1>8, FollowsSame DEF Goes

LEMMA BaseErrorsFollows ==
  ASSUME Walked, pass = "populate", BaseErrors, NEW c \in Place, OnScan(c),
         NEW d \in Place, Scans(c, d)
  PROVE  OnScan(d)'
  <1> DEFINE i == Top.i
  <1>1. /\ InBase /\ MoreRows /\ RowAt(i).type = "RS_INT4" /\ TakesErrors /\ BaseRow({"RS_INT4"})
        /\ answer \in Answers /\ answer.size \in Nat /\ i \in Nat
    BY BaseTop, TableFacts DEF BaseErrors, BaseRow, Walked
  <1>2. /\ c.bytes = bytes /\ c.counted = carved
        /\ stored <= c.wanted + c.owed /\ Last1(c) = Top /\ AtBase(c)
    BY <1>1, FollowsFields DEF InBase
  <1>3. Errors(c)
    BY <1>1, <1>2 DEF Errors, TakesErrors, ErrorBuffer
  <1>4. /\ d.bytes = answer.size /\ d.frames = <<Base(i + 1)>>
        /\ d.wanted = c.wanted + ErrorBytes /\ d.owed = c.owed /\ d.counted = carved
    BY <1>2, <1>3 DEF Scans, ScansBase, Goes, ErrorBytes
  <1>5. bytes' = answer.size /\ frames' = <<Base(i + 1)>> /\ carved' = carved
    BY DEF BaseErrors
  <1>6. stored' <= d.wanted + d.owed
    <2>1. ErrorBytes \in Nat
      BY <1>1, ErrorsFit
    <2>2. stored' = stored + (ErrorBytes - 4) \/ stored' = stored + (ErrorBytes - 0) \/ stored' = stored + 0
      <3>1. CASE answer.errors = "with length"
        BY <3>1 DEF BaseErrors
      <3>2. CASE answer.errors # "with length"
        BY <3>2 DEF BaseErrors
      <3> QED  BY <3>1, <3>2
    <2>3. c.wanted \in Int /\ c.owed \in {0, 1} /\ stored \in Nat /\ stored <= c.wanted + c.owed
      BY <1>2, PlaceTypes DEF Walked
    <2>4. d.wanted = c.wanted + ErrorBytes /\ d.owed = c.owed
      BY <1>4
    <2> QED  BY <2>1, <2>2, <2>3, <2>4
  <1> DEFINE l == i + 1
  <1>7. l \in Nat
    BY <1>1
  <1>8. d.frames = <<Base(l)>> /\ frames' = <<Base(l)>>
    BY <1>4, <1>5
  <1> HIDE DEF l
  <1>9. Top'.call = "base" /\ bytes' >= answer'.size
    <2>1. Top' = Base(l)
      BY <1>8 DEF Top
    <2>2. answer' = answer
      BY DEF BaseErrors
    <2> QED  BY <1>1, <1>5, <1>7, <2>1, <2>2, BaseFrame
  <1> QED  BY <1>4, <1>5, <1>6, <1>8, <1>9 DEF OnScan, Below, Under, Last1, Top, Agrees

LEMMA BaseSkipFollows ==
  ASSUME Walked, pass = "populate", BaseSkip, NEW c \in Place, OnScan(c),
         NEW d \in Place, Scans(c, d)
  PROVE  OnScan(d)'
  <1>1. /\ InBase /\ MoreRows /\ RowAt(Top.i).type \in {"ERROR_BUFF_LEN", "ERROR_BUFF_PTR"}
        /\ bytes \in Nat /\ answer.size \in Nat
    BY TableFacts DEF BaseSkip, BaseRow, Walked
  <1>2. Top.call = "base" /\ ~(bytes >= answer.size)
    BY <1>1 DEF InBase, MoreRows
  <1>3. /\ c.cursor = cursor /\ c.bytes = bytes /\ c.counted = carved
        /\ stored <= c.wanted + c.owed /\ Last1(c) = Top /\ AtBase(c)
    BY <1>2, FollowsFields
  <1>4. Goes(d, cursor, bytes, <<Base(Top.i + 1)>>) /\ Keeps(c, d)
    BY <1>1, <1>3 DEF Scans, ScansBase
  <1>5. /\ cursor' = cursor /\ bytes' = bytes /\ frames' = <<Base(Top.i + 1)>>
        /\ stored' = stored /\ carved' = carved
    BY DEF BaseSkip, passVars
  <1> QED  BY <1>3, <1>4, <1>5, FollowsSame DEF Goes, Keeps

LEMMA BaseStringsFollows ==
  ASSUME Walked, pass = "populate", BaseStrings, NEW c \in Place, OnScan(c),
         NEW d \in Place, Scans(c, d)
  PROVE  OnScan(d)'
  <1> DEFINE i == Top.i
             n == Value(cursor) + 1
             x == RowAt(i + 2).index
  <1>1. /\ InBase /\ MoreRows /\ RowAt(i).type = "C_STR_ARRAY_PTR" /\ Has(cursor, "cstring")
        /\ bytes \in Nat /\ answer.size \in Nat /\ answer \in Answers
    BY TableFacts DEF BaseStrings, BaseRow, Walked
  <1>2. Top.call = "base" /\ ~(bytes >= answer.size)
    BY <1>1 DEF InBase, MoreRows
  <1>3. /\ c.cursor = cursor /\ c.bytes = bytes /\ c.counted = carved /\ c.frames = frames
        /\ stored <= c.wanted + c.owed /\ Last1(c) = Top /\ AtBase(c)
    BY <1>2, FollowsFields
  <1>4. /\ Goes(d, cursor + n, bytes + n, frames)
        /\ d.wanted = c.wanted + n /\ d.owed = c.owed /\ Counts(c, d, x)
    BY <1>1, <1>3 DEF Scans, ScansBase
  <1>5. /\ cursor' = cursor + n /\ bytes' = bytes + n /\ frames' = frames
        /\ stored' = stored + n /\ carved' = [carved EXCEPT ![x] = @ + 1]
    BY DEF BaseStrings
  <1>6. d.counted = carved'
    BY <1>3, <1>4, <1>5 DEF Counts
  <1>7. stored' <= d.wanted + d.owed
    <2>1. n \in Nat
      BY <1>1, TableFacts DEF Has, Value
    <2>2. d.wanted = c.wanted + n /\ d.owed = c.owed /\ stored' = stored + n
      BY <1>4, <1>5
    <2> HIDE DEF n
    <2>3. c.wanted \in Int /\ c.owed \in {0, 1} /\ stored \in Nat /\ stored <= c.wanted + c.owed
      BY <1>3, PlaceTypes DEF Walked
    <2> QED  BY <2>1, <2>2, <2>3
  <1> QED  BY <1>4, <1>5, <1>6, <1>7, FollowsSame DEF Goes

LEMMA EnterListFollows ==
  ASSUME Walked, pass = "populate", EnterList, NEW c \in Place, OnScan(c),
         NEW d \in Place, Scans(c, d)
  PROVE  OnScan(d)'
  <1>1. RowAt(Top.i).type \in Lists /\ bytes \in Nat /\ answer.size \in Nat
    BY TableFacts DEF EnterList, BaseRow, StructRow, Lists, Walked
  <1>2. \/ Top.call = "base" /\ bytes < answer.size
        \/ /\ Top.call # "base" /\ Top.open
           /\ ~(Top.i > Top.last \/ (~Top.implied /\ Top.used >= Top.size))
    BY DEF EnterList, BaseRow, InBase, MoreRows, StructRow, InStruct, StructEnds
  <1>3. Last1(c) = Top
    BY <1>1, <1>2, FollowsFields DEF Agrees, Lists
  <1>4. /\ c.cursor = cursor /\ c.bytes = bytes /\ c.counted = carved /\ c.frames = frames
        /\ stored <= c.wanted + c.owed /\ (AtBase(c) <=> Top.call = "base")
    BY <1>1, <1>2, <1>3, FollowsFields
  <1>5. Enters(c, d)
    <2>1. CASE Top.call = "base"
      BY <1>1, <1>3, <1>4, <2>1 DEF Scans, ScansBase
    <2>2. CASE Top.call # "base"
      BY <1>1, <1>2, <1>3, <1>4, <2>2 DEF Scans, ScansStruct
    <2> QED  BY <2>1, <2>2
  <1>6. d.cursor = cursor' /\ d.bytes = bytes' /\ d.frames = frames'
    BY <1>3, <1>4, <1>5 DEF Enters, Goes, EnterList
  <1>7. Keeps(c, d) /\ stored' = stored /\ carved' = carved
    BY <1>5 DEF Enters, EnterList, passVars
  <1> QED  BY <1>4, <1>6, <1>7, FollowsSame DEF Keeps

LEMMA OpenStructFollows ==
  ASSUME Walked, pass = "populate", OpenStruct, NEW c \in Place, OnScan(c),
         NEW d \in Place, Scans(c, d)
  PROVE  OnScan(d)'
  <1> DEFINE f == Last1(c)
             x == HeadRow.index
             i == Top.start + 1
             size == IF Implied THEN 0 ELSE Value(cursor)
  <1>1. /\ Top.call # "base" /\ ~Top.open /\ Top.n < Top.limit /\ pass # "idle"
        /\ Implied \/ (Has(cursor, "int") /\ Value(cursor) > 0)
    BY DEF OpenStruct, NextStruct, InList
  <1>2. /\ c.bytes = bytes /\ c.counted = carved /\ c.cursor = cursor
        /\ stored <= c.wanted + c.owed /\ Below(c) = Under /\ Agrees(f, Top)
        /\ Top \in Frame /\ f \in Frame /\ ~AtBase(c)
    BY <1>1, FollowsFields
  <1>3. /\ f.call = Top.call /\ f.start = Top.start /\ f.last = Top.last /\ f.limit = Top.limit
        /\ f.n = Top.n /\ f.size = Top.size /\ f.used = Top.used /\ f.from = Top.from
        /\ f.open = Top.open /\ f.implied = Top.implied
    BY <1>2, AgreesFields
  <1>4. ~f.open /\ f.n < f.limit
    BY <1>1, <1>3
  <1>5. (HeadRow.type = "NOBUFFER_STRUCT_LEN") = Implied /\ RowAt(f.start) = HeadRow
    BY <1>3 DEF Implied, HeadRow
  <1>6. Implied \/ Value(cursor) # 0
    BY <1>1
  <1>7. /\ Goes(d, IF Implied THEN cursor ELSE cursor + 4, bytes,
                Append(Under,
                  [f EXCEPT !.open = TRUE, !.implied = Implied, !.i = f.start + 1, !.used = 0,
                            !.size = size]))
        /\ d.wanted = c.wanted /\ d.owed = c.owed /\ Counts(c, d, x)
    <2>1. ScansArray(c, d)
      BY <1>2, <1>4 DEF Scans
    <2> QED  BY <1>2, <1>4, <1>5, <1>6, <2>1 DEF ScansArray
  <1> DEFINE h == [f EXCEPT !.open = TRUE, !.implied = Implied, !.i = i, !.used = 0, !.size = size]
             g == [Top EXCEPT !.open = TRUE, !.implied = Implied, !.i = i, !.used = 0, !.size = size]
  <1>8. d.frames = Append(Under, h) /\ frames' = Append(Under, g)
    BY <1>3, <1>7 DEF Goes, OpenStruct
  <1>9. h = g
    <2>1. i \in Nat /\ size \in Int /\ Implied \in BOOLEAN
      <3>1. Top.start \in Nat /\ answer \in Answers
        BY <1>2 DEF Frame, Walked
      <3>2. ~Implied => Value(cursor) \in Nat
        BY <1>1, <3>1, TableFacts DEF Has, Value
      <3> QED  BY <3>1, <3>2 DEF Implied
    <2> HIDE DEF i, size, f
    <2>2. 0 \in Int
      OBVIOUS
    <2>3. h \in Frame
      BY <1>2, <2>1, <2>2, Zenon DEF Frame
    <2>4. g \in Frame
      BY <1>2, <2>1, <2>2, Zenon DEF Frame
    <2>5. /\ h.call = g.call /\ h.i = g.i /\ h.start = g.start /\ h.last = g.last
          /\ h.limit = g.limit /\ h.n = g.n /\ h.size = g.size /\ h.used = g.used
          /\ h.from = g.from
      BY <1>2, <1>3, <2>1 DEF Frame
    <2>6. h.open /\ g.open /\ h.implied = Implied /\ g.implied = Implied
      BY <1>2, <2>1 DEF Frame
    <2>7. h.open = TRUE /\ g.open = TRUE
      BY <2>3, <2>4, <2>6 DEF Frame
    <2> HIDE DEF h, g
    <2> QED  BY <2>3, <2>4, <2>5, <2>6, <2>7, FrameEqual
  <1>10. d.counted = carved'
    BY <1>2, <1>7 DEF Counts, OpenStruct
  <1>11. d.cursor = cursor' /\ d.bytes = bytes'
    BY <1>7 DEF Goes, OpenStruct
  <1>12. stored' <= d.wanted + d.owed
    BY <1>2, <1>7 DEF OpenStruct
  <1> HIDE DEF h, g
  <1> QED  BY <1>8, <1>9, <1>10, <1>11, <1>12, FollowsSame

LEMMA SkipStructFollows ==
  ASSUME Walked, pass = "populate", SkipStruct, NEW c \in Place, OnScan(c),
         NEW d \in Place, Scans(c, d)
  PROVE  OnScan(d)'
  <1> DEFINE f == Last1(c)
  <1>1. /\ Top.call # "base" /\ ~Top.open /\ Top.n < Top.limit /\ pass # "idle"
        /\ ~Implied /\ Value(cursor) = 0
    BY DEF SkipStruct, NextStruct, InList
  <1>2. /\ c.bytes = bytes /\ c.counted = carved /\ c.cursor = cursor
        /\ stored <= c.wanted + c.owed /\ Agrees(f, Top)
        /\ Top \in Frame /\ f \in Frame /\ ~AtBase(c)
    BY <1>1, FollowsFields
  <1>3. ~f.open /\ f.n < f.limit /\ RowAt(f.start).type # "NOBUFFER_STRUCT_LEN"
    BY <1>1, <1>2, AgreesFields DEF Implied, HeadRow
  <1>4. Goes(d, cursor + 4, bytes, c.frames) /\ Keeps(c, d)
    <2>1. ScansArray(c, d)
      BY <1>2, <1>3 DEF Scans
    <2> QED  BY <1>1, <1>2, <1>3, <2>1 DEF ScansArray
  <1>5. /\ answer' = answer /\ cursor' = cursor + 4 /\ bytes' = bytes /\ frames' = frames
        /\ stored' = stored /\ carved' = carved
    BY DEF SkipStruct, passVars
  <1>6. Agrees(Last1(d), Top)'
    BY <1>2, <1>4, <1>5, RowsSame DEF Agrees, Last1, Top, Goes
  <1>7. Len(d.frames) = Len(frames') /\ Below(d) = Under'
    BY <1>4, <1>5 DEF OnScan, Goes, Below, Under
  <1> QED  BY <1>2, <1>4, <1>5, <1>6, <1>7 DEF OnScan, Goes, Keeps, Below, Last1

LEMMA StructFieldFollows ==
  ASSUME Walked, pass = "populate", StructField, NEW c \in Place, OnScan(c),
         NEW d \in Place, Scans(c, d)
  PROVE  OnScan(d)'
  <1> DEFINE i == Top.i
             r == RowAt(i)
             u == StringBytes(r, cursor, FALSE)
             used == Top.used + Taken(r, cursor)
  <1>1. /\ Top.call # "base" /\ Top.open /\ ~StructEnds /\ r.type \in Simple /\ pass # "idle"
        /\ Readable(r, cursor) /\ SizeFits(r, cursor)
    BY DEF StructField, StructRow, InStruct
  <1>2. i \in 1..Len(Table) /\ Len(Table) \in Nat /\ answer \in Answers
    BY <1>1, ArrayTop DEF Walked
  <1>3. Last1(c) = Top
    BY <1>1, FollowsFields DEF Agrees, Simple, Texts
  <1>4. /\ c.cursor = cursor /\ c.bytes = bytes /\ c.counted = carved /\ Below(c) = Under
        /\ stored <= c.wanted + c.owed /\ ~AtBase(c) /\ Top \in Frame
    BY <1>1, FollowsFields
  <1>5. /\ d.wanted = c.wanted + u /\ d.owed = c.owed /\ d.counted = carved
        /\ Goes(d, cursor + Taken(r, cursor),
                IF r.type = "FIXED_STR_PTR" THEN bytes + r.max ELSE bytes,
                Append(Under, [Top EXCEPT !.i = @ + RowsScanned(r), !.used = @ + Taken(r, cursor)]))
    <2>1. ~(Top.i > Top.last \/ (~Top.implied /\ Top.used >= Top.size))
      BY <1>1 DEF StructEnds
    <2>2. ScansStruct(c, d)
      BY <1>1, <1>3, <1>4 DEF Scans
    <2> QED  BY <1>1, <1>3, <1>4, <2>1, <2>2 DEF ScansStruct
  <1>6. /\ answer' = answer /\ cursor' = cursor + Taken(r, cursor)
        /\ bytes' = IF r.type = "FIXED_STR_PTR" THEN bytes + r.max ELSE bytes
        /\ frames' = Append(Under, [Top EXCEPT !.i = @ + Rows(r, cursor, FALSE),
                                               !.used = @ + Taken(r, cursor)])
        /\ stored' = stored + StoredBytes(r, cursor) /\ carved' = carved
    BY DEF StructField, Storing
  <1>7. stored' <= d.wanted + d.owed
    <2> DEFINE w == StoredBytes(r, cursor)
    <2>1. u \in Int /\ w \in Nat /\ w <= u
      BY <1>1, <1>2, RowNumbers
    <2>2. d.wanted = c.wanted + u /\ d.owed = c.owed /\ stored' = stored + w
      BY <1>5, <1>6
    <2> HIDE DEF u, w
    <2>3. c.wanted \in Int /\ c.owed \in {0, 1} /\ stored \in Nat /\ stored <= c.wanted + c.owed
      BY <1>4, PlaceTypes DEF Walked
    <2> QED  BY <2>1, <2>2, <2>3
  <1> DEFINE a == Top.i + Rows(r, cursor, FALSE)
             b == Top.i + RowsScanned(r)
             g == [Top EXCEPT !.i = a, !.used = used]
             f == [Top EXCEPT !.i = b, !.used = used]
  <1>8. d.frames = Append(Under, f) /\ frames' = Append(Under, g)
    BY <1>5, <1>6 DEF Goes
  <1>9. /\ b = a \/ (b = a + 1 /\ a = i + 1 /\ r.type = "CHARBUF_LEN")
        /\ a \in Nat /\ b \in Nat
    <2>1. \/ Rows(r, cursor, FALSE) = RowsScanned(r) /\ RowsScanned(r) \in {1, 2}
          \/ Rows(r, cursor, FALSE) = 1 /\ RowsScanned(r) = 2 /\ r.type = "CHARBUF_LEN"
      BY DEF Rows, RowsScanned
    <2>2. CASE Rows(r, cursor, FALSE) = RowsScanned(r) /\ RowsScanned(r) \in {1, 2}
      <3>1. b = a
        BY <2>2
      <3>2. b \in Nat
        BY <1>2, <2>2
      <3> QED  BY <3>1, <3>2
    <2>3. CASE Rows(r, cursor, FALSE) = 1 /\ RowsScanned(r) = 2 /\ r.type = "CHARBUF_LEN"
      <3>1. a = i + 1 /\ b = i + 2
        BY <2>3
      <3> HIDE DEF a, b
      <3>2. b = a + 1 /\ a = i + 1 /\ a \in Nat /\ b \in Nat
        BY <1>2, <3>1
      <3> QED  BY <2>3, <3>2
    <2> QED  BY <2>1, <2>2, <2>3
  <1>10. used \in Int
    <2>1. Taken(r, cursor) \in Nat /\ Top.used \in Int
      BY <1>1, <1>2, <1>4, RowNumbers DEF Frame
    <2> QED  BY <2>1
  <1>11. r.type = "CHARBUF_LEN" => i + 1 \in 1..Len(Table) /\ RowAt(i + 1).type = "CHARBUF_COUNT"
    BY <1>2, RowFacts
  <1> HIDE DEF a, b, used
  <1>12. /\ f \in Frame /\ g \in Frame /\ f.i = b /\ g.i = a
         /\ g.call = Top.call /\ f = [g EXCEPT !.i = b]
    <2>1. f \in Frame /\ g \in Frame /\ f.i = b /\ g.i = a
      BY <1>4, <1>9, <1>10 DEF Frame
    <2>2. g.call = Top.call
      BY <1>4, <1>9, <1>10 DEF Frame
    <2>3. f = [g EXCEPT !.i = b]
      BY <1>4, <1>9, <1>10 DEF Frame
    <2> QED  BY <2>1, <2>2, <2>3
  <1> HIDE DEF f, g
  <1>13. Agrees(f, g)
    <2>1. CASE b = a
      <3>1. f = g
        BY <1>8, <1>12, <2>1 DEF f, g
      <3> QED  BY <3>1 DEF Agrees
    <2>2. CASE b = a + 1 /\ a = i + 1 /\ r.type = "CHARBUF_LEN"
      <3>1. g.i \in 1..Len(Table) /\ RowAt(g.i).type = "CHARBUF_COUNT" /\ f.i = g.i + 1
        BY <1>11, <1>12, <2>2
      <3>2. g.call # "base" /\ f = [g EXCEPT !.i = f.i]
        BY <1>1, <1>12
      <3> QED  BY <3>1, <3>2 DEF Agrees
    <2> QED  BY <1>9, <2>1, <2>2
  <1>14. d.cursor = cursor' /\ d.bytes = bytes' /\ d.counted = carved'
    BY <1>5, <1>6 DEF Goes
  <1> QED  BY <1>6, <1>7, <1>8, <1>12, <1>13, <1>14, FollowsBehind

LEMMA CloseStructFollows ==
  ASSUME Walked, pass = "populate", CloseStruct, NEW c \in Place, OnScan(c),
         NEW d \in Place, Scans(c, d)
  PROVE  OnScan(d)'
  <1> DEFINE f == Last1(c)
             u == Top.n + StructUsed(Top)
             g == [Top EXCEPT !.open = FALSE, !.n = u]
             h == [f EXCEPT !.open = FALSE, !.n = u]
  <1>1. /\ Top.call # "base" /\ Top.open /\ pass # "idle"
        /\ Top.i > Top.last \/ (~Top.implied /\ Top.used >= Top.size)
    BY DEF CloseStruct, InStruct, StructEnds
  <1>2. /\ c.bytes = bytes /\ c.counted = carved /\ c.cursor = cursor
        /\ stored <= c.wanted + c.owed /\ Below(c) = Under /\ Agrees(f, Top)
        /\ Top \in Frame /\ f \in Frame /\ ~AtBase(c)
    BY <1>1, FollowsFields
  <1>3. /\ f.call = Top.call /\ f.start = Top.start /\ f.last = Top.last /\ f.limit = Top.limit
        /\ f.n = Top.n /\ f.size = Top.size /\ f.used = Top.used /\ f.from = Top.from
        /\ f.open = Top.open /\ f.implied = Top.implied
    BY <1>2, AgreesFields
  <1>4. f.open /\ (f.i > f.last \/ (~f.implied /\ f.used >= f.size))
    <2>1. f = Top \/ f.i = Top.i + 1
      BY <1>1, <1>2 DEF Agrees
    <2>2. f = Top \/ (Top.i > Top.last => f.i > f.last)
      <3>1. Top.i \in Nat /\ Top.last \in Nat
        BY <1>2 DEF Frame
      <3>2. f.last = Top.last
        BY <1>3
      <3> QED  BY <2>1, <3>1, <3>2
    <2> QED  BY <1>1, <1>3, <2>2
  <1>5. StructUsed(f) = StructUsed(Top)
    BY <1>3 DEF StructUsed
  <1>6. Keeps(c, d) /\ Goes(d, cursor, bytes,
          Append(Under, [f EXCEPT !.open = FALSE, !.n = @ + StructUsed(f)]))
    <2>1. ScansStruct(c, d)
      BY <1>2, <1>4 DEF Scans
    <2> QED  BY <1>2, <1>4, <2>1 DEF ScansStruct
  <1>7. d.frames = Append(Under, h) /\ frames' = Append(Under, g)
    BY <1>3, <1>5, <1>6 DEF Goes, CloseStruct
  <1>8. u \in Int
    BY <1>2 DEF Frame, StructUsed
  <1> HIDE DEF u
  <1>9. /\ h \in Frame /\ g \in Frame /\ h.i = f.i /\ ~g.open /\ ~h.open /\ g.call = Top.call
        /\ h.call = g.call /\ h.start = g.start /\ h.last = g.last /\ h.limit = g.limit
        /\ h.n = g.n /\ h.size = g.size /\ h.used = g.used /\ h.from = g.from
        /\ h.implied = g.implied
    <2>1. f \in Frame /\ Top \in Frame
      BY <1>2
    <2> HIDE DEF f
    <2>2. h \in Frame /\ g \in Frame
      BY <1>8, <2>1, Closed
    <2>3. /\ h.call = f.call /\ h.start = f.start /\ h.last = f.last /\ h.limit = f.limit
          /\ h.i = f.i /\ h.size = f.size /\ h.used = f.used /\ h.from = f.from /\ h.n = u
      BY <1>8, <2>1 DEF Frame
    <2>4. /\ g.call = Top.call /\ g.start = Top.start /\ g.last = Top.last /\ g.limit = Top.limit
          /\ g.size = Top.size /\ g.used = Top.used /\ g.from = Top.from /\ g.n = u
      BY <1>8, <2>1 DEF Frame
    <2>5. ~h.open /\ ~g.open /\ h.implied = f.implied /\ g.implied = Top.implied
      BY <1>8, <2>1 DEF Frame
    <2> HIDE DEF g, h
    <2> QED  BY <1>3, <2>2, <2>3, <2>4, <2>5
  <1> HIDE DEF g, h
  <1>10. Agrees(h, g)
    <2> DEFINE e == [g EXCEPT !.i = h.i]
    <2>1. h.i \in Nat
      BY <1>9 DEF Frame
    <2>2. e \in Frame
      BY <1>9, <2>1 DEF Frame
    <2>3. /\ e.call = g.call /\ e.i = h.i /\ e.start = g.start /\ e.last = g.last
          /\ e.limit = g.limit /\ e.n = g.n /\ e.size = g.size /\ e.used = g.used
          /\ e.from = g.from
      BY <1>9, <2>1 DEF Frame
    <2>4. e.open = g.open /\ e.implied = g.implied
      BY <1>9, <2>1 DEF Frame
    <2>5. h.open = g.open
      BY <1>9 DEF Frame
    <2> HIDE DEF e
    <2>6. h = e
      BY <1>9, <2>2, <2>3, <2>4, <2>5, FrameEqual
    <2> QED  BY <1>1, <1>9, <2>6 DEF Agrees, e
  <1>11. /\ answer' = answer /\ cursor' = cursor /\ bytes' = bytes
         /\ stored' = stored /\ carved' = carved
    BY DEF CloseStruct, passVars
  <1>12. /\ d.cursor = cursor' /\ d.bytes = bytes' /\ d.counted = carved'
         /\ stored' <= d.wanted + d.owed
    BY <1>2, <1>6, <1>11 DEF Goes, Keeps
  <1> QED  BY <1>7, <1>9, <1>10, <1>11, <1>12, FollowsBehind

LEMMA LeaveListFollows ==
  ASSUME Walked, pass = "populate", LeaveList, NEW c \in Place, OnScan(c),
         NEW d \in Place, Scans(c, d)
  PROVE  OnScan(d)'
  <1> DEFINE f == Last1(c)
  <1>1. Top.call # "base" /\ ~Top.open /\ Top.n >= Top.limit /\ pass # "idle"
    BY DEF LeaveList, InList
  <1>2. /\ c.bytes = bytes /\ c.counted = carved /\ c.cursor = cursor
        /\ stored <= c.wanted + c.owed /\ Below(c) = Under /\ Agrees(f, Top)
        /\ Top \in Frame /\ f \in Frame /\ ~AtBase(c)
    BY <1>1, FollowsFields
  <1>3. /\ f.last = Top.last /\ f.from = Top.from /\ ~f.open /\ f.n >= f.limit
    BY <1>1, <1>2, AgreesFields
  <1>4. Keeps(c, d) /\ Goes(d, cursor, bytes,
          Append(SubSeq(Under, 1, Len(Under) - 1),
            [Under[Len(Under)] EXCEPT !.i = Top.last + 1, !.used = @ + (cursor - Top.from)]))
    <2>1. ScansArray(c, d)
      BY <1>2, <1>3 DEF Scans
    <2> QED  BY <1>2, <1>3, <2>1 DEF ScansArray
  <1>5. /\ cursor' = cursor /\ bytes' = bytes /\ stored' = stored /\ carved' = carved
        /\ frames' = Append(SubSeq(Under, 1, Len(Under) - 1),
             [Under[Len(Under)] EXCEPT !.i = Top.last + 1, !.used = @ + (cursor - Top.from)])
    BY DEF LeaveList, passVars
  <1> QED  BY <1>2, <1>4, <1>5, FollowsSame DEF Goes, Keeps

(* At the end of the scan the second pass ends, too. *)
LEMMA BothEnd ==
  ASSUME Walked, pass = "populate", NEW c \in Place, OnScan(c), EndOfScan(c)
  PROVE  Top.call = "base" /\ ~MoreRows
  <1>1. Top.call = "base" /\ Last1(c) = Top /\ c.bytes = bytes
    BY FollowsFields DEF EndOfScan
  <1>2. Top.i > Len(Table) \/ bytes >= answer.size
    BY <1>1 DEF EndOfScan
  <1>3. Top.i \in Nat /\ Len(Table) \in Nat /\ bytes \in Nat /\ answer.size \in Nat
    BY FollowsFields, TableFacts DEF Walked, Frame
  <1> QED  BY <1>1, <1>2, <1>3 DEF MoreRows

LEMMA WalksFollow ==
  ASSUME Walked, pass = "populate", Walks, NEW c \in Place, OnScan(c),
         NEW d \in Place, Scans(c, d)
  PROVE  OnScan(d)'
  BY BaseFieldFollows, BaseErrorsFollows, BaseSkipFollows, BaseStringsFollows, EnterListFollows,
     OpenStructFollows, SkipStructFollows, StructFieldFollows, CloseStructFollows,
     LeaveListFollows DEF Walks

LEMMA ScannedSame ==
  ASSUME NEW s, NEW n, Scanned(s, n), answer' = answer, wanted' = wanted, counted' = counted
  PROVE  Scanned(s, n)'
  <1>1. Path(s, n)' /\ EndOfScan(s[n])'
    BY PathSame, EndSame DEF Scanned
  <1> QED  BY <1>1 DEF Scanned

LEMMA WalksPopulateOK ==
  ASSUME ParserInv, pass = "populate", Walks
  PROVE  PopulateOK'
  <1>1. Walked
    BY DEF ParserInv
  <1>2. PICK s : \E n \in Nat : Scanned(s, n) /\ \E m \in 1..n : OnScan(s[m])
    BY DEF ParserInv, PopulateOK
  <1>3. PICK n \in Nat : Scanned(s, n) /\ \E m \in 1..n : OnScan(s[m])
    BY <1>2
  <1>4. PICK m \in 1..n : OnScan(s[m])
    BY <1>3
  <1>5. /\ answer' = answer /\ pass' = pass /\ wanted' = wanted /\ counted' = counted
    BY DEF Walks, BaseField, BaseErrors, BaseSkip, BaseStrings, EnterList, OpenStruct, SkipStruct,
           StructField, CloseStruct, LeaveList, Storing, passVars
  <1>6. Top.call # "base" \/ MoreRows
    BY DEF Walks, BaseField, BaseErrors, BaseSkip, BaseStrings, EnterList, OpenStruct, SkipStruct,
           StructField, CloseStruct, LeaveList, BaseRow, StructRow, InStruct, NextStruct, InList
  <1>7. Path(s, n) /\ EndOfScan(s[n]) /\ s[m] \in Place
    BY <1>3 DEF Scanned, Path
  <1>8. m # n
    BY <1>1, <1>4, <1>6, <1>7, BothEnd
  <1>9. m + 1 \in 1..n /\ m \in 1..(n - 1)
    BY <1>8
  <1>10. s[m + 1] \in Place /\ Scans(s[m], s[m + 1])
    BY <1>7, <1>9 DEF Path
  <1>11. OnScan(s[m + 1])'
    BY <1>1, <1>4, <1>7, <1>10, WalksFollow
  <1>12. Scanned(s, n)'
    BY <1>3, <1>5, ScannedSame
  <1>13. \E r : \E l \in Nat : Scanned(r, l)' /\ \E q \in 1..l : OnScan(r[q])'
    BY <1>9, <1>11, <1>12
  <1> QED  BY <1>5, <1>13 DEF PopulateOK

LEMMA ScanEnds ==
  ASSUME ParserInv, pass = "scan", PassEnds
  PROVE  PopulateOK'
  <1>1. Walked /\ InBase /\ ~MoreRows /\ NothingPopulated
    BY DEF ParserInv, ScanOK, PassEnds
  <1>2. PICK s : \E n \in Nat : Path(s, n) /\ Stands(s[n]) /\ OwedOK(s[n])
    BY DEF ParserInv, ScanOK
  <1>3. PICK n \in Nat : Path(s, n) /\ Stands(s[n]) /\ OwedOK(s[n])
    BY <1>2
  <1>4. /\ answer' = answer /\ wanted' = wanted /\ counted' = counted /\ carved' = carved
        /\ stored' = stored /\ pass' = "allocate"
    BY DEF PassEnds, passVars
  <1>5. EndOfScan(s[n])
    <2>1. Last1(s[n]) = Top /\ s[n].bytes = bytes /\ AtBase(s[n])
      BY <1>1, <1>3, StandsAt DEF InBase
    <2>2. Top.i \in Nat /\ Len(Table) \in Nat /\ bytes \in Nat /\ answer.size \in Nat
      BY <1>1, BaseTop, TableFacts DEF Walked
    <2>3. Top.i > Len(Table) \/ bytes >= answer.size
      BY <1>1, <2>2 DEF MoreRows
    <2> QED  BY <2>1, <2>3 DEF EndOfScan
  <1>6. s[n].wanted = wanted /\ s[n].counted = counted
    BY <1>3 DEF Stands
  <1>7. s[n].owed = 1 => answer.table \in OneByteShort \/ wanted = -1
    BY <1>3, <1>6 DEF OwedOK
  <1>8. Scanned(s, n)
    BY <1>3, <1>5, <1>6, <1>7 DEF Scanned
  <1>9. Scanned(s, n)'
    BY <1>4, <1>8, ScannedSame
  <1>10. NothingPopulated'
    BY <1>1, <1>4 DEF NothingPopulated, FirstPlace
  <1>11. \E r : \E l \in Nat : Scanned(r, l)'
    BY <1>9
  <1> QED  BY <1>4, <1>10, <1>11 DEF PopulateOK

LEMMA PopulateStarts ==
  ASSUME ParserInv, Populate
  PROVE  PopulateOK'
  <1>1. NothingPopulated /\ \E s : \E n \in Nat : Scanned(s, n)
    BY DEF ParserInv, PopulateOK, Populate
  <1>2. PICK s : \E n \in Nat : Scanned(s, n)
    BY <1>1
  <1>3. PICK n \in Nat : Scanned(s, n)
    BY <1>2
  <1>4. /\ answer' = answer /\ wanted' = wanted /\ counted' = counted /\ carved' = carved
        /\ stored' = stored /\ pass' = "populate" /\ cursor' = 0 /\ bytes' = 0
        /\ frames' = <<Base(2)>>
    BY DEF Populate, passVars
  <1>5. Scanned(s, n)'
    BY <1>3, <1>4, ScannedSame
  <1>6. s[1] = FirstPlace /\ n >= 1
    BY <1>3 DEF Scanned, Path
  <1>7. OnScan(s[1])'
    <2>1. /\ s[1].frames = frames' /\ s[1].bytes = bytes' /\ s[1].counted = carved'
          /\ s[1].cursor = cursor' /\ s[1].wanted = 0 /\ s[1].owed = 0 /\ stored' = 0
      BY <1>1, <1>4, <1>6 DEF FirstPlace, NothingPopulated
    <2>2. stored' <= s[1].wanted + s[1].owed
      BY <2>1
    <2> QED  BY <2>1, <2>2, FollowsSame
  <1>8. \E r : \E l \in Nat : Scanned(r, l)' /\ \E q \in 1..l : OnScan(r[q])'
    <2>1. 1 \in 1..n
      BY <1>6
    <2> QED  BY <1>5, <1>7, <2>1
  <1> QED  BY <1>4, <1>8 DEF PopulateOK

LEMMA PopulateEnds ==
  ASSUME ParserInv, pass = "populate", PassEnds
  PROVE  PopulateOK'
  <1>1. PICK s : \E n \in Nat : Scanned(s, n) /\ \E m \in 1..n : OnScan(s[m])
    BY DEF ParserInv, PopulateOK
  <1>2. PICK n \in Nat : Scanned(s, n) /\ \E m \in 1..n : OnScan(s[m])
    BY <1>1
  <1>3. PICK m \in 1..n : OnScan(s[m])
    BY <1>2
  <1>4. /\ answer' = answer /\ wanted' = wanted /\ counted' = counted /\ carved' = carved
        /\ stored' = stored /\ pass' = "ok" /\ cursor' = cursor /\ bytes' = bytes
        /\ frames' = frames
    BY DEF PassEnds, passVars
  <1>5. Scanned(s, n)'
    BY <1>2, <1>4, ScannedSame
  <1>6. Agrees(Last1(s[m]), Top)'
    BY <1>3, <1>4, RowsSame DEF OnScan, Agrees, Last1, Top, Table
  <1>7. OnScan(s[m])'
    BY <1>3, <1>4, <1>6 DEF OnScan, Below, Under, Top, Last1
  <1>8. \E r : \E l \in Nat : Scanned(r, l)' /\ \E q \in 1..l : OnScan(r[q])'
    BY <1>5, <1>7
  <1> QED  BY <1>4, <1>8 DEF PopulateOK

-----------------------------------------------------------------------------
(* Every step keeps the whole invariant. *)

LEMMA ParserStepKeeps ==
  ASSUME ParserInv, ParserStep
  PROVE  ParserInv'
  <1>1. Walked' /\ Walked
    BY StepWalked DEF ParserInv
  <1>2. CASE Walks
    <2>1. pass' = pass /\ pass \in Walking
      BY <1>2 DEF Walks, BaseField, BaseErrors, BaseSkip, BaseStrings, EnterList, OpenStruct,
         SkipStruct, StructField, CloseStruct, LeaveList, BaseRow, InBase, StructRow, InStruct,
         NextStruct, InList
    <2>2. CASE pass = "scan"
      <3>1. ScanOK'
        BY <1>2, <2>2, BaseFieldScanOK, BaseErrorsScanOK, BaseStringsScanOK, StructFieldScanOK,
           StepScanOK DEF Walks
      <3> QED  BY <1>1, <2>1, <2>2, <3>1 DEF ParserInv, IdleOK, PopulateOK
    <2>3. CASE pass = "populate"
      <3>1. PopulateOK'
        BY <1>2, <2>3, WalksPopulateOK
      <3> QED  BY <1>1, <2>1, <2>3, <3>1 DEF ParserInv, IdleOK, ScanOK
    <2> QED  BY <2>1, <2>2, <2>3 DEF Walking
  <1>3. CASE StartScan
    <2>1. ScanOK' /\ pass' = "scan"
      BY <1>3, StartScanOK DEF StartScan
    <2> QED  BY <1>1, <2>1 DEF ParserInv, IdleOK, PopulateOK
  <1>4. CASE PassEnds
    <2>1. PopulateOK' /\ pass' \in {"allocate", "ok"}
      <3>1. CASE pass = "scan"
        BY <1>4, <3>1, ScanEnds DEF PassEnds
      <3>2. CASE pass = "populate"
        BY <1>4, <3>2, PopulateEnds DEF PassEnds
      <3> QED  BY <1>4, <3>1, <3>2 DEF PassEnds, InBase, Walking
    <2> QED  BY <1>1, <2>1 DEF ParserInv, IdleOK, ScanOK
  <1>5. CASE Populate
    <2>1. PopulateOK' /\ pass' = "populate"
      BY <1>5, PopulateStarts DEF Populate
    <2> QED  BY <1>1, <2>1 DEF ParserInv, IdleOK, ScanOK
  <1>6. CASE NoMemory \/ BadTable \/ BadSize \/ Misread
    <2>1. pass' \in {"no memory", "bad table", "bad size", "misread"}
      BY <1>6 DEF NoMemory, BadTable, BadSize, Misread, Fail
    <2> QED  BY <1>1, <2>1 DEF ParserInv, IdleOK, ScanOK, PopulateOK
  <1> QED  BY <1>2, <1>3, <1>4, <1>5, <1>6 DEF ParserStep, Walks

LEMMA ParserStays ==
  ASSUME ParserInv, parserVars' = parserVars
  PROVE  ParserInv'
  <1>1. /\ pass' = pass /\ answer' = answer /\ cursor' = cursor /\ bytes' = bytes
        /\ wanted' = wanted /\ stored' = stored /\ counted' = counted /\ carved' = carved
        /\ frames' = frames
    BY DEF parserVars
  <1>2. Walked'
    <2>1. CASE pass = "idle"
      <3>1. frames' = <<>> /\ frames' \in Seq(Frame)
        BY <1>1, <2>1 DEF ParserInv, Walked, FramesOK
      <3>2. FramesOK'
        BY <1>1, <2>1, <3>1 DEF FramesOK
      <3>3. BytesOK'
        BY <1>1, <2>1 DEF BytesOK, Walking
      <3> QED  BY <1>1, <3>2, <3>3 DEF ParserInv, Walked
    <2>2. CASE pass # "idle"
      <3>1. FramesOK'
        BY <1>1, <2>2, SameFrames DEF ParserInv
      <3>2. BytesOK'
        BY <1>1, SameBytes DEF ParserInv
      <3> QED  BY <1>1, <3>1, <3>2 DEF ParserInv, Walked
    <2> QED  BY <2>1, <2>2
  <1>3. IdleOK'
    BY <1>1 DEF ParserInv, IdleOK
  <1>4. \A s, n : Path(s, n) => Path(s, n)'
    BY <1>1, PathSame
  <1>5. \A c : (Stands(c) => Stands(c)') /\ (OwedOK(c) => OwedOK(c)')
    BY <1>1, EndSame DEF Stands, Goes
  <1>6. NothingPopulated => NothingPopulated'
    BY <1>1 DEF NothingPopulated, FirstPlace
  <1>7. ScanOK'
    <2>1. pass = "scan" =>
            /\ \E s : \E n \in Nat : Path(s, n)' /\ Stands(s[n])' /\ OwedOK(s[n])'
            /\ NothingPopulated'
      BY <1>4, <1>5, <1>6 DEF ParserInv, ScanOK
    <2> QED  BY <1>1, <2>1 DEF ScanOK
  <1>8. \A s, n : Scanned(s, n) => Scanned(s, n)'
    BY <1>1, ScannedSame
  <1>9. \A c : OnScan(c) => OnScan(c)'
    <2>1. ASSUME NEW c, Agrees(Last1(c), Top) PROVE Agrees(Last1(c), Top)'
      BY <1>1, <2>1, RowsSame DEF Agrees, Last1, Top, Table
    <2> QED  BY <1>1, <2>1 DEF OnScan, Below, Under, Top, Last1
  <1>10. PopulateOK'
    <2>1. pass = "allocate" => (\E s : \E n \in Nat : Scanned(s, n)') /\ NothingPopulated'
      BY <1>6, <1>8 DEF ParserInv, PopulateOK
    <2>2. pass \in {"populate", "ok"} =>
            \E s : \E n \in Nat : Scanned(s, n)' /\ \E m \in 1..n : OnScan(s[m])'
      BY <1>8, <1>9 DEF ParserInv, PopulateOK
    <2> QED  BY <1>1, <2>1, <2>2 DEF PopulateOK
  <1> QED  BY <1>2, <1>3, <1>7, <1>10 DEF ParserInv

LEMMA ParserStarts ==
  ASSUME NotParsing, answer \in Answers
  PROVE  ParserInv
  <1>1. /\ pass = "idle" /\ cursor = 0 /\ bytes = 0 /\ wanted = 0 /\ stored = 0
        /\ counted = [x \in StructIndexes |-> 0] /\ carved = counted /\ frames = <<>>
    BY DEF NotParsing
  <1>2. FramesOK
    <2>1. frames \in Seq(Frame) /\ Len(frames) = 0
      BY <1>1
    <2> QED  BY <1>1, <2>1 DEF FramesOK
  <1>3. BytesOK
    BY <1>1 DEF BytesOK, Walking
  <1>4. Walked
    BY <1>1, <1>2, <1>3 DEF Walked
  <1> QED  BY <1>1, <1>4 DEF ParserInv, IdleOK, ScanOK, PopulateOK

(* In every state the table parser is walking through the answer as its    *)
(* tables say, the arrays it is in are nested as in the table, and in the  *)
(* second pass it is at a place the scan has been at                       *)
(* (parseBufferWithTable, handleArrays, handleCountedArrays).              *)
THEOREM ParserInvariant == Spec => []ParserInv
  <1>1. Init => ParserInv
    BY SampleAssumption, ParserStarts DEF Init
  <1>2. ParserInv /\ [Next]_vars => ParserInv'
    <2> SUFFICES ASSUME ParserInv, [Next]_vars PROVE ParserInv'
      OBVIOUS
    <2>1. CASE Talk \/ ParserReturns \/ UNCHANGED vars
      BY <2>1, ParserStays DEF Talk, ParserReturns, vars
    <2>2. CASE Parse
      BY <2>2, ParserStepKeeps DEF Parse
    <2> QED  BY <2>1, <2>2 DEF Next
  <1> QED  BY <1>1, <1>2, PTL DEF Spec

(* The arrays an answer is nested in are never more than the parser has    *)
(* room for.                                                               *)
LEMMA FramesFit ==
  ASSUME Walked
  PROVE  Len(frames) <= Cardinality(StructIndexes)
  <1>0. answer \in Answers /\ Cardinality(StructIndexes) \in Nat
    BY TablesAssumption, FS_CardinalityType DEF Walked
  <1>1. frames \in Seq(Frame) /\ Len(frames) \in Nat
    BY DEF Walked, FramesOK
  <1>2. Cardinality(StructIndexes) >= 2
    <2>1. 2 \in 1..Len(Table)
      BY <1>0, TableFacts
    <2>2. RowAt(2).nest \in Nat /\ RowAt(2).nest <= Cardinality(StructIndexes) - 2
      BY <1>0, <2>1, RowFacts
    <2> QED  BY <1>0, <2>2
  <1>3. CASE Len(frames) < 2
    BY <1>0, <1>1, <1>2, <1>3
  <1>4. CASE Len(frames) >= 2
    <2>1. ArrayOK(Len(frames))
      <3>1. Len(frames) \in 2..Len(frames)
        BY <1>1, <1>4
      <3> QED  BY <3>1 DEF Walked, FramesOK
    <2> DEFINE a == frames[Len(frames) - 1].i
    <2>2. a \in 1..Len(Table) /\ RowAt(a).nest >= Len(frames) - 2
      BY <2>1 DEF ArrayOK
    <2> HIDE DEF a
    <2>3. RowAt(a).nest \in Nat /\ RowAt(a).nest <= Cardinality(StructIndexes) - 2
      BY <1>0, <2>2, RowFacts
    <2> QED  BY <1>0, <1>1, <2>2, <2>3
  <1> QED  BY <1>1, <1>3, <1>4

(* getAndParseSmapiBuffer keeps the types of its state, with any answers   *)
(* of SMAPI: the counts of the parser are never negative, and the arrays   *)
(* within arrays are never more than MAX_STRUCT_ARRAYS.                    *)
THEOREM ParserTypes == Spec => []TypeOK
  <1>1. ParserInv => ParserTypeOK
    <2> SUFFICES ASSUME ParserInv PROVE ParserTypeOK
      OBVIOUS
    <2>1. Walked
      BY DEF ParserInv
    <2> QED  BY <2>1, FramesFit DEF Walked, ParserTypeOK
  <1>2. ConvTypeOK /\ ParserInv => TypeOK
    BY <1>1 DEF TypeOK
  <1> QED  BY <1>2, ParserInvariant, ConversationTypes, PTL

(* The second pass stays within what getAndParseSmapiBuffer allocated      *)
(* after the scan: for any answer it carves no more structures of an index *)
(* than were counted and stores no more bytes of strings than were added   *)
(* up; but for the one byte of OneByteShort.                               *)
THEOREM StorageIsEnough == Spec => []StorageHolds
  <1>1. ParserInv => StorageHolds
    <2> SUFFICES ASSUME ParserInv, pass \in {"populate", "ok"}
                 PROVE  /\ \A x \in StructIndexes : carved[x] <= counted[x]
                        /\ \/ stored <= wanted \/ stored = 0
                           \/ answer.table \in OneByteShort /\ stored = wanted + 1
      BY DEF StorageHolds
    <2>1. Walked
      BY DEF ParserInv
    <2>2. PICK s : \E n \in Nat : Scanned(s, n) /\ \E m \in 1..n : OnScan(s[m])
      BY DEF ParserInv, PopulateOK
    <2>3. PICK n \in Nat : Scanned(s, n) /\ \E m \in 1..n : OnScan(s[m])
      BY <2>2
    <2>4. PICK m \in 1..n : OnScan(s[m])
      BY <2>3
    <2>5. /\ s[m].counted = carved /\ stored <= s[m].wanted + s[m].owed
          /\ s[n].counted = counted /\ s[n].wanted = wanted
          /\ s[n].owed = 1 => answer.table \in OneByteShort \/ wanted = -1
      BY <2>3, <2>4 DEF OnScan, Scanned
    <2>6. s[m] \in Place /\ s[n] \in Place /\ Least(s[m], s[n])
      BY <2>3 DEF Scanned, Path
    <2>7. \A x \in StructIndexes : carved[x] <= counted[x]
      BY <2>5, <2>6 DEF Least
    <2>8. /\ s[m].wanted + s[m].owed \in Int /\ s[n].wanted \in Int /\ s[n].owed \in {0, 1}
          /\ s[m].wanted + s[m].owed <= s[n].wanted + s[n].owed /\ stored \in Nat
      BY <2>1, <2>6, PlaceTypes DEF Least, Walked
    <2>9. stored <= wanted + s[n].owed /\ wanted \in Int
      BY <2>5, <2>8
    <2>10. \/ stored <= wanted \/ stored = 0
           \/ answer.table \in OneByteShort /\ stored = wanted + 1
      <3>1. CASE s[n].owed = 0
        <4>1. stored <= wanted
          BY <2>8, <2>9, <3>1
        <4> QED  BY <4>1, Zenon
      <3>2. CASE s[n].owed = 1
        <4>1. stored <= wanted \/ stored = wanted + 1
          BY <2>8, <2>9, <3>2
        <4>2. CASE wanted = -1
          BY <2>8, <4>1, <4>2
        <4>3. CASE answer.table \in OneByteShort
          <5>1. CASE stored <= wanted
            BY <5>1, Zenon
          <5>2. CASE stored = wanted + 1
            BY <4>3, <5>2, Zenon
          <5> QED  BY <4>1, <5>1, <5>2, Zenon
        <4> QED  BY <2>5, <3>2, <4>2, <4>3
      <3> QED  BY <2>8, <3>1, <3>2
    <2> QED  BY <2>7, <2>10
  <1> QED  BY <1>1, ParserInvariant, PTL
=============================================================================
