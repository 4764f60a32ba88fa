------------------------------ MODULE MCSmcli ------------------------------
(***************************************************************************)
(* Bounds for Smcli.  The size of a request and the puts are linear in the *)
(* lengths and in count times length: all lengths 0, all 1, and one of     *)
(* them 2, with 0 to 2 entries, tell any two such sums apart.  The option  *)
(* tests are disjunctions over single options: all options, all but one,   *)
(* and none reach every outcome.                                           *)
(***************************************************************************)
EXTENDS Smcli

CONSTANTS Names, Functions

Levels == {NoLevel, 540, 610, 611, 620, 630, 640, 720}

Texts(cmd) == {l \in Letters(cmd) : OptionOf(cmd, l).start \notin {"nocase", "keys"}}
NoCases(cmd) == {l \in Letters(cmd) : OptionOf(cmd, l).start = "nocase"}
KeyCounts(cmd) ==
  IF KeyOptions(cmd) = {} THEN {0}
  ELSE LET o == cmd.options[CHOOSE i \in KeyOptions(cmd) : TRUE]
       IN {n \in {0, o.least - 1, o.least, o.least + 1, o.cap, o.most, o.most + 1} :
             n \in 0..(IF o.cap = Unlimited THEN o.least + 1 ELSE o.most + 1)}
Enough(cmd) ==
  LET n == {cmd.options[i].least : i \in KeyOptions(cmd)}
  IN IF n = {} THEN 0 ELSE CHOOSE k \in n : TRUE

Line(n, given, value, keys, stop, header, level) ==
  [name |-> n, given |-> given, value |-> value, keys |-> keys, stop |-> stop,
   header |-> header, first |-> FALSE, level |-> level]
KeywordFirst(l) == [l EXCEPT !.header = TRUE, !.first = TRUE]

OptionLines(n) ==
  LET cmd == Dispatch[n] IN
  {Line(n, Texts(cmd), v, k, "none", TRUE, 720) : v \in {-1, 0, 1}, k \in KeyCounts(cmd)}
    \cup {Line(n, Texts(cmd) \ {l}, 1, Enough(cmd), "none", TRUE, 720) : l \in Texts(cmd)}
    \cup {Line(n, Texts(cmd) \cup {l}, 1, Enough(cmd), "none", TRUE, 720) : l \in NoCases(cmd)}
    \cup {Line(n, {}, 0, 0, "none", TRUE, 720)}

StopLines(n) ==
  LET S == {Line(n, {}, 0, 0, s, h, v) : s \in {"help", "unknown"}, h \in BOOLEAN, v \in Levels}
  IN S \cup {KeywordFirst(l) : l \in S}

NoNames == {"none", "help", "No_Such_API"}

MCLines ==
  UNION {OptionLines(n) \cup StopLines(n) : n \in Names} \cup UNION {StopLines(n) : n \in NoNames}

LengthSets(names) ==
  {[x \in names |-> n] : n \in {0, 1}} \cup {[x \in names |-> IF x = y THEN 2 ELSE 1] : y \in names}

HasLast(api) == \E i \in 1..Len(api.fields) : api.fields[i].part = "last"
MCLibraryCalls ==
  UNION {LET api == Vmapi[f] IN
         {[fn |-> f, len |-> len, count |-> c, entry |-> e] :
            len \in LengthSets(StringsOf(api)),
            c \in IF ~api.lists THEN {0} ELSE IF HasLast(api) THEN 1..2 ELSE 0..2,
            e \in IF api.lists THEN {1, 2} ELSE {0}} : f \in Functions}

(* The answers the tails tell apart. *)
MCAnswers ==
  {[rc |-> 0, code |-> x[1], reason |-> x[2]] :
     x \in {<<0, 0>>, <<0, 12>>, <<0, 16>>, <<0, 24>>, <<0, 100>>, <<0, 104>>, <<4, 4>>,
            <<200, 16>>, <<592, 1>>}} \cup {[rc |-> 5, code |-> 0, reason |-> 0]}

AllNames == DOMAIN Dispatch
AllFunctions == DOMAIN Vmapi
=============================================================================
