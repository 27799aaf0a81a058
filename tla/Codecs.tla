------------------------------- MODULE Codecs -------------------------------
(***************************************************************************)
(* The pure algorithms of the libraries and the sensor's protocol, each    *)
(* against an independent definition of what it should compute: the JSON   *)
(* parser against the grammar of ECMA-404 and against documents built as   *)
(* trees, the MQTT packets against a reader of what was written, the topic *)
(* filters against their levels.                                           *)
(*                                                                         *)
(* A step chooses an input or makes it longer; the invariants ask about    *)
(* every input reached.                                                    *)
(***************************************************************************)
EXTENDS Json, PacketCodec, TopicMatch, DhtSensor

CONSTANTS MaxTokens,   \* bound: tokens of a JSON text
          MaxUnits,    \* bound: units of a JSON string
          MaxName,     \* bound: characters of a topic name and of a filter
          MaxFilter

\* Nominal pulses of a 0 and of a 1, in us.
NominalPulses == [b \in 0..1 |-> IF b = 0 THEN {26} ELSE {70}]

\* Packets of fields of a few lengths, at the edges of what changes their form.
String(n) == [i \in 1..n |-> 65]
AtMost(set, most) == UNION {[1..n -> set] : n \in 0..most}
SmallPublishes == [qos : 0..2, retain : BOOLEAN, dup : BOOLEAN, topic : {String(n) : n \in 0..2},
                   payload : {String(n) : n \in {0, 1, 122, 123, 124}}]
EdgeSizes == [topic : {0, 1, 65535}, qos : 0..2,
              payload : 268369880..268369920 \cup 268435440..268435460 \cup 110..130 \cup 16370..16390]
SmallConnects == [cleanSession : BOOLEAN, keepAlive : {0, 300}, clientId : {String(n) : n \in 0..1},
                  will : AtMost([qos : 0..2, retain : BOOLEAN, dup : {FALSE}, topic : {String(1)},
                                payload : {String(n) : n \in {0, 100}}], 1),
                  user : AtMost({String(n) : n \in {0, 20}}, 1), password : AtMost({String(2)}, 1)]
SmallSubscriptions == AtMost([filter : {String(n) : n \in 0..2}, qos : 0..2], 3)
LengthBytes == AtMost({0, 1, 127, 128, 129, 255}, 5)
SmallPackets == [type : 0..255, data : {<<>>}] \cup [type : 48..63, data : AtMost({0, 1}, 6)]
                \cup [type : {32, 64, 80, 98, 112, 144, 176, 208}, data : AtMost({0, 1, 2, 5, 6, 128}, 4)]

\* Every name and every filter of a few characters.
TopicCharacters == {"a", "/", "$", "+", "#"}
TopicNames == UNION {[1..n -> {"a", "/", "$"}] : n \in 1..MaxName}
TopicFilters == UNION {[1..n -> {"a", "/", "+", "#"}] : n \in 1..MaxFilter}

VARIABLE input  \* what the codecs are asked about, with its kind

vars == <<input, packet, sensorVars, topicVars>>
Choose(kind, value) == input' = [kind |-> kind, value |-> value] /\ UNCHANGED <<packet, sensorVars, topicVars>>
Fresh == input.kind = "none" /\ PacketInit /\ SensorInit /\ TopicInit
Kind(kind) == Fresh \/ input.kind = kind
Value == IF input.kind = "none" THEN <<>> ELSE input.value

-----------------------------------------------------------------------------
\* JSON texts, as sequences of tokens, with and without spaces between them.

Str == <<Quote, 97, Quote>>
One == <<49>>
Tok(c) == <<c>>
Tokens == {Str, One, Tok(CurlyOpen), Tok(CurlyClose), Tok(SquareOpen), Tok(SquareClose), Tok(Comma), Tok(Colon)}

\* The values, the lists of elements and the lists of members of n tokens.
Grammar[n \in 0..MaxTokens] ==
  LET Splits(left, right) ==
        UNION {{l \o <<Tok(Comma)>> \o r : l \in Grammar[k][left], r \in Grammar[n - 1 - k][right]} : k \in 1..n - 2}
      Enclosed(open, close, inner) == {<<Tok(open)>> \o e \o <<Tok(close)>> : e \in inner}
      values == IF n = 0 THEN {} ELSE IF n = 1 THEN {<<Str>>, <<One>>}
                ELSE Enclosed(SquareOpen, SquareClose, Grammar[n - 2].elements \cup IF n = 2 THEN {<<>>} ELSE {})
                     \cup Enclosed(CurlyOpen, CurlyClose, Grammar[n - 2].members \cup IF n = 2 THEN {<<>>} ELSE {})
  IN [values |-> values,
      elements |-> values \cup Splits("values", "elements"),
      members |-> IF n < 3 THEN {} ELSE {<<Str, Tok(Colon)>> \o v : v \in Grammar[n - 2].values}
                                         \cup Splits("members", "members")]
JsonTexts == UNION {Grammar[n].values : n \in 1..MaxTokens}

Compact(text) == FlattenSeq(text)
Spaced(text) == FlattenSeq([i \in DOMAIN text |-> <<32>> \o text[i] \o <<10>>])

\* The brackets of a text close in the order they open, in at most some depth.
Bracketed(text) ==
  LET step(stack, t) == CASE t[1] \in OpenBrackets -> Append(stack, t[1])
                          [] t[1] \in {SquareClose, CurlyClose} ->
                               IF stack # <<>> /\ isMatchingBracket(Last(stack), t[1]) THEN Front(stack) ELSE <<0>>
                          [] OTHER -> stack
      levels[i \in 0..Len(text)] == IF i = 0 THEN <<>> ELSE step(levels[i - 1], text[i])
  IN [proper |-> levels[Len(text)] = <<>>, deep |-> \E i \in DOMAIN text : Len(levels[i]) > JSON_MAX_DEPTH]

TextRight(text) ==
  LET status == JSON_Validate(Spaced(text)) IN
  /\ (\A i \in 1 .. Len(text) - 1 : <<text[i], text[i + 1]>> # <<One, One>>) => JSON_Validate(Compact(text)) = status
  /\ text \in JsonTexts => status = IF Bracketed(text).deep THEN "JSONMaxDepthExceeded" ELSE "JSONSuccess"
  /\ status = "JSONSuccess" => Bracketed(text).proper /\ ~Bracketed(text).deep

-----------------------------------------------------------------------------
\* Strings: the units of one, and whether each may stand where it does.

High == <<Backslash, 117, 68, 56, 51, 52>>
Low == <<Backslash, 117, 100, 68, 49, 69>>
GoodUnits == {<<120>>, <<Backslash, 110>>, <<Backslash, Quote>>, <<Backslash, 9>>,      \* x \n \" and an escaped tab
              <<Backslash, 117, 48, 48, 52, 49>>, <<195, 169>>, <<226, 130, 172>>, <<240, 159, 152, 128>>}
BadUnits == {<<9>>, <<Backslash, 120>>, <<Backslash, 117, 48, 48, 48, 48>>, <<Backslash, 117, 48, 103, 52, 49>>,
             <<128>>, <<192, 128>>, <<224, 128, 128>>, <<237, 160, 128>>, <<244, 144, 128, 128>>, <<245, 128, 128, 128>>}
Units == GoodUnits \cup BadUnits \cup {High, Low}
UnitsRight(units) ==
  LET good == /\ \A i \in DOMAIN units : units[i] \notin BadUnits
              /\ \A i \in DOMAIN units : units[i] = High => i < Len(units) /\ units[i + 1] = Low
              /\ \A i \in DOMAIN units : units[i] = Low => i > 1 /\ units[i - 1] = High
      text == <<Quote>> \o FlattenSeq(units) \o <<Quote>>
  IN JSON_Validate(text) = IF good THEN "JSONSuccess" ELSE "JSONIllegalDocument"

-----------------------------------------------------------------------------
\* Numbers.

NumberChars == {Minus, Zero, 49, Dot, 101, Plus}
IsDigits(s) == s # <<>> /\ \A i \in DOMAIN s : s[i] \in Digits
IsNumber(s) ==
  LET body == IF s # <<>> /\ s[1] = Minus THEN Tail(s) ELSE s
      Part(i, j) == SubSeq(body, i, j)
      IsInt(t) == IsDigits(t) /\ (t[1] = Zero => Len(t) = 1)
      IsFraction(t) == t = <<>> \/ (t[1] = Dot /\ IsDigits(Tail(t)))
      IsExponent(t) == t = <<>> \/ (t[1] = 101 /\ (IsDigits(Tail(t)) \/ (Len(t) > 1 /\ t[2] \in {Plus, Minus} /\ IsDigits(From(t, 3)))))
  IN \E i \in 1..Len(body), j \in 1..Len(body) :
        i <= j /\ IsInt(Part(1, i)) /\ IsFraction(Part(i + 1, j)) /\ IsExponent(Part(j + 1, Len(body)))
NumberRight(s) == JSON_Validate(s) = "JSONSuccess" <=> IsNumber(s)

-----------------------------------------------------------------------------
\* Documents built as trees, and the paths of queries into them.

Leaves == {[type |-> "JSONNumber", text |-> One], [type |-> "JSONString", text |-> Str]}
Key(c) == <<c>>
Keys == {Key(97), Key(98)}
Array(items) == [type |-> "JSONArray", items |-> items]
Object(members) == [type |-> "JSONObject", items |-> members]
Member(key, tree) == [key |-> key, tree |-> tree]
Trees(first, second) ==
  LET items == {Member(<<>>, t) : t \in first}  others == {Member(<<>>, t) : t \in second}
      members == {Member(k, t) : k \in Keys, t \in first}  otherMembers == {Member(k, t) : k \in Keys, t \in second}
      Lists(a, b) == {<<>>} \cup {<<x>> : x \in a} \cup {<<x, y>> : x \in a, y \in b} \cup {<<y, x>> : x \in a, y \in b}
  IN {Array(l) : l \in Lists(items, others)} \cup {Object(l) : l \in Lists(members, otherMembers)}
Flat == Leaves \cup Trees(Leaves, Leaves)
Documents == Flat \cup Trees(Flat, {Array(<<>>)})

IsLeaf(tree) == tree.type \in {"JSONNumber", "JSONString"}
RECURSIVE Render(_, _)
Render(tree, gap) ==
  LET item(m) == gap \o (IF m.key = <<>> THEN <<>> ELSE <<Quote>> \o m.key \o <<Quote>> \o gap \o <<Colon>> \o gap)
                   \o Render(m.tree, gap)
      list == FlattenSeq([i \in DOMAIN tree.items |-> (IF i = 1 THEN <<>> ELSE <<Comma>>) \o item(tree.items[i]) \o gap])
  IN IF IsLeaf(tree) THEN tree.text
     ELSE IF tree.type = "JSONArray" THEN <<SquareOpen>> \o list \o <<SquareClose>>
     ELSE <<CurlyOpen>> \o list \o <<CurlyClose>>
Shown(tree, gap) == [type |-> tree.type, value |-> IF tree.type = "JSONString" THEN <<97>> ELSE Render(tree, gap)]

\* A step of a path is a key, or the number of an element as <<n>>.
Paths == LET steps == Keys \cup {<<0>>, <<1>>} IN {<<s>> : s \in steps} \cup {<<s, t>> : s \in steps, t \in steps}
Query(path) ==
  LET text(i) == IF path[i] \in Keys THEN (IF i = 1 THEN <<>> ELSE <<Dot>>) \o path[i]
                 ELSE <<SquareOpen, Zero + path[i][1], SquareClose>>
  IN FlattenSeq([i \in DOMAIN path |-> text(i)])
\* The trees that a step leads to: none or one.
Step(tree, s) ==
  LET named == SelectSeq(tree.items, LAMBDA m : m.key = s) IN
  CASE tree.type = "JSONObject" /\ s \in Keys    -> IF named = <<>> THEN <<>> ELSE <<named[1].tree>>
    [] tree.type = "JSONArray" /\ s \notin Keys -> IF s[1] < Len(tree.items) THEN <<tree.items[s[1] + 1].tree>> ELSE <<>>
    [] OTHER                                     -> <<>>
Follow(tree, path) == LET step(trees, s) == IF trees = <<>> THEN <<>> ELSE Step(trees[1], s) IN FoldLeft(step, <<tree>>, path)

DocumentRight(tree) ==
  \A gap \in {<<>>, <<32>>} :
    LET text == Render(tree, gap) IN
    /\ \A path \in Paths :
         JSON_SearchConst(text, Query(path)) =
           IF Follow(tree, path) = <<>> THEN [status |-> "JSONNotFound"]
           ELSE [status |-> "JSONSuccess"] @@ Shown(Follow(tree, path)[1], gap)
    /\ ~IsLeaf(tree) =>
         Iteration(text, 1) = [i \in DOMAIN tree.items |-> [key |-> tree.items[i].key] @@ Shown(tree.items[i].tree, gap)]

-----------------------------------------------------------------------------
Init == input = [kind |-> "none"] /\ PacketInit /\ SensorInit /\ TopicInit

LongerText == Kind("text") /\ Len(Value) < MaxTokens /\ \E t \in Tokens : Choose("text", Append(Value, t))
LongerString == Kind("string") /\ Len(Value) < MaxUnits /\ \E u \in Units : Choose("string", Append(Value, u))
LongerNumber == Kind("number") /\ Len(Value) < 5 /\ \E c \in NumberChars : Choose("number", Append(Value, c))
ChooseDocument == Fresh /\ \E tree \in Documents : Choose("document", tree)
AskPacket == input.kind = "none" /\ SensorInit /\ TopicInit /\ PacketNext /\ UNCHANGED <<input, sensorVars, topicVars>>
ReadSensor == input.kind = "none" /\ PacketInit /\ TopicInit /\ SensorNext /\ UNCHANGED <<input, packet, topicVars>>
MatchTopic == input.kind = "none" /\ PacketInit /\ SensorInit /\ TopicNext /\ UNCHANGED <<input, packet, sensorVars>>

Next == \/ LongerText \/ LongerString \/ LongerNumber \/ ChooseDocument
        \/ AskPacket \/ ReadSensor \/ MatchTopic
Spec == Init /\ [][Next]_vars
-----------------------------------------------------------------------------
\* The parser accepts every JSON text within its depth, nothing whose brackets
\* do not match, exactly the strings (with an escaped control character and
\* without \u0000, as its comments say) and numbers of the grammar; a search finds the
\* value that its path leads to, and the iterator every pair in order.
JsonFaithful == CASE input.kind = "text"     -> TextRight(input.value)
                  [] input.kind = "string"   -> UnitsRight(input.value)
                  [] input.kind = "number"   -> NumberRight(input.value)
                  [] input.kind = "document" -> DocumentRight(input.value)
                  [] OTHER                   -> TRUE
=============================================================================
