-------------------------------- MODULE Json --------------------------------
(***************************************************************************)
(* core_json.c, the parser the device shadow and the jobs are to be read   *)
(* with: the validator, the search by query and the iterator.              *)
(*                                                                         *)
(* A buffer is the sequence of its bytes; a position counts from 1.  A     *)
(* function that the code gives an index to advance returns the position   *)
(* after what it skipped, and None where the code returns false.           *)
(***************************************************************************)
EXTENDS Integers, SequencesExt

CONSTANT JSON_MAX_DEPTH
ASSUME DepthAssumption == JSON_MAX_DEPTH \in Nat \ {0}

None == 0
Quote == 34
Plus == 43
Comma == 44
Minus == 45
Dot == 46
Slash == 47
Zero == 48
Colon == 58
SquareOpen == 91
Backslash == 92
SquareClose == 93
CurlyOpen == 123
CurlyClose == 125
Digits == 48..57
White == {32, 9, 10, 13}
OpenBrackets == {SquareOpen, CurlyOpen}
isMatchingBracket(x, y) == <<x, y>> \in {<<CurlyOpen, CurlyClose>>, <<SquareOpen, SquareClose>>}

\* buf[i] is one of a set.
Is(buf, i, set) == i <= Len(buf) /\ buf[i] \in set
RECURSIVE SkipWhile(_, _, _)
SkipWhile(buf, i, set) == IF Is(buf, i, set) THEN SkipWhile(buf, i + 1, set) ELSE i
skipSpace(buf, i) == SkipWhile(buf, i, White)

-----------------------------------------------------------------------------
\* Strings.

RECURSIVE countHighBits(_)
countHighBits(c) == IF c < 128 THEN 0 ELSE 1 + countHighBits((c % 128) * 2)

\* The shortest encoding of a code point that is no surrogate.
shortestUTF8(length, value) ==
  /\ value \in CASE length = 2 -> 128 .. 2^11 - 1
                 [] length = 3 -> 2^11 .. 2^16 - 1
                 [] OTHER      -> 2^16 .. 1114111
  /\ value \notin 55296..57343

skipUTF8MultiByte(buf, i) ==
  LET n == countHighBits(buf[i])
      add(value, c) == (value * 64) + (c % 64)
  IN IF /\ buf[i] \in 194..244
        /\ i + n - 1 <= Len(buf)
        /\ \A k \in i + 1 .. i + n - 1 : buf[k] \in 128..191
        /\ shortestUTF8(n, FoldLeft(add, buf[i] % 2^(7 - n), SubSeq(buf, i + 1, i + n - 1)))
       THEN i + n ELSE None
skipUTF8(buf, i) == IF i > Len(buf) THEN None ELSE IF buf[i] < 128 THEN i + 1 ELSE skipUTF8MultiByte(buf, i)

NotHex == 16
hexToInt(c) == CASE c \in 97..102 -> c - 87 [] c \in 65..70 -> c - 55 [] c \in Digits -> c - Zero [] OTHER -> NotHex

\* \uXXXX, with at least a byte after it, for anything but zero.
Escaped(next, value) == IF value > 0 THEN [next |-> next, value |-> value] ELSE [next |-> None, value |-> 0]
skipOneHexEscape(buf, i) ==
  LET add(value, c) == value * 16 + hexToInt(c)
  IN IF /\ i + 6 <= Len(buf) /\ buf[i] = Backslash /\ buf[i + 1] = 117
        /\ \A k \in 2..5 : hexToInt(buf[i + k]) # NotHex
       THEN Escaped(i + 6, FoldLeft(add, 0, SubSeq(buf, i + 2, i + 5))) ELSE [next |-> None, value |-> 0]

Surrogates(first, second) ==
  CASE first.value \in 55296..56319 -> IF second.value \in 56320..57343 THEN second.next ELSE None
    [] first.value \in 56320..57343 -> None
    [] OTHER                        -> first.next
\* Mutant: a high surrogate stands on its own.
skipHexEscapeAlone(buf, i) ==
  LET first == skipOneHexEscape(buf, i) IN IF first.value \in 56320..57343 THEN None ELSE first.next
skipHexEscape(buf, i) == Surrogates(skipOneHexEscape(buf, i), skipOneHexEscape(buf, i + 6))

\* After a backslash also any control character but NUL.
skipEscape(buf, i) ==
  IF ~(i < Len(buf) /\ buf[i] = Backslash) THEN None
  ELSE IF buf[i + 1] = 117 THEN skipHexEscape(buf, i)
  ELSE IF buf[i + 1] \in {Quote, Backslash, Slash, 98, 102, 110, 114, 116} \cup 1..31 THEN i + 2
  ELSE None

RECURSIVE skipStringRest(_, _)
skipStringUnit(buf, i) == IF buf[i] = Backslash THEN skipEscape(buf, i) ELSE IF buf[i] < 32 THEN None ELSE skipUTF8(buf, i)
skipStringAfter(buf, unit) == IF unit = None THEN None ELSE skipStringRest(buf, unit)
skipStringRest(buf, i) ==
  IF i > Len(buf) THEN None ELSE IF buf[i] = Quote THEN i + 1 ELSE skipStringAfter(buf, skipStringUnit(buf, i))
skipString(buf, i) == IF Is(buf, i, {Quote}) THEN skipStringRest(buf, i + 1) ELSE None

-----------------------------------------------------------------------------
\* Literals and numbers.

True == <<116, 114, 117, 101>>
False == <<102, 97, 108, 115, 101>>
Null == <<110, 117, 108, 108>>
skipLiteral(buf, i, literal) ==
  IF i + Len(literal) - 1 <= Len(buf) /\ SubSeq(buf, i, i + Len(literal) - 1) = literal
    THEN i + Len(literal) ELSE None

\* The first of two that skips anything.
Or(first, second) == IF first # None THEN first ELSE second
skipAnyLiteral(buf, i) == Or(skipLiteral(buf, i, True), Or(skipLiteral(buf, i, False), skipLiteral(buf, i, Null)))

skipDigits(buf, i) == LET next == SkipWhile(buf, i, Digits) IN IF next > i THEN next ELSE None
\* The number they make, -1 once it passes what the code can hold.
MAX_FACTOR == 2147483639 \div 10
DigitsValue(digits) ==
  LET add(value, c) == IF value = -1 \/ value > MAX_FACTOR THEN -1 ELSE value * 10 + hexToInt(c)
  IN FoldLeft(add, 0, digits)

skipDecimals(buf, i) == IF Is(buf, i, {Dot}) THEN Or(skipDigits(buf, i + 1), i) ELSE i
skipExponent(buf, i) ==
  LET digits == IF Is(buf, i + 1, {Plus, Minus}) THEN i + 2 ELSE i + 1
  IN IF Is(buf, i, {69, 101}) THEN Or(skipDigits(buf, digits), i) ELSE i
skipNumber(buf, start) ==
  LET i == IF Is(buf, start, {Minus}) THEN start + 1 ELSE start
      whole == IF Is(buf, i, {Zero}) THEN i + 1 ELSE skipDigits(buf, i)
  IN IF whole = None THEN None ELSE skipExponent(buf, skipDecimals(buf, whole))

skipAnyScalar(buf, i) == Or(skipString(buf, i), Or(skipAnyLiteral(buf, i), skipNumber(buf, i)))

-----------------------------------------------------------------------------
\* Collections.  A comma that another element follows is skipped, and the
\* spaces in front of it whether there is one or not.

skipSpaceAndComma(buf, start) ==
  LET i == skipSpace(buf, start)  after == skipSpace(buf, i + 1)
  IN IF Is(buf, i, {Comma}) /\ after <= Len(buf) /\ buf[after] \notin {SquareClose, CurlyClose}
       THEN [comma |-> TRUE, next |-> after] ELSE [comma |-> FALSE, next |-> i]

RECURSIVE skipArrayScalars(_, _)
ArrayAfter(buf, i, value, after) ==
  IF value = None THEN i ELSE IF after.comma THEN skipArrayScalars(buf, after.next) ELSE after.next
ArrayValue(buf, i, value) == ArrayAfter(buf, i, value, skipSpaceAndComma(buf, value))
skipArrayScalars(buf, i) == ArrayValue(buf, i, skipAnyScalar(buf, i))

\* Up to the value of a member, when that is a collection.
RECURSIVE skipObjectScalars(_, _)
ObjectAfter(buf, start, value, after) ==
  IF value = None THEN start ELSE IF after.comma THEN skipObjectScalars(buf, after.next) ELSE after.next
ObjectValue(buf, start, value) == ObjectAfter(buf, start, value, skipSpaceAndComma(buf, value))
ObjectColon(buf, start, colon) ==
  LET i == skipSpace(buf, colon + 1)
  IN IF colon <= Len(buf) /\ buf[colon] # Colon THEN start
     ELSE IF Is(buf, i, OpenBrackets) THEN i ELSE ObjectValue(buf, start, skipAnyScalar(buf, i))
ObjectKey(buf, start, key) == IF key = None THEN start ELSE ObjectColon(buf, start, skipSpace(buf, key))
skipObjectScalars(buf, start) == ObjectKey(buf, start, skipString(buf, start))

skipScalars(buf, start, mode) ==
  LET i == skipSpace(buf, start)
  IN IF mode = SquareOpen THEN skipArrayScalars(buf, i) ELSE skipObjectScalars(buf, i)

\* The loop of skipCollection.  Whether a comma stands between two collections,
\* or a key before one, is not looked at.
RECURSIVE Collect(_, _, _)
Collect(buf, i, stack) ==
  LET after == skipSpaceAndComma(buf, i + 1)
      Stop(status) == [status |-> status, next |-> i + 1]
  IN IF i > Len(buf) THEN Stop("JSONPartial")
     ELSE IF buf[i] \in OpenBrackets THEN
       IF Len(stack) = JSON_MAX_DEPTH THEN Stop("JSONMaxDepthExceeded")
       ELSE Collect(buf, skipScalars(buf, i + 1, buf[i]), Append(stack, buf[i]))
     ELSE IF stack = <<>> THEN Stop("JSONIllegalDocument")
     ELSE IF ~isMatchingBracket(Last(stack), buf[i]) THEN Stop("JSONIllegalDocument")
     ELSE IF Len(stack) = 1 THEN Stop("JSONSuccess")
     ELSE Collect(buf, IF after.comma THEN skipScalars(buf, after.next, Last(Front(stack))) ELSE after.next, Front(stack))
skipCollection(buf, i) == Collect(buf, i, <<>>)

Validated(buf, value) ==
  IF value.status = "JSONSuccess" /\ skipSpace(buf, value.next) <= Len(buf) THEN "JSONIllegalDocument" ELSE value.status
\* A value of any type: a scalar, or what is not one is taken for a collection.
ScalarOr(buf, i, scalar) == IF scalar # None THEN [status |-> "JSONSuccess", next |-> scalar] ELSE skipCollection(buf, i)
skipValue(buf, i) == ScalarOr(buf, i, skipAnyScalar(buf, i))
JSON_Validate(buf) == IF buf = <<>> THEN "JSONBadParameter" ELSE Validated(buf, skipValue(buf, skipSpace(buf, 1)))

-----------------------------------------------------------------------------
\* Search.  A value or a member is [next, key, value], the two as their
\* positions from..to.

NoSpan == [from |-> 1, to |-> 0]
Found(i, value) == IF value.status # "JSONSuccess" THEN [next |-> None]
                   ELSE [next |-> value.next, key |-> NoSpan, value |-> [from |-> i, to |-> value.next - 1]]
nextValue(buf, i) == Found(i, skipValue(buf, i))

Keyed(pair, key) == IF pair.next = None THEN pair ELSE [pair EXCEPT !.key = key]
Pair(buf, i, key, colon) ==
  IF key = None \/ ~Is(buf, colon, {Colon}) THEN [next |-> None]
  ELSE Keyed(nextValue(buf, skipSpace(buf, colon + 1)), [from |-> i + 1, to |-> key - 2])
PairKey(buf, i, key) == Pair(buf, i, key, skipSpace(buf, key))
nextKeyValuePair(buf, i) == PairKey(buf, i, skipString(buf, i))

\* The first member of that name, and the element of that number: where its value is.
RECURSIVE FindMember(_, _, _)
MemberAfter(buf, after, query) == IF after.comma THEN FindMember(buf, after.next, query) ELSE NoSpan
MemberIs(buf, pair, query) ==
  IF pair.next = None THEN NoSpan
  ELSE IF SubSeq(buf, pair.key.from, pair.key.to) = query THEN pair.value
  ELSE MemberAfter(buf, skipSpaceAndComma(buf, pair.next), query)
FindMember(buf, i, query) == MemberIs(buf, nextKeyValuePair(buf, i), query)
objectSearch(buf, query) ==
  LET i == skipSpace(buf, 1)
  IN IF Is(buf, i, {CurlyOpen}) THEN FindMember(buf, skipSpace(buf, i + 1), query) ELSE NoSpan

RECURSIVE FindElement(_, _, _)
ElementAfter(buf, after, index) == IF after.comma THEN FindElement(buf, after.next, index) ELSE NoSpan
ElementIs(buf, element, index) ==
  IF element.next = None THEN NoSpan
  ELSE IF index = 0 THEN element.value
  ELSE ElementAfter(buf, skipSpaceAndComma(buf, element.next), index - 1)
FindElement(buf, i, index) == ElementIs(buf, nextValue(buf, i), index)
arraySearch(buf, index) ==
  LET i == skipSpace(buf, 1)
  IN IF Is(buf, i, {SquareOpen}) THEN FindElement(buf, skipSpace(buf, i + 1), index) ELSE NoSpan

skipQueryPart(query, i) == SkipWhile(query, i, (0..255) \ {Dot, SquareOpen})

\* One part of a query from position i on: what it asks for and where it ends.
QueryPart(query, i) ==
  LET digits == skipDigits(query, i + 1)
      close == IF digits = None THEN i + 1 ELSE digits
      index == IF digits = None THEN -1 ELSE DigitsValue(SubSeq(query, i + 1, digits - 1))
      next == skipQueryPart(query, i)
  IN IF Is(query, i, {SquareOpen})
       THEN [bad |-> index < 0 \/ ~Is(query, close, {SquareClose}), index |-> index, next |-> close + 1]
     ELSE [bad |-> next = i \/ next = Len(query), key |-> SubSeq(query, i, next - 1), next |-> next]

\* The query from position i on, in the value that lies at span in the buffer.
RECURSIVE multiSearch(_, _, _, _)
SearchOn(buf, span, query, next, found) ==
  IF found = NoSpan THEN [status |-> "JSONNotFound"]
  ELSE multiSearch(buf, [from |-> span.from + found.from - 1, to |-> span.from + found.to - 1], query,
                   IF Is(query, next, {Dot}) THEN next + 1 ELSE next)
SearchPart(buf, span, query, part, here) ==
  IF part.bad THEN [status |-> "JSONBadParameter"]
  ELSE SearchOn(buf, span, query, part.next, IF "index" \in DOMAIN part THEN arraySearch(here, part.index) ELSE objectSearch(here, part.key))
multiSearch(buf, span, query, i) ==
  IF i > Len(query) THEN [status |-> "JSONSuccess", value |-> span]
  ELSE SearchPart(buf, span, query, QueryPart(query, i), SubSeq(buf, span.from, span.to))

getType(c) == CASE c = Quote -> "JSONString" [] c = CurlyOpen -> "JSONObject" [] c = SquareOpen -> "JSONArray"
                [] c = 116 -> "JSONTrue" [] c = 102 -> "JSONFalse" [] c = 110 -> "JSONNull" [] OTHER -> "JSONNumber"

\* A string is handed out without its quotes.
Output(buf, span) ==
  IF buf[span.from] = Quote THEN [type |-> "JSONString", value |-> SubSeq(buf, span.from + 1, span.to - 1)]
  ELSE [type |-> getType(buf[span.from]), value |-> SubSeq(buf, span.from, span.to)]

SearchResult(buf, result) ==
  IF result.status = "JSONSuccess" THEN [status |-> "JSONSuccess"] @@ Output(buf, result.value) ELSE result
JSON_SearchConst(buf, query) ==
  IF buf = <<>> \/ query = <<>> THEN [status |-> "JSONBadParameter"]
  ELSE SearchResult(buf, multiSearch(buf, [from |-> 1, to |-> Len(buf)], query, 1))

-----------------------------------------------------------------------------
\* JSON_Iterate, from the collection at start, with the place it goes on from.

IterateOver(buf, pair) ==
  IF pair.next = None THEN [status |-> "JSONNotFound"]
  ELSE [status |-> "JSONSuccess", next |-> skipSpaceAndComma(buf, pair.next).next,
        key |-> SubSeq(buf, pair.key.from, pair.key.to)] @@ Output(buf, pair.value)
iterate(buf, start, next) ==
  IF start > Len(buf) THEN [status |-> "JSONNotFound"]
  ELSE IF buf[start] \notin OpenBrackets THEN [status |-> "JSONIllegalDocument"]
  ELSE IterateOver(buf, IF buf[start] = SquareOpen THEN nextValue(buf, next) ELSE nextKeyValuePair(buf, next))
JSON_Iterate(buf, from, next) ==
  LET start == skipSpace(buf, from)
  IN IF buf = <<>> \/ from > Len(buf) \/ next > Len(buf) + 1 THEN [status |-> "JSONBadParameter"]
     ELSE iterate(buf, start, IF next <= start THEN skipSpace(buf, start + 1) ELSE next)
\* The pairs that the documented loop goes through.
RECURSIVE Iteration(_, _)
Iterated(buf, pair) ==
  IF pair.status # "JSONSuccess" THEN <<>>
  ELSE <<[key |-> pair.key, type |-> pair.type, value |-> pair.value]>> \o Iteration(buf, pair.next)
Iteration(buf, next) == Iterated(buf, JSON_Iterate(buf, 1, next))
=============================================================================
