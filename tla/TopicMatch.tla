----------------------------- MODULE TopicMatch -----------------------------
(***************************************************************************)
(* MQTT_MatchTopic of core_mqtt.c, a round of its loop at a time, and what *)
(* a filter means level by level.  Names and filters are sequences of      *)
(* characters; positions count from 1.                                     *)
(***************************************************************************)
EXTENDS Integers, Sequences, FiniteSets

CONSTANTS Characters,     \* of names and filters
          Names, Filters  \* what the call is asked about

\* Names with wildcards "should not be passed" (core_mqtt.h:886); empty texts are refused.
ASSUME TopicsAssumption ==
  /\ Names \subseteq Seq(Characters) /\ Filters \subseteq Seq(Characters)
  /\ <<>> \notin Names \cup Filters
  /\ \A name \in Names : \A i \in DOMAIN name : name[i] \notin {"+", "#"}

VARIABLES matchPc,                 \* where the call is
          topicName, topicFilter,  \* its arguments
          nameIndex, filterIndex,  \* where the loop is in them
          matchFound               \* its result
topicVars == <<matchPc, topicName, topicFilter, nameIndex, filterIndex, matchFound>>

TopicInit == /\ matchPc = "idle" /\ matchFound = FALSE
             /\ topicName = <<>> /\ topicFilter = <<>> /\ nameIndex = 1 /\ filterIndex = 1

-----------------------------------------------------------------------------
Return(found) == matchPc' = "returned" /\ matchFound' = found /\ UNCHANGED <<nameIndex, filterIndex>>
\* The next round is at these positions.
Advance(n, f) == nameIndex' = n /\ filterIndex' = f /\ UNCHANGED <<matchPc, matchFound>>

MQTT_MatchTopic ==
  /\ matchPc = "idle"
  /\ \E name \in Names, filter \in Filters :
       /\ topicName' = name /\ topicFilter' = filter
       /\ IF name = filter THEN Return(TRUE)
          ELSE IF name[1] = "$" /\ filter[1] \in {"+", "#"} THEN Return(FALSE)
          ELSE matchPc' = "loop" /\ UNCHANGED <<nameIndex, filterIndex, matchFound>>

Remaining == nameIndex <= Len(topicName) /\ filterIndex <= Len(topicFilter)

\* The last character of the name has matched: the filter may go on with
\* "/#" after it, or with one wildcard after the '/' it is.
matchEndWildcardsSpecialCases(filter, f) ==
  \/ f = Len(filter) - 2 /\ filter[f + 1] = "/" /\ filter[f + 2] = "#"
  \/ f = Len(filter) - 1 /\ filter[f] = "/" /\ filter[f + 1] \in {"+", "#"}

SameCharacter ==
  /\ Remaining /\ topicName[nameIndex] = topicFilter[filterIndex]
  /\ IF nameIndex = Len(topicName) /\ matchEndWildcardsSpecialCases(topicFilter, filterIndex)
       THEN Return(TRUE) ELSE Advance(nameIndex + 1, filterIndex + 1)

\* Mutant: the place of a wildcard is not looked at.
AnyLocation(filter, f) == TRUE
locationIsValidForWildcard(filter, f) == f > 1 => filter[f - 1] = "/"

\* The position of the '/' that ends the level i is in, or the one after the name.
LevelEnd(s, i) == CHOOSE e \in i .. Len(s) + 1 : /\ e = Len(s) + 1 \/ s[e] = "/"
                                                 /\ \A j \in i .. e - 1 : s[j] # "/"

\* A '+' takes the rest of the level, and the loop goes on behind it: in the
\* next level, or at the end of the name.
matchWildcards ==
  LET end == LevelEnd(topicName, nameIndex)
      wild == locationIsValidForWildcard(topicFilter, filterIndex)
      plus == topicFilter[filterIndex] = "+" /\ wild
      another == filterIndex < Len(topicFilter) /\ topicFilter[filterIndex + 1] = "/"
  IN /\ Remaining /\ topicName[nameIndex] # topicFilter[filterIndex]
     /\ \/ plus /\ end > Len(topicName) /\ Advance(end, filterIndex + 1)
        \/ plus /\ end <= Len(topicName) /\ another /\ Advance(end + 1, filterIndex + 2)
        \/ plus /\ end <= Len(topicName) /\ ~another /\ Return(FALSE)
        \/ ~plus /\ Return(topicFilter[filterIndex] = "#" /\ filterIndex = Len(topicFilter) /\ wild)

EndOfLoop == ~Remaining /\ Return(nameIndex = Len(topicName) + 1 /\ filterIndex = Len(topicFilter) + 1)

matchTopicFilter == /\ matchPc = "loop" /\ (SameCharacter \/ matchWildcards \/ EndOfLoop)
                    /\ UNCHANGED <<topicName, topicFilter>>

TopicNext == MQTT_MatchTopic \/ matchTopicFilter
TopicSpec == TopicInit /\ [][TopicNext]_topicVars

-----------------------------------------------------------------------------
\* The levels of a name or a filter: where they start, how many start up to a
\* position, how many there are, and the characters of one.
Starts(s) == {i \in 1 .. Len(s) + 1 : i = 1 \/ s[i - 1] = "/"}
Number(s, i) == Cardinality({j \in Starts(s) : j <= i})
Depth(s) == Cardinality(Starts(s))
Level(s, k) == LET first == CHOOSE i \in Starts(s) : Number(s, i) = k
               IN SubSeq(s, first, LevelEnd(s, first) - 1)

\* A wildcard stands alone in its level, and '#' in the last one.
ValidFilter(filter) ==
  \A k \in 1 .. Depth(filter) : \A j \in DOMAIN Level(filter, k) :
    /\ Level(filter, k)[j] \in {"+", "#"} => Len(Level(filter, k)) = 1
    /\ Level(filter, k)[j] = "#" => k = Depth(filter)
LevelsMatch(name, filter) ==
  LET open == Level(filter, Depth(filter)) = <<"#">>
      fixed == IF open THEN Depth(filter) - 1 ELSE Depth(filter)
  IN /\ IF open THEN Depth(name) >= fixed ELSE Depth(name) = fixed
     /\ \A k \in 1 .. fixed : Level(filter, k) \in {<<"+">>, Level(name, k)}
Matches(name, filter) ==
  /\ ValidFilter(filter) /\ LevelsMatch(name, filter)
  /\ ~(name[1] = "$" /\ filter[1] \in {"+", "#"})
\* What the code does not find: the name is used up by a '+' of the filter, or
\* by the '/' after it, with a wildcard still to come.
EndsInPlus(name, filter) ==
  LET k == Depth(name) IN
  /\ Depth(filter) >= k
  /\ \/ Depth(filter) > k /\ Level(filter, k) = <<"+">>
     \/ /\ k > 1 /\ Level(name, k) = <<>> /\ Level(filter, k - 1) = <<"+">>
        /\ Level(filter, Depth(filter)) \in {<<"+">>, <<"#">>}

\* A filter matches the names its levels describe and no others, but for those
\* that end where a '+' before a last wildcard does.
TopicFaithful ==
  matchPc = "returned" =>
    (matchFound <=> \/ topicName = topicFilter
                    \/ Matches(topicName, topicFilter) /\ ~EndsInPlus(topicName, topicFilter))
=============================================================================
