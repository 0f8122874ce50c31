------------------------------- MODULE MCTools -------------------------------
(***************************************************************************)
(* The sequential programs and functions: TLC runs one of them per         *)
(* behaviour.  FileCopy and EnvDir are programs and take their steps; the  *)
(* functions of EventQuery, StructValidator and TextTools are checked in   *)
(* every state of an input, "input", that grows element by element.        *)
(***************************************************************************)
EXTENDS FileCopy, EnvDir, EventQuery, StructValidator, TextTools, TLC

CONSTANTS u1, u2, ca

VARIABLES
  tool,    \* which of them this behaviour is about
  input    \* the table, the struct, the string or the lines

vars == <<copyVars, envVars, tool, input>>
-----------------------------------------------------------------------------
(***************************************************************************)
(* The inputs.                                                             *)
(***************************************************************************)
MCContents == {<<>>, <<1>>, <<2, 3>>, <<4, 5, 6>>}
MCOffsets == {-1, 0, 1, 2, 3, 4}
MCLimits == {-1, 0, 1, 2, 4}

\* A collation that moves the last of three titles to the front.
MCCollation == (0 :> 1) @@ (1 :> 2) @@ (2 :> 0)

\* Two days of two seconds, of two units each, and the second before and after.
MCStarts == 2..13
MCEvents ==
  {[UserID |-> u, StartDate |-> t, EndDate |-> t + d, Title |-> (t + d) % 3] :
     u \in {u1, u2}, t \in MCStarts, d \in {0, 2}}
MCMaxEvents == 3

\* An error is no list of events.
ASSUME FailedAssumption == Failed \notin Seq(MCEvents)

\* Queries with lists before, between and after single samples.
MCConds ==
  {Condition("UserID", "=", u1), Condition("UserID", "IN", <<u1, u2>>),
   Condition("UserID", "NOT IN", <<u2>>), Condition("Title", "IN", <<0>>),
   Condition("StartDate", "<", 4 * PerSecond), Condition("StartDate", ">=", 2 * PerSecond),
   Condition("StartDate", ">", 2 * PerSecond), Condition("EndDate", "<=", 4 * PerSecond),
   Condition("EndDate", "!=", 4 * PerSecond), Condition("Title", "IN", <<>>), Condition("Title", "<", 2)}
MCSearches == {<<>>} \cup {<<c>> : c \in MCConds} \cup {<<c, d>> : c, d \in MCConds}
MCOrders ==
  {<<>>, PeriodSort, <<Sort("StartDate", "DESC")>>,
   <<Sort("Title", "DESC"), Sort("EndDate", "ASC")>>}

\* Strings of at most two characters, one of them of two bytes; constraints that some
\* strategies can parse, and an expression that ends with an escaped "$".
MCWidth == ("a" :> 1) @@ ("b" :> 1) @@ ("$" :> 1) @@ ("zh" :> 2)
MCStrings == {<<>>, <<"a">>, <<"a", "b">>, <<"zh">>, <<"$", "b">>}
MCInts == 0..2
Expression(lang, tail) == [lang |-> lang, tail |-> tail]
MCArgs ==
  {[int |-> 1, ints |-> {1}, strings |-> {<<"a">>}, regexp |-> Expression({<<"a">>}, "other")],
   [int |-> BadArg, ints |-> {0, 1}, strings |-> {<<"a">>, <<>>},
    regexp |-> Expression({<<>>, <<"a">>}, "dollar")],
   [int |-> BadArg, ints |-> BadArg, strings |-> {<<"a", "b">>},
    regexp |-> Expression({<<"$">>}, "escaped dollar")],
   [int |-> BadArg, ints |-> BadArg, strings |-> {<<"zh">>}, regexp |-> BadArg]}
MCRules ==
  [name: ValidatorNames \cup {"length"}, colon: {TRUE}, arg: MCArgs]
    \cup [name: {"len"}, colon: {FALSE}, arg: {CHOOSE a \in MCArgs : TRUE}]
MCValues(kind) ==
  CASE kind = "string" -> MCStrings
    [] kind = "int" -> MCInts
    [] kind = "strings" -> {<<>>, <<<<"a">>, <<"a", "b">>>>}
    [] kind = "ints" -> {<<>>, <<0, 1, 2>>}
    [] kind = "unsupported" -> {<<>>}
MCFields(tags) ==
  UNION {[kind: {k}, rules: tags, value: MCValues(k)] : k \in Kinds}
OneRule == {NoTag} \cup {<<r>> : r \in MCRules}
TwoRules == {<<r, s>> : r, s \in MCRules}

MCRunes == {ca, Slash, 0, 2}
MCMaxRunes == 5
MCItems == [char: MCRunes, times: {Once, 0, 2}]
MCPacked == UNION {[1..m -> MCItems] : m \in 0..2}

\* "-", "A", "a", "b" and the empty word.
MCWords == {NoWord, Dash, 1, 2, 3}
MCLowerCase == (Dash :> Dash) @@ (1 :> 2) @@ (2 :> 2) @@ (3 :> 3)
                 @@ (At :> At) @@ (Dot :> Dot)
MCMaxWords == 5

MCEmails == {<<2, At, 1, Dot, 3>>, <<At, 2, Dot, 3>>, <<2, Dot, 3>>, <<2, At, 3>>,
             <<2, At, 2, Dot, 1>>, <<2, At, 2, Dot, 3, Dot, 3>>, <<2, At, 2, Dot, 2, At, 3>>}
MCLines == [valid: BOOLEAN, email: {NoEmail}] \cup [valid: {TRUE}, email: MCEmails]
MCDomains == {<<3>>, <<1>>, <<2>>}
MCMaxLines == 3

\* The words but the empty one are numbers that have a lower case, and so are the
\* letters of an address; a dot is no letter, and a letter no digit.
ASSUME MCTextAssumption ==
  /\ Dash \in Int /\ \A w \in 1..3 : LowerCase[w] \in Int
  /\ {1, 2, 3, At, Dot} \subseteq DOMAIN LowerCase
  /\ Dot \notin 1..3 /\ ca \notin 0..9
-----------------------------------------------------------------------------
CopyRests ==
  /\ files = [p \in Paths |-> NoFile] /\ copy = "idle"
  /\ args = [from |-> NoPath, to |-> NoPath, offset |-> 0, limit |-> 0]
  /\ n = 0 /\ position = 0 /\ original = NoFile /\ touched = FALSE

EnvRests ==
  /\ dir = [x \in Names |-> "none"]
  /\ environ = [x \in Names |-> Unset] /\ inherited = environ
  /\ envPc = "start" /\ todo = {} /\ bad = FALSE /\ exit = 0
  /\ env = [x \in Names |-> "nothing"]

Functions == {"query", "validate", "unpack", "words", "domains"}

Init ==
  \/ tool = "copy" /\ CopyInit /\ EnvRests /\ input = <<>>
  \/ tool = "env" /\ CopyRests /\ EnvInit /\ input = <<>>
  \/ tool \in Functions /\ CopyRests /\ EnvRests
       /\ input = IF tool = "query" THEN {} ELSE <<>>

Grow ==
  /\ \/ tool = "query" /\ Cardinality(input) < MCMaxEvents
        /\ \E e \in MCEvents : input' = input \cup {e}
     \/ tool = "validate" /\ input = <<>>
        /\ \E f \in MCFields(TwoRules) : input' = <<f>>
     \/ tool = "validate" /\ Len(input) < 2
        /\ (\A i \in DOMAIN input : input[i].rules \in OneRule)
        /\ \E f \in MCFields(OneRule) : input' = Append(input, f)
     \/ tool = "unpack" /\ Len(input) < MCMaxRunes
        /\ \E r \in MCRunes : input' = Append(input, r)
     \/ tool = "words" /\ Len(input) < MCMaxWords
        /\ \E w \in MCWords : input' = Append(input, w)
     \/ tool = "domains" /\ Len(input) < MCMaxLines
        /\ \E l \in MCLines : input' = Append(input, l)
  /\ UNCHANGED <<copyVars, envVars, tool>>

\* The program has returned, or the function has answered.
Done ==
  /\ CopyReturned \/ EnvEnded \/ tool \in Functions
  /\ UNCHANGED vars

Next ==
  \/ tool = "copy" /\ CopyNext /\ UNCHANGED <<envVars, tool, input>>
  \/ tool = "env" /\ EnvNext /\ UNCHANGED <<copyVars, tool, input>>
  \/ Grow
  \/ Done

Spec == Init /\ [][Next]_vars
-----------------------------------------------------------------------------
\* Every storage answers for one, two and three days exactly (see PeriodIsExact).
PeriodsAreExact ==
  tool = "query" =>
    \A u \in {u1, u2}, d \in 0..3, days \in 1..3 : PeriodIsExact(input, u, d, days)

\* The two storages find the same events for every query, and give them in the same
\* order but for the collation of strings (see StoragesAgree).
QueriesAgree ==
  (tool = "query" /\ Cardinality(input) < 3) =>
    \A search \in MCSearches, order \in MCOrders : StoragesAgree(input, search, order)

\* Validate gives the right errors for every struct, and asks no validator about a
\* value of another type (see ValidateIsRight and NoUnsupportedArgument).
StructsAreValidated ==
  tool = "validate" => ValidateIsRight(input) /\ NoUnsupportedArgument(input)

\* The three functions on texts do what they should.  Unpack refuses what is not
\* packed and reads what is; both forms of the word count are right; every line is
\* counted once, under its own domain, or there is an error (see UnpackRefuses,
\* UnpackReads, WordsCounted and DomainsCounted).
TextsAreRight ==
  /\ tool = "unpack" =>
       /\ Len(input) <= 3 => UnpackRefuses(input, MCPacked \cup [1..3 -> MCItems])
       /\ input = <<>> => \A items \in MCPacked : UnpackReads(items)
  /\ tool = "words" => WordsCounted(input)
  /\ tool = "domains" => \A domain \in MCDomains, cut \in BOOLEAN :
                          DomainsCounted(input, cut, domain)
=============================================================================
