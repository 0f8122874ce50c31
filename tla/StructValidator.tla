--------------------------- MODULE StructValidator ---------------------------
(***************************************************************************)
(* hw09: Validate, which checks the fields of a struct against the rules   *)
(* in their "validate" tags, and tells a programmer's error in a tag from  *)
(* the user's errors in the values.                                        *)
(*                                                                         *)
(* A field is [kind, rules, value].  Its tag is split into rules; a rule   *)
(* is [name, colon, arg], where arg is the text of the constraint: the     *)
(* record of what it is as an int, a list of ints, a list of strings and a *)
(* regular expression, or BadArg when it is none.  The lists are sets, and *)
(* a regular expression is [lang, tail]: what its text stands for, and how *)
(* the text ends, with a "$" that ends the match, with one that is a plain *)
(* character ("\$"), or without one.  A tag is split at "|" beforehand, so *)
(* that no expression has alternatives.  A string is a sequence of         *)
(* characters of one or more bytes, and an array a sequence.               *)
(***************************************************************************)
EXTENDS Integers, Sequences, FiniteSets, SequencesExt

CONSTANTS
  BadArg,    \* a constraint that does not parse
  NoTag,     \* a field without a "validate" tag
  Width      \* the bytes of each character

ASSUME WidthAssumption == \A c \in DOMAIN Width : Width[c] \in Nat \ {0}

ValidatorNames == {"len", "regexp", "in", "min", "max"}       \* validatorNames
Kinds == {"string", "int", "strings", "ints", "unsupported"}

IsArrayKind(kind) == kind \in {"strings", "ints"}
OfStrings(kind) == kind \in {"string", "strings"}
OfInts(kind) == kind \in {"int", "ints"}

\* The strategies, in the order of validatorCreatorsList.
Creators == <<"len", "regexp", "inStr", "inInt", "min", "max">>

\* Mutant: the two strategies of "in" are not told apart.
IsSuitableAnyIn(creator, name, kind) ==
  CASE creator \in {"len", "regexp"} -> name = creator /\ OfStrings(kind)
    [] creator = "inStr" -> name = "in"
    [] creator = "inInt" -> name = "in"
    [] creator \in {"min", "max"} -> name = creator /\ OfInts(kind)

IsSuitable(creator, name, kind) ==
  CASE creator \in {"len", "regexp"} -> name = creator /\ OfStrings(kind)
    [] creator = "inStr" -> name = "in" /\ OfStrings(kind)
    [] creator = "inInt" -> name = "in" /\ OfInts(kind)
    [] creator \in {"min", "max"} -> name = creator /\ OfInts(kind)

(***************************************************************************)
(* createValidatorForKind: the last suitable strategy makes the validator, *)
(* and the first one that cannot parse the constraint ends the search.     *)
(***************************************************************************)
TagError == [made |-> FALSE]

\* strconv.Atoi, strings.Split and regexp.Compile of the constraint.
Parsed(creator, arg) ==
  CASE creator \in {"len", "min", "max"} -> arg.int
    [] creator = "regexp" -> arg.regexp
    [] creator = "inStr" -> arg.strings
    [] creator = "inInt" -> arg.ints

\* Mutant: no "$" is added.
AddEndNot(tail) == tail

\* A text that does not end with a "$" gets one.
AddEnd(tail) == IF tail \in {"dollar", "escaped dollar"} THEN tail ELSE "dollar"

\* What the constraint is made into.
Compiled(creator, arg) ==
  IF creator = "regexp" THEN [arg.regexp EXCEPT !.tail = AddEnd(@)] ELSE Parsed(creator, arg)

MakeValidator(creator, arg) ==
  IF Parsed(creator, arg) = BadArg THEN TagError
  ELSE [made |-> TRUE, by |-> creator, arg |-> Compiled(creator, arg)]

CreateValidatorForKind(name, arg, kind) ==
  LET suitable == {i \in DOMAIN Creators : IsSuitable(Creators[i], name, kind)}
  IN IF \/ name \notin ValidatorNames \/ suitable = {}
        \/ \E i \in suitable : ~MakeValidator(Creators[i], arg).made
     THEN TagError
     ELSE MakeValidator(Creators[Max(suitable)], arg)

\* The type each validator's type switch takes.
TakesStrings(v) == v.by \in {"len", "regexp", "inStr"}

\* The bytes of a string, each the place of its character and its own in it.
Bytes(x) == UNION {{i} \X (1..Width[x[i]]) : i \in DOMAIN x}

\* MatchString: from the beginning on, and to the end only when a "$" says so.
Matches(re, x) ==
  \E k \in 0..Len(x) : SubSeq(x, 1, k) \in re.lang /\ (re.tail = "dollar" => k = Len(x))

\* len() of a string is the number of its bytes.
Accepts(v, x) ==
  CASE v.by = "len" -> Cardinality(Bytes(x)) = v.arg
    [] v.by = "regexp" -> Matches(v.arg, x)
    [] v.by \in {"inStr", "inInt"} -> x \in v.arg
    [] v.by = "min" -> x >= v.arg
    [] v.by = "max" -> x <= v.arg

\* validate(): "ok", ErrValidation or ErrUnsupportedArgument.
ValidateValue(v, kind, x) ==
  CASE TakesStrings(v) # OfStrings(kind) -> "unsupported argument"
    [] TakesStrings(v) = OfStrings(kind) /\ Accepts(v, x) -> "ok"
    [] OTHER -> "invalid"

(***************************************************************************)
(* Validate.  What it has so far: the error it returns at once, and the    *)
(* validationErrors, here the field and the rule of each.                  *)
(***************************************************************************)
Nothing == [error |-> "none", errors |-> <<>>]

Stopped(result) == result.error # "none"

CheckElement(result, v, field, i, x) ==
  LET outcome == ValidateValue(v, field.kind, x) IN
  CASE Stopped(result) \/ outcome = "ok" -> result
    [] ~Stopped(result) /\ outcome = "invalid" ->
         [result EXCEPT !.errors = Append(@, [field |-> i, by |-> v.by])]
    [] OTHER -> [result EXCEPT !.error = outcome]

ElementsOf(field) == IF IsArrayKind(field.kind) THEN field.value ELSE <<field.value>>

\* Mutant: a field without elements needs no validator.
CheckRuleOfElements(result, field, i, rule) ==
  LET v == CreateValidatorForKind(rule.name, rule.arg, field.kind) IN
  IF Stopped(result) \/ ElementsOf(field) = <<>> THEN result
  ELSE IF ~rule.colon \/ ~v.made THEN [result EXCEPT !.error = "invalid tag"]
  ELSE FoldLeft(LAMBDA r, x : CheckElement(r, v, field, i, x), result, ElementsOf(field))

CheckRule(result, field, i, rule) ==
  LET v == CreateValidatorForKind(rule.name, rule.arg, field.kind) IN
  IF Stopped(result) THEN result
  ELSE IF ~rule.colon \/ ~v.made THEN [result EXCEPT !.error = "invalid tag"]
  ELSE FoldLeft(LAMBDA r, x : CheckElement(r, v, field, i, x), result, ElementsOf(field))

Checked(field) == field.rules # NoTag /\ field.kind # "unsupported"

CheckField(result, field, i) ==
  IF ~Checked(field) THEN result
  ELSE FoldLeft(LAMBDA r, rule : CheckRule(r, field, i, rule), result, field.rules)

\* A tag error hides the validationErrors collected before it.
Validate(struct) ==
  LET result == FoldLeftDomain(LAMBDA r, i : CheckField(r, struct[i], i), Nothing, struct)
  IN IF Stopped(result) THEN [result EXCEPT !.errors = <<>>] ELSE result
-----------------------------------------------------------------------------
(***************************************************************************)
(* What the answer should be, from the tags alone.                         *)
(***************************************************************************)

\* What the README of the exercise says each rule means for an element.
RuleArg(rule, kind) ==
  CASE rule.name \in {"len", "min", "max"} -> rule.arg.int
    [] rule.name = "regexp" -> rule.arg.regexp
    [] rule.name = "in" -> IF OfStrings(kind) THEN rule.arg.strings ELSE rule.arg.ints

\* The rule can be written for the kind, and its constraint is one.
GoodRule(rule, kind) ==
  /\ rule.colon
  /\ \/ rule.name \in {"len", "regexp"} /\ OfStrings(kind)
     \/ rule.name \in {"min", "max"} /\ OfInts(kind)
     \/ rule.name = "in"
  /\ RuleArg(rule, kind) # BadArg

\* A length is one of characters, and a regular expression is about the whole string.
Meets(rule, kind, x) ==
  CASE rule.name = "len" -> Len(x) = RuleArg(rule, kind)
    [] rule.name = "regexp" -> x \in RuleArg(rule, kind).lang
    [] rule.name = "in" -> x \in RuleArg(rule, kind)
    [] rule.name = "min" -> ~(x < RuleArg(rule, kind))
    [] rule.name = "max" -> ~(x > RuleArg(rule, kind))

\* Where the code departs from that: it counts bytes, and an expression whose text ends
\* with an escaped "$" is left open at its end, so that it takes longer strings too.
Departs(rule, x) ==
  \/ rule.name = "len" /\ \E i \in DOMAIN x : Width[x[i]] # 1
  \/ /\ rule.name = "regexp" /\ rule.arg.regexp.tail = "escaped dollar"
     /\ x \notin rule.arg.regexp.lang

FieldsOf(struct) == {i \in DOMAIN struct : Checked(struct[i])}

TagsAreGood(struct) ==
  \A i \in FieldsOf(struct) : \A j \in DOMAIN struct[i].rules :
     GoodRule(struct[i].rules[j], struct[i].kind)

\* The elements of the struct and their rules, by the field, the rule and the index.
Checks(struct) ==
  UNION {{i} \X (DOMAIN struct[i].rules) \X (DOMAIN ElementsOf(struct[i])) : i \in FieldsOf(struct)}

RuleOf(struct, t) == struct[t[1]].rules[t[2]]
ElementOf(struct, t) == ElementsOf(struct[t[1]])[t[3]]

\* Every element that does not meet a rule, and every one the code may judge otherwise.
Violations(struct) ==
  {t \in Checks(struct) :
     ~Meets(RuleOf(struct, t), struct[t[1]].kind, ElementOf(struct, t))}

Departures(struct) ==
  {t \in Checks(struct) : Departs(RuleOf(struct, t), ElementOf(struct, t))}

OfThe(i, set) == {t \in set : t[1] = i}

\* So many are all that are certain, with none or some of the doubtful ones.
AllOf(count, certain, doubtful) ==
  Cardinality(certain) <= count /\ count <= Cardinality(certain \cup doubtful)

\* Validate reports an error of a tag whenever there is one, whatever the values
\* are and wherever in the struct it is; and else one error for each element that
\* does not meet a rule, and none for another, in the order of the fields.  Only where
\* the code departs from the exercise, with a length in bytes and with an expression that
\* an escaped "$" leaves open, may an element get its error or not.
ValidateIsRight(struct) ==
  LET answer == Validate(struct)
      certain == Violations(struct) \ Departures(struct)
  IN
  IF ~TagsAreGood(struct) THEN answer = [error |-> "invalid tag", errors |-> <<>>]
  ELSE /\ answer.error = "none"
       /\ AllOf(Len(answer.errors), certain, Departures(struct))
       /\ \A i \in FieldsOf(struct) :
            AllOf(Cardinality({k \in DOMAIN answer.errors : answer.errors[k].field = i}),
                  OfThe(i, certain), OfThe(i, Departures(struct)))
       /\ \A k, l \in DOMAIN answer.errors :
            k < l => answer.errors[k].field <= answer.errors[l].field

\* The type switches of the validators never meet a value of another type: the
\* strategies let none through.
NoUnsupportedArgument(struct) == Validate(struct).error # "unsupported argument"
=============================================================================
