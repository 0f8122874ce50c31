------------------------------ MODULE TextTools ------------------------------
(***************************************************************************)
(* hw02, hw03 and hw10: the exercises that work on a text.                 *)
(*                                                                         *)
(* Unpack (hw02) unpacks "a4b\3": a character followed by a digit is       *)
(* repeated, a backslash makes a digit or a backslash a plain character.   *)
(* A string is a sequence of runes, the digits being numbers.              *)
(*                                                                         *)
(* Top10 (hw03) gives the most frequent words of a text, already split     *)
(* into words; a word is its place in the lexicographic order of bytes.    *)
(*                                                                         *)
(* countDomains (hw10) counts the e-mail domains of the lines of a text.   *)
(***************************************************************************)
EXTENDS Integers, Sequences, FiniteSets, SequencesExt

CONSTANTS
  Slash,        \* the backslash
  MaxCount,     \* maxResultCount, 10 in the code
  NoWord,       \* the empty word
  Dash,         \* the word "-"
  LowerCase,    \* strings.ToLower of each word
  At, Dot,      \* the characters of an e-mail address that matter
  NoEmail,      \* a line without "Email"
  Once          \* a packed item without a number

ASSUME MaxCountAssumption == MaxCount \in Nat

\* The lower case of a letter or a word is one, and not the empty word.
ASSUME LowerCaseAssumption ==
  \A w \in DOMAIN LowerCase :
    /\ LowerCase[w] \in DOMAIN LowerCase /\ LowerCase[LowerCase[w]] = LowerCase[w]
    /\ LowerCase[w] # NoWord

\* A backslash is no digit, and neither is the sign of an item without a number.
ASSUME RunesAssumption == Slash \notin 0..9 /\ Once \notin 0..9

IsDigit(rune) == rune \in 0..9
-----------------------------------------------------------------------------
(***************************************************************************)
(* Unpack goes over the string with what it has written, "out", and the    *)
(* part it has not written yet: nothing, a character, a backslash, or a    *)
(* backslash with the character it escapes.                                *)
(***************************************************************************)
Invalid == [valid |-> FALSE]
Unpacking(out, prev) == [valid |-> TRUE, out |-> out, prev |-> prev]

\* strings.Replace(prevSubstr, "\\", "", 1).
WithoutSlash(prev) == IF prev # <<>> /\ prev[1] = Slash THEN Tail(prev) ELSE prev

Repeat(s, times) == FlattenSeq([i \in 1..times |-> s])

\* Mutant: the digit after an escaped character is not the number of its copies.
UnpackRuneKeeps(u, rune) ==
  CASE ~u.valid -> u
    [] u.valid /\ u.prev = <<>> ->
         IF IsDigit(rune) THEN Invalid ELSE Unpacking(u.out, <<rune>>)
    [] u.valid /\ u.prev = <<Slash>> ->
         IF IsDigit(rune) \/ rune = Slash THEN Unpacking(u.out, <<Slash, rune>>) ELSE Invalid
    [] OTHER ->
         IF IsDigit(rune) /\ Len(u.prev) = 1
         THEN Unpacking(u.out \o Repeat(WithoutSlash(u.prev), rune), <<>>)
         ELSE Unpacking(u.out \o WithoutSlash(u.prev), <<rune>>)

UnpackRune(u, rune) ==
  CASE ~u.valid -> u
    [] u.valid /\ u.prev = <<>> ->
         IF IsDigit(rune) THEN Invalid ELSE Unpacking(u.out, <<rune>>)
    [] u.valid /\ u.prev = <<Slash>> ->
         IF IsDigit(rune) \/ rune = Slash THEN Unpacking(u.out, <<Slash, rune>>) ELSE Invalid
    [] OTHER ->
         IF IsDigit(rune)
         THEN Unpacking(u.out \o Repeat(WithoutSlash(u.prev), rune), <<>>)
         ELSE Unpacking(u.out \o WithoutSlash(u.prev), <<rune>>)

Unpack(str) ==
  LET u == FoldLeft(UnpackRune, Unpacking(<<>>, <<>>), str) IN
  IF ~u.valid \/ u.prev = <<Slash>> THEN Invalid
  ELSE [valid |-> TRUE, out |-> u.out \o WithoutSlash(u.prev)]

(***************************************************************************)
(* The packed strings, as a grammar: a packed string is a sequence of      *)
(* items, and an item a character, plain or escaped, and at most one       *)
(* digit, the number of its copies.                                        *)
(***************************************************************************)
Item(char, times) == [char |-> char, times |-> times]

ItemText(item) ==
  (IF IsDigit(item.char) \/ item.char = Slash THEN <<Slash>> ELSE <<>>)
    \o <<item.char>> \o (IF item.times = Once THEN <<>> ELSE <<item.times>>)

ItemMeaning(item) ==
  [i \in 1..(IF item.times = Once THEN 1 ELSE item.times) |-> item.char]

TextOf(items) == FlattenSeq([i \in DOMAIN items |-> ItemText(items[i])])
MeaningOf(items) == FlattenSeq([i \in DOMAIN items |-> ItemMeaning(items[i])])

\* Unpack takes every packed string and gives what it stands for.
UnpackReads(items) == Unpack(TextOf(items)) = [valid |-> TRUE, out |-> MeaningOf(items)]

\* And it takes nothing else: a string that is the text of none of these items is
\* refused.
UnpackRefuses(str, packed) == Unpack(str).valid => \E items \in packed : TextOf(items) = str
-----------------------------------------------------------------------------
(***************************************************************************)
(* Top10 and Top10WithAsterisk of the words of a text.                     *)
(***************************************************************************)
NoCounts == [key \in {} |-> 0]                    \* map[string]int{}

Increment(counts, key) ==
  [k \in DOMAIN counts \cup {key} |->
     (IF k \in DOMAIN counts THEN counts[k] ELSE 0) + (IF k = key THEN 1 ELSE 0)]

CountWord(counts, w) == IF w = NoWord THEN counts ELSE Increment(counts, w)

CountWordWithAsterisk(counts, w) ==
  IF w \in {NoWord, Dash} THEN counts ELSE Increment(counts, LowerCase[w])

CountWords(words) == FoldLeft(CountWord, NoCounts, words)
CountWordsWithAsterisk(words) == FoldLeft(CountWordWithAsterisk, NoCounts, words)

\* Mutant: words of one frequency are ordered the other way round.
RanksByCount(counts, v, w) ==
  IF counts[v] = counts[w] THEN v > w ELSE counts[v] > counts[w]

Ranks(counts, v, w) ==
  IF counts[v] = counts[w] THEN v < w ELSE counts[v] > counts[w]

\* sort.Slice of the words of the map: a list in which each ranks before the next.
Sorted(counts) ==
  CHOOSE wc \in [1..Cardinality(DOMAIN counts) -> DOMAIN counts] :
    \A i, j \in DOMAIN wc : i < j => Ranks(counts, wc[i], wc[j])

Top10FromCountsMap(counts) ==
  LET wc == Sorted(counts)
  IN SubSeq(wc, 1, IF Len(wc) < MaxCount THEN Len(wc) ELSE MaxCount)

Top10(words) == Top10FromCountsMap(CountWords(words))
Top10WithAsterisk(words) == Top10FromCountsMap(CountWordsWithAsterisk(words))

Occurrences(text, w) == Cardinality({i \in DOMAIN text : text[i] = w})

\* The text is a function of its places.  A word is at place i of the answer exactly when
\* i - 1 words of the text are more frequent, or as frequent and earlier in the
\* lexicographic order; and the answer is as long as the limit and the text allow.
TopIsRight(top, text) ==
  LET distinct == Range(text) \ {NoWord}
      ahead(w) == {v \in distinct :
                     \/ Occurrences(text, v) > Occurrences(text, w)
                     \/ (Occurrences(text, v) = Occurrences(text, w) /\ v < w)}
  IN /\ Len(top) = IF Cardinality(distinct) < MaxCount THEN Cardinality(distinct) ELSE MaxCount
     /\ \A i \in DOMAIN top : top[i] \in distinct /\ Cardinality(ahead(top[i])) = i - 1

\* Both forms of the task: the one with the asterisk is the plain one of the text
\* without its dashes and in lower case, and not of the spelling that comes first.
WordsCounted(words) ==
  LET plain == {i \in DOMAIN words : words[i] \notin {NoWord, Dash}}
  IN /\ TopIsRight(Top10(words), words)
     /\ TopIsRight(Top10WithAsterisk(words), [i \in plain |-> LowerCase[words[i]]])
-----------------------------------------------------------------------------
(***************************************************************************)
(* GetDomainStat.  A line is valid JSON or not, and has an e-mail address, *)
(* a sequence of characters, or none.                                      *)
(***************************************************************************)
\* strings.Cut at the first "@", strings.Split at the dots.
FullDomain(email) == SubSeq(email, 1 + Min({i \in DOMAIN email : email[i] = At}), Len(email))
Dots(text) == {i \in DOMAIN text : text[i] = Dot}
LastPart(text) == SubSeq(text, 1 + Max(Dots(text)), Len(text))

\* Mutant: the part after the first dot is taken for the last.
ExtractsFirstPart(email, domain) ==
  /\ At \in Range(email)
  /\ Dots(FullDomain(email)) # {}
  /\ SubSeq(FullDomain(email), 1 + Min(Dots(FullDomain(email))), Len(FullDomain(email))) = domain

\* extractDomain finds the domain.
Extracts(email, domain) ==
  /\ At \in Range(email)
  /\ Dots(FullDomain(email)) # {}
  /\ LastPart(FullDomain(email)) = domain

CountLine(stat, line, domain) ==
  IF ~stat.ok \/ ~line.valid THEN [stat EXCEPT !.ok = FALSE]
  ELSE IF line.email = NoEmail \/ ~Extracts(line.email, domain) THEN stat
  ELSE LET full == FullDomain(line.email)
           lower == [i \in DOMAIN full |-> LowerCase[full[i]]]
       IN [stat EXCEPT !.counts = Increment(@, lower)]

CountLines(lines, domain) ==
  FoldLeft(LAMBDA stat, line : CountLine(stat, line, domain),
           [ok |-> TRUE, counts |-> NoCounts], lines)

\* Mutant: the error of the scanner is not looked at.
CountDomainsUncut(lines, cut, domain) == CountLines(lines, domain)

\* The lines are those the scanner delivers; "cut" when it stopped with an error, at a line
\* beyond its buffer or at an error of the reader.
CountDomains(lines, cut, domain) ==
  LET stat == CountLines(lines, domain) IN IF cut THEN [stat EXCEPT !.ok = FALSE] ELSE stat

\* The text after the first "@" of an address, in lower case.
BelongsTo(email, d) ==
  LET at == Len(email) - Len(d) IN
  /\ at >= 1 /\ email[at] = At /\ At \notin Range(SubSeq(email, 1, at - 1))
  /\ \A i \in DOMAIN d : d[i] = LowerCase[email[at + i]]

\* A line counts when its address ends with a dot and the domain, after an "@".  When
\* every line is JSON and the scanner read them all, each of these counts once, under the
\* whole text after its first "@" in lower case, and nothing else does; and otherwise
\* there is an error.
DomainsCounted(lines, cut, domain) ==
  LET stat == CountDomains(lines, cut, domain)
      matching == {k \in DOMAIN lines :
                     /\ lines[k].email # NoEmail
                     /\ IsSuffix(<<Dot>> \o domain, lines[k].email)
                     /\ At \in Range(SubSeq(lines[k].email, 1,
                                            Len(lines[k].email) - Len(domain) - 1))}
      Of(d) == {k \in matching : BelongsTo(lines[k].email, d)}
  IN /\ stat.ok <=> ~cut /\ \A k \in DOMAIN lines : lines[k].valid
     /\ stat.ok =>
          /\ \A d \in DOMAIN stat.counts : Of(d) # {} /\ stat.counts[d] = Cardinality(Of(d))
          /\ \A k \in matching : \E d \in DOMAIN stat.counts : k \in Of(d)
=============================================================================
