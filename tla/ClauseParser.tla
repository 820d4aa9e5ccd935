----------------------------- MODULE ClauseParser -----------------------------
(***************************************************************************)
(* How a contract's text becomes its clauses: markers "the n-th article"   *)
(* wherever they stand, a title out of what follows on the line, a type    *)
(* from a dictionary that a model may refine.  The text is a sequence of   *)
(* tokens: a marker, a word, a comma, a full stop, a line break.           *)
(***************************************************************************)
EXTENDS Integers, Sequences, SequencesExt, FiniteSets, FiniteSetsExt

CONSTANTS TextMax,       \* tokens of a text
          HeadMax,       \* [^\n]{0,60}: how much of the line a match takes in
          TitleMax,      \* 30 characters
          PreambleMin,   \* 20 characters
          TypedWords,    \* words of TYPE_KEYWORDS, in its order: <<word, type>>
          ParserWords          \* words of the contracts tried

ASSUME ParserAssumption ==
  TextMax \in Nat /\ HeadMax \in Nat /\ TitleMax \in Nat /\ PreambleMin \in Nat

VARIABLES pasted,        \* the full text
          parsed         \* clause rows of the parse, <<>> before it
parserVars == <<pasted, parsed>>

\* Tokens: "mark" reads as a number, "badmark" matches the expression but cnToInt gives null.
Marks == {"mark", "badmark"}
ParserTokens == Marks \cup {"comma", "stop", "line"} \cup ParserWords

----------------------------------------------------------------------------
(* cnToInt, on the digits of a numeral; Ten is the digit for ten.          *)
Ten == 10
CnToInt(s) ==
  LET tens == SelectInSeq(s, LAMBDA d : d = Ten)
      rest == SubSeq(s, tens + 1, Len(s))
      ones == IF rest = <<>> THEN 0 ELSE IF Len(rest) = 1 THEN rest[1] ELSE -1
  IN CASE s = <<>> -> -1
       [] tens = 1 -> Ten + (IF ones = -1 THEN 0 ELSE ones)
       [] tens > 1 -> IF ones = -1 THEN -1 ELSE s[tens - 1] * Ten + ones
       [] tens = 0 /\ Len(s) = 1 -> s[1]
       [] OTHER -> -1
\* How a number below a hundred is written.
ChineseOf(n) ==
  LET t == n \div 10
      o == n % 10
  IN (IF t = 0 THEN <<>> ELSE IF t = 1 THEN <<Ten>> ELSE <<t, Ten>>) \o (IF o = 0 THEN <<>> ELSE <<o>>)

----------------------------------------------------------------------------
(* splitClauses.                                                           *)

\* One match of CLAUSE_MARKER: the marker and what follows it on the line.
HeadEnd(text, i) ==
  LET breaks == {j \in i..Len(text) : text[j] = "line"}
  IN Min({i + HeadMax, Len(text)} \cup {j - 1 : j \in breaks})
\* The exec loop: a match may swallow the next marker of its line; one that is no number is passed over.
Markers(text) ==
  LET scan[i \in 0..Len(text)] ==
        IF i = 0 THEN [last |-> 0, at |-> <<>>]
        ELSE LET prev == scan[i - 1]
             IN  IF i <= prev.last \/ text[i] \notin Marks THEN prev
                 ELSE [last |-> HeadEnd(text, i), at |-> prev.at \o (IF text[i] = "mark" THEN <<i>> ELSE <<>>)]
  IN scan[Len(text)].at
\* The phrase up to the first full stop; a long one or one with a comma is no title.
TitleAt(text, i) ==
  LET after == SubSeq(text, i + 1, HeadEnd(text, i))
      stop  == SelectInSeq(after, LAMBDA t : t = "stop")
      raw   == IF stop = 0 THEN after ELSE SubSeq(after, 1, stop - 1)
  IN IF raw = <<>> \/ Len(raw) > TitleMax \/ Contains(raw, "comma") THEN <<"numbered">> ELSE raw
\* trim: line breaks at both ends.
TrimLines(s) ==
  LET kept == {j \in 1..Len(s) : s[j] # "line"}
  IN IF kept = {} THEN <<>> ELSE SubSeq(s, Min(kept), Max(kept))
\* The first word of the dictionary that occurs in the title or the clause's beginning.
ClassifyType(title, content) ==
  LET hits == {k \in 1..Len(TypedWords) : Contains(title \o content, TypedWords[k][1])}
  IN IF hits = {} THEN "OTHER" ELSE TypedWords[Min(hits)][2]
Clause(title, content) == [title |-> title, content |-> content, type |-> ClassifyType(title, content)]
SplitClauses(text) ==
  LET marks    == Markers(text)
      preamble == IF marks = <<>> THEN <<>> ELSE TrimLines(SubSeq(text, 1, marks[1] - 1))
      ends     == [i \in 1..Len(marks) |-> IF i = Len(marks) THEN Len(text) ELSE marks[i + 1] - 1]
      numbered == [i \in 1..Len(marks) |->
                     Clause(TitleAt(text, marks[i]), TrimLines(SubSeq(text, marks[i], ends[i])))]
      opening  == IF Len(preamble) >= PreambleMin
                  THEN <<[title |-> <<"parties">>, content |-> preamble, type |-> "PARTIES"]>> ELSE <<>>
  IN IF marks # <<>> THEN opening \o numbered
     ELSE IF TrimLines(text) = <<>> THEN <<>>
     ELSE <<[title |-> <<"whole">>, content |-> TrimLines(text), type |-> "OTHER"]>>

\* refineTypesWithLlm: as many types as clauses, or the dictionary's.
RefineTypes(clauses, answer) ==
  IF Len(clauses) < 2 \/ Len(answer) # Len(clauses) THEN clauses
  ELSE [i \in 1..Len(clauses) |-> [clauses[i] EXCEPT !.type = answer[i]]]

----------------------------------------------------------------------------
ParserInit == pasted = <<>> /\ parsed = <<>>
TypeToken(t) == parsed = <<>> /\ Len(pasted) < TextMax /\ pasted' = Append(pasted, t) /\ UNCHANGED parsed
ParseText ==
  /\ parsed = <<>> /\ TrimLines(pasted) # <<>>
  /\ \E refined \in BOOLEAN :
       LET clauses == SplitClauses(pasted)
       IN parsed' = RefineTypes(clauses, IF refined THEN [i \in 1..Len(clauses) |-> "TERM"] ELSE <<>>)
  /\ UNCHANGED pasted
ParserNext == ParseText \/ \E t \in ParserTokens : TypeToken(t)

----------------------------------------------------------------------------
\* A text without its line breaks.
Solid(s) == FlattenSeq([i \in 1..Len(s) |-> IF s[i] = "line" THEN <<>> ELSE <<s[i]>>])

\* What the reviewers read is the contract: the clauses, put together, are its text without the line
\* breaks between them, and nothing is left out but an opening too short to be a clause; a number
\* below a hundred is read as it is written.
NothingCutOut ==
  LET joined == Solid(FlattenSeq([i \in 1..Len(parsed) |-> parsed[i].content]))
      marks  == Markers(pasted)
      lost   == IF marks = <<>> THEN <<>> ELSE Solid(SubSeq(pasted, 1, marks[1] - 1))
  IN /\ parsed # <<>> =>
          \/ joined = Solid(pasted)
          \/ Len(lost) < PreambleMin /\ lost \o joined = Solid(pasted)
     /\ \A n \in 1..99 : CnToInt(ChineseOf(n)) = n
=============================================================================
