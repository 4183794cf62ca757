-------------------------------- MODULE DocText --------------------------------
(***************************************************************************)
(* The text predicates both document walkers are built from.               *)
(*                                                                         *)
(* A text is a sequence of tokens, and a token stands for every piece of   *)
(* text the predicates cannot tell apart: a run of digits, a space, a      *)
(* punctuation mark, a symbol, or a word by its script and its case.  The  *)
(* words the headings are known by have tokens of their own, in the two    *)
(* spellings the code lists:                                               *)
(*   INTRO  VVEDENIE         LIST      SPISOK       used  ispol'zovannyh   *)
(*   END    ZAKLYUCHENIE     APPENDIX  PRILOZHENIE                         *)
(*   CONTENTS  SODERZHANIE and OGLAVLENIE                                  *)
(* "A" is a Cyrillic capital that stands alone, CYR any other word.        *)
(***************************************************************************)
EXTENDS Naturals, FiniteSets, Sequences, SequencesExt

Text == Seq(STRING)

Digits == {"9"}
Spaces == {" "}
Punctuation == {".", "...", "-", "("}
UpperCyrillic == {"A", "CYR", "INTRO", "END", "LIST", "APPENDIX", "CONTENTS"}
Capitalized == {"Cyr", "Intro", "End", "List", "Appendix", "Contents"}
LowerCyrillic == {"cyr", "intro", "end", "list", "appendix", "contents", "used"}
Latin == {"LAT", "Lat", "lat"}
Symbols == {"+"}

Cyrillic == UpperCyrillic \cup Capitalized \cup LowerCyrillic
Upper == UpperCyrillic \cup {"LAT"}
Letters == Cyrillic \cup Latin

\* What u_tolower makes of a word.
Lower(t) ==
  CASE t \in {"A", "CYR", "Cyr"} -> "cyr"
    [] t \in {"INTRO", "Intro"} -> "intro"
    [] t \in {"END", "End"} -> "end"
    [] t \in {"LIST", "List"} -> "list"
    [] t \in {"APPENDIX", "Appendix"} -> "appendix"
    [] t \in {"CONTENTS", "Contents"} -> "contents"
    [] t \in {"LAT", "Lat"} -> "lat"
    [] OTHER -> t

-----------------------------------------------------------------------------
\* checkText stops at the first letter that is no capital and at the first
\* symbol: what follows is not looked at.
Checked(text) ==
  LET stops == {i \in DOMAIN text : text[i] \in (Letters \ Upper) \cup Symbols}
  IN {text[i] : i \in {j \in DOMAIN text : \A s \in stops : j <= s}}
HasLetter(text) == Checked(text) \cap Letters # {}
HasCyrillic(text) == Checked(text) \cap Cyrillic # {}
IsUpperCaseCompatible(text) == Checked(text) \cap ((Letters \ Upper) \cup Symbols) = {}

IsSpace(t) == t \in Spaces
TrimFront(text) ==
  LET words == {i \in DOMAIN text : ~IsSpace(text[i])}
  IN IF words = {} THEN <<>> ELSE SubSeq(text, Min(words), Len(text))
trim(text) ==
  LET words == {i \in DOMAIN text : ~IsSpace(text[i])}
  IN IF words = {} THEN <<>> ELSE SubSeq(text, Min(words), Max(words))

\* startsWithTopLevelNumberedHeading: digits and a space, not "1." or "1.2".
StartsWithNumber(text) ==
  \E k \in DOMAIN text \ {1} : IsSpace(text[k]) /\ \A j \in 1 .. k - 1 : text[j] \in Digits

StartsWith(text, words) == text # <<>> /\ Head(text) \in words

\* startsWithAny of the words that SegmentDocWalker knows.
Known == {"INTRO", "Intro", "END", "End", "LIST", "List", "APPENDIX", "Appendix"}
looksLikeTopLevelHeadingText(text) ==
  StartsWithNumber(trim(text)) \/ StartsWith(trim(text), Known)

hasDotLeaders(text) ==
  \/ \E i \in DOMAIN text : text[i] = "..."
  \/ \E i \in DOMAIN text : i + 2 <= Len(text) /\ \A j \in i .. i + 2 : text[j] = "."

\* A number at the end, with something that is no digit before it.
endsWithPageNumber(text) ==
  LET trimmed == trim(text)
  IN /\ trimmed # <<>>
     /\ Last(trimmed) \in Digits
     /\ \E i \in DOMAIN trimmed : trimmed[i] \notin Digits

\* What stands at the places of a finite set, in order.  The k-th place is
\* the one with k of them up to it.
WithRank(places, k) == {i \in places : Cardinality({j \in places : j <= i}) = k}
Nth(places, k) == CHOOSE i \in WithRank(places, k) : TRUE
Picked(places, values) == [k \in 1 .. Cardinality(places) |-> values[Nth(places, k)]]

\* Spaces become one space between words, and capitals small letters.
BetweenWords(text, i) ==
  /\ i - 1 \in DOMAIN text /\ ~IsSpace(text[i - 1])
  /\ \E j \in DOMAIN text : i < j /\ ~IsSpace(text[j])
Collapse(text) ==
  Picked({i \in DOMAIN text : IsSpace(text[i]) => BetweenWords(text, i)},
         [i \in DOMAIN text |-> Lower(text[i])])

normalizeTitle(text) == Collapse(Picked({i \in DOMAIN text : text[i] \notin Digits}, text))

\* Digits and a space, at the beginning.
stripLeadingTopLevelNumber(text) ==
  LET number == {k \in DOMAIN text \ {1} : IsSpace(text[k]) /\ \A j \in 1 .. k - 1 : text[j] \in Digits}
  IN IF number = {} THEN text ELSE SubSeq(text, (CHOOSE k \in number : TRUE) + 1, Len(text))

\* Punctuation separates words too, and a leading "1 " is dropped.
normalizeHeadingForMatch(text) ==
  stripLeadingTopLevelNumber(Collapse([i \in DOMAIN text |-> IF text[i] \in Punctuation THEN " " ELSE text[i]]))

-----------------------------------------------------------------------------
Has(text, tokens) == \E i \in DOMAIN text : text[i] \in tokens
=============================================================================
