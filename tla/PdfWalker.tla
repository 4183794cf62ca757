------------------------------- MODULE PdfWalker -------------------------------
(***************************************************************************)
(* SegmentPdfWalker cuts the text of a PDF into sections.  It gets one     *)
(* page at a time and cuts the page into lines; there are no styles, so a  *)
(* heading is known by its words alone.  PdfReader skips a page that       *)
(* poppler cannot create.                                                  *)
(***************************************************************************)
EXTENDS SectionWalker

CONSTANTS Pages,       \* the pages a document may have, as sequences of texts
          MaxPages     \* bound on the pages of a document

ASSUME PageAssumption == Pages \subseteq Seq(Text)

VARIABLES
  pages,           \* the pages the document had so far
  rest,            \* the lines of the last page that are still to be read
  lines,           \* the lines read so far
  finished         \* whether finish was called

pdfVars == <<sections, pages, rest, lines, finished>>

PdfInit ==
  /\ result = <<>> /\ currentSection = NoSection
  /\ pages = 0 /\ rest = <<>> /\ lines = <<>> /\ finished = FALSE

-----------------------------------------------------------------------------
\* An appendix has one capital, and nothing or a space or "(" after it.
startsWithAppendixHeading(text) ==
  LET after == TrimFront(Tail(text))
  IN /\ StartsWith(text, {"APPENDIX", "Appendix"})
     /\ StartsWith(after, {"A"})
     /\ Len(after) > 1 => after[2] \in {"("} \cup Spaces

startsWithKnownUnnumberedHeading(text) ==
  \/ StartsWith(text, {"INTRO", "END", "End", "LIST"})
  \/ Len(text) >= 3 /\ SubSeq(text, 1, 3) = <<"List", " ", "used">>
  \/ startsWithAppendixHeading(text)

looksLikeTocLine(text) == hasDotLeaders(text) /\ endsWithPageNumber(text)

\* A mutant takes a number for a heading whatever the case.
isHeadingInAnyCase(text) ==
  /\ ~looksLikeTocLine(text)
  /\ HasLetter(text) /\ HasCyrillic(text)
  /\ startsWithKnownUnnumberedHeading(text) \/ StartsWithNumber(text)
isHeading(text) ==
  /\ ~looksLikeTocLine(text)
  /\ HasLetter(text) /\ HasCyrillic(text)
  /\ \/ startsWithKnownUnnumberedHeading(text)
     \/ IsUpperCaseCompatible(text) /\ StartsWithNumber(text)

\* The sections after a line, and the section it leaves open.
After(text) ==
  IF text = <<>> THEN sections
  ELSE IF isHeading(text)
       THEN StartSection(text)
  ELSE IF ~looksLikeTocLine(text) /\ currentSection.title # <<>>
       THEN Extended(text)
  ELSE sections

\* pushText gets a page, and gives pushParagraph its lines one by one.  A
\* mutant ends the section with the page.
WalkerOfPage == <<Flushed(result, currentSection), NoSection>>
Walker == sections
pushText(page) ==
  /\ ~finished /\ pages < MaxPages /\ rest = <<>>
  /\ Store(Walker)
  /\ pages' = pages + 1 /\ rest' = page
  /\ UNCHANGED <<lines, finished>>

pushParagraph ==
  /\ rest # <<>>
  /\ Store(After(trim(Head(rest))))
  /\ rest' = Tail(rest) /\ lines' = Append(lines, Head(rest))
  /\ UNCHANGED <<pages, finished>>

finish ==
  /\ ~finished /\ rest = <<>>
  /\ Store(Finished(sections))
  /\ finished' = TRUE
  /\ UNCHANGED <<pages, rest, lines>>

PdfNext ==
  \/ \E page \in Pages : pushText(page)
  \/ pushParagraph
  \/ finish
  \/ finished /\ UNCHANGED pdfVars

PdfSpec == PdfInit /\ [][PdfNext]_pdfVars

-----------------------------------------------------------------------------
\* The lines of the document that are neither empty nor rows of contents.
Kept == {i \in DOMAIN lines : trim(lines[i]) # <<>> /\ ~looksLikeTocLine(trim(lines[i]))}
Shown(heads) == Cut(Kept, heads, [i \in DOMAIN lines |-> trim(lines[i])])

(***************************************************************************)
(* A page break is not a boundary: the sections are those of all lines of  *)
(* the document, so a section goes on over pages, empty and missing pages  *)
(* included, and no line is lost or repeated where a page ends.            *)
(***************************************************************************)
PagesDoNotMatter == finished => result = Shown({i \in Kept : isHeading(trim(lines[i]))})

(***************************************************************************)
(* What PdfAndDocxParsersProduceSameSections tests for one document: the   *)
(* headings are those SegmentDocWalker finds when every line is a          *)
(* paragraph without a style, so a text gives the same titles in both      *)
(* formats.  Excepted are the lines that the two walkers tell apart on     *)
(* purpose or by omission: known words that are not in capitals all over   *)
(* the line, and an APPENDIX that is not followed by one letter.           *)
(***************************************************************************)
DocxHeading(text) ==
  /\ Has(text, Cyrillic)
  /\ ~Has(text, (Letters \ Upper) \cup Symbols)
  /\ looksLikeTopLevelHeadingText(text)
Common(text) ==
  /\ StartsWith(text, Known) => ~Has(text, (Letters \ Upper) \cup Symbols)
  /\ StartsWith(text, {"APPENDIX"}) => startsWithAppendixHeading(text)
Titles(found) == [i \in DOMAIN found |-> found[i].title]
FormatsAgree ==
  finished /\ (\A i \in Kept : Common(trim(lines[i]))) =>
    Titles(result) = Titles(Shown({i \in Kept : DocxHeading(trim(lines[i]))}))
=============================================================================
