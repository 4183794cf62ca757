------------------------------- MODULE DocWalker -------------------------------
(***************************************************************************)
(* SegmentDocWalker cuts word/document.xml into sections.  pugi calls      *)
(* for_each on every node in document order and never says that a node     *)
(* ends, so the walker knows that a paragraph is over only when the next   *)
(* one begins: its flags have to be put back at every w:p and every w:r.   *)
(*                                                                         *)
(* The environment builds the document as the walker reads it.  doc keeps  *)
(* the paragraphs as they are in the document, open the nodes around the   *)
(* one that is read: a text box puts paragraphs inside a run of another.   *)
(* Of a paragraph, bookmark says whether a bookmark begins in it, behind   *)
(* whether one does between it and the next.                               *)
(***************************************************************************)
EXTENDS SectionWalker

CONSTANTS Styles,    \* paragraph styles, "" for none
          Texts,     \* what a w:t may hold
          Configs,   \* [styles |-> heading styles, titles |-> titles of the contents]
          Nested,    \* whether paragraphs may hold paragraphs
          MaxNodes   \* bound on the nodes of a document

ASSUME TextAssumption == Styles \subseteq STRING /\ Texts \subseteq Text /\ MaxNodes \in Nat

VARIABLES
  config,               \* topLevelHeadingStyles and normalizedTopLevelTocTitles
  paragraphText,
  paragraphStyle,
  paragraphHasLetter,
  paragraphHasCyrillic,
  paragraphIsUpperCase,
  paragraphHasTocBookmark,
  paragraphHasDotLeaderTab,
  skipCurrentRunText,
  doc,                  \* the paragraphs of the document
  open,                 \* for each open paragraph its number and its last run
  toc,                  \* whether the node is inside a Table of Contents
  resumed,              \* whether a paragraph went on after one that it holds
  hidden,               \* whether checkText missed the Cyrillic letters of a text
  nodes,                \* nodes read
  done                  \* whether end was called

paragraph == <<paragraphText, paragraphStyle, paragraphHasLetter, paragraphHasCyrillic,
               paragraphIsUpperCase, paragraphHasTocBookmark, paragraphHasDotLeaderTab>>
document == <<doc, open, toc, resumed, hidden>>
vars == <<config, sections, paragraph, skipCurrentRunText, document, nodes, done>>

Runs == {"none", "text", "code"}
Paragraphs == [style : STRING, leader : BOOLEAN, bookmark : BOOLEAN, behind : BOOLEAN, text : Text]

TypeOK ==
  /\ config \in [styles : SUBSET STRING, titles : SUBSET Text]
  /\ result \in Seq(Sections) /\ currentSection \in Sections
  /\ \A section \in ToSet(result) \cup {currentSection} : normalizeTitle(section.title) = section.title
  /\ paragraphText \in Text /\ paragraphStyle \in STRING
  /\ \A flag \in {paragraphHasLetter, paragraphHasCyrillic, paragraphIsUpperCase, paragraphHasTocBookmark,
                  paragraphHasDotLeaderTab, skipCurrentRunText, toc, resumed, hidden, done} : flag \in BOOLEAN
  /\ doc \in Seq(Paragraphs)
  /\ open \in Seq([par : DOMAIN doc, run : Runs])
  /\ nodes \in 0 .. MaxNodes

InitWalker ==
  /\ result = <<>> /\ currentSection = NoSection
  /\ paragraphText = <<>> /\ paragraphStyle = ""
  /\ paragraphHasLetter = FALSE /\ paragraphHasCyrillic = FALSE /\ paragraphIsUpperCase = TRUE
  /\ paragraphHasTocBookmark = FALSE /\ paragraphHasDotLeaderTab = FALSE
  /\ skipCurrentRunText = FALSE
  /\ doc = <<>> /\ open = <<>> /\ toc = FALSE /\ resumed = FALSE /\ hidden = FALSE
  /\ nodes = 0 /\ done = FALSE

Init == config \in Configs /\ InitWalker

-----------------------------------------------------------------------------
matchesTopLevelTocTitle(text, titles) ==
  LET normalized == normalizeHeadingForMatch(text)
  IN /\ normalized # <<>>
     /\ \E title \in titles : IsPrefix(normalized, title) /\ (normalized = title \/ IsSpace(title[Len(normalized) + 1]))

\* A mutant knows a row of contents by its tab alone.
looksLikeTabbedRow(text, leader) == leader
looksLikeManualTocRow(text, leader) ==
  leader \/ (hasDotLeaders(text) /\ endsWithPageNumber(text))

\* allowTocTitleMatching: only a document without heading styles uses the titles.
isHeadingParagraph(text, style, bookmark, upper) ==
  \/ style # "" /\ style \in config.styles
  \/ config.styles = {} /\ matchesTopLevelTocTitle(text, config.titles)
  \/ (bookmark \/ upper) /\ looksLikeTopLevelHeadingText(text)

\* flushParagraph, on the sections: a heading starts a section, a row of a
\* table of contents and what precedes the first heading are dropped.
Accepted(text, heading, row) ==
  IF text = <<>> THEN sections
  ELSE IF ~row /\ heading
       THEN StartSection(text)
  ELSE IF ~row /\ currentSection.title # <<>>
       THEN Extended(text)
  ELSE sections

FlushedParagraph ==
  LET heading == /\ paragraphHasLetter /\ paragraphHasCyrillic
                 /\ isHeadingParagraph(paragraphText, paragraphStyle, paragraphHasTocBookmark, paragraphIsUpperCase)
  IN Accepted(paragraphText, heading, looksLikeManualTocRow(paragraphText, paragraphHasDotLeaderTab))

ResetParagraph(style, leader) ==
  /\ paragraphText' = <<>> /\ paragraphStyle' = style
  /\ paragraphHasLetter' = FALSE /\ paragraphHasCyrillic' = FALSE /\ paragraphIsUpperCase' = TRUE
  /\ paragraphHasTocBookmark' = FALSE /\ paragraphHasDotLeaderTab' = leader
  /\ skipCurrentRunText' = FALSE

\* for_each of a w:p: flushParagraph, then the properties of the new one.
VisitParagraph(style, leader) ==
  /\ open # <<>> => Nested /\ Last(open).run # "none"
  /\ Store(FlushedParagraph)
  /\ ResetParagraph(style, leader)
  /\ doc' = Append(doc, [style |-> style, leader |-> leader, bookmark |-> FALSE, behind |-> FALSE, text |-> <<>>])
  /\ open' = Append(open, [par |-> Len(doc) + 1, run |-> "none"])
  /\ UNCHANGED <<config, toc, resumed, hidden, done>>

\* for_each of a w:r, and of the w:rFonts of a run, of a paragraph mark or of
\* the properties of a w:sdt between paragraphs.
\* A mutant of the first stays in the code of the run before.
VisitRunAfterCode ==
  /\ open # <<>>
  /\ open' = [open EXCEPT ![Len(open)].run = "text"]
  /\ UNCHANGED <<config, sections, paragraph, skipCurrentRunText, doc, toc, resumed, hidden, done>>
VisitRun ==
  /\ open # <<>>
  /\ skipCurrentRunText' = FALSE
  /\ open' = [open EXCEPT ![Len(open)].run = "text"]
  /\ UNCHANGED <<config, sections, paragraph, doc, toc, resumed, hidden, done>>

VisitCourierFont ==
  /\ skipCurrentRunText' = TRUE
  /\ IF open = <<>> THEN UNCHANGED open
     ELSE open' = [open EXCEPT ![Len(open)].run = IF @ = "text" THEN "code" ELSE @]
  /\ UNCHANGED <<config, sections, paragraph, doc, toc, resumed, hidden, done>>

Resume == resumed' = (resumed \/ Last(open).par # Len(doc))

\* for_each of a w:bookmarkStart whose name begins with _Toc, in a paragraph
\* or between two: the one before has not been flushed yet.
BookmarkInParagraph ==
  /\ open # <<>>
  /\ doc' = [doc EXCEPT ![Last(open).par].bookmark = @ \/ ~toc]
  /\ Resume
BookmarkBetween ==
  /\ open = <<>>
  /\ doc' = [i \in DOMAIN doc |-> IF i = Len(doc) THEN [doc[i] EXCEPT !.behind = @ \/ ~toc] ELSE doc[i]]
  /\ UNCHANGED resumed
VisitTocBookmark ==
  /\ paragraphHasTocBookmark' = (paragraphHasTocBookmark \/ ~toc)
  /\ BookmarkInParagraph \/ BookmarkBetween
  /\ UNCHANGED <<config, sections, paragraphText, paragraphStyle, paragraphHasLetter, paragraphHasCyrillic,
                 paragraphIsUpperCase, paragraphHasDotLeaderTab, skipCurrentRunText, open, toc, hidden, done>>

\* for_each of a w:t: code and tables of contents are left out.
Taken == ~skipCurrentRunText /\ ~toc

\* checkText misses Cyrillic letters behind a small Latin letter or a symbol.
Shows(text) == Has(text, Cyrillic) => HasCyrillic(text)

VisitText(text) ==
  LET taken == Taken
  IN /\ open # <<>> /\ Last(open).run # "none"
     /\ paragraphText' = IF taken THEN paragraphText \o text ELSE paragraphText
     /\ paragraphHasLetter' = (paragraphHasLetter \/ (taken /\ HasLetter(text)))
     /\ paragraphHasCyrillic' = (paragraphHasCyrillic \/ (taken /\ HasCyrillic(text)))
     /\ paragraphIsUpperCase' = (paragraphIsUpperCase /\ (taken => IsUpperCaseCompatible(text)))
     /\ doc' = IF Last(open).run = "text" /\ ~toc
               THEN [doc EXCEPT ![Last(open).par].text = @ \o text] ELSE doc
     /\ Resume /\ hidden' = (hidden \/ (taken /\ ~Shows(text)))
     /\ UNCHANGED <<config, sections, paragraphStyle, paragraphHasTocBookmark, paragraphHasDotLeaderTab,
                    skipCurrentRunText, open, toc, done>>

\* The w:p ends, a w:sdt begins or ends: the walker is not told.
CloseParagraph ==
  /\ open # <<>>
  /\ open' = Front(open)
  /\ UNCHANGED <<config, sections, paragraph, skipCurrentRunText, doc, toc, resumed, hidden, done>>

EnterOrLeaveTableOfContents ==
  /\ open = <<>>
  /\ toc' = ~toc
  /\ UNCHANGED <<config, sections, paragraph, skipCurrentRunText, doc, open, resumed, hidden, done>>

\* end: flushParagraph and flushSection.
End ==
  /\ open = <<>> /\ ~done
  /\ Store(Finished(FlushedParagraph))
  /\ ResetParagraph("", FALSE)
  /\ done' = TRUE
  /\ UNCHANGED <<config, document, nodes>>

Visit ==
  \/ \E style \in Styles, leader \in BOOLEAN : VisitParagraph(style, leader)
  \/ VisitRun \/ VisitCourierFont \/ VisitTocBookmark
  \/ \E text \in Texts : VisitText(text)

Next ==
  \/ ~done /\ nodes < MaxNodes /\ Visit /\ nodes' = nodes + 1
  \/ ~done /\ (CloseParagraph \/ EnterOrLeaveTableOfContents) /\ UNCHANGED nodes
  \/ End
  \/ done /\ UNCHANGED vars

Spec == Init /\ [][Next]_vars

-----------------------------------------------------------------------------
RowOf(par) == looksLikeManualTocRow(par.text, par.leader)

\* What makes a paragraph a heading, said of all its text and not of the
\* pieces that Word happens to cut it into.
HeadingOf(par) ==
  /\ Has(par.text, Cyrillic)
  /\ isHeadingParagraph(par.text, par.style, par.bookmark \/ par.behind,
                        ~Has(par.text, (Letters \ Upper) \cup Symbols))

Visible == {i \in DOMAIN doc : doc[i].text # <<>> /\ ~RowOf(doc[i])}
SectionsOf ==
  Cut(Visible, {i \in Visible : HeadingOf(doc[i])}, [i \in DOMAIN doc |-> doc[i].text])

\* The flags the walker decides by describe the text it has collected.
FlagsDescribeText ==
  /\ paragraphHasCyrillic <=> Has(paragraphText, Cyrillic)
  /\ paragraphHasCyrillic => paragraphHasLetter
  /\ paragraphIsUpperCase <=> ~Has(paragraphText, (Letters \ Upper) \cup Symbols)

(***************************************************************************)
(* The sections are those of the document: every visible paragraph after   *)
(* the first heading is in the section of the last heading before it, in   *)
(* order and once, and is a heading for what it is itself - nothing of its *)
(* tab, its style, its fonts, its letters or the bookmarks in it is left   *)
(* from another paragraph or run, and nothing depends on how the text is   *)
(* cut into runs.  One thing is: a bookmark between two paragraphs, where  *)
(* the second is what it marks, counts for the first and may make that a   *)
(* heading; it never counts for the second.  Of a document whose paragraph *)
(* goes on after a text box only the flags are right; one that hides       *)
(* Cyrillic letters is excepted.                                           *)
(***************************************************************************)
SectionsMatchDocument ==
  ~hidden => FlagsDescribeText /\ (done /\ ~resumed => result = SectionsOf)
=============================================================================
