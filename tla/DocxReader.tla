------------------------------ MODULE DocxReader -------------------------------
(***************************************************************************)
(* DocxReader reads a document twice: TocTitles collects the titles of its *)
(* table of contents, then DocWalker cuts it into sections.  The titles    *)
(* count only when word/styles.xml defines no style of a top-level         *)
(* heading; a document without style definitions has the default styles.   *)
(*                                                                         *)
(* The two readings decide on their own what a row of a table of contents  *)
(* is.  The walker reads here the paragraphs that TocTitles has read, each *)
(* with one run and one text.  The overload that has the XML alone gives a *)
(* document of any shape to a walker.                                      *)
(***************************************************************************)
EXTENDS DocWalker, TocTitles

VARIABLES
  phase,   \* "titles", "sections" or "read", or "xml" for the overload
  stage    \* the node of the paragraph that is next: "p", "r", "t" or "close"

readerVars == <<vars, tocVars, phase, stage>>

NoConfig == [styles |-> {}, titles |-> {}]
defaultTopLevelHeadingStyles == {"Heading1"}

ReaderTypeOK ==
  /\ TocTypeOK
  /\ phase \in {"titles", "sections", "read", "xml"}
  /\ stage \in {"p", "r", "t", "close"}
  /\ phase = "titles" => config = NoConfig /\ doc = <<>>
  /\ IF phase = "xml" THEN paras = <<>> ELSE Len(doc) <= Len(paras)

ReaderInit ==
  /\ TocInit /\ stage = "p"
  /\ \/ phase = "titles" /\ InitWalker /\ config = NoConfig
     \/ phase = "xml" /\ Init

-----------------------------------------------------------------------------
ReadTitles ==
  /\ phase = "titles"
  /\ collectTopLevelTocTitles
  /\ UNCHANGED <<vars, phase, stage>>

\* The titles as matchesTopLevelTocTitle compares them.  A mutant compares
\* them as they were collected.
TitlesAsCollected == ToSet(titles)
normalizedTopLevelTocTitles == {normalizeHeadingForMatch(title) : title \in ToSet(titles)} \ {<<>>}

\* The styles parseStyles found, and whether there were any definitions.
StartWalker(hasStyleDefinitions, topLevelHeadingStyles) ==
  /\ phase = "titles"
  /\ config' = [styles |-> IF hasStyleDefinitions THEN topLevelHeadingStyles ELSE defaultTopLevelHeadingStyles,
                titles |-> normalizedTopLevelTocTitles]
  /\ phase' = "sections"
  /\ UNCHANGED <<sections, paragraph, skipCurrentRunText, document, nodes, done, tocVars, stage>>

\* doc.traverse(walker): the next node of the paragraph that is next.
Here == paras[IF open = <<>> THEN Len(doc) + 1 ELSE Len(doc)]
Traverse ==
  /\ phase = "sections"
  /\ stage = "p" => Len(doc) < Len(paras)
  /\ \/ /\ stage = "p" /\ Here.inside # toc
        /\ EnterOrLeaveTableOfContents /\ stage' = "p"
     \/ /\ stage = "p" /\ Here.inside = toc
        /\ VisitParagraph(Here.style, Here.leader) /\ stage' = "r"
     \/ stage = "r" /\ VisitRun /\ stage' = "t"
     \/ stage = "t" /\ VisitText(Here.text) /\ stage' = "close"
     \/ stage = "close" /\ CloseParagraph /\ stage' = "p"
  /\ UNCHANGED <<nodes, tocVars, phase>>

EndTraverse ==
  /\ phase = "sections" /\ stage = "p" /\ Len(doc) = Len(paras)
  /\ End
  /\ phase' = "read"
  /\ UNCHANGED <<tocVars, stage>>

ReadXml == phase = "xml" /\ Next /\ UNCHANGED <<tocVars, phase, stage>>

Rest == phase = "read" /\ UNCHANGED readerVars

ReaderNext ==
  \/ ReadTitles
  \/ \E defined \in BOOLEAN, styles \in {{}, {"Heading1"}} : StartWalker(defined, styles)
  \/ Traverse \/ EndTraverse \/ ReadXml \/ Rest

ReaderSpec == ReaderInit /\ [][ReaderNext]_readerVars

-----------------------------------------------------------------------------
\* The paragraphs of the contents, as the collection tells them from the body.
InContents(i) == paras[i].inside \/ ManualRow(i)

\* What the walker takes for a row wherever it stands, and a row that it does
\* not: one that ends without a page number.
Dropped(i) == looksLikeManualTocRow(paras[i].text, paras[i].leader)
Numberless(i) == ManualRow(i) /\ ~paras[i].leader /\ ~endsWithPageNumber(paras[i].text)

(***************************************************************************)
(* While the titles are collected they are those the document lists, as    *)
(* TitlesAreListed says of the whole document at once.                     *)
(***************************************************************************)
CollectedTitlesAreListed == phase = "titles" => TitlesAreListed

\* From the contents to the sections, and back.
ListedTitlesStartSections ==
  phase = "read" /\ config.styles = {} =>
    \A i, j \in DOMAIN paras :
      /\ ~paras[i].inside /\ ~Dropped(i) /\ HasCyrillic(paras[i].text)
      /\ normalizeHeadingForMatch(cleanTocTitle(paras[j].text)) = normalizeHeadingForMatch(paras[i].text)
      /\ Listed(j)
      => \E section \in ToSet(result) : section.title = normalizeTitle(paras[i].text)

RowsAreDropped == phase = "read" => \A i \in DOMAIN paras : ManualRow(i) => (Dropped(i) <=> ~Numberless(i))

MayStartSection == {i \in DOMAIN paras : InContents(i) => ~paras[i].inside /\ Numberless(i)}
ContentsAreNoSections ==
  phase = "read" =>
    \A title \in {section.title : section \in ToSet(result)} :
      Cardinality({k \in DOMAIN result : result[k].title = title})
        <= Cardinality({i \in MayStartSection : normalizeTitle(paras[i].text) = title})

(***************************************************************************)
(* The contents and the sections agree, although each reading decides for  *)
(* itself what a row of the contents is.  In a document without heading    *)
(* styles every paragraph that reads like a title of the contents,         *)
(* whatever its case, its number and its punctuation, begins a section of  *)
(* that title, unless the walker takes it for a row.  The contents, as the *)
(* collection reads them, make no sections: there are never more of a      *)
(* title than paragraphs of the body have it, and rows of a typed table    *)
(* with dots and no page number.  For those the two readings differ: the   *)
(* collection lists them, the walker does not drop them, and so they begin *)
(* sections of their own.                                                  *)
(***************************************************************************)
ContentsMatchSections == ListedTitlesStartSections /\ RowsAreDropped /\ ContentsAreNoSections
=============================================================================
