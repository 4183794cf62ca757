---------------------------- MODULE MCDocumentReader ----------------------------
(***************************************************************************)
(* DocumentReaderFromRaw reads a file by its type.  The two walkers share  *)
(* result and currentSection: only one runs.                               *)
(***************************************************************************)
EXTENDS DocxReader, PdfWalker

VARIABLE type  \* "docx" or "pdf"

all == <<readerVars, type, pages, rest, lines, finished>>

-----------------------------------------------------------------------------
Par(text, leader, inside, style, numbering) ==
  [text |-> text, leader |-> leader, inside |-> inside, style |-> style, numbering |-> numbering]
Row == <<"9", " ", "CYR", "...", "9">>

\* Contents, rows of two levels typed and marked, with and without a number,
\* blanks, text and headings.
DocxParas ==
  {Par(<<"Contents">>, FALSE, FALSE, "", "none"), Par(Row, FALSE, FALSE, "", "none"),
   Par(Row, FALSE, FALSE, "TOC2", "0"), Par(<<"Cyr", "...">>, FALSE, FALSE, "", "none"),
   Par(<<"9", " ", "CYR">>, TRUE, FALSE, "", "none"), Par(<<"Cyr", "9">>, TRUE, FALSE, "", "1"),
   Par(<<"9", " ", "CYR">>, FALSE, TRUE, "TOC1", "none"), Par(<<" ", "9">>, FALSE, FALSE, "", "0"),
   Par(<<"cyr">>, FALSE, FALSE, "", "none"), Par(<<"9", " ", "CYR", ".">>, FALSE, FALSE, "", "none"),
   Par(<<"List">>, FALSE, FALSE, "Heading1", "none")}

\* A numbered title in two runs, a line, and Cyrillic behind small Latin.
XmlTexts == {<<"9", " ">>, <<"CYR">>, <<"cyr">>, <<"Lat", "-", "cyr">>}
XmlConfigs == {[styles |-> styles, titles |-> {<<"cyr">>}] : styles \in {{}, {"Heading1"}}}

\* Pages of up to two lines, and of one line for every kind of heading.
PageLines == {<<"9", " ", "CYR">>, <<" ", "cyr", "9">>, <<"CYR", "...", " ", "9">>, <<" ">>, <<"INTRO">>}
HeadingLines == {<<"9", " ", "CYR", "-", "LAT">>, <<"9", ".", "9", " ", "CYR">>, <<"9", " ", "LAT">>,
                 <<"APPENDIX", " ", "A", "(", "cyr">>, <<"APPENDIX", " ", "A">>, <<"APPENDIX", "A", "CYR">>,
                 <<"End">>, <<"LIST", " ", "CYR">>, <<"List", " ", "used">>, <<"List", " ", "cyr">>,
                 <<"9", " ", "Lat", "-", "cyr">>, <<"9", " ", "CYR", "+">>, <<"9">>, <<"CYR">>}
PdfPages == BoundedSeq(PageLines, 2) \cup {<<line>> : line \in HeadingLines}

-----------------------------------------------------------------------------
DocumentReaderInit ==
  /\ ReaderInit /\ type \in {"docx", "pdf"} /\ (type = "pdf" => phase = "titles")
  /\ PdfInit
DocumentReaderNext ==
  \/ type = "docx" /\ ReaderNext /\ UNCHANGED <<type, pages, rest, lines, finished>>
  \/ /\ type = "pdf" /\ PdfNext
     /\ UNCHANGED <<config, paragraph, skipCurrentRunText, document, nodes, done, state, titles, paras, phase, stage, type>>
DocumentReaderSpec == DocumentReaderInit /\ [][DocumentReaderNext]_all

\* A PDF is cut by its lines, not by its pages, and gives the titles that the
\* same lines give as paragraphs of a DOCX file.
PdfSectionsMatch == PagesDoNotMatter /\ FormatsAgree
=============================================================================
