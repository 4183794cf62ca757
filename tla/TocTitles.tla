------------------------------- MODULE TocTitles -------------------------------
(***************************************************************************)
(* collectTopLevelTocTitles goes through the paragraphs of a document      *)
(* before the walker does and collects the titles its table of contents    *)
(* lists at the top level.  A table Word made is marked (w:sdt); one that  *)
(* was typed begins at a paragraph "Contents" and ends at the first        *)
(* paragraph that is no row after one that was.                            *)
(***************************************************************************)
EXTENDS DocText

CONSTANTS Paras,    \* the paragraphs a document may have
          MaxParas  \* bound on their number

ASSUME ParaAssumption ==
  /\ MaxParas \in Nat
  /\ Paras \subseteq [text : Text, leader : BOOLEAN, inside : BOOLEAN,
                      style : STRING, numbering : {"none", "0", "1"}]

VARIABLES manualTocStarted, manualTocFinished, collectedManualTocRows,
          titles,  \* the titles collected
          paras    \* the paragraphs visited

state == <<manualTocStarted, manualTocFinished, collectedManualTocRows>>
tocVars == <<state, titles, paras>>

TocTypeOK ==
  /\ \A flag \in {manualTocStarted, manualTocFinished, collectedManualTocRows} : flag \in BOOLEAN
  /\ titles \in Seq(Text) /\ Len(titles) <= Len(paras)
  /\ paras \in Seq(Paras) /\ Len(paras) <= MaxParas
  /\ collectedManualTocRows => manualTocStarted

TocInit ==
  /\ manualTocStarted = FALSE /\ manualTocFinished = FALSE /\ collectedManualTocRows = FALSE
  /\ titles = <<>> /\ paras = <<>>

-----------------------------------------------------------------------------
\* Without the page number at the end.
cleanTocTitle(text) ==
  LET trimmed == trim(text)
      kept == {i \in DOMAIN trimmed : \E j \in i .. Len(trimmed) : trimmed[j] \notin Digits}
  IN trim([i \in kept |-> trimmed[i]])

isManualTocHeading(text) == text \in {<<"CONTENTS">>, <<"Contents">>}

\* A style says the level by its id or by its name, "toc 2".
tocLevelFromStyle(style) ==
  IF style = "TOC1" THEN "1" ELSE IF style = "TOC2" THEN "2" ELSE "none"

\* The level of the style decides, then the level of the numbering.
isTopLevelTocParagraph(par) ==
  IF tocLevelFromStyle(par.style) # "none" THEN tocLevelFromStyle(par.style) = "1"
  ELSE par.numbering # "none" => par.numbering = "0"

isTocRow(par) == par.leader \/ hasDotLeaders(cleanTocTitle(par.text))

\* A paragraph whose clean text is empty is passed over.
Visited(par) == paras' = Append(paras, par)
SkipEmpty(par) ==
  /\ cleanTocTitle(par.text) = <<>>
  /\ Visited(par)
  /\ UNCHANGED <<state, titles>>

Collect(par) == titles' = Append(titles, cleanTocTitle(par.text))

VisitStandardToc(par) ==
  /\ cleanTocTitle(par.text) # <<>> /\ par.inside
  /\ IF tocLevelFromStyle(par.style) = "1" THEN Collect(par) ELSE UNCHANGED titles
  /\ Visited(par)
  /\ UNCHANGED state

\* A typed table is being read.  A mutant lets it end before its first row.
InToc == manualTocStarted /\ ~manualTocFinished
EndsAtOnce(row) == InToc /\ ~row
Ends(row) == InToc /\ ~row /\ collectedManualTocRows

VisitOutside(par) ==
  LET text == cleanTocTitle(par.text)
      started == ~manualTocStarted /\ isManualTocHeading(text)
      row == InToc /\ isTocRow(par)
  IN /\ text # <<>> /\ ~par.inside
     /\ manualTocStarted' = (manualTocStarted \/ started)
     /\ collectedManualTocRows' = (collectedManualTocRows \/ row)
     /\ manualTocFinished' = (manualTocFinished \/ Ends(row))
     /\ IF row /\ isTopLevelTocParagraph(par) THEN Collect(par) ELSE UNCHANGED titles
     /\ Visited(par)

collectTopLevelTocTitles ==
  /\ Len(paras) < MaxParas
  /\ \E par \in Paras : SkipEmpty(par) \/ VisitStandardToc(par) \/ VisitOutside(par)

AllRead == Len(paras) = MaxParas /\ UNCHANGED tocVars

TocSpec == TocInit /\ [][collectTopLevelTocTitles \/ AllRead]_tocVars

-----------------------------------------------------------------------------
(***************************************************************************)
(* The titles are those of the tables of contents, in the order of the     *)
(* document.  A typed table is the stretch from the first "Contents" to    *)
(* the first row and on to the first paragraph after it that is no row;    *)
(* empty paragraphs and marked tables do not end it, and a second          *)
(* "Contents" starts none.                                                 *)
(***************************************************************************)
Outside == {i \in DOMAIN paras : cleanTocTitle(paras[i].text) # <<>> /\ ~paras[i].inside}
Starts(i) ==
  /\ i \in Outside /\ isManualTocHeading(cleanTocTitle(paras[i].text))
  /\ \A j \in Outside : j < i => ~isManualTocHeading(cleanTocTitle(paras[j].text))
ManualRow(i) ==
  /\ i \in Outside /\ isTocRow(paras[i])
  /\ \E start \in Outside :
       /\ Starts(start) /\ start < i
       /\ \A j, k \in Outside : start < j /\ j < k /\ k < i /\ isTocRow(paras[j]) => isTocRow(paras[k])
Listed(i) ==
  \/ cleanTocTitle(paras[i].text) # <<>> /\ paras[i].inside /\ tocLevelFromStyle(paras[i].style) = "1"
  \/ ManualRow(i) /\ isTopLevelTocParagraph(paras[i])

TitlesAreListed ==
  titles = Picked({i \in DOMAIN paras : Listed(i)}, [i \in DOMAIN paras |-> cleanTocTitle(paras[i].text)])
=============================================================================
