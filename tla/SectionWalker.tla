----------------------------- MODULE SectionWalker -----------------------------
(***************************************************************************)
(* What SegmentDocWalker and SegmentPdfWalker have in common: the sections *)
(* that are complete, and the one that goes on.                            *)
(***************************************************************************)
EXTENDS DocText

VARIABLES
  result,               \* the sections that are complete
  currentSection

sections == <<result, currentSection>>

\* A Documents::Paragraph, the section of a document.  Its text is kept as
\* the lines that the code joins with '\n'.
Sections == [title : Text, text : Seq(Text)]
NoSection == [title |-> <<>>, text |-> <<>>]

NewSection(text) == [title |-> normalizeTitle(text), text |-> <<>>]

\* What both flushSection do.
Flushed(complete, section) ==
  IF section.title = <<>> THEN complete ELSE Append(complete, section)

\* A heading starts a section, any other line goes to the one there is.
StartSection(text) == <<Flushed(result, currentSection), NewSection(text)>>
Extended(text) == <<result, [currentSection EXCEPT !.text = Append(@, text)]>>

\* flushSection at the end of the document.
Finished(pair) == <<Flushed(pair[1], pair[2]), IF pair[2].title = <<>> THEN pair[2] ELSE NoSection>>

Store(pair) == result' = pair[1] /\ currentSection' = pair[2]

-----------------------------------------------------------------------------
\* The sections of a document, said of the whole document at once: texts are
\* those of its paragraphs, kept the places of the paragraphs that are not
\* empty and no rows of contents, heads those of the headings among them.
Under(kept, heads, head) == {i \in kept : head < i /\ \A h \in heads : h <= head \/ i < h}
SectionAt(kept, heads, texts, head) ==
  [title |-> normalizeTitle(texts[head]), text |-> Picked(Under(kept, heads, head), texts)]
Cut(kept, heads, texts) ==
  [k \in 1 .. Cardinality(heads) |-> SectionAt(kept, heads, texts, Nth(heads, k))]
=============================================================================
