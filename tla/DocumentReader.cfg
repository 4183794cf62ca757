\* Documents of up to four paragraphs with contents, of up to six nodes with
\* text boxes and bookmarks between paragraphs, and PDFs of up to three pages.
CONSTANTS
  Styles = {"", "Heading1"}
  Texts <- XmlTexts
  Configs <- XmlConfigs
  Nested = TRUE
  MaxNodes = 6
  Paras <- DocxParas
  MaxParas = 4
  Pages <- PdfPages
  MaxPages = 3
SPECIFICATION DocumentReaderSpec
INVARIANTS SectionsMatchDocument CollectedTitlesAreListed ContentsMatchSections PdfSectionsMatch
